----------------------------- MODULE BlobStore -----------------------------
(***************************************************************************)
(* What documents are promised about the bytes their versions point at:    *)
(* a blob is stored, versions are linked to it, and it is reclaimed, or    *)
(* found without its bytes, only while no version points at it. A blob     *)
(* lost in that way can still be linked.                                   *)
(***************************************************************************)
CONSTANTS Docs, Blobs

VARIABLES
  stored,   \* blobs whose row and bytes are both there
  lost,     \* blobs whose row is there and whose bytes are not
  linked    \* <<document, blob>> pairs: a version of the document uses it

svars == <<stored, lost, linked>>

SInit == stored = {} /\ lost = {} /\ linked = {}

Unlinked(b) == \A d \in Docs : <<d, b>> \notin linked

Store(b) ==
  /\ b \notin stored
  /\ stored' = stored \cup {b} /\ lost' = lost \ {b} /\ linked' = linked

Lose(b) ==
  /\ b \notin stored /\ Unlinked(b)
  /\ lost' = lost \cup {b} /\ UNCHANGED <<stored, linked>>

Link(d, b) ==
  /\ b \in stored \cup lost
  /\ linked' = linked \cup {<<d, b>>} /\ UNCHANGED <<stored, lost>>

Unlink(d) ==
  linked' = {l \in linked : l[1] # d} /\ UNCHANGED <<stored, lost>>

Reclaim(b) ==
  /\ Unlinked(b)
  /\ stored' = stored \ {b} /\ lost' = lost \ {b} /\ linked' = linked

SNext ==
  \/ \E b \in Blobs : Store(b) \/ Lose(b) \/ Reclaim(b)
  \/ \E d \in Docs, b \in Blobs : Link(d, b)
  \/ \E d \in Docs : Unlink(d)

SSpec == SInit /\ [][SNext]_svars
=============================================================================
