--------------------------- MODULE BlobReferences ---------------------------
(***************************************************************************)
(* Reference counting and reclamation of content blobs, across the storage *)
(* service (dedup, the blob reaper, WORM) and the document service         *)
(* (version links, copies, purges, the post-purge object cleanup).         *)
(*                                                                         *)
(* A blob is a row id with its object key. Two blobs are two contents, or  *)
(* one content uploaded again after its row went: the unique hash decides  *)
(* only whether an upload makes a row or counts on one. Transactions are   *)
(* READ COMMITTED: a statement sees what had committed when it started,    *)
(* row updates wait for row locks, and inserting a version takes a KEY     *)
(* SHARE lock on the blob's row (its foreign key), which a plain count     *)
(* update does not conflict with but FOR UPDATE and DELETE do.             *)
(***************************************************************************)
EXTENDS Naturals, FiniteSets

CONSTANTS
  Docs,
  Blobs,          \* numbered in the order a reap cycle meets their rows:
                  \* tenant after tenant, oldest first within a tenant
  Batch,          \* rows one reap cycle examines
  MaxRefs,        \* bound: reference_count
  Reupload        \* may a content be uploaded again while its row exists?

ASSUME ReferencesAssumption ==
  /\ Blobs \subseteq Nat /\ Batch \in Nat \ {0}
  /\ MaxRefs \in Nat \ {0} /\ Reupload \in BOOLEAN

VARIABLES
  row,        \* blob -> "unused", "present" or "gone": its content_blobs row
  refs,       \* blob -> reference_count
  pending,    \* blob -> completed uploads not yet linked to a version
  aged,       \* blobs created before the reaper's cutoff
  worm,       \* blobs whose row points into the WORM bucket
  object,     \* blobs whose bytes exist where their row points
  doc,        \* document -> "none", "live", "trash" or "purged"
  links,      \* <<document, blob>>: committed version rows
  purging,    \* documents with an open purge transaction
  seen,       \* document -> blobs its purge's UPDATE sees linked by others
  released,   \* blobs a committed purge returned to its cleanup
  locked,     \* blobs whose row a cleanup holds, its delete not committed
  listed,     \* blobs some reaper listed and will try to delete
  condemned   \* blobs whose row a reaper deleted, bytes still to go

vars == <<row, refs, pending, aged, worm, object, doc, links, purging,
          seen, released, locked, listed, condemned>>

TypeOK ==
  /\ row \in [Blobs -> {"unused", "present", "gone"}]
  /\ refs \in [Blobs -> 0..MaxRefs] /\ pending \in [Blobs -> 0..MaxRefs]
  /\ doc \in [Docs -> {"none", "live", "trash", "purged"}]
  /\ seen \in [Docs -> SUBSET Blobs]
  /\ links \in SUBSET (Docs \X Blobs) /\ purging \subseteq Docs
  /\ aged \subseteq Blobs /\ worm \subseteq Blobs
  /\ object \subseteq Blobs /\ released \subseteq Blobs /\ locked \subseteq Blobs
  /\ listed \subseteq Blobs /\ condemned \subseteq Blobs

Init ==
  /\ row = [b \in Blobs |-> "unused"] /\ refs = [b \in Blobs |-> 0]
  /\ pending = [b \in Blobs |-> 0]
  /\ doc = [d \in Docs |-> "none"] /\ seen = [d \in Docs |-> {}]
  /\ links = {} /\ purging = {} /\ aged = {} /\ worm = {}
  /\ object = {} /\ released = {} /\ locked = {} /\ listed = {} /\ condemned = {}

Present(b)  == row[b] = "present"
Linked(b)   == \E d \in Docs : <<d, b>> \in links
BlobsOf(d)  == {b \in Blobs : <<d, b>> \in links}
\* Rows no other transaction holds FOR UPDATE: linking, counting and deleting
\* wait for them.
Free(b)     == Present(b) /\ b \notin locked

-----------------------------------------------------------------------------
(* Storage: the last transaction of CompleteUpload *)

UploadNew(b) ==
  /\ row[b] = "unused"
  /\ row' = [row EXCEPT ![b] = "present"]
  /\ refs' = [refs EXCEPT ![b] = 1] /\ pending' = [pending EXCEPT ![b] = 1]
  /\ object' = object \cup {b}
  /\ UNCHANGED <<aged, worm, doc, links, purging, seen, released,
                 locked, listed, condemned>>

\* A duplicate counts itself on the existing row.
UploadDuplicate(b) ==
  /\ Reupload /\ Free(b) /\ refs[b] < MaxRefs /\ pending[b] < MaxRefs
  /\ refs' = [refs EXCEPT ![b] = @ + 1]
  /\ pending' = [pending EXCEPT ![b] = @ + 1]
  /\ UNCHANGED <<row, aged, worm, object, doc, links, purging, seen, released,
                 locked, listed, condemned>>

\* Created more than the grace window ago.
Age(b) ==
  /\ Present(b) /\ b \notin aged
  /\ aged' = aged \cup {b}
  /\ UNCHANGED <<row, refs, pending, worm, object, doc, links, purging, seen,
                 released, locked, listed, condemned>>

\* ApplyWORM's pointer flip (the copy is in BlobRelocation). The row now
\* points at the copy, taken while the row had its bytes; a call that finds
\* none to copy fails before the flip.
ApplyWORM(b) ==
  /\ Free(b) /\ b \notin worm
  /\ worm' = worm \cup {b} /\ object' = object \cup {b}
  /\ UNCHANGED <<row, refs, pending, aged, doc, links, purging, seen,
                 released, locked, listed, condemned>>

-----------------------------------------------------------------------------
(* Documents: version links *)

CreateDocument(d) ==
  /\ doc[d] = "none"
  /\ doc' = [doc EXCEPT ![d] = "live"]
  /\ UNCHANGED <<row, refs, pending, aged, worm, object, links, purging, seen,
                 released, locked, listed, condemned>>

\* The uploader of a blob may link it at any later time, so may anyone who can
\* view a live document using it (claimBlobTx): every present row is linkable.
\* The count is not touched: the upload's own reference becomes the version's.
\* RestoreVersion links a blob the document already links.
CreateVersion(d, b) ==
  /\ doc[d] = "live" /\ Free(b)
  /\ links' = links \cup {<<d, b>>}
  /\ pending' = [pending EXCEPT ![b] = IF @ > 0 THEN @ - 1 ELSE 0]
  /\ UNCHANGED <<row, refs, aged, worm, object, doc, purging, seen, released,
                 locked, listed, condemned>>

CopyDocument(d, e, b) ==
  /\ doc[d] = "live" /\ doc[e] = "none" /\ <<d, b>> \in links
  /\ Free(b) /\ refs[b] < MaxRefs
  /\ doc' = [doc EXCEPT ![e] = "live"]
  /\ refs' = [refs EXCEPT ![b] = @ + 1]
  /\ links' = links \cup {<<e, b>>}
  /\ UNCHANGED <<row, pending, aged, worm, object, purging, seen, released,
                 locked, listed, condemned>>

DeleteDocument(d) ==
  /\ doc[d] = "live"
  /\ doc' = [doc EXCEPT ![d] = "trash"]
  /\ UNCHANGED <<row, refs, pending, aged, worm, object, links, purging, seen,
                 released, locked, listed, condemned>>

\* RestoreDocument's UPDATE waits for a purge that holds the document row.
RestoreDocument(d) ==
  /\ doc[d] = "trash" /\ d \notin purging
  /\ doc' = [doc EXCEPT ![d] = "live"]
  /\ UNCHANGED <<row, refs, pending, aged, worm, object, links, purging, seen,
                 released, locked, listed, condemned>>

-----------------------------------------------------------------------------
(* Documents: purge *)

\* The purge has locked the document, deleted its version rows (nobody else
\* sees that yet) and started the UPDATE of the counts: EXISTS will be
\* answered from this snapshot even if the UPDATE then waits for a row.
PurgeDocument(d) ==
  /\ doc[d] = "trash" /\ d \notin purging
  /\ purging' = purging \cup {d}
  /\ seen' = [seen EXCEPT
       ![d] = {b \in BlobsOf(d) : \E e \in Docs \ {d} : <<e, b>> \in links}]
  /\ UNCHANGED <<row, refs, pending, aged, worm, object, doc, links, released,
                 locked, listed, condemned>>

\* Mutant: no GREATEST.
ReleasedUnfloored(d, b) == refs[b] - 1

\* One document's reference on b goes; GREATEST keeps the count at 1 or 0.
Released(d, b) ==
  IF refs[b] > 1 THEN refs[b] - 1
  ELSE IF b \in seen[d] THEN 1 ELSE 0

\* The rows are locked, the counts written, what is now unreferenced read with
\* a fresh snapshot, and the transaction commits.
ReleaseDocumentBlobs(d) ==
  /\ d \in purging /\ \A b \in BlobsOf(d) : Free(b)
  /\ purging' = purging \ {d} /\ seen' = [seen EXCEPT ![d] = {}]
  /\ doc' = [doc EXCEPT ![d] = "purged"]
  /\ links' = {l \in links : l[1] # d}
  /\ refs' = [b \in Blobs |-> IF b \in BlobsOf(d) THEN Released(d, b) ELSE refs[b]]
  /\ released' = released \cup
       {b \in BlobsOf(d) : Released(d, b) = 0 /\ \A e \in Docs \ {d} : <<e, b>> \notin links}
  /\ UNCHANGED <<row, pending, aged, worm, object, locked, listed, condemned>>

\* Any error, or a crash, rolls the purge back.
PurgeRollsBack(d) ==
  /\ d \in purging
  /\ purging' = purging \ {d} /\ seen' = [seen EXCEPT ![d] = {}]
  /\ UNCHANGED <<row, refs, pending, aged, worm, object, doc, links, released,
                 locked, listed, condemned>>

-----------------------------------------------------------------------------
(* Documents: the cleanup after a purge (deleteReleasedObjects). A released  *)
(* blob it never starts on (budget spent, crash) is simply dropped.          *)

CleanupDropped(b) ==
  /\ b \in released \ locked
  /\ released' = released \ {b}
  /\ UNCHANGED <<row, refs, pending, aged, worm, object, doc, links,
                 purging, seen, locked, listed, condemned>>

\* Mutant: no re-check of the versions under the lock.
ReclaimableUnchecked(b) == refs[b] = 0 /\ b \notin worm

\* Mutant: no test of the bucket.
ReclaimableWorm(b) == refs[b] = 0 /\ ~Linked(b)

\* Re-checked under the row lock; WORM buckets are skipped.
Reclaimable(b) == refs[b] = 0 /\ ~Linked(b) /\ b \notin worm

\* FOR UPDATE, re-check, delete the row.
LockReleasedBlob(b) ==
  /\ b \in released /\ Free(b) /\ Reclaimable(b)
  /\ locked' = locked \cup {b}
  /\ UNCHANGED <<row, refs, pending, aged, worm, object, doc, links,
                 purging, seen, released, listed, condemned>>

\* The S3 delete takes effect; the row's deletion is not committed yet.
CleanupDeletesObject(b) ==
  /\ b \in locked \cap object
  /\ object' = object \ {b}
  /\ UNCHANGED <<row, refs, pending, aged, worm, doc, links, purging, seen,
                 released, locked, listed, condemned>>

\* The delete succeeded (of nothing, if the bytes were gone): the commit.
CleanupCommits(b) ==
  /\ b \in locked \ object
  /\ row' = [row EXCEPT ![b] = "gone"]
  /\ locked' = locked \ {b} /\ released' = released \ {b}
  /\ UNCHANGED <<refs, pending, aged, worm, object, doc, links, purging, seen,
                 listed, condemned>>

\* The row's deletion rolls back: S3 answered with an error or not within 20 s,
\* the commit failed, or the service died, before or after the bytes went.
CleanupFails(b) ==
  /\ b \in locked
  /\ locked' = locked \ {b} /\ released' = released \ {b}
  /\ UNCHANGED <<row, refs, pending, aged, worm, object, doc, links, purging,
                 seen, listed, condemned>>

-----------------------------------------------------------------------------
(* Storage: the blob reaper, one per storage replica *)

\* Mutant: the cutoff the wrong way round.
ListableYoung(b) == Present(b) /\ refs[b] = 0 /\ b \notin aged

Listable(b) == Present(b) /\ refs[b] = 0 /\ b \in aged

\* ORDER BY created_at LIMIT batch.
Oldest(S) == {b \in S : Cardinality({a \in S : a < b}) < Batch}

\* What one cycle lists and will not skip as WORM: the bucket is the listed one.
ListZeroRefOlderThan ==
  LET found == Oldest({b \in Blobs : Listable(b)}) \ worm
  IN /\ ~(found \subseteq listed)
     /\ listed' = listed \cup found
     /\ UNCHANGED <<row, refs, pending, aged, worm, object, doc, links,
                    purging, seen, released, locked, condemned>>

\* The guard is reference_count = 0; a version that links the row makes the
\* foreign key refuse.
Deletable(b) == Present(b) /\ refs[b] = 0 /\ ~Linked(b)

\* Mutant: the bytes go even when no row was deleted.
HardDeleteIgnored(b) ==
  /\ b \in listed /\ b \notin locked
  /\ listed' = listed \ {b} /\ condemned' = condemned \cup {b}
  /\ row' = [row EXCEPT ![b] = IF Deletable(b) THEN "gone" ELSE @]
  /\ UNCHANGED <<refs, pending, aged, worm, object, doc, links,
                 purging, seen, released, locked>>

\* HardDelete waits for the row's lock.
HardDelete(b) ==
  /\ b \in listed /\ b \notin locked
  /\ listed' = listed \ {b}
  /\ \/ /\ Deletable(b)
        /\ row' = [row EXCEPT ![b] = "gone"]
        /\ condemned' = condemned \cup {b}
     \/ /\ ~Deletable(b)
        /\ UNCHANGED <<row, condemned>>
  /\ UNCHANGED <<refs, pending, aged, worm, object, doc, links,
                 purging, seen, released, locked>>

\* Best effort; a failure leaks the bytes. The bucket is the listed one, so a
\* copy locked since then is not touched.
DeleteObject(b) ==
  /\ b \in condemned
  /\ condemned' = condemned \ {b}
  /\ object' \in {object, object \ ({b} \ worm)}
  /\ UNCHANGED <<row, refs, pending, aged, worm, doc, links, purging,
                 seen, released, locked, listed>>

ReaperCrash ==
  /\ listed # {} \/ condemned # {}
  /\ listed' = {} /\ condemned' = {}
  /\ UNCHANGED <<row, refs, pending, aged, worm, object, doc, links,
                 purging, seen, released, locked>>

-----------------------------------------------------------------------------
Next ==
  \/ \E b \in Blobs :
       \/ UploadNew(b) \/ UploadDuplicate(b) \/ Age(b) \/ ApplyWORM(b)
       \/ CleanupDropped(b) \/ LockReleasedBlob(b) \/ CleanupDeletesObject(b)
       \/ CleanupCommits(b) \/ CleanupFails(b) \/ HardDelete(b) \/ DeleteObject(b)
  \/ \E d \in Docs :
       \/ CreateDocument(d) \/ DeleteDocument(d) \/ RestoreDocument(d)
       \/ PurgeDocument(d) \/ ReleaseDocumentBlobs(d) \/ PurgeRollsBack(d)
  \/ \E d \in Docs, b \in Blobs : CreateVersion(d, b)
  \/ \E d \in Docs, e \in Docs, b \in Blobs : CopyDocument(d, e, b)
  \/ ListZeroRefOlderThan \/ ReaperCrash

Spec == Init /\ [][Next]_vars

\* Blobs get old; the reaper ticks every hour and lists what its batch holds,
\* and restarts do not come in every cycle before it gets to the same row; a
\* cleanup's transaction ends (its context times out).
Fairness ==
  /\ \A b \in Blobs :
       /\ WF_vars(Age(b)) /\ SF_vars(HardDelete(b))
       /\ WF_vars(CleanupCommits(b) \/ CleanupFails(b))
  /\ WF_vars(ListZeroRefOlderThan)

FairSpec == Spec /\ Fairness

-----------------------------------------------------------------------------
Readable(b) == Free(b) /\ b \in object

\* A row an upload can dedup onto, without bytes.
Bare(b) == Free(b) /\ b \notin object

(* What a version can read it can read until its document is purged,        *)
(* whatever purges, cleanups and reapers run beside it (the point of        *)
(* LockReleasedBlob's re-check, HardDelete's count guard and foreign key,   *)
(* and row before bytes).                                                   *)
LinkedReadable ==
  [][\A l \in links \cap links' : Readable(l[2]) => Readable(l[2])']_vars

(* A row loses its bytes in one way only: a cleanup's transaction rolls     *)
(* back after its S3 delete took effect, and then nothing referenced the    *)
(* row. deleteReleasedObjects says "never a row whose bytes are gone, which *)
(* a later identical upload could dedup onto" and names this residual; the  *)
(* reaper and everyone else leave none.                                     *)
BareByRollback ==
  [][\A b \in Blobs :
       ~Bare(b) /\ Bare(b)' => b \in locked /\ refs[b] = 0 /\ ~Linked(b)]_vars

(* A WORM row, which holds the only wrapped DEK of the retained bytes, is   *)
(* never picked for deletion, by a cleanup's lock or a reaper's listing;    *)
(* only a reaper that listed it before it was locked into WORM still        *)
(* deletes it (reapBlobs tests the listed bucket).                          *)
WormRowsKept ==
  [][\A b \in worm :
       /\ b \notin locked'
       /\ b \in listed' => b \in listed
       /\ Present(b) => Present(b)' \/ b \in listed]_vars

(* A blob with no version, no upload waiting to be linked and no purge of a *)
(* document using it in flight is at reference_count 0, the delete queue    *)
(* PurgeDocument promises to leave it in.                                   *)
UnreferencedQueued ==
  \A b \in Blobs :
    Present(b) /\ ~Linked(b) /\ pending[b] = 0 => refs[b] = 0

\* Rows every cycle lists before b and no cycle can delete fill its batch.
Crowded(b) ==
  Cardinality({a \in Blobs : a < b /\ Listable(a) /\ (a \in worm \/ Linked(a))})
    >= Batch

(* An unreferenced row at count 0 is deleted, unless it is referenced again *)
(* or locked into WORM first, or a whole batch of rows that stay for ever   *)
(* (WORM, or linked at count 0) comes before it: what the cleanup does not  *)
(* finish, the reaper does.                                                 *)
QueueDrained ==
  \A b \in Blobs :
    (Present(b) /\ refs[b] = 0 /\ ~Linked(b)) ~>
      (row[b] = "gone" \/ refs[b] > 0 \/ Linked(b) \/ b \in worm \/ Crowded(b))

(* The rows, counts, links, cleanups and reapers together implement a store *)
(* that reclaims a blob, or loses its bytes, only while no version points   *)
(* at it.                                                                   *)
Store == INSTANCE BlobStore WITH
  stored <- {b \in Blobs : Readable(b)}, lost <- {b \in Blobs : Bare(b)},
  linked <- links

ImplementsBlobStore == Store!SSpec
=============================================================================
