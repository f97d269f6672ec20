--------------------------- MODULE BlobRelocation ---------------------------
(***************************************************************************)
(* One content blob while its bytes and its envelope are moved: regional    *)
(* re-encryption (ReencryptBlob), WORM locking (ApplyWORM) and key-rotation *)
(* re-wrapping (RewrapDEK), any number at a time. Each call reads the row,  *)
(* works outside any transaction, and writes it back with compare-and-set.  *)
(*                                                                         *)
(* Every encryption makes a fresh data key and object key: generation g is  *)
(* ciphertext stored under key g and opened only by DEK g (its nonce too).  *)
(* KEK version 0 stands for the regional alias of the row's region; base    *)
(* aliases are versions 1, 2, ...                                          *)
(***************************************************************************)
EXTENDS Naturals

CONSTANTS
  Calls,           \* concurrent requests
  Regions,
  Home,            \* the region of the upload
  MaxGeneration,   \* bound: encryptions
  MaxVersion,      \* bound: KEK rotations
  AmbiguousCommit  \* may a commit take effect and still report an error?

ASSUME RelocationAssumption ==
  /\ Home \in Regions
  /\ MaxGeneration \in Nat /\ MaxVersion \in Nat \ {0}
  /\ AmbiguousCommit \in BOOLEAN

VARIABLES
  row,       \* the content_blobs row: where the bytes are and their envelope
  object,    \* <<tier, region, key>> of the objects S3 returns
  retained,  \* locations under object-lock retention
  live,      \* the tenant's live KEK version
  drawn,     \* generations handed out so far
  call       \* request -> where it is and what it read

vars == <<row, object, retained, live, drawn, call>>

\* "hot" stands for every bucket without object lock.
Tiers     == {"hot", "worm"}
Locations == Tiers \X Regions \X (0..MaxGeneration)
Rows      == [tier : Tiers, region : Regions, key : 0..MaxGeneration,
              dek : 0..MaxGeneration, ver : 0..MaxVersion]
Stages    == {"idle", "get", "put", "migrate", "dropOld", "dropNew",
              "copy", "retain", "lock", "extend", "unwrap", "envelope"}

\* snap: the row as read; to, tier: target region and tier; gen: the new
\* object's generation; ver: the KEK version a re-wrap targets.
CallStates == [at : Stages, snap : Rows, to : Regions, tier : Tiers,
               gen : 0..MaxGeneration, ver : 0..MaxVersion]

TypeOK ==
  /\ row \in Rows /\ object \subseteq Locations /\ retained \subseteq Locations
  /\ live \in 1..MaxVersion /\ drawn \in 0..MaxGeneration
  /\ call \in [Calls -> CallStates]

At(c)       == call[c].at
Snap(c)     == call[c].snap
LocOf(r)    == <<r.tier, r.region, r.key>>
NewLoc(c)   == <<call[c].tier, call[c].to, call[c].gen>>
WormLoc(c)  == <<"worm", Snap(c).region, Snap(c).key>>

\* A fresh upload, encrypted under the tenant's first KEK.
Uploaded == [tier |-> "hot", region |-> Home, key |-> 0, dek |-> 0, ver |-> 1]
Idle     == [at |-> "idle", snap |-> Uploaded, to |-> Home, tier |-> "hot",
             gen |-> 0, ver |-> 0]

Init ==
  /\ row = Uploaded /\ object = {LocOf(Uploaded)} /\ retained = {}
  /\ live = 1 /\ drawn = 0 /\ call = [c \in Calls |-> Idle]

-----------------------------------------------------------------------------
\* A request as it starts: the row it read, and its target.
Read(stage, r, t) ==
  [at |-> stage, snap |-> row, to |-> r, tier |-> t, gen |-> 0, ver |-> 0]

Enter(c, r)    == call' = [call EXCEPT ![c] = r]
Move(c, stage) == call' = [call EXCEPT ![c].at = stage]
Done(c)        == call' = [call EXCEPT ![c] = Idle]

\* dms-admin kms rotate
RotateKEK ==
  /\ live < MaxVersion /\ live' = live + 1
  /\ UNCHANGED <<row, object, retained, drawn, call>>

\* The request dies, or a step that writes nothing fails.
Crash(c) ==
  /\ At(c) # "idle" /\ Done(c)
  /\ UNCHANGED <<row, object, retained, live, drawn>>

-----------------------------------------------------------------------------
(* ReencryptBlob *)

\* Already in the region under its alias: no work.
Resident(r) == row.region = r /\ row.ver = 0

\* The target tier is the caller's, "hot" if none is given; a blob in the WORM
\* bucket is refused.
ReencryptBlob(c, r, t) ==
  /\ At(c) = "idle" /\ row.tier # "worm" /\ ~Resident(r)
  /\ Enter(c, Read("get", r, t))
  /\ UNCHANGED <<row, object, retained, live, drawn>>

\* The ciphertext is read and decrypted with the envelope the row had, and
\* encrypted under a fresh one that is verified to round-trip. A missing
\* object or a wrong key fails the call (Crash).
GetObject(c) ==
  /\ At(c) = "get" /\ LocOf(Snap(c)) \in object /\ Snap(c).dek = Snap(c).key
  /\ drawn < MaxGeneration /\ drawn' = drawn + 1
  /\ Enter(c, [call[c] EXCEPT !.at = "put", !.gen = drawn + 1])
  /\ UNCHANGED <<row, object, retained, live>>

PutObject(c) ==
  /\ At(c) = "put" /\ object' = object \cup {NewLoc(c)} /\ Move(c, "migrate")
  /\ UNCHANGED <<row, retained, live, drawn>>

\* Mutant: compares the envelope but not the location.
UnmovedEnvelope(c) == row.dek = Snap(c).dek /\ row.ver = Snap(c).ver

\* The compare-and-set of UpdateMigration: region, bucket, key, nonce, wrapped
\* DEK and KEK are what the call read.
Unmoved(c) == row = Snap(c)

\* A conflict is an error like any other: the new object is dropped.
UpdateMigration(c) ==
  /\ At(c) = "migrate"
  /\ \/ /\ Unmoved(c)
        /\ row' = [tier |-> call[c].tier, region |-> call[c].to, key |-> call[c].gen,
                   dek |-> call[c].gen, ver |-> 0]
        /\ Move(c, "dropOld") \/ (AmbiguousCommit /\ Move(c, "dropNew"))
     \/ row' = row /\ Move(c, "dropNew")
  /\ UNCHANGED <<object, retained, live, drawn>>

\* Mutant: the failure path removes the source.
DeleteNewObjectSource(c) ==
  /\ At(c) = "dropNew"
  /\ object' \in {object, object \ {LocOf(Snap(c))}}
  /\ Done(c)
  /\ UNCHANGED <<row, retained, live, drawn>>

\* Best effort: the object may stay. In the WORM bucket a delete hides it behind
\* a marker.
DeleteNewObject(c) ==
  /\ At(c) = "dropNew" /\ object' \in {object, object \ {NewLoc(c)}}
  /\ Done(c)
  /\ UNCHANGED <<row, retained, live, drawn>>

DeleteOldObject(c) ==
  /\ At(c) = "dropOld"
  /\ object' \in {object, object \ {LocOf(Snap(c))}}
  /\ Done(c)
  /\ UNCHANGED <<row, retained, live, drawn>>

-----------------------------------------------------------------------------
(* ApplyWORM *)

\* A blob already in the WORM bucket is not copied again.
ApplyWORM(c) ==
  /\ At(c) = "idle"
  /\ Enter(c, Read(IF row.tier = "worm" THEN "extend" ELSE "copy", row.region, "worm"))
  /\ UNCHANGED <<row, object, retained, live, drawn>>

\* Its retention changes in place; S3 may refuse (Crash).
ExtendRetention(c) ==
  /\ At(c) = "extend" /\ WormLoc(c) \in object
  /\ retained' = retained \cup {WormLoc(c)} /\ Done(c)
  /\ UNCHANGED <<row, object, live, drawn>>

CopyObject(c) ==
  /\ At(c) = "copy" /\ LocOf(Snap(c)) \in object
  /\ object' = object \cup {WormLoc(c)} /\ Move(c, "retain")
  /\ UNCHANGED <<row, retained, live, drawn>>

SetObjectRetention(c) ==
  /\ At(c) = "retain"
  /\ retained' = retained \cup {WormLoc(c)} /\ Move(c, "lock")
  /\ UNCHANGED <<row, object, live, drawn>>

LockPointer(c) ==
  /\ At(c) = "lock" /\ Done(c)
  /\ \/ Unmoved(c) /\ row' = [row EXCEPT !.tier = "worm"]
     \/ row' = row
  /\ UNCHANGED <<object, retained, live, drawn>>

-----------------------------------------------------------------------------
(* RewrapDEK *)

RewrapDEK(c) ==
  /\ At(c) = "idle" /\ row.ver # 0
  /\ Enter(c, Read("unwrap", row.region, row.tier))
  /\ UNCHANGED <<row, object, retained, live, drawn>>

\* Mutant: wraps under the version after the live one.
EncryptDataKeyNext(c) ==
  /\ At(c) = "unwrap" /\ Snap(c).ver # live
  /\ Enter(c, [call[c] EXCEPT !.at = "envelope", !.ver = live + 1])
  /\ UNCHANGED <<row, object, retained, live, drawn>>

\* The live KEK is read in a transaction of its own, the DEK re-wrapped and
\* verified.
EncryptDataKey(c) ==
  /\ At(c) = "unwrap" /\ Snap(c).ver # live
  /\ Enter(c, [call[c] EXCEPT !.at = "envelope", !.ver = live])
  /\ UNCHANGED <<row, object, retained, live, drawn>>

\* The compare-and-set of UpdateEnvelope leaves the location out: the same
\* ciphertext, wherever it is now, still opens.
SameEnvelope(c) == row.dek = Snap(c).dek /\ row.ver = Snap(c).ver

UpdateEnvelope(c) ==
  /\ At(c) = "envelope" /\ Done(c)
  /\ \/ SameEnvelope(c) /\ row' = [row EXCEPT !.dek = Snap(c).dek, !.ver = call[c].ver]
     \/ row' = row
  /\ UNCHANGED <<object, retained, live, drawn>>

-----------------------------------------------------------------------------
Next ==
  \/ RotateKEK
  \/ \E c \in Calls :
       \/ Crash(c) \/ ApplyWORM(c) \/ RewrapDEK(c)
       \/ \E r \in Regions, t \in Tiers : ReencryptBlob(c, r, t)
       \/ GetObject(c) \/ PutObject(c) \/ UpdateMigration(c)
       \/ DeleteNewObject(c) \/ DeleteOldObject(c)
       \/ CopyObject(c) \/ SetObjectRetention(c) \/ LockPointer(c)
       \/ ExtendRetention(c)
       \/ EncryptDataKey(c) \/ UpdateEnvelope(c)

Spec == Init /\ [][Next]_vars

-----------------------------------------------------------------------------
(* The row always points at an object its own envelope opens, at every      *)
(* instant of every migration, lock and re-wrap, failed or not: what fresh  *)
(* keys and compare-and-set (D-15, D-18) are for.                           *)
RowReadable == LocOf(row) \in object /\ row.dek = row.key

(* ApplyWORM flips the row only to a copy under retention, and a row on one *)
(* stays on one. A migration with target tier "worm" also ends in the WORM  *)
(* bucket, without retention until ApplyWORM is called on it.               *)
RetentionKept ==
  [][/\ row.tier = "hot" /\ row' = [row EXCEPT !.tier = "worm"] => LocOf(row') \in retained
     /\ row.tier = "worm" /\ LocOf(row) \in retained => LocOf(row') \in retained']_vars

(* A row in the WORM bucket never leaves it: no move that was under way     *)
(* when the blob was locked unlocks it.                                     *)
WormStays == [][row.tier = "worm" => LocOf(row') = LocOf(row)]_vars

(* A re-wrap never takes the blob back to an older KEK, nor a blob that     *)
(* moved to a regional KEK back to a tenant-wide one.                       *)
KEKForward ==
  [][row'.ver # row.ver => row'.ver = 0 \/ (row.ver # 0 /\ row'.ver > row.ver)]_vars

(* Migrations, locks and re-wraps under way at once, failed or not, are to  *)
(* readers one row that switches atomically between copies it opens: the    *)
(* new copy is there before the row points at it, the old one goes after,   *)
(* the row never returns to a copy somebody may be deleting, and a lock     *)
(* switches to a retained copy.                                             *)
Pointer == INSTANCE BlobPointer WITH copies <- object

ImplementsPointer == Pointer!PSpec
=============================================================================
