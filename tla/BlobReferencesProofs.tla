------------------------ MODULE BlobReferencesProofs ------------------------
(***************************************************************************)
(* Proofs about BlobReferences, for any documents and blobs and any batch:  *)
(* types, that linked blobs stay readable, how a row can lose its bytes,    *)
(* how a WORM row can go, and the refinement of BlobStore.                  *)
(***************************************************************************)
EXTENDS BlobReferences, TLAPS

(* Where a row stands while others delete: linked rows are free, a cleanup  *)
(* only locks present rows nothing references, and a reaper's object        *)
(* deletes follow row deletes.                                              *)
LinksFree    == \A d \in Docs, b \in Blobs : <<d, b>> \in links => Free(b)
LockedRows   == \A b \in locked : Present(b) /\ refs[b] = 0
CondemnedOut == \A b \in condemned : row[b] = "gone"

RowInv == LinksFree /\ LockedRows /\ CondemnedOut

IInv == TypeOK /\ RowInv

-----------------------------------------------------------------------------
(* Types *)

LEMMA InitTypes == Init => TypeOK
  BY SMTT(30), ReferencesAssumption DEF Init, TypeOK

LEMMA StepTypes == TypeOK /\ [Next]_vars => TypeOK'
<1> SUFFICES ASSUME TypeOK, [Next]_vars PROVE TypeOK'
  OBVIOUS
<1>0. MaxRefs \in Nat \ {0}
  BY ReferencesAssumption
<1> USE <1>0 DEF TypeOK
<1>1a. CASE \E b \in Blobs : UploadNew(b)
  BY <1>1a DEF UploadNew
<1>1b. CASE \E b \in Blobs : UploadDuplicate(b)
  BY <1>1b DEF UploadDuplicate
<1>1. CASE \E b \in Blobs : Age(b) \/ ApplyWORM(b)
  BY <1>1 DEF Age, ApplyWORM
<1>2. CASE \E b \in Blobs : CleanupDropped(b) \/ LockReleasedBlob(b)
             \/ CleanupDeletesObject(b) \/ CleanupCommits(b) \/ CleanupFails(b)
             \/ DeleteObject(b)
  BY <1>2 DEF CleanupDropped, LockReleasedBlob, CleanupDeletesObject,
     CleanupCommits, CleanupFails, DeleteObject
<1>3. CASE \E b \in Blobs : HardDelete(b)
  BY <1>3 DEF HardDelete
<1>4. CASE \E d \in Docs : CreateDocument(d) \/ DeleteDocument(d) \/ RestoreDocument(d)
  BY <1>4 DEF CreateDocument, DeleteDocument, RestoreDocument
<1>5a. ASSUME NEW d \in Docs, PurgeDocument(d) \/ PurgeRollsBack(d) PROVE TypeOK'
  <2>1. seen' \in [Docs -> SUBSET Blobs] /\ purging' \subseteq Docs
    BY ZenonT(60), <1>5a DEF PurgeDocument, PurgeRollsBack, BlobsOf
  <2>2. UNCHANGED <<row, refs, pending, aged, worm, object, doc, links,
                    released, locked, listed, condemned>>
    BY <1>5a DEF PurgeDocument, PurgeRollsBack
  <2> QED
    BY <2>1, <2>2
<1>5. ASSUME NEW d \in Docs, ReleaseDocumentBlobs(d) PROVE TypeOK'
  <2>1. \A b \in Blobs : Released(d, b) \in 0..MaxRefs
    BY DEF Released
  <2>2. refs' \in [Blobs -> 0..MaxRefs]
    BY <1>5, <2>1 DEF ReleaseDocumentBlobs
  <2> QED
    BY <1>5, <2>2 DEF ReleaseDocumentBlobs, BlobsOf
<1>6. ASSUME NEW d \in Docs, NEW b \in Blobs, CreateVersion(d, b) PROVE TypeOK'
  <2>1. pending' \in [Blobs -> 0..MaxRefs]
    BY <1>6 DEF CreateVersion
  <2> QED
    BY <1>6, <2>1 DEF CreateVersion
<1>7. CASE \E d \in Docs, e \in Docs, b \in Blobs : CopyDocument(d, e, b)
  BY <1>7 DEF CopyDocument
<1>8. CASE ListZeroRefOlderThan \/ ReaperCrash
  BY <1>8 DEF ListZeroRefOlderThan, Oldest, ReaperCrash
<1>9. CASE UNCHANGED vars
  BY <1>9 DEF vars
<1> QED
  BY <1>1a, <1>1b, <1>1, <1>2, <1>3, <1>4, <1>5a, <1>5, <1>6, <1>7, <1>8, <1>9 DEF Next

(* TypeOK: rows, counts, links and the sets of every transaction and reaper *)
(* stay of their types; a purge never takes a count below 0.                *)
THEOREM BlobsTyped == Spec => []TypeOK
<1>1. Init => TypeOK
  BY InitTypes
<1>2. TypeOK /\ [Next]_vars => TypeOK'
  BY StepTypes
<1> QED
  BY <1>1, <1>2, PTL DEF Spec

-----------------------------------------------------------------------------
(* Rows *)

LEMMA InitRows == Init => RowInv
  BY DEF Init, RowInv, LinksFree, LockedRows, CondemnedOut, Present, Free

(* Steps that touch neither rows, counts, links nor the deleters' sets. *)
Still == UNCHANGED <<row, refs, links, locked, condemned>>

LEMMA StillRows == RowInv /\ Still => RowInv'
  BY DEF Still, RowInv, LinksFree, LockedRows, CondemnedOut, Present, Free

LEMMA StepRows == ASSUME TypeOK, RowInv, [Next]_vars PROVE RowInv'
<1> USE DEF RowInv, LinksFree, LockedRows, CondemnedOut, Present, Free
<1>1. ASSUME NEW b \in Blobs, UploadNew(b) PROVE RowInv'
  <2>1. row[b] = "unused" /\ UNCHANGED <<links, locked, condemned>>
    BY <1>1 DEF UploadNew
  <2>2. \A a \in Blobs : /\ row'[a] = IF a = b THEN "present" ELSE row[a]
                         /\ refs'[a] = IF a = b THEN 1 ELSE refs[a]
    BY <1>1 DEF UploadNew, TypeOK
  <2> QED
    BY <2>1, <2>2 DEF TypeOK
<1>2. ASSUME NEW d \in Docs, NEW b \in Blobs, CreateVersion(d, b) PROVE RowInv'
  <2>1. /\ links' = links \cup {<<d, b>>} /\ Free(b)
        /\ UNCHANGED <<row, refs, locked, condemned>>
    BY <1>2 DEF CreateVersion
  <2> QED
    BY <2>1
<1>3. ASSUME NEW d \in Docs, NEW e \in Docs, NEW b \in Blobs, CopyDocument(d, e, b)
      PROVE  RowInv'
  <2>1. /\ links' = links \cup {<<e, b>>} /\ Free(b)
        /\ UNCHANGED <<row, locked, condemned>>
    BY <1>3 DEF CopyDocument
  <2>2. \A a \in Blobs : a # b => refs'[a] = refs[a]
    BY <1>3 DEF CopyDocument, TypeOK
  <2> QED
    BY <2>1, <2>2 DEF TypeOK
<1>4. ASSUME NEW d \in Docs, ReleaseDocumentBlobs(d) PROVE RowInv'
  <2>1. links' \subseteq links /\ UNCHANGED <<row, locked, condemned>>
    BY <1>4 DEF ReleaseDocumentBlobs
  <2>2. \A a \in locked : refs'[a] = refs[a]
    BY <1>4 DEF ReleaseDocumentBlobs, TypeOK
  <2> QED
    BY <2>1, <2>2
<1>5. ASSUME NEW b \in Blobs, LockReleasedBlob(b) PROVE RowInv'
  <2>1. /\ \A d \in Docs : <<d, b>> \notin links
        /\ Free(b) /\ refs[b] = 0 /\ locked' = locked \cup {b}
        /\ UNCHANGED <<row, refs, links, condemned>>
    BY <1>5 DEF LockReleasedBlob, Reclaimable, Linked
  <2> QED
    BY <2>1
<1>6. ASSUME NEW b \in Blobs, CleanupCommits(b) PROVE RowInv'
  <2>1. b \in locked /\ locked' = locked \ {b} /\ UNCHANGED <<refs, links, condemned>>
    BY <1>6 DEF CleanupCommits
  <2>2. \A a \in Blobs : row'[a] = IF a = b THEN "gone" ELSE row[a]
    BY <1>6 DEF CleanupCommits, TypeOK
  <2> QED
    BY <2>1, <2>2 DEF TypeOK
<1>7. ASSUME NEW b \in Blobs, CleanupFails(b) PROVE RowInv'
  <2>1. locked' = locked \ {b} /\ UNCHANGED <<row, refs, links, condemned>>
    BY <1>7 DEF CleanupFails
  <2> QED
    BY <2>1
<1>8. ASSUME NEW b \in Blobs, HardDelete(b) PROVE RowInv'
  <2>1. b \notin locked /\ UNCHANGED <<refs, links, locked>>
    BY <1>8 DEF HardDelete
  <2>2. CASE Deletable(b)
    <3>1. \A a \in Blobs : row'[a] = IF a = b THEN "gone" ELSE row[a]
      BY Zenon, <1>8, <2>2 DEF HardDelete, TypeOK
    <3>2. condemned' = condemned \cup {b} /\ \A d \in Docs : <<d, b>> \notin links
      BY <1>8, <2>2 DEF HardDelete, Deletable, Linked
    <3> QED
      BY <2>1, <3>1, <3>2 DEF TypeOK
  <2>3. CASE ~Deletable(b)
    BY <1>8, <2>1, <2>3 DEF HardDelete
  <2> QED
    BY <2>2, <2>3
<1>9. ASSUME NEW b \in Blobs, DeleteObject(b) PROVE RowInv'
  <2>1. condemned' = condemned \ {b} /\ UNCHANGED <<row, refs, links, locked>>
    BY <1>9 DEF DeleteObject
  <2> QED
    BY <2>1
<1>10. CASE ReaperCrash
  BY <1>10 DEF ReaperCrash
<1>11. CASE ListZeroRefOlderThan \/ UNCHANGED vars
  BY <1>11, StillRows DEF ListZeroRefOlderThan, vars, Still
<1>12. CASE \E b \in Blobs : Age(b) \/ ApplyWORM(b) \/ CleanupDropped(b)
              \/ CleanupDeletesObject(b)
  BY <1>12, StillRows DEF Age, ApplyWORM, CleanupDropped, CleanupDeletesObject, Still
<1>13. ASSUME NEW b \in Blobs, UploadDuplicate(b) PROVE RowInv'
  <2>1. b \notin locked /\ UNCHANGED <<row, links, locked, condemned>>
    BY <1>13 DEF UploadDuplicate
  <2>2. \A a \in Blobs : a # b => refs'[a] = refs[a]
    BY <1>13 DEF UploadDuplicate, TypeOK
  <2> QED
    BY <2>1, <2>2 DEF TypeOK
<1>14. CASE \E d \in Docs : CreateDocument(d) \/ DeleteDocument(d)
              \/ RestoreDocument(d) \/ PurgeDocument(d) \/ PurgeRollsBack(d)
  BY <1>14, StillRows DEF CreateDocument, DeleteDocument, RestoreDocument,
     PurgeDocument, PurgeRollsBack, Still
<1> QED
  BY Zenon, <1>1, <1>2, <1>3, <1>4, <1>5, <1>6, <1>7, <1>8, <1>9, <1>10, <1>11, <1>12,
     <1>13, <1>14 DEF Next

LEMMA RowsInvariant == Spec => []IInv
<1>1. Init => IInv
  BY InitTypes, InitRows DEF IInv
<1>2. IInv /\ [Next]_vars => IInv'
  BY StepTypes, StepRows DEF IInv
<1> QED
  BY <1>1, <1>2, PTL DEF Spec

-----------------------------------------------------------------------------
(* What a step does to the row and the bytes of one blob. *)

Unlinked(b) == \A d \in Docs : <<d, b>> \notin links

Appears(b)  == /\ row[b] = "unused" /\ Readable(b)'
Locks(b)    == /\ Free(b) /\ Unlinked(b) /\ ~Free(b)'
Unlocks(b)  == /\ b \in locked /\ Unlinked(b) /\ refs[b] = 0
               /\ Free(b)' /\ (b \in object' <=> b \in object)
Leaves(b)   == /\ ~Free(b)'
               /\ ~Free(b) \/ Unlinked(b)
Restores(b) == Free(b) /\ Readable(b)'

(* Every blob a step touches changes in one of these ways, and a step that   *)
(* touches one leaves the links and the other blobs as they were.            *)
Alone(b) ==
  /\ links' = links
  /\ \A a \in Blobs \ {b} : (Free(a)' <=> Free(a)) /\ (a \in object' <=> a \in object)

Rest == \A a \in Blobs : (Free(a)' <=> Free(a)) /\ (a \in object' <=> a \in object)

Touch(b) == Alone(b) /\ (Appears(b) \/ Locks(b) \/ Unlocks(b) \/ Leaves(b) \/ Restores(b))

Relink ==
  \/ \E d \in Docs, b \in Blobs : Free(b) /\ links' = links \cup {<<d, b>>}
  \/ \E d \in Docs : links' = {l \in links : l[1] # d}

LEMMA StepKinds ==
  ASSUME IInv, [Next]_vars
  PROVE  \/ \E b \in Blobs : Touch(b)
         \/ Rest /\ Relink
         \/ Rest /\ links' = links
<1> USE DEF IInv, RowInv, LinksFree, LockedRows, CondemnedOut, Present, Free, Unlinked
<1>1. ASSUME NEW b \in Blobs, UploadNew(b) PROVE Touch(b)
  <2>1. \A a \in Blobs : row'[a] = IF a = b THEN "present" ELSE row[a]
    BY <1>1 DEF UploadNew, TypeOK
  <2>2. /\ row[b] = "unused" /\ object' = object \cup {b}
        /\ UNCHANGED <<links, locked>>
    BY <1>1 DEF UploadNew
  <2>3. b \notin locked
    BY <2>2
  <2>4. Alone(b)
    BY <2>1, <2>2 DEF Alone
  <2>5. Appears(b)
    BY <2>1, <2>2, <2>3 DEF Appears, Readable
  <2> QED
    BY <2>4, <2>5 DEF Touch
<1>2. ASSUME NEW b \in Blobs, ApplyWORM(b) PROVE Touch(b)
  <2>1. Free(b) /\ object' = object \cup {b} /\ UNCHANGED <<row, links, locked>>
    BY <1>2 DEF ApplyWORM
  <2>2. Alone(b)
    BY <2>1 DEF Alone
  <2>3. Restores(b)
    BY <2>1 DEF Restores, Readable
  <2> QED
    BY <2>2, <2>3 DEF Touch
<1>3. ASSUME NEW b \in Blobs, LockReleasedBlob(b) PROVE Touch(b)
  <2>1. Free(b) /\ Unlinked(b) /\ locked' = locked \cup {b}
        /\ UNCHANGED <<row, links, object>>
    BY <1>3 DEF LockReleasedBlob, Reclaimable, Linked
  <2>2. Alone(b)
    BY <2>1 DEF Alone
  <2>3. Locks(b)
    BY <2>1 DEF Locks
  <2> QED
    BY <2>2, <2>3 DEF Touch
<1>4. ASSUME NEW b \in Blobs, CleanupDeletesObject(b) PROVE Touch(b)
  <2>1. b \in locked /\ object' = object \ {b} /\ UNCHANGED <<row, links, locked>>
    BY <1>4 DEF CleanupDeletesObject
  <2>2. Alone(b)
    BY <2>1 DEF Alone
  <2>3. Leaves(b)
    BY <2>1 DEF Leaves
  <2> QED
    BY <2>2, <2>3 DEF Touch
<1>5. ASSUME NEW b \in Blobs, CleanupCommits(b) PROVE Touch(b)
  <2>1. \A a \in Blobs : row'[a] = IF a = b THEN "gone" ELSE row[a]
    BY <1>5 DEF CleanupCommits, TypeOK
  <2>2. b \in locked /\ locked' = locked \ {b} /\ UNCHANGED <<links, object>>
    BY <1>5 DEF CleanupCommits
  <2>3. Alone(b)
    BY <2>1, <2>2 DEF Alone
  <2>4. Leaves(b)
    BY <2>1, <2>2 DEF Leaves
  <2> QED
    BY <2>3, <2>4 DEF Touch
<1>6. ASSUME NEW b \in Blobs, CleanupFails(b) PROVE Touch(b)
  <2>1. b \in locked /\ locked' = locked \ {b} /\ UNCHANGED <<row, links, object>>
    BY <1>6 DEF CleanupFails
  <2>2. Unlinked(b) /\ refs[b] = 0 /\ Free(b)'
    BY <2>1
  <2>3. Alone(b)
    BY <2>1 DEF Alone
  <2>4. Unlocks(b)
    BY <2>1, <2>2 DEF Unlocks
  <2> QED
    BY <2>3, <2>4 DEF Touch
<1>7. ASSUME NEW b \in Blobs, HardDelete(b)
      PROVE  Touch(b) \/ (Rest /\ links' = links)
  <2>1. UNCHANGED <<links, object, locked>>
    BY <1>7 DEF HardDelete
  <2>2. CASE Deletable(b)
    <3>1. \A a \in Blobs : row'[a] = IF a = b THEN "gone" ELSE row[a]
      BY <1>7, <2>2 DEF HardDelete, TypeOK
    <3>2. Unlinked(b)
      BY <2>2 DEF Deletable, Linked
    <3>3. Alone(b)
      BY <2>1, <3>1 DEF Alone
    <3>4. Leaves(b)
      BY <3>1, <3>2 DEF Leaves
    <3> QED
      BY <3>3, <3>4 DEF Touch
  <2>3. CASE ~Deletable(b)
    BY <1>7, <2>1, <2>3 DEF HardDelete, Rest
  <2> QED
    BY <2>2, <2>3
<1>8. ASSUME NEW b \in Blobs, DeleteObject(b) PROVE Touch(b)
  <2>1. /\ row[b] = "gone" /\ \A a \in Blobs \ {b} : a \in object' <=> a \in object
        /\ UNCHANGED <<row, links, locked>>
    BY <1>8 DEF DeleteObject
  <2>2. Alone(b)
    BY <2>1 DEF Alone
  <2>3. Leaves(b)
    BY <2>1 DEF Leaves
  <2> QED
    BY <2>2, <2>3 DEF Touch
<1>9. ASSUME NEW d \in Docs, NEW b \in Blobs, CreateVersion(d, b) PROVE Rest /\ Relink
  <2>1. Free(b) /\ links' = links \cup {<<d, b>>} /\ UNCHANGED <<row, object, locked>>
    BY <1>9 DEF CreateVersion
  <2>2. Relink
    BY <2>1 DEF Relink
  <2> QED
    BY <2>1, <2>2 DEF Rest
<1>10. ASSUME NEW d \in Docs, NEW e \in Docs, NEW b \in Blobs, CopyDocument(d, e, b)
       PROVE  Rest /\ Relink
  <2>1. Free(b) /\ links' = links \cup {<<e, b>>} /\ UNCHANGED <<row, object, locked>>
    BY <1>10 DEF CopyDocument
  <2>2. Relink
    BY <2>1 DEF Relink
  <2> QED
    BY <2>1, <2>2 DEF Rest
<1>11. ASSUME NEW d \in Docs, ReleaseDocumentBlobs(d) PROVE Rest /\ Relink
  <2>1. links' = {l \in links : l[1] # d} /\ UNCHANGED <<row, object, locked>>
    BY <1>11 DEF ReleaseDocumentBlobs
  <2>2. Relink
    BY <2>1 DEF Relink
  <2> QED
    BY <2>1, <2>2 DEF Rest
<1>12. ASSUME UNCHANGED <<row, object, links, locked>> PROVE Rest /\ links' = links
  BY <1>12 DEF Rest
<1>13. CASE ReaperCrash \/ ListZeroRefOlderThan \/ UNCHANGED vars
  BY <1>12, <1>13 DEF ReaperCrash, ListZeroRefOlderThan, vars
<1>14. CASE \E b \in Blobs : UploadDuplicate(b) \/ Age(b) \/ CleanupDropped(b)
  BY <1>12, <1>14 DEF UploadDuplicate, Age, CleanupDropped
<1>15. CASE \E d \in Docs : CreateDocument(d) \/ DeleteDocument(d)
              \/ RestoreDocument(d) \/ PurgeDocument(d) \/ PurgeRollsBack(d)
  BY <1>12, <1>15 DEF CreateDocument, DeleteDocument, RestoreDocument,
     PurgeDocument, PurgeRollsBack
<1> QED
  BY Zenon, <1>1, <1>2, <1>3, <1>4, <1>5, <1>6, <1>7, <1>8, <1>9, <1>10, <1>11, <1>13,
     <1>14, <1>15 DEF Next

LEMMA LinksTyped ==
  ASSUME IInv, NEW l \in links
  PROVE  l[2] \in Blobs /\ Free(l[2]) /\ ~Unlinked(l[2])
<1>1. PICK d \in Docs, b \in Blobs : l = <<d, b>>
  BY DEF IInv, TypeOK
<1> QED
  BY <1>1 DEF IInv, RowInv, LinksFree, Unlinked

LEMMA StepReadable ==
  ASSUME IInv, [Next]_vars, NEW l \in links, Readable(l[2])
  PROVE  Readable(l[2])'
<1>1. l[2] \in Blobs /\ Free(l[2]) /\ ~Unlinked(l[2])
  BY LinksTyped
<1>2. ASSUME NEW b \in Blobs, Touch(b) PROVE Readable(l[2])'
  <2>1. CASE b = l[2]
    BY <1>1, <1>2, <2>1 DEF Touch, Appears, Locks, Unlocks, Leaves, Restores, Free,
       Present, Readable
  <2>2. CASE b # l[2]
    BY <1>1, <1>2, <2>2 DEF Touch, Alone, Readable
  <2> QED
    BY <2>1, <2>2
<1>3. CASE Rest
  BY <1>1, <1>3 DEF Rest, Readable
<1> QED
  BY <1>2, <1>3, StepKinds

(* LinkedReadable: what a version can read it can read until its document   *)
(* is purged, whatever purges, cleanups and reapers run or fail.            *)
THEOREM LinkedStaysReadable == Spec => LinkedReadable
<1>1. IInv /\ [Next]_vars => [\A l \in links \cap links' :
                                Readable(l[2]) => Readable(l[2])']_vars
  BY StepReadable
<1> QED
  BY <1>1, RowsInvariant, PTL DEF Spec, LinkedReadable

LEMMA StepBare ==
  ASSUME IInv, [Next]_vars, NEW b \in Blobs, ~Bare(b), Bare(b)'
  PROVE  b \in locked /\ refs[b] = 0 /\ ~Linked(b)
<1>1. ASSUME NEW a \in Blobs, Touch(a)
      PROVE  b \in locked /\ refs[b] = 0 /\ ~Linked(b)
  <2>1. CASE a = b
    BY <1>1, <2>1 DEF Touch, Appears, Locks, Unlocks, Leaves, Restores, Readable, Bare,
       Linked, Unlinked
  <2>2. CASE a # b
    BY <1>1, <2>2 DEF Touch, Alone, Bare
  <2> QED
    BY <2>1, <2>2
<1>2. CASE Rest
  BY <1>2 DEF Rest, Bare
<1> QED
  BY <1>1, <1>2, StepKinds

(* BareByRollback: a usable row loses its bytes only when a cleanup rolls   *)
(* back after its S3 delete, and nothing references the row then.           *)
THEOREM BareOnlyByRollback == Spec => BareByRollback
<1>1. IInv /\ [Next]_vars => [\A b \in Blobs : ~Bare(b) /\ Bare(b)' =>
                                b \in locked /\ refs[b] = 0 /\ ~Linked(b)]_vars
  BY StepBare
<1> QED
  BY <1>1, RowsInvariant, PTL DEF Spec, BareByRollback

-----------------------------------------------------------------------------
(* WORM *)

WormOut == worm \cap locked = {}

WormStep ==
  \A b \in worm :
    /\ b \notin locked'
    /\ b \in listed' => b \in listed
    /\ Present(b) => Present(b)' \/ b \in listed

LEMMA StepWorm ==
  ASSUME TypeOK, WormOut, [Next]_vars PROVE WormOut' /\ WormStep
<1> USE DEF WormOut, WormStep, Present, Free
<1>1. ASSUME NEW b \in Blobs, UploadNew(b) PROVE WormOut' /\ WormStep
  <2>1. \A a \in Blobs : row[a] = "present" => row'[a] = "present"
    BY <1>1 DEF UploadNew, TypeOK
  <2> QED
    BY <1>1, <2>1 DEF UploadNew, TypeOK
<1>2. ASSUME NEW b \in Blobs, ApplyWORM(b) PROVE WormOut' /\ WormStep
  BY <1>2 DEF ApplyWORM
<1>3. ASSUME NEW b \in Blobs, LockReleasedBlob(b) PROVE WormOut' /\ WormStep
  BY <1>3 DEF LockReleasedBlob, Reclaimable
<1>4. ASSUME NEW b \in Blobs, CleanupCommits(b) PROVE WormOut' /\ WormStep
  <2>1. b \in locked /\ \A a \in Blobs : a # b => row'[a] = row[a]
    BY <1>4 DEF CleanupCommits, TypeOK
  <2> QED
    BY <1>4, <2>1 DEF CleanupCommits, TypeOK
<1>5. ASSUME NEW b \in Blobs, HardDelete(b) PROVE WormOut' /\ WormStep
  <2>1. b \in listed /\ \A a \in Blobs : a # b => row'[a] = row[a]
    BY <1>5 DEF HardDelete, TypeOK
  <2>2. listed' \subseteq listed /\ locked' = locked /\ worm' = worm
    BY <1>5 DEF HardDelete
  <2> QED
    BY <2>1, <2>2 DEF TypeOK
<1>6. CASE ListZeroRefOlderThan
  BY <1>6 DEF ListZeroRefOlderThan
<1>7. CASE ReaperCrash \/ UNCHANGED vars
  BY <1>7 DEF ReaperCrash, vars
<1>8. CASE \E b \in Blobs : UploadDuplicate(b) \/ Age(b) \/ CleanupDropped(b)
             \/ CleanupDeletesObject(b) \/ CleanupFails(b) \/ DeleteObject(b)
  BY <1>8 DEF UploadDuplicate, Age, CleanupDropped, CleanupDeletesObject,
     CleanupFails, DeleteObject
<1>9. CASE \E d \in Docs : CreateDocument(d) \/ DeleteDocument(d)
             \/ RestoreDocument(d) \/ PurgeDocument(d) \/ PurgeRollsBack(d)
             \/ ReleaseDocumentBlobs(d)
  BY <1>9 DEF CreateDocument, DeleteDocument, RestoreDocument, PurgeDocument,
     PurgeRollsBack, ReleaseDocumentBlobs
<1>10. CASE (\E d \in Docs, b \in Blobs : CreateVersion(d, b))
              \/ \E d \in Docs, e \in Docs, b \in Blobs : CopyDocument(d, e, b)
  BY ZenonT(60), <1>10 DEF CreateVersion, CopyDocument
<1> QED
  BY <1>1, <1>2, <1>3, <1>4, <1>5, <1>6, <1>7, <1>8, <1>9, <1>10 DEF Next

(* WormRowsKept: no cleanup locks and no reaper lists a WORM row, and it is *)
(* deleted only by a reaper that listed it before it was locked.            *)
THEOREM WormKept == Spec => WormRowsKept
<1>1. Init => TypeOK /\ WormOut
  BY InitTypes DEF Init, WormOut
<1>2. (TypeOK /\ WormOut) /\ [Next]_vars => (TypeOK /\ WormOut)'
  BY StepTypes, StepWorm
<1>3. (TypeOK /\ WormOut) /\ [Next]_vars =>
        [\A b \in worm :
           /\ b \notin locked'
           /\ b \in listed' => b \in listed
           /\ Present(b) => Present(b)' \/ b \in listed]_vars
  BY StepWorm DEF WormStep
<1> QED
  BY <1>1, <1>2, <1>3, PTL DEF Spec, WormRowsKept

-----------------------------------------------------------------------------
(* Refinement of BlobStore *)

Kept == {b \in Blobs : Readable(b)}
Lost == {b \in Blobs : Bare(b)}

LEMMA StepStore ==
  ASSUME IInv, [Next]_vars
  PROVE  [Store!SNext]_(Store!svars)
<1> USE DEF Kept, Lost
<1>1. ASSUME Rest, links' = links PROVE UNCHANGED Store!svars
  BY <1>1 DEF Rest, Readable, Bare, Store!svars
<1>2. ASSUME Rest, Relink PROVE Store!SNext
  <2>1. Kept' = Kept /\ Lost' = Lost
    BY <1>2 DEF Rest, Readable, Bare
  <2>2. CASE \E d \in Docs, b \in Blobs : Free(b) /\ links' = links \cup {<<d, b>>}
    BY <2>1, <2>2 DEF Store!SNext, Store!Link, Readable, Bare
  <2>3. CASE \E d \in Docs : links' = {l \in links : l[1] # d}
    BY Zenon, <2>1, <2>3 DEF Store!SNext, Store!Unlink
  <2> QED
    BY <1>2, <2>2, <2>3 DEF Relink
<1>3. ASSUME NEW b \in Blobs, Touch(b) PROVE Store!SNext \/ UNCHANGED Store!svars
  <2>1. /\ links' = links
        /\ \A a \in Blobs \ {b} : /\ a \in Kept' <=> a \in Kept
                                  /\ a \in Lost' <=> a \in Lost
    BY <1>3 DEF Touch, Alone, Readable, Bare
  <2>2. ASSUME Kept' = Kept \cup {b}, Lost' = Lost \ {b}, b \notin Kept
        PROVE  Store!SNext
    BY <2>1, <2>2 DEF Store!SNext, Store!Store
  <2>3. ASSUME Kept' = Kept, Lost' = Lost \cup {b}, b \notin Kept, Unlinked(b)
        PROVE  Store!SNext
    BY <2>1, <2>3 DEF Store!SNext, Store!Lose, Store!Unlinked, Unlinked
  <2>4. ASSUME Kept' = Kept \ {b}, Lost' = Lost \ {b}, Unlinked(b)
        PROVE  Store!SNext
    BY <2>1, <2>4 DEF Store!SNext, Store!Reclaim, Store!Unlinked, Unlinked
  <2>5. ASSUME Kept' = Kept, Lost' = Lost PROVE UNCHANGED Store!svars
    BY <2>1, <2>5 DEF Store!svars
  <2>6. CASE Appears(b) \/ Restores(b)
    <3>1. b \in Kept' /\ b \notin Lost'
      BY <2>6 DEF Appears, Restores, Readable, Bare
    <3>2. CASE b \in Kept
      <4>1. b \notin Lost
        BY <3>2 DEF Readable, Bare
      <4> QED
        BY <2>1, <2>5, <3>1, <3>2, <4>1
    <3>3. CASE b \notin Kept
      BY <2>1, <2>2, <3>1, <3>3
    <3> QED
      BY <3>2, <3>3
  <2>7. CASE Locks(b) \/ Leaves(b)
    <3>1. b \notin Kept' /\ b \notin Lost'
      BY <2>7 DEF Locks, Leaves, Readable, Bare
    <3>2. CASE Free(b)
      <4>1. Unlinked(b)
        BY <2>7, <3>2 DEF Locks, Leaves
      <4> QED
        BY <2>1, <2>4, <3>1, <4>1
    <3>3. CASE ~Free(b)
      <4>1. b \notin Kept /\ b \notin Lost
        BY <3>3 DEF Readable, Bare
      <4> QED
        BY <2>1, <2>5, <3>1, <4>1
    <3> QED
      BY <3>2, <3>3
  <2>8. CASE Unlocks(b)
    <3>1. b \notin Kept /\ b \notin Lost /\ Unlinked(b) /\ Free(b)'
      BY <2>8 DEF Unlocks, Readable, Bare, Free
    <3>2. CASE b \in object
      <4>1. b \in Kept' /\ b \notin Lost'
        BY <2>8, <3>1, <3>2 DEF Unlocks, Readable, Bare
      <4> QED
        BY <2>1, <2>2, <3>1, <4>1
    <3>3. CASE b \notin object
      <4>1. b \notin Kept' /\ b \in Lost'
        BY <2>8, <3>1, <3>3 DEF Unlocks, Readable, Bare
      <4> QED
        BY <2>1, <2>3, <3>1, <4>1
    <3> QED
      BY <3>2, <3>3
  <2> QED
    BY <1>3, <2>6, <2>7, <2>8 DEF Touch
<1> QED
  BY <1>1, <1>2, <1>3, StepKinds

(* ImplementsBlobStore: counts, locks, cleanups and reapers implement a     *)
(* store that reclaims or loses only unlinked blobs.                        *)
THEOREM StoreRefined == Spec => ImplementsBlobStore
<1>1. Init => Store!SInit
  BY DEF Init, Store!SInit, Readable, Bare, Free, Present
<1>2. IInv /\ [Next]_vars => [Store!SNext]_(Store!svars)
  BY StepStore
<1> QED
  BY <1>1, <1>2, RowsInvariant, PTL DEF Spec, ImplementsBlobStore, Store!SSpec
=============================================================================
