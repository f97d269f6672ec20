--------------------------- MODULE DocumentHolds ---------------------------
(***************************************************************************)
(* Legal holds, records and the document lifecycle of the document service *)
(* (and the workflow service's lifecycle activities), at the level of the  *)
(* row locks their transactions take. A document row is locked             *)
(*   - FOR UPDATE by the writers that call LockDocument / lockDocumentState *)
(*     (lifecycle, delete, version, purge): lock, then check, then write;  *)
(*   - FOR SHARE by the compliance API while it binds a hold;              *)
(*   - by a plain UPDATE only while that statement's transaction commits   *)
(*     (records disposition, folder delete, restore, orphan sweep);        *)
(*   - FOR KEY SHARE by the foreign key of a record's INSERT.              *)
(* A refusal that depends on permissions, WORM dates, retention dates or   *)
(* metadata, a lost connection and a crash are all the action Abort.       *)
(***************************************************************************)
EXTENDS Naturals, FiniteSets

CONSTANTS
  Docs,         \* documents of one tenant
  InFolder,     \* those filed in the one folder that is modelled
  Holds,        \* legal_holds ids
  Txs,          \* database transactions in flight
  NoHold,       \* not a hold
  MaxVersions   \* bound on the versions of a document

ASSUME HoldsAssumption ==
  InFolder \subseteq Docs /\ NoHold \notin Holds /\ MaxVersions \in Nat

VARIABLES
  state,      \* documents.lifecycle_state, "gone" once the row is deleted
  trashed,    \* documents with deleted_at set
  cohort,     \* those the folder's deletion took along (deleted_cohort_id)
  folder,     \* the folder row: "live", "trash" or "gone"
  versions,   \* documents.version_count
  origin,     \* legal_holds.origin, "none" for an id not used yet
  active,     \* holds with is_active
  bound,      \* legal_hold_documents: <<hold, document>>
  prev,       \* previous_lifecycle_state of a lifecycle hold's binding
  record,     \* records.disposition_state, "none" without a row, "disposed"
              \* also for transferred
  frozen,     \* records frozen by the records domain
  kept,       \* records whose cutoff is ahead of them, or unresolved
  certs,      \* dms.record.disposed.v1 events per document
  tx          \* what each transaction in flight is doing

docVars == <<state, trashed, cohort, folder, versions>>
holdVars == <<origin, active, bound, prev>>
recordVars == <<record, frozen, kept, certs>>
vars == <<state, trashed, cohort, folder, versions, origin, active, bound, prev,
          record, frozen, kept, certs, tx>>

-----------------------------------------------------------------------------
(* The document state machine *)

LifecycleStates == {"draft", "in_review", "active", "superseded", "retained",
                    "archived", "disposed", "legal_hold"}

Holdable == LifecycleStates \ {"disposed", "legal_hold"}

\* <<from, action, to>>; release_hold takes its target from the hold.
lifecycleTransitions ==
  {<<"draft", "submit_for_review", "in_review">>,
   <<"in_review", "approve", "active">>,
   <<"in_review", "reject", "draft">>,
   <<"active", "supersede", "superseded">>,
   <<"active", "archive", "retained">>,
   <<"superseded", "archive", "retained">>,
   <<"retained", "archive", "archived">>,
   <<"retained", "restore", "active">>,
   <<"archived", "dispose", "disposed">>}

\* The hops planLifecycle and planRetention take in one transaction; nothing
\* asks RetentionTransition for disposed.
workflowTransitions ==
  {<<"draft", "set_active", "active">>,
   <<"in_review", "set_active", "active">>,
   <<"in_review", "set_draft", "draft">>,
   <<"active", "retain", "archived">>,
   <<"retained", "retain", "archived">>,
   <<"superseded", "retain", "archived">>}

\* A writer of kind "dispose" takes the dispose rows, of kind "move" the others.
Transitions(op) ==
  {r \in lifecycleTransitions \cup workflowTransitions :
     op = IF r[2] = "dispose" THEN "dispose" ELSE "move"}

Writes == {"move", "dispose", "apply_hold", "release_hold", "delete",
           "create_version", "hard_delete", "purge_folder"}

-----------------------------------------------------------------------------
(* Transactions and the locks they hold *)

NoTx == [op |-> "none", docs |-> {}, hold |-> NoHold]

Begin(t, op, ds, h) ==
  /\ tx[t] = NoTx
  /\ tx' = [tx EXCEPT ![t] = [op |-> op, docs |-> ds, hold |-> h]]

Commit(t) == tx' = [tx EXCEPT ![t] = NoTx]

In(t, op, d) == tx[t].op = op /\ tx[t].docs = {d}

\* The row of d is locked FOR UPDATE; locked FOR SHARE.
LockedForUpdate(d) == \E t \in Txs : tx[t].op \in Writes /\ d \in tx[t].docs
LockedForShare(d) == \E t \in Txs : tx[t].op = "bind" /\ d \in tx[t].docs

\* What a FOR UPDATE or an UPDATE has to wait for.
Writable(d) == ~LockedForUpdate(d) /\ ~LockedForShare(d)

\* refuseLifecycleHold and the UPDATE's own row lock: one user of a hold row.
HoldRowFree(h) == \A t \in Txs : tx[t].hold # h

RecordRowFree(d) == \A t \in Txs : ~(tx[t].op = "certify" /\ d \in tx[t].docs)

-----------------------------------------------------------------------------
(* What the checks read *)

Exists(d) == state[d] # "gone"

Live(d) == Exists(d) /\ d \notin trashed

\* ValidateTransition; only a document with a version is submitted.
Applies(r, d) ==
  r[1] = state[d] /\ (r[2] = "submit_for_review" => versions[d] > 0)

\* AnyActiveHoldFor: an active hold of either origin binds the document.
Bound(d) == \E h \in active : <<h, d>> \in bound

\* DocumentHoldState and IsLegalHoldBlocked for an operation not allowed.
Held(d) == state[d] = "legal_hold" \/ Bound(d)

\* IsDeclaredRecord.
Declared(d) == record[d] \in {"declared", "cutoff_pending"}

Disposed(d) == record[d] = "disposed"

LifecycleHolds(d) == {h \in Holds : origin[h] = "lifecycle" /\ <<h, d>> \in bound}

TypeOK ==
  /\ state \in [Docs -> LifecycleStates \cup {"gone"}]
  /\ trashed \subseteq Docs /\ cohort \subseteq trashed
  /\ folder \in {"live", "trash", "gone"}
  /\ versions \in [Docs -> 0..MaxVersions]
  /\ origin \in [Holds -> {"none", "compliance", "lifecycle"}]
  /\ active \subseteq Holds /\ bound \subseteq Holds \X Docs
  /\ prev \in [Holds -> LifecycleStates]
  /\ record \in [Docs -> {"none", "declared", "cutoff_pending", "disposed"}]
  /\ frozen \subseteq Docs /\ kept \subseteq Docs /\ certs \in [Docs -> Nat]
  /\ tx \in [Txs -> [op : Writes \cup {"none", "bind", "certify", "declare",
                                       "freeze", "sweep", "undelete"},
                     docs : SUBSET Docs,
                     hold : Holds \cup {NoHold}]]

Init ==
  /\ state = [d \in Docs |-> "draft"]
  /\ trashed = {} /\ cohort = {} /\ folder = "live"
  /\ versions = [d \in Docs |-> 0]
  /\ origin = [h \in Holds |-> "none"] /\ active = {} /\ bound = {}
  /\ prev = [h \in Holds |-> "draft"]
  /\ record = [d \in Docs |-> "none"] /\ frozen = {} /\ kept = {}
  /\ certs = [d \in Docs |-> 0]
  /\ tx = [t \in Txs |-> NoTx]

-----------------------------------------------------------------------------
(* Document writers: lock the row and check, then write and commit. What can *)
(* commit between the lock and the check cannot refuse or allow a write that *)
(* it would not have refused or allowed before the lock: one step.           *)

\* Mutant: a declared record is deleted like any other document.
AllowedRecordDelete(op, d) ==
  /\ op \in {"hard_delete", "purge_folder"} <=> d \in trashed
  /\ op \notin {"apply_hold", "release_hold"} => ~Held(d)
  /\ op \in {"dispose", "create_version"} => ~Declared(d)
  /\ op \in {"move", "dispose"} => \E r \in Transitions(op) : Applies(r, d)
  /\ op = "apply_hold" => state[d] \in Holdable
  /\ op = "release_hold" => state[d] = "legal_hold" /\ LifecycleHolds(d) # {}

\* The refusals of UpdateLifecycle, SetDocumentLifecycle, RetentionTransition,
\* DeleteDocument, CreateVersion (RestoreVersion, UpsertByExternalKey) and
\* purgeGuard that depend on the modelled state.
Allowed(op, d) ==
  /\ op \in {"hard_delete", "purge_folder"} <=> d \in trashed
  /\ op \notin {"apply_hold", "release_hold"} => ~Held(d)
  /\ op \in {"dispose", "delete", "create_version"} => ~Declared(d)
  /\ op \in {"move", "dispose"} => \E r \in Transitions(op) : Applies(r, d)
  /\ op = "apply_hold" => state[d] \in Holdable
  /\ op = "release_hold" => state[d] = "legal_hold" /\ LifecycleHolds(d) # {}

LockDocument(t, d, op) ==
  /\ Begin(t, op, {d}, NoHold)
  /\ Exists(d) /\ Writable(d) /\ Allowed(op, d)
  /\ UNCHANGED <<docVars, holdVars, recordVars>>

\* PurgeFolder: PurgeTargets, LockTrashedDocuments and the guards.
LockTrashedDocuments(t) ==
  /\ Begin(t, "purge_folder", cohort, NoHold)
  /\ folder = "trash" /\ \A d \in InFolder : ~Live(d)
  /\ \A d \in cohort : Writable(d) /\ Allowed("purge_folder", d)
  /\ UNCHANGED <<docVars, holdVars, recordVars>>

\* TransitionLifecycleState, with the hold check repeated after the write.
TransitionLifecycleState(t, d) ==
  /\ tx[t].op \in {"move", "dispose"} /\ In(t, tx[t].op, d)
  /\ \E r \in Transitions(tx[t].op) :
       Applies(r, d) /\ state' = [state EXCEPT ![d] = r[3]]
  /\ ~Bound(d)
  /\ Commit(t)
  /\ UNCHANGED <<trashed, cohort, folder, versions, holdVars, recordVars>>

Place(t, d, h) ==
  /\ In(t, "apply_hold", d)
  /\ origin[h] = "none" /\ HoldRowFree(h)
  /\ origin' = [origin EXCEPT ![h] = "lifecycle"]
  /\ active' = active \cup {h} /\ bound' = bound \cup {<<h, d>>}
  /\ prev' = [prev EXCEPT ![h] = state[d]]
  /\ state' = [state EXCEPT ![d] = "legal_hold"]
  /\ Commit(t)
  /\ UNCHANGED <<trashed, cohort, folder, versions, recordVars>>

\* The active lifecycle hold, or an ended one if none is active. Of several
\* ended ones the code takes the latest, the model any.
Release(t, d, h) ==
  /\ In(t, "release_hold", d)
  /\ h \in LifecycleHolds(d)
  /\ h \in active \/ LifecycleHolds(d) \cap active = {}
  /\ state' = [state EXCEPT ![d] = prev[h]]
  /\ IF h \in active /\ \E e \in Docs \ {d} : <<h, e>> \in bound
     THEN bound' = bound \ {<<h, d>>} /\ active' = active
     ELSE active' = active \ {h} /\ bound' = bound
  /\ Commit(t)
  /\ UNCHANGED <<trashed, cohort, folder, versions, origin, prev, recordVars>>

SoftDelete(t, d) ==
  /\ In(t, "delete", d)
  /\ trashed' = trashed \cup {d}
  /\ Commit(t)
  /\ UNCHANGED <<state, cohort, folder, versions, holdVars, recordVars>>

SetCurrentVersion(t, d) ==
  /\ In(t, "create_version", d) /\ versions[d] < MaxVersions
  /\ versions' = [versions EXCEPT ![d] = @ + 1]
  /\ Commit(t)
  /\ UNCHANGED <<state, trashed, cohort, folder, holdVars, recordVars>>

\* Rows that still reference a deleted row: a record refuses the delete of its
\* document, a document that of its folder; a hold's bindings go along.
HardDelete(t) ==
  /\ tx[t].op \in {"hard_delete", "purge_folder"}
  /\ \A d \in tx[t].docs : record[d] = "none"
  /\ state' = [d \in Docs |-> IF d \in tx[t].docs THEN "gone" ELSE state[d]]
  /\ tx[t].op = "purge_folder" => \A d \in InFolder : state'[d] = "gone"
  /\ folder' = IF tx[t].op = "purge_folder" THEN "gone" ELSE folder
  /\ trashed' = trashed \ tx[t].docs /\ cohort' = cohort \ tx[t].docs
  /\ bound' = {b \in bound : b[2] \notin tx[t].docs}
  /\ Commit(t)
  /\ UNCHANGED <<versions, origin, active, prev, recordVars>>

-----------------------------------------------------------------------------
(* Trash paths that do not lock the document first *)

\* DeleteFolder: ProtectedDocumentsInSubtree finds nothing ...
ProtectedDocumentsInSubtree(t) ==
  /\ Begin(t, "sweep", {}, NoHold)
  /\ folder = "live"
  /\ \A d \in InFolder : Live(d) => ~Held(d) /\ ~Declared(d)
  /\ UNCHANGED <<docVars, holdVars, recordVars>>

\* ... and a later statement sweeps every live document of the folder, waiting
\* for row locks but not repeating the check.
SoftDeleteSubtree(t) ==
  LET swept == {d \in InFolder : Live(d)}
  IN /\ tx[t].op = "sweep" /\ folder = "live" /\ \A d \in swept : Writable(d)
     /\ folder' = "trash"
     /\ trashed' = trashed \cup swept /\ cohort' = swept
     /\ Commit(t)
     /\ UNCHANGED <<state, versions, holdVars, recordVars>>

RestoreSubtree ==
  /\ folder = "trash" /\ \A d \in cohort : Writable(d)
  /\ folder' = "live" /\ trashed' = trashed \ cohort /\ cohort' = {}
  /\ UNCHANGED <<state, versions, holdVars, recordVars, tx>>

\* RestoreDocument reads the row and the holds, then updates the row if it is
\* still in the trash.
RestoreCheck(t, d) ==
  /\ Begin(t, "undelete", {d}, NoHold)
  /\ Exists(d) /\ d \in trashed /\ ~Bound(d)
  /\ UNCHANGED <<docVars, holdVars, recordVars>>

\* Mutant: the cascade marker survives the restore.
RestoreDocumentMarked(t, d) ==
  /\ In(t, "undelete", d) /\ d \in trashed /\ Writable(d)
  /\ trashed' = trashed \ {d}
  /\ Commit(t)
  /\ UNCHANGED <<state, cohort, folder, versions, holdVars, recordVars>>

RestoreDocument(t, d) ==
  /\ In(t, "undelete", d) /\ d \in trashed /\ Writable(d)
  /\ trashed' = trashed \ {d} /\ cohort' = cohort \ {d}
  /\ Commit(t)
  /\ UNCHANGED <<state, folder, versions, holdVars, recordVars>>

\* The orphan sweep trashes an old document without versions.
OrphanSoftDelete(d) ==
  /\ Live(d) /\ versions[d] = 0 /\ Writable(d)
  /\ trashed' = trashed \cup {d}
  /\ UNCHANGED <<state, cohort, folder, versions, holdVars, recordVars, tx>>

-----------------------------------------------------------------------------
(* The compliance API's holds *)

\* Mutant: the documents are read without FOR SHARE.
LockForHoldPlain(t, h, ds) ==
  /\ Begin(t, "bind", ds, h)
  /\ \A d \in ds : Live(d)
  /\ HoldRowFree(h)
  /\ \/ origin[h] = "none" /\ ds # {}
     \/ origin[h] = "compliance" /\ h \in active
  /\ UNCHANGED <<docVars, holdVars, recordVars>>

LockForHold(t, h, ds) ==
  /\ Begin(t, "bind", ds, h)
  /\ \A d \in ds : Live(d) /\ ~LockedForUpdate(d)
  /\ HoldRowFree(h)
  /\ \/ origin[h] = "none" /\ ds # {}
     \/ origin[h] = "compliance" /\ h \in active
  /\ UNCHANGED <<docVars, holdVars, recordVars>>

CreateHold(t, h) ==
  /\ tx[t].op = "bind" /\ tx[t].hold = h /\ origin[h] = "none"
  /\ origin' = [origin EXCEPT ![h] = "compliance"] /\ active' = active \cup {h}
  /\ bound' = bound \cup ({h} \X tx[t].docs)
  /\ Commit(t)
  /\ UNCHANGED <<docVars, prev, recordVars>>

UpdateHold(t, h, remove) ==
  /\ tx[t].op = "bind" /\ tx[t].hold = h /\ origin[h] = "compliance"
  /\ bound' = (bound \cup ({h} \X tx[t].docs)) \ ({h} \X remove)
  /\ Commit(t)
  /\ UNCHANGED <<docVars, origin, active, prev, recordVars>>

\* Mutant: a lifecycle hold is released through the compliance API.
ReleaseHoldAnyOrigin(h) ==
  /\ h \in active /\ HoldRowFree(h)
  /\ active' = active \ {h}
  /\ UNCHANGED <<docVars, origin, bound, prev, recordVars, tx>>

\* refuseLifecycleHold: only the compliance API's own holds.
ReleaseHold(h) ==
  /\ origin[h] = "compliance" /\ h \in active /\ HoldRowFree(h)
  /\ active' = active \ {h}
  /\ UNCHANGED <<docVars, origin, bound, prev, recordVars, tx>>

-----------------------------------------------------------------------------
(* Records *)

DeclareCheck(t, d) ==
  /\ Begin(t, "declare", {d}, NoHold)
  /\ Live(d) /\ state[d] # "disposed"
  /\ UNCHANGED <<docVars, holdVars, recordVars>>

\* The INSERT: its foreign key share-locks the document's key, one record per
\* document. The cutoff computeCutoff finds is ahead or not.
Declare(t, d) ==
  /\ In(t, "declare", d)
  /\ Exists(d) /\ ~LockedForUpdate(d) /\ record[d] = "none"
  /\ record' = [record EXCEPT ![d] = "declared"]
  /\ kept' \in {kept, kept \cup {d}}
  /\ Commit(t)
  /\ UNCHANGED <<docVars, holdVars, frozen, certs>>

CutoffPasses(d) ==
  /\ d \in kept
  /\ kept' = kept \ {d}
  /\ UNCHANGED <<docVars, holdVars, record, frozen, certs, tx>>

\* The janitor's UPDATE of the records (ripe) that have a schedule.
ProposeDispositionsAtCutoff(ripe) ==
  /\ ripe # {}
  /\ \A d \in ripe : record[d] = "declared" /\ d \notin kept /\ RecordRowFree(d)
  /\ record' = [d \in Docs |-> IF d \in ripe THEN "cutoff_pending" ELSE record[d]]
  /\ UNCHANGED <<docVars, holdVars, frozen, kept, certs, tx>>

\* Mutant: the record is read without FOR UPDATE.
DisposeCheckUnlocked(t, d) ==
  /\ Begin(t, "certify", {d}, NoHold)
  /\ Declared(d) /\ d \notin frozen /\ ~Bound(d) /\ d \notin kept
  /\ UNCHANGED <<docVars, holdVars, recordVars>>

\* Mutant: the freeze is not checked.
DisposeCheckThawed(t, d) ==
  /\ Begin(t, "certify", {d}, NoHold)
  /\ Declared(d) /\ RecordRowFree(d) /\ ~Bound(d) /\ d \notin kept
  /\ UNCHANGED <<docVars, holdVars, recordVars>>

\* Dispose locks the record, not the document, and reads the holds ...
DisposeCheck(t, d) ==
  /\ Begin(t, "certify", {d}, NoHold)
  /\ Declared(d) /\ RecordRowFree(d)
  /\ d \notin frozen /\ ~Bound(d) /\ d \notin kept
  /\ UNCHANGED <<docVars, holdVars, recordVars>>

\* ... and then writes the record and, in whatever state it is, the document.
Dispose(t, d) ==
  /\ In(t, "certify", d) /\ (Live(d) => Writable(d))
  /\ record' = [record EXCEPT ![d] = "disposed"]
  /\ state' = IF Live(d) THEN [state EXCEPT ![d] = "disposed"] ELSE state
  /\ certs' = [certs EXCEPT ![d] = @ + 1]
  /\ Commit(t)
  /\ UNCHANGED <<trashed, cohort, folder, versions, holdVars, frozen, kept>>

FreezeCheck(t, d) ==
  /\ Begin(t, "freeze", {d}, NoHold)
  /\ Declared(d)
  /\ UNCHANGED <<docVars, holdVars, recordVars>>

Freeze(t, d) ==
  /\ In(t, "freeze", d) /\ RecordRowFree(d)
  /\ frozen' = frozen \cup {d}
  /\ Commit(t)
  /\ UNCHANGED <<docVars, holdVars, record, kept, certs>>

Unfreeze(d) ==
  /\ d \in frozen /\ RecordRowFree(d)
  /\ frozen' = frozen \ {d}
  /\ UNCHANGED <<docVars, holdVars, record, kept, certs, tx>>

\* A refusal, an error or a crash rolls the transaction back.
Abort(t) ==
  /\ tx[t] # NoTx
  /\ Commit(t)
  /\ UNCHANGED <<docVars, holdVars, recordVars>>

-----------------------------------------------------------------------------
Writer(t) ==
  \/ \E d \in Docs, op \in Writes \ {"purge_folder"} : LockDocument(t, d, op)
  \/ LockTrashedDocuments(t)
  \/ \E d \in Docs :
       \/ TransitionLifecycleState(t, d)
       \/ \E h \in Holds : Place(t, d, h) \/ Release(t, d, h)
       \/ SoftDelete(t, d)
       \/ SetCurrentVersion(t, d)
  \/ HardDelete(t)

Trash ==
  \/ \E t \in Txs : ProtectedDocumentsInSubtree(t) \/ SoftDeleteSubtree(t)
  \/ RestoreSubtree
  \/ \E t \in Txs, d \in Docs : RestoreCheck(t, d) \/ RestoreDocument(t, d)
  \/ \E d \in Docs : OrphanSoftDelete(d)

Compliance ==
  \/ \E t \in Txs, h \in Holds, ds \in SUBSET Docs :
       LockForHold(t, h, ds) \/ UpdateHold(t, h, ds)
  \/ \E t \in Txs, h \in Holds : CreateHold(t, h)
  \/ \E h \in Holds : ReleaseHold(h)

Records ==
  \/ \E t \in Txs, d \in Docs :
       \/ DeclareCheck(t, d)
       \/ Declare(t, d)
       \/ DisposeCheck(t, d)
       \/ Dispose(t, d)
       \/ FreezeCheck(t, d)
       \/ Freeze(t, d)
  \/ \E d \in Docs : CutoffPasses(d) \/ Unfreeze(d)
  \/ \E ripe \in SUBSET Docs : ProposeDispositionsAtCutoff(ripe)

Next ==
  \/ \E t \in Txs : Writer(t) \/ Abort(t)
  \/ Trash
  \/ Compliance
  \/ Records

Spec == Init /\ [][Next]_vars

-----------------------------------------------------------------------------
(* Properties *)

\* A document in the legal_hold state is bound by exactly one active hold of
\* lifecycle origin, and that hold remembers a state the state machine can
\* continue from: release_hold always finds its hold and never returns the
\* document to legal_hold or disposed (UpdateLifecycle, legalHoldRepo).
LegalHoldBacked ==
  \A d \in Docs : state[d] = "legal_hold" =>
    \E h \in Holds : LifecycleHolds(d) \cap active = {h} /\ prev[h] \in Holdable

\* While an active hold binds a document that no disposition decided before is
\* still working on, no step gives it a version, destroys it, or moves it
\* through its lifecycle except into legal_hold and back out to the state its
\* hold remembers (DEC-7: lock, then check the hold, then write).
HeldFrozen ==
  [][\A d \in Docs : Bound(d) /\ RecordRowFree(d) =>
       /\ versions'[d] = versions[d]
       /\ \/ state'[d] \in {state[d], "legal_hold"}
          \/ /\ state[d] = "legal_hold"
             /\ \E h \in LifecycleHolds(d) \cap active : state'[d] = prev[h]]_vars

\* A versioned document under an active hold, or declared as a record, goes to
\* the trash only with a folder whose deletion had found nothing to protect
\* (DeleteDocument, DeleteFolder, M-3).
ProtectedKept ==
  [][\A d \in Docs :
       /\ Bound(d) \/ Declared(d)
       /\ versions[d] > 0 /\ d \notin trashed /\ d \in trashed'
       => d \in InFolder /\ \E t \in Txs : tx[t].op = "sweep"]_vars

\* Certified disposition happens once: a record is disposed exactly when one
\* certificate event was written, however disposals of it race
\* (records.Service.Dispose).
DisposedOnce ==
  \A d \in Docs : certs[d] = IF Disposed(d) THEN 1 ELSE 0

\* A frozen record is not disposed until it is unfrozen, also when the freeze
\* lands between Dispose's check and its write (records.Service.Freeze).
FrozenKept ==
  [][\A d \in Docs : d \in frozen /\ Declared(d) => ~Disposed(d)']_vars

\* disposed is terminal: only the row's own deletion follows, and never for a
\* document that was a record (lifecycleTransitions, the records foreign key).
DisposedFinal ==
  [][\A d \in Docs : state[d] = "disposed" =>
       \/ state'[d] = "disposed"
       \/ state'[d] = "gone" /\ record[d] = "none"]_vars

\* "Without this check a document under an active legal hold could be
\* disposed/destroyed" (records.Service.Dispose).
HeldNotDisposed ==
  \A d \in Docs : Bound(d) => state[d] # "disposed"
=============================================================================
