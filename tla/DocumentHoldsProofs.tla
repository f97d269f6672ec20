------------------------ MODULE DocumentHoldsProofs ------------------------
(***************************************************************************)
(* Proofs about DocumentHolds for any number of documents, holds and       *)
(* transactions. The inductive invariant says what the row locks exclude   *)
(* (Locks), that what a transaction checked under its locks still holds    *)
(* when it writes (Checked), how the lifecycle holds back legal_hold       *)
(* (HoldRows), and that certificates count disposals (DisposedOnce).       *)
(***************************************************************************)
EXTENDS DocumentHolds, TLAPS

\* FOR UPDATE excludes FOR UPDATE and FOR SHARE, a record row has one disposer
\* and a hold row one binder.
Locks ==
  /\ \A t, u \in Txs : t # u =>
       /\ \A d \in Docs : d \in tx[t].docs /\ d \in tx[u].docs =>
            /\ tx[t].op \in Writes => tx[u].op \notin Writes \cup {"bind"}
            /\ tx[t].op = "certify" => tx[u].op # "certify"
       /\ tx[t].hold = tx[u].hold => tx[t].hold = NoHold
  /\ \A t \in Txs : tx[t].op = "bind" => tx[t].hold \in Holds

\* What the check of a transaction found, as far as the proofs need it.
Found(x, d) ==
  /\ x.op \in Writes \ {"apply_hold", "release_hold"} => ~Held(d)
  /\ x.op \in {"dispose", "delete", "create_version"} => ~Declared(d)
  /\ x.op = "apply_hold" => state[d] \in Holdable
  /\ x.op = "release_hold" => state[d] = "legal_hold"
  /\ x.op = "certify" => Declared(d) /\ d \notin frozen

Checked ==
  /\ \A t \in Txs : \A d \in tx[t].docs : Found(tx[t], d)
  /\ \A t \in Txs : tx[t].op = "bind" => origin[tx[t].hold] # "lifecycle"

\* An active lifecycle hold is the only one of its document, which is in
\* legal_hold or was disposed by a disposition decided before the hold.
HoldRows ==
  /\ \A h \in Holds : origin[h] = "none" => h \notin active
  /\ \A h \in Holds : origin[h] = "none" => \A d \in Docs : <<h, d>> \notin bound
  /\ \A h \in Holds : origin[h] = "lifecycle" => prev[h] \in Holdable
  /\ \A d \in Docs, h, g \in Holds :
       h \in LifecycleHolds(d) \cap active /\ g \in LifecycleHolds(d) \cap active => h = g
  /\ \A d \in Docs, h \in Holds :
       h \in LifecycleHolds(d) \cap active => state[d] \in {"legal_hold", "disposed"}
  /\ \A d \in Docs : state[d] = "legal_hold" => LifecycleHolds(d) \cap active # {}

IInv == TypeOK /\ Locks /\ Checked /\ HoldRows /\ DisposedOnce

\* What a step may do to a document, from which the action properties follow.
Moves(d) ==
  /\ versions'[d] # versions[d] => ~Bound(d)
  /\ \/ state'[d] = state[d]
     \/ state[d] \notin {"legal_hold", "disposed"} /\ ~Bound(d)
     \/ state[d] \in Holdable /\ state'[d] = "legal_hold"
     \/ /\ state[d] = "legal_hold"
        /\ \E h \in LifecycleHolds(d) \cap active : state'[d] = prev[h]
     \/ state'[d] = "gone" /\ ~Bound(d) /\ record[d] = "none"
     \/ state'[d] = "disposed" /\ ~RecordRowFree(d)
  /\ d \in trashed' =>
       \/ d \in trashed \/ versions[d] = 0
       \/ ~Bound(d) /\ ~Declared(d)
       \/ d \in InFolder /\ \E t \in Txs : tx[t].op = "sweep"
  /\ Disposed(d)' => Disposed(d) \/ d \notin frozen

\* A committed or untouched transaction: nothing new is locked.
Settled == \A u \in Txs : tx'[u] = tx[u] \/ tx'[u] = NoTx

Ops == Writes \cup {"none", "bind", "certify", "declare", "freeze", "sweep", "undelete"}

TxType == tx \in [Txs -> [op : Ops, docs : SUBSET Docs, hold : Holds \cup {NoHold}]]

-----------------------------------------------------------------------------
(* Transactions *)

LEMMA TxTyped ==
  ASSUME TypeOK
  PROVE  TxType
BY DEF TypeOK, TxType, Ops

\* Begin sets one entry of tx.
LEMMA BeginTx ==
  ASSUME TxType, NEW t \in Txs, NEW op \in Ops, NEW ds \in SUBSET Docs,
         NEW h \in Holds \cup {NoHold}, Begin(t, op, ds, h)
  PROVE  /\ tx'[t].op = op /\ tx'[t].docs = ds /\ tx'[t].hold = h
         /\ \A u \in Txs \ {t} : tx'[u] = tx[u]
         /\ TxType'
BY DEF Begin, TxType

\* Commit clears one entry of tx.
LEMMA CommitTx ==
  ASSUME TxType, NEW t \in Txs, Commit(t)
  PROVE  /\ tx'[t] = NoTx /\ \A u \in Txs \ {t} : tx'[u] = tx[u]
         /\ Settled /\ TxType'
BY DEF Commit, TxType, NoTx, Settled, Ops

\* The invariant at the commit of a transaction.
LEMMA CommitFacts ==
  ASSUME IInv, NEW t \in Txs, Commit(t)
  PROVE  /\ TypeOK /\ TxType /\ Settled /\ TxType'
         /\ Locks /\ Checked /\ HoldRows /\ DisposedOnce
BY CommitTx, TxTyped DEF IInv

\* What Checked says of a transaction that binds, and of one that certifies.
LEMMA BindersOutside ==
  ASSUME Checked
  PROVE  \A u \in Txs : tx[u].op = "bind" => origin[tx[u].hold] # "lifecycle"
BY DEF Checked

LEMMA CertifiersFound ==
  ASSUME Checked
  PROVE  \A u \in Txs, e \in Docs :
           tx[u].op = "certify" /\ e \in tx[u].docs => Declared(e) /\ e \notin frozen
BY DEF Checked, Found

LEMMA NoTxFields == NoTx.op = "none" /\ NoTx.docs = {} /\ NoTx.hold = NoHold
BY DEF NoTx

\* A lock taken only when it is free keeps the locks exclusive.
LEMMA LocksBegin ==
  ASSUME TxType, Locks, NEW t \in Txs, NEW op \in Ops, NEW ds \in SUBSET Docs,
         NEW h \in Holds \cup {NoHold}, Begin(t, op, ds, h),
         op \in Writes => \A d \in ds : Writable(d),
         op = "bind" => \A d \in ds : ~LockedForUpdate(d),
         op = "certify" => \A d \in ds : RecordRowFree(d),
         IF op = "bind" THEN h \in Holds /\ HoldRowFree(h) ELSE h = NoHold
  PROVE  Locks'
<1>1. /\ tx'[t].op = op /\ tx'[t].docs = ds /\ tx'[t].hold = h
      /\ \A u \in Txs \ {t} : tx'[u] = tx[u]
  BY Zenon, BeginTx
<1>2. "bind" \notin Writes /\ "certify" \notin Writes
  BY DEF Writes
<1>3. ASSUME NEW u \in Txs, u # t, NEW d \in Docs, d \in ds, d \in tx[u].docs
      PROVE  /\ op \in Writes => tx[u].op \notin Writes \cup {"bind"}
             /\ tx[u].op \in Writes => op \notin Writes \cup {"bind"}
             /\ op = "certify" => tx[u].op # "certify"
  <2>1. op \in Writes => ~LockedForUpdate(d) /\ ~LockedForShare(d)
    BY <1>3 DEF Writable
  <2>2. op = "bind" => ~LockedForUpdate(d)
    BY <1>3
  <2>3. op = "certify" => RecordRowFree(d)
    BY <1>3
  <2> QED
    BY <1>3, <2>1, <2>2, <2>3 DEF LockedForUpdate, LockedForShare, RecordRowFree
<1>4. \A u \in Txs \ {t} : tx[u].hold = h => h = NoHold
  BY DEF HoldRowFree
<1>5. \A u \in Txs : tx'[u].op = "bind" => tx'[u].hold \in Holds
  BY <1>1 DEF Locks
<1>6. ASSUME NEW v \in Txs, NEW u \in Txs, v # u
      PROVE  /\ \A d \in Docs : d \in tx'[v].docs /\ d \in tx'[u].docs =>
                  /\ tx'[v].op \in Writes => tx'[u].op \notin Writes \cup {"bind"}
                  /\ tx'[v].op = "certify" => tx'[u].op # "certify"
             /\ tx'[v].hold = tx'[u].hold => tx'[v].hold = NoHold
  <2>1. CASE v = t
    BY <1>1, <1>3, <1>4, <1>6, <2>1
  <2>2. CASE u = t
    BY <1>1, <1>3, <1>4, <1>6, <2>2
  <2>3. CASE v # t /\ u # t
    BY <1>1, <1>6, <2>3 DEF Locks
  <2> QED
    BY <2>1, <2>2, <2>3
<1> QED
  BY <1>5, <1>6 DEF Locks

\* Ending transactions keeps them exclusive.
LEMMA LocksSettled ==
  ASSUME Locks, Settled
  PROVE  Locks'
<1>1. \A u \in Txs : tx'[u] = tx[u] \/
         (tx'[u].op = "none" /\ tx'[u].docs = {} /\ tx'[u].hold = NoHold)
  BY NoTxFields DEF Settled
<1>2. "none" \notin Writes
  BY DEF Writes
<1> QED
  BY <1>1, <1>2 DEF Locks
-----------------------------------------------------------------------------
(* What was checked stays true under the locks *)

\* Found depends on its row only.
LEMMA FoundKept ==
  ASSUME NEW x, NEW d \in Docs, Found(x, d),
         x.op \in Writes => /\ state'[d] = state[d]
                            /\ Bound(d)' => Bound(d)
                            /\ Declared(d)' => Declared(d),
         x.op = "certify" => Declared(d)' /\ (d \in frozen' => d \in frozen)
  PROVE  /\ x.op \in Writes \ {"apply_hold", "release_hold"} => ~Held(d)'
         /\ x.op \in {"dispose", "delete", "create_version"} => ~Declared(d)'
         /\ x.op = "apply_hold" => state'[d] \in Holdable
         /\ x.op = "release_hold" => state'[d] = "legal_hold"
         /\ x.op = "certify" => Declared(d)' /\ d \notin frozen'
BY DEF Found, Held, Writes

\* A step that ends transactions keeps what the others found, if it leaves
\* their rows alone.
LEMMA CheckedSettled ==
  ASSUME TxType, Checked, Settled,
         \A u \in Txs, d \in Docs :
           tx'[u] = tx[u] /\ d \in tx[u].docs =>
             /\ tx[u].op \in Writes => /\ state'[d] = state[d]
                                       /\ Bound(d)' => Bound(d)
                                       /\ Declared(d)' => Declared(d)
             /\ tx[u].op = "certify" => Declared(d)' /\ (d \in frozen' => d \in frozen),
         \A u \in Txs :
           tx'[u] = tx[u] /\ tx[u].op = "bind" => origin'[tx[u].hold] # "lifecycle"
  PROVE  Checked'
<1>1. ASSUME NEW u \in Txs, NEW d \in tx'[u].docs
      PROVE  Found(tx[u], d)'
  <2>1. tx'[u] = tx[u]
    BY NoTxFields DEF Settled
  <2>2. d \in Docs /\ d \in tx[u].docs
    BY <2>1 DEF TxType
  <2>3. Found(tx[u], d)
    BY <2>2 DEF Checked
  <2>4. /\ tx[u].op \in Writes => /\ state'[d] = state[d]
                                  /\ Bound(d)' => Bound(d)
                                  /\ Declared(d)' => Declared(d)
        /\ tx[u].op = "certify" => Declared(d)' /\ (d \in frozen' => d \in frozen)
    BY <2>1, <2>2
  <2>5. /\ tx[u].op \in Writes \ {"apply_hold", "release_hold"} => ~Held(d)'
        /\ tx[u].op \in {"dispose", "delete", "create_version"} => ~Declared(d)'
        /\ tx[u].op = "apply_hold" => state'[d] \in Holdable
        /\ tx[u].op = "release_hold" => state'[d] = "legal_hold"
        /\ tx[u].op = "certify" => Declared(d)' /\ d \notin frozen'
    BY <2>2, <2>3, <2>4, FoundKept
  <2> QED
    BY <2>1, <2>5 DEF Found
<1>2. ASSUME NEW u \in Txs, tx'[u].op = "bind"
      PROVE  origin'[tx'[u].hold] # "lifecycle"
  <2>1. tx'[u] = tx[u]
    BY <1>2, NoTxFields DEF Settled
  <2> QED
    BY <1>2, <2>1
<1> QED
  BY <1>1, <1>2 DEF Checked

\* A step that leaves a document's rows alone is a legal move.
LEMMA QuietMoves ==
  ASSUME NEW d \in Docs, state'[d] = state[d], versions' = versions,
         d \in trashed' => d \in trashed, record' = record
  PROVE  Moves(d)
<1>1. Disposed(d)' => Disposed(d)
  BY DEF Disposed
<1> QED
  BY <1>1, Zenon DEF Moves

\* Locking and checking keeps the invariant.
LEMMA BeginKeeps ==
  ASSUME IInv, NEW t \in Txs, NEW op \in Ops, NEW ds \in SUBSET Docs,
         NEW h \in Holds \cup {NoHold}, Begin(t, op, ds, h),
         UNCHANGED <<docVars, holdVars, recordVars>>,
         op \in Writes => \A d \in ds : Writable(d),
         op = "bind" => \A d \in ds : ~LockedForUpdate(d),
         op = "certify" => \A d \in ds : RecordRowFree(d),
         IF op = "bind" THEN h \in Holds /\ HoldRowFree(h) /\ origin[h] # "lifecycle"
         ELSE h = NoHold,
         \A d \in ds :
           /\ op \in Writes \ {"apply_hold", "release_hold"} => ~Held(d)
           /\ op \in {"dispose", "delete", "create_version"} => ~Declared(d)
           /\ op = "apply_hold" => state[d] \in Holdable
           /\ op = "release_hold" => state[d] = "legal_hold"
           /\ op = "certify" => Declared(d) /\ d \notin frozen
  PROVE  IInv' /\ \A d \in Docs : Moves(d)
<1>0. /\ TypeOK /\ TxType /\ Locks /\ Checked /\ HoldRows /\ DisposedOnce
      /\ state' = state /\ trashed' = trashed /\ cohort' = cohort /\ folder' = folder
      /\ versions' = versions /\ origin' = origin /\ active' = active /\ bound' = bound
      /\ prev' = prev /\ record' = record /\ frozen' = frozen /\ kept' = kept
      /\ certs' = certs
  BY TxTyped DEF IInv, docVars, holdVars, recordVars
<1>1. /\ tx'[t].op = op /\ tx'[t].docs = ds /\ tx'[t].hold = h
      /\ \A u \in Txs \ {t} : tx'[u] = tx[u]
      /\ TxType'
  BY Zenon, <1>0, BeginTx
<1>2. TypeOK'
  BY <1>0, <1>1 DEF TypeOK, TxType, Ops
<1>3. Locks'
  BY Zenon, <1>0, LocksBegin
<1>4. Checked'
  <2>1. ASSUME NEW u \in Txs, NEW d \in tx'[u].docs
        PROVE  Found(tx[u], d)'
    <3>1. (Held(d)' <=> Held(d)) /\ (Declared(d)' <=> Declared(d))
      BY <1>0 DEF Held, Bound, Declared
    <3>2. CASE u = t
      BY Zenon, <1>0, <1>1, <3>1, <3>2 DEF Found
    <3>3. CASE u # t
      BY <1>0, <1>1, <3>1, <3>3 DEF Found, Checked
    <3> QED
      BY Zenon, <3>2, <3>3
  <2>2. \A u \in Txs : tx'[u].op = "bind" => origin'[tx'[u].hold] # "lifecycle"
    BY Zenon, <1>0, <1>1 DEF Checked
  <2> QED
    BY Zenon, <2>1, <2>2 DEF Checked
<1>5. HoldRows' /\ DisposedOnce'
  BY <1>0 DEF HoldRows, LifecycleHolds, DisposedOnce, Disposed
<1>6. \A d \in Docs : Moves(d)
  BY <1>0, QuietMoves
<1> QED
  BY <1>2, <1>3, <1>4, <1>5, <1>6 DEF IInv
-----------------------------------------------------------------------------
(* The steps that lock and check *)

LEMMA LockDocumentKeeps ==
  ASSUME IInv, NEW t \in Txs, NEW d \in Docs, NEW op \in Writes \ {"purge_folder"},
         LockDocument(t, d, op)
  PROVE  IInv' /\ \A e \in Docs : Moves(e)
<1>1. /\ Begin(t, op, {d}, NoHold) /\ Writable(d) /\ Allowed(op, d)
      /\ UNCHANGED <<docVars, holdVars, recordVars>>
  BY DEF LockDocument
<1>2. op \in Writes /\ op \in Ops /\ op # "bind" /\ op # "certify"
  BY DEF Ops, Writes
<1>3. /\ op \in Writes \ {"apply_hold", "release_hold"} => ~Held(d)
      /\ op \in {"dispose", "delete", "create_version"} => ~Declared(d)
      /\ op = "apply_hold" => state[d] \in Holdable
      /\ op = "release_hold" => state[d] = "legal_hold"
  BY <1>1, Zenon DEF Allowed
<1> HIDE DEF IInv
<1> QED
  BY <1>1, <1>2, <1>3, BeginKeeps

LEMMA LockTrashedDocumentsKeeps ==
  ASSUME IInv, NEW t \in Txs, LockTrashedDocuments(t)
  PROVE  IInv' /\ \A e \in Docs : Moves(e)
<1>1. /\ Begin(t, "purge_folder", cohort, NoHold)
      /\ \A d \in cohort : Writable(d) /\ Allowed("purge_folder", d)
      /\ UNCHANGED <<docVars, holdVars, recordVars>>
  BY DEF LockTrashedDocuments
<1>2. "purge_folder" \in Ops /\ cohort \in SUBSET Docs
  BY DEF Ops, Writes, IInv, TypeOK
<1>3. \A d \in cohort : ~Held(d)
  BY Zenon, <1>1 DEF Allowed
<1> QED
  BY <1>1, <1>2, <1>3, BeginKeeps

LEMMA CheckKeeps ==
  ASSUME IInv, NEW t \in Txs,
         \/ \E d \in Docs : RestoreCheck(t, d) \/ DeclareCheck(t, d) \/ FreezeCheck(t, d)
         \/ ProtectedDocumentsInSubtree(t)
  PROVE  IInv' /\ \A e \in Docs : Moves(e)
<1>1. PICK op \in {"undelete", "declare", "freeze", "sweep"}, ds \in SUBSET Docs :
        Begin(t, op, ds, NoHold) /\ UNCHANGED <<docVars, holdVars, recordVars>>
  <2>1. CASE ProtectedDocumentsInSubtree(t)
    BY <2>1 DEF ProtectedDocumentsInSubtree
  <2>2. CASE \E d \in Docs : RestoreCheck(t, d) \/ DeclareCheck(t, d) \/ FreezeCheck(t, d)
    <3>1. PICK d \in Docs : RestoreCheck(t, d) \/ DeclareCheck(t, d) \/ FreezeCheck(t, d)
      BY <2>2
    <3>2. {d} \in SUBSET Docs
      OBVIOUS
    <3> QED
      BY <3>1, <3>2 DEF RestoreCheck, DeclareCheck, FreezeCheck
  <2> QED
    BY <2>1, <2>2
<1>2. op \in Ops /\ op \notin Writes /\ op # "bind" /\ op # "certify"
  BY DEF Ops, Writes
<1>3. op \notin {"dispose", "delete", "create_version", "apply_hold", "release_hold"}
  OBVIOUS
<1> QED
  BY <1>1, <1>2, <1>3, BeginKeeps

LEMMA LockForHoldKeeps ==
  ASSUME IInv, NEW t \in Txs, NEW h \in Holds, NEW ds \in SUBSET Docs,
         LockForHold(t, h, ds)
  PROVE  IInv' /\ \A e \in Docs : Moves(e)
<1>1. /\ Begin(t, "bind", ds, h) /\ \A d \in ds : ~LockedForUpdate(d)
      /\ HoldRowFree(h) /\ origin[h] # "lifecycle"
      /\ UNCHANGED <<docVars, holdVars, recordVars>>
  BY DEF LockForHold
<1>2. "bind" \in Ops /\ "bind" \notin Writes
  BY DEF Ops, Writes
<1> QED
  BY Zenon, <1>1, <1>2, BeginKeeps

LEMMA DisposeCheckKeeps ==
  ASSUME IInv, NEW t \in Txs, NEW d \in Docs, DisposeCheck(t, d)
  PROVE  IInv' /\ \A e \in Docs : Moves(e)
<1>1. /\ Begin(t, "certify", {d}, NoHold) /\ Declared(d) /\ RecordRowFree(d)
      /\ d \notin frozen /\ UNCHANGED <<docVars, holdVars, recordVars>>
  BY DEF DisposeCheck
<1>2. "certify" \in Ops /\ "certify" \notin Writes
  BY DEF Ops, Writes
<1> QED
  BY <1>1, <1>2, BeginKeeps
-----------------------------------------------------------------------------
(* The steps that write and commit *)

\* Steps that change no state, hold, record or certificate.
LEMMA QuietKeeps ==
  ASSUME IInv, Settled, TypeOK', state' = state, UNCHANGED holdVars,
         record' = record, frozen' \subseteq frozen, certs' = certs
  PROVE  IInv'
<1>0. /\ TxType /\ Locks /\ Checked /\ HoldRows /\ DisposedOnce
      /\ origin' = origin /\ active' = active /\ bound' = bound /\ prev' = prev
  BY TxTyped DEF IInv, holdVars
<1>1. Locks'
  BY <1>0, LocksSettled
<1>2. \A d \in Docs : (Bound(d)' <=> Bound(d)) /\ (Declared(d)' <=> Declared(d))
  BY <1>0 DEF Bound, Declared
<1>3. \A u \in Txs, d \in Docs : tx[u].op = "certify" /\ d \in tx[u].docs => Declared(d)
  BY <1>0 DEF Checked, Found
<1>4. \A u \in Txs : tx[u].op = "bind" => origin'[tx[u].hold] # "lifecycle"
  BY <1>0 DEF Checked
<1>5. Checked'
  BY Zenon, <1>0, <1>2, <1>3, <1>4, CheckedSettled
<1>6. HoldRows' /\ DisposedOnce'
  BY <1>0 DEF HoldRows, LifecycleHolds, DisposedOnce, Disposed
<1> QED
  BY <1>1, <1>5, <1>6 DEF IInv

LEMMA AbortKeeps ==
  ASSUME IInv, NEW t \in Txs, Abort(t)
  PROVE  IInv' /\ \A d \in Docs : Moves(d)
<1>1. /\ Commit(t) /\ state' = state /\ trashed' = trashed /\ cohort' = cohort
      /\ folder' = folder /\ versions' = versions /\ UNCHANGED holdVars
      /\ record' = record /\ frozen' = frozen /\ kept' = kept /\ certs' = certs
  BY DEF Abort, docVars, recordVars
<1>2. TypeOK /\ Settled /\ TxType'
  BY <1>1, CommitFacts
<1>3. TypeOK'
  BY <1>1, <1>2 DEF TypeOK, TxType, Ops, holdVars
<1> QED
  BY <1>1, <1>2, <1>3, QuietKeeps, QuietMoves

LEMMA SoftDeleteKeeps ==
  ASSUME IInv, NEW t \in Txs, NEW d \in Docs, SoftDelete(t, d)
  PROVE  IInv' /\ \A e \in Docs : Moves(e)
<1>1. /\ Commit(t) /\ state' = state /\ trashed' = trashed \cup {d} /\ cohort' = cohort
      /\ folder' = folder /\ versions' = versions /\ UNCHANGED holdVars
      /\ record' = record /\ frozen' = frozen /\ kept' = kept /\ certs' = certs
      /\ tx[t].op = "delete" /\ d \in tx[t].docs
  BY DEF SoftDelete, In, recordVars
<1>2. TypeOK /\ Settled /\ TxType'
  BY <1>1, CommitFacts
<1>3. TypeOK'
  BY <1>1, <1>2 DEF TypeOK, TxType, Ops, holdVars
<1>4. ~Bound(d) /\ ~Declared(d)
  BY <1>1 DEF IInv, Checked, Found, Held, Writes
<1>5. \A e \in Docs \ {d} : Moves(e)
  BY <1>1, QuietMoves
<1>6. Moves(d)
  <2>1. Disposed(d)' => Disposed(d)
    BY Zenon, <1>1 DEF Disposed
  <2> QED
    BY <1>1, <1>4, <2>1, ZenonT(30) DEF Moves
<1> QED
  BY Zenon, <1>1, <1>2, <1>3, <1>5, <1>6, QuietKeeps

LEMMA SetCurrentVersionKeeps ==
  ASSUME IInv, NEW t \in Txs, NEW d \in Docs, SetCurrentVersion(t, d)
  PROVE  IInv' /\ \A e \in Docs : Moves(e)
<1>1. /\ Commit(t) /\ state' = state /\ trashed' = trashed /\ cohort' = cohort
      /\ folder' = folder /\ versions' = [versions EXCEPT ![d] = versions[d] + 1]
      /\ versions[d] < MaxVersions /\ UNCHANGED holdVars
      /\ record' = record /\ frozen' = frozen /\ kept' = kept /\ certs' = certs
      /\ tx[t].op = "create_version" /\ d \in tx[t].docs
  BY DEF SetCurrentVersion, In, recordVars
<1>2. TypeOK /\ Settled /\ TxType'
  BY Zenon, <1>1, CommitFacts
<1>3. TypeOK'
  <2>1. versions' \in [Docs -> 0..MaxVersions]
    BY <1>1, <1>2, HoldsAssumption DEF TypeOK
  <2> QED
    BY Zenon, <1>1, <1>2, <2>1 DEF TypeOK, TxType, Ops, holdVars
<1>4. ~Bound(d)
  BY <1>1 DEF IInv, Checked, Found, Held, Writes
<1>5. ASSUME NEW e \in Docs
      PROVE  Moves(e)
  <2>1. Disposed(e)' => Disposed(e)
    BY <1>1 DEF Disposed
  <2>2. versions'[e] # versions[e] => ~Bound(e)
    BY <1>1, <1>2, <1>4 DEF TypeOK
  <2> QED
    BY <1>1, <2>1, <2>2, Zenon DEF Moves
<1> QED
  BY Zenon, <1>1, <1>2, <1>3, <1>5, QuietKeeps

\* The folder's trash, the restore of a document and the orphan sweep.
LEMMA TrashKeeps ==
  ASSUME IInv,
         \/ RestoreSubtree
         \/ \E t \in Txs : SoftDeleteSubtree(t)
         \/ \E t \in Txs, d \in Docs : RestoreDocument(t, d)
         \/ \E d \in Docs : OrphanSoftDelete(d)
  PROVE  IInv' /\ \A e \in Docs : Moves(e)
<1>1. /\ state' = state /\ versions' = versions /\ UNCHANGED holdVars
      /\ record' = record /\ frozen' = frozen /\ kept' = kept /\ certs' = certs
  BY DEF SoftDeleteSubtree, RestoreSubtree, RestoreDocument, OrphanSoftDelete, recordVars
<1>2. TypeOK /\ TxType
  BY TxTyped DEF IInv
<1>3. Settled /\ TxType'
  <2>1. (\E t \in Txs : Commit(t)) \/ tx' = tx
    BY DEF SoftDeleteSubtree, RestoreSubtree, RestoreDocument, OrphanSoftDelete
  <2> QED
    BY Zenon, <1>2, <2>1, CommitTx DEF Settled, TxType
<1>4. /\ folder' \in {"live", "trash", "gone"}
      /\ trashed' \subseteq Docs /\ cohort' \subseteq trashed'
  BY <1>2, HoldsAssumption
  DEF TypeOK, SoftDeleteSubtree, RestoreSubtree, RestoreDocument, OrphanSoftDelete
<1>5. TypeOK'
  BY <1>1, <1>2, <1>3, <1>4 DEF TypeOK, TxType, Ops, holdVars
<1>6. ASSUME NEW e \in Docs
      PROVE  Moves(e)
  <2>1. Disposed(e)' => Disposed(e)
    BY <1>1 DEF Disposed
  <2>2. e \in trashed' => \/ e \in trashed \/ versions[e] = 0
                          \/ e \in InFolder /\ \E u \in Txs : tx[u].op = "sweep"
    BY DEF SoftDeleteSubtree, RestoreSubtree, RestoreDocument, OrphanSoftDelete
  <2> QED
    BY <1>1, <2>1, <2>2, Zenon DEF Moves
<1> QED
  BY Zenon, <1>1, <1>3, <1>5, <1>6, QuietKeeps
\* While a transaction holds a lock, no other holds a conflicting one.
LEMMA Alone ==
  ASSUME TxType, Locks, NEW t \in Txs, Commit(t), NEW d \in Docs, d \in tx[t].docs,
         NEW u \in Txs, tx'[u] = tx[u], d \in tx[u].docs
  PROVE  /\ tx[t].op \in Writes \cup {"bind"} => tx[u].op \notin Writes
         /\ tx[t].op = "certify" => tx[u].op # "certify"
<1>1. u # t
  BY CommitTx, NoTxFields
<1> QED
  BY <1>1 DEF Locks

\* The general form: a write that leaves the rows others have locked alone.
LEMMA WriteKeeps ==
  ASSUME IInv, Settled, TypeOK', HoldRows', DisposedOnce',
         \A u \in Txs, d \in Docs :
           tx'[u] = tx[u] /\ d \in tx[u].docs =>
             /\ tx[u].op \in Writes => /\ state'[d] = state[d]
                                       /\ Bound(d)' => Bound(d)
                                       /\ Declared(d)' => Declared(d)
             /\ tx[u].op = "certify" => Declared(d)' /\ (d \in frozen' => d \in frozen),
         \A u \in Txs :
           tx'[u] = tx[u] /\ tx[u].op = "bind" => origin'[tx[u].hold] # "lifecycle"
  PROVE  IInv'
BY LocksSettled, CheckedSettled, TxTyped, ZenonT(60) DEF IInv

LEMMA FreezeKeeps ==
  ASSUME IInv, NEW t \in Txs, NEW d \in Docs, Freeze(t, d)
  PROVE  IInv' /\ \A e \in Docs : Moves(e)
<1>1. /\ Commit(t) /\ RecordRowFree(d) /\ state' = state /\ trashed' = trashed
      /\ cohort' = cohort /\ folder' = folder /\ versions' = versions
      /\ origin' = origin /\ active' = active /\ bound' = bound /\ prev' = prev
      /\ record' = record /\ frozen' = frozen \cup {d} /\ kept' = kept /\ certs' = certs
  BY DEF Freeze, docVars, holdVars
<1>2. TypeOK /\ Settled /\ TxType' /\ Checked /\ HoldRows /\ DisposedOnce
  BY <1>1, CommitFacts
<1>3. TypeOK'
  BY Zenon, <1>1, <1>2 DEF TypeOK, TxType, Ops
<1>4. HoldRows' /\ DisposedOnce'
  BY <1>1, <1>2 DEF HoldRows, LifecycleHolds, DisposedOnce, Disposed
<1>5. \A e \in Docs : (Bound(e)' <=> Bound(e)) /\ (Declared(e)' <=> Declared(e))
  BY Zenon, <1>1 DEF Bound, Declared
<1>6. \A u \in Txs, e \in Docs : tx[u].op = "certify" /\ e \in tx[u].docs =>
        Declared(e) /\ e # d
  BY Zenon, <1>1, <1>2, CertifiersFound DEF RecordRowFree
<1>7. \A u \in Txs : tx[u].op = "bind" => origin'[tx[u].hold] # "lifecycle"
  BY Zenon, <1>1, <1>2, BindersOutside
<1>8. \A u \in Txs, e \in Docs :
        tx'[u] = tx[u] /\ e \in tx[u].docs =>
          /\ tx[u].op \in Writes => /\ state'[e] = state[e]
                                    /\ Bound(e)' => Bound(e)
                                    /\ Declared(e)' => Declared(e)
          /\ tx[u].op = "certify" => Declared(e)' /\ (e \in frozen' => e \in frozen)
  BY Zenon, <1>1, <1>5, <1>6
<1>9. \A e \in Docs : Moves(e)
  BY <1>1, QuietMoves
<1> QED
  BY <1>2, <1>3, <1>4, <1>7, <1>8, <1>9, WriteKeeps

\* Unfreeze and the passing of a cutoff.
LEMMA ThawKeeps ==
  ASSUME IInv, NEW d \in Docs, Unfreeze(d) \/ CutoffPasses(d)
  PROVE  IInv' /\ \A e \in Docs : Moves(e)
<1>1. /\ tx' = tx /\ state' = state /\ trashed' = trashed /\ cohort' = cohort
      /\ folder' = folder /\ versions' = versions /\ UNCHANGED holdVars
      /\ record' = record /\ certs' = certs
      /\ frozen' \subseteq frozen /\ kept' \subseteq kept
  BY DEF Unfreeze, CutoffPasses, docVars
<1>2. TypeOK /\ Settled
  BY Zenon, <1>1 DEF IInv, Settled
<1>3. TypeOK'
  BY <1>1, <1>2 DEF TypeOK, holdVars
<1> QED
  BY Zenon, <1>1, <1>2, <1>3, QuietKeeps, QuietMoves

\* Steps of the records service that leave the document and its holds alone.
LEMMA RecordKeeps ==
  ASSUME IInv, Settled, TxType', UNCHANGED docVars, UNCHANGED holdVars,
         frozen' = frozen, certs' = certs, kept' \subseteq Docs,
         record' \in [Docs -> {"none", "declared", "cutoff_pending", "disposed"}],
         \A d \in Docs : record'[d] # record[d] =>
           /\ ~Disposed(d) /\ ~Disposed(d)' /\ RecordRowFree(d)
           /\ Declared(d) \/ ~LockedForUpdate(d)
  PROVE  IInv' /\ \A e \in Docs : Moves(e)
<1>1. /\ state' = state /\ trashed' = trashed
      /\ cohort' = cohort /\ folder' = folder /\ versions' = versions
      /\ origin' = origin /\ active' = active /\ bound' = bound /\ prev' = prev
  BY DEF docVars, holdVars
<1>2. TypeOK /\ Checked /\ HoldRows /\ DisposedOnce
  BY Zenon DEF IInv
<1>3. TypeOK'
  BY Zenon, <1>1, <1>2 DEF TypeOK, TxType, Ops
<1>4. HoldRows'
  BY Zenon, <1>1, <1>2 DEF HoldRows, LifecycleHolds
<1>5. DisposedOnce'
  BY <1>2 DEF DisposedOnce, Disposed
<1>6. \A u \in Txs : tx[u].op = "bind" => origin'[tx[u].hold] # "lifecycle"
  BY Zenon, <1>1, <1>2, BindersOutside
<1>7. ASSUME NEW u \in Txs, NEW e \in Docs, e \in tx[u].docs
      PROVE  /\ tx[u].op \in Writes => (Declared(e)' => Declared(e))
             /\ tx[u].op = "certify" => Declared(e)'
  <2>1. tx[u].op \in Writes => LockedForUpdate(e)
    BY Zenon, <1>7 DEF LockedForUpdate
  <2>2. tx[u].op = "certify" => Declared(e) /\ ~RecordRowFree(e)
    BY Zenon, <1>2, <1>7, CertifiersFound DEF RecordRowFree
  <2> QED
    BY <2>1, <2>2 DEF Declared
<1>8. \A e \in Docs : Bound(e)' <=> Bound(e)
  BY Zenon, <1>1 DEF Bound
<1>9. \A u \in Txs, e \in Docs :
        tx'[u] = tx[u] /\ e \in tx[u].docs =>
          /\ tx[u].op \in Writes => /\ state'[e] = state[e]
                                    /\ Bound(e)' => Bound(e)
                                    /\ Declared(e)' => Declared(e)
          /\ tx[u].op = "certify" => Declared(e)' /\ (e \in frozen' => e \in frozen)
  BY Zenon, <1>1, <1>7, <1>8
<1>10. IInv'
  BY Zenon, <1>3, <1>4, <1>5, <1>6, <1>9, WriteKeeps
<1>11. ASSUME NEW e \in Docs
       PROVE  Moves(e)
  <2>1. Disposed(e)' => Disposed(e)
    BY Zenon DEF Disposed
  <2> QED
    BY <1>1, <2>1, Zenon DEF Moves
<1> QED
  BY <1>10, <1>11
LEMMA DeclareKeeps ==
  ASSUME IInv, NEW t \in Txs, NEW d \in Docs, Declare(t, d)
  PROVE  IInv' /\ \A e \in Docs : Moves(e)
<1>1. /\ Commit(t) /\ ~LockedForUpdate(d) /\ record[d] = "none"
      /\ record' = [record EXCEPT ![d] = "declared"] /\ kept' \in {kept, kept \cup {d}}
      /\ UNCHANGED docVars /\ UNCHANGED holdVars /\ frozen' = frozen /\ certs' = certs
  BY SMTT(30) DEF Declare
<1>2. TypeOK /\ Settled /\ TxType' /\ Checked
  BY Zenon, <1>1, CommitFacts
<1>3. RecordRowFree(d)
  BY Zenon, <1>1, <1>2, CertifiersFound DEF Declared, RecordRowFree
<1>4. kept' \subseteq Docs
  BY Zenon, <1>1, <1>2 DEF TypeOK
<1>5. record' \in [Docs -> {"none", "declared", "cutoff_pending", "disposed"}]
  BY Zenon, <1>1, <1>2 DEF TypeOK
<1>6. \A e \in Docs : record'[e] # record[e] =>
        /\ ~Disposed(e) /\ ~Disposed(e)' /\ RecordRowFree(e)
        /\ Declared(e) \/ ~LockedForUpdate(e)
  BY Zenon, <1>1, <1>2, <1>3 DEF TypeOK, Disposed
<1> QED
  BY Zenon, <1>1, <1>2, <1>4, <1>5, <1>6, RecordKeeps

LEMMA ProposeKeeps ==
  ASSUME IInv, NEW ripe \in SUBSET Docs, ProposeDispositionsAtCutoff(ripe)
  PROVE  IInv' /\ \A e \in Docs : Moves(e)
<1>1. /\ \A d \in ripe : record[d] = "declared" /\ RecordRowFree(d)
      /\ record' = [d \in Docs |-> IF d \in ripe THEN "cutoff_pending" ELSE record[d]]
      /\ UNCHANGED docVars /\ UNCHANGED holdVars
      /\ frozen' = frozen /\ kept' = kept /\ certs' = certs /\ tx' = tx
  BY DEF ProposeDispositionsAtCutoff
<1>2. TypeOK /\ TxType
  BY Zenon, TxTyped DEF IInv
<1>3. Settled /\ TxType' /\ kept' \subseteq Docs
  BY Zenon, <1>1, <1>2 DEF TypeOK, Settled, TxType
<1>4. record' \in [Docs -> {"none", "declared", "cutoff_pending", "disposed"}]
  BY <1>1, <1>2 DEF TypeOK
<1>5. \A e \in Docs : record'[e] # record[e] =>
        /\ ~Disposed(e) /\ ~Disposed(e)' /\ RecordRowFree(e)
        /\ Declared(e) \/ ~LockedForUpdate(e)
  BY <1>1 DEF Disposed, Declared
<1> QED
  BY Zenon, <1>1, <1>3, <1>4, <1>5, RecordKeeps

LEMMA DisposeKeeps ==
  ASSUME IInv, NEW t \in Txs, NEW d \in Docs, Dispose(t, d)
  PROVE  IInv' /\ \A e \in Docs : Moves(e)
<1>1. /\ Commit(t) /\ tx[t].op = "certify" /\ d \in tx[t].docs
      /\ record' = [record EXCEPT ![d] = "disposed"]
      /\ certs' = [certs EXCEPT ![d] = certs[d] + 1]
      /\ trashed' = trashed /\ cohort' = cohort /\ folder' = folder
      /\ versions' = versions /\ origin' = origin /\ active' = active /\ bound' = bound
      /\ prev' = prev /\ frozen' = frozen /\ kept' = kept
  BY DEF Dispose, In, holdVars
<1>2. \/ state' = state
      \/ state' = [state EXCEPT ![d] = "disposed"] /\ Writable(d)
  BY Zenon DEF Dispose
<1>3. TypeOK /\ TxType /\ Settled /\ TxType' /\ Locks /\ Checked /\ HoldRows /\ DisposedOnce
  BY Zenon, <1>1, CommitFacts
<1>4. Declared(d) /\ d \notin frozen
  BY Zenon, <1>1, <1>3, CertifiersFound
<1>5. /\ record' \in [Docs -> {"none", "declared", "cutoff_pending", "disposed"}]
      /\ certs' \in [Docs -> Nat]
  BY <1>1, <1>3 DEF TypeOK
<1>6. /\ state' \in [Docs -> LifecycleStates \cup {"gone"}]
      /\ \A e \in Docs : state'[e] = state[e] \/ (e = d /\ state'[e] = "disposed" /\ Writable(d))
  BY <1>2, <1>3 DEF TypeOK, LifecycleStates
<1>7. TypeOK'
  BY Zenon, <1>1, <1>3, <1>5, <1>6 DEF TypeOK, TxType, Ops
<1>8. HoldRows'
  BY Zenon, <1>1, <1>3, <1>6 DEF HoldRows, LifecycleHolds
<1>9. DisposedOnce'
  <2>1. record \in [Docs -> {"none", "declared", "cutoff_pending", "disposed"}] /\ certs \in [Docs -> Nat]
    BY Zenon, <1>3 DEF TypeOK
  <2>2. record'[d] = "disposed" /\ certs'[d] = certs[d] + 1
    BY Zenon, <1>1, <2>1
  <2>3. certs[d] = 0
    BY Zenon, <1>3, <1>4 DEF DisposedOnce, Disposed, Declared
  <2>4. \A e \in Docs : e # d => record'[e] = record[e] /\ certs'[e] = certs[e]
    BY Zenon, <1>1, <2>1
  <2>5. certs'[d] = 1
    BY ONLY <2>2, <2>3
  <2> QED
    BY Zenon, <1>3, <2>2, <2>4, <2>5 DEF DisposedOnce, Disposed
<1>10. \A u \in Txs : tx[u].op = "bind" => origin'[tx[u].hold] # "lifecycle"
  BY Zenon, <1>1, <1>3, BindersOutside
<1>11. ASSUME NEW u \in Txs, NEW e \in Docs, tx'[u] = tx[u], e \in tx[u].docs
       PROVE  /\ tx[u].op \in Writes => /\ state'[e] = state[e]
                                        /\ Bound(e)' => Bound(e)
                                        /\ Declared(e)' => Declared(e)
              /\ tx[u].op = "certify" => Declared(e)' /\ (e \in frozen' => e \in frozen)
  <2>1. Bound(e)' <=> Bound(e)
    BY Zenon, <1>1 DEF Bound
  <2>2. Declared(e)' => Declared(e)
    BY Zenon, <1>1, <1>3 DEF TypeOK, Declared
  <2>3. tx[u].op \in Writes => state'[e] = state[e]
    BY Zenon, <1>6, <1>11 DEF Writable, LockedForUpdate
  <2>4. tx[u].op = "certify" => e # d /\ Declared(e)
    BY Zenon, <1>1, <1>3, <1>11, Alone, CertifiersFound
  <2>5. tx[u].op = "certify" => Declared(e)'
    BY Zenon, <1>1, <1>3, <2>4 DEF TypeOK, Declared
  <2> QED
    BY Zenon, <1>1, <2>1, <2>2, <2>3, <2>5
<1>12. IInv'
  BY Zenon, <1>3, <1>7, <1>8, <1>9, <1>10, <1>11, WriteKeeps
<1>13. ASSUME NEW e \in Docs
       PROVE  Moves(e)
  <2>1. Disposed(e)' => Disposed(e) \/ e \notin frozen
    BY Zenon, <1>1, <1>3, <1>4 DEF TypeOK, Disposed
  <2>2. state'[e] = state[e] \/ (state'[e] = "disposed" /\ ~RecordRowFree(e))
    BY Zenon, <1>1, <1>6 DEF RecordRowFree
  <2> QED
    BY <1>1, <2>1, <2>2, ZenonT(30) DEF Moves
<1> QED
  BY Zenon, <1>12, <1>13

-----------------------------------------------------------------------------
(* Steps of the hold APIs and of the lifecycle, and the theorems *)

\* Steps of the compliance API: they touch one hold, never a lifecycle one.
LEMMA ComplianceKeeps ==
  ASSUME IInv, Settled, TxType', UNCHANGED docVars, UNCHANGED recordVars, prev' = prev,
         NEW h \in Holds, origin[h] # "lifecycle", origin'[h] = "compliance",
         origin' \in [Holds -> {"none", "compliance", "lifecycle"}],
         active' \subseteq Holds, bound' \subseteq Holds \X Docs,
         \A g \in Holds \ {h} :
           /\ origin'[g] = origin[g] /\ (g \in active' <=> g \in active)
           /\ \A d \in Docs : <<g, d>> \in bound' <=> <<g, d>> \in bound,
         \A u \in Txs, d \in Docs :
           tx'[u] = tx[u] /\ d \in tx[u].docs /\ tx[u].op \in Writes => (Bound(d)' => Bound(d))
  PROVE  IInv' /\ \A e \in Docs : Moves(e)
<1>1. /\ state' = state /\ trashed' = trashed /\ cohort' = cohort /\ folder' = folder
      /\ versions' = versions /\ record' = record /\ frozen' = frozen /\ kept' = kept
      /\ certs' = certs
  BY Zenon DEF docVars, recordVars
<1>2. TypeOK /\ Checked /\ HoldRows /\ DisposedOnce /\ Locks
  BY Zenon DEF IInv
<1>3. TypeOK'
  BY Zenon, <1>1, <1>2 DEF TypeOK, TxType, Ops
<1>4. \A d \in Docs, g \in Holds :
        g \in LifecycleHolds(d)' \cap active' <=> g \in LifecycleHolds(d) \cap active
  BY Zenon DEF LifecycleHolds
<1>5. \A d \in Docs : LifecycleHolds(d)' \cap active' = LifecycleHolds(d) \cap active
  BY Zenon, <1>4 DEF LifecycleHolds
<1>6. HoldRows'
  <2>1. \A g \in Holds : origin'[g] = "none" =>
          g \notin active' /\ \A d \in Docs : <<g, d>> \notin bound'
    BY Zenon, <1>2 DEF HoldRows
  <2>2. \A g \in Holds : origin'[g] = "lifecycle" => prev'[g] \in Holdable
    BY Zenon, <1>2 DEF HoldRows
  <2> QED
    BY <1>1, <1>2, <1>4, <1>5, <2>1, <2>2 DEF HoldRows
<1>7. DisposedOnce'
  BY Zenon, <1>1, <1>2 DEF DisposedOnce, Disposed
<1>8. \A u \in Txs : tx[u].op = "bind" => origin'[tx[u].hold] # "lifecycle"
  BY Zenon, <1>2 DEF Checked, Locks
<1>9. \A u \in Txs, e \in Docs : tx[u].op = "certify" /\ e \in tx[u].docs => Declared(e)
  BY Zenon, <1>2 DEF Checked, Found
<1>10. \A e \in Docs : Declared(e)' <=> Declared(e)
  BY Zenon, <1>1 DEF Declared
<1>11. IInv'
  BY Zenon, <1>1, <1>3, <1>6, <1>7, <1>8, <1>9, <1>10, WriteKeeps
<1>12. \A e \in Docs : Moves(e)
  BY ZenonT(30), <1>1, QuietMoves
<1> QED
  BY Zenon, <1>11, <1>12

LEMMA ReleaseHoldKeeps ==
  ASSUME IInv, NEW h \in Holds, ReleaseHold(h)
  PROVE  IInv' /\ \A e \in Docs : Moves(e)
<1>1. /\ origin[h] = "compliance" /\ active' = active \ {h} /\ UNCHANGED docVars
      /\ UNCHANGED recordVars /\ origin' = origin /\ bound' = bound /\ prev' = prev
      /\ tx' = tx
  BY Zenon DEF ReleaseHold
<1>2. TypeOK /\ TxType
  BY Zenon, TxTyped DEF IInv
<1>3. Settled /\ TxType' /\ active' \subseteq Holds /\ bound' \subseteq Holds \X Docs
      /\ origin' \in [Holds -> {"none", "compliance", "lifecycle"}]
  BY Zenon, <1>1, <1>2 DEF TypeOK, TxType, Settled
<1>4. \A d \in Docs : Bound(d)' => Bound(d)
  BY Zenon, <1>1 DEF Bound
<1> QED
  BY Zenon, <1>1, <1>3, <1>4, ComplianceKeeps

LEMMA BindKeeps ==
  ASSUME IInv, NEW t \in Txs, NEW h \in Holds, NEW remove \in SUBSET Docs,
         CreateHold(t, h) \/ UpdateHold(t, h, remove)
  PROVE  IInv' /\ \A e \in Docs : Moves(e)
<1>1. /\ Commit(t) /\ tx[t].op = "bind" /\ tx[t].hold = h
      /\ origin' = [origin EXCEPT ![h] = "compliance"] \/ (origin' = origin /\ origin[h] = "compliance")
      /\ active' = active \/ active' = active \cup {h}
      /\ UNCHANGED docVars /\ UNCHANGED recordVars /\ prev' = prev
  BY Zenon DEF CreateHold, UpdateHold
<1>2. \/ bound' = bound \cup ({h} \X tx[t].docs)
      \/ bound' = (bound \cup ({h} \X tx[t].docs)) \ ({h} \X remove)
  BY Zenon DEF CreateHold, UpdateHold
<1>3. TypeOK /\ TxType /\ Settled /\ TxType' /\ Checked /\ Locks
  BY Zenon, <1>1, CommitFacts
<1>4. /\ origin[h] # "lifecycle" /\ origin'[h] = "compliance"
      /\ origin' \in [Holds -> {"none", "compliance", "lifecycle"}]
      /\ \A g \in Holds \ {h} : origin'[g] = origin[g]
  BY Zenon, <1>1, <1>3 DEF TypeOK, Checked
<1>5. /\ bound' \subseteq Holds \X Docs
      /\ \A g \in Holds \ {h} : \A d \in Docs : <<g, d>> \in bound' <=> <<g, d>> \in bound
      /\ \A d \in Docs : d \notin tx[t].docs => (<<h, d>> \in bound' => <<h, d>> \in bound)
  <2>1. tx[t].docs \subseteq Docs
    BY Zenon, <1>3 DEF TxType
  <2> QED
    BY <1>2, <1>3, <2>1 DEF TypeOK
<1>6. active' \subseteq Holds /\ \A g \in Holds \ {h} : g \in active' <=> g \in active
  BY <1>1, <1>3 DEF TypeOK
<1>7. ASSUME NEW u \in Txs, NEW d \in Docs, tx'[u] = tx[u], d \in tx[u].docs,
             tx[u].op \in Writes, Bound(d)'
      PROVE  Bound(d)
  <2>1. d \notin tx[t].docs
    BY ZenonT(60), <1>1, <1>3, <1>7, Alone
  <2>2. active' = active \/ \A e \in Docs : <<h, e>> \notin bound
    <3>1. HoldRows
      BY Zenon DEF IInv
    <3>2. active' = active \/ origin[h] = "none"
      BY Zenon DEF CreateHold, UpdateHold
    <3> QED
      BY <3>1, <3>2 DEF HoldRows
  <2>3. PICK g \in Holds : g \in active' /\ <<g, d>> \in bound'
    BY Zenon, <1>6, <1>7 DEF Bound
  <2>4. CASE g # h
    BY Zenon, <1>5, <1>6, <2>3, <2>4 DEF Bound
  <2>5. CASE g = h
    BY Zenon, <1>5, <2>1, <2>2, <2>3, <2>5 DEF Bound
  <2> QED
    BY <2>4, <2>5
<1> QED
  BY Zenon, <1>1, <1>3, <1>4, <1>5, <1>6, <1>7, ComplianceKeeps
-----------------------------------------------------------------------------
(* The steps that change a lifecycle state under the document's lock *)

\* No transition leaves legal_hold or disposed, or enters legal_hold.
LEMMA TransitionRows ==
  ASSUME NEW op, NEW r \in Transitions(op)
  PROVE  /\ r[1] \notin {"legal_hold", "disposed"}
         /\ r[3] \in LifecycleStates \ {"legal_hold"}
BY DEF Transitions, lifecycleTransitions, workflowTransitions, LifecycleStates

LEMMA HoldableStates == Holdable \subseteq LifecycleStates \ {"legal_hold", "disposed"}
BY DEF Holdable

LEMMA TransitionKeeps ==
  ASSUME IInv, NEW t \in Txs, NEW d \in Docs, TransitionLifecycleState(t, d)
  PROVE  IInv' /\ \A e \in Docs : Moves(e)
<1>1. /\ Commit(t) /\ tx[t].op \in Writes /\ d \in tx[t].docs /\ ~Bound(d)
      /\ trashed' = trashed /\ cohort' = cohort /\ folder' = folder
      /\ versions' = versions /\ origin' = origin /\ active' = active /\ bound' = bound
      /\ prev' = prev /\ record' = record /\ frozen' = frozen /\ kept' = kept
      /\ certs' = certs
  BY DEF TransitionLifecycleState, In, Writes, holdVars, recordVars
<1>2. PICK s \in LifecycleStates \ {"legal_hold"} :
        state' = [state EXCEPT ![d] = s] /\ state[d] \notin {"legal_hold", "disposed"}
  <2>1. PICK r \in Transitions(tx[t].op) : Applies(r, d) /\ state' = [state EXCEPT ![d] = r[3]]
    BY ZenonT(30) DEF TransitionLifecycleState
  <2>2. r[1] = state[d]
    BY Zenon, <2>1 DEF Applies
  <2> QED
    BY Zenon, <2>1, <2>2, TransitionRows
<1>3. TypeOK /\ TxType /\ Settled /\ TxType' /\ Locks /\ Checked /\ HoldRows /\ DisposedOnce
  BY Zenon, <1>1, CommitFacts
<1>4. /\ state' \in [Docs -> LifecycleStates \cup {"gone"}]
      /\ \A e \in Docs \ {d} : state'[e] = state[e]
      /\ state'[d] = s
  BY Zenon, <1>2, <1>3 DEF TypeOK
<1>5. TypeOK'
  BY Zenon, <1>1, <1>3, <1>4 DEF TypeOK, TxType, Ops
<1>6. HoldRows'
  <2>1. LifecycleHolds(d) \cap active = {}
    BY Zenon, <1>1 DEF LifecycleHolds, Bound
  <2>2. \A e \in Docs : LifecycleHolds(e)' = LifecycleHolds(e)
    BY Zenon, <1>1 DEF LifecycleHolds
  <2> QED
    BY Zenon, <1>1, <1>2, <1>3, <1>4, <2>1, <2>2 DEF HoldRows
<1>7. DisposedOnce'
  BY Zenon, <1>1, <1>3 DEF DisposedOnce, Disposed
<1>8. \A u \in Txs : tx[u].op = "bind" => origin'[tx[u].hold] # "lifecycle"
  BY Zenon, <1>1, <1>3 DEF Checked
<1>9. \A u \in Txs, e \in Docs : tx[u].op = "certify" /\ e \in tx[u].docs => Declared(e)
  BY Zenon, <1>3 DEF Checked, Found
<1>10. \A e \in Docs : (Declared(e)' <=> Declared(e)) /\ (Bound(e)' <=> Bound(e))
  BY Zenon, <1>1 DEF Declared, Bound
<1>11. \A u \in Txs, e \in Docs : tx'[u] = tx[u] /\ e \in tx[u].docs /\ tx[u].op \in Writes
         => state'[e] = state[e]
  BY Zenon, <1>1, <1>3, <1>4, Alone
<1>12. IInv'
  BY Zenon, <1>1, <1>3, <1>5, <1>6, <1>7, <1>8, <1>9, <1>10, <1>11, WriteKeeps
<1>13. ASSUME NEW e \in Docs
       PROVE  Moves(e)
  <2>1. Disposed(e)' => Disposed(e)
    BY Zenon, <1>1 DEF Disposed
  <2>2. state'[e] = state[e] \/ (state[e] \notin {"legal_hold", "disposed"} /\ ~Bound(e))
    BY Zenon, <1>1, <1>2, <1>4
  <2> QED
    BY <1>1, <2>1, <2>2, ZenonT(30) DEF Moves
<1> QED
  BY Zenon, <1>12, <1>13

LEMMA PlaceKeeps ==
  ASSUME IInv, NEW t \in Txs, NEW d \in Docs, NEW h \in Holds, Place(t, d, h)
  PROVE  IInv' /\ \A e \in Docs : Moves(e)
<1>1. /\ Commit(t) /\ tx[t].op = "apply_hold" /\ d \in tx[t].docs
      /\ origin[h] = "none" /\ HoldRowFree(h)
      /\ origin' = [origin EXCEPT ![h] = "lifecycle"]
      /\ active' = active \cup {h} /\ bound' = bound \cup {<<h, d>>}
      /\ prev' = [prev EXCEPT ![h] = state[d]]
      /\ state' = [state EXCEPT ![d] = "legal_hold"]
      /\ trashed' = trashed /\ cohort' = cohort /\ folder' = folder
      /\ versions' = versions /\ record' = record /\ frozen' = frozen /\ kept' = kept
      /\ certs' = certs
  BY Zenon DEF Place, In, recordVars
<1>2. TypeOK /\ TxType /\ Settled /\ TxType' /\ Locks /\ Checked /\ HoldRows /\ DisposedOnce
  BY Zenon, <1>1, CommitFacts
<1>3. state[d] \in Holdable
  BY Zenon, <1>1, <1>2 DEF Checked, Found
<1>4. /\ state' \in [Docs -> LifecycleStates \cup {"gone"}]
      /\ \A e \in Docs \ {d} : state'[e] = state[e]
      /\ state'[d] = "legal_hold"
  BY ZenonT(60), <1>1, <1>2 DEF TypeOK, LifecycleStates
<1>5. /\ origin' \in [Holds -> {"none", "compliance", "lifecycle"}]
      /\ prev' \in [Holds -> LifecycleStates]
      /\ active' \subseteq Holds /\ bound' \subseteq Holds \X Docs
      /\ origin'[h] = "lifecycle" /\ prev'[h] = state[d]
      /\ \A g \in Holds \ {h} : origin'[g] = origin[g] /\ prev'[g] = prev[g]
  BY <1>1, <1>2, <1>3, HoldableStates DEF TypeOK
<1>6. TypeOK'
  BY Zenon, <1>1, <1>2, <1>4, <1>5 DEF TypeOK, TxType, Ops
<1>7. HoldRows'
  <2>1. \A g \in Holds, e \in Docs :
          g \in LifecycleHolds(e)' \cap active' <=>
            g \in LifecycleHolds(e) \cap active \/ (g = h /\ e = d)
    BY ZenonT(30), <1>1, <1>2, <1>5 DEF LifecycleHolds, HoldRows
  <2>2. \A g \in Holds : g \notin LifecycleHolds(d) \cap active
    BY Zenon, <1>2, <1>3, HoldableStates DEF HoldRows
  <2>3. \A g \in Holds : g \in LifecycleHolds(d)' \cap active' <=> g = h
    BY <2>1, <2>2
  <2>4. \A g \in Holds : origin'[g] = "none" => g \notin active'
    BY ZenonT(30), <1>1, <1>2, <1>5 DEF HoldRows
  <2>5. \A g \in Holds : origin'[g] = "none" => \A e \in Docs : <<g, e>> \notin bound'
    BY Zenon, <1>1, <1>2, <1>5 DEF HoldRows
  <2>6. \A g \in Holds : origin'[g] = "lifecycle" => prev'[g] \in Holdable
    BY Zenon, <1>2, <1>3, <1>5 DEF HoldRows
  <2>7. \A e \in Docs, f, g \in Holds :
          f \in LifecycleHolds(e)' \cap active' /\ g \in LifecycleHolds(e)' \cap active' => f = g
    BY ZenonT(60), <1>2, <2>1, <2>2 DEF HoldRows
  <2>8. \A e \in Docs, g \in Holds :
          g \in LifecycleHolds(e)' \cap active' => state'[e] \in {"legal_hold", "disposed"}
    BY Zenon, <1>2, <1>4, <2>1 DEF HoldRows
  <2>9. \A e \in Docs : state'[e] = "legal_hold" => LifecycleHolds(e)' \cap active' # {}
    <3>1. \A e \in Docs : \A g \in LifecycleHolds(e) \cap active : g \in Holds
      BY Zenon DEF LifecycleHolds
    <3>2. \A e \in Docs \ {d} : state[e] = "legal_hold" =>
            \E g \in Holds : g \in LifecycleHolds(e) \cap active
      BY Zenon, <1>2, <3>1 DEF HoldRows
    <3> QED
      BY <1>4, <2>1, <2>3, <3>2
  <2> QED
    BY Zenon, <2>4, <2>5, <2>6, <2>7, <2>8, <2>9 DEF HoldRows
<1>8. DisposedOnce'
  BY Zenon, <1>1, <1>2 DEF DisposedOnce, Disposed
<1>9. \A u \in Txs : tx[u].op = "bind" => origin'[tx[u].hold] # "lifecycle"
  BY ZenonT(30), <1>1, <1>2, <1>5 DEF Checked, Locks, HoldRowFree
<1>10. \A u \in Txs, e \in Docs : tx[u].op = "certify" /\ e \in tx[u].docs => Declared(e)
  BY <1>2 DEF Checked, Found
<1>11. \A e \in Docs : Declared(e)' <=> Declared(e)
  BY ZenonT(30), <1>1 DEF Declared
<1>12. \A e \in Docs \ {d} : Bound(e)' => Bound(e)
  BY ZenonT(30), <1>1, <1>2 DEF Bound, HoldRows
<1>13. \A u \in Txs, e \in Docs : tx'[u] = tx[u] /\ e \in tx[u].docs /\ tx[u].op \in Writes
         => e # d
  BY Zenon, <1>1, <1>2, Alone DEF Writes
<1>14. IInv'
  BY ZenonT(30), <1>1, <1>2, <1>4, <1>6, <1>7, <1>8, <1>9, <1>10, <1>11, <1>12, <1>13, WriteKeeps
<1>15. ASSUME NEW e \in Docs
       PROVE  Moves(e)
  <2>1. Disposed(e)' => Disposed(e)
    BY ZenonT(30), <1>1 DEF Disposed
  <2>2. state'[e] = state[e] \/ (state[e] \in Holdable /\ state'[e] = "legal_hold")
    BY Zenon, <1>3, <1>4
  <2> QED
    BY <1>1, <2>1, <2>2, ZenonT(30) DEF Moves
<1> QED
  BY Zenon, <1>14, <1>15
LEMMA ReleaseKeeps ==
  ASSUME IInv, NEW t \in Txs, NEW d \in Docs, NEW h \in Holds, Release(t, d, h)
  PROVE  IInv' /\ \A e \in Docs : Moves(e)
<1>1. /\ Commit(t) /\ tx[t].op = "release_hold" /\ d \in tx[t].docs
      /\ h \in LifecycleHolds(d) /\ (h \in active \/ LifecycleHolds(d) \cap active = {})
      /\ state' = [state EXCEPT ![d] = prev[h]]
      /\ \/ active' = active /\ bound' = bound \ {<<h, d>>}
         \/ /\ active' = active \ {h} /\ bound' = bound
            /\ h \in active => \A e \in Docs \ {d} : <<h, e>> \notin bound
      /\ trashed' = trashed /\ cohort' = cohort /\ folder' = folder
      /\ versions' = versions /\ origin' = origin /\ prev' = prev
      /\ record' = record /\ frozen' = frozen /\ kept' = kept /\ certs' = certs
  BY Zenon DEF Release, In, recordVars
<1>2. TypeOK /\ TxType /\ Settled /\ TxType' /\ Locks /\ Checked /\ HoldRows /\ DisposedOnce
  BY Zenon, <1>1, CommitFacts
<1>3. state[d] = "legal_hold"
  BY Zenon, <1>1, <1>2 DEF Checked, Found
<1>4. h \in active /\ origin[h] = "lifecycle" /\ prev[h] \in Holdable
  BY ZenonT(30), <1>1, <1>2, <1>3 DEF HoldRows, LifecycleHolds
<1>5. /\ state' \in [Docs -> LifecycleStates \cup {"gone"}]
      /\ \A e \in Docs \ {d} : state'[e] = state[e]
      /\ state'[d] = prev[h] /\ state'[d] # "legal_hold"
  BY Zenon, <1>1, <1>2, <1>4, HoldableStates DEF TypeOK
<1>6. active' \subseteq active /\ bound' \subseteq bound
  BY Zenon, <1>1
<1>7. TypeOK'
  BY ZenonT(30), <1>1, <1>2, <1>5, <1>6 DEF TypeOK, TxType, Ops
<1>8. HoldRows'
  <2>1. \A g \in Holds, e \in Docs :
          g \in LifecycleHolds(e)' \cap active' <=>
            g \in LifecycleHolds(e) \cap active /\ ~(g = h /\ e = d)
    BY Zenon, <1>1, <1>4 DEF LifecycleHolds
  <2>2. \A g \in Holds : g \in LifecycleHolds(d) \cap active => g = h
    BY Zenon, <1>1, <1>2, <1>4 DEF HoldRows
  <2>3. \A g \in Holds : origin'[g] = "none" =>
          g \notin active' /\ \A e \in Docs : <<g, e>> \notin bound'
    BY Zenon, <1>1, <1>2, <1>6 DEF HoldRows
  <2>4. \A g \in Holds : origin'[g] = "lifecycle" => prev'[g] \in Holdable
    BY Zenon, <1>1, <1>2 DEF HoldRows
  <2>5. \A e \in Docs, f, g \in Holds :
          f \in LifecycleHolds(e)' \cap active' /\ g \in LifecycleHolds(e)' \cap active' => f = g
    BY ZenonT(30), <1>2, <2>1 DEF HoldRows
  <2>6. \A e \in Docs, g \in Holds :
          g \in LifecycleHolds(e)' \cap active' => state'[e] \in {"legal_hold", "disposed"}
    BY ZenonT(30), <1>2, <1>5, <2>1, <2>2 DEF HoldRows
  <2>7. \A e \in Docs : state'[e] = "legal_hold" => LifecycleHolds(e)' \cap active' # {}
    <3>1. \A e \in Docs : \A g \in LifecycleHolds(e) \cap active : g \in Holds
      BY DEF LifecycleHolds
    <3>2. \A e \in Docs \ {d} : state[e] = "legal_hold" =>
            \E g \in Holds : g \in LifecycleHolds(e) \cap active
      BY <1>2, <3>1 DEF HoldRows
    <3> QED
      BY Zenon, <1>5, <2>1, <3>2
  <2> QED
    BY Zenon, <2>3, <2>4, <2>5, <2>6, <2>7 DEF HoldRows
<1>9. DisposedOnce'
  BY Zenon, <1>1, <1>2 DEF DisposedOnce, Disposed
<1>10. \A u \in Txs : tx[u].op = "bind" => origin'[tx[u].hold] # "lifecycle"
  BY Zenon, <1>1, <1>2 DEF Checked
<1>11. \A u \in Txs, e \in Docs : tx[u].op = "certify" /\ e \in tx[u].docs => Declared(e)
  BY <1>2 DEF Checked, Found
<1>12. \A e \in Docs : (Declared(e)' <=> Declared(e)) /\ (Bound(e)' => Bound(e))
  BY ZenonT(30), <1>1, <1>6 DEF Declared, Bound
<1>13. \A u \in Txs, e \in Docs : tx'[u] = tx[u] /\ e \in tx[u].docs /\ tx[u].op \in Writes
         => e # d
  BY Zenon, <1>1, <1>2, Alone DEF Writes
<1>14. IInv'
  BY ZenonT(60), <1>1, <1>2, <1>5, <1>7, <1>8, <1>9, <1>10, <1>11, <1>12, <1>13, WriteKeeps
<1>15. ASSUME NEW e \in Docs
       PROVE  Moves(e)
  <2>1. Disposed(e)' => Disposed(e)
    BY Zenon, <1>1 DEF Disposed
  <2>2. \/ state'[e] = state[e]
        \/ /\ state[e] = "legal_hold"
           /\ \E g \in LifecycleHolds(e) \cap active : state'[e] = prev[g]
    BY Zenon, <1>1, <1>3, <1>4, <1>5
  <2> QED
    BY <1>1, <2>1, <2>2, Zenon DEF Moves
<1> QED
  BY <1>14, <1>15

LEMMA HardDeleteKeeps ==
  ASSUME IInv, NEW t \in Txs, HardDelete(t)
  PROVE  IInv' /\ \A e \in Docs : Moves(e)
<1> DEFINE ds == tx[t].docs
<1>1. /\ Commit(t) /\ tx[t].op \in {"hard_delete", "purge_folder"}
      /\ \A d \in ds : record[d] = "none"
      /\ state' = [d \in Docs |-> IF d \in ds THEN "gone" ELSE state[d]]
      /\ folder' \in {"gone", folder}
      /\ trashed' = trashed \ ds /\ cohort' = cohort \ ds
      /\ bound' = {b \in bound : b[2] \notin ds}
      /\ versions' = versions /\ origin' = origin /\ active' = active /\ prev' = prev
      /\ record' = record /\ frozen' = frozen /\ kept' = kept /\ certs' = certs
  BY Zenon DEF HardDelete, recordVars
<1>2. TypeOK /\ TxType /\ Settled /\ TxType' /\ Locks /\ Checked /\ HoldRows /\ DisposedOnce
  BY Zenon, <1>1, CommitFacts
<1>3. tx[t].op \in Writes \ {"apply_hold", "release_hold"} /\ ds \subseteq Docs
  BY Zenon, <1>1, <1>2 DEF Writes, TxType
<1>4. \A d \in ds : ~Bound(d)
  BY Zenon, <1>2, <1>3 DEF Checked, Found, Held
<1> HIDE DEF ds
<1>5. /\ state' \in [Docs -> LifecycleStates \cup {"gone"}]
      /\ \A e \in Docs : state'[e] = IF e \in ds THEN "gone" ELSE state[e]
  BY Zenon, <1>1, <1>2 DEF TypeOK
<1>6. /\ bound' \subseteq bound
      /\ \A g \in Holds, e \in Docs : <<g, e>> \in bound' <=> <<g, e>> \in bound /\ e \notin ds
  BY Zenon, <1>1
<1>7. TypeOK'
  <2>1. /\ folder' \in {"live", "trash", "gone"} /\ trashed' \subseteq Docs
        /\ cohort' \subseteq trashed' /\ bound' \subseteq Holds \X Docs
    BY Zenon, <1>1, <1>2, <1>6 DEF TypeOK
  <2> QED
    BY Zenon, <1>1, <1>2, <1>5, <2>1 DEF TypeOK, TxType, Ops
<1>8. HoldRows'
  <2>1. \A g \in Holds, e \in Docs :
          g \in LifecycleHolds(e)' \cap active' <=>
            g \in LifecycleHolds(e) \cap active /\ e \notin ds
    BY ZenonT(30), <1>1, <1>6 DEF LifecycleHolds
  <2>2. \A g \in Holds : origin'[g] = "none" =>
          g \notin active' /\ \A e \in Docs : <<g, e>> \notin bound'
    BY Zenon, <1>1, <1>2, <1>6 DEF HoldRows
  <2>3. \A g \in Holds : origin'[g] = "lifecycle" => prev'[g] \in Holdable
    BY Zenon, <1>1, <1>2 DEF HoldRows
  <2>4. \A e \in Docs, f, g \in Holds :
          f \in LifecycleHolds(e)' \cap active' /\ g \in LifecycleHolds(e)' \cap active' => f = g
    BY Zenon, <1>2, <2>1 DEF HoldRows
  <2>5. \A e \in Docs, g \in Holds :
          g \in LifecycleHolds(e)' \cap active' => state'[e] \in {"legal_hold", "disposed"}
    BY Zenon, <1>2, <1>5, <2>1 DEF HoldRows
  <2>6. \A e \in Docs : state'[e] = "legal_hold" => LifecycleHolds(e)' \cap active' # {}
    <3>1. \A e \in Docs : \A g \in LifecycleHolds(e) \cap active : g \in Holds
      BY Zenon DEF LifecycleHolds
    <3>2. \A e \in Docs : state[e] = "legal_hold" =>
            \E g \in Holds : g \in LifecycleHolds(e) \cap active
      BY Zenon, <1>2, <3>1 DEF HoldRows
    <3> QED
      BY <1>5, <2>1, <3>2
  <2> QED
    BY <2>2, <2>3, <2>4, <2>5, <2>6 DEF HoldRows
<1>9. DisposedOnce'
  BY Zenon, <1>1, <1>2 DEF DisposedOnce, Disposed
<1>10. \A u \in Txs : tx[u].op = "bind" => origin'[tx[u].hold] # "lifecycle"
  BY Zenon, <1>1, <1>2 DEF Checked
<1>11. \A u \in Txs, e \in Docs : tx[u].op = "certify" /\ e \in tx[u].docs => Declared(e)
  BY Zenon, <1>2 DEF Checked, Found
<1>12. \A e \in Docs : (Declared(e)' <=> Declared(e)) /\ (Bound(e)' => Bound(e))
  BY Zenon, <1>1, <1>6 DEF Declared, Bound
<1>13. \A u \in Txs, e \in Docs : tx'[u] = tx[u] /\ e \in tx[u].docs /\ tx[u].op \in Writes
         => e \notin ds
  BY Zenon, <1>1, <1>2, <1>3, Alone DEF ds
<1>14. IInv'
  BY ZenonT(30), <1>1, <1>2, <1>5, <1>7, <1>8, <1>9, <1>10, <1>11, <1>12, <1>13, WriteKeeps
<1>15. ASSUME NEW e \in Docs
       PROVE  Moves(e)
  <2>1. Disposed(e)' => Disposed(e)
    BY Zenon, <1>1 DEF Disposed
  <2>2. state'[e] = state[e] \/ (state'[e] = "gone" /\ ~Bound(e) /\ record[e] = "none")
    BY <1>1, <1>4, <1>5
  <2> QED
    BY <1>1, <2>1, <2>2, ZenonT(30) DEF Moves
<1> QED
  BY Zenon, <1>14, <1>15
-----------------------------------------------------------------------------
(* The theorems *)

LEMMA InitIInv ==
  ASSUME Init
  PROVE  IInv
<1>1. TypeOK
  <2>1. /\ state \in [Docs -> LifecycleStates \cup {"gone"}] /\ prev \in [Holds -> LifecycleStates]
        /\ record \in [Docs -> {"none", "declared", "cutoff_pending", "disposed"}]
        /\ origin \in [Holds -> {"none", "compliance", "lifecycle"}]
    BY DEF Init, LifecycleStates
  <2>2. versions \in [Docs -> 0..MaxVersions] /\ certs \in [Docs -> Nat]
    BY HoldsAssumption DEF Init
  <2>3. tx \in [Txs -> [op : Writes \cup {"none", "bind", "certify", "declare",
                                         "freeze", "sweep", "undelete"},
                       docs : SUBSET Docs, hold : Holds \cup {NoHold}]]
    BY DEF Init, NoTx
  <2>4. /\ trashed \subseteq Docs /\ cohort \subseteq trashed /\ folder \in {"live", "trash", "gone"}
        /\ active \subseteq Holds /\ bound \subseteq Holds \X Docs
        /\ frozen \subseteq Docs /\ kept \subseteq Docs
    BY DEF Init
  <2> QED
    BY Zenon, <2>1, <2>2, <2>3, <2>4 DEF TypeOK
<1>2. \A t \in Txs : tx[t].op = "none" /\ tx[t].docs = {} /\ tx[t].hold = NoHold
  BY ZenonT(30), NoTxFields DEF Init
<1>3. Locks /\ Checked
  BY Zenon, <1>2 DEF Locks, Checked, Writes
<1>4. HoldRows
  BY DEF Init, HoldRows, LifecycleHolds
<1>5. DisposedOnce
  BY DEF Init, DisposedOnce, Disposed
<1> QED
  BY Zenon, <1>1, <1>3, <1>4, <1>5 DEF IInv

LEMMA StepKeeps ==
  ASSUME IInv, [Next]_vars
  PROVE  IInv' /\ \A d \in Docs : Moves(d)
<1>1. CASE \E t \in Txs : Writer(t)
  <2>1. PICK t \in Txs : Writer(t)
    BY <1>1
  <2>2. CASE \E d \in Docs, op \in Writes \ {"purge_folder"} : LockDocument(t, d, op)
    BY <2>2, LockDocumentKeeps
  <2>3. CASE LockTrashedDocuments(t) \/ HardDelete(t)
    BY <2>3, LockTrashedDocumentsKeeps, HardDeleteKeeps
  <2>4. CASE \E d \in Docs : TransitionLifecycleState(t, d)
    BY <2>4, TransitionKeeps
  <2>5. CASE \E d \in Docs, h \in Holds : Place(t, d, h) \/ Release(t, d, h)
    BY <2>5, PlaceKeeps, ReleaseKeeps
  <2>6. CASE \E d \in Docs : SoftDelete(t, d) \/ SetCurrentVersion(t, d)
    BY <2>6, SoftDeleteKeeps, SetCurrentVersionKeeps
  <2> QED
    BY <2>1, <2>2, <2>3, <2>4, <2>5, <2>6 DEF Writer
<1>2. CASE \E t \in Txs : Abort(t)
  BY <1>2, AbortKeeps
<1>3. CASE Trash
  BY <1>3, CheckKeeps, TrashKeeps DEF Trash
<1>4. CASE Compliance
  <2>1. CASE \E t \in Txs, h \in Holds, ds \in SUBSET Docs : LockForHold(t, h, ds)
    BY <2>1, LockForHoldKeeps
  <2>2. CASE \E t \in Txs, h \in Holds, ds \in SUBSET Docs : UpdateHold(t, h, ds)
    BY <2>2, BindKeeps
  <2>3. CASE \E t \in Txs, h \in Holds : CreateHold(t, h)
    <3>1. {} \in SUBSET Docs
      BY Zenon
    <3> QED
      BY <2>3, <3>1, BindKeeps
  <2>4. CASE \E h \in Holds : ReleaseHold(h)
    BY <2>4, ReleaseHoldKeeps
  <2> QED
    BY <1>4, <2>1, <2>2, <2>3, <2>4 DEF Compliance
<1>5. CASE Records
  <2>1. CASE \E t \in Txs, d \in Docs : DeclareCheck(t, d) \/ FreezeCheck(t, d)
    BY Zenon, <2>1, CheckKeeps
  <2>2. CASE \E t \in Txs, d \in Docs : Declare(t, d) \/ DisposeCheck(t, d)
    BY Zenon, <2>2, DeclareKeeps, DisposeCheckKeeps
  <2>3. CASE \E t \in Txs, d \in Docs : Dispose(t, d) \/ Freeze(t, d)
    BY <2>3, DisposeKeeps, FreezeKeeps
  <2>4. CASE \E d \in Docs : CutoffPasses(d) \/ Unfreeze(d)
    BY <2>4, ThawKeeps
  <2>5. CASE \E ripe \in SUBSET Docs : ProposeDispositionsAtCutoff(ripe)
    BY <2>5, ProposeKeeps
  <2> QED
    BY Zenon, <1>5, <2>1, <2>2, <2>3, <2>4, <2>5 DEF Records
<1>6. CASE UNCHANGED vars
  <2>1. /\ state' = state /\ trashed' = trashed /\ cohort' = cohort /\ folder' = folder
        /\ versions' = versions /\ UNCHANGED holdVars /\ record' = record
        /\ frozen' = frozen /\ kept' = kept /\ certs' = certs /\ tx' = tx
    BY Zenon, <1>6 DEF vars, holdVars
  <2>2. Settled /\ TypeOK'
    BY <2>1 DEF Settled, IInv, TypeOK, holdVars
  <2> QED
    BY Zenon, <2>1, <2>2, QuietKeeps, QuietMoves
<1> QED
  BY Zenon, <1>1, <1>2, <1>3, <1>4, <1>5, <1>6 DEF Next

\* The inductive invariant holds throughout: every step of every transaction,
\* and a rollback at any point, keeps it.
THEOREM HoldsInvariant == Spec => []IInv
<1>1. IInv /\ [Next]_vars => IInv'
  BY StepKeeps
<1> QED
  BY <1>1, InitIInv, PTL DEF Spec

\* The model is well typed, and a restored document is out of its cohort
\* (documentRepo.Restore), for any documents, holds and transactions.
THEOREM HoldsTyped == Spec => []TypeOK
<1>1. IInv => TypeOK
  BY DEF IInv
<1> QED
  BY <1>1, HoldsInvariant, PTL

\* legal_hold is always backed by exactly one active lifecycle hold that
\* remembers a state to return to: release_hold never fails to find it.
THEOREM LegalHoldIsBacked == Spec => []LegalHoldBacked
<1>1. ASSUME IInv
      PROVE  LegalHoldBacked
  <2>1. HoldRows
    BY Zenon, <1>1 DEF IInv
  <2>2. ASSUME NEW d \in Docs, state[d] = "legal_hold"
        PROVE  \E h \in Holds : LifecycleHolds(d) \cap active = {h} /\ prev[h] \in Holdable
    <3>1. PICK h \in LifecycleHolds(d) \cap active : TRUE
      BY <2>1, <2>2 DEF HoldRows
    <3>2. h \in Holds /\ origin[h] = "lifecycle"
      BY Zenon, <3>1 DEF LifecycleHolds
    <3>3. \A g \in LifecycleHolds(d) \cap active : g = h
      BY <2>1, <3>1, <3>2 DEF HoldRows, LifecycleHolds
    <3> QED
      BY <2>1, <3>1, <3>2, <3>3 DEF HoldRows
  <2> QED
    BY <2>2 DEF LegalHoldBacked
<1> QED
  BY <1>1, HoldsInvariant, PTL

\* Every disposed record has exactly one certificate event.
THEOREM DisposalHappensOnce == Spec => []DisposedOnce
<1>1. IInv => DisposedOnce
  BY DEF IInv
<1> QED
  BY <1>1, HoldsInvariant, PTL

\* A held document gets no version and does not move through its lifecycle,
\* except into legal_hold and back (DEC-7).
THEOREM HeldStaysFrozen == Spec => HeldFrozen
<1>1. ASSUME IInv, [Next]_vars, NEW d \in Docs, Bound(d), RecordRowFree(d)
      PROVE  /\ versions'[d] = versions[d]
             /\ \/ state'[d] \in {state[d], "legal_hold"}
                \/ /\ state[d] = "legal_hold"
                   /\ \E h \in LifecycleHolds(d) \cap active : state'[d] = prev[h]
  <2>1. Moves(d)
    BY Zenon, <1>1, StepKeeps
  <2> QED
    BY Zenon, <1>1, <2>1 DEF Moves
<1>2. IInv /\ [Next]_vars =>
     [\A d \in Docs : Bound(d) /\ RecordRowFree(d) =>
         /\ versions'[d] = versions[d]
         /\ \/ state'[d] \in {state[d], "legal_hold"}
            \/ /\ state[d] = "legal_hold"
               /\ \E h \in LifecycleHolds(d) \cap active : state'[d] = prev[h]]_vars
  BY Zenon, <1>1
<1> QED
  BY <1>2, HoldsInvariant, PTL DEF Spec, HeldFrozen

\* A versioned document that is held or a record is trashed only by a folder
\* deletion that found nothing to protect.
THEOREM ProtectedStaysOut == Spec => ProtectedKept
<1>1. ASSUME IInv, [Next]_vars, NEW d \in Docs, Bound(d) \/ Declared(d),
             versions[d] > 0, d \notin trashed, d \in trashed'
      PROVE  d \in InFolder /\ \E t \in Txs : tx[t].op = "sweep"
  <2>1. Moves(d)
    BY Zenon, <1>1, StepKeeps
  <2>2. versions[d] # 0
    BY <1>1 DEF IInv, TypeOK
  <2> QED
    BY <1>1, <2>1, <2>2, ZenonT(30) DEF Moves
<1>2. IInv /\ [Next]_vars =>
     [\A d \in Docs :
         /\ Bound(d) \/ Declared(d)
         /\ versions[d] > 0 /\ d \notin trashed /\ d \in trashed'
         => d \in InFolder /\ \E t \in Txs : tx[t].op = "sweep"]_vars
  BY Zenon, <1>1
<1> QED
  BY <1>2, HoldsInvariant, PTL DEF Spec, ProtectedKept

\* A frozen record is not disposed.
THEOREM FrozenStays == Spec => FrozenKept
<1>1. ASSUME IInv, [Next]_vars, NEW d \in Docs, d \in frozen, Declared(d)
      PROVE  ~Disposed(d)'
  <2>1. Moves(d)
    BY <1>1, StepKeeps
  <2>2. ~Disposed(d)
    BY Zenon, <1>1 DEF Disposed, Declared
  <2> QED
    BY <1>1, <2>1, <2>2, ZenonT(30) DEF Moves
<1>2. IInv /\ [Next]_vars =>
     [\A d \in Docs : d \in frozen /\ Declared(d) => ~Disposed(d)']_vars
  BY <1>1
<1> QED
  BY <1>2, HoldsInvariant, PTL DEF Spec, FrozenKept

\* disposed is terminal, and a disposed record's document is never deleted.
THEOREM DisposedIsFinal == Spec => DisposedFinal
<1>1. ASSUME IInv, [Next]_vars, NEW d \in Docs, state[d] = "disposed"
      PROVE  state'[d] = "disposed" \/ (state'[d] = "gone" /\ record[d] = "none")
  <2>1. Moves(d)
    BY Zenon, <1>1, StepKeeps
  <2>2. state[d] \notin Holdable /\ state[d] # "legal_hold"
    BY <1>1, HoldableStates
  <2> QED
    BY Zenon, <1>1, <2>1, <2>2 DEF Moves
<1>2. IInv /\ [Next]_vars =>
     [\A d \in Docs : state[d] = "disposed" =>
         \/ state'[d] = "disposed"
         \/ state'[d] = "gone" /\ record[d] = "none"]_vars
  BY <1>1
<1> QED
  BY <1>2, HoldsInvariant, PTL DEF Spec, DisposedFinal
=============================================================================
