----------------------- MODULE AuditChainCheckpoints -----------------------
(***************************************************************************)
(* What outsiders rely on, proved on top of AuditChain's invariant: what a *)
(* checkpoint signed stays a prefix of the table until a rewrite, and the  *)
(* table is an append-only log (AuditLog) to its readers.                  *)
(***************************************************************************)
EXTENDS AuditChainProofs, FiniteSetTheorems

-----------------------------------------------------------------------------
(* What a checkpoint covers *)

(* cp was read from R at epoch n, or before a rewrite. *)
Anchored(R, n, cp) ==
  cp.epoch \in Nat /\ cp.epoch <= n /\ (cp.epoch = n => Covers(R, cp))

LEMMA FiniteTable ==
  ASSUME NEW R, Table(R), NEW n \in Nat, \A r \in R : r.id < n
  PROVE  IsFiniteSet(R)
<1> DEFINE f == [r \in R |-> r.id]
<1>1. f \in [R -> 0..n]
  BY DEF Table, RowOK
<1>2. \A r, s \in R : f[r] = f[s] => r = s
  BY DEF Table, Distinct
<1>3. f \in Injection(R, 0..n)
  BY ZenonT(60), <1>1, <1>2 DEF Injection, IsInjective
<1>4. IsFiniteSet(0..n)
  BY FS_Interval
<1> QED BY ZenonT(60), <1>3, <1>4, FS_Injection

(* A row after all others is in no prefix that was signed. *)
LEMMA CoversAppend ==
  ASSUME NEW R, Table(R), NEW m, m.at \in Nat, \A r \in R : r.at < m.at, NEW cp, Covers(R, cp)
  PROVE  Covers(R \cup {m}, cp)
<1>1. PICK r \in R : r.hash = cp.head /\ cp.count = Cardinality({s \in R : ~Before(r, s)})
  BY Zenon DEF Covers
<1>2. Before(r, m)
  BY DEF Before
<1>3. {s \in R \cup {m} : ~Before(r, s)} = {s \in R : ~Before(r, s)}
  BY <1>2
<1> QED BY Zenon, <1>1, <1>3 DEF Covers

(* Changing a row in place changes no prefix. *)
LEMMA CoversAlter ==
  ASSUME NEW R, Table(R), IsFiniteSet(R), NEW r \in R, NEW n,
         n.id = r.id, n.at = r.at, n.hash = r.hash, NEW cp, Covers(R, cp)
  PROVE  Covers((R \ {r}) \cup {n}, cp)
<1> DEFINE Q == (R \ {r}) \cup {n}
<1>1. PICK x \in R : x.hash = cp.head /\ cp.count = Cardinality({s \in R : ~Before(x, s)})
  BY Zenon DEF Covers
<1>2. PICK y \in Q : y.hash = x.hash /\ y.id = x.id /\ y.at = x.at
  OBVIOUS
<1> DEFINE S == {s \in R : ~Before(x, s)}
           T == {s \in Q : ~Before(y, s)}
<1>3. \A s : Before(x, s) <=> Before(y, s)
  BY ZenonT(60), <1>2 DEF Before
<1>4. Before(x, n) <=> Before(x, r)
  BY DEF Before
<1>5. r.id \in Nat /\ \A s \in R : s.id = r.id => s = r
  BY DEF Table, Distinct, RowOK
<1>6. n \in R => n = r
  BY Zenon, <1>5
<1>7. IsFiniteSet(S)
  BY Zenon, FS_Subset
<1>8. CASE Before(x, r)
  <2>1. T = S
    BY ZenonT(60), <1>3, <1>4, <1>6, <1>8
  <2> QED BY ZenonT(60), <1>1, <1>2, <2>1 DEF Covers
<1>9. CASE ~Before(x, r)
  <2>1. T = (S \ {r}) \cup {n} /\ r \in S /\ n \notin S \ {r}
    BY ZenonT(60), <1>3, <1>4, <1>6, <1>9
  <2> HIDE DEF S, T
  <2>2. IsFiniteSet(S \ {r}) /\ Cardinality(S \ {r}) = Cardinality(S) - 1
    BY ZenonT(60), <1>7, <2>1, FS_RemoveElement
  <2>3. Cardinality(T) = Cardinality(S \ {r}) + 1
    BY ZenonT(60), <2>1, <2>2, FS_AddElement
  <2>4. Cardinality(S) \in Nat
    BY ZenonT(60), <1>7, FS_CardinalityType
  <2>5. Cardinality(T) = Cardinality(S)
    BY ONLY <2>2, <2>3, <2>4
  <2> QED BY ZenonT(60), <1>1, <1>2, <2>5 DEF Covers, S, T
<1> QED BY ZenonT(60), <1>8, <1>9

(* The head covers the whole table. *)
LEMMA HeadCovers ==
  ASSUME NEW R, Table(R), NEW h \in Heads(R), NEW cp, cp.head = h.hash, cp.count = Cardinality(R)
  PROVE  Covers(R, cp)
<1>1. h \in R /\ \A s \in R : s = h \/ Before(s, h)
  BY Zenon DEF Heads
<1>2. \A s \in R : ~Before(h, s)
  BY <1>1 DEF Before, Table, RowOK
<1>3. {s \in R : ~Before(h, s)} = R
  BY ZenonT(60), <1>2
<1> QED BY ZenonT(60), <1>1, <1>3 DEF Covers

(* The checkpoint a re-baseline writes covers the rewritten rows and the marker. *)
LEMMA AnchorCovers ==
  ASSUME TypeOK, IdInv, RowsInv, WalkInv, NEW p \in Procs, RebaseCommit(p), p \notin overtaken
  PROVE  Covers(rows', checkpoint') /\ checkpoint'.epoch = epoch + 1
<1>1. /\ pc[p] = "rechain" /\ Sane(View(p)) /\ Ids(View(p)) = Ids(rows)
  BY Zenon, RebaseSane
<1>2. PICK m \in appendInTx(View(p), job[p]) : rows' = View(p) \cup {m} /\ checkpoint' = Anchor(p, m)
  BY Zenon DEF RebaseCommit
<1>3. /\ job[p] \in Jobs /\ job[p].id \notin Ids(View(p)) /\ job[p].id < nextId /\ nextId \in Nat
  BY ZenonT(60), <1>1 DEF TypeOK, IdInv, Unplaced
<1>4. Sane(rows') /\ m \in Heads(rows') /\ m.id = job[p].id
  <2>1. Sane(rows') /\ m \in Heads(rows')
    BY ZenonT(60), <1>1, <1>2, <1>3, AppendSane
  <2>2. Table(View(p))
    BY Zenon, <1>1 DEF Sane
  <2> QED BY ZenonT(60), <1>2, <1>3, <2>1, <2>2, JobRow
<1>5. IsFiniteSet(View(p))
  <2>1. Table(View(p)) /\ \A r \in View(p) : r.id < nextId
    BY <1>1 DEF Sane
  <2> QED BY ZenonT(60), <1>3, <2>1, FiniteTable
<1>6. m \notin View(p)
  BY ZenonT(60), <1>3, <1>4 DEF Ids
<1>7. Cardinality(rows') = Cardinality(View(p)) + 1
  BY ZenonT(60), <1>2, <1>5, <1>6, FS_AddElement
<1>8. /\ checkpoint'.head = m.hash /\ checkpoint'.count = Cardinality(View(p)) + 1
      /\ checkpoint'.epoch = epoch + 1
  BY Zenon, <1>2 DEF Anchor
<1>9. Table(rows')
  BY ZenonT(60), <1>4 DEF Sane
<1> QED BY ZenonT(60), <1>4, <1>7, <1>8, <1>9, HeadCovers

-----------------------------------------------------------------------------
(* Checkpoints *)

(* The latest checkpoint, and one about to be inserted, sign a prefix of the *)
(* table or were read before a rewrite.                                      *)
CheckInv ==
  /\ checkpoint.count > 0 => Anchored(rows, epoch, checkpoint)
  /\ \A p \in Procs : pc[p] = "sign" => Anchored(rows, epoch, seen[p])

(* Nobody comes to sign by the step of p, nor does what others read change. *)
Unsigned(p) ==
  pc'[p] # "sign" /\ \A q \in Procs : q # p => pc'[q] = pc[q] /\ seen'[q] = seen[q]

LEMMA FinishUnsigned ==
  ASSUME TypeOK, NEW p \in Procs, Finish(p)
  PROVE  Unsigned(p)
  BY Zenon DEF Finish, Move, Unsigned, TypeOK

LEMMA KeepUnsigned ==
  ASSUME TypeOK, NEW p \in Procs, NEW stage, stage # "sign", Move(p, stage),
         seen' = seen \/ seen' = [seen EXCEPT ![p] = rows]
  PROVE  Unsigned(p)
  BY Zenon DEF Move, Unsigned, TypeOK

LEMMA ReportUnsigned ==
  ASSUME TypeOK, NEW p \in Procs, Report(p)
  PROVE  Unsigned(p)
  BY ZenonT(60), FinishUnsigned, KeepUnsigned DEF Report, Keep

LEMMA StepUnsigned ==
  ASSUME TypeOK, NEW p \in Procs,
         Quiet(p) \/ Commits(p) \/ Asks(p) \/ Takers(p) \/ Walkers(p), ~HeadAndCount(p)
  PROVE  Unsigned(p)
<1>1. ASSUME Finish(p) \/ Report(p) PROVE Unsigned(p)
  BY ZenonT(60), <1>1, FinishUnsigned, ReportUnsigned
<1>2. ASSUME NEW stage \in {"ack", "insert", "redact", "rechain", "resign", "head"}, Keep(p, stage)
      PROVE  Unsigned(p)
  BY ZenonT(60), <1>2, KeepUnsigned DEF Keep
<1>3. ASSUME NEW stage \in {"append", "erase", "rebase", "head"}, NEW e, Start(p, stage, e)
      PROVE  Unsigned(p)
  BY ZenonT(60), <1>3, KeepUnsigned DEF Start
<1>4. CASE Ack(p) \/ Fail(p) \/ Crash(p) \/ EraseNothing(p) \/ RebaseRefuse(p) \/ InsertCheckpoint(p)
           \/ RebaseCommit(p)
  <2>1. Finish(p) \/ Report(p)
    BY <1>4, Zenon DEF Ack, Fail, Crash, EraseNothing, RebaseRefuse, InsertCheckpoint, RebaseCommit
  <2> QED BY ZenonT(60), <1>1, <2>1
<1>5. CASE Park(p) \/ AppendCommit(p) \/ EraseCommit(p) \/ LatestCheckpoint(p) \/ RebaseNothing(p)
  <2>1. Finish(p) \/ Report(p) \/ Keep(p, "ack") \/ Keep(p, "head") \/ Keep(p, "resign")
    BY <1>5, Zenon DEF Park, AppendCommit, EraseCommit, LatestCheckpoint, RebaseNothing
  <2> QED BY ZenonT(60), <1>1, <1>2, <2>1
<1>6. CASE Takers(p) \/ Walkers(p)
  <2>1. Keep(p, "insert") \/ Keep(p, "redact") \/ Keep(p, "rechain")
    BY <1>6, ZenonT(60) DEF Takers, AppendChained, AnonymizeAndRechain, RebaselineChain, Walkers,
                       RedactSubject, Rechain
  <2> QED BY ZenonT(60), <1>2, <2>1
<1>7. CASE ListAll(p)
  BY ZenonT(60), <1>1, <1>7, KeepUnsigned DEF ListAll
<1>8. CASE Asks(p)
  <2>1. \E stage \in {"append", "erase", "rebase", "head"} : \E e : Start(p, stage, e)
    BY <1>8, ZenonT(60) DEF Asks, RecordAccessDenied, AnonymizeSubject, Rebaseline, CreateCheckpoint,
                       Deliver, Ask
  <2> QED BY ZenonT(60), <1>3, <2>1
<1> QED BY ZenonT(60), <1>4, <1>5, <1>6, <1>7, <1>8 DEF Quiet, Commits

(* Steps that neither rewrite nor sign: what was covered still is. *)
LEMMA CoveredCheck ==
  ASSUME CheckInv, NEW p \in Procs, Unsigned(p), checkpoint' = checkpoint, epoch' = epoch,
         \A cp : Covers(rows, cp) => Covers(rows', cp)
  PROVE  CheckInv'
<1>1. \A cp : Anchored(rows, epoch, cp) => Anchored(rows', epoch', cp)
  BY Zenon DEF Anchored
<1> QED BY ZenonT(60), <1>1 DEF CheckInv, Unsigned

LEMMA RewriteCheck ==
  ASSUME TypeOK, CheckInv, NEW p \in Procs, Unsigned(p), epoch' = epoch + 1,
         checkpoint' = checkpoint \/ Anchored(rows', epoch', checkpoint')
  PROVE  CheckInv'
<1>1. \A cp : Anchored(rows, epoch, cp) => Anchored(rows', epoch', cp)
  BY DEF Anchored, TypeOK
<1> QED BY ZenonT(60), <1>1 DEF CheckInv, Unsigned

LEMMA CommitCheck ==
  ASSUME IInv, CheckInv, NEW p \in Procs, Commits(p)
  PROVE  CheckInv'
<1>0. /\ TypeOK /\ JobInv /\ IdInv /\ RowsInv /\ InsertInv /\ WalkInv
  BY DEF IInv
<1>1. Unsigned(p)
  <2>1. ~HeadAndCount(p)
    BY DEF Commits, AppendCommit, EraseCommit, RebaseCommit, Walked, HeadAndCount
  <2> QED BY ZenonT(60), <1>0, <2>1, StepUnsigned
<1>2. CASE AppendCommit(p)
  <2>1. PICK m \in appendInTx(rows, job[p]) : rows' = rows \cup {m}
    BY ZenonT(60), <1>0, <1>2, AppendCommits
  <2>2. Table(rows) /\ job[p].id \in Nat /\ job[p].at \in Nat
    BY ZenonT(60), <1>0 DEF RowsInv, Sane, TypeOK, Jobs
  <2>3. m.at \in Nat /\ \A r \in rows : r.at < m.at
    BY <2>1, <2>2, AppendPlace, ZenonT(60)
  <2>4. \A cp : Covers(rows, cp) => Covers(rows', cp)
    BY ZenonT(60), <2>1, <2>2, <2>3, CoversAppend
  <2>5. checkpoint' = checkpoint /\ epoch' = epoch
    BY <1>2 DEF AppendCommit
  <2> QED BY ZenonT(60), <1>1, <2>4, <2>5, CoveredCheck
<1>3. CASE EraseCommit(p)
  <2>1. checkpoint' = checkpoint /\ epoch' = epoch + 1
    BY ZenonT(60), <1>3 DEF EraseCommit
  <2> QED BY ZenonT(60), <1>0, <1>1, <2>1, RewriteCheck
<1>4. CASE RebaseCommit(p)
  <2>1. epoch' = epoch + 1 /\ (p \in overtaken => checkpoint' = checkpoint)
    BY ZenonT(60), <1>4 DEF RebaseCommit
  <2>2. ASSUME p \notin overtaken PROVE Anchored(rows', epoch', checkpoint')
    <3>1. Covers(rows', checkpoint') /\ checkpoint'.epoch = epoch + 1
      BY ZenonT(60), <1>0, <1>4, <2>2, AnchorCovers
    <3> QED BY <1>0, <2>1, <3>1 DEF Anchored, TypeOK
  <2> QED BY ZenonT(60), <1>0, <1>1, <2>1, <2>2, RewriteCheck
<1> QED BY ZenonT(60), <1>2, <1>3, <1>4 DEF Commits

LEMMA QuietCheck ==
  ASSUME IInv, CheckInv, NEW p \in Procs, Quiet(p) \/ Asks(p) \/ Takers(p) \/ Walkers(p)
  PROVE  CheckInv'
<1>0. /\ TypeOK /\ LockInv /\ JobInv /\ RowsInv
  BY Zenon DEF IInv
<1>1. rows' = rows /\ epoch' = epoch
  <2>1. rows' = rows
    BY ZenonT(60), <1>0, QuietLeaves, AsksBegin, LockTaken, WalkersWalk DEF Begins, Takers, Takes, Walks
  <2>2. epoch' = epoch
    BY Zenon DEF Quiet, Asks, Takers, Ack, Park, Fail, Crash, EraseNothing, RebaseRefuse, RebaseNothing,
           ListAll, LatestCheckpoint, HeadAndCount, InsertCheckpoint, RecordAccessDenied,
           AnonymizeSubject, Rebaseline, CreateCheckpoint, Deliver, Ask, Start, AppendChained,
           AnonymizeAndRechain, RebaselineChain, Walkers, RedactSubject, Rechain, chain
  <2> QED BY ZenonT(60), <2>1, <2>2
<1>2. CASE HeadAndCount(p)
  <2>1. checkpoint' = checkpoint /\ (Finish(p) \/ \E h \in Heads(rows) :
          Move(p, "sign") /\ seen' = [seen EXCEPT ![p] =
            [head |-> h.hash, count |-> Cardinality(rows), epoch |-> epoch]])
    BY Zenon, <1>2 DEF HeadAndCount, chain
  <2>2. CASE Finish(p)
    BY ZenonT(60), <1>0, <1>1, <2>1, <2>2, FinishUnsigned, CoveredCheck
  <2>3. ASSUME NEW h \in Heads(rows), Move(p, "sign"),
               seen' = [seen EXCEPT ![p] =
                 [head |-> h.hash, count |-> Cardinality(rows), epoch |-> epoch]]
        PROVE  CheckInv'
    <3>1. /\ seen'[p] = [head |-> h.hash, count |-> Cardinality(rows), epoch |-> epoch]
          /\ \A q \in Procs : q # p => pc'[q] = pc[q] /\ seen'[q] = seen[q]
      BY ZenonT(60), <1>0, <2>3 DEF TypeOK, Move
    <3>2. Covers(rows, seen'[p])
      <4>1. Table(rows)
        BY ZenonT(60), <1>0 DEF RowsInv, Sane
      <4>2. seen'[p].head = h.hash /\ seen'[p].count = Cardinality(rows)
        BY ONLY <3>1
      <4> QED BY ZenonT(60), <4>1, <4>2, HeadCovers
    <3>3. Anchored(rows, epoch, seen'[p])
      BY <1>0, <3>1, <3>2 DEF Anchored, TypeOK
    <3> QED BY ZenonT(60), <1>1, <2>1, <3>1, <3>3 DEF CheckInv
  <2> QED BY ZenonT(60), <2>1, <2>2, <2>3
<1>3. CASE InsertCheckpoint(p)
  <2>1. pc[p] = "sign" /\ checkpoint' = seen[p] /\ Finish(p)
    BY <1>3 DEF InsertCheckpoint
  <2>2. Unsigned(p) /\ Anchored(rows, epoch, seen[p])
    BY ZenonT(60), <1>0, <2>1, FinishUnsigned DEF CheckInv
  <2> QED BY ZenonT(60), <1>1, <2>1, <2>2 DEF CheckInv, Unsigned
<1>4. CASE ~HeadAndCount(p) /\ ~InsertCheckpoint(p)
  <2>1. Unsigned(p)
    BY ZenonT(60), <1>0, <1>4, StepUnsigned
  <2>2. checkpoint' = checkpoint
    BY ZenonT(60), <1>4 DEF Quiet, Asks, Takers, Ack, Park, Fail, Crash, EraseNothing, RebaseRefuse,
           RebaseNothing, ListAll, LatestCheckpoint, RecordAccessDenied, AnonymizeSubject, Rebaseline,
           CreateCheckpoint, Deliver, Ask, Start, AppendChained, AnonymizeAndRechain,
           RebaselineChain, Walkers, RedactSubject, Rechain, chain
  <2> QED BY ZenonT(60), <1>1, <2>1, <2>2, CoveredCheck
<1> QED BY ZenonT(60), <1>2, <1>3, <1>4

LEMMA AlterCheck ==
  ASSUME IInv, CheckInv, Alter
  PROVE  CheckInv'
<1>0. TypeOK /\ RowsInv
  BY Zenon DEF IInv
<1>a. PICK r, n : Altering(r, n)
  BY ZenonT(60), <1>0, AlterRow
<1>1. /\ r \in rows /\ n.id = r.id /\ n.at = r.at /\ n.hash = r.hash
      /\ rows' = (rows \ {r}) \cup {n}
  BY Zenon, <1>a DEF Altering
<1>2. Table(rows) /\ IsFiniteSet(rows)
  <2>1. Table(rows) /\ nextId \in Nat /\ \A x \in rows : x.id < nextId
    BY ZenonT(60), <1>0 DEF RowsInv, Sane, TypeOK
  <2> QED BY ZenonT(60), <2>1, FiniteTable
<1>3. \A cp : Covers(rows, cp) => Covers(rows', cp)
  BY ZenonT(60), <1>1, <1>2, CoversAlter
<1>4. UNCHANGED <<checkpoint, epoch, pc, seen>>
  BY ZenonT(60) DEF Alter
<1>5. \A cp : Anchored(rows, epoch, cp) => Anchored(rows', epoch', cp)
  BY ZenonT(60), <1>3, <1>4 DEF Anchored
<1> QED BY ZenonT(60), <1>4, <1>5 DEF CheckInv

(* The latest checkpoint signs a prefix of the stored chain, unless a       *)
(* rewrite committed since its head was read: requests that interleave      *)
(* reading the head, appends, re-baselines and inserting the checkpoint     *)
(* never leave one that verifyLatestCheckpoint cannot confirm.              *)
THEOREM CheckpointCovers == Spec => []CheckpointStands
<1>1. Init => CheckInv
  BY DEF Init, CheckInv
<1>2. IInv /\ CheckInv /\ [Next]_vars => CheckInv'
  <2>1. ASSUME UNCHANGED vars, CheckInv PROVE CheckInv'
    <3>1. UNCHANGED <<rows, checkpoint, epoch, pc, seen>>
      BY ZenonT(60), <2>1 DEF vars, chain
    <3> QED BY ZenonT(60), <2>1, <3>1 DEF CheckInv, Anchored, Covers, Before
  <2> QED BY ZenonT(60), <2>1, ByProcess, QuietCheck, CommitCheck, AlterCheck
<1>3. CheckInv => CheckpointStands
  BY DEF CheckInv, Anchored, CheckpointStands
<1> QED BY <1>1, <1>2, <1>3, Inductive, PTL DEF Spec
-----------------------------------------------------------------------------
(* The log its readers see *)

LEMMA EntryFields ==
  ASSUME NEW r
  PROVE  /\ Entry(r).id = r.id /\ Entry(r).at = r.at /\ Entry(r).of = r.of
         /\ Entry(r).by = r.by /\ Entry(r).link = <<r.prev, r.hash>>
  BY DEF Entry

Entries(R) == {Entry(r) : r \in R}
SaidBy(r)  == [id |-> r.id, at |-> r.at, of |-> r.of, by |-> r.by]
Masked(r)  == [id |-> r.id, at |-> r.at, of |-> r.of,
               by |-> IF r.by = "subject" THEN "REDACTED" ELSE r.by]

LEMMA SaidEntry ==
  ASSUME NEW R
  PROVE  Log!Said(Entries(R)) = {SaidBy(r) : r \in R}
<1>1. \A r : [id |-> Entry(r).id, at |-> Entry(r).at, of |-> Entry(r).of, by |-> Entry(r).by] = SaidBy(r)
  BY Zenon, EntryFields DEF SaidBy
<1>2. Log!Said(Entries(R)) = {[id |-> e.id, at |-> e.at, of |-> e.of, by |-> e.by] : e \in Entries(R)}
  BY Zenon DEF Log!Said
<1> QED BY ZenonT(60), <1>1, <1>2 DEF Entries

LEMMA HiddenEntry ==
  ASSUME NEW R
  PROVE  Log!Hidden(Entries(R)) = {Masked(r) : r \in R}
<1>1. \A r : [id |-> Entry(r).id, at |-> Entry(r).at, of |-> Entry(r).of,
             by |-> IF Entry(r).by = "subject" THEN "REDACTED" ELSE Entry(r).by] = Masked(r)
  BY Zenon, EntryFields DEF Masked
<1>2. Log!Hidden(Entries(R)) =
        {[id |-> e.id, at |-> e.at, of |-> e.of,
          by |-> IF e.by = "subject" THEN "REDACTED" ELSE e.by] : e \in Entries(R)}
  BY Zenon DEF Log!Hidden
<1> QED BY ZenonT(60), <1>1, <1>2 DEF Entries

(* A rewrite's last step: V is the rewritten trail and m its marker. *)
LEMMA MarkerLatest ==
  ASSUME NEW R, NEW V, NEW m, m.at \in Nat, Ids(V) = Ids(R), m.id \notin Ids(R),
         \A r \in R : r.at < m.at
  PROVE  /\ Entries(V \cup {m}) \ {Entry(m)} = Entries(V)
         /\ \A e \in Entries(R) : e.at < Entry(m).at /\ e.id # Entry(m).id
<1>1. \A v \in V : v.id # m.id
  BY Zenon DEF Ids
<1>2. \A v \in V : Entry(v) # Entry(m)
  BY ZenonT(60), <1>1, EntryFields
<1>3. Entries(V \cup {m}) \ {Entry(m)} = Entries(V)
  BY Zenon, <1>2 DEF Entries
<1>4. ASSUME NEW e \in Entries(R) PROVE e.at < Entry(m).at /\ e.id # Entry(m).id
  <2>1. PICK r \in R : e = Entry(r)
    BY Zenon DEF Entries
  <2>2. e.at = r.at /\ e.id = r.id /\ Entry(m).at = m.at /\ Entry(m).id = m.id
    BY Zenon, <2>1, EntryFields
  <2> QED BY <2>1, <2>2, ZenonT(60) DEF Ids
<1> QED BY ZenonT(60), <1>3, <1>4

LEMMA AppendLogged ==
  ASSUME IInv, NEW p \in Procs, AppendCommit(p)
  PROVE  Log!LNext
<1>0. TypeOK /\ IdInv /\ RowsInv /\ InsertInv
  BY Zenon DEF IInv
<1>1. PICK m \in appendInTx(rows, job[p]) : rows' = rows \cup {m}
  BY ZenonT(60), <1>0, AppendCommits
<1>2. Table(rows) /\ job[p] \in Jobs /\ job[p].id \in Nat /\ job[p].at \in Nat
  BY Zenon, <1>0 DEF RowsInv, Sane, TypeOK, Jobs
<1>3. m.id \notin Ids(rows) /\ m.at \in Nat /\ \A r \in rows : r.at < m.at
  <2>1. m.id = job[p].id
    BY ONLY Zenon, <1>2, m \in appendInTx(rows, job[p]), JobRow
  <2>3. m.at \in Nat /\ \A r \in rows : r.at < m.at
    BY ZenonT(60), <1>1, <1>2, AppendPlace
  <2>2. pc[p] = "insert" /\ job[p].id \notin Ids(rows)
    BY <1>0 DEF AppendCommit, IdInv, Unplaced
  <2> QED BY Zenon, <2>1, <2>2, <2>3
<1>4. \A e \in Entries(rows) : e.at < Entry(m).at /\ e.id # Entry(m).id
  BY ZenonT(60), <1>3, MarkerLatest
<1>5. Entries(rows') = Entries(rows) \cup {Entry(m)} /\ Entry(m) \in Entries(rows')
  BY ZenonT(60), <1>1 DEF Entries
<1> QED BY Zenon, <1>4, <1>5 DEF Log!LNext, Log!Record, Log!Latest, Entries

(* What both rewrites leave to show. *)
LEMMA RewriteLogged ==
  ASSUME IInv, NEW p \in Procs, pc[p] = "rechain", Mirrors(View(p), rows), Sane(View(p)),
         Ids(View(p)) = Ids(rows), NEW m \in appendInTx(View(p), job[p]), rows' = View(p) \cup {m}
  PROVE  /\ Entry(m) \in Entries(rows') /\ Entry(m).of = "none"
         /\ \A e \in Entries(rows) : e.at < Entry(m).at /\ e.id # Entry(m).id
         /\ Log!Said(Entries(rows') \ {Entry(m)}) = {SaidBy(v) : v \in View(p)}
<1>0. TypeOK /\ JobInv /\ IdInv
  BY Zenon DEF IInv
<1>1. Table(View(p)) /\ job[p] \in Jobs /\ job[p].id \in Nat /\ job[p].at \in Nat
  BY ZenonT(60), <1>0 DEF Sane, TypeOK, Jobs
<1>2. job[p].id \notin Ids(rows) /\ job[p].of = "none"
  BY <1>0 DEF IdInv, Unplaced, JobInv, JobFits
<1>3. m.id = job[p].id /\ m.of = "none" /\ m.at \in Nat /\ \A v \in View(p) : v.at < m.at
  <2>1. m.id = job[p].id /\ m.of = job[p].of
    BY ONLY ZenonT(60), <1>1, m \in appendInTx(View(p), job[p]), JobRow
  <2>2. m.at \in Nat /\ \A v \in View(p) : v.at < m.at
    BY ZenonT(60), <1>1, AppendPlace
  <2> QED BY ZenonT(60), <1>2, <2>1, <2>2
<1>4. \A r \in rows : r.at < m.at
  BY ONLY ZenonT(60), <1>3, Mirrors(View(p), rows) DEF Mirrors, SameRow
<1>5. /\ Entries(rows') \ {Entry(m)} = Entries(View(p))
      /\ \A e \in Entries(rows) : e.at < Entry(m).at /\ e.id # Entry(m).id
  BY ONLY ZenonT(60), <1>2, <1>3, <1>4, Ids(View(p)) = Ids(rows), rows' = View(p) \cup {m}, MarkerLatest
<1>6. Entry(m) \in Entries(rows') /\ Entry(m).of = "none"
  BY ZenonT(60), <1>3, EntryFields DEF Entries
<1> QED BY ZenonT(60), <1>5, <1>6, SaidEntry

LEMMA EraseLogged ==
  ASSUME IInv, NEW p \in Procs, EraseCommit(p)
  PROVE  Log!LNext
<1>0. TypeOK /\ RowsInv /\ WalkInv
  BY Zenon DEF IInv
<1>1. /\ pc[p] = "rechain" /\ Mirrors(View(p), rows) /\ EraseWalk(View(p), {}, stale[p])
      /\ Sane(View(p)) /\ Ids(View(p)) = Ids(rows)
  BY ZenonT(60), <1>0, EraseSane
<1>2. PICK m \in appendInTx(View(p), job[p]) : rows' = View(p) \cup {m}
  BY Zenon DEF EraseCommit
<1>3. /\ Entry(m) \in Entries(rows') /\ Entry(m).of = "none"
      /\ \A e \in Entries(rows) : e.at < Entry(m).at /\ e.id # Entry(m).id
      /\ Log!Said(Entries(rows') \ {Entry(m)}) = {SaidBy(v) : v \in View(p)}
  BY ZenonT(60), <1>1, <1>2, RewriteLogged
<1>4. Log!Hidden(Entries(rows)) = {Masked(r) : r \in rows}
  BY Zenon, HiddenEntry
<1>5. \A v \in View(p), r \in rows : SameRow(v, r) => SaidBy(v) = Masked(r)
  <2> SUFFICES ASSUME NEW v \in View(p), NEW r \in rows, SameRow(v, r)
               PROVE  SaidBy(v) = Masked(r)
    BY Zenon
  <2>1. /\ v.id = r.id /\ v.at = r.at /\ v.of = r.of
        /\ v.by = IF r.by = "subject" THEN "REDACTED" ELSE r.by
    BY <1>1 DEF SameRow, EraseWalk
  <2> QED BY ZenonT(60), <2>1 DEF SaidBy, Masked
<1>6. {SaidBy(v) : v \in View(p)} = {Masked(r) : r \in rows}
  BY <1>1, <1>5 DEF Mirrors
<1> QED BY ZenonT(60), <1>3, <1>4, <1>6 DEF Log!LNext, Log!Erase, Log!Latest, Entries

LEMMA RebaseLogged ==
  ASSUME IInv, NEW p \in Procs, RebaseCommit(p)
  PROVE  Log!LNext
<1>0. TypeOK /\ RowsInv /\ WalkInv
  BY Zenon DEF IInv
<1>1. /\ pc[p] = "rechain" /\ Mirrors(View(p), rows) /\ RebaseWalk(View(p), {}, differs[p])
      /\ Sane(View(p)) /\ Ids(View(p)) = Ids(rows)
  BY ZenonT(60), <1>0, RebaseSane
<1>2. PICK m \in appendInTx(View(p), job[p]) : rows' = View(p) \cup {m}
  BY ZenonT(60) DEF RebaseCommit
<1>3. /\ Entry(m) \in Entries(rows') /\ Entry(m).of = "none"
      /\ \A e \in Entries(rows) : e.at < Entry(m).at /\ e.id # Entry(m).id
      /\ Log!Said(Entries(rows') \ {Entry(m)}) = {SaidBy(v) : v \in View(p)}
  BY ZenonT(60), <1>1, <1>2, RewriteLogged
<1>4. \A v \in View(p), r \in rows : SameRow(v, r) => SaidBy(v) = SaidBy(r)
  <2> SUFFICES ASSUME NEW v \in View(p), NEW r \in rows, SameRow(v, r)
               PROVE  SaidBy(v) = SaidBy(r)
    BY Zenon
  <2>1. PICK x \in rows : v.id = x.id /\ v.by = x.by
    BY ZenonT(60), <1>1 DEF RebaseWalk
  <2>2. x = r
    BY ZenonT(60), <1>0, <2>1 DEF SameRow, RowsInv, Sane, Table, Distinct
  <2> QED BY ZenonT(60), <2>1, <2>2 DEF SaidBy, SameRow
<1>5. {SaidBy(v) : v \in View(p)} = {SaidBy(r) : r \in rows}
  BY <1>1, <1>4 DEF Mirrors
<1>6. Log!Said(Entries(rows)) = {SaidBy(r) : r \in rows}
  BY Zenon, SaidEntry
<1> QED BY ZenonT(60), <1>3, <1>5, <1>6 DEF Log!LNext, Log!Relink, Log!Latest, Entries

(* A payload changed behind the service's back changes no entry. *)
LEMMA AlterLogged ==
  ASSUME IInv, Alter
  PROVE  Entries(rows') = Entries(rows)
<1>0. TypeOK /\ RowsInv
  BY Zenon DEF IInv
<1>1. PICK r, n : Altering(r, n)
  BY ZenonT(60), <1>0, AlterRow
<1>2. /\ r \in rows /\ n.id = r.id /\ n.at = r.at /\ n.of = r.of /\ n.by = r.by
      /\ n.prev = r.prev /\ n.hash = r.hash /\ rows' = (rows \ {r}) \cup {n}
  BY Zenon, <1>1 DEF Altering
<1>3. Entry(n) = Entry(r)
  BY ZenonT(60), <1>2 DEF Entry
<1> QED BY ZenonT(60), <1>2, <1>3 DEF Entries

(* Whatever replicas append, erase and re-baseline at once, and wherever    *)
(* they fail, the trail's readers see an append-only log (appendInTx,       *)
(* AnonymizeAndRechain, RebaselineChain under the tenant's lock): every     *)
(* commit is one step of AuditLog, and every other step none.               *)
THEOREM TrailRefined == Spec => ImplementsAuditLog
<1>1. Init => Log!LInit
  BY DEF Init, Log!LInit
<1>2. IInv /\ [Next]_vars => [Log!LNext]_(Entries(rows))
  <2> SUFFICES ASSUME IInv, [Next]_vars PROVE Log!LNext \/ Entries(rows') = Entries(rows)
    BY Zenon DEF Entries
  <2>0. TypeOK /\ LockInv /\ JobInv /\ RowsInv
    BY Zenon DEF IInv
  <2>1. CASE UNCHANGED vars
    BY ZenonT(60), <2>1 DEF vars, chain
  <2>2. ASSUME NEW p \in Procs, Quiet(p) \/ Asks(p) \/ Takers(p) \/ Walkers(p) PROVE rows' = rows
    BY ZenonT(60), <2>0, <2>2, QuietLeaves, AsksBegin, LockTaken, WalkersWalk DEF Begins, Takers, Takes, Walks
  <2>3. ASSUME NEW p \in Procs, Commits(p) PROVE Log!LNext
    BY ZenonT(60), <2>3, AppendLogged, EraseLogged, RebaseLogged DEF Commits
  <2> QED BY ZenonT(60), <2>1, <2>2, <2>3, AlterLogged, ByProcess
<1> QED BY <1>1, <1>2, Inductive, PTL DEF Spec, ImplementsAuditLog, Log!LSpec, Entries
=============================================================================
