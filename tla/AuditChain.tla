----------------------------- MODULE AuditChain -----------------------------
(***************************************************************************)
(* One tenant's audit trail: events consumed from the stream and denials   *)
(* are appended to a hash chain, a data subject's erasure and the operator's *)
(* re-baseline rewrite it, and checkpoints sign its head. Every writer is a *)
(* transaction of some replica under the tenant's advisory lock; a writer  *)
(* that dies loses the lock and everything it had not committed.           *)
(*                                                                         *)
(* A hash is the record of what was hashed, so equal hashes mean equal     *)
(* content. "stored" stands for a payload as Postgres hands it back, "raw" *)
(* for the envelope bytes that builds before the canonical-hash fix hashed. *)
(***************************************************************************)
EXTENDS Naturals, FiniteSets

CONSTANTS
  Procs,        \* requests and message handlers, on any replica
  Messages,     \* events of the stream
  By,           \* message -> its actor
  Denied,       \* actors refused access to the trail
  MaxDeliver,   \* deliveries the consumer is configured for
  Clock,        \* what a replica's clock may say
  Cutover,      \* deploy time of the canonical-hash fix (--cutover)
  MaxRequests,  \* bound: denials, erasures, checkpoints, re-baselines and faults
  MaxFaults     \* bound: failed requests, lost acks, crashes, altered rows

Actors == {"subject", "other"}

ASSUME AuditAssumption ==
  /\ By \in [Messages -> Actors] /\ Denied \subseteq Actors
  /\ MaxDeliver \in Nat \ {0} /\ Cutover \in Nat \ {0} /\ Clock \subseteq {t \in Nat : t >= Cutover}
  /\ MaxRequests \in Nat /\ MaxFaults \in Nat

VARIABLES
  rows,        \* audit_events
  checkpoint,  \* the latest row of audit_checkpoints (count 0: none)
  lock,        \* holders of the tenant's advisory lock
  pc, job,     \* process -> where it is, and the event or request it carries
  draft,       \* process -> rows its transaction has written
  todo,        \* process -> ids its rewrite has still to visit
  carry,       \* process -> hash the next visited row must link to
  differs,     \* process -> ids its rewrite found not to be canonical
  stale,       \* process -> ids changed behind the service since its rewrite read them
  seen,        \* process -> what it read for a checkpoint
  overtaken,   \* re-baselines begun before the latest checkpoint was inserted
  num, acked, parked,  \* the stream, and the dead-letter stream
  dropped,     \* events whose last handler could not park them, or died
  epoch,       \* rewrites committed so far
  altered,     \* ids of rows changed behind the service's back
  raced,       \* those changed between the two reads of an erasure
  nextId,
  requests, faults  \* how much of the bounds is spent

chain  == <<rows, checkpoint, epoch, altered, raced>>
walk   == <<draft, todo, carry, differs, stale>>
broker == <<num, acked, parked, dropped>>
vars   == <<chain, lock, pc, job, walk, seen, overtaken, broker, nextId, requests, faults>>

-----------------------------------------------------------------------------
(* Rows, hashes and their order *)

Genesis == [v |-> "none"]

computeEventHash(prev, e) ==
  [v |-> "v2", prev |-> prev, id |-> e.id, of |-> e.of, by |-> e.by,
   body |-> e.body, at |-> e.at]

\* The hash of the oldest builds covers neither the id nor the payload.
computeHash(prev, e) == [v |-> "legacy", prev |-> prev, by |-> e.by, at |-> e.at]

expectedHashFor(prev, e) ==
  IF e.hash.v = "v2" THEN computeEventHash(prev, e) ELSE computeHash(prev, e)

\* of: the event the row records, "none" if it did not come from the stream.
Event(id, of, by, body, at) ==
  [id |-> id, of |-> of, by |-> by, body |-> body, at |-> at]
Row(e, prev, hash) ==
  [id |-> e.id, of |-> e.of, by |-> e.by, body |-> e.body, at |-> e.at,
   prev |-> prev, hash |-> hash]

\* ORDER BY created_at, id
Before(a, b) == a.at < b.at \/ (a.at = b.at /\ a.id < b.id)
Heads(R)     == {h \in R : \A r \in R : r = h \/ Before(r, h)}

\* The hash of the row right before r, if there is one.
Preceding(R, r) ==
  LET earlier == {s \in R : Before(s, r)} IN
  IF earlier = {} THEN {Genesis} ELSE {h.hash : h \in Heads(earlier)}

\* VerifyIntegrity at one event, and the stricter test of an erasure.
Verifies(R, r) == \E h \in Preceding(R, r) : r.hash = expectedHashFor(h, r)
Sound(R, r)    == r.prev \in Preceding(R, r) /\ r.hash = expectedHashFor(r.prev, r)

\* A transaction's view: the table with its own writes on top.
Ids(R)        == {r.id : r \in R}
Overlay(R, D) == {r \in R : r.id \notin Ids(D)} \cup D

\* The clamp that keeps (created_at, id) order equal to append order.
After(at, headAt) == IF at > headAt THEN at ELSE headAt + 1

\* The payload as it will be read back: the hash covers this form.
Canonical(e, at) == Event(e.id, e.of, e.by, "stored", at)

Chained(e, at, prev) ==
  Row(Canonical(e, at), prev, computeEventHash(prev, Canonical(e, at)))

\* The row appendInTx inserts into R for event e.
appendInTx(R, e) ==
  IF R = {} THEN {Chained(e, e.at, Genesis)}
  ELSE {Chained(e, After(e.at, h.at), h.hash) : h \in Heads(R)}

-----------------------------------------------------------------------------
(* States *)

NoJob == [kind |-> "none", last |-> FALSE, id |-> 0, of |-> "none", by |-> "other", at |-> 0]
Stages == {"idle", "append", "insert", "ack", "park", "erase", "redact", "rebase", "rechain",
           "resign", "vouch", "head", "sign"}
Jobs == [kind : {"none", "ingest", "denied", "erase", "rebase", "checkpoint"},
         last : BOOLEAN, id : Nat, of : Messages \cup {"none"}, by : Actors, at : Nat]

TypeOK ==
  /\ lock \subseteq Procs /\ overtaken \subseteq Procs
  /\ pc \in [Procs -> Stages] /\ job \in [Procs -> Jobs]
  /\ DOMAIN draft = Procs /\ DOMAIN todo = Procs /\ DOMAIN carry = Procs
  /\ DOMAIN differs = Procs /\ DOMAIN stale = Procs /\ DOMAIN seen = Procs
  /\ num \in [Messages -> 0..MaxDeliver]
  /\ acked \subseteq Messages /\ parked \subseteq Messages /\ dropped \subseteq Messages
  /\ epoch \in Nat /\ nextId \in Nat /\ altered \subseteq Nat
  /\ requests \in 0..MaxRequests /\ faults \in 0..MaxFaults
  /\ \A r \in rows : r.id \in Nat /\ r.at \in Nat /\ r.by \in Actors \cup {"REDACTED"}
                     /\ r.body \in {"stored", "altered"}

\* A trail may start with an event of an older build, created before the fix:
\* one with the legacy hash, or one whose hash covered the raw envelope.
Old        == Event(0, "none", "subject", "stored", 0)
OldRaw     == Event(0, "none", "subject", "raw", 0)
LegacyRow  == Row(Old, Genesis, computeHash(Genesis, Old))
RawRow     == Row(Old, Genesis, computeEventHash(Genesis, OldRaw))

Init ==
  /\ rows \in {{}, {LegacyRow}, {RawRow}}
  /\ checkpoint = [head |-> Genesis, count |-> 0, epoch |-> 0]
  /\ lock = {} /\ overtaken = {} /\ epoch = 0 /\ altered = {} /\ nextId = 1
  /\ pc = [p \in Procs |-> "idle"] /\ job = [p \in Procs |-> NoJob]
  /\ draft = [p \in Procs |-> {}] /\ todo = [p \in Procs |-> {}]
  /\ carry = [p \in Procs |-> Genesis] /\ differs = [p \in Procs |-> {}]
  /\ stale = [p \in Procs |-> {}] /\ raced = {} /\ seen = [p \in Procs |-> {}]
  /\ num = [m \in Messages |-> 0] /\ acked = {} /\ parked = {} /\ dropped = {}
  /\ requests = 0 /\ faults = 0

\* Failed handlers are bounded by the deliveries.
Budget         == requests + faults < MaxRequests
Fault          == Budget /\ faults < MaxFaults /\ faults' = faults + 1
Failure(p)     == IF job[p].kind = "ingest" THEN faults' = faults ELSE Fault
Move(p, stage) == pc' = [pc EXCEPT ![p] = stage]
View(p)        == Overlay(rows, draft[p])

\* Mutant: a lock of the session rather than of the transaction.
EndTxLocked(p) ==
  /\ lock' = lock
  /\ draft' = [draft EXCEPT ![p] = {}] /\ todo' = [todo EXCEPT ![p] = {}]
  /\ carry' = [carry EXCEPT ![p] = Genesis] /\ differs' = [differs EXCEPT ![p] = {}]
  /\ stale' = [stale EXCEPT ![p] = {}]

\* Commit or rollback: the transaction's lock and its private state go.
EndTx(p) ==
  /\ lock' = lock \ {p}
  /\ draft' = [draft EXCEPT ![p] = {}] /\ todo' = [todo EXCEPT ![p] = {}]
  /\ carry' = [carry EXCEPT ![p] = Genesis] /\ differs' = [differs EXCEPT ![p] = {}]
  /\ stale' = [stale EXCEPT ![p] = {}]

\* Mutant: a lock that excludes nobody.
LockChainShared(p) == lock' = lock \cup {p}

\* pg_advisory_xact_lock
LockChain(p) == lock = {} /\ lock' = {p}

Finish(p) == Move(p, "idle") /\ job' = [job EXCEPT ![p] = NoJob]
             /\ seen' = [seen EXCEPT ![p] = {}]
Keep(p, stage) == Move(p, stage) /\ UNCHANGED <<job, seen>>

\* Mutant: the last delivery is NAK'd like the others.
ReportNak(p) == Finish(p)

\* The handler's error branch: the last delivery is parked, others are NAK'd.
\* A request just answers with the error.
Report(p) ==
  IF job[p].kind = "ingest" /\ job[p].last THEN Keep(p, "park") ELSE Finish(p)

-----------------------------------------------------------------------------
(* Appending *)

Start(p, stage, e) ==
  /\ pc[p] = "idle" /\ Move(p, stage) /\ job' = [job EXCEPT ![p] = e]
  /\ nextId' = nextId + 1
  /\ UNCHANGED <<chain, lock, walk, seen>>

Job(kind, last, of, by, at) ==
  [kind |-> kind, last |-> last, id |-> nextId, of |-> of, by |-> by, at |-> at]

\* The stream delivers, or redelivers after a NAK or when AckWait lapses,
\* whether or not an earlier handler is still at work on the message.
Deliver(p, m) ==
  /\ m \notin acked /\ num[m] < MaxDeliver /\ num' = [num EXCEPT ![m] = @ + 1]
  /\ \E at \in Clock : Start(p, "append", Job("ingest", num[m] + 1 >= MaxDeliver, m, By[m], at))
  /\ UNCHANGED <<overtaken, acked, parked, dropped, requests, faults>>

Ask(p, stage, e) ==
  /\ Budget /\ requests' = requests + 1
  /\ Start(p, stage, e) /\ overtaken' = overtaken \ {p}
  /\ UNCHANGED <<broker, faults>>

RecordAccessDenied(p) ==
  \E by \in Denied, at \in Clock : Ask(p, "append", Job("denied", FALSE, "none", by, at))
AnonymizeSubject(p) ==
  \E at \in Clock : Ask(p, "erase", Job("erase", FALSE, "none", "other", at))
Rebaseline(p) ==
  \E at \in Clock : Ask(p, "rebase", Job("rebase", FALSE, "none", "other", at))
CreateCheckpoint(p) == Ask(p, "head", Job("checkpoint", FALSE, "none", "other", 0))

\* The lock, then the head: what is inserted is decided here.
AppendChained(p) ==
  /\ pc[p] = "append" /\ LockChain(p) /\ Keep(p, "insert")
  /\ \E r \in appendInTx(rows, job[p]) : draft' = [draft EXCEPT ![p] = {r}]
  /\ UNCHANGED <<chain, todo, carry, differs, stale, overtaken, broker, nextId, requests, faults>>

\* COMMIT; it may take effect and still be reported as an error.
AppendCommit(p) ==
  /\ pc[p] = "insert" /\ rows' = View(p) /\ EndTx(p)
  /\ \/ faults' = faults /\ IF job[p].kind = "ingest" THEN Keep(p, "ack") ELSE Finish(p)
     \/ Fault /\ Report(p)
  /\ UNCHANGED <<checkpoint, epoch, altered, raced, overtaken, broker, nextId, requests>>

\* A statement fails or the context's deadline passes: rollback.
Fail(p) ==
  /\ pc[p] \notin {"idle", "ack", "park"} /\ EndTx(p) /\ Failure(p) /\ Report(p)
  /\ UNCHANGED <<chain, overtaken, broker, nextId, requests>>

Ack(p) ==
  /\ pc[p] = "ack" /\ Finish(p)
  /\ \/ acked' = acked \cup {job[p].of} /\ faults' = faults
     \/ acked' = acked /\ Fault  \* the ack is lost
  /\ UNCHANGED <<chain, lock, walk, overtaken, num, parked, dropped, nextId, requests>>

Park(p) ==
  /\ pc[p] = "park"
  /\ \/ parked' = parked \cup {job[p].of} /\ dropped' = dropped /\ Keep(p, "ack")
     \/ dropped' = dropped \cup {job[p].of} /\ parked' = parked /\ Finish(p)
  /\ UNCHANGED <<chain, lock, walk, overtaken, num, acked, nextId, requests, faults>>

\* The replica dies. Nobody redelivers a last delivery, and nothing says so.
Crash(p) ==
  /\ pc[p] # "idle" /\ Fault /\ EndTx(p) /\ Finish(p)
  /\ dropped' = dropped \cup (IF job[p].last /\ pc[p] # "ack" THEN {job[p].of} ELSE {})
  /\ UNCHANGED <<chain, overtaken, num, acked, parked, nextId, requests>>

\* A row's content is changed by something other than this service, which takes
\* no advisory lock: it waits only for rows an open transaction has written.
Alter ==
  /\ Fault
  /\ \E r \in rows :
       /\ \A p \in Procs : r.id \notin Ids(draft[p])
       /\ altered' = altered \cup {r.id}
       /\ raced' = IF \E p \in Procs : pc[p] = "redact" THEN raced \cup {r.id} ELSE raced
       /\ stale' = [p \in Procs |-> IF r.body = "stored" /\ r.id \in todo[p]
                                     THEN stale[p] \cup {r.id} ELSE stale[p]]
       /\ rows' = Overlay(rows,
            {Row(Event(r.id, r.of, r.by, "altered", r.at), r.prev, r.hash)})
  /\ UNCHANGED <<checkpoint, epoch, lock, pc, job, draft, todo, carry, differs, seen,
                 overtaken, broker, nextId, requests>>

-----------------------------------------------------------------------------
(* Rewriting: erasure and re-baseline *)

Subjects     == {r \in rows : r.by = "subject"}
First(R)     == {f \in R : \A r \in R : r = f \/ Before(f, r)}
From(f)      == {r \in rows : ~Before(r, f)}

\* Mutant: the actor is emptied.
RedactedBlank(r) == Row(Event(r.id, r.of, "", r.body, r.at), r.prev, r.hash)

Redacted(r) == Row(Event(r.id, r.of, "REDACTED", r.body, r.at), r.prev, r.hash)

Verified(f) == \A r \in From(f) : Sound(rows, r)

\* The lock, the first read, and its verification.
AnonymizeAndRechain(p) ==
  /\ pc[p] = "erase" /\ LockChain(p) /\ Keep(p, "redact")
  /\ \E f \in First(Subjects) : Verified(f)
  /\ UNCHANGED <<chain, walk, overtaken, broker, nextId, requests, faults>>

\* The redaction, and the second read.
RedactSubject(p) ==
  /\ pc[p] = "redact" /\ Keep(p, "rechain")
  /\ \E f \in First(Subjects) :
       /\ draft' = [draft EXCEPT ![p] = {Redacted(r) : r \in Subjects}]
       /\ todo' = [todo EXCEPT ![p] = Ids(From(f))]
       /\ \E h \in Preceding(rows, f) : carry' = [carry EXCEPT ![p] = h]
  /\ UNCHANGED <<chain, lock, differs, stale, overtaken, broker, nextId, requests, faults>>

\* No event of the subject, or ErrChainTampered: nothing is written.
EraseNothing(p) ==
  /\ pc[p] = "erase" /\ lock = {} /\ \A f \in First(Subjects) : ~Verified(f)
  /\ Finish(p)
  /\ UNCHANGED <<chain, lock, walk, overtaken, broker, nextId, requests, faults>>

RebaselineChain(p) ==
  /\ pc[p] = "rebase" /\ LockChain(p) /\ Keep(p, "rechain")
  /\ todo' = [todo EXCEPT ![p] = Ids(rows)]
  /\ UNCHANGED <<chain, draft, carry, differs, stale, overtaken, broker, nextId, requests, faults>>

\* Mutant: each row is read again when the walk comes to it.
LoadedAgain(p, r) == r

\* A row as the rewrite read it.
Loaded(p, r) ==
  IF r.id \in stale[p] THEN Row(Event(r.id, r.of, r.by, "stored", r.at), r.prev, r.hash)
  ELSE r

\* One event of the walk, in chain order: its hash is over what was read, and
\* only its link and its hash are written.
Rechain(p) ==
  /\ pc[p] = "rechain" /\ Keep(p, "rechain")
  /\ \E r \in First({v \in View(p) : v.id \in todo[p]}) :
       LET want == IF job[p].kind = "erase" THEN computeEventHash(carry[p], Loaded(p, r))
                                            ELSE expectedHashFor(carry[p], Loaded(p, r))
           same == want = r.hash /\ carry[p] = r.prev
       IN  /\ draft' = [draft EXCEPT ![p] =
                          IF same THEN @ ELSE Overlay(@, {Row(r, carry[p], want)})]
           /\ differs' = [differs EXCEPT ![p] = IF same THEN @ ELSE @ \cup {r.id}]
           /\ todo' = [todo EXCEPT ![p] = @ \ {r.id}]
           /\ carry' = [carry EXCEPT ![p] = want]
  /\ UNCHANGED <<chain, lock, stale, overtaken, broker, nextId, requests, faults>>

Walked(p, kind) == pc[p] = "rechain" /\ todo[p] = {} /\ job[p].kind = kind

\* Mutant: no marker.
EraseCommitSilent(p) ==
  /\ Walked(p, "erase") /\ EndTx(p) /\ epoch' = epoch + 1 /\ rows' = View(p)
  /\ \/ Keep(p, "head") /\ faults' = faults
     \/ Finish(p) /\ Fault
  /\ UNCHANGED <<checkpoint, altered, raced, overtaken, broker, nextId, requests>>

\* The marker is appended and all of it commits.
EraseCommit(p) ==
  /\ Walked(p, "erase") /\ EndTx(p) /\ epoch' = epoch + 1
  /\ \E m \in appendInTx(View(p), job[p]) : rows' = View(p) \cup {m}
  /\ \/ Keep(p, "head") /\ faults' = faults
     \/ Finish(p) /\ Fault
  /\ UNCHANGED <<checkpoint, altered, raced, overtaken, broker, nextId, requests>>

AtOrAfterCutover(p) == {r \in rows : r.id \in differs[p] /\ r.at >= Cutover}

\* Mutant: the marker is not counted.
AnchorShort(p, m) == [head |-> m.hash, count |-> Cardinality(View(p)), epoch |-> epoch + 1]

Anchor(p, m) == [head |-> m.hash, count |-> Cardinality(View(p)) + 1, epoch |-> epoch + 1]

\* The marker and a checkpoint over it commit with the rewritten links. The
\* checkpoint is dated by the start of the transaction, so one inserted since
\* then is still the latest.
RebaseCommit(p) ==
  /\ Walked(p, "rebase") /\ differs[p] # {} /\ AtOrAfterCutover(p) = {}
  /\ EndTx(p) /\ Finish(p) /\ epoch' = epoch + 1
  /\ \E m \in appendInTx(View(p), job[p]) :
       /\ rows' = View(p) \cup {m}
       /\ checkpoint' = IF p \in overtaken THEN checkpoint ELSE Anchor(p, m)
  /\ UNCHANGED <<altered, raced, overtaken, broker, nextId, requests, faults>>

\* ErrDifferingAfterCutover
RebaseRefuse(p) ==
  /\ Walked(p, "rebase") /\ AtOrAfterCutover(p) # {} /\ EndTx(p) /\ Finish(p)
  /\ UNCHANGED <<chain, overtaken, broker, nextId, requests, faults>>

RebaseNothing(p) ==
  /\ Walked(p, "rebase") /\ differs[p] = {} /\ EndTx(p) /\ Keep(p, "resign")
  /\ UNCHANGED <<chain, overtaken, broker, nextId, requests, faults>>

-----------------------------------------------------------------------------
(* Checkpoints *)

\* cp signs the first cp.count rows of R.
Covers(R, cp) ==
  \E r \in R : r.hash = cp.head /\ cp.count = Cardinality({s \in R : ~Before(r, s)})

\* mayResign: the events, then the latest checkpoint.
ListAll(p) ==
  /\ pc[p] = "resign"
  /\ IF rows = {} THEN Finish(p)
     ELSE Move(p, "vouch") /\ seen' = [seen EXCEPT ![p] = rows] /\ job' = job
  /\ UNCHANGED <<chain, lock, walk, overtaken, broker, nextId, requests, faults>>

mayResign(p) ==
  IF checkpoint.count = 0 THEN {TRUE, FALSE}  \* --allow-first-checkpoint
  ELSE {checkpoint.count < Cardinality(seen[p]) /\ Covers(seen[p], checkpoint)}

LatestCheckpoint(p) ==
  /\ pc[p] = "vouch"
  /\ \E sign \in mayResign(p) : IF sign THEN Keep(p, "head") ELSE Finish(p)
  /\ UNCHANGED <<chain, lock, walk, overtaken, broker, nextId, requests, faults>>

HeadAndCount(p) ==
  /\ pc[p] = "head"
  /\ IF rows = {} THEN Finish(p)
     ELSE /\ Move(p, "sign") /\ job' = job
          /\ \E h \in Heads(rows) : seen' = [seen EXCEPT ![p] =
               [head |-> h.hash, count |-> Cardinality(rows), epoch |-> epoch]]
  /\ UNCHANGED <<chain, lock, walk, overtaken, broker, nextId, requests, faults>>

InsertCheckpoint(p) ==
  /\ pc[p] = "sign" /\ checkpoint' = seen[p] /\ Finish(p)
  /\ overtaken' = {q \in Procs : job[q].kind = "rebase" /\ pc[q] \in {"rebase", "rechain"}}
  /\ UNCHANGED <<rows, epoch, altered, raced, lock, walk, broker, nextId, requests, faults>>

-----------------------------------------------------------------------------
Step(p) ==
  \/ AppendChained(p) \/ AppendCommit(p) \/ Ack(p) \/ Park(p) \/ Fail(p)
  \/ AnonymizeAndRechain(p) \/ RedactSubject(p) \/ EraseNothing(p)
  \/ RebaselineChain(p) \/ Rechain(p)
  \/ EraseCommit(p) \/ RebaseCommit(p) \/ RebaseRefuse(p) \/ RebaseNothing(p)
  \/ ListAll(p) \/ LatestCheckpoint(p) \/ HeadAndCount(p) \/ InsertCheckpoint(p)

Next ==
  \/ Alter
  \/ \E p \in Procs :
       \/ Step(p) \/ Crash(p) \/ RecordAccessDenied(p) \/ AnonymizeSubject(p)
       \/ Rebaseline(p) \/ CreateCheckpoint(p)
       \/ \E m \in Messages : Deliver(p, m)

Spec == Init /\ [][Next]_vars

\* Handlers and requests run on, and the stream redelivers what is not acked.
FairSpec ==
  /\ Spec /\ \A p \in Procs : WF_vars(Step(p))
  /\ \A m \in Messages : WF_vars(\E p \in Procs : Deliver(p, m))

-----------------------------------------------------------------------------
(* Properties *)

PreFix(r) == r.at < Cutover /\ r.hash.v = "v2" /\ r.hash.body = "raw"

\* Whatever replicas append, erase and re-baseline at once, and wherever one
\* dies, the stored trail is one chain: every event links to the event before
\* it in (created_at, id) order and matches its hash, unless it is a pre-fix
\* event or was changed behind the service's back (appendInTx,
\* AnonymizeAndRechain, RebaselineChain).
ChainHolds ==
  \A r \in rows : r.id \in altered \/ PreFix(r) \/ Sound(rows, r)

\* Once an event created at or after the cutover has been changed behind the
\* service's back, even in the middle of a rewrite, VerifyIntegrity shows it for
\* good: an erasure or a re-baseline refuses it (ErrChainTampered,
\* ErrDifferingAfterCutover) or hashes what it had read before. The exception is
\* an event changed between the two reads of AnonymizeAndRechain: the second
\* is not verified.
AlteredShows ==
  \A r \in rows : r.id \in altered \ raced /\ r.at >= Cutover => ~Verifies(rows, r)

\* The latest checkpoint signs a prefix of the stored chain
\* (verifyLatestCheckpoint), unless a rewrite has committed since its head was
\* read.
CheckpointStands ==
  checkpoint.count > 0 /\ checkpoint.epoch = epoch => Covers(rows, checkpoint)

Recorded(m) == m \in parked \/ \E r \in rows : r.of = m

\* An acknowledged event is in the trail or on the dead-letter stream, and one
\* that has used up its deliveries is too, unless its last handler died (of
\* which nobody is told) or could not park it (which is logged: StartConsumer).
EventsKept ==
  \A m \in Messages :
    /\ m \in acked => Recorded(m)
    /\ num[m] = MaxDeliver /\ (\A p \in Procs : job[p].of # m) => Recorded(m) \/ m \in dropped

\* The trail is append-only: a row never goes or moves, only an erasure
\* touches its actor, and a stored link or hash changes only in a step that
\* also appends the marker that records the rewrite.
TrailKept ==
  [][\A r \in rows : \E s \in rows' :
       /\ s.id = r.id /\ s.at = r.at /\ s.of = r.of
       /\ s.by # r.by => s.by = "REDACTED" /\ \A t \in rows' : t.by # "subject"
       /\ <<s.prev, s.hash>> # <<r.prev, r.hash>> =>
            \E m \in rows' : m.id \notin Ids(rows) /\ m.of = "none" /\ m \in Heads(rows')]_vars

\* An event as readers of the trail see it, its payload aside.
Entry(r) ==
  [id |-> r.id, at |-> r.at, of |-> r.of, by |-> r.by, link |-> <<r.prev, r.hash>>]

Log == INSTANCE AuditLog WITH
  Origins <- {{}, {Entry(LegacyRow)}, {Entry(RawRow)}},
  entries <- {Entry(r) : r \in rows}

\* Concurrent appends, erasures and re-baselines, failed or not, are for its
\* readers an append-only log: a commit adds one event, dated after all
\* others; an erasure hides the subject's actor and nothing else; links change
\* only together with the marker of a rewrite; nothing is ever lost, moved or
\* inserted in between (appendInTx, AnonymizeAndRechain, RebaselineChain).
ImplementsAuditLog == Log!LSpec

\* Every event of the stream ends up in the trail or on the dead-letter stream,
\* unless its last handler died or could not park it.
EventsSettle == \A m \in Messages : <>(Recorded(m) \/ m \in dropped)
=============================================================================
