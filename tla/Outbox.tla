------------------------------- MODULE Outbox -------------------------------
(***************************************************************************)
(* The transactional outbox shared by every service: the outbox and        *)
(* outbox_dlq tables, the publisher replicas that drain them               *)
(* (pkg/database/outbox_publisher.go), the dead-letter replay              *)
(* (pkg/database/outbox_dlq.go) and, as an external component, the         *)
(* JetStream stream with its Nats-Msg-Id duplicate window.                 *)
(*                                                                         *)
(* Time is counted in ticks and kept as remaining amounts (ticks until a   *)
(* deferred row is due, until an id leaves the duplicate window, until a   *)
(* published row may be cleaned up), so the state space needs no clock.    *)
(***************************************************************************)
EXTENDS Naturals, FiniteSets

CONSTANTS
  Events,           \* event ids, numbered in (created_at, id) order
  Publishers,       \* publisher replicas
  Poison,           \* events whose publish always times out
  BatchSize,        \* PublisherConfig.BatchSize
  MaxAttempts,      \* PublisherConfig.MaxAttempts
  BaseBackoff,      \* PublisherConfig.BaseBackoff, in ticks
  MaxBackoff,       \* PublisherConfig.MaxBackoff, in ticks
  DupWindow,        \* jetStreamDuplicateWindow, in ticks
  RetainPublished,  \* PublisherConfig.RetainPublished, in ticks
  LongFlight,       \* may a message stay in flight for more than a tick?
  TxTicks,          \* bound: longest drain transaction (PublishTimeout)
  FailureCap,       \* bound: transient_failures is not counted further
  MaxCrashes,       \* bound: drain transactions that roll back
  MaxLostAcks,      \* bound: publishes that time out but may be stored
  MaxReplays        \* bound: dead-letter replays

ASSUME EventsAssumption == Events \subseteq Nat /\ Poison \subseteq Events
ASSUME LimitsAssumption ==
  /\ BatchSize \in Nat \ {0}   /\ MaxAttempts \in Nat \ {0}
  /\ BaseBackoff \in Nat \ {0} /\ MaxBackoff \in Nat \ {0}
  /\ DupWindow \in Nat \ {0}   /\ RetainPublished \in Nat
  /\ LongFlight \in BOOLEAN /\ TxTicks \in Nat /\ FailureCap \in Nat \ {0}
  /\ MaxCrashes \in Nat /\ MaxLostAcks \in Nat /\ MaxReplays \in Nat

VARIABLES
  outbox,      \* event -> "absent" | "pending" | "published" (outbox row)
  attempts,    \* event -> outbox.attempts
  transient,   \* event -> outbox.transient_failures
  due,         \* event -> ticks until next_attempt_at
  keep,        \* event -> ticks until a published row is past RetainPublished
  dlq,         \* events with an outbox_dlq row
  tx,          \* publisher -> event -> what its open transaction did to it
  age,         \* publisher -> ticks since its transaction began
  polled,      \* publishers that polled since the last tick
  stored,      \* event -> copies JetStream stored
  dup,         \* event -> ticks its id stays in the duplicate window
  wire,        \* events whose publish timed out but may still arrive
  accepted,    \* history: events whose business transaction committed
  rejected,    \* history: event -> refusals since it was (re)queued
  crashes,     \* rolled-back drains so far
  lostAcks,    \* lost acknowledgements so far
  replays      \* replays so far

rowVars    == <<outbox, attempts, transient, due, keep, dlq>>
streamVars == <<stored, dup, wire>>
histVars   == <<accepted, rejected>>
vars == <<rowVars, tx, age, polled, streamVars, histVars, crashes, lostAcks,
                 replays>>

Least(a, b)   == IF a < b THEN a ELSE b
Less(a, b)    == IF a > b THEN a - b ELSE 0

-----------------------------------------------------------------------------
(* Retry delays *)

\* backoff: BaseBackoff * 2^(n-1), capped at MaxBackoff.
backoff(n) == Least(BaseBackoff * 2^(n - 1), MaxBackoff)

TransientLimit == Least(MaxBackoff, DupWindow)

\* Faulty variants: every retry waits BaseBackoff, or the delay grows for ever.
transientBackoffFlat(n)     == Least(BaseBackoff, TransientLimit)
transientBackoffUncapped(n) == BaseBackoff * 2^(n - 1)

\* transientBackoff: the same doubling, capped at the duplicate window too.
transientBackoff(n) == Least(BaseBackoff * 2^(n - 1), TransientLimit)

\* Past FailureCap the delay no longer grows, so neither need the counter.
ASSUME FailureCapAssumption == BaseBackoff * 2^(FailureCap - 1) >= TransientLimit

-----------------------------------------------------------------------------
(* The state *)

TypeOK ==
  /\ outbox \in [Events -> {"absent", "pending", "published"}]
  /\ attempts \in [Events -> Nat] /\ transient \in [Events -> Nat]
  /\ due \in [Events -> 0..MaxBackoff] /\ keep \in [Events -> 0..RetainPublished]
  /\ dlq \subseteq Events
  /\ tx \in [Publishers -> [Events ->
              {"none", "todo", "ok", "transient", "retry", "dead", "left"}]]
  /\ age \in [Publishers -> Nat]  /\ polled \subseteq Publishers
  /\ stored \in [Events -> Nat]   /\ dup \in [Events -> Nat]
  /\ wire \subseteq Events        /\ accepted \subseteq Events
  /\ rejected \in [Events -> Nat]
  /\ crashes \in Nat /\ lostAcks \in Nat /\ replays \in Nat

Init ==
  /\ outbox = [e \in Events |-> "absent"]
  /\ attempts = [e \in Events |-> 0] /\ transient = [e \in Events |-> 0]
  /\ due = [e \in Events |-> 0]      /\ keep = [e \in Events |-> 0]
  /\ dlq = {}
  /\ tx = [p \in Publishers |-> [e \in Events |-> "none"]]
  /\ age = [p \in Publishers |-> 0]  /\ polled = {}
  /\ stored = [e \in Events |-> 0]   /\ dup = [e \in Events |-> 0]
  /\ wire = {} /\ accepted = {} /\ rejected = [e \in Events |-> 0]
  /\ crashes = 0 /\ lostAcks = 0 /\ replays = 0

NoRows     == [e \in Events |-> "none"]
Busy(p)    == tx[p] # NoRows
Locked(e)  == \E p \in Publishers : tx[p][e] # "none"

-----------------------------------------------------------------------------
(* Producers *)

\* OutboxRepository.Insert, with the commit of the caller's transaction.
Insert(e) ==
  /\ e \notin accepted
  /\ accepted' = accepted \cup {e}
  /\ outbox' = [outbox EXCEPT ![e] = "pending"]
  /\ UNCHANGED <<attempts, transient, due, keep, dlq, tx, age, polled,
                 streamVars, rejected, crashes, lostAcks,
                 replays>>

-----------------------------------------------------------------------------
(* drainBatch *)

\* Faulty variant: a claim that does not skip rows another replica locked.
ClaimableLocked == {e \in Events : outbox[e] = "pending" /\ due[e] = 0}

\* outbox_claim_batch: due unpublished rows nobody has locked, oldest first.
Claimable == {e \in Events : outbox[e] = "pending" /\ due[e] = 0 /\ ~Locked(e)}

Batch(rows) ==
  {e \in rows : Cardinality({f \in rows : f < e}) < BatchSize}

\* Begin the transaction and claim; an empty claim just ends the poll.
Claim(p) ==
  /\ ~Busy(p)
  /\ Claimable # {} \/ p \notin polled
  /\ tx' = [tx EXCEPT ![p] = [e \in Events |->
                IF e \in Batch(Claimable) THEN "todo" ELSE "none"]]
  /\ age' = [age EXCEPT ![p] = 0]
  /\ polled' = polled \cup {p}
  /\ UNCHANGED <<rowVars, streamVars, histVars, crashes, lostAcks,
                 replays>>

\* The loop is at row e: the batch is published in claim order.
AtRow(p, e) ==
  /\ tx[p][e] = "todo"
  /\ \A f \in Events : tx[p][f] = "todo" => e <= f

\* The broker's side of a publish: a known id is acknowledged, not stored.
Store(e) ==
  IF dup[e] = 0
  THEN stored' = [stored EXCEPT ![e] = @ + 1] /\ dup' = [dup EXCEPT ![e] = DupWindow]
  ELSE UNCHANGED <<stored, dup>>

PublishOk(p, e) ==
  /\ AtRow(p, e) /\ e \notin Poison
  /\ Store(e)
  /\ tx' = [tx EXCEPT ![p][e] = "ok"]
  /\ UNCHANGED <<rowVars, age, polled, wire, histVars, crashes, lostAcks,
                 replays>>

\* Any error that is not transient counts an attempt; the last one
\* dead-letters the row.
Outcome(n) == IF n >= MaxAttempts THEN "dead" ELSE "retry"

\* Faulty variant: the rest of the claimed batch is marked published too.
EndCycleMarksBatch(p, e) ==
  tx' = [tx EXCEPT ![p] = [f \in Events |->
           IF f = e THEN "transient"
           ELSE IF tx[p][f] = "todo" THEN "ok" ELSE tx[p][f]]]

\* Faulty variant: a timeout counts an attempt like any other error.
EndCycleCounts(p, e) ==
  tx' = [tx EXCEPT ![p] = [f \in Events |->
           IF f = e THEN Outcome(attempts[e] + 1)
           ELSE IF tx[p][f] = "todo" THEN "left" ELSE tx[p][f]]]

\* A transient error defers the row and ends the cycle: the rest of the
\* batch stays claimed and untouched until the commit.
EndCycle(p, e) ==
  tx' = [tx EXCEPT ![p] = [f \in Events |->
           IF f = e THEN "transient"
           ELSE IF tx[p][f] = "todo" THEN "left" ELSE tx[p][f]]]

PublishTransient(p, e) ==
  /\ AtRow(p, e)
  /\ EndCycle(p, e)
  /\ UNCHANGED <<rowVars, age, polled, streamVars, histVars, crashes, lostAcks,
                 replays>>

\* The publish timed out although the message is on its way or stored.
PublishLostAck(p, e) ==
  /\ AtRow(p, e)
  /\ lostAcks < MaxLostAcks
  /\ lostAcks' = lostAcks + 1
  /\ wire' = wire \cup {e}
  /\ EndCycle(p, e)
  /\ UNCHANGED <<rowVars, age, polled, stored, dup, histVars, crashes, replays>>

Arrive(e) ==
  /\ e \in wire
  /\ wire' = wire \ {e}
  /\ Store(e)
  /\ UNCHANGED <<rowVars, tx, age, polled, histVars, crashes, lostAcks,
                 replays>>

PublishRejected(p, e) ==
  /\ AtRow(p, e) /\ e \notin Poison
  /\ tx' = [tx EXCEPT ![p][e] = Outcome(attempts[e] + 1)]
  /\ rejected' = [rejected EXCEPT ![e] = Least(@ + 1, MaxAttempts)]
  /\ UNCHANGED <<rowVars, age, polled, streamVars, accepted, crashes, lostAcks,
                 replays>>

publishOne(p) ==
  \E e \in Events : \/ PublishOk(p, e)      \/ PublishTransient(p, e)
                    \/ PublishLostAck(p, e) \/ PublishRejected(p, e)

\* next_attempt_at = now() + d, where now() is the transaction's start.
Defer(p, d) == Less(d, age[p])

\* Faulty variant: the published row is not marked.
RowAfterKeepsOk(outcome, row) == IF outcome = "dead" THEN "absent" ELSE row

\* deadLetter deletes the row, the final update marks the published ones.
RowAfter(outcome, row) ==
  CASE outcome = "ok"   -> "published"
    [] outcome = "dead" -> "absent"
    [] OTHER            -> row

Commit(p) ==
  /\ Busy(p)
  /\ \A e \in Events : tx[p][e] # "todo"
  /\ outbox' = [e \in Events |-> RowAfter(tx[p][e], outbox[e])]
  /\ dlq' = dlq \cup {e \in Events : tx[p][e] = "dead"}
  /\ attempts' = [e \in Events |->
       IF tx[p][e] = "retry" THEN attempts[e] + 1 ELSE attempts[e]]
  /\ transient' = [e \in Events |->
       IF tx[p][e] = "transient" THEN Least(transient[e] + 1, FailureCap)
       ELSE transient[e]]
  /\ due' = [e \in Events |->
       CASE tx[p][e] = "retry"     -> Defer(p, backoff(attempts[e] + 1))
         [] tx[p][e] = "transient" -> Defer(p, transientBackoff(transient[e] + 1))
         [] OTHER                  -> due[e]]
  /\ keep' = [e \in Events |->
       IF tx[p][e] = "ok" THEN Less(RetainPublished, age[p]) ELSE keep[e]]
  /\ tx' = [tx EXCEPT ![p] = NoRows]
  /\ age' = [age EXCEPT ![p] = 0]
  /\ UNCHANGED <<polled, streamVars, histVars, crashes, lostAcks,
                 replays>>

\* A crash, a database error or a failed commit: the transaction rolls back.
Rollback(p) ==
  /\ Busy(p)
  /\ crashes < MaxCrashes
  /\ crashes' = crashes + 1
  /\ tx' = [tx EXCEPT ![p] = NoRows]
  /\ age' = [age EXCEPT ![p] = 0]
  /\ UNCHANGED <<rowVars, polled, streamVars, histVars, lostAcks, replays>>

-----------------------------------------------------------------------------
(* Maintenance and time *)

\* cleanupOldEvents: delete rows published longer ago than RetainPublished.
Expired == {e \in Events : outbox[e] = "published" /\ keep[e] = 0}

cleanupOldEvents ==
  /\ Expired # {}
  /\ outbox' = [e \in Events |-> IF e \in Expired THEN "absent" ELSE outbox[e]]
  /\ UNCHANGED <<attempts, transient, due, keep, dlq, tx, age, polled,
                 streamVars, histVars, crashes, lostAcks,
                 replays>>

\* ReplayDLQ: dead-lettered rows go back with a fresh retry budget. S stands
\* for the tenant and the limit the operator chose.
ReplayDLQ(S) ==
  /\ S # {} /\ S \subseteq dlq
  /\ replays < MaxReplays
  /\ replays' = replays + 1
  /\ dlq' = dlq \ S
  /\ outbox'    = [e \in Events |-> IF e \in S THEN "pending" ELSE outbox[e]]
  /\ attempts'  = [e \in Events |-> IF e \in S THEN 0 ELSE attempts[e]]
  /\ transient' = [e \in Events |-> IF e \in S THEN 0 ELSE transient[e]]
  /\ due'       = [e \in Events |-> IF e \in S THEN 0 ELSE due[e]]
  /\ rejected'  = [e \in Events |-> IF e \in S THEN 0 ELSE rejected[e]]
  /\ UNCHANGED <<keep, tx, age, polled, streamVars, accepted, crashes, lostAcks>>

\* PollInterval is far below a tick: every idle replica polls between ticks.
Tick ==
  /\ \A p \in Publishers : IF Busy(p) THEN age[p] < TxTicks ELSE p \in polled
  /\ due'  = [e \in Events |-> Less(due[e], 1)]
  /\ keep' = [e \in Events |-> Less(keep[e], 1)]
  /\ dup'  = [e \in Events |-> Less(dup[e], 1)]
  /\ age'  = [p \in Publishers |-> IF Busy(p) THEN age[p] + 1 ELSE 0]
  /\ polled' = {}
  /\ wire' = IF LongFlight THEN wire ELSE {}
  /\ UNCHANGED <<outbox, attempts, transient, dlq, tx, stored, histVars,
                 crashes, lostAcks,
                 replays>>

Next ==
  \/ \E e \in Events : Insert(e) \/ Arrive(e)
  \/ \E p \in Publishers : Claim(p) \/ publishOne(p) \/ Commit(p) \/ Rollback(p)
  \/ \E S \in SUBSET Events : ReplayDLQ(S)
  \/ cleanupOldEvents
  \/ Tick

Spec == Init /\ [][Next]_vars

-----------------------------------------------------------------------------
(* Fairness: a replica that runs polls on its ticker, a publish returns      *)
(* within PublishTimeout, a transaction that can commit does, time passes    *)
(* and the cleanup ticker fires. The broker answers (one way or the other)   *)
(* an event that is tried again and again, unless it is poisoned.            *)

Answered(e) ==
  \E p \in Publishers : PublishOk(p, e) \/ PublishRejected(p, e)

Fairness ==
  /\ \A p \in Publishers : /\ WF_vars(Claim(p))
                           /\ WF_vars(publishOne(p))
                           /\ WF_vars(Commit(p))
  /\ WF_vars(Tick) /\ WF_vars(cleanupOldEvents)
  /\ \A e \in Events \ Poison : SF_vars(Answered(e))

FairSpec == Spec /\ Fairness

-----------------------------------------------------------------------------
(* Properties *)

\* drainBatch marks a row published only after the broker has it, and the
\* cleanup and the dead-letter move only drop rows that are safe elsewhere:
\* a committed event is always still queued, parked, or with the broker.
NoEventLost ==
  \A e \in accepted : outbox[e] = "pending" \/ e \in dlq \/ stored[e] > 0

\* deadLetter and ReplayDLQ move a row in one transaction, so no event ever
\* has a row in both tables (their primary keys never collide on a move).
OneHome == \A e \in dlq : outbox[e] = "absent"

\* Two replicas never work on the same row (FOR UPDATE SKIP LOCKED), and a
\* row that is being worked on stays queued until its replica commits.
ClaimedRowsExclusive ==
  \A e \in Events, p \in Publishers : tx[p][e] # "none" =>
    /\ outbox[e] = "pending"
    /\ \A q \in Publishers : tx[q][e] # "none" => q = p

\* Review H-13: an outage never dead-letters. A parked event was refused by
\* the broker MaxAttempts times since it was queued; timeouts do not count.
DeadOnlyByRefusal == \A e \in dlq : rejected[e] >= MaxAttempts

\* Extra copies of an event on the stream are all explained by a drain that
\* rolled back after publishing or an acknowledgement that was lost; retries,
\* replays and the cleanup never produce one by themselves.
CopiesExplained == \A e \in Events : stored[e] <= 1 + crashes + lostAcks

\* Every queued event leaves the outbox: it is published and cleaned up, or
\* parked; a row that always times out does not starve the rows behind it.
OutboxDrains ==
  \A e \in Events \ Poison : (e \in accepted) ~> (outbox[e] = "absent")

\* The outbox implements the abstract delivery service.
Delivery == INSTANCE EventDelivery WITH
  Event <- Events, Deliverable <- Events \ Poison,
  delivered <- {e \in Events : stored[e] > 0}, dead <- dlq
ImplementsDelivery == Delivery!DSpec
=============================================================================
