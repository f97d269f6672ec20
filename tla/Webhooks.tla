------------------------------ MODULE Webhooks ------------------------------
(***************************************************************************)
(* Outgoing webhooks (services/connector): the fan-out of upstream events   *)
(* into webhook_deliveries rows (service/service.go), and the delivery      *)
(* workers of several replicas that claim due rows under a lease, post them *)
(* and record the outcome with a compare-and-set (webhook/delivery.go,      *)
(* repository/repository.go).  The stream and the receiver are external.    *)
(*                                                                          *)
(* One tenant of several.  Time is reduced to whether next_retry_at has     *)
(* passed: a row that waits becomes due when its backoff, or the lease of a *)
(* worker that died, runs out, and under a live worker only as a counted    *)
(* fault (a batch of claimBatch posts fits into claimLease).                *)
(***************************************************************************)
EXTENDS Naturals, Sequences, FiniteSets, FiniteSetsExt

CONSTANTS
  Events,       \* upstream events of a subscribable family
  Subs,         \* subscription ids
  Legacy,       \* subscriptions with a row queued before the allow-list
  Workers,      \* delivery workers, one per replica
  None,         \* no message
  ClaimBatch,   \* claimBatch
  MaxAttempts,  \* len(RetryBackoff)
  MaxDeliver,   \* nats.MaxDeliver of the fan-out consumers
  MaxRows,      \* bound: delivery rows
  WorkRows,     \* bound: delivery rows where workers run
  MaxFaults     \* bound: crashes, failed statements, lost answers, overruns

ASSUME WebhooksAssumption ==
  /\ None \notin Events
  /\ Legacy \subseteq Subs /\ IsFiniteSet(Legacy) /\ Cardinality(Legacy) <= MaxRows
  /\ ClaimBatch \in Nat \ {0} /\ MaxAttempts \in Nat \ {0}
  /\ MaxDeliver \in Nat \ {0} /\ MaxRows \in Nat /\ MaxFaults \in Nat
  /\ WorkRows \in 0..MaxRows

VARIABLES
  subs,      \* subscription -> "none" | "active" | "deleted"
  rows,      \* webhook_deliveries, in created_at order
  evt,       \* event -> "none" | "queued" | "acked" | "dropped"
  sent,      \* event -> times the fan-out received it
  fan,       \* the message being fanned out and the subscriptions left
  claim,     \* worker -> its claimed rows, with the attempts it read
  stage,     \* worker -> where it is with the first of them
  result,    \* worker -> the outcome it has still to record
  spent,     \* faults so far
  audience,  \* history: event -> subscriptions active when it was published
  skipped,   \* history: <<event, subscription>> whose insert failed
  posts      \* history: row -> posts made, accepted, hit by a fault; and
             \*          whether reading its subscription failed

eventVars == <<evt, sent, fan, audience, skipped>>
job  == <<claim, stage, result>>
vars == <<subs, rows, eventVars, job, spent, posts>>

Open == {"pending", "failed"}
Live == {s \in Subs : subs[s] = "active"}
Ids  == DOMAIN rows

NewRow(s, m) ==
  [sub |-> s, of |-> m, status |-> "pending", attempts |-> 0, wait |-> FALSE]
NoPosts == [made |-> 0, accepted |-> 0, faults |-> 0, unread |-> FALSE]

Deliveries ==
  [sub : Subs, of : Events \cup {"test", "internal"},
   status : Open \cup {"delivered", "dead_letter"},
   attempts : 0..MaxAttempts, wait : BOOLEAN]
Histories == [made : Nat, accepted : Nat, faults : Nat, unread : BOOLEAN]

\* Deliverable: rows of internal events predate the allow-list.
Deliverable(i) == rows[i].of # "internal"

\* Some replica's worker runs. Until then rows may pile up: main subscribes the
\* fan-out before it starts the worker.
Running == \E w \in Workers : stage[w] # "off"

Init ==
  /\ subs = [s \in Subs |-> IF s \in Legacy THEN "active" ELSE "none"]
  /\ \E n \in 0..MaxRows : \E order \in Bijection(1..n, Legacy) :
       rows = [i \in 1..n |-> NewRow(order[i], "internal")]
  /\ posts = [i \in DOMAIN rows |-> NoPosts]
  /\ evt = [e \in Events |-> "none"] /\ sent = [e \in Events |-> 0]
  /\ fan = [msg |-> None, todo |-> {}]
  /\ claim = [w \in Workers |-> <<>>]
  /\ stage = [w \in Workers |-> "off"] /\ result = [w \in Workers |-> "none"]
  /\ audience = [e \in Events |-> {}] /\ skipped = {} /\ spent = 0

Fault == spent < MaxFaults /\ spent' = spent + 1

-----------------------------------------------------------------------------
(* Subscriptions, test and repeated deliveries *)

CreateWebhook(s) ==
  /\ subs[s] = "none"
  /\ subs' = [subs EXCEPT ![s] = "active"]
  /\ UNCHANGED <<rows, eventVars, job, spent, posts>>

\* The foreign key of webhook_deliveries refuses the deletion once a row exists.
DeleteWebhook(s) ==
  /\ subs[s] = "active" /\ \A i \in Ids : rows[i].sub # s
  /\ subs' = [subs EXCEPT ![s] = "deleted"]
  /\ UNCHANGED <<rows, eventVars, job, spent, posts>>

InsertDelivery(s, m) ==
  /\ Len(rows) < IF Running THEN WorkRows ELSE MaxRows
  /\ rows' = Append(rows, NewRow(s, m))
  /\ posts' = Append(posts, NoPosts)

SendTestEvent(s) ==
  /\ subs[s] = "active" /\ InsertDelivery(s, "test")
  /\ UNCHANGED <<subs, eventVars, job, spent>>

RedeliverDelivery(i) ==
  /\ Deliverable(i) /\ InsertDelivery(rows[i].sub, rows[i].of)
  /\ UNCHANGED <<subs, eventVars, job, spent>>

-----------------------------------------------------------------------------
(* Fan-out: one message of a consumer at a time *)

Publish(e) ==
  /\ evt[e] = "none"
  /\ evt' = [evt EXCEPT ![e] = "queued"]
  /\ audience' = [audience EXCEPT ![e] = Live]
  /\ UNCHANGED <<subs, rows, sent, fan, job, spent, skipped, posts>>

\* A message that is not acknowledged comes again, up to MaxDeliver times.
Unacked(e) ==
  evt' = [evt EXCEPT ![e] = IF sent'[e] < MaxDeliver THEN "queued" ELSE "dropped"]

Receive(e) ==
  /\ evt[e] = "queued" /\ fan.msg = None
  /\ sent' = [sent EXCEPT ![e] = @ + 1]

\* Faulty variant: an event that has a row is taken to be fanned out.
GetActiveWebhooksOnce(e) ==
  /\ Receive(e)
  /\ fan' = [msg |-> e, todo |-> IF \E i \in Ids : rows[i].of = e THEN {} ELSE Live]
  /\ UNCHANGED <<subs, rows, evt, job, spent, audience, skipped, posts>>

GetActiveWebhooksForEvent(e) ==
  /\ Receive(e)
  /\ fan' = [msg |-> e, todo |-> Live]
  /\ UNCHANGED <<subs, rows, evt, job, spent, audience, skipped, posts>>

LookupFails(e) ==
  /\ Receive(e) /\ Fault /\ Unacked(e)
  /\ UNCHANGED <<subs, rows, fan, job, audience, skipped, posts>>

\* Each row is inserted in a transaction of its own; the insert for a
\* subscription deleted since the lookup is refused and only logged.
FanoutInsert(s) ==
  /\ s \in fan.todo
  /\ IF subs[s] = "active" THEN InsertDelivery(s, fan.msg)
                           ELSE UNCHANGED <<rows, posts>>
  /\ fan' = [fan EXCEPT !.todo = @ \ {s}]
  /\ UNCHANGED <<subs, evt, sent, job, spent, audience, skipped>>

FanoutInsertFails(s) ==
  /\ s \in fan.todo /\ Fault
  /\ fan' = [fan EXCEPT !.todo = @ \ {s}]
  /\ skipped' = skipped \cup {<<fan.msg, s>>}
  /\ UNCHANGED <<subs, rows, evt, sent, job, audience, posts>>

FanoutAck ==
  /\ fan.msg # None /\ fan.todo = {}
  /\ evt' = [evt EXCEPT ![fan.msg] = "acked"]
  /\ fan' = [msg |-> None, todo |-> {}]
  /\ UNCHANGED <<subs, rows, sent, job, spent, audience, skipped, posts>>

\* The process dies in the handler, or its Ack is late or lost.
FanoutLost ==
  /\ fan.msg # None /\ Fault
  /\ sent' = sent /\ Unacked(fan.msg)
  /\ fan' = [msg |-> None, todo |-> {}]
  /\ UNCHANGED <<subs, rows, job, audience, skipped, posts>>

-----------------------------------------------------------------------------
(* Delivery workers *)

Start(w) ==
  /\ stage[w] = "off" /\ Len(rows) <= WorkRows
  /\ stage' = [stage EXCEPT ![w] = "next"]
  /\ UNCHANGED <<subs, rows, eventVars, claim, result, spent, posts>>

\* Faulty variant: only rows that were never tried.
DuePending == {i \in Ids : rows[i].status = "pending" /\ ~rows[i].wait}

Due == {i \in Ids : rows[i].status \in Open /\ ~rows[i].wait}

\* ORDER BY created_at LIMIT n: the oldest due rows.
Oldest(S, n) ==
  {i \in S : Cardinality({j \in S : j < i}) < n}

\* Faulty variant: claimed rows stay due.
LeasedNot(S) == rows

Leased(S) == [i \in Ids |-> [rows[i] EXCEPT !.wait = @ \/ i \in S]]

Claimed(w) == DOMAIN claim[w]

\* The limit is shared by all tenants: n is what those before this one left.
ClaimPendingDeliveries(w) ==
  /\ stage[w] = "next" /\ Claimed(w) = {} /\ Due # {}
  /\ \E n \in 1..ClaimBatch :
       /\ rows' = Leased(Oldest(Due, n))
       /\ claim' = [claim EXCEPT ![w] = [i \in Oldest(Due, n) |-> rows[i].attempts]]
  /\ UNCHANGED <<subs, eventVars, stage, result, spent, posts>>

\* The row the worker is at.
At(w, where) == Claimed(w) # {} /\ stage[w] = where
Cur(w) == Min(Claimed(w))

Goes(w, where, outcome) ==
  /\ stage' = [stage EXCEPT ![w] = where] /\ result' = [result EXCEPT ![w] = outcome]
  /\ claim' = claim

\* deliver: the row is dead-lettered unsent when it may not leave the platform
\* or has no active subscription ...
GetWebhook(w) ==
  LET i == Cur(w) IN
  /\ At(w, "next")
  /\ IF Deliverable(i) /\ subs[rows[i].sub] = "active"
       THEN Goes(w, "post", "none") ELSE Goes(w, "record", "unsent")
  /\ UNCHANGED <<subs, rows, eventVars, spent, posts>>

\* ... and also when the subscription cannot be read.
GetWebhookFails(w) ==
  /\ At(w, "next") /\ Deliverable(Cur(w)) /\ Fault
  /\ Goes(w, "record", "unsent")
  /\ posts' = [posts EXCEPT ![Cur(w)].unread = TRUE]
  /\ UNCHANGED <<subs, rows, eventVars>>

\* Faulty variants: one attempt too many, one too few.
RetryLate(a)  == IF a > MaxAttempts THEN "dead_letter" ELSE "failed"
RetryEarly(a) == IF a >= MaxAttempts - 1 THEN "dead_letter" ELSE "failed"

\* The outcome of attempt a when the answer is not a 2xx.
Retry(a) == IF a >= MaxAttempts THEN "dead_letter" ELSE "failed"

PostAccepted(w) ==
  /\ At(w, "post") /\ Goes(w, "record", "delivered")
  /\ posts' = [posts EXCEPT ![Cur(w)].made = @ + 1, ![Cur(w)].accepted = @ + 1]
  /\ UNCHANGED <<subs, rows, eventVars, spent>>

PostRefused(w) ==
  /\ At(w, "post") /\ Goes(w, "record", Retry(claim[w][Cur(w)] + 1))
  /\ posts' = [posts EXCEPT ![Cur(w)].made = @ + 1]
  /\ UNCHANGED <<subs, rows, eventVars, spent>>

\* The receiver handled the post but its answer did not arrive in time.
PostAnswerLost(w) ==
  /\ At(w, "post") /\ Goes(w, "record", Retry(claim[w][Cur(w)] + 1)) /\ Fault
  /\ posts' = [posts EXCEPT ![Cur(w)].made = @ + 1, ![Cur(w)].accepted = @ + 1,
                            ![Cur(w)].faults = @ + 1]
  /\ UNCHANGED <<subs, rows, eventVars>>

\* The row after FinishDelivery (statusFromModel, NextRetryAt).
Recorded(row, a, outcome) ==
  [row EXCEPT !.status   = IF outcome = "unsent" THEN "dead_letter" ELSE outcome,
              !.attempts = IF outcome = "unsent" THEN a ELSE a + 1,
              !.wait     = (outcome = "failed")]

\* Faulty variant: the outcome is written whatever was recorded meanwhile.
CurrentAny(i, a) == TRUE

\* The compare-and-set of FinishDelivery on the attempts the claim returned.
Current(i, a) == rows[i].attempts = a /\ rows[i].status \in Open

\* The worker holds only the rows of S, and is to start on the first.
Left(w, S) ==
  /\ claim' = [claim EXCEPT ![w] = [i \in S |-> claim[w][i]]]
  /\ stage' = [stage EXCEPT ![w] = "next"] /\ result' = [result EXCEPT ![w] = "none"]

NextRow(w) == Left(w, Claimed(w) \ {Cur(w)})

FinishDelivery(w) ==
  LET i == Cur(w)
      a == claim[w][i] IN
  /\ At(w, "record")
  /\ rows' = IF Current(i, a)
               THEN [rows EXCEPT ![i] = Recorded(@, a, result[w])] ELSE rows
  /\ NextRow(w)
  /\ UNCHANGED <<subs, eventVars, spent, posts>>

\* The outcome is not recorded; the row comes due when the lease runs out.
FinishDeliveryFails(w) ==
  /\ At(w, "record") /\ Fault /\ NextRow(w)
  /\ posts' = [posts EXCEPT ![Cur(w)].faults = @ + 1]
  /\ UNCHANGED <<subs, rows, eventVars>>

\* The process dies, or the claim of another tenant fails: what was claimed
\* before it is then returned to nobody.
Crash(w) ==
  /\ Claimed(w) # {} /\ Fault /\ Left(w, {})
  /\ posts' = IF At(w, "record") THEN [posts EXCEPT ![Cur(w)].faults = @ + 1]
                                 ELSE posts
  /\ UNCHANGED <<subs, rows, eventVars>>

-----------------------------------------------------------------------------
(* Time *)

\* A live worker still holds the lease the row waits for.
Held(i) ==
  \E w \in Workers : i \in Claimed(w) /\ claim[w][i] = rows[i].attempts

ComesDue(i) == rows[i].wait /\ rows' = [rows EXCEPT ![i].wait = FALSE]

\* The backoff of a failed row, or the lease of a dead worker, runs out.
Elapse(i) ==
  /\ ~Held(i) /\ ComesDue(i)
  /\ UNCHANGED <<subs, eventVars, job, spent, posts>>

\* The lease runs out under a worker that is still at its batch.
Overrun(i) ==
  /\ Held(i) /\ ComesDue(i) /\ Fault
  /\ posts' = [posts EXCEPT ![i].faults = @ + 1]
  /\ UNCHANGED <<subs, eventVars, job>>

-----------------------------------------------------------------------------
Subscriptions ==
  \E s \in Subs : CreateWebhook(s) \/ DeleteWebhook(s) \/ SendTestEvent(s)

Fanout ==
  \/ \E e \in Events : Publish(e) \/ GetActiveWebhooksForEvent(e) \/ LookupFails(e)
  \/ \E s \in Subs : FanoutInsert(s) \/ FanoutInsertFails(s)
  \/ FanoutAck \/ FanoutLost

Work(w) ==
  \/ ClaimPendingDeliveries(w) \/ GetWebhook(w) \/ FinishDelivery(w)
  \/ PostAccepted(w) \/ PostRefused(w)

WorkFault(w) ==
  GetWebhookFails(w) \/ PostAnswerLost(w) \/ FinishDeliveryFails(w) \/ Crash(w)

Next ==
  \/ Subscriptions \/ Fanout
  \/ \E w \in Workers : Start(w) \/ Work(w) \/ WorkFault(w)
  \/ \E i \in Ids : RedeliverDelivery(i) \/ Elapse(i) \/ Overrun(i)

Spec == Init /\ [][Next]_vars

\* A running worker polls every five seconds and works through its batch, and
\* time passes.
Fairness ==
  /\ \A w \in Workers : WF_vars(Work(w))
  /\ \A i \in 1..MaxRows : WF_vars(i \in Ids /\ Elapse(i))

FairSpec == Spec /\ Fairness

-----------------------------------------------------------------------------
(* Properties *)

TypeOK ==
  /\ subs \in [Subs -> {"none", "active", "deleted"}]
  /\ rows \in Seq(Deliveries) /\ Len(rows) <= MaxRows
  /\ posts \in Seq(Histories) /\ Len(posts) = Len(rows)
  /\ evt \in [Events -> {"none", "queued", "acked", "dropped"}]
  /\ sent \in [Events -> 0..MaxDeliver]
  /\ fan \in [msg : Events \cup {None}, todo : SUBSET Subs]
  /\ DOMAIN claim = Workers
  /\ \A w \in Workers : Claimed(w) \subseteq Ids
                       /\ \A i \in Claimed(w) : claim[w][i] \in 0..(MaxAttempts - 1)
  /\ stage \in [Workers -> {"off", "next", "post", "record"}]
  /\ result \in [Workers -> {"none", "unsent", "delivered", "failed", "dead_letter"}]
  /\ audience \in [Events -> SUBSET Subs]
  /\ skipped \subseteq Events \X Subs
  /\ spent \in 0..MaxFaults

\* fanoutMessage acknowledges an event only when every subscription that was
\* active when it was published has its row, through crashes in the middle of
\* the inserts and redeliveries; only a failed insert (logged) leaves one out.
AckedFannedOut ==
  \A e \in Events, s \in Subs :
    evt[e] = "acked" /\ s \in audience[e] /\ subs[s] = "active"
    /\ <<e, s>> \notin skipped
      => \E i \in Ids : rows[i].sub = s /\ rows[i].of = e

\* "With two connector replicas, every webhook delivery must reach the receiver
\* exactly once" (N-4): a receiver accepts a row a second time only after a
\* fault that hit this row (a dead worker, an outcome that was not recorded, an
\* answer that was lost, a lease that ran out under its holder).
OnceUnlessFault == \A i \in Ids : posts[i].accepted <= 1 + posts[i].faults

\* A recorded outcome is what happened, whichever worker recorded it: a
\* delivered row was accepted, and a dead-lettered one was posted MaxAttempts
\* times, unless it may not be sent or its subscription could not be read.
OutcomeTrue ==
  \A i \in Ids :
    /\ rows[i].status = "delivered" => posts[i].accepted > 0
    /\ rows[i].status = "dead_letter" =>
         posts[i].made >= MaxAttempts \/ ~Deliverable(i) \/ posts[i].unread

\* The compare-and-set of FinishDelivery: a late outcome of a worker whose lease
\* ran out neither reopens a finished row nor takes back recorded attempts.
OutcomesStand ==
  [][\A i \in Ids :
       /\ rows'[i].attempts >= rows[i].attempts
       /\ rows[i].status \notin Open => rows'[i] = rows[i]]_vars

\* Where workers run, every queued row is delivered or dead-lettered in the end,
\* also when the worker that claimed it dies or fails to record its outcome.
DeliveriesSettle ==
  \A i \in 1..MaxRows :
    (i \in Ids /\ Running) ~> (i \in Ids /\ rows[i].status \notin Open)
=============================================================================
