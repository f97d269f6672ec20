---------------------------- MODULE OutboxProofs ----------------------------
(***************************************************************************)
(* Proofs about the transactional outbox (Outbox.tla) for any set of       *)
(* events and replicas, any limits and any number of crashes, lost         *)
(* acknowledgements and replays: the safety invariants of the run          *)
(* outbox_safety, and that the outbox implements the safety part of        *)
(* EventDelivery.                                                          *)
(***************************************************************************)
EXTENDS Outbox, FiniteSetTheorems, TLAPS

-----------------------------------------------------------------------------
(* The inductive invariant *)

\* Only committed events have rows or messages in flight.
Provenance ==
  /\ \A e \in Events : outbox[e] # "absent" => e \in accepted
  /\ dlq \subseteq accepted /\ wire \subseteq accepted

\* An id in the duplicate window has a copy on the stream.
WindowStored == \A e \in Events : dup[e] > 0 => stored[e] > 0

\* What an open transaction recorded about a row really happened.
Recorded ==
  \A p \in Publishers, e \in Events :
    /\ tx[p][e] = "ok" => stored[e] > 0
    /\ tx[p][e] = "retry" => attempts[e] + 1 <= rejected[e]
    /\ tx[p][e] = "dead" => rejected[e] >= MaxAttempts

\* Every counted attempt was a refusal; the refusals are counted up to
\* MaxAttempts, which a row in the outbox has not reached.
AttemptsAreRefusals ==
  \A e \in Events : attempts[e] <= rejected[e] /\ attempts[e] < MaxAttempts

RetriesLeft ==
  \A p \in Publishers, e \in Events :
    tx[p][e] = "retry" => attempts[e] + 1 < MaxAttempts

\* The publication of e succeeded and nothing has forgotten that.
Settled(e) ==
  \/ outbox[e] = "published"
  \/ e \in accepted /\ outbox[e] = "absent" /\ e \notin dlq
  \/ \E p \in Publishers : tx[p][e] = "ok"

InFlight(e) == IF e \in wire THEN 1 ELSE 0

CopyBudget ==
  \A e \in Events :
    stored[e] + InFlight(e) <= crashes + lostAcks + (IF Settled(e) THEN 1 ELSE 0)

IInv ==
  /\ TypeOK /\ OneHome /\ ClaimedRowsExclusive
  /\ Provenance /\ WindowStored /\ Recorded /\ NoEventLost
  /\ AttemptsAreRefusals /\ RetriesLeft /\ DeadOnlyByRefusal
  /\ CopyBudget

-----------------------------------------------------------------------------
(* Arithmetic of the retry delays *)

\* A power of two is the number of subsets of an interval, which is how the
\* library lets us see that it is a natural number.
LEMMA PowerOfTwo == ASSUME NEW n \in Nat PROVE 2^n \in Nat
<1>1. IsFiniteSet(1..n) /\ Cardinality(1..n) = n
  BY FS_Interval
<1>2. IsFiniteSet(SUBSET (1..n)) /\ Cardinality(SUBSET (1..n)) = 2^n
  BY Zenon, <1>1, FS_SUBSET
<1> QED BY <1>2, FS_CardinalityType

\* backoff and transientBackoff stay within MaxBackoff, whatever the number
\* of failures.
LEMMA DelayType ==
  ASSUME NEW n \in Nat
  PROVE  backoff(n + 1) \in 0..MaxBackoff /\ transientBackoff(n + 1) \in 0..MaxBackoff
<1>1. (n + 1) - 1 = n
  OBVIOUS
<1>2. 2^((n + 1) - 1) \in Nat
  BY <1>1, PowerOfTwo
<1>3. BaseBackoff * 2^((n + 1) - 1) \in Nat
  BY <1>2, LimitsAssumption
<1> QED BY <1>3, LimitsAssumption
        DEF backoff, transientBackoff, TransientLimit, Least

LEMMA LeastType == ASSUME NEW a \in Nat, NEW b \in Nat
                   PROVE  Least(a, b) \in Nat
BY DEF Least

LEMMA LessType == ASSUME NEW a \in Nat, NEW b \in Nat
                  PROVE  Less(a, b) \in 0..a
BY DEF Less

-----------------------------------------------------------------------------
(* Every step keeps the types *)

LEMMA InitIInv == Init => IInv
BY LimitsAssumption
   DEF Init, IInv, TypeOK, OneHome, ClaimedRowsExclusive, Provenance, WindowStored,
       Recorded, NoEventLost, AttemptsAreRefusals, RetriesLeft, DeadOnlyByRefusal,
       CopyBudget, InFlight, Settled

LEMMA InsertIInv ==
  ASSUME IInv, NEW e \in Events, Insert(e)
  PROVE  IInv'
<1> USE DEF IInv, Insert, rowVars, streamVars, histVars
<1>1. outbox[e] = "absent" /\ e \notin dlq
  BY DEF Provenance, TypeOK
<1>2. TypeOK'
  BY DEF TypeOK
<1>3. OneHome'
  BY <1>1 DEF OneHome, TypeOK
<1>4. ClaimedRowsExclusive'
  BY <1>1 DEF ClaimedRowsExclusive, TypeOK
<1>5. Provenance' /\ NoEventLost'
  BY DEF Provenance, NoEventLost, TypeOK
<1>6. WindowStored' /\ Recorded' /\ AttemptsAreRefusals' /\ RetriesLeft'
      /\ DeadOnlyByRefusal'
  BY DEF WindowStored, Recorded, AttemptsAreRefusals, RetriesLeft, DeadOnlyByRefusal
<1>7. CopyBudget'
  <2>1. ASSUME NEW f \in Events
        PROVE  Settled(f)' = Settled(f) \/ f = e
    BY DEF Settled, TypeOK
  <2>2. ~Settled(e)
    BY <1>1 DEF Settled, ClaimedRowsExclusive, TypeOK
  <2> QED BY <2>1, <2>2 DEF CopyBudget, InFlight, TypeOK
<1> QED BY Zenon, <1>2, <1>3, <1>4, <1>5, <1>6, <1>7

LEMMA ClaimableRows ==
  \A e \in Claimable :
    /\ e \in Events /\ outbox[e] = "pending"
    /\ \A q \in Publishers : tx[q][e] = "none"
BY DEF Claimable, Locked

LEMMA ClaimIInv ==
  ASSUME IInv, NEW p \in Publishers, Claim(p)
  PROVE  IInv'
<1>0. UNCHANGED <<rowVars, streamVars, histVars, crashes, lostAcks, replays>>
  BY DEF Claim
<1>1. \A e \in Events : tx[p][e] = "none"
  BY DEF Claim, Busy, NoRows, IInv, TypeOK
<1>2. Batch(Claimable) \subseteq Claimable
  BY DEF Batch
<1>3. \A e \in Events :
        /\ tx'[p][e] \in {"none", "todo"}
        /\ tx'[p][e] = "todo" => e \in Claimable
  BY Zenon, <1>2 DEF Claim, IInv, TypeOK
<1>4. \A q \in Publishers : q # p => tx'[q] = tx[q]
  BY Zenon DEF Claim, IInv, TypeOK
<1>5. TypeOK'
  BY DEF Claim, rowVars, streamVars, histVars, IInv, TypeOK
<1>6. ClaimedRowsExclusive'
  <2>1. \A e \in Events : tx'[p][e] # "none" =>
          outbox[e] = "pending" /\ \A q \in Publishers : tx[q][e] = "none"
    BY <1>3, ClaimableRows
  <2> QED BY <2>1, <1>0, <1>4 DEF IInv, rowVars, ClaimedRowsExclusive
<1>7. OneHome' /\ Provenance' /\ NoEventLost' /\ AttemptsAreRefusals'
      /\ DeadOnlyByRefusal' /\ WindowStored'
  BY <1>0 DEF IInv, rowVars, streamVars, histVars, WindowStored, OneHome,
              Provenance, NoEventLost, AttemptsAreRefusals, DeadOnlyByRefusal
<1>8. Recorded' /\ RetriesLeft'
  BY <1>0, <1>3, <1>4 DEF IInv, rowVars, streamVars, histVars, Recorded, RetriesLeft
<1>9. CopyBudget'
  <2>1. ASSUME NEW e \in Events
        PROVE  Settled(e)' <=> Settled(e)
    BY <1>0, <1>1, <1>3, <1>4 DEF rowVars, histVars, Settled
  <2> QED BY <1>0, <2>1 DEF IInv, streamVars, CopyBudget, InFlight
<1> QED BY <1>5, <1>6, <1>7, <1>8, <1>9 DEF IInv

\* What the four outcomes of a publish have in common: replica p's row e goes
\* from "todo" to some outcome, and rows behind it may be left.
LEMMA RowWorkedOn ==
  ASSUME IInv, NEW p \in Publishers, NEW e \in Events, AtRow(p, e)
  PROVE  /\ outbox[e] = "pending" /\ e \in accepted /\ e \notin dlq
         /\ \A q \in Publishers : tx[q][e] \in {"none", "todo"}
         /\ ~Settled(e)
<1>1. tx[p][e] = "todo" /\ outbox[e] = "pending"
  BY DEF AtRow, IInv, ClaimedRowsExclusive
<1>2. \A q \in Publishers : tx[q][e] \in {"none", "todo"}
  BY <1>1 DEF IInv, ClaimedRowsExclusive
<1> QED BY <1>1, <1>2 DEF IInv, Provenance, OneHome, Settled

\* The broker adds at most one copy, and only of the event it was sent.
LEMMA StoreEffect ==
  ASSUME TypeOK, NEW e \in Events, Store(e)
  PROVE  /\ stored' \in [Events -> Nat] /\ dup' \in [Events -> Nat]
         /\ \A f \in Events : f # e => stored'[f] = stored[f]
         /\ (stored'[e] = stored[e] /\ dup[e] > 0) \/ stored'[e] = stored[e] + 1
         /\ \A f \in Events : dup'[f] > 0 => dup[f] > 0 \/ stored'[f] > 0
<1>1. CASE dup[e] = 0
  <2>1. /\ stored' = [stored EXCEPT ![e] = @ + 1]
        /\ dup' = [dup EXCEPT ![e] = DupWindow]
    BY <1>1 DEF Store
  <2> QED BY <2>1, LimitsAssumption DEF TypeOK
<1>2. CASE dup[e] # 0
  BY <1>2 DEF Store, TypeOK
<1> QED BY <1>1, <1>2

LEMMA PublishOkIInv ==
  ASSUME IInv, NEW p \in Publishers, NEW e \in Events, PublishOk(p, e)
  PROVE  IInv'
<1>0. UNCHANGED <<rowVars, age, polled, wire, histVars, crashes, lostAcks, replays>>
  BY DEF PublishOk
<1>1. AtRow(p, e) /\ Store(e) /\ TypeOK
  BY DEF PublishOk, IInv
<1>2. /\ outbox[e] = "pending" /\ e \in accepted /\ e \notin dlq /\ ~Settled(e)
      /\ \A q \in Publishers : tx[q][e] \in {"none", "todo"}
  BY <1>1, RowWorkedOn
<1>3. /\ tx' = [tx EXCEPT ![p][e] = "ok"]
      /\ tx[p][e] = "todo"
  BY Zenon, <1>1 DEF PublishOk, AtRow
<1>4. /\ stored' \in [Events -> Nat] /\ dup' \in [Events -> Nat]
      /\ \A f \in Events : stored'[f] >= stored[f]
      /\ \A f \in Events : f # e => stored'[f] = stored[f]
      /\ stored'[e] > 0 /\ stored'[e] <= stored[e] + 1
      /\ \A f \in Events : dup'[f] > 0 => dup[f] > 0 \/ stored'[f] > 0
  <2>1. stored \in [Events -> Nat] /\ WindowStored /\ e \in Events
    BY Zenon DEF IInv, TypeOK
  <2>2. /\ stored' \in [Events -> Nat] /\ dup' \in [Events -> Nat]
        /\ \A f \in Events : f # e => stored'[f] = stored[f]
        /\ (stored'[e] = stored[e] /\ dup[e] > 0) \/ stored'[e] = stored[e] + 1
        /\ \A f \in Events : dup'[f] > 0 => dup[f] > 0 \/ stored'[f] > 0
    BY Zenon, <1>1, StoreEffect
  <2> QED BY ONLY <2>1, <2>2 DEF WindowStored
<1>5. \A q \in Publishers, f \in Events :
        tx'[q][f] = IF q = p /\ f = e THEN "ok" ELSE tx[q][f]
  BY <1>1, <1>3 DEF TypeOK
<1>6. TypeOK'
  BY <1>0, <1>1, <1>3, <1>4 DEF rowVars, histVars, TypeOK
<1>7. ClaimedRowsExclusive'
  BY <1>0, <1>2, <1>3, <1>5 DEF IInv, rowVars, ClaimedRowsExclusive
<1>8. OneHome' /\ Provenance' /\ AttemptsAreRefusals' /\ DeadOnlyByRefusal'
  BY Zenon, <1>0 DEF IInv, rowVars, histVars, OneHome, Provenance,
              AttemptsAreRefusals, DeadOnlyByRefusal
<1>9. WindowStored' /\ NoEventLost'
  BY <1>0, <1>1, <1>4 DEF IInv, rowVars, histVars, WindowStored, NoEventLost, TypeOK
<1>10. Recorded' /\ RetriesLeft'
  BY ZenonT(60), <1>0, <1>1, <1>4, <1>5 DEF IInv, rowVars, histVars, Recorded, RetriesLeft, TypeOK
<1>11. CopyBudget'
  <2>1. \A f \in Events : f # e => (Settled(f)' <=> Settled(f))
    BY <1>0, <1>5 DEF rowVars, histVars, Settled
  <2>2. Settled(e)'
    BY <1>5 DEF Settled
  <2> QED BY <1>0, <1>1, <1>2, <1>4, <2>1, <2>2 DEF IInv, CopyBudget, InFlight, TypeOK
<1> QED BY Zenon, <1>6, <1>7, <1>8, <1>9, <1>10, <1>11 DEF IInv

\* Ending a cycle touches only replica p's own rows, and records no result
\* but a deferral.
LEMMA EndCycleEffect ==
  ASSUME TypeOK, NEW p \in Publishers, NEW e \in Events, EndCycle(p, e)
  PROVE  /\ tx' \in [Publishers -> [Events ->
              {"none", "todo", "ok", "transient", "retry", "dead", "left"}]]
         /\ \A q \in Publishers : q # p => tx'[q] = tx[q]
         /\ \A f \in Events :
              \/ tx'[p][f] = tx[p][f]
              \/ f = e /\ tx'[p][f] = "transient"
              \/ tx[p][f] = "todo" /\ tx'[p][f] = "left"
BY DEF EndCycle, TypeOK

\* The common part of the two kinds of timeout.
LEMMA TimeoutIInv ==
  ASSUME IInv, NEW p \in Publishers, NEW e \in Events, AtRow(p, e), EndCycle(p, e),
         UNCHANGED <<rowVars, age, polled, stored, dup, histVars, crashes, replays>>,
         \/ UNCHANGED <<wire, lostAcks>>
         \/ wire' = wire \cup {e} /\ lostAcks' = lostAcks + 1
  PROVE  IInv'
<1>1. /\ outbox[e] = "pending" /\ e \in accepted /\ e \notin dlq /\ ~Settled(e)
      /\ \A q \in Publishers : tx[q][e] \in {"none", "todo"}
  BY Zenon, RowWorkedOn
<1>2. /\ tx' \in [Publishers -> [Events ->
              {"none", "todo", "ok", "transient", "retry", "dead", "left"}]]
      /\ \A q \in Publishers : q # p => tx'[q] = tx[q]
      /\ \A f \in Events :
           \/ tx'[p][f] = tx[p][f]
           \/ f = e /\ tx'[p][f] = "transient"
           \/ tx[p][f] = "todo" /\ tx'[p][f] = "left"
  BY EndCycleEffect DEF IInv
<1>3. \A q \in Publishers, f \in Events :
        \/ tx'[q][f] = tx[q][f]
        \/ tx[q][f] = "todo" /\ tx'[q][f] \in {"transient", "left"}
  BY Zenon, <1>2 DEF AtRow
<1>4. TypeOK'
  BY <1>2 DEF IInv, rowVars, histVars, TypeOK
<1>5. ClaimedRowsExclusive'
  <2>1. ClaimedRowsExclusive /\ outbox' = outbox
    BY DEF IInv, rowVars
  <2>2. \A q \in Publishers, f \in Events : tx'[q][f] # "none" => tx[q][f] # "none"
    BY ONLY Zenon, <1>3
  <2> QED BY ONLY <2>1, <2>2 DEF ClaimedRowsExclusive
<1>6. /\ OneHome' /\ Provenance' /\ AttemptsAreRefusals' /\ DeadOnlyByRefusal'
      /\ WindowStored' /\ NoEventLost'
  BY Zenon, <1>1 DEF IInv, rowVars, histVars, OneHome, Provenance, AttemptsAreRefusals,
              DeadOnlyByRefusal, WindowStored, NoEventLost
<1>7. Recorded' /\ RetriesLeft'
  <2>1. /\ Recorded /\ RetriesLeft
        /\ attempts' = attempts /\ rejected' = rejected /\ stored' = stored
    BY Zenon DEF IInv, rowVars, histVars
  <2>2. \A q \in Publishers, f \in Events :
          tx'[q][f] \in {"ok", "retry", "dead"} => tx[q][f] = tx'[q][f]
    BY Zenon, <1>3
  <2> QED BY ONLY <2>1, <2>2 DEF Recorded, RetriesLeft
<1>8. CopyBudget'
  <2>1. \A f \in Events : Settled(f)' <=> Settled(f)
    BY <1>3 DEF rowVars, histVars, Settled
  <2> QED BY <2>1 DEF IInv, CopyBudget, InFlight, TypeOK
<1> QED BY <1>4, <1>5, <1>6, <1>7, <1>8 DEF IInv

LEMMA PublishRejectedIInv ==
  ASSUME IInv, NEW p \in Publishers, NEW e \in Events, PublishRejected(p, e)
  PROVE  IInv'
<1>0. UNCHANGED <<rowVars, age, polled, streamVars, accepted, crashes, lostAcks, replays>>
  BY DEF PublishRejected
<1>1. AtRow(p, e) /\ TypeOK
  BY DEF PublishRejected, IInv
<1>2. /\ outbox[e] = "pending" /\ e \in accepted /\ e \notin dlq /\ ~Settled(e)
      /\ \A q \in Publishers : tx[q][e] \in {"none", "todo"}
  BY Zenon, <1>1, RowWorkedOn
<1>3. /\ tx' = [tx EXCEPT ![p][e] = Outcome(attempts[e] + 1)]
      /\ rejected' = [rejected EXCEPT ![e] = Least(@ + 1, MaxAttempts)]
      /\ tx[p][e] = "todo"
  BY <1>1 DEF PublishRejected, AtRow
<1>4. \A q \in Publishers, f \in Events :
        tx'[q][f] = IF q = p /\ f = e THEN Outcome(attempts[e] + 1) ELSE tx[q][f]
  BY Zenon, <1>1, <1>3 DEF TypeOK
<1>5. /\ rejected' \in [Events -> Nat]
      /\ \A f \in Events : rejected'[f] = IF f = e THEN Least(rejected[e] + 1, MaxAttempts)
                                                   ELSE rejected[f]
  BY <1>1, <1>3, LimitsAssumption DEF TypeOK, Least
<1>6. Outcome(attempts[e] + 1) \in {"retry", "dead"}
  BY Zenon DEF Outcome
<1>7. TypeOK'
  BY Zenon, <1>0, <1>1, <1>3, <1>5, <1>6 DEF rowVars, streamVars, TypeOK
<1>8. ClaimedRowsExclusive'
  BY <1>0, <1>2, <1>3, <1>4 DEF IInv, rowVars, ClaimedRowsExclusive
<1>9. OneHome' /\ Provenance' /\ WindowStored' /\ NoEventLost'
  BY Zenon, <1>0 DEF IInv, rowVars, streamVars, OneHome, Provenance, WindowStored, NoEventLost
<1>10. DeadOnlyByRefusal'
  BY Zenon, <1>0, <1>2, <1>5 DEF IInv, rowVars, DeadOnlyByRefusal, TypeOK
<1>11. AttemptsAreRefusals'
  BY <1>0, <1>1, <1>5, LimitsAssumption
     DEF IInv, rowVars, AttemptsAreRefusals, TypeOK, Least
<1>12. Recorded' /\ RetriesLeft'
  <2> SUFFICES ASSUME NEW q \in Publishers, NEW f \in Events
               PROVE  /\ tx'[q][f] = "ok" => stored[f] > 0
                      /\ tx'[q][f] = "retry" => attempts[f] + 1 <= rejected'[f]
                      /\ tx'[q][f] = "retry" => attempts[f] + 1 < MaxAttempts
                      /\ tx'[q][f] = "dead" => rejected'[f] >= MaxAttempts
    BY Zenon, <1>0 DEF Recorded, RetriesLeft, rowVars, streamVars
  <2>1. CASE f = e /\ q = p
    <3>1. tx'[q][f] = IF attempts[e] + 1 >= MaxAttempts THEN "dead" ELSE "retry"
      BY <1>4, <2>1 DEF Outcome
    <3>2. rejected'[f] = IF rejected[e] + 1 < MaxAttempts THEN rejected[e] + 1 ELSE MaxAttempts
      BY Zenon, <1>5, <2>1 DEF Least
    <3>3. attempts[e] <= rejected[e] /\ attempts[e] \in Nat /\ rejected[e] \in Nat
      BY Zenon, <1>1 DEF IInv, AttemptsAreRefusals, TypeOK
    <3> QED BY <3>1, <3>2, <3>3, <2>1, LimitsAssumption
  <2>2. CASE f = e /\ q # p
    BY Zenon, <1>2, <1>4, <2>2
  <2>3. CASE f # e
    BY Zenon, <1>4, <1>5, <2>3 DEF IInv, Recorded, RetriesLeft
  <2> QED BY Zenon, <2>1, <2>2, <2>3
<1>13. CopyBudget'
  <2>1. \A f \in Events : Settled(f)' <=> Settled(f)
    BY <1>0, <1>2, <1>3, <1>4, <1>6 DEF rowVars, Settled
  <2> QED BY <1>0, <2>1 DEF IInv, streamVars, CopyBudget, InFlight
<1> QED BY Zenon, <1>7, <1>8, <1>9, <1>10, <1>11, <1>12, <1>13 DEF IInv

LEMMA publishOneIInv ==
  ASSUME IInv, NEW p \in Publishers, publishOne(p)
  PROVE  IInv'
<1>1. PICK e \in Events : \/ PublishOk(p, e)      \/ PublishTransient(p, e)
                          \/ PublishLostAck(p, e) \/ PublishRejected(p, e)
  BY DEF publishOne
<1>2. CASE PublishOk(p, e)
  BY Zenon, <1>2, PublishOkIInv
<1>3. CASE PublishTransient(p, e)
  <2>1. /\ AtRow(p, e) /\ EndCycle(p, e)
        /\ UNCHANGED <<rowVars, age, polled, stored, dup, histVars, crashes, replays>>
        /\ UNCHANGED <<wire, lostAcks>>
    BY Zenon, <1>3 DEF PublishTransient, streamVars
  <2> QED BY Zenon, <2>1, TimeoutIInv
<1>4. CASE PublishLostAck(p, e)
  <2>1. /\ AtRow(p, e) /\ EndCycle(p, e)
        /\ UNCHANGED <<rowVars, age, polled, stored, dup, histVars, crashes, replays>>
        /\ wire' = wire \cup {e} /\ lostAcks' = lostAcks + 1
    BY <1>4 DEF PublishLostAck
  <2> QED BY <2>1, TimeoutIInv
<1>5. CASE PublishRejected(p, e)
  BY <1>5, PublishRejectedIInv
<1> QED BY Zenon, <1>1, <1>2, <1>3, <1>4, <1>5

LEMMA ArriveIInv ==
  ASSUME IInv, NEW e \in Events, Arrive(e)
  PROVE  IInv'
<1>0. UNCHANGED <<rowVars, tx, age, polled, histVars, crashes, lostAcks, replays>>
  BY DEF Arrive
<1>1. e \in wire /\ wire' = wire \ {e} /\ Store(e) /\ TypeOK
  BY Zenon DEF Arrive, IInv
<1>2. /\ stored' \in [Events -> Nat] /\ dup' \in [Events -> Nat]
      /\ \A f \in Events : stored'[f] >= stored[f]
      /\ \A f \in Events : f # e => stored'[f] = stored[f]
      /\ stored'[e] <= stored[e] + 1
      /\ \A f \in Events : dup'[f] > 0 => dup[f] > 0 \/ stored'[f] > 0
  BY <1>1, StoreEffect DEF TypeOK
<1>3. TypeOK'
  BY Zenon, <1>0, <1>1, <1>2 DEF rowVars, histVars, TypeOK
<1>4. /\ ClaimedRowsExclusive' /\ OneHome' /\ Provenance' /\ AttemptsAreRefusals'
      /\ DeadOnlyByRefusal' /\ RetriesLeft'
  BY ZenonT(60), <1>0, <1>1 DEF IInv, rowVars, histVars, ClaimedRowsExclusive, OneHome, Provenance,
                    AttemptsAreRefusals, DeadOnlyByRefusal, RetriesLeft
<1>5. WindowStored' /\ NoEventLost' /\ Recorded'
  BY <1>0, <1>1, <1>2 DEF IInv, rowVars, histVars, WindowStored, NoEventLost, Recorded, TypeOK
<1>6. CopyBudget'
  <2>1. \A f \in Events : Settled(f)' <=> Settled(f)
    BY <1>0 DEF rowVars, histVars, Settled
  <2> QED BY <1>0, <1>1, <1>2, <2>1 DEF IInv, CopyBudget, InFlight, TypeOK
<1> QED BY <1>3, <1>4, <1>5, <1>6 DEF IInv

\* Giving up replica p's locks, by a commit or a rollback.
LEMMA ReleaseEffect ==
  ASSUME TypeOK, NEW p \in Publishers, tx' = [tx EXCEPT ![p] = NoRows]
  PROVE  /\ tx' \in [Publishers -> [Events ->
              {"none", "todo", "ok", "transient", "retry", "dead", "left"}]]
         /\ \A q \in Publishers, f \in Events :
              tx'[q][f] = IF q = p THEN "none" ELSE tx[q][f]
BY DEF NoRows, TypeOK

LEMMA RollbackIInv ==
  ASSUME IInv, NEW p \in Publishers, Rollback(p)
  PROVE  IInv'
<1>0. UNCHANGED <<rowVars, polled, streamVars, histVars, lostAcks, replays>>
  BY DEF Rollback
<1>1. /\ crashes' = crashes + 1 /\ age' = [age EXCEPT ![p] = 0]
      /\ tx' = [tx EXCEPT ![p] = NoRows] /\ TypeOK
  BY DEF Rollback, IInv
<1>2. /\ tx' \in [Publishers -> [Events ->
              {"none", "todo", "ok", "transient", "retry", "dead", "left"}]]
      /\ \A q \in Publishers, f \in Events :
           tx'[q][f] = IF q = p THEN "none" ELSE tx[q][f]
  BY Zenon, <1>1, ReleaseEffect
<1>3. TypeOK'
  BY <1>0, <1>1, <1>2 DEF rowVars, streamVars, histVars, TypeOK
<1>4. /\ OneHome' /\ Provenance' /\ AttemptsAreRefusals' /\ DeadOnlyByRefusal'
      /\ WindowStored' /\ NoEventLost'
  BY Zenon, <1>0 DEF IInv, rowVars, streamVars, histVars, OneHome, Provenance,
              AttemptsAreRefusals, DeadOnlyByRefusal, WindowStored, NoEventLost
<1>5. ClaimedRowsExclusive' /\ Recorded' /\ RetriesLeft'
  BY <1>0, <1>2 DEF IInv, rowVars, streamVars, histVars, ClaimedRowsExclusive,
                    Recorded, RetriesLeft
<1>6. CopyBudget'
  BY <1>0, <1>1 DEF IInv, streamVars, CopyBudget, InFlight, TypeOK
<1> QED BY <1>3, <1>4, <1>5, <1>6 DEF IInv

LEMMA CommitIInv ==
  ASSUME IInv, NEW p \in Publishers, Commit(p)
  PROVE  IInv'
<1>0. UNCHANGED <<polled, streamVars, histVars, crashes, lostAcks, replays>>
  BY DEF Commit
<1>1. TypeOK
  BY DEF IInv
<1>2. /\ tx' = [tx EXCEPT ![p] = NoRows] /\ age' = [age EXCEPT ![p] = 0]
      /\ dlq' = dlq \cup {e \in Events : tx[p][e] = "dead"}
  BY DEF Commit
<1>3. /\ tx' \in [Publishers -> [Events ->
              {"none", "todo", "ok", "transient", "retry", "dead", "left"}]]
      /\ \A q \in Publishers, f \in Events :
           tx'[q][f] = IF q = p THEN "none" ELSE tx[q][f]
  BY Zenon, <1>1, <1>2, ReleaseEffect
<1>4. /\ outbox' \in [Events -> {"absent", "pending", "published"}]
      /\ \A e \in Events :
           /\ tx[p][e] = "ok" => outbox'[e] = "published"
           /\ tx[p][e] = "dead" => outbox'[e] = "absent"
           /\ tx[p][e] \notin {"ok", "dead"} => outbox'[e] = outbox[e]
  BY <1>1 DEF Commit, RowAfter, TypeOK
<1>5. /\ attempts' \in [Events -> Nat]
      /\ \A e \in Events : attempts'[e] = IF tx[p][e] = "retry" THEN attempts[e] + 1
                                                                ELSE attempts[e]
  BY <1>1 DEF Commit, TypeOK
<1>6. TypeOK'
  <2>1. transient' \in [Events -> Nat]
    <3>1. \A e \in Events : transient[e] + 1 \in Nat /\ transient[e] \in Nat
      BY <1>1 DEF TypeOK
    <3>2. \A e \in Events : Least(transient[e] + 1, FailureCap) \in Nat
      BY Zenon, <3>1, LeastType, LimitsAssumption
    <3> QED BY Zenon, <3>1, <3>2 DEF Commit
  <2>2. keep' \in [Events -> 0..RetainPublished]
    BY Zenon, <1>1, LessType, LimitsAssumption DEF Commit, TypeOK
  <2>3. due' \in [Events -> 0..MaxBackoff]
    <3>1. ASSUME NEW d \in 0..MaxBackoff PROVE Defer(p, d) \in 0..MaxBackoff
      BY <1>1, LessType, LimitsAssumption DEF Defer, TypeOK
    <3>2. \A e \in Events : /\ Defer(p, backoff(attempts[e] + 1)) \in 0..MaxBackoff
                            /\ Defer(p, transientBackoff(transient[e] + 1)) \in 0..MaxBackoff
      BY <1>1, <3>1, DelayType DEF TypeOK
    <3>3. \A e \in Events : due[e] \in 0..MaxBackoff
      BY Zenon, <1>1 DEF TypeOK
    <3> QED BY Zenon, <3>2, <3>3 DEF Commit
  <2> QED BY Zenon, <1>0, <1>1, <1>2, <1>3, <1>4, <1>5, <2>1, <2>2, <2>3
          DEF streamVars, histVars, TypeOK
<1>7. OneHome' /\ Provenance'
  BY Zenon, <1>0, <1>1, <1>2, <1>4
     DEF IInv, streamVars, histVars, OneHome, Provenance, ClaimedRowsExclusive, TypeOK
<1>8. ClaimedRowsExclusive'
  <2>1. \A q \in Publishers, e \in Events :
          tx'[q][e] # "none" => q # p /\ tx[q][e] # "none" /\ tx[p][e] = "none"
    BY <1>3 DEF IInv, ClaimedRowsExclusive
  <2>2. \A e \in Events : tx[p][e] = "none" => outbox'[e] = outbox[e]
    BY ONLY <1>4
  <2>3. ClaimedRowsExclusive
    BY DEF IInv
  <2> QED BY ONLY <2>1, <2>2, <2>3 DEF ClaimedRowsExclusive
<1>9. NoEventLost' /\ WindowStored'
  BY Zenon, <1>0, <1>1, <1>2, <1>4
     DEF IInv, streamVars, histVars, NoEventLost, WindowStored, Recorded, TypeOK
<1>10. AttemptsAreRefusals' /\ DeadOnlyByRefusal'
  BY ZenonT(60), <1>0, <1>1, <1>2, <1>5
     DEF IInv, histVars, AttemptsAreRefusals, DeadOnlyByRefusal, Recorded, RetriesLeft, TypeOK
<1>11. Recorded' /\ RetriesLeft'
  <2> SUFFICES ASSUME NEW q \in Publishers, NEW e \in Events, q # p
               PROVE  /\ tx[q][e] = "ok" => stored[e] > 0
                      /\ tx[q][e] = "retry" => attempts'[e] + 1 <= rejected[e]
                      /\ tx[q][e] = "retry" => attempts'[e] + 1 < MaxAttempts
                      /\ tx[q][e] = "dead" => rejected[e] >= MaxAttempts
    BY ZenonT(30), <1>0, <1>3 DEF Recorded, RetriesLeft, streamVars, histVars
  <2>1. tx[q][e] # "none" => attempts'[e] = attempts[e]
    BY <1>5 DEF IInv, ClaimedRowsExclusive
  <2> QED BY <2>1 DEF IInv, Recorded, RetriesLeft
<1>12. CopyBudget'
  <2>1. ASSUME NEW e \in Events, Settled(e)
        PROVE  Settled(e)'
    <3>1. CASE tx[p][e] = "ok"
      BY Zenon, <1>4, <3>1 DEF Settled
    <3>2. CASE tx[p][e] # "ok" /\ \E q \in Publishers : tx[q][e] = "ok"
      BY Zenon, <1>3, <3>2 DEF Settled
    <3>3. CASE outbox[e] # "pending" /\ tx[p][e] = "none"
      BY Zenon, <1>0, <1>2, <1>4, <2>1, <3>3 DEF Settled, histVars, IInv, ClaimedRowsExclusive
    <3> QED BY Zenon, <2>1, <3>1, <3>2, <3>3 DEF Settled, IInv, ClaimedRowsExclusive
  <2> QED BY SMTT(30), <1>0, <1>1, <2>1 DEF IInv, streamVars, CopyBudget, InFlight, TypeOK
<1> QED BY <1>6, <1>7, <1>8, <1>9, <1>10, <1>11, <1>12 DEF IInv

LEMMA cleanupIInv == IInv /\ cleanupOldEvents => IInv'
<1> SUFFICES ASSUME IInv, cleanupOldEvents PROVE IInv'
  OBVIOUS
<1>0. UNCHANGED <<attempts, transient, due, keep, dlq, tx, age, polled, streamVars,
                  histVars, crashes, lostAcks, replays>>
  BY Zenon DEF cleanupOldEvents
<1>1. /\ outbox' \in [Events -> {"absent", "pending", "published"}]
      /\ \A e \in Events : \/ outbox'[e] = outbox[e]
                           \/ outbox[e] = "published" /\ outbox'[e] = "absent"
      /\ TypeOK
  BY Zenon DEF cleanupOldEvents, Expired, IInv, TypeOK
<1>2. TypeOK'
  BY ZenonT(60), <1>0, <1>1 DEF streamVars, histVars, TypeOK
<1>3. OneHome' /\ ClaimedRowsExclusive' /\ Provenance' /\ NoEventLost'
  BY <1>0, <1>1 DEF IInv, streamVars, histVars, OneHome, ClaimedRowsExclusive,
                    Provenance, NoEventLost, TypeOK
<1>4. /\ AttemptsAreRefusals' /\ DeadOnlyByRefusal' /\ WindowStored' /\ Recorded'
      /\ RetriesLeft'
  BY <1>0 DEF IInv, streamVars, histVars, AttemptsAreRefusals, DeadOnlyByRefusal,
              WindowStored, Recorded, RetriesLeft
<1>5. CopyBudget'
  <2>1. \A e \in Events : Settled(e)' <=> Settled(e)
    BY <1>0, <1>1 DEF IInv, Settled, Provenance, OneHome, histVars
  <2> QED BY Zenon, <1>0, <2>1 DEF IInv, streamVars, CopyBudget, InFlight
<1> QED BY <1>2, <1>3, <1>4, <1>5 DEF IInv

LEMMA ReplayIInv ==
  ASSUME IInv, NEW S \in SUBSET Events, ReplayDLQ(S)
  PROVE  IInv'
<1>0. /\ UNCHANGED <<keep, tx, age, polled, streamVars, accepted, crashes, lostAcks>>
      /\ dlq' = dlq \ S /\ replays' = replays + 1 /\ S \subseteq dlq
  BY Zenon DEF ReplayDLQ
<1>1. /\ outbox' \in [Events -> {"absent", "pending", "published"}]
      /\ attempts' \in [Events -> Nat] /\ transient' \in [Events -> Nat]
      /\ due' \in [Events -> 0..MaxBackoff] /\ rejected' \in [Events -> Nat] /\ TypeOK
  BY SMTT(30), LimitsAssumption DEF ReplayDLQ, IInv, TypeOK
<1>2. \A e \in Events :
        /\ outbox'[e] = IF e \in S THEN "pending" ELSE outbox[e]
        /\ attempts'[e] = IF e \in S THEN 0 ELSE attempts[e]
        /\ rejected'[e] = IF e \in S THEN 0 ELSE rejected[e]
  BY Zenon DEF ReplayDLQ
<1>3. \A e \in S : e \in Events /\ outbox[e] = "absent" /\ e \in accepted
                   /\ \A p \in Publishers : tx[p][e] = "none"
  BY Zenon, <1>0 DEF IInv, OneHome, ClaimedRowsExclusive, Provenance
<1>4. TypeOK'
  BY SMTT(30), <1>0, <1>1 DEF streamVars, TypeOK
<1>5. OneHome' /\ Provenance' /\ NoEventLost' /\ WindowStored'
  BY ZenonT(60), <1>0, <1>2, <1>3 DEF IInv, streamVars, OneHome, Provenance, NoEventLost, WindowStored,
                          TypeOK
<1>6. ClaimedRowsExclusive'
  BY <1>0, <1>2 DEF IInv, ClaimedRowsExclusive
<1>7. AttemptsAreRefusals' /\ DeadOnlyByRefusal'
  <2>1. 0 <= 0 /\ 0 < MaxAttempts
    BY ONLY LimitsAssumption
  <2>2. AttemptsAreRefusals'
    BY Zenon, <1>2, <2>1 DEF IInv, AttemptsAreRefusals
  <2>3. \A e \in dlq' : e \in Events /\ e \in dlq /\ rejected'[e] = rejected[e]
    BY Zenon, <1>0, <1>1, <1>2 DEF TypeOK
  <2>4. DeadOnlyByRefusal'
    BY Zenon, <2>3 DEF IInv, DeadOnlyByRefusal
  <2> QED BY Zenon, <2>2, <2>4
<1>8. Recorded' /\ RetriesLeft'
  BY Zenon, <1>0, <1>2, <1>3 DEF IInv, streamVars, Recorded, RetriesLeft
<1>9. CopyBudget'
  <2>1. \A e \in Events : Settled(e)' <=> Settled(e)
    BY Zenon, <1>0, <1>2, <1>3 DEF IInv, Settled, Provenance
  <2> QED BY Zenon, <1>0, <2>1 DEF IInv, streamVars, CopyBudget, InFlight
<1> QED BY Zenon, <1>4, <1>5, <1>6, <1>7, <1>8, <1>9 DEF IInv

LEMMA TickIInv == IInv /\ Tick => IInv'
<1> SUFFICES ASSUME IInv, Tick PROVE IInv'
  OBVIOUS
<1>0. UNCHANGED <<outbox, attempts, transient, dlq, tx, stored, histVars, crashes,
                  lostAcks, replays>>
  BY Zenon DEF Tick
<1>1. wire' \subseteq wire /\ TypeOK
  BY Zenon DEF Tick, IInv
<1>2. /\ due' \in [Events -> 0..MaxBackoff] /\ keep' \in [Events -> 0..RetainPublished]
      /\ dup' \in [Events -> Nat] /\ \A e \in Events : dup'[e] <= dup[e]
      /\ age' \in [Publishers -> Nat] /\ polled' \subseteq Publishers
  BY <1>1, LimitsAssumption DEF Tick, Less, TypeOK
<1>3. TypeOK'
  BY Zenon, <1>0, <1>1, <1>2 DEF histVars, TypeOK
<1>4. /\ OneHome' /\ ClaimedRowsExclusive' /\ Provenance' /\ NoEventLost'
      /\ AttemptsAreRefusals' /\ DeadOnlyByRefusal' /\ Recorded' /\ RetriesLeft'
  BY ZenonT(60), <1>0, <1>1 DEF IInv, histVars, OneHome, ClaimedRowsExclusive, Provenance, NoEventLost,
                    AttemptsAreRefusals, DeadOnlyByRefusal, Recorded, RetriesLeft
<1>5. WindowStored'
  BY <1>0, <1>1, <1>2 DEF IInv, WindowStored, TypeOK
<1>6. CopyBudget'
  <2>1. \A e \in Events : Settled(e)' <=> Settled(e)
    BY SMTT(30), <1>0 DEF Settled, histVars
  <2> QED BY <1>0, <1>1, <2>1 DEF IInv, CopyBudget, InFlight, TypeOK
<1> QED BY Zenon, <1>3, <1>4, <1>5, <1>6 DEF IInv

LEMMA StutterIInv == IInv /\ UNCHANGED vars => IInv'
<1> SUFFICES ASSUME IInv, UNCHANGED vars PROVE IInv'
  BY Zenon
<1>2. TypeOK' /\ OneHome' /\ ClaimedRowsExclusive' /\ Provenance' /\ NoEventLost'
  BY Zenon DEF vars, rowVars, streamVars, histVars, IInv, TypeOK, OneHome, ClaimedRowsExclusive,
         Provenance, NoEventLost
<1>3. WindowStored' /\ Recorded' /\ AttemptsAreRefusals' /\ RetriesLeft' /\ DeadOnlyByRefusal'
  BY Zenon DEF vars, rowVars, streamVars, histVars, IInv, WindowStored, Recorded,
         AttemptsAreRefusals, RetriesLeft, DeadOnlyByRefusal
<1>4. CopyBudget'
  BY DEF vars, rowVars, streamVars, histVars, IInv, CopyBudget, InFlight, Settled
<1> QED BY <1>2, <1>3, <1>4 DEF IInv

LEMMA NextIInv == IInv /\ [Next]_vars => IInv'
BY InsertIInv, ArriveIInv, ClaimIInv, publishOneIInv, CommitIInv, RollbackIInv,
   ReplayIInv, cleanupIInv, TickIInv, StutterIInv DEF Next

LEMMA Inductive == Spec => []IInv
BY InitIInv, NextIInv, PTL DEF Spec

-----------------------------------------------------------------------------
(* The safety invariants *)

\* The state keeps its types, whatever the limits and the faults.
THEOREM TypeCorrect == Spec => []TypeOK
<1>1. IInv => TypeOK
  BY DEF IInv
<1> QED BY <1>1, Inductive, PTL

\* No committed event is ever lost (drainBatch, deadLetter, cleanupOldEvents
\* and ReplayDLQ in any interleaving, with any number of crashes and lost
\* acknowledgements).
THEOREM NothingLost == Spec => []NoEventLost
<1>1. IInv => NoEventLost
  BY DEF IInv
<1> QED BY <1>1, Inductive, PTL

\* Replicas work on disjoint rows that are still pending (SKIP LOCKED claims).
THEOREM RowsExclusive == Spec => []ClaimedRowsExclusive
<1>1. IInv => ClaimedRowsExclusive
  BY DEF IInv
<1> QED BY <1>1, Inductive, PTL

\* No event is in outbox and in outbox_dlq at once: the park and the replay
\* delete the row they copy in the same transaction.
THEOREM OneTable == Spec => []OneHome
<1>1. IInv => OneHome
  BY DEF IInv
<1> QED BY <1>1, Inductive, PTL

\* Only refusals by the broker dead-letter an event (review H-13).
THEOREM RefusedBeforeDead == Spec => []DeadOnlyByRefusal
<1>1. IInv => DeadOnlyByRefusal
  BY Zenon DEF IInv
<1> QED BY <1>1, Inductive, PTL

\* Every copy but the first is paid for by a rollback or a lost acknowledgement.
THEOREM CopiesPaidFor == Spec => []CopiesExplained
<1>1. IInv => CopiesExplained
  BY DEF IInv, TypeOK, CopyBudget, InFlight, CopiesExplained
<1> QED BY <1>1, Inductive, PTL

-----------------------------------------------------------------------------
(* The outbox implements the abstract delivery service (its safety part) *)

Delivered == {e \in Events : stored[e] > 0}

\* A copy reaching the stream is an abstract delivery, or changes nothing
\* when the event had been delivered before.
LEMMA StoreDelivers ==
  ASSUME IInv, NEW e \in accepted, Store(e), UNCHANGED <<accepted, dlq>>
  PROVE  [Delivery!DNext]_(Delivery!dvars)
<1>1. e \in Events /\ TypeOK
  BY Zenon DEF IInv, TypeOK
<1>2. /\ stored' \in [Events -> Nat] /\ dup' \in [Events -> Nat]
      /\ \A f \in Events : f # e => stored'[f] = stored[f]
      /\ (stored'[e] = stored[e] /\ dup[e] > 0) \/ stored'[e] = stored[e] + 1
  BY <1>1, StoreEffect
<1>3. CASE stored'[e] = stored[e] \/ e \in Delivered
  <2>1. Delivered' = Delivered
    BY <1>1, <1>2, <1>3 DEF Delivered, TypeOK
  <2> QED BY Zenon, <2>1 DEF Delivered, Delivery!dvars
<1>4. CASE stored'[e] = stored[e] + 1 /\ e \notin Delivered
  <2>1. Delivered' = Delivered \cup {e}
    BY SMTT(30), <1>1, <1>2, <1>4 DEF Delivered, TypeOK
  <2>2. Delivery!Deliver(e)
    BY Zenon, <1>4, <2>1 DEF Delivered, Delivery!Deliver
  <2> QED BY Zenon, <1>1, <2>2 DEF Delivery!DNext
<1> QED BY Zenon, <1>2, <1>3, <1>4

LEMMA CommitBuries ==
  ASSUME IInv, NEW p \in Publishers, Commit(p)
  PROVE  [Delivery!DNext]_(Delivery!dvars)
<1> DEFINE S == {e \in Events : tx[p][e] = "dead"}
<1>1. dlq' = dlq \cup S /\ accepted' = accepted /\ stored' = stored
  BY DEF Commit, streamVars, histVars
<1>2. S \subseteq accepted \ dlq /\ S \in SUBSET Events
  BY DEF IInv, ClaimedRowsExclusive, OneHome, Provenance
<1>3. CASE S = {}
  BY Zenon, <1>1, <1>3 DEF Delivery!dvars
<1>4. CASE S # {}
  <2>1. Delivery!Bury(S)
    BY <1>1, <1>2, <1>4 DEF Delivery!Bury
  <2> QED BY Zenon, <1>2, <2>1 DEF Delivery!DNext
<1> QED BY Zenon, <1>3, <1>4

LEMMA StepRefines == IInv /\ [Next]_vars => [Delivery!DNext]_(Delivery!dvars)
<1> SUFFICES ASSUME IInv, [Next]_vars PROVE [Delivery!DNext]_(Delivery!dvars)
  OBVIOUS
<1>1. ASSUME NEW e \in Events, Insert(e) PROVE Delivery!DNext
  <2>1. Delivery!Accept(e)
    BY Zenon, <1>1 DEF Insert, streamVars, Delivery!Accept
  <2> QED BY Zenon, <2>1 DEF Delivery!DNext
<1>2. ASSUME NEW e \in Events, Arrive(e) PROVE [Delivery!DNext]_(Delivery!dvars)
  <2>1. e \in accepted /\ Store(e) /\ UNCHANGED <<accepted, dlq>>
    BY Zenon, <1>2 DEF Arrive, IInv, Provenance, rowVars, histVars
  <2> QED BY Zenon, <2>1, StoreDelivers
<1>3. ASSUME NEW p \in Publishers, publishOne(p)
      PROVE  [Delivery!DNext]_(Delivery!dvars)
  <2>1. PICK e \in Events : \/ PublishOk(p, e)      \/ PublishTransient(p, e)
                            \/ PublishLostAck(p, e) \/ PublishRejected(p, e)
    BY <1>3 DEF publishOne
  <2>2. CASE PublishOk(p, e)
    <3>1. e \in accepted
      BY <2>2, RowWorkedOn DEF PublishOk
    <3>2. Store(e) /\ UNCHANGED <<accepted, dlq>>
      BY <2>2 DEF PublishOk, rowVars, histVars
    <3> QED BY Zenon, <3>1, <3>2, StoreDelivers
  <2>3. CASE ~PublishOk(p, e)
    <3>1. UNCHANGED <<accepted, dlq, stored>>
      BY <2>1, <2>3 DEF PublishTransient, PublishLostAck, PublishRejected, rowVars,
                        streamVars, histVars
    <3> QED BY Zenon, <3>1 DEF Delivery!dvars
  <2> QED BY <2>2, <2>3
<1>4. ASSUME NEW S \in SUBSET Events, ReplayDLQ(S) PROVE Delivery!DNext
  <2>1. Delivery!Requeue(S)
    BY Zenon, <1>4 DEF ReplayDLQ, streamVars, Delivery!Requeue
  <2> QED BY <2>1 DEF Delivery!DNext
<1>5. ASSUME \/ \E p \in Publishers : Claim(p) \/ Rollback(p)
             \/ cleanupOldEvents \/ Tick \/ UNCHANGED vars
      PROVE  UNCHANGED Delivery!dvars
  <2>1. UNCHANGED <<accepted, dlq, stored>>
    BY <1>5 DEF Claim, Rollback, cleanupOldEvents, Tick, vars, rowVars, streamVars, histVars
  <2> QED BY ZenonT(60), <2>1 DEF Delivery!dvars
<1> QED BY Zenon, <1>1, <1>2, <1>3, <1>4, <1>5, CommitBuries DEF Next

\* Whatever the replicas, the broker and the operator do, the outbox behaves
\* like the delivery service: events are accepted once, delivered only after
\* that, and move in and out of the dead-letter table as a whole.
THEOREM OutboxImplementsDelivery == Spec => Delivery!DSafety
<1>1. Init => Delivery!DInit
  BY DEF Init, Delivery!DInit
<1> QED BY <1>1, StepRefines, Inductive, PTL DEF Spec, Delivery!DSafety
=============================================================================
