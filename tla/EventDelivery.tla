---------------------------- MODULE EventDelivery ----------------------------
(***************************************************************************)
(* What the transactional outbox promises to the rest of the platform,     *)
(* whatever tables, retries and brokers it is built from: an event that a  *)
(* business transaction committed is handed to the broker at least once,   *)
(* or it is parked in the dead-letter table until an operator requeues it. *)
(* Outbox.tla is shown to implement this specification.                    *)
(***************************************************************************)
CONSTANTS Event,        \* event ids
          Deliverable   \* events whose publish does not time out for ever

VARIABLES accepted,     \* events whose business transaction committed
          delivered,    \* events the broker holds at least one copy of
          dead          \* events parked in the dead-letter table

dvars == <<accepted, delivered, dead>>

DInit == accepted = {} /\ delivered = {} /\ dead = {}

Accept(e) ==
  /\ e \notin accepted
  /\ accepted' = accepted \cup {e}
  /\ UNCHANGED <<delivered, dead>>

Deliver(e) ==
  /\ e \in accepted \ delivered
  /\ delivered' = delivered \cup {e}
  /\ UNCHANGED <<accepted, dead>>

\* One drain transaction may park several events at once.
Bury(S) ==
  /\ S # {} /\ S \subseteq accepted \ dead
  /\ dead' = dead \cup S
  /\ UNCHANGED <<accepted, delivered>>

Requeue(S) ==
  /\ S # {} /\ S \subseteq dead
  /\ dead' = dead \ S
  /\ UNCHANGED <<accepted, delivered>>

DNext ==
  \/ \E e \in Event : Accept(e) \/ Deliver(e)
  \/ \E S \in SUBSET Event : Bury(S) \/ Requeue(S)

\* An accepted event that is neither with the broker nor parked is settled.
Settle(e) ==
  /\ e \notin delivered \cup dead
  /\ \/ Deliver(e)
     \/ \E S \in SUBSET Event : e \in S /\ Bury(S)

DSafety == DInit /\ [][DNext]_dvars

DSpec == DSafety /\ \A e \in Deliverable : WF_dvars(Settle(e))
=============================================================================
