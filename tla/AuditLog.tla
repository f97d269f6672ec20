------------------------------ MODULE AuditLog ------------------------------
(***************************************************************************)
(* What a tenant is promised about its audit trail, whatever replicas,     *)
(* transactions and rewrites it is built from: entries are recorded one at *)
(* a time, each dated after all others, and stay as they were recorded. A  *)
(* rewrite gives them other links, an erasure also hides the subject, and  *)
(* both leave an entry of their own. AuditChain.tla implements this.       *)
(***************************************************************************)
EXTENDS Naturals

CONSTANTS Origins  \* trails that older builds may have left

VARIABLES entries  \* records: id, at, of, by and link

\* What an entry says, and what it says once the subject is hidden.
Said(E)   == {[id |-> e.id, at |-> e.at, of |-> e.of, by |-> e.by] : e \in E}
Hidden(E) == {[id |-> e.id, at |-> e.at, of |-> e.of,
               by |-> IF e.by = "subject" THEN "REDACTED" ELSE e.by] : e \in E}

\* m comes after all others.
Latest(m) == \A e \in entries : e.at < m.at /\ e.id # m.id

Record == \E m \in entries' : Latest(m) /\ entries' = entries \cup {m}

Relink ==
  \E m \in entries' :
    Latest(m) /\ m.of = "none" /\ Said(entries' \ {m}) = Said(entries)

Erase ==
  \E m \in entries' :
    Latest(m) /\ m.of = "none" /\ Said(entries' \ {m}) = Hidden(entries)

LInit == entries \in Origins
LNext == Record \/ Relink \/ Erase
LSpec == LInit /\ [][LNext]_entries
=============================================================================
