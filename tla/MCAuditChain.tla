--------------------------- MODULE MCAuditChain ---------------------------
(* Instances of AuditChain for TLC. *)
EXTENDS AuditChain, TLC

\* The data subject's events are of an older build, or denials; those of the
\* stream are somebody else's, and come after them in the chain.
MCBy == [m \in Messages |-> "other"]

\* Processes are interchangeable (safety runs only).
Symmetry == Permutations(Procs)
=============================================================================
