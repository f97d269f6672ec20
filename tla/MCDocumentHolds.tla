-------------------------- MODULE MCDocumentHolds --------------------------
(* DocumentHolds on small sets of documents, holds and transactions. *)
EXTENDS DocumentHolds, TLC

Symmetry == Permutations(Holds) \cup Permutations(Txs)
=============================================================================
