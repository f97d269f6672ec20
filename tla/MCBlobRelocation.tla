-------------------------- MODULE MCBlobRelocation --------------------------
(* Instances of BlobRelocation for TLC. *)
EXTENDS BlobRelocation, TLC

Symmetry == Permutations(Calls)
=============================================================================
