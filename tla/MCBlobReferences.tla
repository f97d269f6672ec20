-------------------------- MODULE MCBlobReferences --------------------------
(* Instances of BlobReferences for TLC: documents are model values, blobs    *)
(* numbers; symmetry is used for safety only.                                *)
EXTENDS BlobReferences, TLC

Symmetry == Permutations(Docs)
=============================================================================
