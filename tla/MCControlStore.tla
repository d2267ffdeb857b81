--------------------------- MODULE MCControlStore ---------------------------
(* ControlStore on small instances; see README.md for the bounds. *)
EXTENDS ControlStore, TLC

\* The store only compares digests: any permutation of them is a symmetry.
DigestSymmetry == Permutations(Digests)
=============================================================================
