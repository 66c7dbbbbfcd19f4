----------------------------- MODULE MCBundleIO -----------------------------
(* Small instances of BundleIO for TLC. *)
EXTENDS BundleIO, TLC

CONSTANTS w1, w2, r1

\* Bundles 1, 2 and 3 have the same shape; a fourth one differs.
SomeRows == [b \in 1..MaxBundles |-> IF b <= 3 THEN 2 ELSE 3]
Symmetry == Permutations(Writers)
=============================================================================
