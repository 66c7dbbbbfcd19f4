--------------------------- MODULE MCAdapterStore ---------------------------
(* Small instances of AdapterStore for TLC. *)
EXTENDS AdapterStore, TLC

CONSTANTS w1, w2,   \* writers
          r1,       \* Rust client
          c1, c2    \* collectors

\* Collectors are interchangeable in the runs that have two of them.
CollectorSymmetry == Permutations(Collectors)
=============================================================================
