-------------------------------- MODULE Vec --------------------------------
(***************************************************************************)
(* A Rust Vec: its length and its elements, indexed from 0 like the slots  *)
(* of the index.                                                           *)
(***************************************************************************)
EXTENDS Integers

Slots(n) == 0..(n - 1)
IsVec(v, S) == /\ v = [len |-> v.len, at |-> v.at]
               /\ v.len \in Nat
               /\ v.at \in [Slots(v.len) -> S]
EmptyVec == [len |-> 0, at |-> [i \in Slots(0) |-> 0]]

\* Vec::extend_from_slice with the n elements of s
Extend(v, n, s) ==
  [len |-> v.len + n,
   at |-> [i \in Slots(v.len + n) |-> IF i < v.len THEN v.at[i] ELSE s[i - v.len]]]

\* Vec::swap_remove: the last element takes the place of element i
SwapRemove(v, i) ==
  [len |-> v.len - 1,
   at |-> [k \in Slots(v.len - 1) |-> IF k = i THEN v.at[v.len - 1] ELSE v.at[k]]]
=============================================================================
