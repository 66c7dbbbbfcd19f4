--------------------------- MODULE VersionedStore ---------------------------
(***************************************************************************)
(* What the adapter store promises the processes that share it: one        *)
(* versioned value.  Every session remembers the revision it last observed *)
(* and may replace the value only while that revision is the current one;  *)
(* each commit takes the next revision number.  Bookkeeping commits leave  *)
(* the value alone.                                                        *)
(***************************************************************************)
EXTENDS Naturals

CONSTANTS Sessions, Values, InitialValue

VARIABLES
  revision,   \* the current revision number, 0 before the first commit
  value,      \* the committed value
  base        \* the revision each session holds, 0 for none

Init ==
  /\ revision = 0
  /\ value = InitialValue
  /\ base = [s \in Sessions |-> 0]

\* A session reads the current revision ...
Observe(s) ==
  /\ base' = [base EXCEPT ![s] = revision]
  /\ UNCHANGED <<revision, value>>

\* ... or gives up the one it holds.
Forget(s) ==
  /\ base' = [base EXCEPT ![s] = 0]
  /\ UNCHANGED <<revision, value>>

\* A commit from the current revision.  Its caller learns the new revision
\* unless the answer is lost.
Commit(s, v) ==
  /\ base[s] = revision
  /\ revision' = revision + 1
  /\ value' = v
  /\ base' \in {base, [base EXCEPT ![s] = revision + 1]}

Next ==
  \E s \in Sessions : Observe(s) \/ Forget(s) \/ \E v \in Values : Commit(s, v)

Spec == Init /\ [][Next]_<<revision, value, base>>
=============================================================================
