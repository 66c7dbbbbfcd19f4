---------------------------- MODULE MCIdMapIndex ----------------------------
(* A small instance of both ID layers and their searches for TLC. *)
EXTENDS RecordSearch, TLC

CONSTANTS v1, v2, nan, q1, q2, a, b

\* q1 ranks v1 first by both measures, q2 ranks v2 first but its signs agree
\* with v1.
MCRankScore == q1 :> (v1 :> 2 @@ v2 :> 1) @@ q2 :> (v1 :> 1 @@ v2 :> 2)
MCSignScore == q1 :> (v1 :> 2 @@ v2 :> 1) @@ q2 :> (v1 :> 2 @@ v2 :> 1)

MCTwoStage == {FixedCandidates(0), FixedCandidates(2),
               [min |-> 0, multiplier |-> 0, max |-> NoMax],
               [min |-> 0, multiplier |-> 1, max |-> NoMax], DefaultOptions}
=============================================================================
