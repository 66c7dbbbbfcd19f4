---------------------------- MODULE MCWriterLock ----------------------------
(* Small instances of AdapterStore and of the writer lock below it for TLC. *)
(* AdapterStore takes the lock in one step, so the two are explored side by *)
(* side: a behaviour moves one of them.                                     *)
EXTENDS MCAdapterStore, WriterLock

CONSTANTS p1, p2, t1, t2, t3, t4

MCProcessOf == t1 :> p1 @@ t2 :> p1 @@ t3 :> p2 @@ t4 :> p2

VARIABLE level   \* what moves: "store" or "lock"

LevelInit ==
  /\ level \in {"store", "lock"}
  /\ Init
  /\ LockInit
  /\ level = "store" => scope = "description"

LevelNext ==
  \/ level = "store" /\ Next /\ UNCHANGED <<level, lockVars>>
  \/ level = "lock" /\ LockNext /\ UNCHANGED <<level, vars>>

LevelSpec == LevelInit /\ [][LevelNext]_<<level, vars, lockVars>>
=============================================================================
