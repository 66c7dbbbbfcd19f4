-------------------------- MODULE WriterLockProofs --------------------------
(***************************************************************************)
(* Proofs about WriterLock for any processes and threads.  A thread whose  *)
(* path is registered is the only one of its process; with locks that      *)
(* belong to the open file the OS lock is that of the thread that took it  *)
(* until this thread gives it back.                                        *)
(***************************************************************************)
EXTENDS WriterLock, TLAPS

\* Where a thread has its process's registration
Registered == {"reserved", "opened", "stamping", "refused", "rollback", "held", "unlocked"}

LockTypeOK ==
  /\ scope \in {"description", "process"}
  /\ registry \subseteq Processes
  /\ osLock \in Processes \cup Threads \cup {NoOwner}
  /\ at \in [Threads -> Registered \cup {"idle", "closing"}]

OnePerProcess ==
  \A t, u \in Threads :
    at[t] \in Registered /\ at[u] \in Registered /\ ProcessOf[t] = ProcessOf[u] => t = u

RegisteredAreListed == \A t \in Threads : at[t] \in Registered => ProcessOf[t] \in registry

LockIsOwned ==
  scope = "description" =>
    \A t \in Threads : at[t] \in {"stamping", "held"} => osLock = t

LockInv == LockTypeOK /\ OnePerProcess /\ RegisteredAreListed /\ LockIsOwned

LEMMA LockInitInv == LockInit => LockInv
  BY DEF LockInit, LockInv, LockTypeOK, OnePerProcess, RegisteredAreListed, LockIsOwned, Registered

LEMMA OwnerTyped == ASSUME LockTypeOK, NEW t \in Threads
                    PROVE  Owner(t) \in Processes \cup Threads
  BY LockProcesses DEF Owner, LockTypeOK

LEMMA LockStepType == LockTypeOK /\ LockNext => LockTypeOK'
<1> SUFFICES ASSUME LockTypeOK, LockNext PROVE LockTypeOK'
  OBVIOUS
<1> USE DEF LockTypeOK, Registered
<1>1. ASSUME NEW t \in Threads, Reserve(t) PROVE LockTypeOK'
  BY <1>1, LockProcesses DEF Reserve, Move
<1>2. ASSUME NEW t \in Threads, OpenLockFile(t) PROVE LockTypeOK'
  BY <1>2 DEF OpenLockFile, Move
<1>3. ASSUME NEW t \in Threads, TryLock(t) PROVE LockTypeOK'
  BY <1>3, OwnerTyped DEF TryLock, Move
<1>4. ASSUME NEW t \in Threads, Stamp(t) PROVE LockTypeOK'
  BY <1>4 DEF Stamp, Move
<1>5. ASSUME NEW t \in Threads, CloseRefused(t) PROVE LockTypeOK'
  BY <1>5 DEF CloseRefused, Closed, Move
<1>6. ASSUME NEW t \in Threads, RollBack(t) PROVE LockTypeOK'
  BY <1>6 DEF RollBack, Move
<1>7. ASSUME NEW t \in Threads, Unlock(t) PROVE LockTypeOK'
  BY <1>7 DEF Unlock, Move
<1>8. ASSUME NEW t \in Threads, Unregister(t) PROVE LockTypeOK'
  BY <1>8 DEF Unregister, Move
<1>9. ASSUME NEW t \in Threads, CloseReleased(t) PROVE LockTypeOK'
  BY <1>9 DEF CloseReleased, Closed, Move
<1>10. ASSUME NEW p \in Processes, Die(p) PROVE LockTypeOK'
  BY <1>10 DEF Die
<1> QED BY <1>1, <1>2, <1>3, <1>4, <1>5, <1>6, <1>7, <1>8, <1>9, <1>10 DEF LockNext

\* The registry: only Reserve puts a thread among the registered.
LEMMA RegistryStep ==
  ASSUME LockInv, LockNext
  PROVE  OnePerProcess' /\ RegisteredAreListed'
<1> USE DEF LockInv, LockTypeOK, OnePerProcess, RegisteredAreListed, Registered
<1>1. ASSUME NEW t \in Threads, Reserve(t) PROVE OnePerProcess' /\ RegisteredAreListed'
  BY <1>1 DEF Reserve, Move
<1>2. ASSUME NEW t \in Threads, OpenLockFile(t) PROVE OnePerProcess' /\ RegisteredAreListed'
  BY <1>2 DEF OpenLockFile, Move
<1>3. ASSUME NEW t \in Threads, TryLock(t) PROVE OnePerProcess' /\ RegisteredAreListed'
  BY <1>3 DEF TryLock, Move
<1>4. ASSUME NEW t \in Threads, Stamp(t) PROVE OnePerProcess' /\ RegisteredAreListed'
  BY <1>4 DEF Stamp, Move
<1>5. ASSUME NEW t \in Threads, CloseRefused(t) PROVE OnePerProcess' /\ RegisteredAreListed'
  BY <1>5 DEF CloseRefused, Move
<1>6. ASSUME NEW t \in Threads, RollBack(t) PROVE OnePerProcess' /\ RegisteredAreListed'
  BY <1>6 DEF RollBack, Move
<1>7. ASSUME NEW t \in Threads, Unlock(t) PROVE OnePerProcess' /\ RegisteredAreListed'
  BY <1>7 DEF Unlock, Move
<1>8. ASSUME NEW t \in Threads, Unregister(t) PROVE OnePerProcess' /\ RegisteredAreListed'
  BY <1>8 DEF Unregister, Move
<1>9. ASSUME NEW t \in Threads, CloseReleased(t) PROVE OnePerProcess' /\ RegisteredAreListed'
  BY <1>9 DEF CloseReleased, Move
<1>10. ASSUME NEW p \in Processes, Die(p) PROVE OnePerProcess' /\ RegisteredAreListed'
  BY <1>10 DEF Die
<1> QED BY <1>1, <1>2, <1>3, <1>4, <1>5, <1>6, <1>7, <1>8, <1>9, <1>10 DEF LockNext

\* With a lock per open file, only its owner gives it back.
LEMMA OwnedStep ==
  ASSUME LockInv, LockNext
  PROVE  LockIsOwned'
<1> SUFFICES ASSUME scope = "description", scope' = scope PROVE LockIsOwned'
  <2>1. scope' = scope
    BY DEF LockNext, Reserve, OpenLockFile, TryLock, Stamp, CloseRefused, RollBack, Unlock,
           Unregister, CloseReleased, Die
  <2> QED BY <2>1 DEF LockIsOwned
<1> USE DEF LockInv, LockTypeOK, LockIsOwned, Registered
<1>0. NoOwner \notin Threads /\ \A t \in Threads : Owner(t) = t
  BY LockNoOwner DEF Owner
<1>1. ASSUME NEW t \in Threads, Reserve(t) PROVE LockIsOwned'
  BY <1>1 DEF Reserve, Move
<1>2. ASSUME NEW t \in Threads, OpenLockFile(t) PROVE LockIsOwned'
  BY <1>2 DEF OpenLockFile, Move
<1>3. ASSUME NEW t \in Threads, TryLock(t) PROVE LockIsOwned'
  BY <1>0, <1>3 DEF TryLock, Move
<1>4. ASSUME NEW t \in Threads, Stamp(t) PROVE LockIsOwned'
  BY <1>4 DEF Stamp, Move
<1>5. ASSUME NEW t \in Threads, CloseRefused(t) PROVE LockIsOwned'
  BY <1>0, <1>5 DEF CloseRefused, Closed, Move
<1>6. ASSUME NEW t \in Threads, RollBack(t) PROVE LockIsOwned'
  BY <1>6 DEF RollBack, Move
<1>7. ASSUME NEW t \in Threads, Unlock(t) PROVE LockIsOwned'
  BY <1>0, <1>7 DEF Unlock, Move
<1>8. ASSUME NEW t \in Threads, Unregister(t) PROVE LockIsOwned'
  BY <1>8 DEF Unregister, Move
<1>9. ASSUME NEW t \in Threads, CloseReleased(t) PROVE LockIsOwned'
  BY <1>0, <1>9 DEF CloseReleased, Closed, Move
<1>10. ASSUME NEW p \in Processes, Die(p) PROVE LockIsOwned'
  BY <1>0, <1>10 DEF Die
<1> QED BY <1>1, <1>2, <1>3, <1>4, <1>5, <1>6, <1>7, <1>8, <1>9, <1>10 DEF LockNext

LEMMA LockStepInv == LockInv /\ [LockNext]_lockVars => LockInv'
<1>1. LockInv /\ LockNext => LockInv'
  BY LockStepType, RegistryStep, OwnedStep DEF LockInv
<1>2. LockInv /\ UNCHANGED lockVars => LockInv'
  BY DEF LockInv, LockTypeOK, OnePerProcess, RegisteredAreListed, LockIsOwned, lockVars
<1> QED BY <1>1, <1>2

\* The promise of WriterLockGuard for any number of processes and threads.
THEOREM LockExcludes == LockSpec => []WriterExclusion
<1>1. LockInv => WriterExclusion
  BY DEF LockInv, LockTypeOK, OnePerProcess, LockIsOwned, WriterExclusion, Registered
<1> QED BY <1>1, LockInitInv, LockStepInv, PTL DEF LockSpec

\* A failing acquisition leaves the holder's OS lock alone, whichever scope OS
\* locks have.
THEOREM LockRefusalHarmless == LockSpec => RefusalKeepsHolder
<1> DEFINE Harmless ==
      \A t, u \in Threads :
        /\ at[t] \in {"refused", "rollback"} /\ at'[t] # at[t]
        /\ at[u] = "held" /\ at'[u] = "held" /\ osLock = Owner(u)
        => osLock' = osLock
<1>1. LockInv /\ [LockNext]_lockVars => [Harmless]_lockVars
  <2> SUFFICES ASSUME LockInv, LockNext,
                      NEW t \in Threads, NEW u \in Threads,
                      at[t] \in {"refused", "rollback"}, at'[t] # at[t],
                      at[u] = "held", at'[u] = "held", osLock = Owner(u)
               PROVE  osLock' = osLock
    OBVIOUS
  <2>1. t # u /\ Owner(t) # Owner(u)
    BY DEF LockInv, OnePerProcess, Registered, Owner
  <2>2. CASE CloseRefused(t)
    BY <2>1, <2>2 DEF CloseRefused, Closed
  <2>3. CASE RollBack(t)
    BY <2>3 DEF RollBack
  <2>4. ASSUME NEW p \in Processes, Die(p) PROVE osLock' = osLock
    <3>1. ProcessOf[u] # p
      BY <2>4 DEF Die
    <3>2. \A v \in Threads : ProcessOf[v] = p => Owner(v) # Owner(u)
      BY <3>1 DEF Owner
    <3> QED BY <2>4, <3>2 DEF Die
  <2> QED
    BY <2>2, <2>3, <2>4 DEF LockNext, Reserve, OpenLockFile, TryLock, Stamp,
       CloseRefused, RollBack, Unlock, Unregister, CloseReleased, Move, LockInv, LockTypeOK
<1> QED BY <1>1, LockInitInv, LockStepInv, PTL DEF LockSpec, RefusalKeepsHolder
=============================================================================
