----------------------------- MODULE WriterLock -----------------------------
(***************************************************************************)
(* WriterLockGuard (ordinaldb-adapter-store/src/lib.rs): the lock that     *)
(* AdapterStore has as one variable is made of a registry in each process  *)
(* and an advisory OS lock on one file, taken and given back in several    *)
(* steps by the threads of several processes.                              *)
(*                                                                         *)
(* An OS lock belongs to the open file description, as with flock, or to   *)
(* the process, as with fcntl: then a process is granted the lock it       *)
(* already has, and closing any of its descriptors of the file drops it.   *)
(***************************************************************************)
CONSTANTS
  Processes,
  Threads,
  ProcessOf,    \* thread -> its process
  NoOwner       \* the OS lock is free

ASSUME LockProcesses == ProcessOf \in [Threads -> Processes]
ASSUME LockNoOwner == NoOwner \notin Processes \cup Threads

VARIABLES
  scope,        \* "description" or "process": what an OS lock belongs to
  registry,     \* the processes whose held_writer_locks has the path
  osLock,       \* owner of the OS lock
  at            \* thread -> where it is in acquire or release

lockVars == <<scope, registry, osLock, at>>

Owner(t) == IF scope = "description" THEN t ELSE ProcessOf[t]

LockInit ==
  /\ scope \in {"description", "process"}
  /\ registry = {}
  /\ osLock = NoOwner
  /\ at = [t \in Threads |-> "idle"]

Move(t, from, to) == at[t] = from /\ at' = [at EXCEPT ![t] = to]

-----------------------------------------------------------------------------
(* acquire *)

\* Mutant: the path is registered without looking whether it is.
ReserveUnchecked(t) ==
  /\ Move(t, "idle", "reserved")
  /\ registry' = registry \cup {ProcessOf[t]}
  /\ UNCHANGED <<scope, osLock>>

\* reserve_writer_lock_registration; refused, it changes nothing.
Reserve(t) ==
  /\ Move(t, "idle", "reserved")
  /\ ProcessOf[t] \notin registry
  /\ registry' = registry \cup {ProcessOf[t]}
  /\ UNCHANGED <<scope, osLock>>

\* OpenOptions::open, which may fail
OpenLockFile(t) ==
  /\ Move(t, "reserved", "opened") \/ Move(t, "reserved", "rollback")
  /\ UNCHANGED <<scope, registry, osLock>>

\* FileExt::try_lock: granted, or WouldBlock
TryLock(t) ==
  /\ \/ osLock \in {NoOwner, Owner(t)} /\ osLock' = Owner(t) /\ Move(t, "opened", "stamping")
     \/ osLock \notin {NoOwner, Owner(t)} /\ UNCHANGED osLock /\ Move(t, "opened", "refused")
  /\ UNCHANGED <<scope, registry>>

\* set_len, the stamp and the two fsyncs, each of which may fail
Stamp(t) ==
  /\ Move(t, "stamping", "held") \/ Move(t, "stamping", "refused")
  /\ UNCHANGED <<scope, registry, osLock>>

\* The close of a descriptor: what it or its process owns is dropped.
Closed(t) == osLock' = IF osLock = Owner(t) THEN NoOwner ELSE osLock

\* lock_and_stamp returns an error: its file goes out of scope.
CloseRefused(t) ==
  /\ Move(t, "refused", "rollback")
  /\ Closed(t)
  /\ UNCHANGED <<scope, registry>>

RollBack(t) ==
  /\ Move(t, "rollback", "idle")
  /\ registry' = registry \ {ProcessOf[t]}
  /\ UNCHANGED <<scope, osLock>>

-----------------------------------------------------------------------------
(* release: the file is closed at the end of the block, after the path has  *)
(* left the registry.                                                       *)

Unlock(t) ==
  /\ Move(t, "held", "unlocked")
  /\ osLock' = IF osLock = Owner(t) THEN NoOwner ELSE osLock
  /\ UNCHANGED <<scope, registry>>

Unregister(t) ==
  /\ Move(t, "unlocked", "closing")
  /\ registry' = registry \ {ProcessOf[t]}
  /\ UNCHANGED <<scope, osLock>>

CloseReleased(t) ==
  /\ Move(t, "closing", "idle")
  /\ Closed(t)
  /\ UNCHANGED <<scope, registry>>

\* A process dies, with its descriptors and its registry, and starts again.
Die(p) ==
  LET dead == {t \in Threads : ProcessOf[t] = p}
  IN /\ \E t \in dead : at[t] # "idle"
     /\ at' = [t \in Threads |-> IF t \in dead THEN "idle" ELSE at[t]]
     /\ registry' = registry \ {p}
     /\ osLock' = IF osLock \in {Owner(t) : t \in dead} THEN NoOwner ELSE osLock
     /\ UNCHANGED scope

-----------------------------------------------------------------------------
LockNext ==
  \/ \E t \in Threads :
       \/ Reserve(t) \/ OpenLockFile(t) \/ TryLock(t) \/ Stamp(t)
       \/ CloseRefused(t) \/ RollBack(t)
       \/ Unlock(t) \/ Unregister(t) \/ CloseReleased(t)
  \/ \E p \in Processes : Die(p)

LockSpec == LockInit /\ [][LockNext]_lockVars

-----------------------------------------------------------------------------
(* Properties *)

\* Two threads never hold the writer lock of one root, except threads of two
\* processes where OS locks are per process: there the late close of a release
\* can drop the lock that another thread of its process has just taken.
WriterExclusion ==
  \A t, u \in Threads :
    at[t] = "held" /\ at[u] = "held" /\ t # u
      => scope = "process" /\ ProcessOf[t] # ProcessOf[u]

\* An acquisition that fails, at whatever step, never costs the holder its OS
\* lock: the registry keeps a thread from even opening the file that another
\* thread of its process has locked.
RefusalKeepsHolder ==
  [][\A t, u \in Threads :
       /\ at[t] \in {"refused", "rollback"} /\ at'[t] # at[t]
       /\ at[u] = "held" /\ at'[u] = "held" /\ osLock = Owner(u)
       => osLock' = osLock]_lockVars
=============================================================================
