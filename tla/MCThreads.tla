------------------------------ MODULE MCThreads ------------------------------
(***************************************************************************)
(* Small instances of the re-entrant mutex, of a semaphore and of the      *)
(* start and shutdown, in one state space: a behaviour picks the part that *)
(* moves, and the others stay in their initial state, where fairness asks  *)
(* nothing of them.                                                        *)
(***************************************************************************)
EXTENDS RecursiveMutex, Semaphore, Startup

VARIABLE component
threadsVars == <<component, mutexVars, semaphoreVars, vars>>

ThreadsInit == component \in {"mutex", "semaphore", "startup"} /\ MutexInit /\ SemaphoreInit /\ Init

MutexStep == component = "mutex" /\ MutexNext /\ UNCHANGED <<component, semaphoreVars, vars>>
SemaphoreStep == component = "semaphore" /\ SemaphoreNext /\ UNCHANGED <<component, mutexVars, vars>>
StartupStep == component = "startup" /\ Next /\ UNCHANGED <<component, mutexVars, semaphoreVars>>

ThreadsNext == MutexStep \/ SemaphoreStep \/ StartupStep

ThreadsSpec ==
  /\ ThreadsInit /\ [][ThreadsNext]_threadsVars
  /\ MutexFairness /\ SemaphoreFairness /\ Fairness
=============================================================================
