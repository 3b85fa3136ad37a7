--------------------------- MODULE RecursiveMutex ---------------------------
(***************************************************************************)
(* The re-entrant mutexes that the kernel builds from pthreads mutexes,    *)
(* which are not re-entrant (MUTEX_LOCK and MUTEX_UNLOCK of                *)
(* src/kernel/thread.h, Posix section).  A lock that cannot be had at once *)
(* reads the owner field with no protection at all to find out whether the *)
(* caller is its owner; one action is one access to the shared fields.     *)
(***************************************************************************)
EXTENDS Integers

CONSTANTS Threads, NoThread,
          MaxDepth          \* bound: nesting up to which a thread locks

ASSUME MutexAssumption == NoThread \notin Threads /\ MaxDepth \in Nat \ {0}

VARIABLES held,       \* the thread that holds the pthreads mutex
          owner,      \* krnlData->nameMutexOwner
          lockcount,  \* krnlData->nameMutexLockcount
          pc,         \* where each thread is in MUTEX_LOCK or MUTEX_UNLOCK
          depth       \* locks that each thread has to undo

mutexVars == <<held, owner, lockcount, pc, depth>>

ThreadAt(t, from, to) == pc[t] = from /\ pc' = [pc EXCEPT ![t] = to]

(* pthread_mutex_trylock() *)
TryLock(t) ==
  /\ depth[t] < MaxDepth
  /\ \/ held = NoThread /\ ThreadAt(t, "idle", "locked") /\ held' = t
     \/ held # NoThread /\ ThreadAt(t, "idle", "check") /\ held' = held
  /\ UNCHANGED <<owner, lockcount, depth>>

(* THREAD_IS_CURRENT( nameMutexOwner ), and the increment if it is *)
CheckOwner(t) ==
  /\ \/ owner = t /\ ThreadAt(t, "check", "locked") /\ lockcount' = lockcount + 1
     \/ owner # t /\ ThreadAt(t, "check", "blocked") /\ lockcount' = lockcount
  /\ UNCHANGED <<held, owner, depth>>

(* pthread_mutex_lock() returns. *)
Lock(t) ==
  /\ held = NoThread
  /\ ThreadAt(t, "blocked", "locked")
  /\ held' = t
  /\ UNCHANGED <<owner, lockcount, depth>>

(* The last statement of MUTEX_LOCK, on every path. *)
SetOwner(t) ==
  /\ ThreadAt(t, "locked", "idle")
  /\ owner' = t
  /\ depth' = [depth EXCEPT ![t] = @ + 1]
  /\ UNCHANGED <<held, lockcount>>

\* Mutant: a nested unlock does not count.
UnlockNestedUncounted(t) ==
  /\ depth[t] > 0 /\ lockcount > 0
  /\ ThreadAt(t, "idle", "idle")
  /\ depth' = [depth EXCEPT ![t] = @ - 1]
  /\ UNCHANGED <<held, owner, lockcount>>

UnlockNested(t) ==
  /\ depth[t] > 0 /\ lockcount > 0
  /\ ThreadAt(t, "idle", "idle")
  /\ lockcount' = lockcount - 1
  /\ depth' = [depth EXCEPT ![t] = @ - 1]
  /\ UNCHANGED <<held, owner>>

\* Mutant: the owner stays when the mutex is given up.
ClearOwnerNot(t) ==
  /\ depth[t] > 0 /\ lockcount = 0
  /\ ThreadAt(t, "idle", "release")
  /\ depth' = [depth EXCEPT ![t] = @ - 1]
  /\ UNCHANGED <<held, owner, lockcount>>

ClearOwner(t) ==
  /\ depth[t] > 0 /\ lockcount = 0
  /\ ThreadAt(t, "idle", "release")
  /\ owner' = NoThread
  /\ depth' = [depth EXCEPT ![t] = @ - 1]
  /\ UNCHANGED <<held, lockcount>>

(* pthread_mutex_unlock() *)
Release(t) ==
  /\ ThreadAt(t, "release", "idle")
  /\ held' = NoThread
  /\ UNCHANGED <<owner, lockcount, depth>>

Acquiring(t) == TryLock(t) \/ CheckOwner(t) \/ Lock(t) \/ SetOwner(t)
Unlocking(t) == UnlockNested(t) \/ ClearOwner(t) \/ Release(t)

MutexInit ==
  /\ held = NoThread /\ owner = NoThread /\ lockcount = 0
  /\ pc = [t \in Threads |-> "idle"]
  /\ depth = [t \in Threads |-> 0]

MutexNext == \E t \in Threads : Acquiring(t) \/ Unlocking(t)

(* The operating system schedules every thread and hands a mutex that is   *)
(* given up again and again to every waiter some time; nobody has to lock, *)
(* to unlock or to nest.                                                   *)
MutexFairness == \A t \in Threads :
  /\ WF_mutexVars(CheckOwner(t)) /\ WF_mutexVars(SetOwner(t)) /\ WF_mutexVars(Release(t))
  /\ SF_mutexVars(Lock(t))

MutexSpec == MutexInit /\ [][MutexNext]_mutexVars

-----------------------------------------------------------------------------

MutexTypeOK ==
  /\ held \in Threads \union {NoThread} /\ owner \in Threads \union {NoThread}
  /\ lockcount \in Nat
  /\ pc \in [Threads -> {"idle", "check", "blocked", "locked", "release"}]
  /\ depth \in [Threads -> Nat]

Within(t) == depth[t] > 0 \/ pc[t] \in {"locked", "release"}

(* Whatever the unprotected reads of the owner field return, at most one   *)
(* thread has locked the mutex and not unlocked it (MUTEX_LOCK).           *)
MutualExclusion == \A t, u \in Threads : depth[t] > 0 /\ depth[u] > 0 => t = u

(* No thread waits in pthread_mutex_lock() for a mutex that it holds       *)
(* itself, from which nothing would ever set it free.                      *)
NoSelfDeadlock == \A t \in Threads : pc[t] = "blocked" => held # t

(* The mutex is given up by the unlock that undoes the first lock, and by  *)
(* no other: with nobody between two statements the count is one less than *)
(* the nesting of the thread that holds the mutex.                         *)
CountIsNesting ==
  \A t \in Threads : held = t /\ pc[t] = "idle" => depth[t] = lockcount + 1

(* The mutex implements a re-entrant lock: what its users see of it, their *)
(* nesting depths, only ever changes as ReentrantLock allows (MUTEX_LOCK,  *)
(* MUTEX_UNLOCK).                                                          *)
AsLock == INSTANCE ReentrantLock
LockSpec == AsLock!Spec

(* If every thread that has locked the mutex undoes all its locks some     *)
(* time, every thread that starts to lock it gets it (MUTEX_LOCK).         *)
SectionsEnd == \A t \in Threads : []<>(depth[t] = 0)
LockIsGranted ==
  SectionsEnd => \A t \in Threads : pc[t] \in {"check", "blocked"} ~> depth[t] > 0

(* The inductive invariant: the owner field tells the holder apart except  *)
(* in the holder's own windows, and never names anyone else.               *)
MutexInv ==
  /\ MutexTypeOK
  /\ \A t \in Threads : Within(t) => held = t
  /\ held # NoThread => Within(held)
  /\ owner # NoThread => held = owner
  /\ \A t \in Threads : depth[t] > 0 => owner = t
  /\ \A t \in Threads : pc[t] = "release" => depth[t] = 0 /\ lockcount = 0 /\ owner # t
  /\ \A t \in Threads : pc[t] = "blocked" => held # t
  /\ \A t \in Threads : pc[t] = "check" /\ held = t => owner = t
  /\ \A t \in Threads : held = t =>
       /\ pc[t] \in {"idle", "check"} => depth[t] = lockcount + 1
       /\ pc[t] = "locked" => depth[t] = lockcount
  /\ held = NoThread => lockcount = 0
  /\ \A t \in Threads : pc[t] \in {"check", "blocked", "locked"} => depth[t] < MaxDepth
=============================================================================
