------------------------ MODULE RecursiveMutex_proofs ------------------------
(* The re-entrant mutex excludes, for any number of threads and nesting.   *)
EXTENDS RecursiveMutex, TLAPS

LEMMA InitHolds == MutexInit => MutexInv
  BY MutexAssumption DEF MutexInit, MutexInv, MutexTypeOK, Within, MutexAssumption

LEMMA AcquiringKeepsInv ==
  ASSUME MutexInv, NEW t \in Threads, Acquiring(t)
  PROVE  MutexInv'
<1>1. CASE TryLock(t)
  BY <1>1, MutexAssumption, SMTT(30)
     DEF TryLock, ThreadAt, MutexInv, MutexTypeOK, Within, MutexAssumption
<1>2. CASE CheckOwner(t)
  BY <1>2, MutexAssumption, SMTT(30)
     DEF CheckOwner, ThreadAt, MutexInv, MutexTypeOK, Within, MutexAssumption
<1>3. CASE Lock(t)
  BY <1>3, MutexAssumption, SMTT(30)
     DEF Lock, ThreadAt, MutexInv, MutexTypeOK, Within, MutexAssumption
<1>4. CASE SetOwner(t)
  BY <1>4, MutexAssumption, SMTT(30)
     DEF SetOwner, ThreadAt, MutexInv, MutexTypeOK, Within, MutexAssumption
<1> QED BY <1>1, <1>2, <1>3, <1>4 DEF Acquiring

LEMMA UnlockingKeepsInv ==
  ASSUME MutexInv, NEW t \in Threads, Unlocking(t)
  PROVE  MutexInv'
<1>1. CASE UnlockNested(t)
  BY <1>1, MutexAssumption, SMTT(30)
     DEF UnlockNested, ThreadAt, MutexInv, MutexTypeOK, Within, MutexAssumption
<1>2. CASE ClearOwner(t)
  BY <1>2, MutexAssumption, SMTT(30)
     DEF ClearOwner, ThreadAt, MutexInv, MutexTypeOK, Within, MutexAssumption
<1>3. CASE Release(t)
  BY <1>3, MutexAssumption, SMTT(30)
     DEF Release, ThreadAt, MutexInv, MutexTypeOK, Within, MutexAssumption
<1> QED BY <1>1, <1>2, <1>3 DEF Unlocking

(* The owner field is right whenever somebody reads it: the invariant that *)
(* makes an unprotected read of it safe (MUTEX_LOCK).                      *)
THEOREM OwnerIsRight == MutexSpec => []MutexInv
<1>1. ASSUME MutexInv, [MutexNext]_mutexVars PROVE MutexInv'
  <2>1. CASE MutexNext
    BY <1>1, <2>1, AcquiringKeepsInv, UnlockingKeepsInv DEF MutexNext
  <2>2. CASE UNCHANGED mutexVars
    BY <1>1, <2>2 DEF mutexVars, MutexInv, MutexTypeOK, Within
  <2> QED BY <1>1, <2>1, <2>2
<1> QED BY InitHolds, <1>1, PTL DEF MutexSpec

(* ThreadAt most one thread is between its MUTEX_LOCK and its MUTEX_UNLOCK.      *)
THEOREM Excludes == MutexSpec => []MutualExclusion
<1>1. MutexInv => MutualExclusion
  BY DEF MutualExclusion, MutexInv, MutexTypeOK, Within
<1> QED BY <1>1, OwnerIsRight, PTL

(* No thread waits for a mutex that it holds itself.                       *)
THEOREM NeverWaitsForItself == MutexSpec => []NoSelfDeadlock
<1>1. MutexInv => NoSelfDeadlock
  BY DEF NoSelfDeadlock, MutexInv, MutexTypeOK
<1> QED BY <1>1, OwnerIsRight, PTL

(* The mutex is given up by the unlock that undoes the first lock.         *)
THEOREM CountsNesting == MutexSpec => []CountIsNesting
<1>1. MutexInv => CountIsNesting
  BY DEF CountIsNesting, MutexInv, MutexTypeOK
<1> QED BY <1>1, OwnerIsRight, PTL
(* Every run of the mutex is one of the re-entrant lock.                   *)
THEOREM ImplementsLock == MutexSpec => LockSpec
<1>1. MutexInit => AsLock!Init
  BY DEF MutexInit, AsLock!Init
<1>2. MutexInv /\ [MutexNext]_mutexVars => [AsLock!Next]_depth
  <2> SUFFICES ASSUME MutexInv, [MutexNext]_mutexVars, depth' # depth
               PROVE  AsLock!Next
    OBVIOUS
  <2>1. PICK t \in Threads : Acquiring(t) \/ Unlocking(t)
    BY DEF MutexNext, mutexVars
  <2>2. CASE SetOwner(t)
    <3>1. depth[t] < MaxDepth
      BY <2>2 DEF SetOwner, ThreadAt, MutexInv, MutexTypeOK
    <3>2. AsLock!Acquire(t)
      BY <2>2, <3>1 DEF SetOwner, ThreadAt, AsLock!Acquire, MutexInv, MutexTypeOK, Within
    <3> QED BY <3>2 DEF AsLock!Next
  <2>3. CASE UnlockNested(t) \/ ClearOwner(t)
    BY <2>3 DEF UnlockNested, ClearOwner, AsLock!Release, AsLock!Next
  <2> QED BY <2>1, <2>2, <2>3 DEF Acquiring, Unlocking, TryLock, CheckOwner, Lock, Release
<1> QED BY <1>1, <1>2, OwnerIsRight, PTL DEF MutexSpec, LockSpec, AsLock!Spec
=============================================================================
