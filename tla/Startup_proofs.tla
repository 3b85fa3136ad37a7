---------------------------- MODULE Startup_proofs ----------------------------
(***************************************************************************)
(* Start, binding and shutdown for any number of application threads and   *)
(* of lives, with steps that fail: what was bound is released, and not     *)
(* under the thread that binds, and no thread uses a driver too early.     *)
(*                                                                         *)
(* StartupInv is inductive with sessions: one lemma for each action.       *)
(***************************************************************************)
EXTENDS Startup, TLAPS

USE DEF NONE, THREADS, MESSAGES, MUTEXES, ALL, KRNLDATA, FULL, MainAt, semVars, Sem!Template, Sem!Cleared,
        krnlIsExiting, Beginning

------------------------------------------------------------------------------
(* The semaphore and the drivers *)

\* What a step of krnlWaitSemaphore does to its thread and to the semaphore.
LEMMA WaitsChange ==
  ASSUME TypeOK, NEW w \in Users \union {Main}, Waits(w)
  PROVE  /\ bindThread' = bindThread /\ bindCreator' = bindCreator /\ bindCloses' \in Nat
         /\ driverBind' \in [state : {"uninited", "set", "preclear", "clear"}, refCount : Nat]
         /\ \/ driverBind'.state = driverBind.state
            \/ driverBind.state = "preclear" /\ driverBind'.state = "clear"
         /\ bindWaiter' \in [Users \union {Main} -> {"idle", "checked", "waiting", "waited", "leaving"}]
         /\ \A v \in Users \union {Main} : v # w => bindWaiter'[v] = bindWaiter[v]
         /\ \/ bindWaiter[w] = "idle" /\ bindWaiter'[w] = "checked"
            \/ bindWaiter[w] = "checked" /\ bindWaiter'[w] = "waiting" /\ driverBind.state = "set"
            \/ bindWaiter[w] = "checked" /\ bindWaiter'[w] = "idle" /\ driverBind.state # "set"
            \/ bindWaiter[w] = "waiting" /\ bindWaiter'[w] = "waited" /\ bindThread = "exited"
            \/ bindWaiter[w] = "waited" /\ bindWaiter'[w] = "idle" /\ shutdownLevel >= MUTEXES
            \/ bindWaiter[w] = "waited" /\ bindWaiter'[w] = "leaving"
            \/ bindWaiter[w] = "leaving" /\ bindWaiter'[w] = "idle"
<1> USE DEF TypeOK, Sem!SemaphoreTypeOK, Sem!WaiterAt
<1>1. CASE Sem!EnterWait(w)
    BY <1>1 DEF Sem!EnterWait
<1>2. CASE Sem!CountWaiter(w)
    BY <1>2 DEF Sem!CountWaiter
<1>3. CASE Sem!WaitForThread(w)
    BY <1>3 DEF Sem!WaitForThread, Waits
<1>4. CASE Sem!SkipRelease(w)
    BY <1>4 DEF Sem!SkipRelease
<1>5. CASE Sem!CheckAgain(w)
    BY <1>5 DEF Sem!CheckAgain
<1>6. CASE Sem!releaseRefOpt(w)
    BY <1>6 DEF Sem!releaseRefOpt
<1> QED BY <1>1, <1>2, <1>3, <1>4, <1>5, <1>6 DEF Waits, Sem!Wait

\* The order in which drivers are bound, and what is unbound before the first of a group is bound.
LEMMA BindingOrder ==
  ASSUME NEW d \in Drivers
  PROVE  /\ After(d) \in Drivers \union {"end"} /\ AfterFailure(d) \in Drivers \union {"end"}
         /\ Before(d) \union {d} \subseteq Before(After(d)) /\ Before(d) \subseteq Before(AfterFailure(d))
         /\ Clears(d) \intersect Before(d) = {}
         /\ After("end") = "end"
  BY StartupAssumption DEF StartupAssumption, Drivers, After, AfterFailure, Before, Clears

------------------------------------------------------------------------------
(* StartupInv: one lemma for each action *)

\* krnlBeginInit preserves the invariant: a new life starts with a new semaphore and without drivers.
LEMMA krnlBeginInitKeeps ==
  ASSUME UseSessions, StartupInv, krnlBeginInit
  PROVE  StartupInv'
<1>1. TypeOK'
    BY StartupAssumption DEF StartupAssumption, krnlBeginInit, StartupInv, TypeOK, Sem!SemaphoreTypeOK, NotBinding
<1>2. Levels'
    BY StartupAssumption DEF StartupAssumption, krnlBeginInit, StartupInv, Levels, TypeOK
<1>3. WorkerAwaited'
    BY StartupAssumption DEF StartupAssumption, krnlBeginInit, StartupInv, WorkerAwaited, TypeOK, Sem!SemaphoreTypeOK
<1>4. BindingEnds'
    BY StartupAssumption DEF StartupAssumption, krnlBeginInit, StartupInv, BindingEnds, TypeOK, WorkerAwaited, Levels, Binds, NotBinding
<1>5. LiveRecorded'
    BY StartupAssumption DEF StartupAssumption, krnlBeginInit, StartupInv, LiveRecorded, TypeOK, WorkerAwaited, BindingEnds, Binds, Before, NotBinding
<1>6. FirstLife'
    BY StartupAssumption DEF StartupAssumption, krnlBeginInit, StartupInv, FirstLife, TypeOK, Sem!SemaphoreTypeOK, Levels, WorkerAwaited
<1> QED BY <1>1, <1>2, <1>3, <1>4, <1>5, <1>6 DEF StartupInv

\* PreInit preserves the invariant.
LEMMA PreInitKeeps ==
  ASSUME UseSessions, StartupInv, PreInit
  PROVE  StartupInv'
<1>1. TypeOK'
    BY StartupAssumption DEF StartupAssumption, PreInit, StartupInv, TypeOK, Sem!SemaphoreTypeOK
<1>2. Levels'
    BY StartupAssumption DEF StartupAssumption, PreInit, StartupInv, Levels, TypeOK
<1>3. WorkerAwaited'
    BY StartupAssumption DEF StartupAssumption, PreInit, StartupInv, WorkerAwaited, TypeOK, Sem!SemaphoreTypeOK
<1>4. BindingEnds'
    BY StartupAssumption DEF StartupAssumption, PreInit, StartupInv, BindingEnds, TypeOK, WorkerAwaited, Levels, Binds, NotBinding
<1>5. LiveRecorded'
    BY StartupAssumption DEF StartupAssumption, PreInit, StartupInv, LiveRecorded, TypeOK, WorkerAwaited, BindingEnds, Binds, Before, NotBinding
<1>6. FirstLife'
    BY StartupAssumption DEF StartupAssumption, PreInit, StartupInv, FirstLife, TypeOK, Sem!SemaphoreTypeOK, Levels, WorkerAwaited
<1> QED BY <1>1, <1>2, <1>3, <1>4, <1>5, <1>6 DEF StartupInv

\* InitActions preserves the invariant.
LEMMA InitActionsKeeps ==
  ASSUME UseSessions, StartupInv, InitActions
  PROVE  StartupInv'
<1>1. TypeOK'
    BY StartupAssumption DEF StartupAssumption, InitActions, StartupInv, TypeOK, Sem!SemaphoreTypeOK
<1>2. Levels'
    BY StartupAssumption DEF StartupAssumption, InitActions, StartupInv, Levels, TypeOK
<1>3. WorkerAwaited'
    BY StartupAssumption DEF StartupAssumption, InitActions, StartupInv, WorkerAwaited, TypeOK, Sem!SemaphoreTypeOK
<1>4. BindingEnds'
    BY StartupAssumption DEF StartupAssumption, InitActions, StartupInv, BindingEnds, TypeOK, WorkerAwaited, Levels, Binds, NotBinding
<1>5. LiveRecorded'
    BY StartupAssumption DEF StartupAssumption, InitActions, StartupInv, LiveRecorded, TypeOK, WorkerAwaited, BindingEnds, Binds, Before, NotBinding
<1>6. FirstLife'
    BY StartupAssumption DEF StartupAssumption, InitActions, StartupInv, FirstLife, TypeOK, Sem!SemaphoreTypeOK, Levels, WorkerAwaited
<1> QED BY <1>1, <1>2, <1>3, <1>4, <1>5, <1>6 DEF StartupInv

\* DispatchBinding preserves the invariant: the binding starts with nothing bound.
LEMMA DispatchBindingKeeps ==
  ASSUME UseSessions, StartupInv, DispatchBinding
  PROVE  StartupInv'
<1>1. TypeOK'
    BY StartupAssumption DEF StartupAssumption, DispatchBinding, StartupInv, TypeOK, Sem!SemaphoreTypeOK, Sem!CreateThread, StartBinding, Drivers
<1>2. Levels'
    BY StartupAssumption DEF StartupAssumption, DispatchBinding, StartupInv, Levels, TypeOK, Sem!CreateThread, StartBinding
<1>3. WorkerAwaited'
    BY StartupAssumption DEF StartupAssumption, DispatchBinding, StartupInv, WorkerAwaited, TypeOK, Sem!SemaphoreTypeOK, Sem!CreateThread, StartBinding
<1>4. BindingEnds'
    BY StartupAssumption DEF StartupAssumption, DispatchBinding, StartupInv, BindingEnds, TypeOK, WorkerAwaited, Levels, Binds, NotBinding, Sem!CreateThread, StartBinding
<1>5. LiveRecorded'
    BY StartupAssumption DEF StartupAssumption, DispatchBinding, StartupInv, LiveRecorded, TypeOK, WorkerAwaited, BindingEnds, Binds, Before, NotBinding, Sem!CreateThread, StartBinding
<1>6. FirstLife'
    BY StartupAssumption DEF StartupAssumption, DispatchBinding, StartupInv, FirstLife, TypeOK, Sem!SemaphoreTypeOK, Levels, WorkerAwaited, Sem!CreateThread, StartBinding
<1> QED BY <1>1, <1>2, <1>3, <1>4, <1>5, <1>6 DEF StartupInv

\* SetSemaphore preserves the invariant: the semaphore is set while the thread runs, or stays cleared.
LEMMA SetSemaphoreKeeps ==
  ASSUME UseSessions, StartupInv, SetSemaphore
  PROVE  StartupInv'
<1>1. TypeOK'
    BY StartupAssumption DEF StartupAssumption, SetSemaphore, StartupInv, TypeOK, Sem!SemaphoreTypeOK, Sem!setSemaphore
<1>2. Levels'
    BY StartupAssumption DEF StartupAssumption, SetSemaphore, StartupInv, Levels, TypeOK, Sem!setSemaphore
<1>3. WorkerAwaited'
    BY StartupAssumption DEF StartupAssumption, SetSemaphore, StartupInv, WorkerAwaited, Levels, TypeOK, Sem!SemaphoreTypeOK, Sem!setSemaphore
<1>4. BindingEnds'
    BY StartupAssumption DEF StartupAssumption, SetSemaphore, StartupInv, BindingEnds, TypeOK, WorkerAwaited, Levels, Binds, NotBinding, Sem!setSemaphore
<1>5. LiveRecorded'
    BY StartupAssumption DEF StartupAssumption, SetSemaphore, StartupInv, LiveRecorded, TypeOK, WorkerAwaited, BindingEnds, Binds, Before, NotBinding, Sem!setSemaphore
<1>6. FirstLife'
    BY StartupAssumption DEF StartupAssumption, SetSemaphore, StartupInv, FirstLife, TypeOK, Sem!SemaphoreTypeOK, Levels, WorkerAwaited, Sem!setSemaphore
<1> QED BY <1>1, <1>2, <1>3, <1>4, <1>5, <1>6 DEF StartupInv

\* FinishBinding preserves the invariant.
LEMMA FinishBindingKeeps ==
  ASSUME UseSessions, StartupInv, FinishBinding
  PROVE  StartupInv'
<1>1. TypeOK'
    BY StartupAssumption DEF StartupAssumption, FinishBinding, StartupInv, TypeOK, Sem!SemaphoreTypeOK
<1>2. Levels'
    BY StartupAssumption DEF StartupAssumption, FinishBinding, StartupInv, Levels, TypeOK
<1>3. WorkerAwaited'
    BY StartupAssumption DEF StartupAssumption, FinishBinding, StartupInv, WorkerAwaited, TypeOK, Sem!SemaphoreTypeOK
<1>4. BindingEnds'
    BY StartupAssumption DEF StartupAssumption, FinishBinding, StartupInv, BindingEnds, TypeOK, WorkerAwaited, Levels, Binds, NotBinding
<1>5. LiveRecorded'
    BY StartupAssumption DEF StartupAssumption, FinishBinding, StartupInv, LiveRecorded, TypeOK, WorkerAwaited, BindingEnds, Binds, Before, NotBinding
<1>6. FirstLife'
    BY StartupAssumption DEF StartupAssumption, FinishBinding, StartupInv, FirstLife, TypeOK, Sem!SemaphoreTypeOK, Levels, WorkerAwaited
<1> QED BY <1>1, <1>2, <1>3, <1>4, <1>5, <1>6 DEF StartupInv

\* CompleteInit preserves the invariant.
LEMMA CompleteInitKeeps ==
  ASSUME UseSessions, StartupInv, CompleteInit
  PROVE  StartupInv'
<1>1. TypeOK'
    BY StartupAssumption DEF StartupAssumption, CompleteInit, StartupInv, TypeOK, Sem!SemaphoreTypeOK
<1>2. Levels'
    BY StartupAssumption DEF StartupAssumption, CompleteInit, StartupInv, Levels, TypeOK
<1>3. WorkerAwaited'
    BY StartupAssumption DEF StartupAssumption, CompleteInit, StartupInv, WorkerAwaited, TypeOK, Sem!SemaphoreTypeOK
<1>4. BindingEnds'
    BY StartupAssumption DEF StartupAssumption, CompleteInit, StartupInv, BindingEnds, TypeOK, WorkerAwaited, Levels, Binds, NotBinding
<1>5. LiveRecorded'
    BY StartupAssumption DEF StartupAssumption, CompleteInit, StartupInv, LiveRecorded, TypeOK, WorkerAwaited, BindingEnds, Binds, Before, NotBinding
<1>6. FirstLife'
    BY StartupAssumption DEF StartupAssumption, CompleteInit, StartupInv, FirstLife, TypeOK, Sem!SemaphoreTypeOK, Levels, WorkerAwaited
<1> QED BY <1>1, <1>2, <1>3, <1>4, <1>5, <1>6 DEF StartupInv

\* krnlBeginShutdown preserves the invariant.
LEMMA krnlBeginShutdownKeeps ==
  ASSUME UseSessions, StartupInv, krnlBeginShutdown
  PROVE  StartupInv'
<1>1. TypeOK'
    BY StartupAssumption DEF StartupAssumption, krnlBeginShutdown, StartupInv, TypeOK, Sem!SemaphoreTypeOK
<1>2. Levels'
    BY StartupAssumption DEF StartupAssumption, krnlBeginShutdown, StartupInv, Levels, TypeOK
<1>3. WorkerAwaited'
    BY StartupAssumption DEF StartupAssumption, krnlBeginShutdown, StartupInv, WorkerAwaited, TypeOK, Sem!SemaphoreTypeOK
<1>4. BindingEnds'
    BY StartupAssumption DEF StartupAssumption, krnlBeginShutdown, StartupInv, BindingEnds, TypeOK, WorkerAwaited, Levels, Binds, NotBinding
<1>5. LiveRecorded'
    BY StartupAssumption DEF StartupAssumption, krnlBeginShutdown, StartupInv, LiveRecorded, TypeOK, WorkerAwaited, BindingEnds, Binds, Before, NotBinding
<1>6. FirstLife'
    BY StartupAssumption DEF StartupAssumption, krnlBeginShutdown, StartupInv, FirstLife, TypeOK, Sem!SemaphoreTypeOK, Levels, WorkerAwaited
<1> QED BY <1>1, <1>2, <1>3, <1>4, <1>5, <1>6 DEF StartupInv

\* PreShutdown preserves the invariant.
LEMMA PreShutdownKeeps ==
  ASSUME UseSessions, StartupInv, PreShutdown
  PROVE  StartupInv'
<1>1. TypeOK'
    BY StartupAssumption DEF StartupAssumption, PreShutdown, StartupInv, TypeOK, Sem!SemaphoreTypeOK, Sem!EnterWait, Sem!WaiterAt
<1>2. Levels'
    BY StartupAssumption DEF StartupAssumption, PreShutdown, StartupInv, Levels, TypeOK, Sem!EnterWait, Sem!WaiterAt
<1>3. WorkerAwaited'
    BY StartupAssumption DEF StartupAssumption, PreShutdown, StartupInv, WorkerAwaited, TypeOK, Sem!SemaphoreTypeOK, Sem!EnterWait, Sem!WaiterAt
<1>4. BindingEnds'
    BY StartupAssumption DEF StartupAssumption, PreShutdown, StartupInv, BindingEnds, TypeOK, WorkerAwaited, Levels, Binds, NotBinding, Sem!EnterWait, Sem!WaiterAt
<1>5. LiveRecorded'
    BY StartupAssumption DEF StartupAssumption, PreShutdown, StartupInv, LiveRecorded, TypeOK, WorkerAwaited, BindingEnds, Binds, Before, NotBinding, Sem!EnterWait, Sem!WaiterAt
<1>6. FirstLife'
    BY StartupAssumption DEF StartupAssumption, PreShutdown, StartupInv, FirstLife, TypeOK, Sem!SemaphoreTypeOK, Levels, WorkerAwaited, Sem!EnterWait, Sem!WaiterAt
<1> QED BY <1>1, <1>2, <1>3, <1>4, <1>5, <1>6 DEF StartupInv

\* destroyObjects preserves the invariant.
LEMMA destroyObjectsKeeps ==
  ASSUME UseSessions, StartupInv, destroyObjects
  PROVE  StartupInv'
<1>1. TypeOK'
    BY StartupAssumption DEF StartupAssumption, destroyObjects, StartupInv, TypeOK, Sem!SemaphoreTypeOK
<1>2. Levels'
    BY StartupAssumption DEF StartupAssumption, destroyObjects, StartupInv, Levels, TypeOK
<1>3. WorkerAwaited'
    BY StartupAssumption DEF StartupAssumption, destroyObjects, StartupInv, WorkerAwaited, TypeOK, Sem!SemaphoreTypeOK
<1>4. BindingEnds'
    BY StartupAssumption DEF StartupAssumption, destroyObjects, StartupInv, BindingEnds, TypeOK, WorkerAwaited, Levels, Binds, NotBinding
<1>5. LiveRecorded'
    BY StartupAssumption DEF StartupAssumption, destroyObjects, StartupInv, LiveRecorded, TypeOK, WorkerAwaited, BindingEnds, Binds, Before, NotBinding
<1>6. FirstLife'
    BY StartupAssumption DEF StartupAssumption, destroyObjects, StartupInv, FirstLife, TypeOK, Sem!SemaphoreTypeOK, Levels, WorkerAwaited
<1> QED BY <1>1, <1>2, <1>3, <1>4, <1>5, <1>6 DEF StartupInv

\* EndKeysets preserves the invariant.
LEMMA EndKeysetsKeeps ==
  ASSUME UseSessions, StartupInv, EndKeysets
  PROVE  StartupInv'
<1>1. TypeOK'
    BY StartupAssumption DEF StartupAssumption, EndKeysets, StartupInv, TypeOK, Sem!SemaphoreTypeOK
<1>2. Levels'
    BY StartupAssumption DEF StartupAssumption, EndKeysets, StartupInv, Levels, TypeOK
<1>3. WorkerAwaited'
    BY StartupAssumption DEF StartupAssumption, EndKeysets, StartupInv, WorkerAwaited, TypeOK, Sem!SemaphoreTypeOK
<1>4. BindingEnds'
    BY StartupAssumption DEF StartupAssumption, EndKeysets, StartupInv, BindingEnds, TypeOK, WorkerAwaited, Levels, Binds, NotBinding
<1>5. LiveRecorded'
    BY StartupAssumption DEF StartupAssumption, EndKeysets, StartupInv, LiveRecorded, TypeOK, WorkerAwaited, BindingEnds, Binds, Before, NotBinding
<1>6. FirstLife'
    BY StartupAssumption DEF StartupAssumption, EndKeysets, StartupInv, FirstLife, TypeOK, Sem!SemaphoreTypeOK, Levels, WorkerAwaited
<1> QED BY <1>1, <1>2, <1>3, <1>4, <1>5, <1>6 DEF StartupInv

\* EndDevices preserves the invariant.
LEMMA EndDevicesKeeps ==
  ASSUME UseSessions, StartupInv, EndDevices
  PROVE  StartupInv'
<1>1. TypeOK'
    BY StartupAssumption DEF StartupAssumption, EndDevices, StartupInv, TypeOK, Sem!SemaphoreTypeOK
<1>2. Levels'
    BY StartupAssumption DEF StartupAssumption, EndDevices, StartupInv, Levels, TypeOK
<1>3. WorkerAwaited'
    BY StartupAssumption DEF StartupAssumption, EndDevices, StartupInv, WorkerAwaited, TypeOK, Sem!SemaphoreTypeOK
<1>4. BindingEnds'
    BY StartupAssumption DEF StartupAssumption, EndDevices, StartupInv, BindingEnds, TypeOK, WorkerAwaited, Levels, Binds, NotBinding
<1>5. LiveRecorded'
    BY StartupAssumption DEF StartupAssumption, EndDevices, StartupInv, LiveRecorded, TypeOK, WorkerAwaited, BindingEnds, Binds, Before, NotBinding
<1>6. FirstLife'
    BY StartupAssumption DEF StartupAssumption, EndDevices, StartupInv, FirstLife, TypeOK, Sem!SemaphoreTypeOK, Levels, WorkerAwaited
<1> QED BY <1>1, <1>2, <1>3, <1>4, <1>5, <1>6 DEF StartupInv

\* EndSessions preserves the invariant.
LEMMA EndSessionsKeeps ==
  ASSUME UseSessions, StartupInv, EndSessions
  PROVE  StartupInv'
<1>1. TypeOK'
    BY StartupAssumption DEF StartupAssumption, EndSessions, StartupInv, TypeOK, Sem!SemaphoreTypeOK
<1>2. Levels'
    BY StartupAssumption DEF StartupAssumption, EndSessions, StartupInv, Levels, TypeOK
<1>3. WorkerAwaited'
    BY StartupAssumption DEF StartupAssumption, EndSessions, StartupInv, WorkerAwaited, TypeOK, Sem!SemaphoreTypeOK
<1>4. BindingEnds'
    BY StartupAssumption DEF StartupAssumption, EndSessions, StartupInv, BindingEnds, TypeOK, WorkerAwaited, Levels, Binds, NotBinding
<1>5. LiveRecorded'
    BY StartupAssumption DEF StartupAssumption, EndSessions, StartupInv, LiveRecorded, TypeOK, Drivers, WorkerAwaited, BindingEnds, Binds, Before, NotBinding
<1>6. FirstLife'
    BY StartupAssumption DEF StartupAssumption, EndSessions, StartupInv, FirstLife, TypeOK, Sem!SemaphoreTypeOK, Levels, WorkerAwaited
<1> QED BY <1>1, <1>2, <1>3, <1>4, <1>5, <1>6 DEF StartupInv

\* EndMutexes preserves the invariant.
LEMMA EndMutexesKeeps ==
  ASSUME UseSessions, StartupInv, EndMutexes
  PROVE  StartupInv'
<1>1. TypeOK'
    BY StartupAssumption DEF StartupAssumption, EndMutexes, StartupInv, TypeOK, Sem!SemaphoreTypeOK
<1>2. Levels'
    BY StartupAssumption DEF StartupAssumption, EndMutexes, StartupInv, Levels, TypeOK
<1>3. WorkerAwaited'
    BY StartupAssumption DEF StartupAssumption, EndMutexes, StartupInv, WorkerAwaited, TypeOK, Sem!SemaphoreTypeOK
<1>4. BindingEnds'
    BY StartupAssumption DEF StartupAssumption, EndMutexes, StartupInv, BindingEnds, TypeOK, WorkerAwaited, Levels, Binds, NotBinding
<1>5. LiveRecorded'
    BY StartupAssumption DEF StartupAssumption, EndMutexes, StartupInv, LiveRecorded, TypeOK, WorkerAwaited, BindingEnds, Binds, Before, NotBinding
<1>6. FirstLife'
    BY StartupAssumption DEF StartupAssumption, EndMutexes, StartupInv, FirstLife, TypeOK, Sem!SemaphoreTypeOK, Levels, WorkerAwaited
<1> QED BY <1>1, <1>2, <1>3, <1>4, <1>5, <1>6 DEF StartupInv

\* CompleteShutdown preserves the invariant.
LEMMA CompleteShutdownKeeps ==
  ASSUME UseSessions, StartupInv, CompleteShutdown
  PROVE  StartupInv'
<1>1. TypeOK'
    BY StartupAssumption DEF StartupAssumption, CompleteShutdown, StartupInv, TypeOK, Sem!SemaphoreTypeOK
<1>2. Levels'
    BY StartupAssumption DEF StartupAssumption, CompleteShutdown, StartupInv, Levels, TypeOK
<1>3. WorkerAwaited'
    BY StartupAssumption DEF StartupAssumption, CompleteShutdown, StartupInv, WorkerAwaited, TypeOK, Sem!SemaphoreTypeOK
<1>4. BindingEnds'
    BY StartupAssumption DEF StartupAssumption, CompleteShutdown, StartupInv, BindingEnds, TypeOK, WorkerAwaited, Levels, Binds, NotBinding
<1>5. LiveRecorded'
    BY StartupAssumption DEF StartupAssumption, CompleteShutdown, StartupInv, LiveRecorded, TypeOK, WorkerAwaited, BindingEnds, Binds, Before, NotBinding
<1>6. FirstLife'
    BY StartupAssumption DEF StartupAssumption, CompleteShutdown, StartupInv, FirstLife, TypeOK, Sem!SemaphoreTypeOK, Levels, WorkerAwaited
<1> QED BY <1>1, <1>2, <1>3, <1>4, <1>5, <1>6 DEF StartupInv

\* CheckExiting preserves the invariant.
LEMMA CheckExitingKeeps ==
  ASSUME UseSessions, StartupInv, CheckExiting
  PROVE  StartupInv'
<1>1. TypeOK'
  <2>1. binding' \in [driver : Drivers \union {"end"}, checked : BOOLEAN, failed : BOOLEAN]
    BY DEF CheckExiting, StartupInv, TypeOK, NotBinding
  <2> QED
    BY <2>1 DEF CheckExiting, StartupInv, TypeOK, Sem!SemaphoreTypeOK, semVars
<1>2. Levels'
    BY StartupAssumption DEF StartupAssumption, CheckExiting, StartupInv, Levels, TypeOK
<1>3. WorkerAwaited'
    BY StartupAssumption DEF StartupAssumption, CheckExiting, StartupInv, WorkerAwaited, TypeOK, Sem!SemaphoreTypeOK
<1>4. BindingEnds'
    BY StartupAssumption DEF StartupAssumption, CheckExiting, StartupInv, BindingEnds, TypeOK, WorkerAwaited, Levels, Binds, NotBinding
<1>5. LiveRecorded'
    BY StartupAssumption DEF StartupAssumption, CheckExiting, StartupInv, LiveRecorded, TypeOK, WorkerAwaited, BindingEnds, Binds, Before, NotBinding
<1>6. FirstLife'
    BY StartupAssumption DEF StartupAssumption, CheckExiting, StartupInv, FirstLife, TypeOK, Sem!SemaphoreTypeOK, Levels, WorkerAwaited
<1> QED BY <1>1, <1>2, <1>3, <1>4, <1>5, <1>6 DEF StartupInv

\* FinishWorker preserves the invariant.
LEMMA FinishWorkerKeeps ==
  ASSUME UseSessions, StartupInv, FinishWorker
  PROVE  StartupInv'
<1>1. TypeOK'
    BY StartupAssumption DEF StartupAssumption, FinishWorker, StartupInv, TypeOK, Sem!SemaphoreTypeOK, Sem!clearSemaphore, Sem!ClearBlock, Sem!ExitThread
<1>2. Levels'
    BY StartupAssumption DEF StartupAssumption, FinishWorker, StartupInv, Levels, TypeOK, Sem!clearSemaphore, Sem!ClearBlock, Sem!ExitThread
<1>3. WorkerAwaited'
    BY StartupAssumption DEF StartupAssumption, FinishWorker, StartupInv, WorkerAwaited, TypeOK, Sem!SemaphoreTypeOK, Sem!clearSemaphore, Sem!ClearBlock, Sem!ExitThread
<1>4. BindingEnds'
    BY StartupAssumption DEF StartupAssumption, FinishWorker, StartupInv, BindingEnds, TypeOK, WorkerAwaited, Levels, Binds, NotBinding, Sem!clearSemaphore, Sem!ClearBlock, Sem!ExitThread
<1>5. LiveRecorded'
    BY StartupAssumption DEF StartupAssumption, FinishWorker, StartupInv, LiveRecorded, TypeOK, WorkerAwaited, BindingEnds, Binds, Before, NotBinding, Sem!clearSemaphore, Sem!ClearBlock, Sem!ExitThread
<1>6. FirstLife'
    BY StartupAssumption DEF StartupAssumption, FinishWorker, StartupInv, FirstLife, TypeOK, Sem!SemaphoreTypeOK, Levels, WorkerAwaited, Sem!clearSemaphore, Sem!ClearBlock, Sem!ExitThread
<1> QED BY <1>1, <1>2, <1>3, <1>4, <1>5, <1>6 DEF StartupInv

\* BindDriver preserves the invariant: what comes later in the order is not bound yet, so that clearing
\* the level of a group forgets nothing.
LEMMA BindDriverKeeps ==
  ASSUME UseSessions, StartupInv, BindDriver
  PROVE  StartupInv'
<1> DEFINE d == binding.driver
<1>1. Binds /\ d \in Drivers /\ live \subseteq bound \intersect Before(d)
    BY DEF BindDriver, StartupInv, TypeOK, BindingEnds, LiveRecorded
<1>11. /\ binding \in [driver : Drivers \union {"end"}, checked : BOOLEAN, failed : BOOLEAN]
       /\ After(d) \in Drivers \union {"end"} /\ AfterFailure(d) \in Drivers \union {"end"}
    BY <1>1, BindingOrder DEF StartupInv, TypeOK
<1>12. UNCHANGED <<semVars, initLevel, shutdownLevel, phase, lives>>
    BY DEF BindDriver
<1>13. PICK failed \in BOOLEAN : failed = (binding.failed \/ d # "device")
    BY Zenon
<1> HIDE DEF d
<1> DEFINE next == [binding EXCEPT !.driver = After(d), !.checked = FALSE]
           past == [driver |-> AfterFailure(d), checked |-> FALSE, failed |-> failed]
<1>14. /\ next \in [driver : Drivers \union {"end"}, checked : BOOLEAN, failed : BOOLEAN]
       /\ next.driver = After(d) /\ next.checked = FALSE
       /\ past \in [driver : Drivers \union {"end"}, checked : BOOLEAN, failed : BOOLEAN]
       /\ past.driver = AfterFailure(d) /\ past.checked = FALSE
    BY <1>11
<1>15. \/ live' = live \union {d} /\ bound' = (bound \ Clears(d)) \union {d} /\ binding' = next
       \/ live' = live /\ bound' = bound \ Clears(d) /\ binding' = past
    BY <1>13, Zenon DEF BindDriver, d
<1> HIDE DEF next, past
<1>2. live'  \subseteq bound' \intersect Before(binding'.driver)
    BY <1>1, <1>14, <1>15, BindingOrder
<1>3. ~Beginning /\ phase \in {"bind", "set", "selftest", "up", "preshutdown", "wait"}
    BY <1>1 DEF Binds, StartupInv, WorkerAwaited
<1>4. TypeOK'
    BY <1>1, <1>12, <1>14, <1>15 DEF StartupInv, TypeOK, Sem!SemaphoreTypeOK
<1>5. Levels' /\ WorkerAwaited' /\ FirstLife'
    BY <1>1, <1>12 DEF StartupInv, Levels, WorkerAwaited, FirstLife
<1>6. BindingEnds'
    BY <1>1, <1>12, <1>14, <1>15 DEF BindingEnds, Binds
<1>7. LiveRecorded'
    BY <1>1, <1>12, <1>15, <1>2, <1>3 DEF LiveRecorded
<1> QED BY <1>4, <1>5, <1>6, <1>7 DEF StartupInv

\* WaitForBinding preserves the invariant: Main does not pass while the thread runs.
LEMMA WaitForBindingKeeps ==
  ASSUME UseSessions, StartupInv, WaitForBinding
  PROVE  StartupInv'
<1>1. CASE Waits(Main) /\ bindWaiter[Main] # "idle" /\ phase' = phase
  <2>1. /\ bindThread' = bindThread /\ bindCreator' = bindCreator /\ bindCloses' \in Nat
        /\ driverBind' \in [state : {"uninited", "set", "preclear", "clear"}, refCount : Nat]
        /\ \/ driverBind'.state = driverBind.state
           \/ driverBind.state = "preclear" /\ driverBind'.state = "clear"
        /\ bindWaiter' \in [Users \union {Main} -> {"idle", "checked", "waiting", "waited", "leaving"}]
        /\ \A v \in Users : bindWaiter'[v] = bindWaiter[v]
      BY <1>1, WaitsChange, StartupAssumption DEF StartupInv, StartupAssumption
  <2>2. bindThread = "running" => bindWaiter'[Main] \in {"checked", "waiting"}
    <3>1. bindThread = "running" => driverBind.state = "set" /\ bindWaiter[Main] \in {"checked", "waiting"}
        BY DEF StartupInv, WorkerAwaited, WaitForBinding
    <3>2. /\ bindWaiter[Main] = "checked" /\ driverBind.state = "set" => bindWaiter'[Main] = "waiting"
          /\ bindWaiter[Main] = "waiting" => bindThread = "exited"
        BY <1>1, WaitsChange DEF StartupInv
    <3> QED BY <3>1, <3>2
  <2>3. UNCHANGED <<initLevel, shutdownLevel, phase, binding, bound, live, lives>> /\ phase = "wait"
      BY <1>1 DEF WaitForBinding
  <2>4. TypeOK'
      BY <2>1, <2>3 DEF StartupInv, TypeOK, Sem!SemaphoreTypeOK
  <2>5. Levels' /\ BindingEnds' /\ LiveRecorded'
      BY <2>1, <2>3 DEF StartupInv, Levels, BindingEnds, Binds, LiveRecorded
  <2>6. WorkerAwaited' /\ FirstLife'
      BY <2>1, <2>2, <2>3 DEF StartupInv, WorkerAwaited, FirstLife
  <2> QED BY <2>4, <2>5, <2>6 DEF StartupInv
<1>2. CASE bindWaiter[Main] = "idle" /\ phase' = "destroy" /\ UNCHANGED semVars
  <2>1. bindThread # "running"
      BY <1>2 DEF WaitForBinding, StartupInv, WorkerAwaited
  <2>2. UNCHANGED <<initLevel, shutdownLevel, binding, bound, live, lives>> /\ phase = "wait"
      BY DEF WaitForBinding
  <2>3. TypeOK' /\ Levels' /\ WorkerAwaited' /\ FirstLife'
      BY <1>2, <2>1, <2>2 DEF StartupInv, TypeOK, Sem!SemaphoreTypeOK, Levels, WorkerAwaited, FirstLife
  <2>4. BindingEnds' /\ LiveRecorded'
      BY <1>2, <2>1, <2>2 DEF StartupInv, BindingEnds, Binds, LiveRecorded
  <2> QED BY <2>3, <2>4 DEF StartupInv
<1> QED BY <1>1, <1>2 DEF WaitForBinding

\* UserWaits preserves the invariant.
LEMMA UserWaitsKeeps ==
  ASSUME UseSessions, StartupInv, NEW u \in Users, UserWaits(u)
  PROVE  StartupInv'
<1>1. /\ bindThread' = bindThread /\ bindCreator' = bindCreator /\ bindCloses' \in Nat
      /\ driverBind' \in [state : {"uninited", "set", "preclear", "clear"}, refCount : Nat]
      /\ \/ driverBind'.state = driverBind.state
         \/ driverBind.state = "preclear" /\ driverBind'.state = "clear"
      /\ bindWaiter' \in [Users \union {Main} -> {"idle", "checked", "waiting", "waited", "leaving"}]
      /\ \A v \in Users \union {Main} : v # u => bindWaiter'[v] = bindWaiter[v]
      /\ bindWaiter'[u] \in {"waited", "leaving"} => bindThread = "exited" \/ bindWaiter[u] = "waited"
    BY WaitsChange DEF UserWaits, StartupInv
<1>2. UNCHANGED <<initLevel, shutdownLevel, phase, binding, bound, live, lives>> /\ u # Main
    BY StartupAssumption DEF UserWaits, StartupAssumption
<1>3. TypeOK'
    BY <1>1, <1>2 DEF StartupInv, TypeOK, Sem!SemaphoreTypeOK
<1>4. Levels' /\ BindingEnds' /\ LiveRecorded'
    BY <1>1, <1>2 DEF StartupInv, Levels, BindingEnds, Binds, LiveRecorded
<1>5. WorkerAwaited'
    BY <1>1, <1>2 DEF StartupInv, WorkerAwaited
<1>6. FirstLife'
    BY <1>1, <1>2 DEF StartupInv, FirstLife, UserWaits
<1> QED BY <1>3, <1>4, <1>5, <1>6 DEF StartupInv

------------------------------------------------------------------------------
(* The theorems *)

\* The initial state.
LEMMA InitStartup == Init => StartupInv
  BY StartupAssumption DEF StartupAssumption, Init, StartupInv, TypeOK, Sem!SemaphoreTypeOK, Levels, WorkerAwaited, BindingEnds,
     Binds, NotBinding, LiveRecorded, FirstLife

\* Every step preserves the invariant.
LEMMA NextStartup == UseSessions /\ StartupInv /\ [Next]_vars => StartupInv'
<1> SUFFICES ASSUME UseSessions, StartupInv, [Next]_vars
             PROVE  StartupInv'
    OBVIOUS
<1>1. CASE krnlBeginInit \/ krnlBeginShutdown
    BY <1>1, krnlBeginInitKeeps, krnlBeginShutdownKeeps
<1>2. CASE Starting
    BY <1>2, PreInitKeeps, InitActionsKeeps, DispatchBindingKeeps, SetSemaphoreKeeps, FinishBindingKeeps,
       CompleteInitKeeps DEF Starting
<1>3. CASE Ending
    BY <1>3, PreShutdownKeeps, WaitForBindingKeeps, destroyObjectsKeeps, EndKeysetsKeeps, EndDevicesKeeps,
       EndSessionsKeeps, EndMutexesKeeps, CompleteShutdownKeeps DEF Ending
<1>4. CASE Binding
    BY <1>4, CheckExitingKeeps, BindDriverKeeps, FinishWorkerKeeps DEF Binding
<1>5. ASSUME NEW u \in Users, UserWaits(u) PROVE StartupInv'
    BY <1>5, UserWaitsKeeps
<1>6. CASE UNCHANGED vars
    BY <1>6 DEF vars, StartupInv, TypeOK, Sem!SemaphoreTypeOK, Levels, WorkerAwaited, BindingEnds, Binds, LiveRecorded, FirstLife
<1> QED BY <1>1, <1>2, <1>3, <1>4, <1>5, <1>6 DEF Next

\* With sessions, whose pre-shutdown function is the only one that waits for the background thread
\* (cryptses.c), the inductive invariant of start, binding and shutdown holds in every behaviour.
THEOREM StartupCorrect ==
  ASSUME UseSessions
  PROVE  Spec => []StartupInv
  BY InitStartup, NextStartup, PTL DEF Spec

\* Whatever fails and whenever a shutdown comes, in every life: at the end no driver holds resources.
THEOREM ReleasedAtEndAlways ==
  ASSUME UseSessions
  PROVE  Spec => []ReleasedAtEnd
<1>1. StartupInv => ReleasedAtEnd
    BY DEF StartupInv, LiveRecorded, ReleasedAtEnd
<1> QED BY <1>1, StartupCorrect, PTL

\* No driver is released and no object destroyed before the thread that binds drivers is done.
THEOREM NoReleaseDuringBindingAlways ==
  ASSUME UseSessions
  PROVE  Spec => []NoReleaseDuringBinding
<1>1. StartupInv => NoReleaseDuringBinding
    BY DEF StartupInv, WorkerAwaited, NoReleaseDuringBinding
<1> QED BY <1>1, StartupCorrect, PTL

\* A thread that has passed the semaphore in the first life finds every driver bound that could be.
THEOREM DriversReadyAlways ==
  ASSUME UseSessions
  PROVE  Spec => DriversReady
<1>1. ASSUME StartupInv, Next, NEW u \in Users, bindWaiter[u] # "idle", bindWaiter'[u] = "idle",
             ~krnlIsExiting, lives = 1
      PROVE  binding.driver = "end"
  <2>1. phase = "up" /\ (bindWaiter[u] \in {"waited", "leaving"} => bindThread # "running")
      BY <1>1 DEF StartupInv, Levels, FirstLife, TypeOK
  <2>2. UserWaits(u)
    <3>1. \A v \in Users : UserWaits(v) /\ v # u => bindWaiter'[u] = bindWaiter[u]
        BY <1>1, WaitsChange DEF UserWaits, StartupInv
    <3>2. krnlBeginShutdown => bindWaiter' = bindWaiter
        BY DEF krnlBeginShutdown
    <3>3. Binding => bindWaiter' = bindWaiter
        BY DEF Binding, CheckExiting, BindDriver, FinishWorker, Sem!clearSemaphore, Sem!ExitThread
    <3>4. ~krnlBeginInit /\ ~Starting /\ ~Ending
        BY <2>1 DEF krnlBeginInit, Starting, Ending, PreInit, InitActions, DispatchBinding, SetSemaphore,
           FinishBinding, CompleteInit, PreShutdown, WaitForBinding, destroyObjects, EndKeysets, EndDevices,
           EndSessions, EndMutexes, CompleteShutdown
    <3> QED BY <1>1, <3>1, <3>2, <3>3, <3>4 DEF Next
  <2>3. (bindWaiter[u] = "checked" /\ driverBind.state # "set") \/ bindWaiter[u] \in {"waited", "leaving"}
      BY <1>1, <2>2, WaitsChange DEF UserWaits, StartupInv
  <2>4. bindThread # "running"
      BY <1>1, <2>1, <2>3 DEF StartupInv, WorkerAwaited
  <2> QED BY <1>1, <2>1, <2>4 DEF StartupInv, BindingEnds, Binds
<1>2. StartupInv /\ [Next]_vars =>
        [\A u \in Users : bindWaiter[u] # "idle" /\ bindWaiter'[u] = "idle" /\ ~krnlIsExiting /\ lives = 1 =>
           binding.driver = "end"]_vars
    BY <1>1
<1> QED BY <1>2, StartupCorrect, PTL DEF Spec, DriversReady
=============================================================================
