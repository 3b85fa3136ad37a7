------------------------------ MODULE Semaphore ------------------------------
(***************************************************************************)
(* A one-shot semaphore of the kernel, the background thread whose end it  *)
(* announces and the threads that wait for it (src/kernel/sync.c).  The    *)
(* semaphore mutex makes each locked block one action; the wait for the    *)
(* thread itself, and the looks at the shutdown level, are outside it.     *)
(***************************************************************************)
EXTENDS Integers, FiniteSets

CONSTANTS Waiters,
          CallsMayFail   \* whether THREAD_CREATE and THREAD_WAIT may fail

ASSUME SemaphoreAssumption == IsFiniteSet(Waiters) /\ CallsMayFail \in BOOLEAN

VARIABLES semaphoreInfo,  \* state and refCount of the semaphore
          creator,        \* where krnlDispatchThread is
          worker,         \* the background thread
          waiter,         \* where each thread is in krnlWaitSemaphore
          closes,         \* how often THREAD_CLOSE was called on its handle
          shutdown        \* shutdownLevel >= SHUTDOWN_LEVEL_MUTEXES

semaphoreVars == <<semaphoreInfo, creator, worker, waiter, closes, shutdown>>

Template == [state |-> "uninited", refCount |-> 0]
Cleared == [Template EXCEPT !.state = "clear"]

WaiterAt(w, from, to) == waiter[w] = from /\ waiter' = [waiter EXCEPT ![w] = to]

-----------------------------------------------------------------------------
(* The creator and the background thread. *)

(* THREAD_CREATE in krnlDispatchThread *)
CreateThread ==
  /\ creator = "start"
  /\ \/ creator' = "created" /\ worker' = "running"
     \/ CallsMayFail /\ creator' = "done" /\ worker' = worker
  /\ UNCHANGED <<semaphoreInfo, waiter, closes, shutdown>>

setSemaphore ==
  /\ creator = "created" /\ creator' = "done"
  /\ semaphoreInfo' = IF ~shutdown /\ semaphoreInfo.state = "uninited"
                      THEN [Template EXCEPT !.state = "set"] ELSE semaphoreInfo
  /\ UNCHANGED <<worker, waiter, closes, shutdown>>

\* Mutant: the semaphore is cleared whatever the waiters.
ClearAtOnce ==
  \/ /\ semaphoreInfo.state = "uninited"
     /\ semaphoreInfo' = Cleared /\ closes' = closes
  \/ /\ semaphoreInfo.state = "set"
     /\ semaphoreInfo' = Cleared /\ closes' = closes + 1
  \/ /\ semaphoreInfo.state \in {"preclear", "clear"}
     /\ UNCHANGED <<semaphoreInfo, closes>>

(* The block of clearSemaphore: with waiters the last of them closes the   *)
(* thread handle, else clearSemaphore does.                                *)
ClearBlock ==
  \/ /\ semaphoreInfo.state = "uninited"
     /\ semaphoreInfo' = Cleared /\ closes' = closes
  \/ /\ semaphoreInfo.state = "set" /\ semaphoreInfo.refCount > 0
     /\ semaphoreInfo' = [semaphoreInfo EXCEPT !.state = "preclear"] /\ closes' = closes
  \/ /\ semaphoreInfo.state = "set" /\ semaphoreInfo.refCount = 0
     /\ semaphoreInfo' = Cleared /\ closes' = closes + 1
  \/ /\ semaphoreInfo.state \in {"preclear", "clear"}
     /\ UNCHANGED <<semaphoreInfo, closes>>

clearSemaphore ==
  /\ worker = "running" /\ worker' = "cleared"
  /\ IF shutdown THEN UNCHANGED <<semaphoreInfo, closes>> ELSE ClearBlock
  /\ UNCHANGED <<creator, waiter, shutdown>>

(* THREAD_EXIT: only now does THREAD_WAIT return. *)
ExitThread ==
  /\ worker = "cleared" /\ worker' = "exited"
  /\ UNCHANGED <<semaphoreInfo, creator, waiter, closes, shutdown>>

-----------------------------------------------------------------------------
(* krnlWaitSemaphore *)

(* The first, unlocked look at the shutdown level *)
EnterWait(w) ==
  /\ ~shutdown
  /\ WaiterAt(w, "idle", "checked")
  /\ UNCHANGED <<semaphoreInfo, creator, worker, closes, shutdown>>

\* Mutant: a waiter is not counted.
CountWaiterUncounted(w) ==
  /\ \/ semaphoreInfo.state = "set" /\ WaiterAt(w, "checked", "waiting")
     \/ semaphoreInfo.state # "set" /\ WaiterAt(w, "checked", "idle")
  /\ UNCHANGED <<semaphoreInfo, creator, worker, closes, shutdown>>

\* Mutant: a waiter stops also before the semaphore is set.
CountWaiterUnset(w) ==
  /\ \/ /\ semaphoreInfo.state # "clear" /\ WaiterAt(w, "checked", "waiting")
        /\ semaphoreInfo' = [semaphoreInfo EXCEPT !.refCount = @ + 1]
     \/ /\ semaphoreInfo.state = "clear" /\ WaiterAt(w, "checked", "idle")
        /\ UNCHANGED semaphoreInfo
  /\ UNCHANGED <<creator, worker, closes, shutdown>>

(* The first locked block *)
CountWaiter(w) ==
  /\ \/ /\ semaphoreInfo.state = "set" /\ WaiterAt(w, "checked", "waiting")
        /\ semaphoreInfo' = [semaphoreInfo EXCEPT !.refCount = @ + 1]
     \/ /\ semaphoreInfo.state # "set" /\ WaiterAt(w, "checked", "idle")
        /\ UNCHANGED semaphoreInfo
  /\ UNCHANGED <<creator, worker, closes, shutdown>>

(* THREAD_WAIT returns, because the thread has ended or because it failed. *)
WaitForThread(w) ==
  /\ worker = "exited" \/ CallsMayFail
  /\ WaiterAt(w, "waiting", "waited")
  /\ UNCHANGED <<semaphoreInfo, creator, worker, closes, shutdown>>

(* The second, unlocked look at the shutdown level *)
SkipRelease(w) ==
  /\ shutdown
  /\ WaiterAt(w, "waited", "idle")
  /\ UNCHANGED <<semaphoreInfo, creator, worker, closes, shutdown>>

CheckAgain(w) ==
  /\ ~shutdown
  /\ WaiterAt(w, "waited", "leaving")
  /\ UNCHANGED <<semaphoreInfo, creator, worker, closes, shutdown>>

\* Mutant: the last waiter to leave clears the semaphore although the thread runs.
ReleaseAtZero(w) ==
  /\ WaiterAt(w, "leaving", "idle")
  /\ \/ /\ semaphoreInfo.state \notin {"set", "preclear"} \/ semaphoreInfo.refCount = 0
        /\ UNCHANGED <<semaphoreInfo, closes>>
     \/ /\ semaphoreInfo.state \in {"set", "preclear"} /\ semaphoreInfo.refCount > 0
        /\ IF semaphoreInfo.refCount = 1
           THEN semaphoreInfo' = Cleared /\ closes' = closes + 1
           ELSE semaphoreInfo' = [semaphoreInfo EXCEPT !.refCount = @ - 1] /\ closes' = closes
  /\ UNCHANGED <<creator, worker, shutdown>>

(* The second locked block: releaseRefOpt *)
releaseRefOpt(w) ==
  /\ WaiterAt(w, "leaving", "idle")
  /\ \/ /\ semaphoreInfo.state \notin {"set", "preclear"} \/ semaphoreInfo.refCount = 0
        /\ UNCHANGED <<semaphoreInfo, closes>>
     \/ /\ semaphoreInfo.state \in {"set", "preclear"} /\ semaphoreInfo.refCount > 0
        /\ IF semaphoreInfo.state = "preclear" /\ semaphoreInfo.refCount = 1
           THEN semaphoreInfo' = Cleared /\ closes' = closes + 1
           ELSE semaphoreInfo' = [semaphoreInfo EXCEPT !.refCount = @ - 1] /\ closes' = closes
  /\ UNCHANGED <<creator, worker, shutdown>>

(* endSemaphores *)
endSemaphores ==
  /\ ~shutdown /\ shutdown' = TRUE
  /\ UNCHANGED <<semaphoreInfo, creator, worker, waiter, closes>>

Wait(w) == \/ EnterWait(w) \/ CountWaiter(w) \/ WaitForThread(w)
           \/ SkipRelease(w) \/ CheckAgain(w) \/ releaseRefOpt(w)

SemaphoreInit ==
  /\ semaphoreInfo = Template
  /\ creator = "start" /\ worker = "none"
  /\ waiter = [w \in Waiters |-> "idle"]
  /\ closes = 0 /\ shutdown = FALSE

Background == CreateThread \/ setSemaphore \/ clearSemaphore \/ ExitThread
SemaphoreNext == Background \/ endSemaphores \/ \E w \in Waiters : Wait(w)

SemaphoreSpec == SemaphoreInit /\ [][SemaphoreNext]_semaphoreVars

(* The operating system runs every thread; nobody has to start a wait, and *)
(* no wait for a thread has to fail before the thread has ended.           *)
SemaphoreFairness ==
  /\ WF_semaphoreVars(setSemaphore) /\ WF_semaphoreVars(clearSemaphore) /\ WF_semaphoreVars(ExitThread)
  /\ \A w \in Waiters :
       WF_semaphoreVars(Wait(w) /\ waiter[w] # "idle" /\ (waiter[w] = "waiting" => worker = "exited"))


-----------------------------------------------------------------------------

SemaphoreTypeOK ==
  /\ semaphoreInfo \in [state : {"uninited", "set", "preclear", "clear"}, refCount : Nat]
  /\ creator \in {"start", "created", "done"}
  /\ worker \in {"none", "running", "cleared", "exited"}
  /\ waiter \in [Waiters -> {"idle", "checked", "waiting", "waited", "leaving"}]
  /\ closes \in Nat /\ shutdown \in BOOLEAN

Inside == {w \in Waiters : waiter[w] \in {"waiting", "waited", "leaving"}}

(* The reference count that decides who closes the thread handle is the    *)
(* number of threads between the two locked blocks of krnlWaitSemaphore,   *)
(* until a shutdown lets them skip the second.                             *)
RefCountExact ==
  ~shutdown /\ semaphoreInfo.state \in {"set", "preclear"} =>
    semaphoreInfo.refCount = Cardinality(Inside)

(* The handle of the background thread is closed once at most, and never   *)
(* under a thread that is waiting with it (clearSemaphore, releaseRefOpt). *)
HandleOpenUnderWaiters ==
  /\ closes <= 1
  /\ (\E w \in Waiters : waiter[w] = "waiting") => closes = 0

(* A semaphore whose thread has finished but whose handle is still open    *)
(* has somebody who will close it: the state that stands for "last thread  *)
(* out, turn out the lights" is never left to an empty house.              *)
SomebodyTurnsOutTheLights ==
  ~shutdown /\ semaphoreInfo.state = "preclear" => closes = 0 /\ Inside # {}

(* From the return of krnlDispatchThread to the end of the thread function *)
(* nobody passes the semaphore: whoever waits, waits for the thread.       *)
BusyIsSet ==
  ~shutdown /\ creator = "done" /\ worker = "running" => semaphoreInfo.state = "set"

(* The inductive invariant: the four above, and how the state of the       *)
(* semaphore follows the creator and the thread.                           *)
SemaphoreInv ==
  /\ SemaphoreTypeOK
  /\ RefCountExact /\ HandleOpenUnderWaiters /\ SomebodyTurnsOutTheLights /\ BusyIsSet
  /\ semaphoreInfo.state \in {"set", "preclear"} =>
       closes = 0 /\ semaphoreInfo.refCount >= Cardinality(Inside)
  /\ semaphoreInfo.state \in {"uninited", "clear"} => Inside = {} /\ semaphoreInfo.refCount = 0
  /\ semaphoreInfo.state = "uninited" => closes = 0
  /\ semaphoreInfo.state = "set" => creator = "done"
  /\ semaphoreInfo.state \in {"preclear", "clear"} => worker \in {"cleared", "exited"}
  /\ creator = "start" <=> (worker = "none" /\ creator # "done")

(* A semaphore is used once: setSemaphore after clearSemaphore is ignored, *)
(* and a cleared semaphore stays cleared (the state transitions of the     *)
(* comment above setSemaphore).                                            *)
OneShot == [][
  /\ semaphoreInfo.state # "uninited" => semaphoreInfo'.state # "uninited"
  /\ semaphoreInfo.state = "preclear" => semaphoreInfo'.state # "set"
  /\ semaphoreInfo.state = "clear" => semaphoreInfo'.state = "clear"]_semaphoreVars

(* Every wait ends: also one that comes before the semaphore is set, that  *)
(* meets the end of the thread, or that a shutdown overtakes.              *)
WaitEnds == \A w \in Waiters : waiter[w] # "idle" ~> waiter[w] = "idle"

(* Once the thread is gone and nobody waits for it, its handle has been    *)
(* closed, whichever of setSemaphore and clearSemaphore came first.        *)
HandleReleased ==
  ~shutdown /\ creator = "done" /\ worker = "exited" /\ Inside = {} => closes = 1

(* With pthreads it is THREAD_WAIT that releases the thread: only a thread *)
(* that leaves nobody waiting behind may have completed it.                *)
JoinedByLastOnly ==
  \A v, w \in Waiters : waiter[v] \in {"waited", "leaving"} => waiter[w] # "waiting"

(* Once the mutexes are gone no thread is about to lock the semaphore      *)
(* table's.                                                                *)
NoLateLock == shutdown => \A w \in Waiters : waiter[w] \notin {"checked", "leaving"}
=============================================================================
