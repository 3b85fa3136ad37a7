------------------------------- MODULE Startup -------------------------------
(***************************************************************************)
(* The start and the end of cryptlib (src/cryptlib.c, src/kernel/init.c)   *)
(* with the binding of drivers in the background, the semaphore that       *)
(* announces its end (Semaphore) and application threads that need the     *)
(* drivers.  The mutex "initialisation" is held from krnlBeginInit to      *)
(* krnlCompleteInit and from krnlBeginShutdown to krnlCompleteShutdown, so *)
(* that one thread at a time, Main, starts or ends cryptlib.               *)
(***************************************************************************)
EXTENDS Integers, FiniteSets

CONSTANTS Users,        \* application threads that use drivers
          Main,         \* the thread inside initCryptlib or endCryptlib
          UseSessions,  \* USE_SESSIONS
          MayFail,      \* whether steps of the start may fail
          MaxLives      \* bound: how often cryptlib is started

ASSUME StartupAssumption ==
  /\ IsFiniteSet(Users) /\ Main \notin Users
  /\ UseSessions \in BOOLEAN /\ MayFail \in BOOLEAN /\ MaxLives \in Nat

VARIABLES driverBind, bindCreator, bindThread, bindWaiter, bindCloses,  \* of SEMAPHORE_DRIVERBIND
          initLevel,      \* krnlData->initLevel
          shutdownLevel,  \* krnlData->shutdownLevel
          phase,          \* where Main is
          binding,        \* the driver being bound, and how far it is
          bound,          \* the management functions' static init levels and flags
          live,           \* the drivers that hold resources
          lives           \* how often cryptlib was started

semVars == <<driverBind, bindCreator, bindThread, bindWaiter, bindCloses>>
vars == <<semVars, initLevel, shutdownLevel, phase, binding, bound, live, lives>>

NONE == 0  THREADS == 1  MESSAGES == 2  MUTEXES == 3  ALL == 4  \* shutdown levels
KRNLDATA == 1  FULL == 2                                        \* init levels

Sem == INSTANCE Semaphore WITH
  Waiters <- Users \union {Main}, CallsMayFail <- MayFail, shutdown <- shutdownLevel >= MUTEXES,
  semaphoreInfo <- driverBind, creator <- bindCreator, worker <- bindThread, waiter <- bindWaiter, closes <- bindCloses

krnlIsExiting == shutdownLevel >= THREADS

-----------------------------------------------------------------------------
(* The drivers in the order in which asyncInitFunctions binds them, and    *)
(* where the binding goes on when one fails: keysets skip LDAP without     *)
(* ODBC, a device's failure is ignored, sessions need the network.         *)

Drivers == {"odbc", "ldap", "device", "tcp", "scoreboard"}
After(d) == CASE d = "odbc" -> "ldap" [] d = "ldap" -> "device"
              [] d = "device" -> (IF UseSessions THEN "tcp" ELSE "end")
              [] d = "tcp" -> "scoreboard" [] OTHER -> "end"
\* Mutant: a driver that fails is tried again.
AfterFailureRetry(d) == IF d = "tcp" THEN d ELSE IF d = "odbc" THEN "device" ELSE After(d)
AfterFailure(d) == CASE d \in {"odbc", "ldap"} -> "device" [] d = "tcp" -> "end" [] OTHER -> After(d)

(* The keyset and the session function count what they have bound in a     *)
(* level, which they clear first; the device function has a flag.          *)
Clears(d) == CASE d = "odbc" -> {"odbc", "ldap"} [] d = "tcp" -> {"tcp", "scoreboard"} [] OTHER -> {}

NotBinding == [driver |-> "end", checked |-> FALSE, failed |-> FALSE]
StartBinding == [driver |-> "odbc", checked |-> FALSE, failed |-> FALSE]

(* The thread that binds: in the background, or Main. *)
Binds == bindThread = "running" \/ phase = "bind"

(* krnlIsExiting(), before each driver *)
CheckExiting ==
  /\ Binds /\ binding.driver # "end" /\ ~binding.checked
  /\ binding' = IF krnlIsExiting THEN [NotBinding EXCEPT !.failed = TRUE]
                                 ELSE [binding EXCEPT !.checked = TRUE]
  /\ UNCHANGED <<semVars, initLevel, shutdownLevel, phase, bound, live, lives>>

\* Mutant: of a group of drivers the first does not count before the last is bound.
BindDriverCountedLate ==
  LET d == binding.driver IN
  /\ Binds /\ binding.checked
  /\ \/ /\ live' = live \union {d}
        /\ bound' = CASE d \in {"odbc", "tcp"} -> bound \ Clears(d)
                      [] d = "ldap" -> bound \union {"odbc", "ldap"}
                      [] d = "scoreboard" -> bound \union {"tcp", "scoreboard"}
                      [] OTHER -> bound \union {d}
        /\ binding' = [binding EXCEPT !.driver = After(d), !.checked = FALSE]
     \/ /\ MayFail /\ UNCHANGED live /\ bound' = bound \ Clears(d)
        /\ binding' = [driver |-> AfterFailure(d), checked |-> FALSE,
                       failed |-> binding.failed \/ d # "device"]
  /\ UNCHANGED <<semVars, initLevel, shutdownLevel, phase, lives>>

(* One driver's init function, and the level or flag that records it *)
BindDriver ==
  LET d == binding.driver IN
  /\ Binds /\ binding.checked
  /\ \/ /\ live' = live \union {d} /\ bound' = (bound \ Clears(d)) \union {d}
        /\ binding' = [binding EXCEPT !.driver = After(d), !.checked = FALSE]
     \/ /\ MayFail /\ UNCHANGED live /\ bound' = bound \ Clears(d)
        /\ binding' = [driver |-> AfterFailure(d), checked |-> FALSE,
                       failed |-> binding.failed \/ d # "device"]
  /\ UNCHANGED <<semVars, initLevel, shutdownLevel, phase, lives>>

(* threadServiceFunction after the thread function: clearSemaphore, then   *)
(* the exit.  threadedBind ignores the status of what it dispatched.       *)
FinishWorker ==
  /\ UNCHANGED <<initLevel, shutdownLevel, phase, binding, bound, live, lives>>
  /\ binding.driver = "end"
  /\ Sem!clearSemaphore \/ Sem!ExitThread

-----------------------------------------------------------------------------
(* initCryptlib, with the initialisation mutex *)

MainAt(from, to) == phase = from /\ phase' = to

(* krnlBeginInit: the semaphores are new, a thread of an earlier life that *)
(* is still asleep in THREAD_WAIT has been woken, but no more than that.   *)
krnlBeginInit ==
  /\ MainAt("off", "preinit") /\ lives < MaxLives
  /\ bindThread \in {"none", "exited"} /\ \A u \in Users : bindWaiter[u] # "waiting"
  /\ lives' = lives + 1
  /\ initLevel' = KRNLDATA /\ shutdownLevel' = NONE
  /\ driverBind' = Sem!Template /\ bindCreator' = "start" /\ bindThread' = "none" /\ bindCloses' = 0
  /\ binding' = NotBinding
  /\ UNCHANGED <<bindWaiter, bound, live>>

(* initSysVars, the self-tests and the pre-init actions *)
PreInit ==
  /\ \/ MainAt("preinit", "init") /\ bound' = bound \ {"device"}
     \/ MayFail /\ MainAt("preinit", "complete") /\ bound' = bound
  /\ UNCHANGED <<semVars, initLevel, shutdownLevel, binding, live, lives>>

InitActions ==
  /\ MainAt("init", "dispatch") \/ (MayFail /\ MainAt("init", "preshutdown"))
  /\ UNCHANGED <<semVars, initLevel, shutdownLevel, binding, bound, live, lives>>

(* CRYPT_OPTION_MISC_ASYNCINIT decides, and a thread that cannot be        *)
(* started is replaced by a binding on the spot.                           *)
DispatchBinding ==
  /\ UNCHANGED <<initLevel, shutdownLevel, bound, live, lives>>
  /\ \/ Sem!CreateThread /\ MainAt("dispatch", IF bindThread' = "running" THEN "set" ELSE "bind")
     \/ MainAt("dispatch", "bind") /\ UNCHANGED semVars
  /\ binding' = StartBinding

\* Mutant: the semaphore is not set.
SetNoSemaphore ==
  /\ UNCHANGED <<semVars, initLevel, shutdownLevel, binding, bound, live, lives>>
  /\ MainAt("set", "selftest")

SetSemaphore ==
  /\ UNCHANGED <<initLevel, shutdownLevel, binding, bound, live, lives>>
  /\ MainAt("set", "selftest") /\ Sem!setSemaphore

FinishBinding ==
  /\ binding.driver = "end"
  /\ MainAt("bind", IF binding.failed THEN "preshutdown" ELSE "selftest")
  /\ UNCHANGED <<semVars, initLevel, shutdownLevel, binding, bound, live, lives>>

(* testKernel and krnlCompleteInit *)
CompleteInit ==
  /\ \/ MainAt("selftest", "up") /\ initLevel' = FULL
     \/ MayFail /\ MainAt("selftest", "preshutdown") /\ initLevel' = initLevel
  /\ UNCHANGED <<semVars, shutdownLevel, binding, bound, live, lives>>

-----------------------------------------------------------------------------
(* krnlWaitSemaphore: waiting for a thread that exists does not fail.      *)
Waits(w) == Sem!Wait(w) /\ (bindWaiter[w] = "waiting" => bindThread = "exited")

(* endCryptlib, and initCryptlib's own way out after an error *)

krnlBeginShutdown ==
  /\ MainAt("up", "preshutdown")
  /\ initLevel' = KRNLDATA /\ shutdownLevel' = THREADS
  /\ UNCHANGED <<semVars, binding, bound, live, lives>>

\* Mutant: nobody waits for the background thread.
PreShutdownAtOnce ==
  /\ UNCHANGED <<semVars, initLevel, shutdownLevel, binding, bound, live, lives>>
  /\ MainAt("preshutdown", "destroy")

(* preShutdownFunctions: only the session function waits for the binding.  *)
PreShutdown ==
  /\ UNCHANGED <<initLevel, shutdownLevel, binding, bound, live, lives>>
  /\ \/ UseSessions /\ MainAt("preshutdown", "wait") /\ Sem!EnterWait(Main)
     \/ ~UseSessions /\ MainAt("preshutdown", "destroy") /\ UNCHANGED semVars

WaitForBinding ==
  /\ UNCHANGED <<initLevel, shutdownLevel, binding, bound, live, lives>>
  /\ phase = "wait"
  /\ \/ Waits(Main) /\ bindWaiter[Main] # "idle" /\ phase' = phase
     \/ bindWaiter[Main] = "idle" /\ phase' = "destroy" /\ UNCHANGED semVars

destroyObjects ==
  /\ MainAt("destroy", "keysets")
  /\ shutdownLevel' = MESSAGES
  /\ UNCHANGED <<semVars, initLevel, binding, bound, live, lives>>

(* shutdownFunctions: what the levels and flags say is bound is released.  *)
EndKeysets ==
  /\ MainAt("keysets", "devices")
  /\ live' = live \ (bound \intersect {"odbc", "ldap"})
  /\ bound' = bound \ {"odbc", "ldap"}
  /\ UNCHANGED <<semVars, initLevel, shutdownLevel, binding, lives>>

EndDevices ==
  /\ MainAt("devices", IF UseSessions THEN "sessions" ELSE "complete")
  /\ live' = live \ (bound \intersect {"device"})
  /\ UNCHANGED <<semVars, initLevel, shutdownLevel, binding, bound, lives>>

EndSessions ==
  /\ MainAt("sessions", "complete")
  /\ live' = live \ (bound \intersect {"tcp", "scoreboard"})
  /\ bound' = bound \ {"tcp", "scoreboard"}
  /\ UNCHANGED <<semVars, initLevel, shutdownLevel, binding, lives>>

(* krnlCompleteShutdown: the mutexes go first, the level stays at ALL.     *)
EndMutexes ==
  /\ MainAt("complete", "clear")
  /\ shutdownLevel' = MUTEXES /\ UNCHANGED semVars
  /\ UNCHANGED <<initLevel, binding, bound, live, lives>>

CompleteShutdown ==
  /\ MainAt("clear", "off")
  /\ initLevel' = 0 /\ shutdownLevel' = ALL
  /\ UNCHANGED <<semVars, binding, bound, live, lives>>

-----------------------------------------------------------------------------

(* An application thread needs a driver.  It does not call cryptlib before *)
(* cryptInit() has returned; it may be late for cryptEnd().                *)
UserWaits(u) ==
  /\ UNCHANGED <<initLevel, shutdownLevel, phase, binding, bound, live, lives>>
  /\ bindWaiter[u] = "idle" => initLevel = FULL \/ krnlIsExiting
  /\ Waits(u)

Starting == PreInit \/ InitActions \/ DispatchBinding \/ SetSemaphore \/ FinishBinding \/ CompleteInit
Ending == \/ PreShutdown \/ WaitForBinding \/ destroyObjects \/ EndKeysets \/ EndDevices
          \/ EndSessions \/ EndMutexes \/ CompleteShutdown
Binding == CheckExiting \/ BindDriver \/ FinishWorker

Init ==
  /\ driverBind = Sem!Template /\ bindCreator = "start" /\ bindThread = "none"
  /\ bindWaiter = [w \in Users \union {Main} |-> "idle"] /\ bindCloses = 0
  /\ initLevel = 0 /\ shutdownLevel = NONE
  /\ phase = "off" /\ binding = NotBinding /\ bound = {} /\ live = {} /\ lives = 0

Next == krnlBeginInit \/ krnlBeginShutdown \/ Starting \/ Ending \/ Binding \/ \E u \in Users : UserWaits(u)

Spec == Init /\ [][Next]_vars

(* Main and the background thread are scheduled and finish what they began; *)
(* nobody has to start, or to end, cryptlib.                               *)
Fairness == /\ WF_vars(Starting) /\ WF_vars(Ending)
            /\ WF_vars(CheckExiting) /\ WF_vars(BindDriver) /\ WF_vars(FinishWorker)

-----------------------------------------------------------------------------

TypeOK ==
  /\ Sem!SemaphoreTypeOK
  /\ initLevel \in {0, KRNLDATA, FULL} /\ shutdownLevel \in NONE..ALL
  /\ phase \in {"off", "preinit", "init", "dispatch", "set", "bind", "selftest", "up", "preshutdown",
                "wait", "destroy", "keysets", "devices", "sessions", "complete", "clear"}
  /\ binding \in [driver : Drivers \union {"end"}, checked : BOOLEAN, failed : BOOLEAN]
  /\ bound \subseteq Drivers /\ live \subseteq Drivers /\ lives \in 0..MaxLives

(* A start that fails anywhere, a binding that is cut short by a shutdown  *)
(* and a full life all end with every driver released that was bound.      *)
ReleasedAtEnd == phase = "off" => live = {}

(* Drivers are released and objects destroyed only when the thread that    *)
(* binds drivers is done ("We have to wait for the driver binding to       *)
(* complete before we can start the shutdown process", cryptses.c).        *)
NoReleaseDuringBinding ==
  phase \in {"destroy", "keysets", "devices", "sessions", "complete", "clear"} => bindThread # "running"

(* A thread that has passed the semaphore finds every driver bound that    *)
(* could be, unless cryptlib is shutting down or the thread was left over  *)
(* from an earlier life.                                                   *)
DriversReady == [][
  \A u \in Users : bindWaiter[u] # "idle" /\ bindWaiter'[u] = "idle" /\ ~krnlIsExiting /\ lives = 1 =>
    binding.driver = "end"]_vars

(* A shutdown, after a whole life or after a failed start, ends.           *)
ShutdownEnds == phase = "preshutdown" ~> phase = "off"

(* The thread handle is not closed under a thread that waits with it, also *)
(* when threads of an earlier life are still on their way out of a wait.   *)
HandleKeptForWaiters == Sem!HandleOpenUnderWaiters

-----------------------------------------------------------------------------
(* What makes the properties inductive, with sessions: the session function *)
(* is the only one that waits for the background thread.                    *)

Beginning == phase \in {"preinit", "init", "dispatch"}

(* The levels follow Main.                                                 *)
Levels ==
  /\ Beginning \/ phase \in {"set", "bind", "selftest", "up"} => shutdownLevel = NONE
  /\ initLevel = FULL <=> phase = "up"
  /\ lives = 0 => phase = "off" /\ shutdownLevel = NONE

(* The background thread is between its start and the wait for its end,    *)
(* and from krnlDispatchThread's return the semaphore is set meanwhile.    *)
WorkerAwaited ==
  /\ Beginning => driverBind.state = "uninited" /\ bindCreator = "start" /\ bindThread = "none"
  /\ phase = "set" => bindCreator = "created"
  /\ bindThread = "running" =>
       /\ phase \in {"set", "selftest", "up", "preshutdown", "wait"}
       /\ phase # "set" => bindCreator = "done"
       /\ driverBind.state = IF bindCreator = "done" THEN "set" ELSE "uninited"
       /\ phase = "wait" => bindWaiter[Main] \in {"checked", "waiting"}

(* A binding that nobody works on has ended.                               *)
BindingEnds ==
  /\ ~Binds => binding.driver = "end"
  /\ binding.checked => binding.driver # "end"

(* The drivers that come before one; all of them come before the end.      *)
Before(d) == CASE d = "odbc" -> {} [] d = "ldap" -> {"odbc"} [] d = "device" -> {"odbc", "ldap"}
               [] d = "tcp" -> {"odbc", "ldap", "device"} [] d = "scoreboard" -> Drivers \ {"scoreboard"}
               [] OTHER -> Drivers

(* What holds resources is recorded, and each release takes its share.     *)
LiveRecorded ==
  /\ live \subseteq bound \intersect Before(binding.driver)
  /\ Beginning \/ phase \in {"off", "complete", "clear"} => live = {}
  /\ phase \in {"devices", "sessions"} => live \intersect {"odbc", "ldap"} = {}
  /\ phase = "sessions" => "device" \notin live

(* In the first life a thread that waits has come after the start, and one *)
(* that has waited has seen the background thread end.                     *)
FirstLife ==
  lives <= 1 /\ ~krnlIsExiting =>
    \A u \in Users : /\ bindWaiter[u] # "idle" => initLevel = FULL
                     /\ bindWaiter[u] \in {"waited", "leaving"} => bindThread # "running"

StartupInv == TypeOK /\ Levels /\ WorkerAwaited /\ BindingEnds /\ LiveRecorded /\ FirstLife
=============================================================================
