---------------------------- MODULE ObjectAccess ----------------------------
(***************************************************************************)
(* The lock of an object that gives itself up while it processes a         *)
(* message: the system object, which reads random data, draws nonces and   *)
(* forwards work with itself unlocked (src/device/system.c), and the       *)
(* default user object, which commits its configuration that way           *)
(* (src/misc/user_attr.c).  krnlSuspendObject and krnlResumeObject are     *)
(* those of src/kernel/obj_access.c.  A thread's stack holds the messages  *)
(* it is in; a critical section of the object table mutex is one action.   *)
(***************************************************************************)
EXTENDS Integers, SequencesExt

CONSTANTS Threads, NoThread,
          AppSends,     \* kinds of message that a thread sends from outside
          NestedSends,  \* and those that a handler sends with the object locked
          ForwardSends, \* and with the object unlocked, when they forward work
          NO_ENTROPY_FAILURES,  \* reads of random data that may fail their test, 5 in
                                \* the code; also, a bound, those of getRandomNonzero
          MaxDepth      \* bound: depth at which a handler still sends messages

Kinds == {"plain", "random", "nonzero", "nonce", "forward", "selftest", "commit"}

ASSUME AccessAssumption ==
  /\ NoThread \notin Threads /\ AppSends \subseteq Kinds /\ NestedSends \union ForwardSends \subseteq Kinds
  /\ NO_ENTROPY_FAILURES \in Nat /\ MaxDepth \in Nat

VARIABLES lockCount, lockOwner,  \* of the object's entry in the table
          stack,                 \* thread -> its messages to the object
          nonceHolder,           \* the owner of MUTEX_RANDOMNONCE
          nonceDataInitialised,
          undone                 \* history: a thread has undone a lock that is not its own

vars == <<lockCount, lockOwner, stack, nonceHolder, nonceDataInitialised, undone>>

-----------------------------------------------------------------------------
(* A message: its kind, where its handler is, whether the handler has told *)
(* the kernel that it leaves the object unlocked (messageExtInfo), the     *)
(* lock count that krnlSuspendObject returned, the reads that it has done  *)
(* over again and, as history, whether its lock is lost: it could not be   *)
(* taken back.                                                             *)

Message(k) == [kind |-> k, at |-> "arrive", unlocked |-> FALSE, refCount |-> 0, failures |-> 0,
               lost |-> FALSE]

Top(t) == Last(stack[t])
At(t, kinds, where) == stack[t] # <<>> /\ Top(t).kind \in kinds /\ Top(t).at = where
Replaced(s, f) == Append(Front(s), f)
SetTop(t, f) == stack' = [stack EXCEPT ![t] = Replaced(@, f)]
GoTo(t, where) == SetTop(t, [Top(t) EXCEPT !.at = where])

(* getNonce asks for its seed twice and then takes the time instead. *)
AfterSeed(f, ok) ==
  CASE f.at = "seed" -> [f EXCEPT !.at = IF ok THEN "drawn" ELSE "retry"]
    [] f.at = "retry" -> [f EXCEPT !.at = "drawn"]
    [] OTHER -> f

Pop(t, ok) ==
  LET below == Front(stack[t]) IN
  stack' = [stack EXCEPT ![t] =
              IF below = <<>> THEN <<>> ELSE Replaced(below, AfterSeed(Last(below), ok))]

BusyElsewhere(t) == lockCount > 0 /\ lockOwner # t

(* A handler between its krnlSuspendObject and its krnlResumeObject, and   *)
(* one that holds a lock for whose end the kernel will undo one.           *)
Suspended(f) == \/ f.at \in {"open", "resume"} /\ ~f.unlocked
                \/ f.kind = "nonce" /\ f.at \in {"getnonce", "seed", "retry", "drawn"}
Locking(f) == f.at # "arrive" /\ ~f.unlocked /\ ~f.lost /\ ~Suspended(f)

LastSuspended(s, n) == CHOOSE i \in 0..n :
  /\ i > 0 => Suspended(s[i])
  /\ \A j \in (i + 1)..n : ~Suspended(s[j])
Claims(s, n) == Cardinality({i \in (LastSuspended(s, n) + 1)..n : Locking(s[i])})

-----------------------------------------------------------------------------
(* krnlSendMessage and dispatchMessage *)

(* From outside, or from a handler, which sends one message at most: a     *)
(* bound.                                                                  *)
Send(t, k) ==
  /\ Len(stack[t]) < MaxDepth
  /\ \/ /\ stack[t] = <<>> /\ k \in AppSends
        /\ stack' = [stack EXCEPT ![t] = <<Message(k)>>]
     \/ /\ \/ At(t, {"plain"}, "held") /\ k \in NestedSends
           \/ At(t, {"forward"}, "open") /\ k \in ForwardSends
        /\ stack' = [stack EXCEPT ![t] =
             Append(Replaced(@, [Top(t) EXCEPT !.at = "return"]), Message(k))]
  /\ UNCHANGED <<lockCount, lockOwner, nonceHolder, nonceDataInitialised, undone>>

Dispatch(t) ==
  /\ At(t, Kinds, "arrive") /\ ~BusyElsewhere(t)
  /\ lockCount' = lockCount + 1 /\ lockOwner' = t
  /\ GoTo(t, "held")
  /\ UNCHANGED <<nonceHolder, nonceDataInitialised, undone>>

\* Mutant: the wait for a busy object has no end.
WaitForever(t) ==
  /\ At(t, Kinds, "arrive") /\ BusyElsewhere(t) /\ Len(stack[t]) = 1
  /\ Pop(t, FALSE)
  /\ UNCHANGED <<lockCount, lockOwner, nonceHolder, nonceDataInitialised, undone>>

(* waitForObject gives up. *)
GiveUpWaiting(t) ==
  /\ At(t, Kinds, "arrive") /\ BusyElsewhere(t)
  /\ Pop(t, FALSE)
  /\ UNCHANGED <<lockCount, lockOwner, nonceHolder, nonceDataInitialised, undone>>

(* The lock that a return undoes is another thread's.                      *)
Undoes(t) == Top(t).lost /\ ~Top(t).unlocked /\ lockCount > 0

\* Mutant: the lock is undone although the handler could not take it back.
ReturnAlways(t) ==
  /\ At(t, Kinds, "return") \/ At(t, {"plain"}, "held")
  /\ lockCount' = IF lockCount > 0 THEN lockCount - 1 ELSE lockCount
  /\ undone' = (undone \/ Undoes(t))
  /\ Pop(t, TRUE)
  /\ UNCHANGED <<lockOwner, nonceHolder, nonceDataInitialised>>

\* Mutant: whoever may leave the object unlocked is taken to have done so.
ReturnIfItCannotUnlock(t) ==
  /\ At(t, Kinds, "return") \/ At(t, {"plain"}, "held")
  /\ lockCount' = IF Top(t).kind \in {"random", "nonce", "forward"} \/ lockCount = 0
                  THEN lockCount ELSE lockCount - 1
  /\ undone' = (undone \/ Undoes(t))
  /\ Pop(t, TRUE)
  /\ UNCHANGED <<lockOwner, nonceHolder, nonceDataInitialised>>

(* The handler returns: its lock is undone unless it has told the kernel   *)
(* that the object is unlocked already.                                    *)
Return(t) ==
  /\ At(t, Kinds, "return") \/ At(t, {"plain"}, "held")
  /\ lockCount' = IF Top(t).unlocked \/ lockCount = 0 THEN lockCount ELSE lockCount - 1
  /\ undone' = (undone \/ Undoes(t))
  /\ Pop(t, TRUE)
  /\ UNCHANGED <<lockOwner, nonceHolder, nonceDataInitialised>>

-----------------------------------------------------------------------------
(* krnlSuspendObject, and what follows in the handlers that call it *)

\* Mutant: a nested lock is kept.
SuspendUnlessNested(t) ==
  /\ At(t, Kinds \ {"plain"}, "held")
  /\ lockCount' = IF lockCount > 1 THEN lockCount ELSE 0
  /\ SetTop(t, [Top(t) EXCEPT !.at = "open", !.refCount = lockCount, !.unlocked = Top(t).kind = "forward"])
  /\ UNCHANGED <<lockOwner, nonceHolder, nonceDataInitialised, undone>>

Suspend(t) ==
  /\ At(t, Kinds \ {"plain"}, "held")
  /\ IF lockCount > 0 /\ lockOwner = t
     THEN /\ lockCount' = 0
          /\ SetTop(t, [Top(t) EXCEPT !.at = "open", !.refCount = lockCount,
                                      !.unlocked = Top(t).kind = "forward"])
     ELSE lockCount' = lockCount /\ GoTo(t, "return")
  /\ UNCHANGED <<lockOwner, nonceHolder, nonceDataInitialised, undone>>

(* getRandomFunction: the data has been read; only a nested lock is taken  *)
(* back, a single one is left undone.                                      *)
ReadRandom(t) ==
  /\ At(t, {"random"}, "open")
  /\ SetTop(t, IF Top(t).refCount > 1 THEN [Top(t) EXCEPT !.at = "resume"]
                                      ELSE [Top(t) EXCEPT !.at = "return", !.unlocked = TRUE])
  /\ UNCHANGED <<lockCount, lockOwner, nonceHolder, nonceDataInitialised, undone>>

(* What the other handlers do with the object unlocked *)
Work(t) ==
  /\ \/ At(t, {"nonce"}, "open") /\ GoTo(t, "getnonce")
     \/ At(t, {"nonzero", "selftest", "commit"}, "open") /\ GoTo(t, "resume")
     \/ At(t, {"forward"}, "open") /\ GoTo(t, "return")
  /\ UNCHANGED <<lockCount, lockOwner, nonceHolder, nonceDataInitialised, undone>>

(* Random data that fails its test, or is not enough yet, is read again.   *)
AfterResume(t) ==
  \/ At(t, {"nonce", "commit", "random", "nonzero"}, "resume") /\ GoTo(t, "return")
  \/ /\ At(t, {"random", "nonzero"}, "resume") /\ Top(t).failures + 1 < NO_ENTROPY_FAILURES
     /\ SetTop(t, [Top(t) EXCEPT !.at = "held", !.failures = @ + 1])
  \/ At(t, {"selftest"}, "resume") /\ GoTo(t, "getnonce")

(* krnlResumeObject *)
Resume(t) ==
  /\ At(t, Kinds, "resume") /\ lockCount = 0
  /\ lockCount' = Top(t).refCount /\ lockOwner' = t
  /\ AfterResume(t)
  /\ UNCHANGED <<nonceHolder, nonceDataInitialised, undone>>

(* It fails when the wait is too long.  The innermost message to random    *)
(* data or a nonce tells the kernel that the object is unlocked; the       *)
(* others, and the messages around them whose locks it had saved, have     *)
(* nobody to tell.                                                         *)
AfterFailure(f) ==
  CASE f.kind \in {"random", "nonce"} -> {[f EXCEPT !.at = "return", !.unlocked = TRUE]}
    [] f.kind = "commit" -> {[f EXCEPT !.at = "return"]}
    [] f.kind = "selftest" -> {[f EXCEPT !.at = "getnonce"]}
    [] f.kind = "nonzero" -> {[f EXCEPT !.at = "return"]} \union
         IF f.failures + 1 < NO_ENTROPY_FAILURES
         THEN {[f EXCEPT !.at = "held", !.failures = f.failures + 1]} ELSE {}

(* The messages whose locks a suspended one had saved lose them.           *)
Stranded(s) ==
  LET k == LastSuspended(s, Len(s) - 1) IN
  [i \in 1..Len(s) |-> IF i > k /\ Locking(s[i]) THEN [s[i] EXCEPT !.lost = TRUE] ELSE s[i]]

ResumeFails(t) ==
  /\ At(t, Kinds, "resume") /\ lockCount > 0
  /\ \E f \in AfterFailure(Top(t)) :
       stack' = [stack EXCEPT ![t] = Stranded(Replaced(@, f))]
  /\ UNCHANGED <<lockCount, lockOwner, nonceHolder, nonceDataInitialised, undone>>

-----------------------------------------------------------------------------
(* getNonce *)

EnterNonceMutex(t) ==
  /\ At(t, Kinds, "getnonce") /\ nonceHolder = NoThread
  /\ nonceHolder' = t
  /\ GoTo(t, IF nonceDataInitialised THEN "drawn" ELSE "seed")
  /\ UNCHANGED <<lockCount, lockOwner, nonceDataInitialised, undone>>

AskForSeed(t) ==
  /\ At(t, Kinds, "seed") \/ At(t, Kinds, "retry")
  /\ stack' = [stack EXCEPT ![t] = Append(@, Message("random"))]
  /\ UNCHANGED <<lockCount, lockOwner, nonceHolder, nonceDataInitialised, undone>>

(* The self-test goes on to selftestDevice, which forwards.                *)
ExitNonceMutex(t) ==
  /\ At(t, Kinds, "drawn")
  /\ nonceHolder' = NoThread /\ nonceDataInitialised' = TRUE
  /\ \/ At(t, {"nonce"}, "drawn") /\ GoTo(t, "resume")
     \/ At(t, {"selftest"}, "drawn") /\ SetTop(t, [Top(t) EXCEPT !.kind = "forward", !.at = "held"])
  /\ UNCHANGED <<lockCount, lockOwner, undone>>

Init ==
  /\ lockCount = 0 /\ lockOwner = NoThread
  /\ stack = [t \in Threads |-> <<>>]
  /\ nonceHolder = NoThread /\ nonceDataInitialised = FALSE /\ undone = FALSE

Step(t) == \/ Dispatch(t) \/ GiveUpWaiting(t) \/ Return(t) \/ Suspend(t) \/ ReadRandom(t) \/ Work(t)
           \/ Resume(t) \/ ResumeFails(t) \/ EnterNonceMutex(t)
           \/ AskForSeed(t) \/ ExitNonceMutex(t)
Next == \E t \in Threads : Step(t) \/ \E k \in Kinds : Send(t, k)

Spec == Init /\ [][Next]_vars

(* Threads are scheduled, and mutexes are granted in turn.                 *)
FairSpec == Spec /\ \A t \in Threads : WF_vars(Step(t)) /\ SF_vars(EnterNonceMutex(t))

-----------------------------------------------------------------------------

Frame == [kind : Kinds, unlocked : BOOLEAN, refCount : Nat, failures : Nat, lost : BOOLEAN,
          at : {"arrive", "held", "open", "resume", "return",
                "getnonce", "seed", "retry", "drawn"}]

TypeOK ==
  /\ lockCount \in Nat /\ lockOwner \in Threads \union {NoThread}
  /\ nonceHolder \in Threads \union {NoThread} /\ nonceDataInitialised \in BOOLEAN
  /\ stack \in [Threads -> Seq(Frame)] /\ undone \in BOOLEAN

Owed(t) == IF lockOwner = t THEN lockCount ELSE 0

(* The object is never kept locked for good: however messages nest,        *)
(* suspend it and fail to take it back, and whoever undoes whose lock,     *)
(* each lock on it has a handler of its owner that will undo it.           *)
NotKeptLocked == \A t \in Threads : Owed(t) <= Claims(stack[t], Len(stack[t]))

(* The lock count is the number of handlers that hold the lock, and they   *)
(* are all the owner's, until a handler that could not take the object     *)
(* back (krnlResumeObject) has nobody to tell and the kernel undoes the    *)
(* lock of another thread.                                                 *)
LockCountExact ==
  ~undone => \A t \in Threads : Claims(stack[t], Len(stack[t])) = Owed(t)

(* "We couldn't re-lock the system object, let the caller know"            *)
(* (system.c:212): a lock is only ever undone by the thread that holds it. *)
OwnLockUndone == [][
  \A t \in Threads : lockCount' < lockCount /\ stack'[t] # stack[t] => lockOwner = t]_vars

(* A commit that could not take the user object back returns "with the     *)
(* user object released, which will cause [the kernel] to throw an         *)
(* exception due to the inconsistent object state" (user_attr.c:214-216):  *)
(* it finds no lock to undo, or another number of them than it left.       *)
ReleasedIsNoticed == [][
  \A t \in Threads : At(t, {"commit"}, "return") /\ Top(t).lost /\ stack'[t] = <<>> =>
    lockCount = 0 \/ lockCount # Top(t).refCount]_vars

(* A thread that holds the system object waits for the nonce mutex, and    *)
(* the holder of the mutex waits for the system object.                    *)
Embraced(t, u) ==
  /\ lockCount > 0 /\ lockOwner = t /\ At(t, Kinds, "getnonce")
  /\ nonceHolder = u /\ u # t /\ At(u, Kinds, "arrive")

(* "In order to avoid deadlock we have to unlock the system device at this *)
(* point" (system.c): object and mutex are never waited for crosswise.     *)
NoEmbrace == ~\E t, u \in Threads : Embraced(t, u)

(* Every message to the object returns (waitForObject gives up after       *)
(* MAX_WAITCOUNT, and nobody who holds the object waits for anything else).*)
MessagesReturn == \A t \in Threads : stack[t] # <<>> ~> stack[t] = <<>>

-----------------------------------------------------------------------------
(* What makes NotKeptLocked and LockCountExact inductive.                  *)

(* Handlers that give the object up for good, or hand over to one that     *)
(* does.  They "can never be called recursively" (cryptdev.c), that is,    *)
(* with the object held by a handler around them.                          *)
Bare == {"forward", "selftest"}
CalledBare == Bare \intersect NestedSends = {}

(* Kinds of message that there are: getNonce asks for random data, and the *)
(* self-test forwards.                                                     *)
Sent == AppSends \union NestedSends \union ForwardSends \union {"random", "forward"}

(* What a handler does where; it has noted no more of the lock count than  *)
(* it and the c messages around it hold, and exactly that while nobody has *)
(* undone another's lock.  Who has lost a lock has none around it.         *)
FrameFits(f, c, exact) ==
  /\ f.unlocked => f.at = "return" \/ (f.kind = "forward" /\ f.at = "open")
  /\ f.at = "open" => f.kind # "plain" /\ (f.kind = "forward" => f.unlocked)
  /\ f.at = "resume" => f.kind \in {"random", "nonzero", "nonce", "selftest", "commit"}
  /\ f.at \in {"getnonce", "seed", "retry", "drawn"} => f.kind \in {"nonce", "selftest"}
  /\ Suspended(f) => f.refCount <= c + 1 /\ (exact => f.refCount = c + 1)
  /\ f.lost => c = 0 /\ f.at # "arrive" /\ ~Suspended(f)
  /\ CalledBare /\ f.kind \in Bare => c = 0
  /\ f.kind \in Sent

Fits(s, exact) == \A i \in 1..Len(s) : FrameFits(s[i], Claims(s, i - 1), exact)
FramesFit == \A t \in Threads : Fits(stack[t], CalledBare /\ ~undone)

AccessInv == TypeOK /\ NotKeptLocked /\ (CalledBare => LockCountExact) /\ FramesFit
=============================================================================
