---------------------------- MODULE Lifecycle_proofs ----------------------------
(***************************************************************************)
(* Proofs about the life of an object in a plain kernel: it leaves the     *)
(* table only by its own DESTROY, from a thread that is alone in it; its   *)
(* lock count is the number of calls inside it; once a shutdown has begun, *)
(* only its user still reaches its handler; and every step of the kernel   *)
(* is a step of ObjectLifecycle or changes nothing there.  And the same of *)
(* removal, lock count, returns and set-up in a kernel of one thread that  *)
(* has locks and dependent objects.                                        *)
(***************************************************************************)
EXTENDS ObjectKernel_proofs, FiniteSetTheorems, WellFoundedInduction

SameObjects == \A h \in Handles : objectTable'[h].uniqueID = objectTable[h].uniqueID

LEMMA UpdateKeepsObject ==
  ASSUME TypeOK, NEW h \in Handles, NEW o, SetEntry(h, o),
         o.uniqueID = objectTable[h].uniqueID
  PROVE  SameObjects
<1>1. /\ objectTable'[h] = o
      /\ \A g \in Handles : g # h => objectTable'[g] = objectTable[g]
  BY DEF SetEntry, TypeOK
<1> QED
  BY <1>1 DEF SameObjects

LEMMA UnchangedObjects == ASSUME UNCHANGED objectTable PROVE SameObjects
  BY DEF SameObjects

LEMMA EnterHandlerKeepsObject ==
  ASSUME TypeOK, NEW t \in Threads, Top(t).handle \in Handles,
         NEW o \in Entry, o.uniqueID = Obj(t).uniqueID, NEW uid, NEW m,
         EnterHandler(t, o, uid, m)
  PROVE  SameObjects
<1> DEFINE p == [o EXCEPT !.lockCount = @ + 1, !.lockOwner = t]
<1>1. SetEntry(Top(t).handle, p) /\ p.uniqueID = objectTable[Top(t).handle].uniqueID
  BY DEF EnterHandler, Entry, Obj
<1> HIDE DEF p
<1> QED
  BY <1>1, UpdateKeepsObject

LEMMA ProcessKeepsObject ==
  ASSUME TypeOK, FramesPlain, NEW t \in Threads, NEW p \in {"call", "wait"}, At(t, p),
         Process(t)
  PROVE  SameObjects
<1>1. /\ Top(t).handle \in Handles /\ Obj(t) \in Entry
      /\ Obj(t) = objectTable[Top(t).handle]
  BY TopCall
<1>2. Signal(Obj(t)) \in Entry /\ Signal(Obj(t)).uniqueID = Obj(t).uniqueID
  BY <1>1, SignalTyped DEF Signal, Entry
<1>3. CASE SetEntry(Top(t).handle, Signal(Obj(t))) \/ UNCHANGED objectTable
  BY <1>1, <1>2, <1>3, UpdateKeepsObject, UnchangedObjects
<1>4. CASE EnterHandler(t, Obj(t), Obj(t).uniqueID, Effective(t))
  BY <1>1, <1>4, EnterHandlerKeepsObject
<1>5. CASE EnterHandler(t, Signal(Obj(t)), Obj(t).uniqueID, Effective(t))
  BY <1>1, <1>2, <1>5, EnterHandlerKeepsObject
<1>6. ~HasDependent(Obj(t))
  BY <1>1 DEF FramesPlain, HasDependent
<1> QED
  BY <1>3, <1>4, <1>5, <1>6 DEF Process

(* Only a new object and the end of a DESTROY change what is in an entry.  *)
LEMMA OthersKeepObjects ==
  ASSUME PlainKernel, Inv, NEW t \in Threads, Begin(t) \/ Finish(t) \/ Kernel(t),
         ~HandlerReturn(t), ~\E h \in Handles : EnterObject(t, h)
  PROVE  SameObjects
<1>1. TypeOK /\ FramesPlain
  BY DEF Inv
<1>2. ASSUME NEW p \in {"publish", "call"}, At(t, p)
      PROVE  /\ Top(t).handle \in Handles /\ Obj(t) \in Entry
             /\ Obj(t) = objectTable[Top(t).handle]
  BY <1>1, <1>2, TopCall
<1>3. CASE Publish(t)
  <2> DEFINE o == [Obj(t) EXCEPT !.internal = FALSE, !.intRefCount = @ - 1,
                                 !.extRefCount = @ + 1]
  <2>1. At(t, "publish") /\ (SetEntry(Top(t).handle, o) \/ UNCHANGED objectTable)
    BY <1>3 DEF Publish
  <2>2. o.uniqueID = Obj(t).uniqueID
    BY <1>2, <2>1 DEF Entry
  <2> HIDE DEF o
  <2> QED
    BY <1>1, <1>2, <2>1, <2>2, UpdateKeepsObject, UnchangedObjects
<1>4. CASE IncRef(t)
  <2> DEFINE o == [Obj(t) EXCEPT !.intRefCount = @ + 1]
  <2>1. At(t, "call") /\ (SetEntry(Top(t).handle, o) \/ UNCHANGED objectTable)
    BY <1>4 DEF IncRef, Call
  <2>2. o.uniqueID = Obj(t).uniqueID
    BY <1>2, <2>1 DEF Entry
  <2> HIDE DEF o
  <2> QED
    BY <1>1, <1>2, <2>1, <2>2, UpdateKeepsObject, UnchangedObjects
<1>5. CASE DecRef(t)
  <2> DEFINE o == DropRef(Obj(t), External(t))
  <2>1. At(t, "call") /\ (SetEntry(Top(t).handle, o) \/ UNCHANGED objectTable)
    BY <1>5 DEF DecRef, Call
  <2>2. o.uniqueID = Obj(t).uniqueID
    BY <1>2, <2>1 DEF Entry, DropRef
  <2> HIDE DEF o
  <2> QED
    BY <1>1, <1>2, <2>1, <2>2, UpdateKeepsObject, UnchangedObjects
<1>6. CASE Ready(t)
  <2> DEFINE o == [Obj(t) EXCEPT !.notinited = FALSE]
  <2>1. At(t, "call") /\ SetEntry(Top(t).handle, o)
    BY <1>6 DEF Ready, Call
  <2>2. o.uniqueID = Obj(t).uniqueID
    BY <1>2, <2>1 DEF Entry
  <2> HIDE DEF o
  <2> QED
    BY <1>1, <1>2, <2>1, <2>2, UpdateKeepsObject
<1>7. CASE DispatchDirect(t)
  <2>1. /\ At(t, "call")
        /\ \/ UNCHANGED objectTable
           \/ EnterHandler(t, Obj(t), Obj(t).uniqueID, "use")
    BY <1>7 DEF DispatchDirect, Dispatching
  <2> QED
    BY <1>1, <1>2, <2>1, EnterHandlerKeepsObject, UnchangedObjects
<1>8. CASE DispatchQueued(t) \/ EndWait(t)
  BY <1>1, <1>8, ProcessKeepsObject DEF DispatchQueued, Enqueueing, Dispatching, EndWait
<1>9. CASE \/ BeginCreate(t) \/ RejectCreate(t) \/ FailInit(t) \/ CompleteInit(t)
           \/ \E h \in Handles, m \in MayBeSent : Send(t, h, m)
           \/ RejectHandle(t) \/ RejectNesting(t) \/ BeginWait(t) \/ KeepWaiting(t)
           \/ AbandonWait(t)
  BY <1>9, UnchangedObjects
  DEF BeginCreate, RejectCreate, FailInit, CompleteInit, Send, RejectHandle,
      RejectNesting, BeginWait, KeepWaiting, AbandonWait
<1> QED
  BY <1>3, <1>4, <1>5, <1>6, <1>7, <1>8, <1>9, PlainSteps DEF Begin, Finish, Kernel

LEMMA ReturnRemovesAlone ==
  ASSUME PlainKernel, Inv, NEW t \in Threads, HandlerReturn(t)
  PROVE  RemovesAlone
<1>1. TypeOK /\ At(t, "handler") /\ Return(t)
  BY DEF Inv, HandlerReturn
<1>2. /\ Len(stack[t]) \in 1..Len(stack[t]) /\ Top(t) = stack[t][Len(stack[t])]
      /\ Top(t).at = "handler" /\ Top(t).handle \in Handles /\ Obj(t) \in Entry
      /\ Obj(t) = objectTable[Top(t).handle]
  BY <1>1, TopCall
<1>3. OwnsObject(t, Len(stack[t]))
  BY <1>2 DEF Inv, HandlersOwn
<1>4. CASE isDestroy(Top(t).msg)
  <2> SUFFICES ASSUME NEW h \in Handles,
                      objectTable'[h].uniqueID # objectTable[h].uniqueID
               PROVE  /\ objectTable[h].signalled /\ objectTable[h].lockCount = 1
                      /\ Users(h) = {t} /\ stack'[t] = Front(stack[t])
    BY <1>1, <1>4 DEF RemovesAlone
  <2>1. h = Top(t).handle
    BY <1>1, <1>2 DEF HandlerReturn, SetEntry, TypeOK
  <2>2. objectTable[h].signalled /\ objectTable[h].lockCount = 1
    BY <1>2, <1>3, <1>4, <2>1 DEF OwnsObject
  <2>3. t \in Users(h)
    BY <1>2, <2>1 DEF Users, isInside
  <2>4. Users(h) = {t}
    BY <2>3, InvGivesExclusiveUse DEF ExclusiveUse
  <2>5. stack'[t] = Front(stack[t])
    BY <1>1 DEF Return, TypeOK
  <2> QED
    BY <2>2, <2>4, <2>5
<1>5. CASE ~isDestroy(Top(t).msg)
  <2> DEFINE o == [Obj(t) EXCEPT !.lockCount = @ - 1]
  <2>1. SetEntry(Top(t).handle, o) \/ UNCHANGED objectTable
    BY <1>5 DEF HandlerReturn
  <2>2. o.uniqueID = Obj(t).uniqueID
    BY <1>2 DEF Entry
  <2> HIDE DEF o
  <2>3. SameObjects
    BY <1>1, <1>2, <2>1, <2>2, UpdateKeepsObject, UnchangedObjects
  <2> QED
    BY <2>3 DEF SameObjects, RemovesAlone
<1> QED
  BY <1>4, <1>5

LEMMA StepRemovesAlone ==
  ASSUME PlainKernel PROVE Inv /\ [Next]_vars => [RemovesAlone]_vars
<1> SUFFICES ASSUME Inv, Next
             PROVE  RemovesAlone
  OBVIOUS
<1>1. CASE BeginShutdown
  BY <1>1, UnchangedObjects DEF BeginShutdown, SameObjects, RemovesAlone
<1>2. ASSUME NEW t \in Threads, Begin(t) \/ Finish(t) \/ Kernel(t)
      PROVE  RemovesAlone
  <2>1. CASE HandlerReturn(t)
    BY <2>1, ReturnRemovesAlone
  <2>2. ASSUME NEW h \in Handles, EnterObject(t, h)
        PROVE  RemovesAlone
    <3>1. /\ isFree(objectTable[h])
          /\ \A g \in Handles : g # h => objectTable'[g] = objectTable[g]
      BY <2>2 DEF EnterObject, SetEntry, Inv, TypeOK
    <3> QED
      BY <3>1 DEF RemovesAlone
  <2>3. CASE ~HandlerReturn(t) /\ ~\E h \in Handles : EnterObject(t, h)
    BY <1>2, <2>3, OthersKeepObjects DEF SameObjects, RemovesAlone
  <2> QED
    BY <2>1, <2>2, <2>3
<1> QED
  BY <1>1, <1>2 DEF Next

(* In a plain kernel an object's entry is only ever cleared by the thread  *)
(* that runs its DESTROY, behind the signalled state and with nobody else  *)
(* in the object: destroyObjectData needs no check of its own.             *)
THEOREM RemovedByItsOnlyUser == ASSUME PlainKernel PROVE Spec => RemovedAlone
  BY Invariant, StepRemovesAlone, PTL DEF Spec, RemovedAlone

-----------------------------------------------------------------------------
(* The kinds of step of a plain kernel, by what they do to the life of the *)
(* objects and to the calls inside them.                                   *)

SameLife(o, p) ==
  /\ p.uniqueID = o.uniqueID /\ p.notinited = o.notinited
  /\ p.signalled = o.signalled
  /\ p.lockCount = o.lockCount /\ p.lockOwner = o.lockOwner

SameLives == \A h \in Handles : SameLife(objectTable[h], objectTable'[h])

(* Nobody enters or leaves an object, and the stack gets no deeper than it *)
(* may.                                                                    *)
Around(t) ==
  \/ stack[t] # << >> /\ Top(t).at # "handler" /\ Return(t)
  \/ \E f \in Frame :
       /\ stack[t] # << >> /\ Top(t).at # "handler"
       /\ f.at \notin {"handler", "create", "init"} /\ Replace(t, f)
  \/ \E f \in Frame :
       /\ f.at # "handler" /\ Push(t, f)
       /\ Len(stack[t]) < MaxFrames \/ (f.at = "call" /\ At(t, "init"))

Quiet(t) == SameLives /\ Around(t)

(* A DESTROY meets an object that is still being set up.                   *)
Dooms(t) ==
  /\ At(t, "call") \/ At(t, "wait")
  /\ ~isFree(Obj(t)) /\ Obj(t).notinited
  /\ SetEntry(Top(t).handle, Signal(Obj(t))) /\ Return(t)

(* The message m reaches the object's handler.                             *)
Enters(t, m) ==
  /\ At(t, "call") \/ At(t, "wait")
  /\ Receives(t, Obj(t), m)
  /\ \/ m = "use" /\ ~Obj(t).signalled /\ EnterHandler(t, Obj(t), Obj(t).uniqueID, m)
     \/ /\ isDestroy(m) /\ (Obj(t).signalled <=> m = "converted")
        /\ EnterHandler(t, Signal(Obj(t)), Obj(t).uniqueID, m)

LEMMA UnchangedLives == ASSUME UNCHANGED objectTable PROVE SameLives
  BY DEF SameLives, SameLife

LEMMA UpdateKeepsLives ==
  ASSUME TypeOK, NEW h \in Handles, NEW o, SetEntry(h, o), SameLife(objectTable[h], o)
  PROVE  SameLives
<1>1. /\ objectTable'[h] = o
      /\ \A g \in Handles : g # h => objectTable'[g] = objectTable[g]
  BY DEF SetEntry, TypeOK
<1> QED
  BY <1>1 DEF SameLives, SameLife

LEMMA CreatingKinds ==
  ASSUME Inv, NEW t \in Threads,
         \/ BeginCreate(t) \/ RejectCreate(t) \/ FailInit(t) \/ CompleteInit(t)
         \/ Publish(t)
  PROVE  Quiet(t)
<1>1. TypeOK
  BY DEF Inv
<1>2. CASE BeginCreate(t)
  <2> DEFINE f == NewFrame("create", NoHandle, 0, "none")
  <2>1. f \in Frame /\ f.at = "create"
    BY NewFrameTyped DEF Places, Messages, NewFrame
  <2>2. Push(t, f) /\ SameLives /\ Len(stack[t]) < MaxFrames
    BY <1>2, UnchangedLives DEF BeginCreate, MaySend
  <2> HIDE DEF f
  <2> QED
    BY <2>1, <2>2 DEF Quiet, Around
<1>3. CASE RejectCreate(t)
  BY <1>3, UnchangedLives DEF RejectCreate, At, Quiet, Around
<1>4. CASE FailInit(t)
  <2> DEFINE f == NewFrame("call", Top(t).handle, 0, "destroy")
  <2>1. At(t, "init") /\ Push(t, f) /\ SameLives
    BY <1>4, UnchangedLives DEF FailInit
  <2>2. f \in Frame /\ f.at = "call"
    BY <1>1, <2>1, TopCall, NewFrameTyped DEF Places, Messages, NewFrame
  <2> HIDE DEF f
  <2> QED
    BY <2>1, <2>2 DEF Quiet, Around
<1>5. CASE CompleteInit(t)
  <2> DEFINE f == [Top(t) EXCEPT !.at = "call", !.msg = "ready"]
  <2>1. At(t, "init") /\ SameLives /\ (Return(t) \/ Replace(t, f))
    BY <1>5, UnchangedLives DEF CompleteInit
  <2>2. stack[t] # << >> /\ Top(t).at = "init" /\ Top(t) \in Frame
    BY <1>1, <2>1, TopCall
  <2>3. f \in Frame /\ f.at = "call"
    BY <2>2 DEF Frame, Places, Messages
  <2> HIDE DEF f
  <2> QED
    BY <2>1, <2>2, <2>3 DEF Quiet, Around
<1>6. CASE Publish(t)
  <2> DEFINE o == [Obj(t) EXCEPT !.internal = FALSE, !.intRefCount = @ - 1,
                                 !.extRefCount = @ + 1]
  <2>1. At(t, "publish") /\ Return(t)
        /\ (SetEntry(Top(t).handle, o) \/ UNCHANGED objectTable)
    BY <1>6 DEF Publish
  <2>2. /\ stack[t] # << >> /\ Top(t).at = "publish" /\ Top(t).handle \in Handles
        /\ Obj(t) = objectTable[Top(t).handle] /\ Obj(t) \in Entry
    BY <1>1, <2>1, TopCall
  <2>3. SameLife(Obj(t), o)
    BY <2>2 DEF Entry, SameLife
  <2> HIDE DEF o
  <2>4. SameLives
    BY <1>1, <2>1, <2>2, <2>3, UpdateKeepsLives, UnchangedLives
  <2> QED
    BY <2>1, <2>2, <2>4 DEF Quiet, Around
<1> QED
  BY <1>2, <1>3, <1>4, <1>5, <1>6

LEMMA SendingKinds ==
  ASSUME Inv, NEW t \in Threads,
         \/ \E h \in Handles, m \in MayBeSent : Send(t, h, m)
         \/ RejectHandle(t) \/ IncRef(t) \/ DecRef(t)
         \/ RejectNesting(t) \/ BeginWait(t) \/ KeepWaiting(t) \/ AbandonWait(t)
  PROVE  Quiet(t)
<1>1. TypeOK
  BY DEF Inv
<1>2. ASSUME NEW h \in Handles, NEW m \in MayBeSent, Send(t, h, m)
      PROVE  Quiet(t)
  <2> DEFINE f == NewFrame("call", h, 0, m)
  <2>1. Push(t, f) /\ SameLives /\ Len(stack[t]) < MaxFrames
    BY <1>2, UnchangedLives DEF Send, MaySend
  <2>2. f \in Frame /\ f.at = "call"
    BY NewFrameTyped DEF Places, Messages, NewFrame
  <2> HIDE DEF f
  <2> QED
    BY <2>1, <2>2 DEF Quiet, Around
<1>3. ASSUME NEW p \in {"call", "wait"}, At(t, p)
      PROVE  /\ stack[t] # << >> /\ Top(t).at # "handler" /\ Top(t).handle \in Handles
             /\ Obj(t) = objectTable[Top(t).handle] /\ Obj(t) \in Entry
             /\ Top(t) \in Frame /\ Effective(t) \in Messages /\ Top(t).at = p
  BY <1>1, <1>3, TopCall, InCall
<1>4. CASE RejectHandle(t) \/ RejectNesting(t) \/ AbandonWait(t)
  BY <1>3, <1>4, UnchangedLives
  DEF RejectHandle, RejectNesting, Enqueueing, Dispatching, AbandonWait, Quiet, Around
<1>5. CASE IncRef(t)
  <2> DEFINE o == [Obj(t) EXCEPT !.intRefCount = @ + 1]
  <2>1. At(t, "call") /\ Return(t)
        /\ (SetEntry(Top(t).handle, o) \/ UNCHANGED objectTable)
    BY <1>5 DEF IncRef, Call
  <2>2. SameLife(Obj(t), o)
    BY <1>3, <2>1 DEF Entry, SameLife
  <2> HIDE DEF o
  <2>3. SameLives
    BY <1>1, <1>3, <2>1, <2>2, UpdateKeepsLives, UnchangedLives
  <2> QED
    BY <1>3, <2>1, <2>3 DEF Quiet, Around
<1>6. CASE DecRef(t)
  <2> DEFINE p == DropRef(Obj(t), External(t))
             f == NewFrame("call", Top(t).handle, 0, "destroy")
  <2>1. /\ At(t, "call")
        /\ SetEntry(Top(t).handle, p) \/ UNCHANGED objectTable
        /\ Return(t) \/ Replace(t, f)
    BY <1>6 DEF DecRef, Call
  <2>2. SameLife(Obj(t), p)
    BY <1>3, <2>1 DEF Entry, DropRef, SameLife
  <2>3. f \in Frame /\ f.at = "call"
    BY <1>3, <2>1, NewFrameTyped DEF Places, Messages, NewFrame
  <2> HIDE DEF f, p
  <2>4. SameLives
    BY <1>1, <1>3, <2>1, <2>2, UpdateKeepsLives, UnchangedLives
  <2> QED
    BY <1>3, <2>1, <2>3, <2>4 DEF Quiet, Around
<1>7. CASE BeginWait(t)
  <2> DEFINE f == [Top(t) EXCEPT !.at = "wait", !.uid = Obj(t).uniqueID,
                                 !.msg = Effective(t)]
  <2>1. At(t, "call") /\ SameLives /\ (Return(t) \/ Replace(t, f))
    BY <1>7, UnchangedLives DEF BeginWait, Enqueueing, Dispatching
  <2>2. f \in Frame /\ f.at = "wait"
    BY <1>3, <2>1 DEF Frame, Places, Entry
  <2> HIDE DEF f
  <2> QED
    BY <1>3, <2>1, <2>2 DEF Quiet, Around
<1>8. CASE KeepWaiting(t)
  <2> DEFINE f == [Top(t) EXCEPT !.n = Polls(t)]
  <2>1. At(t, "wait") /\ SameLives /\ Replace(t, f)
    BY <1>8, UnchangedLives DEF KeepWaiting
  <2>2. Polls(t) \in Int
    BY <1>3, <2>1 DEF Polls, Frame
  <2>3. f \in Frame /\ f.at = "wait"
    BY <1>3, <2>1, <2>2 DEF Frame
  <2> HIDE DEF f
  <2> QED
    BY <1>3, <2>1, <2>3 DEF Quiet, Around
<1> QED
  BY <1>2, <1>4, <1>5, <1>6, <1>7, <1>8

LEMMA ProcessKinds ==
  ASSUME Inv, NEW t \in Threads, NEW p \in {"call", "wait"}, At(t, p),
         ~isFree(Obj(t)), ~InUseByOther(t),
         Effective(t) \in {"use", "destroy", "converted"}, Process(t)
  PROVE  Quiet(t) \/ Dooms(t) \/ \E m \in {"use", "destroy", "converted"} : Enters(t, m)
<1> PICK m : m = Effective(t)
  OBVIOUS
<1> PICK o : o = Obj(t)
  OBVIOUS
<1>1. TypeOK
  BY DEF Inv
<1>2. /\ Len(stack[t]) \in 1..Len(stack[t]) /\ Top(t) = stack[t][Len(stack[t])]
      /\ stack[t] # << >> /\ Top(t).at = p /\ Top(t).handle \in Handles
      /\ o = objectTable[Top(t).handle] /\ o \in Entry
  BY <1>1, TopCall
<1>3. PlainFrame(Top(t)) /\ o.dependentObject = NoHandle
  BY <1>2 DEF Inv, FramesPlain
<1>4. /\ m \in {"use", "destroy"} => m = Top(t).msg
      /\ m = "converted" => isMaking(Top(t)) /\ o.signalled
  BY <1>2, <1>3 DEF Effective, PlainFrame, isMaking
<1>5. isDestroy(m) => o.lockCount = 0
  BY <1>4, DestroyedIsIdle DEF isDestroy
<1>6. m = "converted" => o.notinited
  BY <1>2, <1>4, MakerFacts
<1>7. o.lockCount = 0 \/ o.lockOwner = t
  <2>1. o.lockCount >= 0 /\ o.lockCount \in Int
    BY <1>2 DEF Inv, LocksHeld, LockHeld, Entry
  <2> QED
    BY <2>1 DEF InUseByOther, isInUse
<1>8. CASE Return(t) /\ UNCHANGED objectTable
  <2>1. Top(t).at # "handler"
    BY <1>2
  <2> QED
    BY <1>2, <1>8, <2>1, UnchangedLives DEF Quiet, Around
<1>9. CASE o.notinited /\ Return(t) /\ SetEntry(Top(t).handle, Signal(o))
  BY <1>9 DEF Dooms
<1>10. CASE ~isInvalidState(o) /\ m = "use" /\ EnterHandler(t, o, o.uniqueID, m)
  <2>1. Receives(t, o, m) /\ ~o.signalled
    BY <1>3, <1>7, <1>10 DEF Receives, isInvalidState, isFree, isDestroy
  <2> QED
    BY <1>10, <2>1 DEF Enters
<1>11. CASE /\ isDestroy(m)
            /\ isInvalidState(o) => m = "converted"
            /\ EnterHandler(t, Signal(o), o.uniqueID, m)
  <2>1. m # "use"
    BY <1>11 DEF isDestroy
  <2>2. o.notinited <=> m = "converted"
    BY <1>6, <1>11 DEF isInvalidState
  <2>3. m = "destroy" => ~o.signalled
    BY <1>11 DEF isInvalidState
  <2>4. Receives(t, o, m)
    BY <1>3, <1>4, <1>5, <1>11, <2>1, <2>2 DEF Receives, isFree
  <2>5. Enters(t, m)
    BY <1>4, <1>11, <2>3, <2>4 DEF Enters, isDestroy
  <2> QED
    BY <2>5
<1>12. ~HasDependent(o)
  BY <1>3 DEF HasDependent
<1> QED
  BY <1>8, <1>9, <1>10, <1>11, <1>12 DEF Process

LEMMA DispatchingKinds ==
  ASSUME Inv, NEW t \in Threads,
         DispatchDirect(t) \/ DispatchQueued(t) \/ EndWait(t)
  PROVE  Quiet(t) \/ Dooms(t) \/ \E m \in {"use", "destroy", "converted"} : Enters(t, m)
<1>1. TypeOK
  BY DEF Inv
<1>2. CASE DispatchQueued(t)
  BY <1>2, ProcessKinds DEF DispatchQueued, Enqueueing, Dispatching, Accepted
<1>3. CASE EndWait(t)
  <2>1. At(t, "wait") /\ ~isFree(Obj(t)) /\ ~InUseByOther(t) /\ Process(t)
    BY <1>3 DEF EndWait, SameObject, InUseByOther
  <2>2. PlainFrame(Top(t)) /\ Top(t).at = "wait"
    BY <1>1, <2>1, TopCall DEF Inv, FramesPlain
  <2>3. Effective(t) \in {"use", "destroy", "converted"}
    BY <2>2 DEF Effective, PlainFrame
  <2> QED
    BY <2>1, <2>3, ProcessKinds
<1>4. CASE DispatchDirect(t)
  <2>1. At(t, "call") /\ ~isFree(Obj(t)) /\ ~(Obj(t).lockCount > 0)
    BY <1>4 DEF DispatchDirect, Dispatching, Accepted, isInUse
  <2>2. /\ stack[t] # << >> /\ Top(t).at = "call" /\ Top(t).handle \in Handles
        /\ Obj(t) = objectTable[Top(t).handle] /\ Obj(t) \in Entry
    BY <1>1, <2>1, TopCall
  <2>3. CASE Return(t) /\ UNCHANGED objectTable
    BY <2>2, <2>3, UnchangedLives DEF Quiet, Around
  <2>4. CASE ~isInvalidState(Obj(t)) /\ EnterHandler(t, Obj(t), Obj(t).uniqueID, "use")
    <3>1. Obj(t).lockCount = 0
      BY <2>1, <2>2 DEF Inv, LocksHeld, LockHeld, Entry
    <3>2. Obj(t).dependentObject = NoHandle
      BY <2>2 DEF Inv, FramesPlain
    <3>3. Receives(t, Obj(t), "use") /\ ~Obj(t).signalled
      BY <2>1, <2>4, <3>1, <3>2 DEF Receives, isInvalidState, isFree, isDestroy
    <3>4. Enters(t, "use")
      BY <2>1, <2>4, <3>3 DEF Enters
    <3> QED
      BY <3>4
  <2> QED
    BY <1>4, <2>3, <2>4 DEF DispatchDirect
<1> QED
  BY <1>2, <1>3, <1>4

LEMMA StepKinds ==
  ASSUME PlainKernel, Inv, NEW t \in Threads, Begin(t) \/ Finish(t) \/ Kernel(t)
  PROVE  \/ Quiet(t) \/ Dooms(t) \/ Ready(t) \/ HandlerReturn(t)
         \/ \E m \in {"use", "destroy", "converted"} : Enters(t, m)
         \/ \E h \in Handles : EnterObject(t, h)
  BY CreatingKinds, SendingKinds, DispatchingKinds, PlainSteps DEF Begin, Finish, Kernel

(* The ready object's creator is replaced by the call that publishes it,   *)
(* or is done.                                                             *)
LEMMA ReadyStep ==
  ASSUME Inv, NEW t \in Threads, Ready(t)
  PROVE  /\ Top(t).handle \in Handles /\ ~isFree(Obj(t)) /\ ~Obj(t).signalled
         /\ Obj(t).notinited /\ Obj(t) \in Entry /\ Obj(t) = objectTable[Top(t).handle]
         /\ Obj(t).lockCount = 0
         /\ SetEntry(Top(t).handle, [Obj(t) EXCEPT !.notinited = FALSE])
         /\ stack[t] # << >> /\ Top(t).at = "call" /\ objectUniqueID' = objectUniqueID
         /\ Return(t) \/ \E f \in Frame : f.at = "publish" /\ Replace(t, f)
<1>1. TypeOK /\ At(t, "call") /\ isMaking(Top(t))
  BY DEF Inv, Ready, Call, At, isMaking
<1>2. /\ Len(stack[t]) \in 1..Len(stack[t]) /\ Top(t) = stack[t][Len(stack[t])]
      /\ Top(t).at = "call" /\ Top(t) \in Frame /\ Top(t).handle \in Handles
      /\ Obj(t) \in Entry /\ Obj(t) = objectTable[Top(t).handle] /\ stack[t] # << >>
  BY <1>1, TopCall
<1>3. Obj(t).notinited
  BY <1>1, <1>2, MakerFacts
<1>4. Obj(t).lockCount = 0
  BY <1>1, DestroyedIsIdle
<1>5. [Top(t) EXCEPT !.at = "publish"] \in Frame
      /\ [Top(t) EXCEPT !.at = "publish"].at = "publish"
  BY <1>2 DEF Frame, Places
<1> QED
  BY <1>2, <1>3, <1>4, <1>5 DEF Ready, Accepted

LEMMA EntersStep ==
  ASSUME Inv, NEW t \in Threads, NEW m \in {"use", "destroy", "converted"}, Enters(t, m)
  PROVE  /\ Top(t).handle \in Handles /\ Obj(t) = objectTable[Top(t).handle]
         /\ Obj(t) \in Entry /\ stack[t] # << >> /\ Top(t).at \in {"call", "wait"}
         /\ objectTable'[Top(t).handle].uniqueID = Obj(t).uniqueID
         /\ objectTable'[Top(t).handle].notinited = Obj(t).notinited
         /\ objectTable'[Top(t).handle].signalled <=> Obj(t).signalled \/ isDestroy(m)
         /\ objectTable'[Top(t).handle].lockCount = Obj(t).lockCount + 1
         /\ objectTable'[Top(t).handle].lockOwner = t
         /\ \A g \in Handles : g # Top(t).handle => objectTable'[g] = objectTable[g]
         /\ \E f \in Frame : /\ f.at = "handler" /\ f.msg = m
                            /\ f.handle = Top(t).handle /\ Replace(t, f)
<1> DEFINE f == [NewFrame("handler", Top(t).handle, Obj(t).uniqueID, m)
                   EXCEPT !.n = Obj(t).lockCount]
           q == [Obj(t) EXCEPT !.lockCount = @ + 1, !.lockOwner = t]
           r == [Signal(Obj(t)) EXCEPT !.lockCount = @ + 1, !.lockOwner = t]
<1>1. TypeOK /\ (At(t, "call") \/ At(t, "wait"))
  BY DEF Inv, Enters
<1>2. /\ Top(t).at \in {"call", "wait"} /\ Top(t).handle \in Handles
      /\ Obj(t) \in Entry /\ Obj(t) = objectTable[Top(t).handle] /\ stack[t] # << >>
  BY <1>1, TopCall
<1>3. Signal(Obj(t)).lockCount = Obj(t).lockCount /\ Obj(t).lockCount \in Int
  BY <1>2 DEF Signal, Entry
<1>4. f \in Frame /\ f.at = "handler" /\ f.msg = m /\ f.handle = Top(t).handle
  <2>1. f = [at |-> "handler", handle |-> Top(t).handle, uid |-> Obj(t).uniqueID,
             msg |-> m, n |-> Obj(t).lockCount, other |-> NoHandle]
    BY DEF NewFrame
  <2>2. Obj(t).uniqueID \in Nat
    BY <1>2 DEF Entry
  <2> QED
    BY <1>2, <1>3, <2>1, <2>2 DEF Frame, Places, Messages, MayBeSent
<1>5. Replace(t, f) /\ (\/ m = "use" /\ SetEntry(Top(t).handle, q)
                        \/ isDestroy(m) /\ SetEntry(Top(t).handle, r))
  BY <1>3 DEF Enters, EnterHandler
<1>6. /\ q.uniqueID = Obj(t).uniqueID /\ q.notinited = Obj(t).notinited
      /\ q.signalled = Obj(t).signalled /\ q.lockCount = Obj(t).lockCount + 1
      /\ q.lockOwner = t
      /\ r.uniqueID = Obj(t).uniqueID /\ r.notinited = Obj(t).notinited
      /\ r.signalled = TRUE /\ r.lockCount = Obj(t).lockCount + 1 /\ r.lockOwner = t
  BY <1>2 DEF Entry, Signal
<1> HIDE DEF f, q, r
<1>7. /\ \A g \in Handles : g # Top(t).handle => objectTable'[g] = objectTable[g]
      /\ \/ m = "use" /\ objectTable'[Top(t).handle] = q
         \/ isDestroy(m) /\ objectTable'[Top(t).handle] = r
  BY <1>1, <1>2, <1>5 DEF SetEntry, TypeOK
<1>8. m = "use" => ~isDestroy(m)
  BY DEF isDestroy
<1>9. objectTable'[Top(t).handle].signalled <=> Obj(t).signalled \/ isDestroy(m)
  BY <1>6, <1>7, <1>8
<1> QED
  BY <1>2, <1>4, <1>5, <1>6, <1>7, <1>9

LEMMA ReturnStep ==
  ASSUME Inv, NEW t \in Threads, HandlerReturn(t)
  PROVE  /\ stack[t] # << >> /\ Top(t).at = "handler" /\ Top(t).handle \in Handles
         /\ Top(t) = stack[t][Len(stack[t])] /\ Len(stack[t]) \in 1..Len(stack[t])
         /\ OwnsObject(t, Len(stack[t])) /\ Obj(t) \in Entry
         /\ Obj(t) = objectTable[Top(t).handle] /\ ~isFree(Obj(t))
         /\ Return(t) /\ objectUniqueID' = objectUniqueID
         /\ \A g \in Handles : g # Top(t).handle => objectTable'[g] = objectTable[g]
         /\ isDestroy(Top(t).msg) => objectTable'[Top(t).handle] = FreeEntry
         /\ ~isDestroy(Top(t).msg) =>
              /\ objectTable'[Top(t).handle].uniqueID = Obj(t).uniqueID
              /\ objectTable'[Top(t).handle].notinited = Obj(t).notinited
              /\ objectTable'[Top(t).handle].signalled = Obj(t).signalled
              /\ objectTable'[Top(t).handle].lockCount = Obj(t).lockCount - 1
              /\ objectTable'[Top(t).handle].lockOwner = Obj(t).lockOwner
<1>1. TypeOK /\ At(t, "handler") /\ Return(t) /\ objectUniqueID' = objectUniqueID
  BY DEF Inv, HandlerReturn
<1>2. /\ Len(stack[t]) \in 1..Len(stack[t]) /\ Top(t) = stack[t][Len(stack[t])]
      /\ Top(t).at = "handler" /\ Top(t).handle \in Handles
      /\ Obj(t) \in Entry /\ Obj(t) = objectTable[Top(t).handle] /\ stack[t] # << >>
  BY <1>1, TopCall
<1>3. OwnsObject(t, Len(stack[t]))
  BY <1>2 DEF Inv, HandlersOwn
<1>4. ~isFree(Obj(t))
  BY <1>2, <1>3 DEF OwnsObject, isFree
<1> DEFINE o == [Obj(t) EXCEPT !.lockCount = @ - 1]
<1>5. /\ isDestroy(Top(t).msg) => SetEntry(Top(t).handle, FreeEntry)
      /\ ~isDestroy(Top(t).msg) => SetEntry(Top(t).handle, o)
  BY <1>4 DEF HandlerReturn
<1>6. /\ o.uniqueID = Obj(t).uniqueID /\ o.notinited = Obj(t).notinited
      /\ o.signalled = Obj(t).signalled /\ o.lockCount = Obj(t).lockCount - 1
      /\ o.lockOwner = Obj(t).lockOwner
  BY <1>2 DEF Entry
<1> HIDE DEF o
<1>7. /\ \A g \in Handles : g # Top(t).handle => objectTable'[g] = objectTable[g]
      /\ isDestroy(Top(t).msg) => objectTable'[Top(t).handle] = FreeEntry
      /\ ~isDestroy(Top(t).msg) => objectTable'[Top(t).handle] = o
  BY <1>1, <1>2, <1>5 DEF SetEntry, TypeOK
<1> QED
  BY <1>1, <1>2, <1>3, <1>4, <1>6, <1>7

-----------------------------------------------------------------------------
(* LifeInv is inductive. *)

LEMMA FreshIdsInit == Init => FreshIds
  BY DEF Init, FreshIds, FreeEntry

LEMMA FreshIdsStep ==
  ASSUME PlainKernel, LifeInv, NEW t \in Threads, Begin(t) \/ Finish(t) \/ Kernel(t)
  PROVE  FreshIds'
<1>1. /\ Inv /\ TypeOK /\ FreshIds /\ objectUniqueID \in Nat \ {0}
      /\ \A h \in Handles : objectTable[h].uniqueID \in Nat
  BY DEF LifeInv, Inv, TypeOK, Entry
<1>2. CASE \E h \in Handles : EnterObject(t, h)
  <2>1. PICK h \in Handles : EnterObject(t, h)
    BY <1>2
  <2>2. /\ objectTable'[h].uniqueID = objectUniqueID
        /\ \A g \in Handles : g # h => objectTable'[g] = objectTable[g]
        /\ objectUniqueID' = objectUniqueID + 1
    BY <1>1, <2>1 DEF EnterObject, SetEntry, NewEntry, FreeEntry, TypeOK
  <2> SUFFICES ASSUME NEW g \in Handles
               PROVE  objectTable'[g].uniqueID < objectUniqueID'
    BY DEF FreshIds
  <2>3. objectTable[g].uniqueID < objectUniqueID
    BY <1>1 DEF FreshIds
  <2> QED
    BY <1>1, <2>2, <2>3
<1>3. CASE HandlerReturn(t)
  <2> SUFFICES ASSUME NEW g \in Handles
               PROVE  objectTable'[g].uniqueID < objectUniqueID'
    BY DEF FreshIds
  <2>1. /\ objectTable'[g].uniqueID = objectTable[g].uniqueID \/ objectTable'[g] = FreeEntry
        /\ objectUniqueID' = objectUniqueID
    BY <1>1, <1>3, ReturnStep
  <2> QED
    BY <1>1, <2>1 DEF FreshIds, FreeEntry
<1>4. CASE ~HandlerReturn(t) /\ ~\E h \in Handles : EnterObject(t, h)
  <2>1. SameObjects
    BY <1>1, <1>4, OthersKeepObjects
  <2>2. objectUniqueID' = objectUniqueID
    BY <1>1, <1>4, PlainSteps
    DEF Begin, Finish, Kernel, BeginCreate, RejectCreate, FailInit, CompleteInit, Publish,
        Send, RejectHandle, IncRef, DecRef, Ready, DispatchDirect, RejectNesting, BeginWait,
        DispatchQueued, KeepWaiting, AbandonWait, EndWait
  <2> QED
    BY <1>1, <2>1, <2>2 DEF FreshIds, SameObjects
<1> QED
  BY <1>2, <1>3, <1>4

(* Handlers after a step that starts none.                                 *)
HandlersKept ==
  \A u \in Threads : \A i \in 1..Len(stack'[u]) :
     stack'[u][i].at = "handler" =>
       i \in 1..Len(stack[u]) /\ stack'[u][i] = stack[u][i]

LEMMA KeepsHandlers ==
  ASSUME TypeOK, TypeOK', NEW t \in Threads, NEW k, Keeps(t, k),
         Len(stack'[t]) = k + 1 => stack'[t][k + 1].at # "handler"
  PROVE  HandlersKept
<1> SUFFICES ASSUME NEW u \in Threads, NEW i \in 1..Len(stack'[u]),
                    stack'[u][i].at = "handler"
             PROVE  i \in 1..Len(stack[u]) /\ stack'[u][i] = stack[u][i]
  BY DEF HandlersKept
<1>1. ~isNew(t, k, u, i)
  BY DEF isNew
<1> QED
  BY <1>1, OldOrNew DEF isOld

LEMMA OutsideKeepsHandlers ==
  ASSUME TypeOK, TypeOK', NEW t \in Threads,
         \/ Around(t)
         \/ stack[t] # << >> /\ Return(t)
         \/ \E f \in Frame : stack[t] # << >> /\ f.at # "handler" /\ Replace(t, f)
  PROVE  HandlersKept
<1>1. CASE stack[t] # << >> /\ Return(t)
  <2>1. Keeps(t, Len(stack[t]) - 1) /\ Len(stack'[t]) = Len(stack[t]) - 1
        /\ Len(stack[t]) \in Nat
    BY <1>1, ReturnKeeps
  <2>2. Len(stack'[t]) # Len(stack[t]) - 1 + 1
    BY <2>1
  <2> QED
    BY <2>1, <2>2, KeepsHandlers
<1>2. CASE \E f \in Frame : stack[t] # << >> /\ f.at # "handler" /\ Replace(t, f)
  <2>1. PICK f \in Frame : stack[t] # << >> /\ f.at # "handler" /\ Replace(t, f)
    BY <1>2
  <2>2. Keeps(t, Len(stack[t]) - 1) /\ stack'[t][Len(stack[t])] = f
        /\ Len(stack[t]) \in Nat
    BY <2>1, ReplaceKeeps
  <2>3. Len(stack[t]) - 1 + 1 = Len(stack[t])
    BY <2>2
  <2> QED
    BY <2>1, <2>2, <2>3, KeepsHandlers
<1>3. CASE \E f \in Frame : f.at # "handler" /\ Push(t, f)
  <2>1. PICK f \in Frame : f.at # "handler" /\ Push(t, f)
    BY <1>3
  <2>2. Keeps(t, Len(stack[t])) /\ stack'[t][Len(stack[t]) + 1] = f
    BY <2>1, PushKeeps
  <2> QED
    BY <2>1, <2>2, KeepsHandlers
<1> QED
  BY <1>1, <1>2, <1>3 DEF Around

LEMMA EndsSignalledInit == Init => EndsSignalled
<1> SUFFICES ASSUME Init PROVE EndsSignalled
  OBVIOUS
<1>1. \A t \in Threads : 1..Len(stack[t]) = {}
  <2>1. Len(<< >>) = 0
    BY EmptySeq
  <2> QED
    BY <2>1 DEF Init
<1> QED
  BY <1>1 DEF EndsSignalled

LEMMA KeptEndsSignalled ==
  ASSUME LifeInv, HandlersKept,
         \A h \in Handles : objectTable'[h].signalled => objectTable[h].signalled
  PROVE  EndsSignalled'
<1> SUFFICES ASSUME NEW u \in Threads, NEW i \in 1..Len(stack'[u]),
                    stack'[u][i].at = "handler",
                    objectTable'[stack'[u][i].handle].signalled
             PROVE  isDestroy(stack'[u][i].msg)
  BY DEF EndsSignalled, isDestroy
<1>1. i \in 1..Len(stack[u]) /\ stack'[u][i] = stack[u][i]
  BY DEF HandlersKept
<1>2. stack[u][i].handle \in Handles
  BY <1>1 DEF LifeInv, Inv, TypeOK
<1> QED
  BY <1>1, <1>2 DEF LifeInv, EndsSignalled

LEMMA EndsSignalledStep ==
  ASSUME PlainKernel, LifeInv, TypeOK', NEW t \in Threads,
         Begin(t) \/ Finish(t) \/ Kernel(t)
  PROVE  EndsSignalled'
<1>1. Inv /\ TypeOK /\ EndsSignalled
  BY DEF LifeInv, Inv
<1>2. CASE Quiet(t)
  BY <1>1, <1>2, OutsideKeepsHandlers, KeptEndsSignalled DEF Quiet, SameLives, SameLife
<1>3. CASE Ready(t)
  <2>1. \A h \in Handles : objectTable'[h].signalled => objectTable[h].signalled
    <3>1. /\ Top(t).handle \in Handles /\ Obj(t) \in Entry
          /\ Obj(t) = objectTable[Top(t).handle]
          /\ SetEntry(Top(t).handle, [Obj(t) EXCEPT !.notinited = FALSE])
      BY <1>1, <1>3, ReadyStep
    <3>2. [Obj(t) EXCEPT !.notinited = FALSE].signalled = Obj(t).signalled
      BY <3>1 DEF Entry
    <3>3. /\ objectTable'[Top(t).handle] = [Obj(t) EXCEPT !.notinited = FALSE]
          /\ \A g \in Handles : g # Top(t).handle => objectTable'[g] = objectTable[g]
      BY <1>1, <3>1 DEF SetEntry, TypeOK
    <3> QED
      BY <3>1, <3>2, <3>3
  <2>2. \/ stack[t] # << >> /\ Return(t)
        \/ \E f \in Frame : stack[t] # << >> /\ f.at # "handler" /\ Replace(t, f)
    BY <1>1, <1>3, ReadyStep
  <2> QED
    BY <1>1, <2>1, <2>2, OutsideKeepsHandlers, KeptEndsSignalled
<1>4. CASE HandlerReturn(t)
  <2>1. \A h \in Handles : objectTable'[h].signalled => objectTable[h].signalled
    BY <1>1, <1>4, ReturnStep DEF FreeEntry
  <2>2. stack[t] # << >> /\ Return(t)
    BY <1>1, <1>4, ReturnStep
  <2> QED
    BY <1>1, <2>1, <2>2, OutsideKeepsHandlers, KeptEndsSignalled
<1>5. CASE \E h \in Handles : EnterObject(t, h)
  <2>1. PICK h \in Handles : EnterObject(t, h)
    BY <1>5
  <2>2. /\ objectTable'[h].signalled = FALSE
        /\ \A g \in Handles : g # h => objectTable'[g] = objectTable[g]
    BY <1>1, <2>1 DEF EnterObject, SetEntry, NewEntry, FreeEntry, TypeOK
  <2>3. NewFrame("init", h, objectUniqueID, "none") \in Frame
        /\ NewFrame("init", h, objectUniqueID, "none").at = "init"
    BY <1>1, NewFrameTyped DEF Places, Messages, NewFrame, TypeOK
  <2>4. HandlersKept
    BY <1>1, <2>1, <2>3, OutsideKeepsHandlers DEF EnterObject, At
  <2> QED
    BY <2>2, <2>4, KeptEndsSignalled
<1>6. CASE Dooms(t)
  <2>1. /\ Top(t).handle \in Handles /\ Obj(t) = objectTable[Top(t).handle]
        /\ stack[t] # << >> /\ Return(t) /\ Obj(t).notinited
    BY <1>1, <1>6, TopCall DEF Dooms
  <2>2. HandlersKept
    BY <1>1, <2>1, OutsideKeepsHandlers
  <2>3. \A g \in Handles : g # Top(t).handle => objectTable'[g] = objectTable[g]
    BY <1>1, <1>6, <2>1 DEF Dooms, SetEntry, TypeOK
  <2> SUFFICES ASSUME NEW u \in Threads, NEW i \in 1..Len(stack'[u]),
                      stack'[u][i].at = "handler",
                      objectTable'[stack'[u][i].handle].signalled
               PROVE  isDestroy(stack'[u][i].msg)
    BY DEF EndsSignalled, isDestroy
  <2>4. i \in 1..Len(stack[u]) /\ stack'[u][i] = stack[u][i]
    BY <2>2 DEF HandlersKept
  <2>5. stack[u][i].handle \in Handles /\ OwnsObject(u, i)
    BY <1>1, <2>4 DEF Inv, TypeOK, HandlersOwn
  <2>6. CASE stack[u][i].handle = Top(t).handle
    BY <2>1, <2>4, <2>5, <2>6 DEF OwnsObject, isDestroy
  <2>7. CASE stack[u][i].handle # Top(t).handle
    BY <1>1, <2>3, <2>4, <2>5, <2>7 DEF EndsSignalled
  <2> QED
    BY <2>6, <2>7
<1>7. CASE \E m \in {"use", "destroy", "converted"} : Enters(t, m)
  <2>1. PICK m \in {"use", "destroy", "converted"} : Enters(t, m)
    BY <1>7
  <2>2. PICK f \in Frame : /\ f.at = "handler" /\ f.msg = m
                           /\ f.handle = Top(t).handle /\ Replace(t, f)
    BY <1>1, <2>1, EntersStep
  <2>3. /\ Top(t).handle \in Handles /\ Obj(t) = objectTable[Top(t).handle]
        /\ objectTable'[Top(t).handle].signalled <=> Obj(t).signalled \/ isDestroy(m)
        /\ \A g \in Handles : g # Top(t).handle => objectTable'[g] = objectTable[g]
        /\ stack[t] # << >> /\ Obj(t) \in Entry
    BY <1>1, <2>1, EntersStep
  <2> SUFFICES ASSUME NEW u \in Threads, NEW i \in 1..Len(stack'[u]),
                      stack'[u][i].at = "handler",
                      objectTable'[stack'[u][i].handle].signalled
               PROVE  isDestroy(stack'[u][i].msg)
    BY DEF EndsSignalled, isDestroy
  <2>4. PICK k : k = Len(stack[t]) - 1
    OBVIOUS
  <2>5. Keeps(t, k) /\ stack'[t][k + 1] = f
    <3>1. Keeps(t, Len(stack[t]) - 1) /\ stack'[t][Len(stack[t])] = f
          /\ Len(stack[t]) \in Nat
      BY <1>1, <2>2, <2>3, ReplaceKeeps
    <3>2. k + 1 = Len(stack[t])
      BY <2>4, <3>1
    <3> QED
      BY <2>4, <3>1, <3>2
  <2>6. CASE isNew(t, k, u, i)
    <3>1. stack'[u][i] = f
      BY <2>5, <2>6 DEF isNew
    <3>2. m = "use" => ~Obj(t).signalled
      BY <2>1 DEF Enters, isDestroy
    <3> QED
      BY <2>2, <2>3, <3>1, <3>2 DEF isDestroy
  <2>7. CASE isOld(t, k, u, i)
    <3>1. /\ i \in 1..Len(stack[u]) /\ stack'[u][i] = stack[u][i]
          /\ stack[u][i].handle \in Handles /\ OwnsObject(u, i)
      BY <1>1, <2>7 DEF isOld, Inv, TypeOK, HandlersOwn
    <3>2. CASE stack[u][i].handle = Top(t).handle /\ isDestroy(m)
      <4>1. Obj(t).lockCount = 0
        BY <2>1, <3>2 DEF Enters, Receives
      <4>2. 0 <= stack[u][i].n /\ stack[u][i].n < 0 /\ stack[u][i].n \in Int
        BY <1>1, <2>3, <3>1, <3>2, <4>1, StackLengths DEF OwnsObject, Frame
      <4> QED
        BY <4>2
    <3>3. CASE ~(stack[u][i].handle = Top(t).handle /\ isDestroy(m))
      <4>1. objectTable[stack[u][i].handle].signalled
        BY <2>3, <3>1, <3>3
      <4> QED
        BY <1>1, <3>1, <4>1 DEF EndsSignalled
    <3> QED
      BY <3>2, <3>3
  <2> QED
    BY <1>1, <2>5, <2>6, <2>7, OldOrNew
<1> QED
  BY <1>1, <1>2, <1>3, <1>4, <1>5, <1>6, <1>7, StepKinds

(* A step changes one stack, and what it puts there is the innermost call. *)
LEMMA DepthKept ==
  ASSUME DepthBounded, TypeOK, TypeOK', NEW t \in Threads, NEW k, Keeps(t, k),
         Len(stack'[t]) = k + 1 =>
           /\ k + 1 <= MaxFrames + 1
           /\ k + 1 > MaxFrames => stack'[t][k + 1].at \notin {"create", "init"}
  PROVE  DepthBounded'
<1>1. ASSUME NEW u \in Threads
      PROVE  Len(stack'[u]) <= MaxFrames + 1
  <2>1. CASE u # t
    BY <1>1, <2>1 DEF Keeps, DepthBounded
  <2>2. CASE u = t
    <3>1. Len(stack[t]) <= MaxFrames + 1 /\ Len(stack[t]) \in Nat /\ MaxFrames \in Nat
      BY StackLengths, KernelAssumption DEF DepthBounded
    <3>2. k \in Nat /\ k <= Len(stack[t])
          /\ (Len(stack'[t]) = k \/ Len(stack'[t]) = k + 1)
      BY DEF Keeps
    <3> QED
      BY <2>2, <3>1, <3>2
  <2> QED
    BY <2>1, <2>2
<1>2. ASSUME NEW u \in Threads, NEW i \in 1..Len(stack'[u]), i > MaxFrames
      PROVE  stack'[u][i].at \notin {"create", "init"}
  <2>1. CASE isOld(t, k, u, i)
    BY <1>2, <2>1 DEF isOld, DepthBounded
  <2>2. CASE isNew(t, k, u, i)
    BY <1>2, <2>2 DEF isNew
  <2> QED
    BY <2>1, <2>2, OldOrNew
<1> QED
  BY <1>1, <1>2 DEF DepthBounded

LEMMA ReturnDepth ==
  ASSUME DepthBounded, TypeOK, TypeOK', NEW t \in Threads, stack[t] # << >>, Return(t)
  PROVE  DepthBounded'
<1>1. Keeps(t, Len(stack[t]) - 1) /\ Len(stack'[t]) = Len(stack[t]) - 1
      /\ Len(stack[t]) \in Nat
  BY ReturnKeeps
<1>2. Len(stack'[t]) # Len(stack[t]) - 1 + 1
  BY <1>1
<1> QED
  BY <1>1, <1>2, DepthKept

LEMMA ReplaceDepth ==
  ASSUME DepthBounded, TypeOK, TypeOK', NEW t \in Threads, stack[t] # << >>,
         NEW f \in Frame, Replace(t, f),
         f.at \in {"create", "init"} => Top(t).at \in {"create", "init"}
  PROVE  DepthBounded'
<1> PICK k : k = Len(stack[t]) - 1
  OBVIOUS
<1>1. /\ Keeps(t, k) /\ stack'[t][k + 1] = f /\ k + 1 = Len(stack[t])
      /\ Top(t) = stack[t][k + 1] /\ k + 1 \in 1..Len(stack[t])
  <2>1. /\ Keeps(t, Len(stack[t]) - 1) /\ stack'[t][Len(stack[t])] = f
        /\ Len(stack[t]) \in Nat \ {0} /\ Top(t) = stack[t][Len(stack[t])]
    BY ReplaceKeeps
  <2>2. k + 1 = Len(stack[t])
    BY <2>1
  <2>3. Len(stack[t]) \in 1..Len(stack[t])
    BY <2>1
  <2> QED
    BY <2>1, <2>2, <2>3
<1>2. /\ k + 1 <= MaxFrames + 1
      /\ k + 1 > MaxFrames => stack[t][k + 1].at \notin {"create", "init"}
  BY <1>1 DEF DepthBounded
<1>3. k + 1 > MaxFrames => stack'[t][k + 1].at \notin {"create", "init"}
  BY <1>1, <1>2
<1> QED
  BY <1>1, <1>2, <1>3, DepthKept

LEMMA PushDepth ==
  ASSUME DepthBounded, TypeOK, TypeOK', NEW t \in Threads, NEW f \in Frame, Push(t, f),
         Len(stack[t]) < MaxFrames \/ (f.at = "call" /\ At(t, "init"))
  PROVE  DepthBounded'
<1>1. Keeps(t, Len(stack[t])) /\ stack'[t][Len(stack[t]) + 1] = f
      /\ Len(stack[t]) \in Nat /\ MaxFrames \in Nat
  BY PushKeeps, StackLengths, KernelAssumption
<1>2. CASE Len(stack[t]) < MaxFrames
  <2>1. Len(stack[t]) + 1 <= MaxFrames + 1 /\ ~(Len(stack[t]) + 1 > MaxFrames)
    BY <1>1, <1>2
  <2> QED
    BY <1>1, <2>1, DepthKept
<1>3. CASE f.at = "call" /\ At(t, "init")
  <2>1. /\ Len(stack[t]) \in 1..Len(stack[t]) /\ stack[t][Len(stack[t])].at = "init"
    BY <1>3, TopCall
  <2>2. ~(Len(stack[t]) > MaxFrames)
    BY <2>1 DEF DepthBounded
  <2>3. Len(stack[t]) + 1 <= MaxFrames + 1
    BY <1>1, <2>2
  <2> QED
    BY <1>1, <1>3, <2>3, DepthKept
<1> QED
  BY <1>2, <1>3

LEMMA DepthInit == Init => DepthBounded
<1> SUFFICES ASSUME Init PROVE DepthBounded
  OBVIOUS
<1>1. \A t \in Threads : Len(stack[t]) = 0
  <2>1. Len(<< >>) = 0
    BY EmptySeq
  <2> QED
    BY <2>1 DEF Init
<1>2. 0 <= MaxFrames + 1 /\ 1..0 = {}
  BY KernelAssumption
<1> QED
  BY <1>1, <1>2 DEF DepthBounded

LEMMA DepthStep ==
  ASSUME PlainKernel, LifeInv, TypeOK', NEW t \in Threads,
         Begin(t) \/ Finish(t) \/ Kernel(t)
  PROVE  DepthBounded'
<1>1. Inv /\ TypeOK /\ DepthBounded
  BY DEF LifeInv, Inv
<1>2. CASE Quiet(t)
  BY <1>1, <1>2, ReturnDepth, ReplaceDepth, PushDepth DEF Quiet, Around
<1>3. CASE Ready(t)
  BY <1>1, <1>3, ReadyStep, ReturnDepth, ReplaceDepth
<1>4. CASE HandlerReturn(t)
  BY <1>1, <1>4, ReturnStep, ReturnDepth
<1>5. CASE \E h \in Handles : EnterObject(t, h)
  <2>1. PICK h \in Handles : EnterObject(t, h)
    BY <1>5
  <2>2. NewFrame("init", h, objectUniqueID, "none") \in Frame
    BY <1>1, NewFrameTyped DEF Places, Messages, TypeOK
  <2> QED
    BY <1>1, <2>1, <2>2, ReplaceDepth DEF EnterObject, At
<1>6. CASE Dooms(t)
  BY <1>1, <1>6, ReturnDepth DEF Dooms, At
<1>7. CASE \E m \in {"use", "destroy", "converted"} : Enters(t, m)
  <2>1. stack[t] # << >> /\ \E f \in Frame : f.at = "handler" /\ Replace(t, f)
    BY <1>1, <1>7, EntersStep
  <2> QED
    BY <1>1, <2>1, ReplaceDepth
<1> QED
  BY <1>1, <1>2, <1>3, <1>4, <1>5, <1>6, <1>7, StepKinds

LEMMA LifeInvNext == ASSUME PlainKernel PROVE LifeInv /\ [Next]_vars => LifeInv'
<1> SUFFICES ASSUME LifeInv, [Next]_vars
             PROVE  LifeInv'
  OBVIOUS
<1>1. Inv' /\ TypeOK'
  BY InvNext DEF LifeInv, Inv
<1>2. CASE BeginShutdown \/ UNCHANGED vars
  <2>1. UNCHANGED <<objectTable, objectUniqueID, stack>>
    BY <1>2 DEF BeginShutdown, vars
  <2> QED
    BY <1>1, <2>1 DEF LifeInv, FreshIds, EndsSignalled, DepthBounded, isDestroy
<1>3. ASSUME NEW t \in Threads, Begin(t) \/ Finish(t) \/ Kernel(t)
      PROVE  LifeInv'
  BY <1>1, <1>3, FreshIdsStep, EndsSignalledStep, DepthStep DEF LifeInv
<1> QED
  BY <1>2, <1>3 DEF Next

(* Inv with what the refinement and the exact lock count need besides,     *)
(* for any number of threads, handles and objects.                         *)
THEOREM LifeInvariant == ASSUME PlainKernel PROVE Spec => []LifeInv
<1>1. Init => LifeInv
  BY InvInit, FreshIdsInit, EndsSignalledInit, DepthInit DEF LifeInv
<1> QED
  BY <1>1, LifeInvNext, PTL DEF Spec

-----------------------------------------------------------------------------
(* The refinement of ObjectLifecycle: what a change of one entry is there. *)

LEMMA MapUpdate ==
  ASSUME NEW h \in Handles,
         \A g \in Handles : g # h => objectTable'[g] = objectTable[g]
  PROVE  /\ phase' = [phase EXCEPT ![h] = Phase(objectTable'[h])]
         /\ user' = [user EXCEPT ![h] = User(objectTable'[h])]
         /\ id' = [id EXCEPT ![h] = objectTable'[h].uniqueID]
         /\ phase[h] = Phase(objectTable[h]) /\ user[h] = User(objectTable[h])
         /\ id[h] = objectTable[h].uniqueID
  BY DEF phase, user, id, Phase, User, isFree, isInUse

LEMMA MapSame ==
  ASSUME NEW h \in Handles,
         \A g \in Handles : g # h => objectTable'[g] = objectTable[g],
         Phase(objectTable'[h]) = Phase(objectTable[h])
  PROVE  UNCHANGED phase
  BY DEF phase, Phase, isFree, isInUse

LEMMA MapSameUser ==
  ASSUME NEW h \in Handles,
         \A g \in Handles : g # h => objectTable'[g] = objectTable[g],
         User(objectTable'[h]) = User(objectTable[h])
  PROVE  UNCHANGED user
  BY DEF user, User, isInUse

LEMMA MapSameId ==
  ASSUME NEW h \in Handles,
         \A g \in Handles : g # h => objectTable'[g] = objectTable[g],
         objectTable'[h].uniqueID = objectTable[h].uniqueID
  PROVE  UNCHANGED id
  BY DEF id

LEMMA QuietStutters ==
  ASSUME SameLives
  PROVE  UNCHANGED Lifecycle!lvars
  BY DEF SameLives, SameLife, Lifecycle!lvars, phase, user, id, Phase, User, isFree, isInUse

LEMMA MapCreate ==
  ASSUME LifeInv, NEW t \in Threads, NEW h \in Handles, EnterObject(t, h)
  PROVE  Lifecycle!Create(h)
<1>1. /\ TypeOK /\ FreshIds /\ objectUniqueID \in Nat \ {0}
      /\ \A g \in Handles : objectTable[g].uniqueID \in Nat
  BY DEF LifeInv, Inv, TypeOK, Entry
<1>2. /\ isFree(objectTable[h])
      /\ objectTable'[h].uniqueID = objectUniqueID /\ objectTable'[h].notinited
      /\ objectTable'[h].signalled = FALSE /\ objectTable'[h].lockCount = 0
      /\ \A g \in Handles : g # h => objectTable'[g] = objectTable[g]
  BY <1>1 DEF EnterObject, SetEntry, NewEntry, FreeEntry, TypeOK
<1>3. LockHeld(h) /\ objectTable[h].lockCount \in Int
  BY <1>1 DEF LifeInv, Inv, LocksHeld, TypeOK, Entry
<1>4. objectTable[h].lockCount = 0
  BY <1>2, <1>3, FreeIsUnused DEF LockHeld, LifeInv
<1>5. Phase(objectTable[h]) = "free" /\ Phase(objectTable'[h]) = "initialising"
  BY <1>1, <1>2 DEF Phase, isFree
<1>6. User(objectTable[h]) = User(objectTable'[h])
  BY <1>2, <1>4 DEF User, isInUse
<1>7. UNCHANGED user
  BY <1>2, <1>6, MapSameUser
<1>8. ASSUME NEW k \in Handles
      PROVE  id[k] # objectUniqueID
  BY <1>1, <1>8 DEF FreshIds, id
<1>9. id'[h] = objectUniqueID
  BY <1>2 DEF id
<1>10. id' = [id EXCEPT ![h] = id'[h]]
  BY <1>2, <1>9, MapUpdate
<1>11. phase[h] = "free" /\ phase' = [phase EXCEPT ![h] = "initialising"]
  BY <1>2, <1>5, MapUpdate
<1> QED
  BY <1>1, <1>7, <1>8, <1>9, <1>10, <1>11 DEF Lifecycle!Create

LEMMA MapDooms ==
  ASSUME LifeInv, NEW t \in Threads, Dooms(t)
  PROVE  Lifecycle!Doom(Top(t).handle) \/ UNCHANGED Lifecycle!lvars
<1>1. TypeOK
  BY DEF LifeInv, Inv
<1> PICK h : h = Top(t).handle
  OBVIOUS
<1>2. /\ h \in Handles /\ Obj(t) = objectTable[h] /\ Obj(t) \in Entry
  BY <1>1, TopCall DEF Dooms
<1>3. /\ objectTable'[h] = Signal(objectTable[h])
      /\ \A g \in Handles : g # h => objectTable'[g] = objectTable[g]
  BY <1>1, <1>2 DEF Dooms, SetEntry, TypeOK
<1>4. /\ objectTable'[h].uniqueID = objectTable[h].uniqueID
      /\ objectTable'[h].signalled = TRUE
      /\ objectTable'[h].lockCount = objectTable[h].lockCount
      /\ objectTable'[h].lockOwner = objectTable[h].lockOwner
  BY <1>2, <1>3 DEF Signal, Entry
<1>5. UNCHANGED <<user, id>>
  BY <1>2, <1>3, <1>4, MapSameUser, MapSameId DEF User, isInUse
<1>6. ~isFree(objectTable[h]) /\ objectTable[h].notinited
  BY <1>2 DEF Dooms
<1>7. CASE objectTable[h].signalled
  <2>1. Phase(objectTable'[h]) = Phase(objectTable[h])
    BY <1>4, <1>6, <1>7 DEF Phase, isFree, isInUse
  <2> QED
    BY <1>2, <1>3, <1>5, <2>1, MapSame DEF Lifecycle!lvars
<1>8. CASE ~objectTable[h].signalled
  <2>1. ~isInUse(objectTable[h])
    <3>1. LockHeld(h) /\ objectTable[h].lockCount \in Int
      BY <1>2 DEF LifeInv, Inv, LocksHeld, Entry
    <3> SUFFICES ASSUME objectTable[h].lockCount > 0
                 PROVE  FALSE
      BY DEF isInUse
    <3>2. PICK u \in Threads : u = objectTable[h].lockOwner
      BY <3>1 DEF LockHeld
    <3>3. PICK i \in 1..Len(stack[u]) : isHandler(stack[u][i], h)
      BY <3>1, <3>2 DEF LockHeld
    <3>4. OwnsObject(u, i)
      BY <3>3 DEF LifeInv, Inv, HandlersOwn, isHandler
    <3> QED
      BY <1>6, <1>8, <3>3, <3>4 DEF OwnsObject, isHandler, isDestroy
  <2>2. Phase(objectTable[h]) = "initialising" /\ Phase(objectTable'[h]) = "doomed"
    BY <1>4, <1>6, <1>8, <2>1 DEF Phase, isFree, isInUse
  <2>3. phase[h] = "initialising" /\ phase' = [phase EXCEPT ![h] = "doomed"]
    BY <1>2, <1>3, <2>2, MapUpdate
  <2> QED
    BY <1>5, <2>3 DEF Lifecycle!Doom
<1> QED
  BY <1>7, <1>8

LEMMA MapReady ==
  ASSUME LifeInv, NEW t \in Threads, Ready(t)
  PROVE  Lifecycle!Open(Top(t).handle)
<1> PICK h : h = Top(t).handle
  OBVIOUS
<1>1. /\ TypeOK /\ h \in Handles /\ Obj(t) \in Entry /\ Obj(t) = objectTable[h]
      /\ ~isFree(Obj(t)) /\ ~Obj(t).signalled /\ Obj(t).notinited
      /\ SetEntry(h, [Obj(t) EXCEPT !.notinited = FALSE])
  BY ReadyStep DEF LifeInv, Inv
<1>2. /\ objectTable'[h] = [Obj(t) EXCEPT !.notinited = FALSE]
      /\ \A g \in Handles : g # h => objectTable'[g] = objectTable[g]
  BY <1>1 DEF SetEntry, TypeOK
<1>3. /\ objectTable'[h].uniqueID = objectTable[h].uniqueID
      /\ objectTable'[h].notinited = FALSE
      /\ objectTable'[h].signalled = objectTable[h].signalled
      /\ objectTable'[h].lockCount = objectTable[h].lockCount
      /\ objectTable'[h].lockOwner = objectTable[h].lockOwner
  BY <1>1, <1>2 DEF Entry
<1>4. UNCHANGED <<user, id>>
  BY <1>1, <1>2, <1>3, MapSameUser, MapSameId DEF User, isInUse
<1>5. Phase(objectTable[h]) = "initialising" /\ Phase(objectTable'[h]) = "ready"
  BY <1>1, <1>3 DEF Phase, isFree
<1>6. phase[h] = "initialising" /\ phase' = [phase EXCEPT ![h] = "ready"]
  BY <1>1, <1>2, <1>5, MapUpdate
<1> QED
  BY <1>4, <1>6 DEF Lifecycle!Open

LEMMA MapEnters ==
  ASSUME LifeInv, NEW t \in Threads, NEW m \in {"use", "destroy", "converted"},
         Enters(t, m)
  PROVE  \/ Lifecycle!Enter(Top(t).handle, t) \/ Lifecycle!Kill(Top(t).handle, t)
         \/ UNCHANGED Lifecycle!lvars
<1> PICK h : h = Top(t).handle
  OBVIOUS
<1>1. /\ h \in Handles /\ Obj(t) = objectTable[h] /\ objectTable[h] \in Entry
      /\ objectTable'[h].uniqueID = objectTable[h].uniqueID
      /\ objectTable'[h].notinited = objectTable[h].notinited
      /\ objectTable'[h].signalled <=> objectTable[h].signalled \/ isDestroy(m)
      /\ objectTable'[h].lockCount = objectTable[h].lockCount + 1
      /\ objectTable'[h].lockOwner = t
      /\ \A g \in Handles : g # h => objectTable'[g] = objectTable[g]
  BY EntersStep DEF LifeInv
<1>2. /\ objectTable[h].uniqueID # 0
      /\ objectTable[h].lockCount = 0 \/ objectTable[h].lockOwner = t
      /\ objectTable[h].notinited <=> m = "converted"
      /\ isDestroy(m) => objectTable[h].lockCount = 0
      /\ m = "use" \/ isDestroy(m)
      /\ objectTable[h].signalled <=> m = "converted"
  BY <1>1 DEF Enters, Receives, isDestroy
<1>3. LockHeld(h) /\ objectTable[h].lockCount \in Int
  BY <1>1 DEF LifeInv, Inv, LocksHeld, Entry
<1>4. isInUse(objectTable'[h]) /\ (isInUse(objectTable[h]) <=> objectTable[h].lockCount # 0)
  BY <1>1, <1>3 DEF LockHeld, isInUse
<1>5. ~isFree(objectTable[h]) /\ ~isFree(objectTable'[h])
  BY <1>1, <1>2 DEF isFree
<1>6. UNCHANGED id
  BY <1>1, MapSameId
<1>7. User(objectTable'[h]) = t
  BY <1>1, <1>4 DEF User
<1>8. CASE m = "use"
  <2>1. ~isDestroy(m) /\ m # "converted"
    BY <1>8 DEF isDestroy
  <2>2. Phase(objectTable[h]) = "ready" /\ Phase(objectTable'[h]) = "ready"
    BY <1>1, <1>2, <1>5, <2>1 DEF Phase
  <2>3. UNCHANGED phase /\ phase[h] = "ready"
    BY <1>1, <2>2, MapSame DEF phase
  <2>4. CASE isInUse(objectTable[h])
    <3>1. User(objectTable[h]) = t
      BY <1>2, <1>4, <2>4 DEF User
    <3> QED
      BY <1>1, <1>6, <1>7, <2>3, <3>1, MapSameUser DEF Lifecycle!lvars
  <2>5. CASE ~isInUse(objectTable[h])
    <3>1. User(objectTable[h]) = NoThread
      BY <2>5 DEF User
    <3>2. user[h] = NoThread /\ user' = [user EXCEPT ![h] = t]
      BY <1>1, <1>7, <3>1, MapUpdate
    <3> QED
      BY <1>6, <2>3, <3>2 DEF Lifecycle!Enter
  <2> QED
    BY <2>4, <2>5
<1>9. CASE isDestroy(m)
  <2>1. ~isInUse(objectTable[h])
    BY <1>2, <1>4, <1>9
  <2>2. Phase(objectTable[h]) \in {"ready", "doomed"} /\ Phase(objectTable'[h]) = "dying"
    BY <1>1, <1>2, <1>4, <1>5, <1>9, <2>1 DEF Phase
  <2>3. User(objectTable[h]) = NoThread
    BY <2>1 DEF User
  <2>4. /\ user[h] = NoThread /\ user' = [user EXCEPT ![h] = t]
        /\ phase[h] \in {"ready", "doomed"} /\ phase' = [phase EXCEPT ![h] = "dying"]
    BY <1>1, <1>7, <2>2, <2>3, MapUpdate
  <2> QED
    BY <1>6, <2>4 DEF Lifecycle!Kill
<1> QED
  BY <1>2, <1>8, <1>9

LEMMA MapReturns ==
  ASSUME LifeInv, NEW t \in Threads, HandlerReturn(t)
  PROVE  \/ Lifecycle!Leave(Top(t).handle) \/ Lifecycle!Remove(Top(t).handle)
         \/ UNCHANGED Lifecycle!lvars
<1> PICK h : h = Top(t).handle
  OBVIOUS
<1>1. /\ h \in Handles /\ objectTable[h] \in Entry /\ Obj(t) = objectTable[h]
      /\ ~isFree(objectTable[h])
      /\ \A g \in Handles : g # h => objectTable'[g] = objectTable[g]
      /\ isDestroy(Top(t).msg) => objectTable'[h] = FreeEntry
      /\ ~isDestroy(Top(t).msg) =>
           /\ objectTable'[h].uniqueID = objectTable[h].uniqueID
           /\ objectTable'[h].notinited = objectTable[h].notinited
           /\ objectTable'[h].signalled = objectTable[h].signalled
           /\ objectTable'[h].lockCount = objectTable[h].lockCount - 1
           /\ objectTable'[h].lockOwner = objectTable[h].lockOwner
  BY ReturnStep DEF LifeInv
<1>2. /\ OwnsObject(t, Len(stack[t])) /\ Top(t) = stack[t][Len(stack[t])]
      /\ Len(stack[t]) \in 1..Len(stack[t]) /\ Top(t).at = "handler"
      /\ Top(t) \in Frame
  BY ReturnStep, TopTyped DEF LifeInv, Inv
<1>3. /\ objectTable[h].lockOwner = t /\ 0 <= Top(t).n /\ Top(t).n < objectTable[h].lockCount
      /\ objectTable[h].notinited <=> Top(t).msg = "converted"
      /\ isDestroy(Top(t).msg) => objectTable[h].signalled /\ objectTable[h].lockCount = 1
      /\ objectTable[h].signalled => isDestroy(Top(t).msg)
  BY <1>2 DEF OwnsObject, LifeInv, EndsSignalled, isDestroy
<1>4. isInUse(objectTable[h]) /\ objectTable[h].lockCount \in Int
  BY <1>1, <1>2, <1>3 DEF isInUse, Entry, Frame
<1>5. user[h] # NoThread
  <2>1. user[h] = t
    BY <1>1, <1>3, <1>4 DEF user, User
  <2> QED
    BY <2>1, KernelAssumption
<1>6. CASE isDestroy(Top(t).msg)
  <2>1. /\ objectTable'[h].uniqueID = 0 /\ objectTable'[h].lockCount = 0
    BY <1>1, <1>6 DEF FreeEntry
  <2>2. Phase(objectTable[h]) = "dying"
    BY <1>1, <1>3, <1>4, <1>6 DEF Phase
  <2>3. Phase(objectTable'[h]) = "free" /\ User(objectTable'[h]) = NoThread
    BY <2>1 DEF Phase, User, isFree, isInUse
  <2>4. /\ phase[h] = "dying" /\ phase' = [phase EXCEPT ![h] = "free"]
        /\ user' = [user EXCEPT ![h] = NoThread] /\ id' = [id EXCEPT ![h] = 0]
    BY <1>1, <2>1, <2>2, <2>3, MapUpdate
  <2> QED
    BY <2>4 DEF Lifecycle!Remove
<1>7. CASE ~isDestroy(Top(t).msg)
  <2>1. ~objectTable[h].signalled /\ ~objectTable[h].notinited
    BY <1>3, <1>7 DEF isDestroy
  <2>2. Phase(objectTable[h]) = "ready" /\ Phase(objectTable'[h]) = "ready"
    BY <1>1, <1>7, <2>1 DEF Phase, isFree
  <2>3. UNCHANGED phase /\ phase[h] = "ready"
    BY <1>1, <2>2, MapSame DEF phase
  <2>4. UNCHANGED id
    BY <1>1, <1>7, MapSameId
  <2>5. CASE isInUse(objectTable'[h])
    <3>1. User(objectTable'[h]) = User(objectTable[h])
      BY <1>1, <1>4, <1>7, <2>5 DEF User
    <3> QED
      BY <1>1, <2>3, <2>4, <3>1, MapSameUser DEF Lifecycle!lvars
  <2>6. CASE ~isInUse(objectTable'[h])
    <3>1. User(objectTable'[h]) = NoThread
      BY <2>6 DEF User
    <3>2. user' = [user EXCEPT ![h] = NoThread]
      BY <1>1, <3>1, MapUpdate
    <3> QED
      BY <1>5, <2>3, <2>4, <3>2 DEF Lifecycle!Leave
  <2> QED
    BY <2>5, <2>6
<1> QED
  BY <1>6, <1>7

LEMMA LifecycleNext ==
  ASSUME PlainKernel PROVE LifeInv /\ [Next]_vars => [Lifecycle!Next]_(Lifecycle!lvars)
<1> SUFFICES ASSUME LifeInv, [Next]_vars
             PROVE  Lifecycle!Next \/ UNCHANGED Lifecycle!lvars
  OBVIOUS
<1>1. CASE BeginShutdown \/ UNCHANGED vars
  <2>1. UNCHANGED objectTable
    BY <1>1 DEF BeginShutdown, vars
  <2> QED
    BY <2>1, UnchangedLives, QuietStutters
<1>2. ASSUME NEW t \in Threads, Begin(t) \/ Finish(t) \/ Kernel(t)
      PROVE  Lifecycle!Next \/ UNCHANGED Lifecycle!lvars
  <2>1. CASE Quiet(t)
    BY <2>1, QuietStutters DEF Quiet
  <2>2. CASE Dooms(t)
    <3>1. Top(t).handle \in Handles
      BY <2>2, TopCall DEF Dooms, LifeInv, Inv
    <3> QED
      BY <2>2, <3>1, MapDooms DEF Lifecycle!Next
  <2>3. CASE Ready(t)
    <3>1. Top(t).handle \in Handles
      BY <2>3, ReadyStep DEF LifeInv
    <3> QED
      BY <2>3, <3>1, MapReady DEF Lifecycle!Next
  <2>4. ASSUME NEW m \in {"use", "destroy", "converted"}, Enters(t, m)
        PROVE  Lifecycle!Next \/ UNCHANGED Lifecycle!lvars
    <3>1. Top(t).handle \in Handles
      BY <2>4, EntersStep DEF LifeInv
    <3> QED
      BY <2>4, <3>1, MapEnters DEF Lifecycle!Next
  <2>5. CASE HandlerReturn(t)
    <3>1. Top(t).handle \in Handles
      BY <2>5, ReturnStep DEF LifeInv
    <3> QED
      BY <2>5, <3>1, MapReturns DEF Lifecycle!Next
  <2>6. ASSUME NEW h \in Handles, EnterObject(t, h)
        PROVE  Lifecycle!Next
    BY <2>6, MapCreate DEF Lifecycle!Next
  <2> QED
    BY <1>2, <2>1, <2>2, <2>3, <2>4, <2>5, <2>6, StepKinds DEF LifeInv
<1> QED
  BY <1>1, <1>2 DEF Next

LEMMA LifecycleInit == Init => Lifecycle!Init
<1> SUFFICES ASSUME Init PROVE Lifecycle!Init
  OBVIOUS
<1>1. \A h \in Handles : objectTable[h] = FreeEntry
  BY DEF Init
<1>2. FreeEntry.uniqueID = 0 /\ FreeEntry.lockCount = 0
  BY DEF FreeEntry
<1>3. Phase(FreeEntry) = "free" /\ User(FreeEntry) = NoThread
  BY <1>2 DEF Phase, User, isFree, isInUse
<1> QED
  BY <1>1, <1>2, <1>3 DEF Lifecycle!Init, phase, user, id

(* The kernel implements ObjectLifecycle: however many threads send        *)
(* messages to however many objects, each object is set up, used by one    *)
(* thread at a time, and removed once by a thread that has it to itself.   *)
THEOREM KernelImplementsLifecycle == ASSUME PlainKernel PROVE Spec => LifecycleSpec
  BY LifecycleInit, LifecycleNext, LifeInvariant, PTL
  DEF Spec, LifecycleSpec, Lifecycle!Spec

-----------------------------------------------------------------------------
(* The shutdown. *)

LEMMA QuietEntersNone ==
  ASSUME TypeOK, NEW t \in Threads, Around(t)
  PROVE  ~EntersHandler(t)
<1>1. CASE stack[t] # << >> /\ Return(t)
  BY <1>1, ReturnEntersNone
<1>2. ASSUME NEW f \in Frame, stack[t] # << >>, f.at # "handler", Replace(t, f)
      PROVE  ~EntersHandler(t)
  BY <1>2, TopReplaced DEF EntersHandler
<1>3. ASSUME NEW f \in Frame, f.at # "handler", Push(t, f)
      PROVE  ~EntersHandler(t)
  <2>1. stack[t] \in Seq(Frame) /\ stack'[t] = Append(stack[t], f)
    BY <1>3 DEF Push, TypeOK
  <2> QED
    BY <1>3, <2>1, TopPushed DEF EntersHandler
<1> QED
  BY <1>1, <1>2, <1>3 DEF Around

LEMMA OnlyDispatchEnters ==
  ASSUME PlainKernel, Inv, NEW t \in Threads, Begin(t) \/ Finish(t) \/ Kernel(t),
         EntersHandler(t)
  PROVE  DispatchDirect(t) \/ DispatchQueued(t) \/ EndWait(t)
<1>1. TypeOK
  BY DEF Inv
<1>2. ~Quiet(t)
  BY <1>1, QuietEntersNone DEF Quiet
<1>3. ~Ready(t)
  <2> SUFFICES ASSUME Ready(t) PROVE FALSE
    OBVIOUS
  <2>1. stack[t] # << >> /\ (Return(t) \/ \E f \in Frame : f.at = "publish" /\ Replace(t, f))
    BY ReadyStep
  <2>2. PICK f \in Frame : f.at = "publish" /\ Replace(t, f)
    BY <1>1, <2>1, ReturnEntersNone
  <2> QED
    BY <1>1, <2>1, <2>2, TopReplaced DEF EntersHandler
<1>4. ~HandlerReturn(t)
  BY <1>1, ReturnStep, ReturnEntersNone
<1>5. ~\E h \in Handles : EnterObject(t, h)
  <2> SUFFICES ASSUME NEW h \in Handles, EnterObject(t, h) PROVE FALSE
    OBVIOUS
  <2>1. NewFrame("init", h, objectUniqueID, "none") \in Frame
        /\ NewFrame("init", h, objectUniqueID, "none").at = "init"
    BY <1>1, NewFrameTyped DEF Places, Messages, NewFrame, TypeOK
  <2>2. stack[t] # << >> /\ Replace(t, NewFrame("init", h, objectUniqueID, "none"))
    BY DEF EnterObject, At
  <2> QED
    BY <1>1, <2>1, <2>2, TopReplaced DEF EntersHandler
<1> QED
  BY <1>2, <1>3, <1>4, <1>5, CreatingKinds, SendingKinds, PlainSteps
  DEF Begin, Finish, Kernel

(* A "use" that the loop of krnlSendMessage lets through during a shutdown *)
(* comes from the thread that is in the object.                            *)
LEMMA GateStep ==
  ASSUME PlainKernel, Inv, shutdown, NEW t \in Threads,
         Begin(t) \/ Finish(t) \/ Kernel(t), EntersHandler(t),
         Last(stack'[t]).msg = "use"
  PROVE  t \in Users(Last(stack'[t]).handle)
<1>1. TypeOK
  BY DEF Inv
<1>2. DispatchDirect(t) => Return(t)
  BY DEF DispatchDirect
<1>3. At(t, "call") /\ Process(t) /\ Enqueueing(t) /\ ~InUseByOther(t)
  <2>1. ~EndWait(t)
    BY DEF EndWait
  <2>2. ~DispatchDirect(t)
    BY <1>1, <1>2, ReturnEntersNone DEF DispatchDirect, Dispatching, At
  <2> QED
    BY <2>1, <2>2, OnlyDispatchEnters DEF DispatchQueued, Enqueueing, Dispatching
<1>4. /\ stack[t] # << >> /\ Top(t) \in Frame /\ Top(t).handle \in Handles
      /\ Obj(t) \in Entry /\ Effective(t) \in Messages
      /\ Obj(t) = objectTable[Top(t).handle]
  BY <1>1, <1>3, InCall, TopCall
<1>5. ~HasDependent(Obj(t))
  BY <1>4 DEF Inv, FramesPlain, HasDependent
<1>6. ASSUME NEW o \in Entry, EnterHandler(t, o, Obj(t).uniqueID, Effective(t))
      PROVE  /\ Last(stack'[t]).handle = Top(t).handle
             /\ Last(stack'[t]).msg = Effective(t)
  <2> DEFINE f == [NewFrame("handler", Top(t).handle, Obj(t).uniqueID, Effective(t))
                     EXCEPT !.n = o.lockCount]
  <2>1. NewFrame("handler", Top(t).handle, Obj(t).uniqueID, Effective(t)) \in Frame
    BY <1>4, NewFrameTyped DEF Places, Entry
  <2>2. f \in Frame
    BY <2>1 DEF Frame, Entry
  <2>3. f.handle = Top(t).handle /\ f.msg = Effective(t)
    BY DEF NewFrame
  <2>4. Replace(t, f)
    BY <1>6 DEF EnterHandler
  <2> HIDE DEF f
  <2> QED
    BY <1>1, <1>4, <2>2, <2>3, <2>4, TopReplaced
<1>7. ~Return(t)
  BY <1>1, <1>4, ReturnEntersNone
<1>8. /\ Last(stack'[t]).handle = Top(t).handle
      /\ Last(stack'[t]).msg = Effective(t)
  <2>1. \/ EnterHandler(t, Obj(t), Obj(t).uniqueID, Effective(t))
        \/ EnterHandler(t, Signal(Obj(t)), Obj(t).uniqueID, Effective(t))
    BY <1>3, <1>5, <1>7, Zenon DEF Process
  <2>2. Signal(Obj(t)) \in Entry
    BY <1>4, SignalTyped
  <2> QED
    BY <1>4, <1>6, <2>1, <2>2
<1>9. isInUse(Obj(t)) /\ Obj(t).lockOwner = t
  BY <1>3, <1>8 DEF Enqueueing, InUseByOther, isDestroy
<1>10. LockHeld(Top(t).handle)
  BY <1>4 DEF Inv, LocksHeld
<1>11. PICK i \in 1..Len(stack[t]) : isHandler(stack[t][i], Top(t).handle)
  BY <1>4, <1>9, <1>10 DEF LockHeld, isInUse
<1> QED
  BY <1>8, <1>11 DEF Users, isInside, isHandler

(* In a plain kernel that is shutting down, the only ordinary messages     *)
(* that still reach a handler come from the thread that is already inside  *)
(* the object: the check under the mutex closes the one that krnlSendMessage*)
(* makes before it takes the mutex.                                        *)
THEOREM OnlyUsersPassTheGate == ASSUME PlainKernel PROVE Spec => ShutdownGate
<1>1. Inv /\ [Next]_vars =>
        [\A t \in Threads :
           shutdown /\ EntersHandler(t) /\ Last(stack'[t]).msg = "use" =>
             t \in Users(Last(stack'[t]).handle)]_vars
  <2> SUFFICES ASSUME Inv, Next, NEW t \in Threads, shutdown, EntersHandler(t),
                      Last(stack'[t]).msg = "use"
               PROVE  t \in Users(Last(stack'[t]).handle)
    OBVIOUS
  <2>1. ~BeginShutdown
    BY DEF BeginShutdown
  <2>2. PICK u \in Threads : Begin(u) \/ Finish(u) \/ Kernel(u)
    BY <2>1 DEF Next
  <2>3. u = t
    BY <2>2, OwnStack DEF EntersHandler, Inv
  <2> QED
    BY <2>2, <2>3, GateStep
<1> QED
  BY <1>1, Invariant, PTL DEF Spec, ShutdownGate

-----------------------------------------------------------------------------
(* The lock count. *)

(* What stands in for an induction: a nonempty set of numbers has a least  *)
(* one.                                                                    *)
LessThan == {p \in Nat \X Nat : p[1] < p[2]}

LEMMA LeastNatural ==
  ASSUME NEW D, D \subseteq Nat, D # {}
  PROVE  \E d \in D : \A k \in D : d <= k
<1>1. IsWellFoundedOn(LessThan, Nat)
  BY NatLessThanWellFounded, Zenon DEF OpToRel, LessThan
<1>2. PICK d \in D : \A k \in D : <<k, d>> \notin LessThan
  BY <1>1, WFMin, Zenon
<1>3. ASSUME NEW k \in D
      PROVE  d <= k
  <2>1. k \in Nat /\ d \in Nat /\ <<k, d>> \notin LessThan
    BY <1>2
  <2>2. ~(k < d)
    BY <2>1 DEF LessThan
  <2> QED
    BY <2>1, <2>2
<1> QED
  BY <1>3

(* The calls inside an object, as LockCountExact counts them.              *)
Inside(h) ==
  {p \in Threads \X (1..MaxDepth) :
     p[2] <= Len(stack[p[1]]) /\ isInside(stack[p[1]][p[2]], h)}

Number(p) == stack[p[1]][p[2]].n

LEMMA InsideOwner ==
  ASSUME PlainKernel, LifeInv, NEW h \in Handles, NEW p \in Inside(h)
  PROVE  /\ p = <<objectTable[h].lockOwner, p[2]>> /\ p[1] = objectTable[h].lockOwner
         /\ p[1] \in Threads /\ p[2] \in 1..Len(stack[p[1]])
         /\ isHandler(stack[p[1]][p[2]], h) /\ NestsWell(p[1], p[2])
         /\ Number(p) \in 0..(objectTable[h].lockCount - 1)
<1>1. /\ p[1] \in Threads /\ p[2] \in 1..MaxDepth /\ p = <<p[1], p[2]>>
      /\ p[2] <= Len(stack[p[1]]) /\ isInside(stack[p[1]][p[2]], h)
  BY DEF Inside
<1>2. /\ Len(stack[p[1]]) \in Nat /\ \A i \in 1..Len(stack[p[1]]) : stack[p[1]][i] \in Frame
  BY <1>1, StackLengths DEF LifeInv, Inv
<1>3. p[2] \in 1..Len(stack[p[1]])
  BY <1>1, <1>2
<1>4. isHandler(stack[p[1]][p[2]], h)
  BY <1>1, <1>3 DEF LifeInv, Inv, FramesPlain, PlainFrame, isInside, isHandler
<1>5. OwnsObject(p[1], p[2]) /\ NestsWell(p[1], p[2])
  BY <1>1, <1>3, <1>4 DEF LifeInv, Inv, HandlersOwn, HandlersNest, isHandler
<1>6. /\ objectTable[h].lockOwner = p[1]
      /\ 0 <= stack[p[1]][p[2]].n /\ stack[p[1]][p[2]].n < objectTable[h].lockCount
  BY <1>4, <1>5 DEF OwnsObject, isHandler
<1>7. stack[p[1]][p[2]].n \in Int /\ objectTable[h].lockCount \in Int
  BY <1>2, <1>3 DEF Frame, LifeInv, Inv, TypeOK, Entry
<1>8. Number(p) \in 0..(objectTable[h].lockCount - 1)
  BY <1>6, <1>7 DEF Number
<1> QED
  BY <1>1, <1>3, <1>4, <1>5, <1>6, <1>8

LEMMA HandlerIsInside ==
  ASSUME PlainKernel, LifeInv, NEW h \in Handles, NEW t \in Threads,
         NEW i \in 1..Len(stack[t]), isHandler(stack[t][i], h)
  PROVE  <<t, i>> \in Inside(h)
<1>1. MaxDepth = MaxFrames + 1 /\ MaxFrames \in Nat
  BY FS_EmptySet, KernelAssumption DEF PlainKernel, MaxDepth
<1>2. Len(stack[t]) \in Nat /\ Len(stack[t]) <= MaxFrames + 1
  BY StackLengths DEF LifeInv, Inv, DepthBounded
<1>3. i \in 1..MaxDepth /\ i <= Len(stack[t])
  BY <1>1, <1>2
<1> QED
  BY <1>3 DEF Inside, isInside, isHandler

(* Two calls inside an object have different numbers: the inner one's is   *)
(* the higher.                                                             *)
LEMMA NumbersDiffer ==
  ASSUME PlainKernel, LifeInv, NEW h \in Handles, NEW p \in Inside(h), NEW q \in Inside(h),
         Number(p) = Number(q)
  PROVE  p = q
<1>1. /\ p = <<objectTable[h].lockOwner, p[2]>> /\ q = <<objectTable[h].lockOwner, q[2]>>
      /\ p[1] = q[1] /\ p[2] \in Int /\ q[2] \in Int /\ 1 <= p[2] /\ 1 <= q[2]
      /\ isHandler(stack[p[1]][p[2]], h) /\ NestsWell(p[1], p[2])
      /\ isHandler(stack[q[1]][q[2]], h) /\ NestsWell(q[1], q[2])
      /\ Number(p) \in Int /\ Number(q) \in Int
  BY InsideOwner
<1>2. ASSUME p[2] < q[2]
      PROVE  FALSE
  <2>1. p[2] \in 1..(q[2] - 1)
    BY <1>1, <1>2
  <2>2. stack[q[1]][p[2]].n < stack[q[1]][q[2]].n
    BY <1>1, <2>1 DEF NestsWell, isHandler
  <2> QED
    BY <1>1, <2>2 DEF Number
<1>3. ASSUME q[2] < p[2]
      PROVE  FALSE
  <2>1. q[2] \in 1..(p[2] - 1)
    BY <1>1, <1>3
  <2>2. stack[p[1]][q[2]].n < stack[p[1]][p[2]].n
    BY <1>1, <2>1 DEF NestsWell, isHandler
  <2> QED
    BY <1>1, <2>2 DEF Number
<1>4. p[2] = q[2]
  BY <1>1, <1>2, <1>3
<1> QED
  BY <1>1, <1>4

(* Every number below the lock count is some call's: d steps below the     *)
(* last one, for the least d where there were none.                        *)
LEMMA NumbersComplete ==
  ASSUME PlainKernel, LifeInv, NEW h \in Handles,
         NEW k \in 0..(objectTable[h].lockCount - 1)
  PROVE  \E p \in Inside(h) : Number(p) = k
<1> DEFINE last == objectTable[h].lockCount - 1
           Missing == {d \in Nat : d <= last /\ \A p \in Inside(h) : Number(p) # last - d}
<1>1. objectTable[h].lockCount \in Int /\ last \in Nat /\ k \in Int /\ 0 <= k /\ k <= last
  <2>1. objectTable[h].lockCount \in Int
    BY DEF LifeInv, Inv, TypeOK, Entry
  <2> QED
    BY <2>1
<1>2. SUFFICES ASSUME \A p \in Inside(h) : Number(p) # k
               PROVE  FALSE
  OBVIOUS
<1>3. last - k \in Missing
  <2>1. last - (last - k) = k /\ last - k \in Nat /\ last - k <= last
    BY <1>1
  <2> QED
    BY <1>2, <2>1
<1>4. Missing \subseteq Nat /\ Missing # {}
  BY <1>3
<1> HIDE DEF Missing
<1>5. PICK d \in Missing : \A e \in Missing : d <= e
  BY <1>4, LeastNatural
<1>6. d \in Nat /\ d <= last /\ \A p \in Inside(h) : Number(p) # last - d
  BY <1>5 DEF Missing
<1>7. CASE d = 0
  <2>1. LockHeld(h) /\ objectTable[h].lockCount > 0
    BY <1>1 DEF LifeInv, Inv, LocksHeld
  <2>2. PICK t \in Threads : t = objectTable[h].lockOwner
    BY <2>1 DEF LockHeld
  <2>3. PICK i \in 1..Len(stack[t]) :
          isHandler(stack[t][i], h) /\ stack[t][i].n = objectTable[h].lockCount - 1
    BY <2>1, <2>2 DEF LockHeld
  <2>4. <<t, i>> \in Inside(h) /\ Number(<<t, i>>) = last
    BY <2>3, HandlerIsInside DEF Number
  <2> QED
    BY <1>1, <1>6, <1>7, <2>4
<1>8. CASE d # 0
  <2>1. d - 1 \notin Missing
    <3>1. ~(d <= d - 1)
      BY <1>6
    <3> QED
      BY <1>5, <3>1
  <2>2. d - 1 \in Nat /\ d - 1 <= last
    BY <1>1, <1>6, <1>8
  <2>3. PICK p \in Inside(h) : Number(p) = last - (d - 1)
    BY <2>1, <2>2 DEF Missing
  <2>4. Number(p) > 0 /\ Number(p) - 1 = last - d
    BY <1>1, <1>6, <2>3
  <2>5. /\ p[1] \in Threads /\ p[2] \in 1..Len(stack[p[1]]) /\ NestsWell(p[1], p[2])
        /\ isHandler(stack[p[1]][p[2]], h) /\ Len(stack[p[1]]) \in Nat
    BY InsideOwner, StackLengths DEF LifeInv, Inv
  <2>6. PICK j \in 1..(p[2] - 1) :
          isHandler(stack[p[1]][j], h) /\ stack[p[1]][j].n = stack[p[1]][p[2]].n - 1
    BY <2>4, <2>5 DEF NestsWell, Number, isHandler
  <2>7. j \in 1..Len(stack[p[1]])
    BY <2>5, <2>6
  <2>8. <<p[1], j>> \in Inside(h) /\ Number(<<p[1], j>>) = last - d
    BY <2>4, <2>5, <2>6, <2>7, HandlerIsInside DEF Number
  <2> QED
    BY <1>6, <2>8
<1> QED
  BY <1>7, <1>8

LEMMA CountedByNumber ==
  ASSUME PlainKernel, LifeInv, NEW h \in Handles
  PROVE  objectTable[h].lockCount = Cardinality(Inside(h))
<1> DEFINE numbers == 0..(objectTable[h].lockCount - 1)
<1>1. LockHeld(h) /\ objectTable[h].lockCount \in Int
  BY DEF LifeInv, Inv, LocksHeld, TypeOK, Entry
<1>2. objectTable[h].lockCount \in Nat
  BY <1>1 DEF LockHeld
<1>3. IsFiniteSet(numbers) /\ Cardinality(numbers) = objectTable[h].lockCount
  <2>1. /\ IsFiniteSet(numbers)
        /\ Cardinality(numbers) =
             IF 0 > objectTable[h].lockCount - 1 THEN 0
             ELSE objectTable[h].lockCount - 1 - 0 + 1
    <3>1. 0 \in Int /\ objectTable[h].lockCount - 1 \in Int
      BY <1>2
    <3> QED
      BY <3>1, FS_Interval, Zenon
  <2> HIDE DEF numbers
  <2> QED
    BY <1>2, <2>1
<1>4. \A k \in numbers : \E p \in Inside(h) : Number(p) = k
  BY NumbersComplete
<1> DEFINE f == [k \in numbers |-> CHOOSE p \in Inside(h) : Number(p) = k]
<1>5. \A k \in numbers : f[k] \in Inside(h) /\ Number(f[k]) = k
  BY <1>4
<1>6. f \in [numbers -> Inside(h)]
  BY <1>5
<1>7. \A k, l \in numbers : f[k] = f[l] => k = l
  BY <1>5
<1>8. \A p \in Inside(h) : \E k \in numbers : f[k] = p
  <2> SUFFICES ASSUME NEW p \in Inside(h)
               PROVE  \E k \in numbers : f[k] = p
    OBVIOUS
  <2>1. Number(p) \in numbers
    BY InsideOwner
  <2> HIDE DEF f, numbers
  <2>2. f[Number(p)] \in Inside(h) /\ Number(f[Number(p)]) = Number(p)
    BY <1>5, <2>1
  <2>3. f[Number(p)] = p
    BY <2>2, NumbersDiffer
  <2> QED
    BY <2>1, <2>3
<1> HIDE DEF f, numbers
<1>9. ExistsBijection(numbers, Inside(h))
  BY <1>6, <1>7, <1>8
  DEF ExistsBijection, Bijection, Injection, IsInjective, Surjection
<1> QED
  BY <1>3, <1>9, FS_Bijection

(* In a plain kernel the lock count of an entry is the number of handlers  *)
(* that run in its object, however calls nest and threads interleave: it   *)
(* is back at zero when the last of them returns, and never before.        *)
THEOREM LockCountIsExact == ASSUME PlainKernel PROVE Spec => []LockCountExact
<1>1. LifeInv => LockCountExact
  BY CountedByNumber DEF LockCountExact, Inside
<1> QED
  BY <1>1, LifeInvariant, PTL

-----------------------------------------------------------------------------
(* The kernel of one thread, with locks and dependent objects: LoneKernel.  *)
(* LoneInv is inductive there.  First lemmas about a stack of calls and an *)
(* object table that change by one call and one entry, then one lemma per  *)
(* action.                                                                 *)

-----------------------------------------------------------------------------
(* The exact lock count in a kernel of one thread.                         *)

(* What the calls outside the innermost one rely on of an entry.           *)
Upholds(o, p) ==
  /\ ~isFree(p) /\ p.uniqueID = o.uniqueID /\ (o.signalled => p.signalled) /\ (o.notinited => p.notinited)
  /\ p.signalled \/ References(p) >= References(o)
  /\ p.dependentObject = o.dependentObject

LEMMA MakersFinite ==
  ASSUME NEW s, FramesTyped(s), NEW T, NEW i \in Nat
  PROVE  IsFiniteSet(Makers(s, T, i)) /\ Cardinality(Makers(s, T, i)) \in Nat
<1>1. Len(s) \in Nat
  BY LenProperties DEF FramesTyped
<1>2. IsFiniteSet((i + 1)..Len(s))
  BY <1>1, FS_Interval
<1>3. Makers(s, T, i) \subseteq (i + 1)..Len(s)
  BY DEF Makers
<1> QED
  BY <1>2, <1>3, FS_Subset, FS_CardinalityType

LEMMA ReferencesTyped ==
  ASSUME NEW o \in Entry
  PROVE  References(o) \in Int
  BY DEF References, Entry

(* A call that lasts, unless what it relies on is lost.                    *)
LEMMA CallStays ==
  ASSUME NEW s, FramesTyped(s), NEW r, FramesTyped(r), NEW T, NEW U,
         NEW i \in 1..Len(s), i <= Len(r), \A j \in 1..i : r[j] = s[j],
         s[i].at \in Lasting, LoneCall(s, T, i),
         U[s[i].handle].uniqueID = T[s[i].handle].uniqueID,
         T[s[i].handle].signalled => U[s[i].handle].signalled,
         isMaking(s[i]) => U[s[i].handle].notinited,
         s[i].handle \in Dependable /\ ~U[s[i].handle].signalled =>
           References(U[s[i].handle]) > Cardinality(Makers(r, U, i))
  PROVE  LoneCall(r, U, i)
<1>1. Len(s) \in Nat /\ i \in Nat /\ r[i] = s[i] /\ \A j \in 1..(i - 1) : r[j] = s[j]
  BY LenProperties DEF FramesTyped
<1>2. \A h : IsOutside(r, i, h) <=> IsOutside(s, i, h)
  BY <1>1 DEF IsOutside
<1>3. s[i].at \notin {"call", "setdep", "wait"}
  BY DEF Lasting
<1>4. KeepsObject(r, U, i)
  BY <1>1, <1>2 DEF LoneCall, KeepsObject, Holds, isFree
<1>5. MayProceed(r, U, i)
  BY <1>1, <1>3 DEF MayProceed
<1>6. DeepestDestroys(r, U, i)
  BY <1>1, <1>3 DEF LoneCall, DeepestDestroys
<1> QED
  BY <1>1, <1>3, <1>4, <1>5, <1>6 DEF LoneCall

(* What is inside of another call lets others alone.                       *)
LEMMA OutsideLasts ==
  ASSUME NEW s, FramesTyped(s), NEW T, \A i \in 1..Len(s) : LoneCall(s, T, i),
         NEW i \in 1..(Len(s) - 1)
  PROVE  /\ i \in 1..Len(s) /\ s[i].at \in Lasting /\ s[i].handle \in Handles
         /\ ~isFree(T[s[i].handle])
<1>1. Len(s) \in Nat /\ i \in 1..Len(s) /\ i < Len(s)
  BY LenProperties DEF FramesTyped
<1>2. LoneCall(s, T, i) /\ s[i].at \in Lasting
  BY <1>1 DEF LoneCall
<1>3. s[i].at # "create"
  BY <1>2 DEF Lasting
<1> QED
  BY <1>1, <1>2, <1>3 DEF LoneCall, KeepsObject, Holds, FramesTyped

(* The calls up to the k-th after a step that leaves their objects be.     *)
LEMMA CallsStay ==
  ASSUME NEW s, FramesTyped(s), NEW r, FramesTyped(r),
         NEW T \in [Handles -> Entry], NEW U \in [Handles -> Entry],
         \A i \in 1..Len(s) : LoneCall(s, T, i),
         NEW k \in 0..Len(s), k <= Len(r),
         \A i \in 1..k : r[i] = s[i] /\ s[i].at \in Lasting /\ s[i].handle \in Handles,
         \A i \in 1..k : Upholds(T[s[i].handle], U[s[i].handle]),
         \A j \in (k + 1)..Len(r) : isMaking(r[j]) =>
           \/ U[r[j].handle].dependentObject = NoHandle
           \/ /\ j \in 1..Len(s) /\ isMaking(s[j]) /\ s[j].handle = r[j].handle
              /\ U[r[j].handle].dependentObject = T[r[j].handle].dependentObject
  PROVE  \A i \in 1..k : LoneCall(r, U, i)
<1> SUFFICES ASSUME NEW i \in 1..k
             PROVE  LoneCall(r, U, i)
  OBVIOUS
<1>1. /\ Len(s) \in Nat /\ Len(r) \in Nat /\ k \in Nat /\ i \in 1..Len(s) /\ i <= Len(r) /\ i \in Nat
      /\ i \in 1..k /\ \A j \in 1..i : j \in 1..k
  BY LenProperties DEF FramesTyped
<1> DEFINE h == s[i].handle
<1>2. /\ h \in Handles /\ Upholds(T[h], U[h]) /\ s[i].at \in Lasting /\ LoneCall(s, T, i) /\ h # NoHandle
      /\ r[i] = s[i] /\ \A j \in 1..i : r[j] = s[j]
  BY <1>1, KernelAssumption
<1>3. Makers(r, U, i) \subseteq Makers(s, T, i)
  <2> SUFFICES ASSUME NEW j \in (i + 1)..Len(r), isMaking(r[j]), U[r[j].handle].dependentObject = h
               PROVE  j \in Makers(s, T, i)
    BY <1>2 DEF Makers
  <2>1. CASE j <= k
    <3>1. j \in 1..k /\ j \in (i + 1)..Len(s)
      BY <1>1, <2>1
    <3>2. r[j] = s[j] /\ U[s[j].handle].dependentObject = T[s[j].handle].dependentObject
      BY <3>1 DEF Upholds
    <3> QED
      BY <3>1, <3>2 DEF Makers
  <2>2. CASE j > k
    <3>1. j \in (k + 1)..Len(r)
      BY <1>1, <2>2
    <3>2. /\ j \in 1..Len(s) /\ isMaking(s[j]) /\ s[j].handle = r[j].handle
          /\ U[r[j].handle].dependentObject = T[r[j].handle].dependentObject
      BY <1>2, <3>1
    <3>3. j \in (i + 1)..Len(s)
      BY <1>1, <3>2
    <3> QED
      BY <3>2, <3>3 DEF Makers
  <2> QED
    BY <1>1, <2>1, <2>2
<1>4. Cardinality(Makers(r, U, i)) <= Cardinality(Makers(s, T, i))
  BY <1>1, <1>3, MakersFinite, FS_Subset
<1>5. /\ Cardinality(Makers(r, U, i)) \in Nat /\ Cardinality(Makers(s, T, i)) \in Nat
      /\ References(T[h]) \in Int /\ References(U[h]) \in Int
  BY <1>1, <1>2, MakersFinite, ReferencesTyped
<1>6. h \in Dependable /\ ~U[h].signalled => References(U[h]) > Cardinality(Makers(r, U, i))
  <2> SUFFICES ASSUME h \in Dependable, ~U[h].signalled
               PROVE  References(U[h]) > Cardinality(Makers(r, U, i))
    OBVIOUS
  <2>1. ~T[h].signalled /\ References(U[h]) >= References(T[h])
    BY <1>2 DEF Upholds
  <2>2. References(T[h]) > Cardinality(Makers(s, T, i))
    BY <1>2, <2>1 DEF LoneCall, KeepsObject, Holds
  <2> QED
    BY <1>4, <1>5, <2>1, <2>2
<1>7. isMaking(s[i]) => U[h].notinited
  BY <1>2 DEF LoneCall, KeepsObject, Upholds
<1>8. U[h].uniqueID = T[h].uniqueID /\ (T[h].signalled => U[h].signalled)
  BY <1>2 DEF Upholds
<1> QED
  BY <1>1, <1>2, <1>6, <1>7, <1>8, CallStays

(* Counting the calls inside an object.                                    *)
LEMMA InsideFinite ==
  ASSUME NEW s, FramesTyped(s), NEW h
  PROVE  IsFiniteSet(InsideCalls(s, h)) /\ Cardinality(InsideCalls(s, h)) \in Nat
<1>1. IsFiniteSet(1..Len(s)) /\ InsideCalls(s, h) \subseteq 1..Len(s)
  BY FS_Interval, LenProperties DEF FramesTyped, InsideCalls
<1> QED
  BY <1>1, FS_Subset, FS_CardinalityType

LEMMA OneMoreInside ==
  ASSUME NEW s, FramesTyped(s), NEW r, FramesTyped(r), NEW h,
         Len(r) = Len(s) + 1, \A i \in 1..Len(s) : r[i] = s[i]
  PROVE  /\ isInside(r[Len(r)], h) =>
              Cardinality(InsideCalls(r, h)) = Cardinality(InsideCalls(s, h)) + 1
         /\ ~isInside(r[Len(r)], h) => InsideCalls(r, h) = InsideCalls(s, h)
<1>1. Len(s) \in Nat /\ Len(r) \notin InsideCalls(s, h)
  BY LenProperties DEF FramesTyped, InsideCalls
<1>2. ASSUME isInside(r[Len(r)], h)
      PROVE  InsideCalls(r, h) = InsideCalls(s, h) \union {Len(r)}
  BY <1>1, <1>2 DEF InsideCalls
<1>3. ASSUME ~isInside(r[Len(r)], h)
      PROVE  InsideCalls(r, h) = InsideCalls(s, h)
  BY <1>1, <1>3 DEF InsideCalls
<1>4. Cardinality(InsideCalls(s, h) \union {Len(r)}) = Cardinality(InsideCalls(s, h)) + 1
  BY <1>1, InsideFinite, FS_AddElement
<1> QED
  BY <1>2, <1>3, <1>4

LEMMA NoneInside ==
  ASSUME NEW s, FramesTyped(s), NEW h, ~IsOutside(s, Len(s), h),
         s # << >> => ~isInside(s[Len(s)], h)
  PROVE  Cardinality(InsideCalls(s, h)) = 0
<1>1. Len(s) \in Nat /\ (s = << >> => Len(s) = 0)
  BY LenProperties, EmptySeq DEF FramesTyped
<1>2. InsideCalls(s, h) = {}
  BY <1>1 DEF InsideCalls, IsOutside, isInside
<1> QED
  BY <1>2, FS_EmptySet

LEMMA FrontFacts ==
  ASSUME NEW s, FramesTyped(s), s # << >>
  PROVE  /\ FramesTyped(Front(s)) /\ Len(s) \in Nat \ {0} /\ Len(s) - 1 \in 0..Len(s)
         /\ Len(Front(s)) = Len(s) - 1 /\ Len(s) = Len(Front(s)) + 1
         /\ \A i \in 1..(Len(s) - 1) : Front(s)[i] = s[i]
         /\ \A i \in 1..Len(Front(s)) : s[i] = Front(s)[i]
<1>1. FramesTyped(Front(s)) /\ s \in Seq(Frame)
  BY PopTyped DEF FramesTyped
<1>2. /\ Len(s) \in Nat /\ Len(s) > 0 /\ Len(Front(s)) = Len(s) - 1
      /\ \A i \in 1..(Len(s) - 1) : Front(s)[i] = s[i]
  BY <1>1, PopStack
<1> QED
  BY <1>1, <1>2

LEMMA ReplacedFacts ==
  ASSUME NEW s, FramesTyped(s), s # << >>, NEW f \in Frame, f.at # "create" => f.handle \in Handles
  PROVE  LET r == Append(Front(s), f) IN
         /\ FramesTyped(r) /\ Len(r) = Len(s) /\ r[Len(s)] = f /\ r[Len(r)] = f
         /\ \A i \in 1..(Len(s) - 1) : r[i] = s[i]
         /\ Len(r) = Len(Front(s)) + 1
         /\ \A i \in 1..Len(Front(s)) : r[i] = Front(s)[i]
<1> DEFINE r == Append(Front(s), f)
<1>1. FramesTyped(r) /\ s \in Seq(Frame)
  BY ReplaceTyped DEF FramesTyped
<1>2. /\ Len(r) = Len(s) /\ r[Len(s)] = f
      /\ \A i \in 1..(Len(s) - 1) : r[i] = s[i]
  BY <1>1, ReplaceStack
<1>3. /\ Len(s) = Len(Front(s)) + 1 /\ Len(Front(s)) = Len(s) - 1
      /\ \A i \in 1..Len(Front(s)) : s[i] = Front(s)[i]
  BY FrontFacts
<1> QED
  BY <1>1, <1>2, <1>3

(* The innermost call returns; only the entry of its object changes.       *)
LEMMA PopState ==
  ASSUME NEW t, NEW s, FramesTyped(s), s # << >>,
         NEW T \in [Handles -> Entry], NEW U \in [Handles -> Entry], LoneState(t, s, T),
         NEW h, h = s[Len(s)].handle,
         \A g \in Handles : g # h => U[g] = T[g],
         IsOutside(s, Len(s), h) => Upholds(T[h], U[h]),
         h \in Handles => LoneEntry(t, Front(s), U, h)
  PROVE  LoneState(t, Front(s), U)
<1>1. /\ FramesTyped(Front(s)) /\ Len(s) \in Nat \ {0} /\ Len(s) - 1 \in 0..Len(s)
      /\ Len(Front(s)) = Len(s) - 1 /\ Len(s) = Len(Front(s)) + 1
      /\ \A i \in 1..(Len(s) - 1) : Front(s)[i] = s[i]
      /\ \A i \in 1..Len(Front(s)) : s[i] = Front(s)[i]
  BY FrontFacts
<1>2. /\ \A i \in 1..Len(s) : LoneCall(s, T, i)
      /\ \A g \in Handles : LoneEntry(t, s, T, g)
  BY DEF LoneState
<1>3. \A i \in 1..(Len(s) - 1) : s[i].at \in Lasting /\ s[i].handle \in Handles /\ ~isFree(T[s[i].handle])
  BY <1>2, OutsideLasts
<1>4. ASSUME NEW i \in 1..(Len(s) - 1)
      PROVE  Upholds(T[s[i].handle], U[s[i].handle])
  <2>1. CASE s[i].handle = h
    BY <2>1 DEF IsOutside
  <2>2. CASE s[i].handle # h
    <3>1. U[s[i].handle] = T[s[i].handle] /\ T[s[i].handle] \in Entry /\ ~isFree(T[s[i].handle])
      BY <1>3, <2>2
    <3>2. References(T[s[i].handle]) >= References(T[s[i].handle])
      BY <3>1, ReferencesTyped
    <3> QED
      BY <3>1, <3>2 DEF Upholds
  <2> QED
    BY <2>1, <2>2
<1>5. \A i \in 1..Len(Front(s)) : LoneCall(Front(s), U, i)
  <2>1. PICK k \in 0..Len(s) : k = Len(s) - 1
    BY <1>1
  <2>2. \A j \in (k + 1)..Len(Front(s)) : FALSE
    BY <1>1, <2>1
  <2>3. k <= Len(Front(s))
    BY <1>1, <2>1
  <2>4. \A i \in 1..k : LoneCall(Front(s), U, i)
    BY <1>1, <1>2, <1>3, <1>4, <2>1, <2>2, <2>3, CallsStay
  <2> QED
    BY <1>1, <2>1, <2>4
<1>6. ASSUME NEW g \in Handles, g # h
      PROVE  LoneEntry(t, Front(s), U, g)
  <2>1. ~isInside(s[Len(s)], g) /\ ~Destroying(s, g)
    BY <1>6 DEF isInside, Destroying
  <2>2. InsideCalls(s, g) = InsideCalls(Front(s), g)
    BY <1>1, <2>1, OneMoreInside
  <2>3. LoneEntry(t, s, T, g) /\ U[g] = T[g]
    BY <1>2, <1>6
  <2> QED
    BY <2>1, <2>2, <2>3 DEF LoneEntry
<1> QED
  BY <1>5, <1>6 DEF LoneState

(* It goes on in another place; only the entry of its object changes.      *)
LEMMA ReplaceState ==
  ASSUME NEW t, NEW s, FramesTyped(s), s # << >>, NEW f \in Frame,
         NEW T \in [Handles -> Entry], NEW U \in [Handles -> Entry], LoneState(t, s, T),
         NEW h \in Handles, h = f.handle, NEW e, e = s[Len(s)],
         e.handle = h \/ e.at = "create",
         \A g \in Handles : g # h => U[g] = T[g],
         IsOutside(s, Len(s), h) => Upholds(T[h], U[h]),
         isMaking(f) => \/ U[h].dependentObject = NoHandle
                        \/ isMaking(e) /\ e.handle = h /\ U[h].dependentObject = T[h].dependentObject,
         NEW r, r = Append(Front(s), f),
         LoneCall(r, U, Len(s)), LoneEntry(t, r, U, h)
  PROVE  LoneState(t, r, U)
<1>1. /\ FramesTyped(Front(s)) /\ Len(s) \in Nat \ {0} /\ Len(s) - 1 \in 0..Len(s)
      /\ Len(Front(s)) = Len(s) - 1 /\ Len(s) = Len(Front(s)) + 1
      /\ \A i \in 1..(Len(s) - 1) : Front(s)[i] = s[i]
      /\ \A i \in 1..Len(Front(s)) : s[i] = Front(s)[i]
  BY FrontFacts
<1>1a. /\ FramesTyped(r) /\ Len(r) = Len(s) /\ r[Len(s)] = f /\ r[Len(r)] = f
       /\ \A i \in 1..(Len(s) - 1) : r[i] = s[i]
       /\ Len(r) = Len(Front(s)) + 1
       /\ \A i \in 1..Len(Front(s)) : r[i] = Front(s)[i]
  BY ReplacedFacts
<1>2. /\ \A i \in 1..Len(s) : LoneCall(s, T, i)
      /\ \A g \in Handles : LoneEntry(t, s, T, g)
  BY DEF LoneState
<1>3. \A i \in 1..(Len(s) - 1) : s[i].at \in Lasting /\ s[i].handle \in Handles /\ ~isFree(T[s[i].handle])
  BY <1>2, OutsideLasts
<1>4. ASSUME NEW i \in 1..(Len(s) - 1)
      PROVE  Upholds(T[s[i].handle], U[s[i].handle])
  <2>1. CASE s[i].handle = h
    BY <2>1 DEF IsOutside
  <2>2. CASE s[i].handle # h
    <3>1. U[s[i].handle] = T[s[i].handle] /\ T[s[i].handle] \in Entry /\ ~isFree(T[s[i].handle])
      BY <1>3, <2>2
    <3>2. References(T[s[i].handle]) >= References(T[s[i].handle])
      BY <3>1, ReferencesTyped
    <3> QED
      BY <3>1, <3>2 DEF Upholds
  <2> QED
    BY <2>1, <2>2
<1>5. \A i \in 1..Len(r) : LoneCall(r, U, i)
  <2>1. PICK k \in 0..Len(s) : k = Len(s) - 1
    BY <1>1
  <2>2. ASSUME NEW j \in (k + 1)..Len(r), isMaking(r[j])
        PROVE  \/ U[r[j].handle].dependentObject = NoHandle
               \/ /\ j \in 1..Len(s) /\ isMaking(s[j]) /\ s[j].handle = r[j].handle
                  /\ U[r[j].handle].dependentObject = T[r[j].handle].dependentObject
    <3>1. j = Len(s) /\ j \in 1..Len(s)
      BY <1>1, <1>1a, <2>1
    <3> QED
      BY <1>1a, <2>2, <3>1
  <2>3. k <= Len(r)
    BY <1>1, <1>1a, <2>1
  <2>4. \A i \in 1..k : LoneCall(r, U, i)
    BY <1>1, <1>1a, <1>2, <1>3, <1>4, <2>1, <2>2, <2>3, CallsStay
  <2> QED
    BY <1>1, <1>1a, <2>1, <2>4
<1>6. ASSUME NEW g \in Handles, g # h
      PROVE  LoneEntry(t, r, U, g)
  <2>1. /\ ~isInside(s[Len(s)], g) /\ ~Destroying(s, g)
        /\ ~isInside(r[Len(r)], g)
    BY <1>1a, <1>6 DEF isInside, Destroying
  <2>2. InsideCalls(s, g) = InsideCalls(Front(s), g)
    BY <1>1, <2>1, OneMoreInside
  <2>2a. InsideCalls(r, g) = InsideCalls(Front(s), g)
    BY <1>1, <1>1a, <2>1, OneMoreInside, ZenonT(60)
  <2>3. LoneEntry(t, s, T, g) /\ U[g] = T[g]
    BY <1>2, <1>6
  <2> QED
    BY <2>1, <2>2, <2>2a, <2>3 DEF LoneEntry
<1> QED
  BY <1>5, <1>6 DEF LoneState

(* Another call begins inside it, and no entry changes.                    *)
LEMMA PushState ==
  ASSUME NEW t, NEW s, FramesTyped(s), NEW f \in Frame, f.at # "create" => f.handle \in Handles,
         NEW T \in [Handles -> Entry], LoneState(t, s, T),
         s # << >> => s[Len(s)].at \in Lasting,
         ~isMaking(f), f.at \notin Lasting,
         NEW r, r = Append(s, f),
         LoneCall(r, T, Len(s) + 1)
  PROVE  LoneState(t, r, T)
<1>1. /\ FramesTyped(r) /\ Len(s) \in Nat /\ Len(r) = Len(s) + 1
      /\ \A i \in 1..Len(s) : r[i] = s[i]
      /\ r[Len(s) + 1] = f
  <2>1. FramesTyped(r)
    BY PushTyped
  <2> QED
    BY <2>1, PushStack DEF FramesTyped
<1>2. /\ \A i \in 1..Len(s) : LoneCall(s, T, i)
      /\ \A g \in Handles : LoneEntry(t, s, T, g)
  BY DEF LoneState
<1>3. ASSUME NEW i \in 1..Len(s)
      PROVE  s[i].at \in Lasting /\ s[i].handle \in Handles /\ Upholds(T[s[i].handle], T[s[i].handle])
  <2>1. s[i].at \in Lasting
    <3>1. CASE i = Len(s)
      <4>1. s # << >>
        BY <1>1, <3>1, EmptySeq
      <4> QED
        BY <3>1, <4>1
    <3>2. CASE i # Len(s)
      BY <1>1, <1>2, <3>2 DEF LoneCall
    <3> QED
      BY <3>1, <3>2
  <2>2. s[i].handle \in Handles
    BY <2>1 DEF Lasting, FramesTyped
  <2>3. ~isFree(T[s[i].handle]) /\ References(T[s[i].handle]) >= References(T[s[i].handle])
    <3>1. References(T[s[i].handle]) \in Int
      BY <2>2, ReferencesTyped
    <3> QED
      BY <1>2, <2>1, <3>1 DEF LoneCall, KeepsObject, Holds
  <2> QED
    BY <2>1, <2>2, <2>3 DEF Upholds
<1>4. \A i \in 1..Len(r) : LoneCall(r, T, i)
  <2>1. PICK k \in 0..Len(s) : k = Len(s)
    BY <1>1
  <2>2. \A j \in (k + 1)..Len(r) : ~isMaking(r[j])
    BY <1>1, <2>1
  <2>3. k <= Len(r)
    BY <1>1, <2>1
  <2>4. \A i \in 1..k : LoneCall(r, T, i)
    BY <1>1, <1>2, <1>3, <2>1, <2>2, <2>3, CallsStay
  <2> QED
    BY <1>1, <2>1, <2>4
<1>5. ASSUME NEW g \in Handles
      PROVE  LoneEntry(t, r, T, g)
  <2>1. ~isInside(r[Len(r)], g)
    BY <1>1 DEF isInside, Lasting
  <2>2. ~Destroying(s, g)
    <3>1. Len(s) > 0 => s # << >>
      BY EmptySeq
    <3> QED
      BY <1>1, <3>1 DEF Destroying, Lasting
  <2>3. InsideCalls(r, g) = InsideCalls(s, g)
    BY <1>1, <2>1, OneMoreInside
  <2>4. LoneEntry(t, s, T, g)
    BY <1>2
  <2> QED
    BY <2>2, <2>3, <2>4 DEF LoneEntry
<1> QED
  BY <1>4, <1>5 DEF LoneState

(* What an entry fulfils while its object is not being destroyed.          *)
Settled(h, o) ==
  /\ o.intRefCount >= 0 /\ o.extRefCount >= 0
  /\ o.dependentObject # NoHandle => ~isFree(o) /\ <<h, o.dependentObject>> \in Dependencies
  /\ h \in Dependable /\ ~isFree(o) => o.signalled \/ References(o) > 0

LEMMA PoppedEntry ==
  ASSUME NEW t, NEW s, FramesTyped(s), s # << >>, NEW T, NEW U, NEW h \in Handles,
         LoneEntry(t, s, T, h), T[h] \in Entry, Settled(h, U[h]), U[h].lockOwner = T[h].lockOwner,
         U[h].lockCount = T[h].lockCount - (IF isInside(s[Len(s)], h) THEN 1 ELSE 0)
  PROVE  LoneEntry(t, Front(s), U, h)
<1>1. /\ FramesTyped(Front(s)) /\ Len(s) \in Nat \ {0} /\ Len(s) - 1 \in 0..Len(s)
      /\ Len(Front(s)) = Len(s) - 1 /\ Len(s) = Len(Front(s)) + 1
      /\ \A i \in 1..(Len(s) - 1) : Front(s)[i] = s[i]
      /\ \A i \in 1..Len(Front(s)) : s[i] = Front(s)[i]
  BY FrontFacts
<1>3. /\ isInside(s[Len(s)], h) =>
           Cardinality(InsideCalls(s, h)) = Cardinality(InsideCalls(Front(s), h)) + 1
      /\ ~isInside(s[Len(s)], h) => InsideCalls(s, h) = InsideCalls(Front(s), h)
  BY <1>1, OneMoreInside
<1>4. Cardinality(InsideCalls(s, h)) \in Nat /\ Cardinality(InsideCalls(Front(s), h)) \in Nat
  BY <1>1, InsideFinite
<1>5. T[h].lockCount = Cardinality(InsideCalls(s, h)) /\ (T[h].lockCount > 0 => T[h].lockOwner = t)
  BY DEF LoneEntry
<1>6. U[h].lockCount = Cardinality(InsideCalls(Front(s), h))
  BY <1>3, <1>4, <1>5
<1>7. U[h].lockCount > 0 => U[h].lockOwner = t
  BY <1>4, <1>5, <1>6
<1> QED
  BY <1>6, <1>7 DEF LoneEntry, Settled

LEMMA ReplacedCount ==
  ASSUME NEW s, FramesTyped(s), s # << >>, NEW h, NEW f \in Frame,
         f.at # "create" => f.handle \in Handles,
         ~isInside(s[Len(s)], h), NEW r, r = Append(Front(s), f)
  PROVE  /\ Cardinality(InsideCalls(s, h)) \in Nat
         /\ Cardinality(InsideCalls(r, h)) = Cardinality(InsideCalls(s, h)) + (IF isInside(f, h) THEN 1 ELSE 0)
<1>1. /\ FramesTyped(Front(s)) /\ Len(s) \in Nat \ {0} /\ Len(s) - 1 \in 0..Len(s)
      /\ Len(Front(s)) = Len(s) - 1 /\ Len(s) = Len(Front(s)) + 1
      /\ \A i \in 1..(Len(s) - 1) : Front(s)[i] = s[i]
      /\ \A i \in 1..Len(Front(s)) : s[i] = Front(s)[i]
  BY FrontFacts
<1>2. /\ FramesTyped(r) /\ Len(r) = Len(s) /\ r[Len(s)] = f /\ r[Len(r)] = f
      /\ \A i \in 1..(Len(s) - 1) : r[i] = s[i]
      /\ Len(r) = Len(Front(s)) + 1
      /\ \A i \in 1..Len(Front(s)) : r[i] = Front(s)[i]
  BY ReplacedFacts
<1>5. InsideCalls(s, h) = InsideCalls(Front(s), h)
  BY <1>1, OneMoreInside
<1>6. /\ isInside(f, h) => Cardinality(InsideCalls(r, h)) = Cardinality(InsideCalls(Front(s), h)) + 1
      /\ ~isInside(f, h) => InsideCalls(r, h) = InsideCalls(Front(s), h)
  BY <1>1, <1>2, OneMoreInside
<1>7. Cardinality(InsideCalls(s, h)) \in Nat
  BY InsideFinite
<1> QED
  BY <1>5, <1>6, <1>7

(* The innermost call of the thread.                                       *)
LEMMA Innermost ==
  ASSUME LoneInv, NEW t \in Threads, stack[t] # << >>
  PROVE  /\ FramesTyped(stack[t]) /\ objectTable \in [Handles -> Entry]
         /\ LoneState(t, stack[t], objectTable)
         /\ Len(stack[t]) \in Nat \ {0} /\ Len(stack[t]) \in 1..Len(stack[t])
         /\ Top(t) = stack[t][Len(stack[t])] /\ Top(t) \in Frame
         /\ LoneCall(stack[t], objectTable, Len(stack[t])) /\ Top(t).at # "wait"
         /\ Top(t).at # "create" =>
              /\ Top(t).handle \in Handles /\ Top(t).handle # NoHandle
              /\ Obj(t) \in Entry /\ Obj(t) = objectTable[Top(t).handle]
              /\ LoneEntry(t, stack[t], objectTable, Top(t).handle)
<1>1. /\ FramesTyped(stack[t]) /\ Top(t) \in Frame
      /\ Top(t) = stack[t][Len(stack[t])]
      /\ Top(t).at # "create" => Top(t).handle \in Handles /\ Obj(t) \in Entry
  BY TopTyped DEF LoneInv
<1>2. objectTable \in [Handles -> Entry] /\ LoneState(t, stack[t], objectTable)
  BY DEF LoneInv, TypeOK
<1>3. Len(stack[t]) \in Nat \ {0} /\ Len(stack[t]) \in 1..Len(stack[t])
  BY <1>1, EmptySeq, LenProperties DEF FramesTyped
<1>4. LoneCall(stack[t], objectTable, Len(stack[t]))
  BY <1>2, <1>3 DEF LoneState
<1>5. Top(t).at # "wait"
  BY <1>1, <1>4 DEF LoneCall
<1>6. Top(t).at # "create" => LoneEntry(t, stack[t], objectTable, Top(t).handle)
  BY <1>1, <1>2 DEF LoneState
<1> QED
  BY <1>1, <1>2, <1>3, <1>4, <1>5, <1>6, KernelAssumption DEF Obj

LEMMA EntrySettled ==
  ASSUME NEW t, NEW s, NEW T, NEW h, LoneEntry(t, s, T, h),
         Destroying(s, h) => isFree(T[h]) \/ T[h].signalled \/ h \notin Dependable
  PROVE  Settled(h, T[h])
  BY DEF LoneEntry, Settled

LEMMA NextStack ==
  ASSUME TypeOK, NEW t \in Threads
  PROVE  /\ \A s : stack' = [stack EXCEPT ![t] = s] => stack'[t] = s
         /\ Return(t) => stack'[t] = Front(stack[t])
         /\ \A f : Replace(t, f) => stack'[t] = Append(Front(stack[t]), f)
         /\ \A f : Push(t, f) => stack'[t] = Append(stack[t], f)
  BY DEF TypeOK, Return, Replace, Push

(* A call that is about an object which others are outside of: these keep  *)
(* an entry that does not change.                                          *)
LEMMA SameUpholds ==
  ASSUME LoneInv, NEW t \in Threads, stack[t] # << >>, NEW h,
         IsOutside(stack[t], Len(stack[t]), h)
  PROVE  h \in Handles /\ Upholds(objectTable[h], objectTable[h])
<1>1. PICK i \in 1..(Len(stack[t]) - 1) : stack[t][i].handle = h
  BY DEF IsOutside
<1>2. /\ FramesTyped(stack[t]) /\ \A j \in 1..Len(stack[t]) : LoneCall(stack[t], objectTable, j)
      /\ objectTable \in [Handles -> Entry]
  BY Innermost DEF LoneState
<1>3. h \in Handles /\ ~isFree(objectTable[h])
  BY <1>1, <1>2, OutsideLasts
<1>4. References(objectTable[h]) \in Int
  BY <1>2, <1>3, ReferencesTyped
<1> QED
  BY <1>3, <1>4 DEF Upholds

(* The innermost call returns and the entry of its object becomes o.       *)
LEMMA ReturnState ==
  ASSUME LoneInv, NEW t \in Threads, stack[t] # << >>, Return(t),
         NEW h \in Handles, h = Top(t).handle, Top(t).at # "create", NEW o \in Entry, SetEntry(h, o),
         IsOutside(stack[t], Len(stack[t]), h) => Upholds(objectTable[h], o),
         Settled(h, o), o.lockOwner = Obj(t).lockOwner,
         o.lockCount = Obj(t).lockCount - (IF isInside(Top(t), h) THEN 1 ELSE 0)
  PROVE  LoneState(t, stack'[t], objectTable')
<1>1. /\ FramesTyped(stack[t]) /\ objectTable \in [Handles -> Entry]
      /\ LoneState(t, stack[t], objectTable)
      /\ Top(t) = stack[t][Len(stack[t])] /\ Obj(t) = objectTable[h]
      /\ LoneEntry(t, stack[t], objectTable, h)
  BY Innermost
<1>2. stack'[t] = Front(stack[t])
  BY NextStack DEF LoneInv
<1>3. /\ objectTable' \in [Handles -> Entry] /\ objectTable'[h] = o
      /\ \A g \in Handles : g # h => objectTable'[g] = objectTable[g]
  BY <1>1 DEF SetEntry
<1>4. LoneEntry(t, Front(stack[t]), objectTable', h)
  BY <1>1, <1>3, PoppedEntry
<1>5. LoneState(t, Front(stack[t]), objectTable')
  BY <1>1, <1>3, <1>4, PopState
<1> QED
  BY <1>2, <1>5

(* It returns and no entry changes.                                        *)
LEMMA QuietReturnState ==
  ASSUME LoneInv, NEW t \in Threads, stack[t] # << >>, Return(t), UNCHANGED objectTable,
         Top(t).at \notin {"handler", "locked"},
         Destroying(stack[t], Top(t).handle) => isFree(Obj(t)) \/ Obj(t).signalled
  PROVE  LoneState(t, stack'[t], objectTable')
<1>1. /\ FramesTyped(stack[t]) /\ objectTable \in [Handles -> Entry]
      /\ LoneState(t, stack[t], objectTable)
      /\ Top(t) = stack[t][Len(stack[t])]
  BY Innermost
<1>2. stack'[t] = Front(stack[t])
  BY NextStack DEF LoneInv
<1>3. PICK h : h = Top(t).handle
  OBVIOUS
<1>4. ASSUME h \in Handles
      PROVE  LoneEntry(t, Front(stack[t]), objectTable, h)
  <2>1. LoneEntry(t, stack[t], objectTable, h) /\ objectTable[h] \in Entry /\ Obj(t) = objectTable[h]
    BY <1>1, <1>3, <1>4 DEF LoneState, Obj
  <2>2. Settled(h, objectTable[h])
    BY <1>3, <2>1, EntrySettled
  <2>3. ~isInside(stack[t][Len(stack[t])], h) /\ objectTable[h].lockCount = objectTable[h].lockCount - 0
    BY <1>1, <2>1 DEF isInside, Entry
  <2> QED
    BY <1>1, <1>4, <2>1, <2>2, <2>3, PoppedEntry
<1>5. IsOutside(stack[t], Len(stack[t]), h) => Upholds(objectTable[h], objectTable[h])
  BY SameUpholds
<1>6. LoneState(t, Front(stack[t]), objectTable)
  BY <1>1, <1>3, <1>4, <1>5, PopState
<1> QED
  BY <1>2, <1>6

(* It goes on in another place and the entry of its object becomes o.      *)
LEMMA GoOnState ==
  ASSUME LoneInv, NEW t \in Threads, stack[t] # << >>,
         NEW h \in Handles, Top(t).handle = h \/ Top(t).at = "create", ~isInside(Top(t), h),
         NEW f \in Frame, f.handle = h, Replace(t, f), NEW o \in Entry, SetEntry(h, o),
         IsOutside(stack[t], Len(stack[t]), h) => Upholds(objectTable[h], o),
         isMaking(f) => \/ o.dependentObject = NoHandle
                        \/ /\ isMaking(Top(t)) /\ Top(t).handle = h
                           /\ o.dependentObject = objectTable[h].dependentObject,
         LoneCall(stack'[t], objectTable', Len(stack[t])),
         Settled(h, o) \/ Destroying(stack'[t], h),
         o.lockCount = objectTable[h].lockCount + (IF isInside(f, h) THEN 1 ELSE 0),
         isInside(f, h) => o.lockOwner = t,
         o.lockCount > 0 /\ ~isInside(f, h) => o.lockOwner = objectTable[h].lockOwner,
         o.intRefCount >= 0 /\ o.extRefCount >= 0,
         o.dependentObject # NoHandle => ~isFree(o) /\ <<h, o.dependentObject>> \in Dependencies
  PROVE  LoneState(t, stack'[t], objectTable')
<1>1. /\ FramesTyped(stack[t]) /\ objectTable \in [Handles -> Entry]
      /\ LoneState(t, stack[t], objectTable)
      /\ Top(t) = stack[t][Len(stack[t])]
      /\ LoneEntry(t, stack[t], objectTable, h)
  BY Innermost DEF LoneState
<1>2. PICK r : r = stack'[t] /\ r = Append(Front(stack[t]), f)
  BY NextStack DEF LoneInv
<1>3. /\ objectTable' \in [Handles -> Entry] /\ objectTable'[h] = o
      /\ \A g \in Handles : g # h => objectTable'[g] = objectTable[g]
  BY <1>1 DEF SetEntry
<1>4. LoneEntry(t, r, objectTable', h)
  <2>1. /\ Cardinality(InsideCalls(stack[t], h)) \in Nat
        /\ Cardinality(InsideCalls(r, h)) = Cardinality(InsideCalls(stack[t], h)) + (IF isInside(f, h) THEN 1 ELSE 0)
    BY <1>1, <1>2, ReplacedCount
  <2>2. /\ objectTable[h].lockCount = Cardinality(InsideCalls(stack[t], h))
        /\ objectTable[h].lockCount > 0 => objectTable[h].lockOwner = t
    BY <1>1 DEF LoneEntry
  <2>3. o.lockCount = Cardinality(InsideCalls(r, h))
    BY <2>1, <2>2
  <2>4. o.lockCount > 0 => o.lockOwner = t
    BY <2>1, <2>2, <2>3
  <2>5. h \in Dependable /\ ~isFree(o) => o.signalled \/ References(o) > 0 \/ Destroying(r, h)
    BY <1>2 DEF Settled
  <2> QED
    BY <1>3, <2>3, <2>4, <2>5 DEF LoneEntry
<1>5. LoneState(t, r, objectTable')
  <2>1. /\ IsOutside(stack[t], Len(stack[t]), h) => Upholds(objectTable[h], objectTable'[h])
        /\ isMaking(f) => \/ objectTable'[h].dependentObject = NoHandle
                          \/ /\ isMaking(Top(t)) /\ Top(t).handle = h
                             /\ objectTable'[h].dependentObject = objectTable[h].dependentObject
    BY <1>3
  <2>2. LoneCall(r, objectTable', Len(stack[t]))
    BY <1>2
  <2> QED
    BY <1>1, <1>2, <1>3, <1>4, <2>1, <2>2, ReplaceState, ZenonT(60)
<1> QED
  BY <1>2, <1>5

LEMMA NewTop ==
  ASSUME LoneInv, NEW t \in Threads, stack[t] # << >>, NEW f \in Frame, Replace(t, f)
  PROVE  /\ Len(stack'[t]) = Len(stack[t]) /\ stack'[t][Len(stack[t])] = f
         /\ \A g : IsOutside(stack'[t], Len(stack[t]), g) <=> IsOutside(stack[t], Len(stack[t]), g)
         /\ \A T : Cardinality(Makers(stack'[t], T, Len(stack[t]))) = 0
<1>1. FramesTyped(stack[t]) /\ Len(stack[t]) \in Nat \ {0}
  BY Innermost
<1>2. stack'[t] = Append(Front(stack[t]), f)
  BY NextStack DEF LoneInv
<1>3. /\ Len(stack'[t]) = Len(stack[t]) /\ stack'[t][Len(stack[t])] = f
      /\ \A i \in 1..(Len(stack[t]) - 1) : stack'[t][i] = stack[t][i]
  BY <1>1, <1>2, ReplaceStack DEF FramesTyped
<1>4. \A T : Makers(stack'[t], T, Len(stack[t])) = {}
  BY <1>1, <1>3 DEF Makers
<1> QED
  BY <1>3, <1>4, FS_EmptySet DEF IsOutside

LEMMA NewCall ==
  ASSUME LoneInv, NEW t \in Threads, NEW f \in Frame, Push(t, f), MaySend(t) \/ At(t, "init")
  PROVE  /\ Len(stack'[t]) = Len(stack[t]) + 1 /\ stack'[t][Len(stack[t]) + 1] = f
         /\ Len(stack[t]) \in Nat /\ Len(stack[t]) + 1 <= MaxFrames + 1
         /\ MaySend(t) => ~(Len(stack[t]) + 1 > MaxFrames)
         /\ \A g : IsOutside(stack'[t], Len(stack[t]) + 1, g) <=>
                     \E j \in 1..Len(stack[t]) : stack[t][j].handle = g
         /\ FramesTyped(stack[t]) /\ objectTable \in [Handles -> Entry]
         /\ LoneState(t, stack[t], objectTable)
         /\ stack[t] # << >> => stack[t][Len(stack[t])].at \in Lasting
<1>1. /\ FramesTyped(stack[t]) /\ objectTable \in [Handles -> Entry]
      /\ LoneState(t, stack[t], objectTable) /\ MaxFrames \in Nat
  BY TypeOKSplit, KernelAssumption DEF LoneInv, StacksTyped
<1>2. stack'[t] = Append(stack[t], f)
  BY NextStack DEF LoneInv
<1>3. /\ Len(stack[t]) \in Nat /\ Len(stack'[t]) = Len(stack[t]) + 1
      /\ stack'[t][Len(stack[t]) + 1] = f
      /\ \A i \in 1..Len(stack[t]) : stack'[t][i] = stack[t][i]
  BY <1>1, <1>2, PushStack DEF FramesTyped
<1>4. stack[t] # << >> => stack[t][Len(stack[t])].at \in Lasting
  BY Innermost DEF MaySend, At, Lasting
<1>5. MaySend(t) => Len(stack[t]) < MaxFrames
  BY DEF MaySend
<1>6. At(t, "init") => Len(stack[t]) <= MaxFrames
  <2>1. At(t, "init") => LoneCall(stack[t], objectTable, Len(stack[t])) /\ stack[t][Len(stack[t])].at = "init"
    BY Innermost DEF At
  <2> QED
    BY <1>1, <1>3, <2>1 DEF LoneCall, DeepestDestroys
<1>7. \A g : IsOutside(stack'[t], Len(stack[t]) + 1, g) <=>
               \E j \in 1..Len(stack[t]) : stack[t][j].handle = g
  <2>1. Len(stack[t]) + 1 - 1 = Len(stack[t])
    BY <1>3
  <2> QED
    BY <1>3, <2>1 DEF IsOutside
<1> QED
  BY <1>1, <1>3, <1>4, <1>5, <1>6, <1>7

LEMMA BeginCreateLone ==
  ASSUME LoneInv, NEW t \in Threads, BeginCreate(t)
  PROVE  LoneState(t, stack'[t], objectTable')
<1>1. PICK f : f = NewFrame("create", NoHandle, 0, "none")
  OBVIOUS
<1>2. /\ MaySend(t) /\ Push(t, f) /\ objectTable' = objectTable /\ f \in Frame
      /\ f.at = "create"
  BY <1>1, NewFrameTyped DEF BeginCreate, NewFrame, Places, Messages
<1>3. /\ Len(stack'[t]) = Len(stack[t]) + 1 /\ stack'[t][Len(stack[t]) + 1] = f
      /\ Len(stack[t]) \in Nat /\ ~(Len(stack[t]) + 1 > MaxFrames)
      /\ FramesTyped(stack[t]) /\ objectTable \in [Handles -> Entry]
      /\ LoneState(t, stack[t], objectTable)
      /\ stack[t] # << >> => stack[t][Len(stack[t])].at \in Lasting
  BY <1>2, NewCall
<1>4. LoneCall(stack'[t], objectTable, Len(stack[t]) + 1)
  BY <1>2, <1>3 DEF LoneCall, KeepsObject, MayProceed, DeepestDestroys, Holds, IsLast, isMaking, Lasting
<1>5. stack'[t] = Append(stack[t], f)
  BY <1>2, NextStack DEF LoneInv
<1> QED
  BY <1>2, <1>3, <1>4, <1>5, PushState DEF isMaking, Lasting

LEMMA RejectCreateLone ==
  ASSUME LoneInv, NEW t \in Threads, RejectCreate(t)
  PROVE  LoneState(t, stack'[t], objectTable')
<1>1. /\ stack[t] # << >> /\ Top(t).at = "create" /\ Return(t) /\ UNCHANGED objectTable
  BY DEF RejectCreate, At
<1>2. Top(t) = stack[t][Len(stack[t])]
  BY <1>1, Innermost
<1>3. ~Destroying(stack[t], Top(t).handle)
  BY <1>1, <1>2 DEF Destroying
<1> QED
  BY <1>1, <1>3, QuietReturnState

LEMMA EnterObjectLone ==
  ASSUME LoneInv, NEW t \in Threads, NEW h \in Handles, EnterObject(t, h)
  PROVE  LoneState(t, stack'[t], objectTable')
<1>1. PICK o : o = NewEntry(objectUniqueID)
  OBVIOUS
<1>2. PICK f : f = NewFrame("init", h, objectUniqueID, "none")
  OBVIOUS
<1>3. /\ stack[t] # << >> /\ Top(t).at = "create" /\ SetEntry(h, o) /\ Replace(t, f)
      /\ isFree(objectTable[h]) /\ objectUniqueID \in Nat \ {0}
  BY <1>1, <1>2 DEF EnterObject, At, LoneInv, TypeOK
<1>4. /\ f \in Frame /\ f.handle = h /\ f.at = "init" /\ f.msg = "none"
      /\ f.uid = objectUniqueID
  BY <1>2, <1>3, NewFrameTyped DEF NewFrame, Places, Messages
<1>5. /\ o \in Entry /\ o.lockCount = 0 /\ o.notinited /\ ~isFree(o) /\ References(o) = 1
      /\ o.lockOwner = NoThread /\ o.intRefCount = 1 /\ o.extRefCount = 0 /\ o.dependentObject = NoHandle
      /\ o.uniqueID = objectUniqueID
  <2>1. o \in Entry
    BY <1>1, <1>3, NewEntryTyped
  <2> QED
    BY <1>1, <1>3, <2>1 DEF NewEntry, FreeEntry, isFree, References
<1>6. ~IsOutside(stack[t], Len(stack[t]), h)
  BY <1>3, SameUpholds DEF Upholds
<1>7. /\ FramesTyped(stack[t]) /\ LoneEntry(t, stack[t], objectTable, h)
      /\ Top(t) = stack[t][Len(stack[t])] /\ Len(stack[t]) \in Nat /\ objectTable \in [Handles -> Entry]
      /\ LoneCall(stack[t], objectTable, Len(stack[t]))
  BY <1>3, Innermost DEF LoneState
<1>8. objectTable[h].lockCount = 0
  <2>1. Cardinality(InsideCalls(stack[t], h)) = 0
    BY <1>3, <1>6, <1>7, NoneInside DEF isInside
  <2> QED
    BY <1>7, <2>1 DEF LoneEntry
<1>9. /\ Len(stack'[t]) = Len(stack[t]) /\ stack'[t][Len(stack[t])] = f
      /\ ~IsOutside(stack'[t], Len(stack[t]), h)
      /\ Cardinality(Makers(stack'[t], objectTable', Len(stack[t]))) = 0
      /\ objectTable'[h] = o
  BY <1>3, <1>4, <1>6, <1>7, NewTop DEF SetEntry
<1>10. ~(Len(stack[t]) > MaxFrames)
  BY <1>3, <1>7 DEF LoneCall, DeepestDestroys
<1>11. LoneCall(stack'[t], objectTable', Len(stack[t]))
  <2>1. KeepsObject(stack'[t], objectTable', Len(stack[t]))
    BY <1>4, <1>5, <1>9 DEF KeepsObject
  <2> QED
    BY <1>4, <1>7, <1>9, <1>10, <2>1 DEF LoneCall, MayProceed, DeepestDestroys
<1>12. Settled(h, o) /\ o.intRefCount >= 0 /\ o.extRefCount >= 0 /\ ~(o.lockCount > 0)
  BY <1>5 DEF Settled
<1>13. ~isInside(f, h) /\ ~isInside(Top(t), h)
  BY <1>3, <1>4 DEF isInside
<1>14. o.lockCount = objectTable[h].lockCount + (IF isInside(f, h) THEN 1 ELSE 0)
  BY <1>5, <1>8, <1>13
<1> QED
  BY <1>3, <1>4, <1>5, <1>6, <1>11, <1>12, <1>13, <1>14, GoOnState, ZenonT(60)

LEMMA SameEntry ==
  ASSUME TypeOK, UNCHANGED objectTable, NEW h \in Handles
  PROVE  SetEntry(h, objectTable[h])
  BY DEF TypeOK, SetEntry

LEMMA EntryFacts ==
  ASSUME NEW o \in Entry
  PROVE  /\ o.intRefCount \in Int /\ o.extRefCount \in Int /\ o.lockCount \in Int
         /\ References(o) = o.intRefCount + o.extRefCount
  BY DEF Entry, References

LEMMA RefsUpdated ==
  ASSUME NEW p \in Entry, NEW b \in BOOLEAN, NEW i \in Int, NEW e \in Int,
         NEW o, o = [p EXCEPT !.internal = b, !.intRefCount = i, !.extRefCount = e]
  PROVE  /\ o \in Entry /\ o.intRefCount = i /\ o.extRefCount = e /\ References(o) = i + e
         /\ o.uniqueID = p.uniqueID /\ o.signalled = p.signalled /\ o.notinited = p.notinited
         /\ o.lockCount = p.lockCount /\ o.lockOwner = p.lockOwner
         /\ o.dependentObject = p.dependentObject
  BY DEF Entry, References

LEMMA StillUpholds ==
  ASSUME LoneInv, NEW t \in Threads, stack[t] # << >>, NEW h, NEW o, NEW p, p = objectTable[h],
         o.uniqueID = p.uniqueID, p.signalled => o.signalled, p.notinited => o.notinited,
         References(o) >= References(p), o.dependentObject = p.dependentObject,
         IsOutside(stack[t], Len(stack[t]), h)
  PROVE  Upholds(p, o)
<1>1. ~isFree(p)
  BY SameUpholds DEF Upholds
<1> QED
  BY <1>1 DEF Upholds, isFree

LEMMA FailInitLone ==
  ASSUME LoneInv, NEW t \in Threads, FailInit(t)
  PROVE  LoneState(t, stack'[t], objectTable')
<1>1. PICK h : h = Top(t).handle
  OBVIOUS
<1>2. stack[t] # << >> /\ Top(t).at = "init" /\ At(t, "init") /\ objectTable' = objectTable
  BY DEF FailInit, At
<1>3. /\ h \in Handles /\ LoneEntry(t, stack[t], objectTable, h) /\ FramesTyped(stack[t])
      /\ LoneCall(stack[t], objectTable, Len(stack[t])) /\ Top(t) = stack[t][Len(stack[t])]
  BY <1>1, <1>2, Innermost
<1>4. PICK f : f = NewFrame("call", h, 0, "destroy")
  OBVIOUS
<1>5. f \in Frame /\ f.at = "call" /\ f.msg = "destroy" /\ f.handle = h
  BY <1>3, <1>4, NewFrameTyped DEF NewFrame, Places, Messages
<1>6. Push(t, f)
  BY <1>1, <1>4 DEF FailInit
<1>7. /\ stack'[t][Len(stack[t]) + 1] = f
      /\ Len(stack[t]) \in Nat /\ Len(stack[t]) + 1 <= MaxFrames + 1 /\ Len(stack'[t]) = Len(stack[t]) + 1
      /\ objectTable \in [Handles -> Entry]
      /\ LoneState(t, stack[t], objectTable)
      /\ stack[t] # << >> => stack[t][Len(stack[t])].at \in Lasting
  BY <1>2, <1>5, <1>6, NewCall
<1>8. objectTable[h].notinited /\ ~IsOutside(stack[t], Len(stack[t]), h)
  BY <1>1, <1>2, <1>3 DEF LoneCall, KeepsObject, isMaking, IsLast
<1>9. objectTable[h].lockCount = 0
  <2>1. Cardinality(InsideCalls(stack[t], h)) = 0
    BY <1>2, <1>3, <1>8, NoneInside DEF isInside
  <2> QED
    BY <1>3, <2>1 DEF LoneEntry
<1>10. LoneCall(stack'[t], objectTable, Len(stack[t]) + 1)
  <2>1. MaxFrames \in Nat
    BY KernelAssumption
  <2>2. KeepsObject(stack'[t], objectTable, Len(stack[t]) + 1)
    BY <1>5, <1>7 DEF KeepsObject, Holds, IsLast, isMaking, Lasting
  <2> QED
    BY <1>5, <1>7, <1>8, <1>9, <2>1, <2>2 DEF LoneCall, MayProceed, DeepestDestroys
<1>11. stack'[t] = Append(stack[t], f)
  BY <1>6, NextStack DEF LoneInv
<1>12. ~isMaking(f) /\ f.at \notin Lasting
  BY <1>5 DEF isMaking, Lasting
<1> QED
  BY <1>2, <1>3, <1>5, <1>7, <1>10, <1>11, <1>12, PushState

LEMMA SendLone ==
  ASSUME LoneInv, NEW t \in Threads, NEW h \in Handles, NEW m \in MayBeSent, Send(t, h, m)
  PROVE  LoneState(t, stack'[t], objectTable')
<1>1. PICK f : f = NewFrame("call", h, 0, m)
  OBVIOUS
<1>2. /\ MaySend(t) /\ Push(t, f) /\ objectTable' = objectTable
      /\ m \in {"incref", "decref"} => h \notin Serving(t)
  BY <1>1 DEF Send
<1>3. f \in Frame /\ f.at = "call" /\ f.msg = m /\ f.handle = h /\ m \notin {"destroy", "ready", "converted"}
  BY <1>1, NewFrameTyped DEF NewFrame, Places, Messages, MayBeSent
<1>4. /\ stack'[t][Len(stack[t]) + 1] = f /\ Len(stack'[t]) = Len(stack[t]) + 1
      /\ Len(stack[t]) \in Nat /\ ~(Len(stack[t]) + 1 > MaxFrames)
      /\ \A g : IsOutside(stack'[t], Len(stack[t]) + 1, g) <=>
                  \E j \in 1..Len(stack[t]) : stack[t][j].handle = g
      /\ FramesTyped(stack[t]) /\ objectTable \in [Handles -> Entry]
      /\ LoneState(t, stack[t], objectTable)
      /\ stack[t] # << >> => stack[t][Len(stack[t])].at \in Lasting
  BY <1>2, <1>3, NewCall
<1>5. m = "decref" => /\ ~IsOutside(stack'[t], Len(stack[t]) + 1, h)
                      /\ ~IsOutside(stack'[t], Len(stack[t]) + 1, objectTable[h].dependentObject)
  BY <1>2, <1>4 DEF Serving
<1>6. LoneCall(stack'[t], objectTable, Len(stack[t]) + 1)
  <2>1. KeepsObject(stack'[t], objectTable, Len(stack[t]) + 1)
    BY <1>3, <1>4 DEF KeepsObject, Holds, IsLast, isMaking, Lasting
  <2> QED
    BY <1>3, <1>4, <1>5, <2>1 DEF LoneCall, MayProceed, DeepestDestroys
<1>7. stack'[t] = Append(stack[t], f)
  BY <1>2, NextStack DEF LoneInv
<1>8. ~isMaking(f) /\ f.at \notin Lasting
  BY <1>3 DEF isMaking, Lasting
<1> QED
  BY <1>2, <1>3, <1>4, <1>6, <1>7, <1>8, PushState

LEMMA SetDependentLone ==
  ASSUME LoneInv, NEW t \in Threads, NEW h \in Handles, NEW d \in Handles, NEW inc \in BOOLEAN,
         SetDependent(t, h, d, inc)
  PROVE  LoneState(t, stack'[t], objectTable')
<1>1. PICK f : f = [at |-> "setdep", handle |-> h, uid |-> objectTable[h].uniqueID,
                    msg |-> "none", n |-> IF inc THEN 1 ELSE 0, other |-> d]
  OBVIOUS
<1>2. /\ MaySend(t) /\ Push(t, f) /\ objectTable' = objectTable
      /\ <<h, d>> \in Dependencies /\ ~isFree(objectTable[h]) /\ (inc \/ d \notin Serving(t))
  BY <1>1 DEF SetDependent
<1>3. f \in Frame /\ f.at = "setdep" /\ f.handle = h /\ f.other = d /\ f.n = IF inc THEN 1 ELSE 0
  BY <1>1 DEF Frame, Places, Messages, LoneInv, TypeOK, Entry
<1>4. /\ stack'[t][Len(stack[t]) + 1] = f /\ Len(stack'[t]) = Len(stack[t]) + 1
      /\ Len(stack[t]) \in Nat /\ ~(Len(stack[t]) + 1 > MaxFrames)
      /\ \A g : IsOutside(stack'[t], Len(stack[t]) + 1, g) <=>
                  \E j \in 1..Len(stack[t]) : stack[t][j].handle = g
      /\ FramesTyped(stack[t]) /\ objectTable \in [Handles -> Entry]
      /\ LoneState(t, stack[t], objectTable)
      /\ stack[t] # << >> => stack[t][Len(stack[t])].at \in Lasting
  BY <1>2, <1>3, NewCall
<1>5. f.n = 0 => ~IsOutside(stack'[t], Len(stack[t]) + 1, d)
  BY <1>2, <1>3, <1>4 DEF Serving
<1>6. LoneCall(stack'[t], objectTable, Len(stack[t]) + 1)
  <2>1. KeepsObject(stack'[t], objectTable, Len(stack[t]) + 1)
    BY <1>3, <1>4 DEF KeepsObject, Holds, IsLast, isMaking, Lasting
  <2> QED
    BY <1>2, <1>3, <1>4, <1>5, <2>1 DEF LoneCall, MayProceed, DeepestDestroys
<1>7. stack'[t] = Append(stack[t], f)
  BY <1>2, NextStack DEF LoneInv
<1>8. ~isMaking(f) /\ f.at \notin Lasting
  BY <1>3 DEF isMaking, Lasting
<1> QED
  BY <1>2, <1>3, <1>4, <1>6, <1>7, <1>8, PushState

LEMMA CompleteInitLone ==
  ASSUME LoneInv, NEW t \in Threads, CompleteInit(t)
  PROVE  LoneState(t, stack'[t], objectTable')
<1>1. PICK h : h = Top(t).handle
  OBVIOUS
<1>2. stack[t] # << >> /\ Top(t).at = "init" /\ At(t, "init") /\ objectTable' = objectTable
  BY DEF CompleteInit, At
<1>3. /\ h \in Handles /\ LoneEntry(t, stack[t], objectTable, h) /\ objectTable[h] \in Entry
      /\ LoneCall(stack[t], objectTable, Len(stack[t])) /\ Top(t) = stack[t][Len(stack[t])]
      /\ Top(t) \in Frame /\ Len(stack[t]) \in Nat
  BY <1>1, <1>2, Innermost
<1>4. PICK f : f = [Top(t) EXCEPT !.at = "call", !.msg = "ready"]
  OBVIOUS
<1>5. f \in Frame /\ f.at = "call" /\ f.msg = "ready" /\ f.handle = h /\ f.uid = Top(t).uid
  BY <1>1, <1>3, <1>4 DEF Frame, Places, Messages
<1>6. Replace(t, f)
  BY <1>4 DEF CompleteInit, LoneInv
<1>7. /\ Len(stack'[t]) = Len(stack[t]) /\ stack'[t][Len(stack[t])] = f
      /\ IsOutside(stack'[t], Len(stack[t]), h) <=> IsOutside(stack[t], Len(stack[t]), h)
      /\ Cardinality(Makers(stack'[t], objectTable, Len(stack[t]))) = 0
  BY <1>2, <1>5, <1>6, NewTop
<1>8. Settled(h, objectTable[h])
  BY <1>1, <1>2, <1>3, EntrySettled DEF Destroying
<1>9. LoneCall(stack'[t], objectTable, Len(stack[t]))
  <2>1. /\ ~isFree(objectTable[h]) /\ objectTable[h].notinited /\ ~IsOutside(stack[t], Len(stack[t]), h)
        /\ ~(Len(stack[t]) > MaxFrames) /\ objectTable[h].uniqueID = Top(t).uid
    BY <1>1, <1>2, <1>3 DEF LoneCall, KeepsObject, DeepestDestroys, Holds, Lasting, isMaking, IsLast
  <2>2. KeepsObject(stack'[t], objectTable, Len(stack[t]))
    BY <1>5, <1>7, <1>8, <2>1 DEF KeepsObject, Settled
  <2> QED
    BY <1>3, <1>5, <1>7, <2>1, <2>2 DEF LoneCall, MayProceed, DeepestDestroys
<1>10. SetEntry(h, objectTable[h])
  BY <1>2, <1>3, SameEntry DEF LoneInv
<1>11. /\ IsOutside(stack[t], Len(stack[t]), h) => Upholds(objectTable[h], objectTable[h])
       /\ ~isInside(Top(t), h) /\ ~isInside(f, h) /\ isMaking(Top(t))
  BY <1>2, <1>5, SameUpholds DEF isInside, isMaking
<1>12. objectTable[h].lockCount = objectTable[h].lockCount + (IF isInside(f, h) THEN 1 ELSE 0)
  BY <1>3, <1>11, EntryFacts
<1>13. LoneCall(stack'[t], objectTable', Len(stack[t]))
  BY <1>2, <1>9
<1>14. /\ objectTable[h].intRefCount >= 0 /\ objectTable[h].extRefCount >= 0
       /\ objectTable[h].dependentObject # NoHandle =>
            ~isFree(objectTable[h]) /\ <<h, objectTable[h].dependentObject>> \in Dependencies
  BY <1>8 DEF Settled
<1> QED
  BY <1>1, <1>2, <1>3, <1>5, <1>6, <1>8, <1>10, <1>11, <1>12, <1>13, <1>14, GoOnState, ZenonT(60)

LEMMA PublishLone ==
  ASSUME LoneInv, NEW t \in Threads, Publish(t)
  PROVE  LoneState(t, stack'[t], objectTable')
<1>1. PICK h : h = Top(t).handle
  OBVIOUS
<1>2. stack[t] # << >> /\ Top(t).at = "publish" /\ Return(t)
  BY DEF Publish, At
<1>3. /\ h \in Handles /\ LoneEntry(t, stack[t], objectTable, h) /\ objectTable[h] \in Entry
      /\ Top(t) = stack[t][Len(stack[t])] /\ Obj(t) = objectTable[h]
  BY <1>1, <1>2, Innermost
<1>4. ~Destroying(stack[t], h)
  BY <1>2, <1>3 DEF Destroying
<1>5. CASE UNCHANGED objectTable
  BY <1>1, <1>2, <1>4, <1>5, QuietReturnState
<1>6. CASE /\ Obj(t).intRefCount > 0
           /\ SetEntry(h, [Obj(t) EXCEPT !.internal = FALSE, !.intRefCount = @ - 1, !.extRefCount = @ + 1])
  <2>1. PICK p \in Entry : p = Obj(t)
    BY <1>3
  <2>2. PICK o : o = [p EXCEPT !.internal = FALSE, !.intRefCount = @ - 1, !.extRefCount = @ + 1]
    OBVIOUS
  <2>2a. /\ o \in Entry /\ o.intRefCount = p.intRefCount - 1 /\ o.extRefCount = p.extRefCount + 1
         /\ References(o) = (p.intRefCount - 1) + (p.extRefCount + 1)
         /\ o.uniqueID = p.uniqueID /\ o.signalled = p.signalled /\ o.notinited = p.notinited
         /\ o.lockCount = p.lockCount /\ o.lockOwner = p.lockOwner
         /\ o.dependentObject = p.dependentObject
    <3>1. p.intRefCount - 1 \in Int /\ p.extRefCount + 1 \in Int /\ FALSE \in BOOLEAN
      BY EntryFacts
    <3>2. PICK i \in Int : i = p.intRefCount - 1
      BY <3>1
    <3>3. PICK e \in Int : e = p.extRefCount + 1
      BY <3>1
    <3>4. o = [p EXCEPT !.internal = FALSE, !.intRefCount = i, !.extRefCount = e]
      BY <2>2, <3>2, <3>3
    <3>5. /\ o \in Entry /\ o.intRefCount = i /\ o.extRefCount = e /\ References(o) = i + e
          /\ o.uniqueID = p.uniqueID /\ o.signalled = p.signalled /\ o.notinited = p.notinited
          /\ o.lockCount = p.lockCount /\ o.lockOwner = p.lockOwner
          /\ o.dependentObject = p.dependentObject
      BY <3>1, <3>4 DEF Entry, References
    <3> QED
      BY <3>2, <3>3, <3>5
  <2>3. References(o) = References(p) /\ References(o) \in Int /\ o.lockCount \in Int
    BY <2>2a, EntryFacts
  <2>4. Settled(h, Obj(t))
    BY <1>3, <1>4, EntrySettled
  <2>5. Settled(h, o)
    BY <1>3, <1>6, <2>1, <2>2a, <2>3, <2>4, EntryFacts DEF Settled, isFree
  <2>6. IsOutside(stack[t], Len(stack[t]), h) => Upholds(objectTable[h], o)
    <3>1. References(o) >= References(p)
      BY <2>3
    <3> QED
      BY <1>2, <1>3, <2>1, <2>2a, <3>1, StillUpholds
  <2>7. o.lockCount = Obj(t).lockCount - (IF isInside(Top(t), h) THEN 1 ELSE 0)
    BY <1>2, <2>1, <2>2a, <2>3 DEF isInside
  <2> QED
    BY <1>1, <1>2, <1>3, <1>6, <2>1, <2>2, <2>2a, <2>5, <2>6, <2>7, ReturnState, ZenonT(60)
<1> QED
  BY <1>1, <1>5, <1>6 DEF Publish

(* A call that is not inside its object returns, and the object keeps what *)
(* does not count references or tell the state of its making.              *)
LEMMA UpdateReturnState ==
  ASSUME LoneInv, NEW t \in Threads, stack[t] # << >>, Return(t),
         Top(t).at \notin {"create", "handler", "locked"},
         NEW h, h = Top(t).handle, NEW p, p = Obj(t), NEW o \in Entry, SetEntry(h, o),
         o.uniqueID = p.uniqueID, p.signalled => o.signalled,
         o.lockCount = p.lockCount, o.lockOwner = p.lockOwner, o.dependentObject = p.dependentObject,
         o.intRefCount >= 0, o.extRefCount >= 0, o.signalled \/ References(o) > 0,
         IsOutside(stack[t], Len(stack[t]), h) =>
           /\ p.notinited => o.notinited
           /\ References(o) >= References(p)
  PROVE  LoneState(t, stack'[t], objectTable')
<1>1. /\ h \in Handles /\ LoneEntry(t, stack[t], objectTable, h) /\ p \in Entry /\ p = objectTable[h]
  BY Innermost
<1>2. IsOutside(stack[t], Len(stack[t]), h) => Upholds(objectTable[h], o)
  BY <1>1, StillUpholds
<1>3. Settled(h, o)
  BY <1>1 DEF LoneEntry, Settled, isFree
<1>4. o.lockCount = Obj(t).lockCount - (IF isInside(Top(t), h) THEN 1 ELSE 0)
  BY <1>1, EntryFacts DEF isInside
<1> QED
  BY <1>1, <1>2, <1>3, <1>4, ReturnState, ZenonT(60)

LEMMA RejectHandleLone ==
  ASSUME LoneInv, NEW t \in Threads, RejectHandle(t)
  PROVE  LoneState(t, stack'[t], objectTable')
<1>1. /\ stack[t] # << >> /\ Top(t).at = "call" /\ Return(t) /\ UNCHANGED objectTable
      /\ isFree(Obj(t)) \/ External(t)
  BY DEF RejectHandle, At
<1>2. Destroying(stack[t], Top(t).handle) => Top(t).msg = "destroy"
  BY <1>1, Innermost DEF Destroying
<1> QED
  BY <1>1, <1>2, QuietReturnState DEF External

(* A message that is being processed by the kernel.                        *)
LEMMA CallFacts ==
  ASSUME LoneInv, NEW t \in Threads, At(t, "call"), Accepted(t)
  PROVE  /\ stack[t] # << >> /\ Top(t).at = "call"
         /\ Top(t) = stack[t][Len(stack[t])] /\ Top(t) \in Frame
         /\ Top(t).handle \in Handles /\ Obj(t) = objectTable[Top(t).handle] /\ Obj(t) \in Entry
         /\ LoneEntry(t, stack[t], objectTable, Top(t).handle)
         /\ Obj(t).intRefCount >= 0 /\ Obj(t).extRefCount >= 0
         /\ ~isFree(Obj(t)) /\ Len(stack[t]) \in Nat /\ Len(stack[t]) <= MaxFrames + 1
         /\ Top(t).msg # "destroy" => /\ Settled(Top(t).handle, Obj(t))
                                      /\ ~(Len(stack[t]) > MaxFrames)
<1>1. stack[t] # << >> /\ Top(t).at = "call" /\ ~isFree(Obj(t))
  BY DEF At, Accepted
<1>2. /\ Top(t) = stack[t][Len(stack[t])] /\ Top(t) \in Frame
      /\ Top(t).handle \in Handles /\ Obj(t) = objectTable[Top(t).handle] /\ Obj(t) \in Entry
      /\ LoneEntry(t, stack[t], objectTable, Top(t).handle) /\ Len(stack[t]) \in Nat
      /\ LoneCall(stack[t], objectTable, Len(stack[t]))
  BY <1>1, Innermost
<1>3. Top(t).msg # "destroy" => ~Destroying(stack[t], Top(t).handle)
  BY <1>2 DEF Destroying
<1>4. Len(stack[t]) <= MaxFrames + 1 /\ (Top(t).msg # "destroy" => ~(Len(stack[t]) > MaxFrames))
  BY <1>1, <1>2, KernelAssumption DEF LoneCall, DeepestDestroys
<1> QED
  BY <1>1, <1>2, <1>3, <1>4, EntrySettled DEF LoneEntry

LEMMA IncRefLone ==
  ASSUME LoneInv, NEW t \in Threads, IncRef(t)
  PROVE  LoneState(t, stack'[t], objectTable')
<1>1. /\ stack[t] # << >> /\ Top(t).at = "call" /\ Top(t).msg = "incref" /\ Accepted(t) /\ At(t, "call")
      /\ Return(t)
  BY DEF IncRef, Call, At
<1>2. PICK p \in Entry : p = Obj(t)
  BY <1>1, CallFacts
<1>3. CASE UNCHANGED objectTable
  <2>1. ~Destroying(stack[t], Top(t).handle)
    BY <1>1, Innermost DEF Destroying
  <2> QED
    BY <1>1, <1>3, <2>1, QuietReturnState
<1>4. CASE SetEntry(Top(t).handle, [Obj(t) EXCEPT !.intRefCount = @ + 1])
  <2>1. PICK o : o = [p EXCEPT !.intRefCount = @ + 1]
    OBVIOUS
  <2>2. /\ o \in Entry /\ o.intRefCount = p.intRefCount + 1 /\ o.extRefCount = p.extRefCount
        /\ o.uniqueID = p.uniqueID /\ o.signalled = p.signalled /\ o.notinited = p.notinited
        /\ o.lockCount = p.lockCount /\ o.lockOwner = p.lockOwner
        /\ o.dependentObject = p.dependentObject
    BY <2>1 DEF Entry
  <2>3. References(o) = References(p) + 1 /\ p.intRefCount >= 0 /\ p.extRefCount >= 0
    BY <1>1, <1>2, <2>2, CallFacts, EntryFacts
  <2>4. /\ o.intRefCount >= 0 /\ o.extRefCount >= 0 /\ References(o) > 0 /\ References(o) >= References(p)
    BY <2>2, <2>3, EntryFacts
  <2>5. Top(t).at \notin {"create", "handler", "locked"} /\ SetEntry(Top(t).handle, o)
    BY <1>1, <1>2, <1>4, <2>1
  <2> QED
    BY <1>1, <1>2, <2>2, <2>4, <2>5, UpdateReturnState, ZenonT(60)
<1> QED
  BY <1>3, <1>4 DEF IncRef

LEMMA DropRefFacts ==
  ASSUME NEW p \in Entry, NEW b \in BOOLEAN, HasRef(p, b), p.intRefCount >= 0, p.extRefCount >= 0,
         NEW o, o = DropRef(p, b)
  PROVE  /\ o \in Entry /\ o.intRefCount >= 0 /\ o.extRefCount >= 0
         /\ References(o) = References(p) - 1
         /\ Referenced(o) <=> References(o) > 0
         /\ o.uniqueID = p.uniqueID /\ o.signalled = p.signalled /\ o.notinited = p.notinited
         /\ o.lockCount = p.lockCount /\ o.lockOwner = p.lockOwner
         /\ o.dependentObject = p.dependentObject
<1>1. CASE b
  <2>1. /\ o \in Entry /\ o.intRefCount = p.intRefCount /\ o.extRefCount = p.extRefCount - 1
        /\ o.uniqueID = p.uniqueID /\ o.signalled = p.signalled /\ o.notinited = p.notinited
        /\ o.lockCount = p.lockCount /\ o.lockOwner = p.lockOwner
        /\ o.dependentObject = p.dependentObject /\ p.extRefCount > 0
    <3>1. PICK b2 : b2 = (p.internal \/ p.extRefCount = 1)
      OBVIOUS
    <3>2. o = [p EXCEPT !.extRefCount = p.extRefCount - 1, !.internal = b2]
      BY <1>1, <3>1 DEF DropRef
    <3>3. o \in Entry
      BY DropRefTyped
    <3>4. p.extRefCount > 0
      BY <1>1 DEF HasRef
    <3> QED
      BY <3>2, <3>3, <3>4 DEF Entry
  <2> QED
    BY <2>1, EntryFacts DEF Referenced
<1>2. CASE ~b
  <2>1. /\ o \in Entry /\ o.intRefCount = p.intRefCount - 1 /\ o.extRefCount = p.extRefCount
        /\ o.uniqueID = p.uniqueID /\ o.signalled = p.signalled /\ o.notinited = p.notinited
        /\ o.lockCount = p.lockCount /\ o.lockOwner = p.lockOwner
        /\ o.dependentObject = p.dependentObject /\ p.intRefCount > 0
    BY <1>2 DEF DropRef, HasRef, Entry
  <2> QED
    BY <2>1, EntryFacts DEF Referenced
<1> QED
  BY <1>1, <1>2

(* The innermost call goes on from one that was not inside the object to   *)
(* another that is not.                                                    *)
LEMMA GoOnOutside ==
  ASSUME LoneInv, NEW t \in Threads, stack[t] # << >>,
         NEW h \in Handles, h = Top(t).handle, Top(t).at \notin {"create", "handler", "locked"},
         NEW f \in Frame, f.handle = h, f.at \notin {"init", "handler", "locked"}, ~isMaking(f),
         Replace(t, f),
         NEW p, p = objectTable[h], NEW o \in Entry, SetEntry(h, o),
         IsOutside(stack[t], Len(stack[t]), h) => Upholds(p, o),
         LoneCall(stack'[t], objectTable', Len(stack[t])),
         Settled(h, o) \/ Destroying(stack'[t], h),
         o.lockCount = p.lockCount, o.lockOwner = p.lockOwner,
         o.intRefCount >= 0, o.extRefCount >= 0,
         o.uniqueID = p.uniqueID, o.dependentObject = p.dependentObject
  PROVE  LoneState(t, stack'[t], objectTable')
<1>1. LoneEntry(t, stack[t], objectTable, h) /\ p \in Entry
  BY Innermost
<1>2. o.lockCount = p.lockCount + (IF isInside(f, h) THEN 1 ELSE 0)
  BY <1>1, EntryFacts DEF isInside
<1>3. /\ ~isInside(Top(t), h) /\ ~isInside(f, h)
      /\ o.lockCount > 0 /\ ~isInside(f, h) => o.lockOwner = objectTable[h].lockOwner
      /\ Top(t).handle = h \/ Top(t).at = "create"
      /\ o.intRefCount >= 0 /\ o.extRefCount >= 0
      /\ isInside(f, h) => o.lockOwner = t
      /\ o.lockCount = objectTable[h].lockCount + (IF isInside(f, h) THEN 1 ELSE 0)
      /\ IsOutside(stack[t], Len(stack[t]), h) => Upholds(objectTable[h], o)
      /\ isMaking(f) => \/ o.dependentObject = NoHandle
                        \/ /\ isMaking(Top(t)) /\ Top(t).handle = h
                           /\ o.dependentObject = objectTable[h].dependentObject
  BY <1>2 DEF isInside
<1>4. o.dependentObject # NoHandle => ~isFree(o) /\ <<h, o.dependentObject>> \in Dependencies
  BY <1>1 DEF LoneEntry, isFree
<1> QED
  BY <1>3, <1>4, GoOnState, ZenonT(60)

LEMMA DecRefLone ==
  ASSUME LoneInv, NEW t \in Threads, DecRef(t)
  PROVE  LoneState(t, stack'[t], objectTable')
<1>1. /\ stack[t] # << >> /\ Top(t).at = "call" /\ Top(t).msg = "decref" /\ Accepted(t) /\ At(t, "call")
  BY DEF DecRef, Call, At
<1>2. PICK h : h = Top(t).handle
  OBVIOUS
<1>3. PICK p \in Entry : p = Obj(t)
  BY <1>1, CallFacts
<1>4. /\ h \in Handles /\ p = objectTable[h] /\ p.intRefCount >= 0 /\ p.extRefCount >= 0
      /\ Settled(h, p) /\ ~(Len(stack[t]) > MaxFrames) /\ ~isFree(p)
      /\ Top(t) = stack[t][Len(stack[t])] /\ Top(t) \in Frame
      /\ LoneEntry(t, stack[t], objectTable, h) /\ Len(stack[t]) \in Nat
  BY <1>1, <1>2, <1>3, CallFacts
<1>5. /\ ~IsOutside(stack[t], Len(stack[t]), h)
      /\ ~IsOutside(stack[t], Len(stack[t]), p.dependentObject)
  BY <1>1, <1>2, <1>4, Innermost DEF LoneCall, MayProceed
<1>6. CASE ~HasRef(p, External(t))
  <2>1. Return(t) /\ UNCHANGED objectTable
    BY <1>3, <1>6 DEF DecRef
  <2>2. ~Destroying(stack[t], Top(t).handle)
    BY <1>1, <1>4 DEF Destroying
  <2> QED
    BY <1>1, <2>1, <2>2, QuietReturnState
<1>7. CASE HasRef(p, External(t))
  <2>1. PICK b \in BOOLEAN : b = External(t)
    BY DEF External
  <2>2. PICK o : o = DropRef(p, b)
    OBVIOUS
  <2>3. /\ o \in Entry /\ o.intRefCount >= 0 /\ o.extRefCount >= 0
        /\ Referenced(o) <=> References(o) > 0
        /\ o.uniqueID = p.uniqueID /\ o.signalled = p.signalled /\ o.notinited = p.notinited
        /\ o.lockCount = p.lockCount /\ o.lockOwner = p.lockOwner
        /\ o.dependentObject = p.dependentObject
    BY <1>4, <1>7, <2>1, <2>2, DropRefFacts
  <2>4. /\ SetEntry(h, o)
        /\ IF Referenced(o) THEN Return(t) ELSE Replace(t, NewFrame("call", h, 0, "destroy"))
    BY <1>2, <1>3, <1>7, <2>1, <2>2 DEF DecRef
  <2>5. CASE Referenced(o)
    BY <1>1, <1>2, <1>3, <1>5, <2>3, <2>4, <2>5, UpdateReturnState, ZenonT(60)
  <2>6. CASE ~Referenced(o)
    <3>1. PICK f : f = NewFrame("call", h, 0, "destroy")
      OBVIOUS
    <3>2. f \in Frame /\ f.at = "call" /\ f.msg = "destroy" /\ f.handle = h /\ Replace(t, f) /\ ~isMaking(f)
      BY <1>4, <2>4, <2>6, <3>1, NewFrameTyped DEF NewFrame, Places, Messages, isMaking
    <3>3. /\ Len(stack'[t]) = Len(stack[t]) /\ stack'[t][Len(stack[t])] = f
          /\ \A g : IsOutside(stack'[t], Len(stack[t]), g) <=> IsOutside(stack[t], Len(stack[t]), g)
      BY <1>1, <3>2, NewTop
    <3>4. objectTable'[h] = o
      BY <1>4, <2>4 DEF SetEntry, LoneInv, TypeOK
    <3>5. LoneCall(stack'[t], objectTable', Len(stack[t]))
      <4>1. KeepsObject(stack'[t], objectTable', Len(stack[t]))
        BY <3>2, <3>3 DEF KeepsObject, Holds, IsLast, isMaking, Lasting
      <4>2. MayProceed(stack'[t], objectTable', Len(stack[t]))
        BY <1>5, <2>3, <3>2, <3>3, <3>4 DEF MayProceed
      <4> QED
        BY <1>4, <3>2, <3>3, <4>1, <4>2 DEF LoneCall, DeepestDestroys
    <3>6. Destroying(stack'[t], h)
      <4>1. Len(stack[t]) > 0
        BY <1>1, Innermost
      <4> QED
        BY <3>2, <3>3, <4>1 DEF Destroying
    <3>7. f.at \notin {"init", "handler", "locked"} /\ Top(t).at \notin {"create", "handler", "locked"}
      BY <1>1, <3>2
    <3> QED
      BY <1>1, <1>2, <1>4, <1>5, <2>3, <2>4, <3>2, <3>5, <3>6, <3>7, GoOnOutside, ZenonT(60)
  <2> QED
    BY <2>5, <2>6
<1> QED
  BY <1>6, <1>7

LEMMA ReadyLone ==
  ASSUME LoneInv, NEW t \in Threads, Ready(t)
  PROVE  LoneState(t, stack'[t], objectTable')
<1>1. /\ stack[t] # << >> /\ Top(t).at = "call" /\ Top(t).msg = "ready" /\ Accepted(t) /\ At(t, "call")
      /\ ~Obj(t).signalled
  BY DEF Ready, Call, At
<1>2. PICK h : h = Top(t).handle
  OBVIOUS
<1>3. PICK p \in Entry : p = Obj(t)
  BY <1>1, CallFacts
<1>4. /\ h \in Handles /\ p = objectTable[h] /\ p.intRefCount >= 0 /\ p.extRefCount >= 0
      /\ Settled(h, p) /\ ~(Len(stack[t]) > MaxFrames) /\ ~isFree(p)
      /\ Top(t) = stack[t][Len(stack[t])] /\ Top(t) \in Frame
      /\ LoneEntry(t, stack[t], objectTable, h) /\ Len(stack[t]) \in Nat
  BY <1>1, <1>2, <1>3, CallFacts
<1>5. ~IsOutside(stack[t], Len(stack[t]), h)
  BY <1>1, <1>2, <1>4, Innermost DEF LoneCall, KeepsObject, IsLast, isMaking
<1>6. PICK o : o = [p EXCEPT !.notinited = FALSE]
  OBVIOUS
<1>7. /\ o \in Entry /\ o.intRefCount = p.intRefCount /\ o.extRefCount = p.extRefCount
      /\ o.uniqueID = p.uniqueID /\ o.signalled = p.signalled
      /\ o.lockCount = p.lockCount /\ o.lockOwner = p.lockOwner
      /\ o.dependentObject = p.dependentObject
  BY <1>6 DEF Entry
<1>8. SetEntry(h, o) /\ o.intRefCount >= 0 /\ o.extRefCount >= 0
  BY <1>2, <1>3, <1>4, <1>6, <1>7 DEF Ready
<1>8a. Settled(h, o)
  BY <1>4, <1>7 DEF Settled, isFree, References
<1>9. CASE Return(t)
  <2>1. o.lockCount = Obj(t).lockCount - (IF isInside(Top(t), h) THEN 1 ELSE 0)
    BY <1>1, <1>3, <1>7, EntryFacts DEF isInside
  <2>2. Top(t).at # "create" /\ o.lockOwner = Obj(t).lockOwner
    BY <1>1, <1>3, <1>7
  <2> QED
    BY <1>1, <1>2, <1>4, <1>5, <1>7, <1>8, <1>8a, <1>9, <2>1, <2>2, ReturnState, ZenonT(60)
<1>10. CASE Replace(t, [Top(t) EXCEPT !.at = "publish"])
  <2>1. PICK f : f = [Top(t) EXCEPT !.at = "publish"]
    OBVIOUS
  <2>2. f \in Frame /\ f.at = "publish" /\ f.handle = h /\ Replace(t, f) /\ ~isMaking(f)
    BY <1>2, <1>4, <1>10, <2>1 DEF Frame, Places, isMaking
  <2>3. Len(stack'[t]) = Len(stack[t]) /\ stack'[t][Len(stack[t])] = f
    BY <1>1, <2>2, NewTop
  <2>4. LoneCall(stack'[t], objectTable', Len(stack[t]))
    <3>1. KeepsObject(stack'[t], objectTable', Len(stack[t]))
      BY <2>2, <2>3 DEF KeepsObject, Holds, IsLast, isMaking, Lasting
    <3> QED
      BY <1>4, <2>2, <2>3, <3>1 DEF LoneCall, MayProceed, DeepestDestroys
  <2>5. f.at \notin {"init", "handler", "locked"} /\ Top(t).at \notin {"create", "handler", "locked"}
    BY <1>1, <2>2
  <2> QED
    BY <1>1, <1>2, <1>4, <1>5, <1>7, <1>8, <1>8a, <2>2, <2>4, <2>5, GoOnOutside, ZenonT(60)
<1> QED
  BY <1>9, <1>10 DEF Ready

LEMMA LockObjectLone ==
  ASSUME LoneInv, NEW t \in Threads, LockObject(t)
  PROVE  LoneState(t, stack'[t], objectTable')
<1>1. /\ stack[t] # << >> /\ Top(t).at = "call" /\ Top(t).msg = "lock" /\ Accepted(t) /\ At(t, "call")
  BY DEF LockObject, Call, At
<1>2. PICK h : h = Top(t).handle
  OBVIOUS
<1>3. PICK p \in Entry : p = Obj(t)
  BY <1>1, CallFacts
<1>4. /\ h \in Handles /\ p = objectTable[h] /\ p.intRefCount >= 0 /\ p.extRefCount >= 0
      /\ Settled(h, p) /\ ~(Len(stack[t]) > MaxFrames) /\ ~isFree(p)
      /\ Top(t) = stack[t][Len(stack[t])] /\ Top(t) \in Frame
      /\ LoneEntry(t, stack[t], objectTable, h) /\ Len(stack[t]) \in Nat
  BY <1>1, <1>2, <1>3, CallFacts
<1>5. PICK o : o = [p EXCEPT !.lockCount = @ + 1, !.lockOwner = t]
  OBVIOUS
<1>6. /\ o \in Entry /\ o.intRefCount = p.intRefCount /\ o.extRefCount = p.extRefCount
      /\ o.uniqueID = p.uniqueID /\ o.signalled = p.signalled /\ o.notinited = p.notinited
      /\ o.lockCount = p.lockCount + 1 /\ o.lockOwner = t
      /\ o.dependentObject = p.dependentObject
  <2>1. PICK i \in Int : i = p.lockCount + 1
    BY EntryFacts
  <2>2. o = [p EXCEPT !.lockCount = i, !.lockOwner = t]
    BY <1>5, <2>1
  <2>3. /\ o \in Entry /\ o.intRefCount = p.intRefCount /\ o.extRefCount = p.extRefCount
        /\ o.uniqueID = p.uniqueID /\ o.signalled = p.signalled /\ o.notinited = p.notinited
        /\ o.lockCount = i /\ o.lockOwner = t
        /\ o.dependentObject = p.dependentObject
    BY <2>2 DEF Entry
  <2> QED
    BY <2>1, <2>3
<1>7. PICK f : f = [Top(t) EXCEPT !.at = "locked", !.uid = Obj(t).uniqueID]
  OBVIOUS
<1>8. f \in Frame /\ f.at = "locked" /\ f.handle = h /\ f.uid = p.uniqueID
  BY <1>2, <1>3, <1>4, <1>7 DEF Frame, Places, Entry
<1>9. SetEntry(h, o) /\ Replace(t, f) /\ o.intRefCount >= 0 /\ o.extRefCount >= 0
  BY <1>2, <1>3, <1>4, <1>5, <1>6, <1>7 DEF LockObject
<1>10. Settled(h, o) /\ References(o) = References(p) /\ References(o) >= References(p)
  <2>1. References(o) = References(p) /\ References(p) \in Int
    BY <1>6, ReferencesTyped DEF References
  <2> QED
    BY <1>4, <1>6, <2>1 DEF Settled, isFree
<1>11. IsOutside(stack[t], Len(stack[t]), h) => Upholds(objectTable[h], o)
  BY <1>1, <1>4, <1>6, <1>10, StillUpholds
<1>12. /\ Len(stack'[t]) = Len(stack[t]) /\ stack'[t][Len(stack[t])] = f
       /\ Cardinality(Makers(stack'[t], objectTable', Len(stack[t]))) = 0
       /\ objectTable'[h] = o
  BY <1>1, <1>4, <1>8, <1>9, NewTop DEF SetEntry, LoneInv, TypeOK
<1>13. LoneCall(stack'[t], objectTable', Len(stack[t]))
  <2>1. KeepsObject(stack'[t], objectTable', Len(stack[t]))
    BY <1>4, <1>6, <1>8, <1>10, <1>12 DEF KeepsObject, IsLast, isMaking, Settled, isFree
  <2> QED
    BY <1>4, <1>8, <1>12, <2>1 DEF LoneCall, MayProceed, DeepestDestroys
<1>14. /\ isInside(f, h) /\ ~isInside(Top(t), h) /\ ~isMaking(f)
       /\ Top(t).handle = h \/ Top(t).at = "create"
       /\ Settled(h, o) \/ Destroying(stack'[t], h)
  BY <1>1, <1>2, <1>8, <1>10 DEF isInside, isMaking
<1>15. o.lockCount = objectTable[h].lockCount + (IF isInside(f, h) THEN 1 ELSE 0)
  BY <1>4, <1>6, <1>14
<1>16. o.dependentObject # NoHandle => ~isFree(o) /\ <<h, o.dependentObject>> \in Dependencies
  BY <1>10 DEF Settled
<1>17. /\ isMaking(f) => \/ o.dependentObject = NoHandle
                         \/ /\ isMaking(Top(t)) /\ Top(t).handle = h
                            /\ o.dependentObject = objectTable[h].dependentObject
       /\ isInside(f, h) => o.lockOwner = t
       /\ o.lockCount > 0 /\ ~isInside(f, h) => o.lockOwner = objectTable[h].lockOwner
       /\ stack[t] # << >> /\ f \in Frame /\ f.handle = h /\ o \in Entry
  BY <1>1, <1>6, <1>8, <1>14
<1> QED
  BY <1>4, <1>9, <1>11, <1>13, <1>14, <1>15, <1>16, <1>17, GoOnState, ZenonT(60)

(* A call inside an object leaves it.                                      *)
LEMMA LeaveState ==
  ASSUME LoneInv, NEW t \in Threads, stack[t] # << >>, Top(t).at \in {"handler", "locked"}, Return(t),
         SetEntry(Top(t).handle, [Obj(t) EXCEPT !.lockCount = @ - 1])
  PROVE  LoneState(t, stack'[t], objectTable')
<1>1. PICK h : h = Top(t).handle
  OBVIOUS
<1>2. PICK p \in Entry : p = Obj(t)
  BY Innermost
<1>3. PICK o : o = [p EXCEPT !.lockCount = @ - 1]
  OBVIOUS
<1>4. /\ o \in Entry /\ o.intRefCount = p.intRefCount /\ o.extRefCount = p.extRefCount
      /\ o.uniqueID = p.uniqueID /\ o.signalled = p.signalled /\ o.notinited = p.notinited
      /\ o.lockCount = p.lockCount - 1 /\ o.lockOwner = p.lockOwner
      /\ o.dependentObject = p.dependentObject
  BY <1>3 DEF Entry
<1>5. /\ h \in Handles /\ p = objectTable[h] /\ Top(t).at # "create"
      /\ Top(t) = stack[t][Len(stack[t])] /\ LoneEntry(t, stack[t], objectTable, h)
  BY <1>1, <1>2, Innermost
<1>6. ~Destroying(stack[t], h)
  BY <1>5 DEF Destroying
<1>7. Settled(h, p)
  BY <1>5, <1>6, EntrySettled
<1>8. References(o) = References(p) /\ References(o) >= References(p)
  <2>1. References(o) = References(p) /\ References(p) \in Int
    BY <1>4, ReferencesTyped DEF References
  <2> QED
    BY <2>1
<1>9. Settled(h, o)
  BY <1>4, <1>7, <1>8 DEF Settled, isFree
<1>10. IsOutside(stack[t], Len(stack[t]), h) => Upholds(objectTable[h], o)
  BY <1>4, <1>5, <1>8, StillUpholds
<1>11. o.lockCount = Obj(t).lockCount - (IF isInside(Top(t), h) THEN 1 ELSE 0)
  BY <1>1, <1>2, <1>4 DEF isInside
<1>12. SetEntry(h, o) /\ o.lockOwner = Obj(t).lockOwner
  BY <1>1, <1>2, <1>3, <1>4
<1> QED
  BY <1>1, <1>4, <1>5, <1>9, <1>10, <1>11, <1>12, ReturnState, ZenonT(60)

(* A call inside an object finds it busy, and there.                       *)
LEMMA InsideIsBusy ==
  ASSUME LoneInv, NEW t \in Threads, stack[t] # << >>, Top(t).at \in {"handler", "locked"}
  PROVE  isInUse(Obj(t)) /\ ~isFree(Obj(t))
<1>1. /\ FramesTyped(stack[t]) /\ Len(stack[t]) \in 1..Len(stack[t])
      /\ Top(t) = stack[t][Len(stack[t])] /\ Obj(t) = objectTable[Top(t).handle]
      /\ LoneEntry(t, stack[t], objectTable, Top(t).handle)
      /\ LoneCall(stack[t], objectTable, Len(stack[t]))
  BY Innermost
<1>2. Len(stack[t]) \in InsideCalls(stack[t], Top(t).handle)
  BY <1>1 DEF InsideCalls, isInside
<1>3. Cardinality(InsideCalls(stack[t], Top(t).handle)) # 0
  BY <1>1, <1>2, InsideFinite, FS_EmptySet
<1>4. Cardinality(InsideCalls(stack[t], Top(t).handle)) > 0
  BY <1>1, <1>3, InsideFinite
<1> QED
  BY <1>1, <1>4 DEF LoneEntry, LoneCall, KeepsObject, Holds, Lasting, isInUse

LEMMA UnlockObjectLone ==
  ASSUME LoneInv, NEW t \in Threads, UnlockObject(t)
  PROVE  LoneState(t, stack'[t], objectTable')
<1>1. stack[t] # << >> /\ Top(t).at = "locked" /\ ~shutdown /\ Return(t)
  BY DEF UnlockObject, At, LoneInv
<1>2. SetEntry(Top(t).handle, [Obj(t) EXCEPT !.lockCount = @ - 1])
  BY <1>1, InsideIsBusy DEF UnlockObject
<1> QED
  BY <1>1, <1>2, LeaveState

LEMMA HandlerReturnLone ==
  ASSUME LoneInv, NEW t \in Threads, HandlerReturn(t)
  PROVE  LoneState(t, stack'[t], objectTable')
<1>1. stack[t] # << >> /\ Top(t).at = "handler" /\ Return(t)
  BY DEF HandlerReturn, At
<1>2. ~isFree(Obj(t))
  BY <1>1, InsideIsBusy
<1>3. CASE ~isDestroy(Top(t).msg)
  <2>1. SetEntry(Top(t).handle, [Obj(t) EXCEPT !.lockCount = @ - 1])
    BY <1>2, <1>3 DEF HandlerReturn
  <2> QED
    BY <1>1, <2>1, LeaveState
<1>4. CASE isDestroy(Top(t).msg)
  <2>1. PICK h : h = Top(t).handle
    OBVIOUS
  <2>2. /\ h \in Handles /\ Top(t) = stack[t][Len(stack[t])] /\ FramesTyped(stack[t])
        /\ LoneCall(stack[t], objectTable, Len(stack[t])) /\ LoneState(t, stack[t], objectTable)
        /\ LoneEntry(t, stack[t], objectTable, h) /\ objectTable \in [Handles -> Entry]
    BY <1>1, <2>1, Innermost
  <2>3. ~IsOutside(stack[t], Len(stack[t]), h)
    BY <1>1, <1>4, <2>1, <2>2 DEF LoneCall, KeepsObject, IsLast
  <2>4. /\ objectTable' \in [Handles -> Entry] /\ objectTable'[h] = FreeEntry
        /\ \A g \in Handles : g # h => objectTable'[g] = objectTable[g]
    BY <1>2, <1>4, <2>1, <2>2, FreeEntryTyped DEF HandlerReturn, SetEntry
  <2>5. stack'[t] = Front(stack[t])
    BY <1>1, NextStack DEF LoneInv
  <2>6. Cardinality(InsideCalls(Front(stack[t]), h)) = 0
    <3>1. /\ FramesTyped(Front(stack[t])) /\ Len(stack[t]) \in Nat \ {0}
          /\ Len(Front(stack[t])) = Len(stack[t]) - 1
          /\ \A i \in 1..(Len(stack[t]) - 1) : Front(stack[t])[i] = stack[t][i]
      BY <1>1, <2>2, FrontFacts
    <3>2. InsideCalls(Front(stack[t]), h) = {}
      BY <2>3, <3>1 DEF InsideCalls, IsOutside, isInside
    <3> QED
      BY <3>2, FS_EmptySet
  <2>7. LoneEntry(t, Front(stack[t]), objectTable', h)
    BY <2>4, <2>6 DEF LoneEntry, FreeEntry, isFree
  <2>8. LoneState(t, Front(stack[t]), objectTable')
    BY <1>1, <2>1, <2>2, <2>3, <2>4, <2>7, PopState
  <2> QED
    BY <2>5, <2>8
<1> QED
  BY <1>3, <1>4

(* A message goes on to the handler of the object.                         *)
LEMMA EnterHandlerState ==
  ASSUME LoneInv, NEW t \in Threads, stack[t] # << >>, Top(t).at \in {"call", "predep"},
         NEW h \in Handles, h = Top(t).handle, NEW p, p = objectTable[h], NEW q \in Entry,
         NEW uid \in Nat, NEW m \in Messages, EnterHandler(t, q, uid, m),
         uid = p.uniqueID, ~isFree(p), q.uniqueID = p.uniqueID, p.signalled => q.signalled, q.notinited = p.notinited,
         q.intRefCount = p.intRefCount, q.extRefCount = p.extRefCount, q.lockCount = p.lockCount,
         \/ q.dependentObject = p.dependentObject
         \/ q.dependentObject = NoHandle /\ ~IsOutside(stack[t], Len(stack[t]), h),
         isDestroy(m) => ~IsOutside(stack[t], Len(stack[t]), h) /\ q.signalled,
         Settled(h, q)
  PROVE  LoneState(t, stack'[t], objectTable')
<1>1. /\ Top(t) = stack[t][Len(stack[t])] /\ p \in Entry /\ Len(stack[t]) \in Nat \ {0}
      /\ LoneCall(stack[t], objectTable, Len(stack[t]))
      /\ objectTable \in [Handles -> Entry]
  BY Innermost
<1>2. PICK o : o = [q EXCEPT !.lockCount = @ + 1, !.lockOwner = t]
  OBVIOUS
<1>3. /\ o \in Entry /\ o.intRefCount = p.intRefCount /\ o.extRefCount = p.extRefCount
      /\ o.uniqueID = p.uniqueID /\ o.signalled = q.signalled /\ o.notinited = p.notinited
      /\ o.lockCount = p.lockCount + 1 /\ o.lockOwner = t
      /\ o.dependentObject = q.dependentObject
  <2>1. PICK i \in Int : i = q.lockCount + 1
    BY EntryFacts
  <2>2. o = [q EXCEPT !.lockCount = i, !.lockOwner = t]
    BY <1>2, <2>1
  <2>3. /\ o \in Entry /\ o.intRefCount = q.intRefCount /\ o.extRefCount = q.extRefCount
        /\ o.uniqueID = q.uniqueID /\ o.signalled = q.signalled /\ o.notinited = q.notinited
        /\ o.lockCount = i /\ o.lockOwner = t
        /\ o.dependentObject = q.dependentObject
    BY <2>2 DEF Entry
  <2> QED
    BY <2>1, <2>3
<1>4. PICK f : f = [NewFrame("handler", h, uid, m) EXCEPT !.n = q.lockCount]
  OBVIOUS
<1>5. f \in Frame /\ f.at = "handler" /\ f.handle = h /\ f.msg = m /\ f.uid = uid
  <2>1. PICK g : g = NewFrame("handler", h, uid, m)
    OBVIOUS
  <2>2. g \in Frame /\ g.at = "handler" /\ g.handle = h /\ g.msg = m /\ g.uid = uid
    BY <2>1, NewFrameTyped DEF NewFrame, Places
  <2>3. PICK i \in Int : i = q.lockCount
    BY EntryFacts
  <2> QED
    BY <1>4, <2>1, <2>2, <2>3 DEF Frame
<1>6. SetEntry(h, o) /\ Replace(t, f)
  BY <1>2, <1>4 DEF EnterHandler
<1>7. Settled(h, o) /\ References(o) = References(p) /\ References(o) >= References(p)
  <2>1. References(o) = References(p) /\ References(p) \in Int
    BY <1>1, <1>3, ReferencesTyped DEF References
  <2>2. References(q) = References(p)
    BY DEF References
  <2> QED
    BY <1>3, <2>1, <2>2 DEF Settled, isFree
<1>8. IsOutside(stack[t], Len(stack[t]), h) => Upholds(objectTable[h], o)
  BY <1>3, <1>7, StillUpholds
<1>9. /\ Len(stack'[t]) = Len(stack[t]) /\ stack'[t][Len(stack[t])] = f
      /\ Cardinality(Makers(stack'[t], objectTable', Len(stack[t]))) = 0
      /\ IsOutside(stack'[t], Len(stack[t]), h) <=> IsOutside(stack[t], Len(stack[t]), h)
      /\ objectTable'[h] = o
  BY <1>1, <1>5, <1>6, NewTop DEF SetEntry
<1>10. LoneCall(stack'[t], objectTable', Len(stack[t]))
  <2>1. KeepsObject(stack'[t], objectTable', Len(stack[t]))
    BY <1>3, <1>5, <1>7, <1>9 DEF KeepsObject, IsLast, isMaking, Settled, isFree
  <2>2. DeepestDestroys(stack'[t], objectTable', Len(stack[t]))
    BY <1>1, <1>5, <1>9 DEF LoneCall, DeepestDestroys
  <2> QED
    BY <1>5, <1>9, <2>1, <2>2 DEF LoneCall, MayProceed
<1>11. /\ isInside(f, h) /\ ~isInside(Top(t), h) /\ ~isMaking(f)
       /\ Top(t).handle = h \/ Top(t).at = "create"
       /\ Settled(h, o) \/ Destroying(stack'[t], h)
  BY <1>5, <1>7 DEF isInside, isMaking
<1>12. o.lockCount = objectTable[h].lockCount + (IF isInside(f, h) THEN 1 ELSE 0)
  BY <1>3, <1>11
<1>13. /\ o.dependentObject # NoHandle => ~isFree(o) /\ <<h, o.dependentObject>> \in Dependencies
       /\ o.intRefCount >= 0 /\ o.extRefCount >= 0
  BY <1>7 DEF Settled
<1>14. /\ isMaking(f) => \/ o.dependentObject = NoHandle
                         \/ /\ isMaking(Top(t)) /\ Top(t).handle = h
                            /\ o.dependentObject = objectTable[h].dependentObject
       /\ isInside(f, h) => o.lockOwner = t
       /\ o.lockCount > 0 /\ ~isInside(f, h) => o.lockOwner = objectTable[h].lockOwner
       /\ f \in Frame /\ f.handle = h /\ o \in Entry
  BY <1>3, <1>5, <1>11
<1> QED
  BY <1>6, <1>8, <1>10, <1>11, <1>12, <1>13, <1>14, GoOnState, ZenonT(60)

LEMMA DispatchDirectLone ==
  ASSUME LoneInv, NEW t \in Threads, DispatchDirect(t)
  PROVE  LoneState(t, stack'[t], objectTable')
<1>1. /\ stack[t] # << >> /\ Top(t).at = "call" /\ Accepted(t) /\ At(t, "call")
      /\ Effective(t) = "use"
  BY DEF DispatchDirect, Dispatching, At
<1>2. PICK h : h = Top(t).handle
  OBVIOUS
<1>3. PICK p \in Entry : p = Obj(t)
  BY <1>1, CallFacts
<1>4. Top(t).msg = "use"
  BY <1>1 DEF Effective
<1>5. h \in Handles /\ p = objectTable[h] /\ Settled(h, p) /\ ~isFree(p)
  BY <1>1, <1>2, <1>3, <1>4, CallFacts
<1>6. CASE Return(t) /\ UNCHANGED objectTable
  <2>1. ~Destroying(stack[t], Top(t).handle)
    BY <1>1, <1>4, Innermost DEF Destroying
  <2> QED
    BY <1>1, <1>6, <2>1, QuietReturnState
<1>7. CASE EnterHandler(t, Obj(t), Obj(t).uniqueID, "use")
  <2>1. PICK uid \in Nat : uid = p.uniqueID
    BY DEF Entry
  <2>2. PICK m \in Messages : m = "use"
    BY DEF Messages, MayBeSent
  <2>3. EnterHandler(t, p, uid, m) /\ ~isDestroy(m)
    BY <1>3, <1>7, <2>1, <2>2 DEF isDestroy
  <2> QED
    BY <1>1, <1>2, <1>5, <2>1, <2>3, EnterHandlerState, ZenonT(60)
<1> QED
  BY <1>6, <1>7 DEF DispatchDirect

LEMMA ResumeDestroyLone ==
  ASSUME LoneInv, NEW t \in Threads, ResumeDestroy(t)
  PROVE  LoneState(t, stack'[t], objectTable')
<1>1. stack[t] # << >> /\ Top(t).at = "predep"
  BY DEF ResumeDestroy, At
<1>2. PICK h : h = Top(t).handle
  OBVIOUS
<1>3. /\ h \in Handles /\ Top(t) = stack[t][Len(stack[t])] /\ Top(t) \in Frame
      /\ LoneCall(stack[t], objectTable, Len(stack[t])) /\ LoneEntry(t, stack[t], objectTable, h)
      /\ Obj(t) = objectTable[h] /\ objectTable[h] \in Entry
  BY <1>1, <1>2, Innermost
<1>4. /\ ~IsOutside(stack[t], Len(stack[t]), h) /\ ~isFree(objectTable[h])
      /\ objectTable[h].uniqueID = Top(t).uid
  BY <1>1, <1>2, <1>3 DEF LoneCall, KeepsObject, IsLast, Holds, Lasting
<1>5. PICK p \in Entry : p = objectTable[h]
  BY <1>3
<1>6. PICK q : q = [Signal(p) EXCEPT !.dependentObject = NoHandle]
  OBVIOUS
<1>7. /\ q \in Entry /\ q.intRefCount = p.intRefCount /\ q.extRefCount = p.extRefCount
      /\ q.uniqueID = p.uniqueID /\ q.signalled /\ q.notinited = p.notinited
      /\ q.lockCount = p.lockCount /\ q.dependentObject = NoHandle
  BY <1>6, SignalTyped DEF Signal, Entry
<1>8. PICK uid \in Nat : uid = Top(t).uid
  BY <1>3 DEF Frame
<1>9. PICK m \in Messages : m = Top(t).msg
  BY <1>3 DEF Frame
<1>10. EnterHandler(t, q, uid, m)
  BY <1>3, <1>5, <1>6, <1>8, <1>9 DEF ResumeDestroy
<1>11. Settled(h, q)
  BY <1>3, <1>5, <1>7 DEF Settled, LoneEntry
<1>12. /\ Top(t).at \in {"call", "predep"} /\ ~isFree(p) /\ stack[t] # << >> /\ h \in Handles
       /\ p.signalled => q.signalled
       /\ uid = p.uniqueID
       /\ \/ q.dependentObject = p.dependentObject
          \/ q.dependentObject = NoHandle /\ ~IsOutside(stack[t], Len(stack[t]), h)
       /\ isDestroy(m) => ~IsOutside(stack[t], Len(stack[t]), h) /\ q.signalled
  BY <1>1, <1>3, <1>4, <1>5, <1>7, <1>8
<1> QED
  BY <1>2, <1>5, <1>7, <1>10, <1>11, <1>12, EnterHandlerState, ZenonT(60)

LEMMA RejectNestingLone ==
  ASSUME LoneInv, NEW t \in Threads, RejectNesting(t)
  PROVE  LoneState(t, stack'[t], objectTable')
<1>1. /\ stack[t] # << >> /\ Top(t).at = "call" /\ Return(t) /\ UNCHANGED objectTable
      /\ At(t, "call") /\ Accepted(t) /\ Obj(t).lockCount > MaxNest
  BY DEF RejectNesting, Enqueueing, Dispatching, At
<1>2. PICK h : h = Top(t).handle
  OBVIOUS
<1>3. /\ FramesTyped(stack[t]) /\ Top(t) = stack[t][Len(stack[t])] /\ Obj(t) = objectTable[h]
      /\ LoneCall(stack[t], objectTable, Len(stack[t])) /\ LoneEntry(t, stack[t], objectTable, h)
      /\ Obj(t) \in Entry
  BY <1>1, <1>2, Innermost
<1>4. Obj(t).lockCount # 0
  BY <1>1, <1>3, KernelAssumption, EntryFacts
<1>5. IsOutside(stack[t], Len(stack[t]), h)
  <2> SUFFICES ASSUME ~IsOutside(stack[t], Len(stack[t]), h)
               PROVE  FALSE
    OBVIOUS
  <2>1. Cardinality(InsideCalls(stack[t], h)) = 0
    BY <1>1, <1>3, NoneInside DEF isInside
  <2> QED
    BY <1>3, <1>4, <2>1 DEF LoneEntry
<1>6. Destroying(stack[t], Top(t).handle) => Obj(t).signalled
  <2>1. Destroying(stack[t], Top(t).handle) => Top(t).msg = "destroy"
    BY <1>3 DEF Destroying
  <2>2. Top(t).msg = "destroy" => Obj(t).signalled
    BY <1>1, <1>2, <1>3, <1>4, <1>5 DEF LoneCall, MayProceed
  <2> QED
    BY <2>1, <2>2
<1> QED
  BY <1>1, <1>6, QuietReturnState

(* The one thread never waits for itself.                                  *)
LEMMA NeverWaits ==
  ASSUME LoneInv, NEW t \in Threads
  PROVE  ~BeginWait(t) /\ ~At(t, "wait")
<1>1. ~At(t, "wait")
  BY Innermost DEF At
<1>2. ~BeginWait(t)
  <2> SUFFICES ASSUME BeginWait(t)
               PROVE  FALSE
    OBVIOUS
  <2>1. /\ stack[t] # << >> /\ Top(t).at = "call" /\ Obj(t).lockCount > 0 /\ Obj(t).lockOwner # t
    BY DEF BeginWait, Enqueueing, Dispatching, At, InUseByOther, isInUse
  <2>2. LoneEntry(t, stack[t], objectTable, Top(t).handle) /\ Obj(t) = objectTable[Top(t).handle]
    BY <2>1, Innermost
  <2> QED
    BY <2>1, <2>2 DEF LoneEntry
<1> QED
  BY <1>1, <1>2

(* A destroy that is not put off comes from where its object is not in use. *)
LEMMA DestroyProceeds ==
  ASSUME LoneInv, NEW t \in Threads, Dispatching(t),
         isDestroy(Effective(t)), isInvalidState(Obj(t)) => Effective(t) = "converted"
  PROVE  /\ ~IsOutside(stack[t], Len(stack[t]), Top(t).handle)
         /\ Top(t).msg = "destroy" => /\ ~isInvalidState(Obj(t))
                                      /\ ~IsOutside(stack[t], Len(stack[t]), Obj(t).dependentObject)
         /\ Top(t).msg # "destroy" => isMaking(Top(t))
<1>1. stack[t] # << >> /\ Top(t).at = "call"
  BY DEF Dispatching, At
<1>2. PICK h : h = Top(t).handle
  OBVIOUS
<1>3. /\ Top(t) = stack[t][Len(stack[t])] /\ Obj(t) = objectTable[h]
      /\ LoneCall(stack[t], objectTable, Len(stack[t])) /\ Top(t) \in Frame
  BY <1>1, <1>2, Innermost
<1>4. CASE Top(t).msg = "destroy"
  <2>1. ~isInvalidState(Obj(t))
    BY <1>4 DEF Effective
  <2> QED
    BY <1>1, <1>2, <1>3, <1>4, <2>1 DEF LoneCall, MayProceed, isInvalidState
<1>5. CASE Top(t).msg = "ready"
  BY <1>1, <1>2, <1>3, <1>5 DEF LoneCall, KeepsObject, IsLast, isMaking
<1>6. CASE Top(t).msg \in {"use", "incref", "decref", "lock", "none"}
  BY <1>6 DEF Effective, isDestroy
<1>7. CASE Top(t).msg = "converted"
  BY <1>1, <1>3, <1>7 DEF LoneCall, MayProceed
<1> QED
  BY <1>3, <1>4, <1>5, <1>6, <1>7 DEF Frame, Messages, MayBeSent

(* An object that depends on another is being destroyed.                   *)
LEMMA ReleaseFacts ==
  ASSUME LoneKernel, LoneInv, NEW t \in Threads, Dispatching(t),
         isDestroy(Effective(t)), isInvalidState(Obj(t)) => Effective(t) = "converted",
         HasDependent(Obj(t)), NEW h, h = Top(t).handle, NEW d, d = Obj(t).dependentObject,
         NEW s, s = stack[t], NEW T, T = objectTable
  PROVE  /\ h \in Handles /\ d \in Handles /\ d # h /\ d \in Dependable /\ h \notin Dependable
         /\ T[d].dependentObject = NoHandle /\ ~isFree(T[h]) /\ ~isFree(T[d])
         /\ ~IsOutside(s, Len(s), h) /\ ~(Len(s) > MaxFrames)
         /\ \A i \in 1..(Len(s) - 1) :
              s[i].handle = d => \/ T[d].signalled
                                 \/ /\ References(T[d]) > Cardinality(Makers(s, T, i))
                                    /\ Len(s) \in Makers(s, T, i)
<1>1. stack[t] # << >> /\ Top(t).at = "call" /\ At(t, "call") /\ Accepted(t)
  BY DEF Dispatching, At
<1>2. /\ h \in Handles /\ Top(t) = s[Len(s)] /\ Obj(t) = T[h] /\ ~isFree(T[h]) /\ T[h] \in Entry
      /\ LoneEntry(t, s, T, h) /\ Len(s) \in Nat /\ Len(s) <= MaxFrames + 1
      /\ Top(t).msg # "destroy" => ~(Len(s) > MaxFrames)
  BY <1>1, CallFacts
<1>3. /\ FramesTyped(s) /\ T \in [Handles -> Entry] /\ LoneState(t, s, T) /\ LoneCall(s, T, Len(s))
      /\ Len(s) \in Nat \ {0}
  BY <1>1, Innermost
<1>4. /\ ~IsOutside(s, Len(s), h)
      /\ Top(t).msg = "destroy" => ~isInvalidState(T[h]) /\ ~IsOutside(s, Len(s), d)
      /\ Top(t).msg # "destroy" => isMaking(Top(t))
  BY <1>2, DestroyProceeds
<1>5. <<h, d>> \in Dependencies /\ d # NoHandle /\ ~isFree(T[d])
  BY <1>2 DEF HasDependent, LoneEntry
<1>6. d \in Handles /\ d # h /\ d \in Dependable /\ h \notin Dependable
  <2>1. \A p \in Dependencies : p[2] # h
    <3>1. <<h, d>>[1] = h
      OBVIOUS
    <3> QED
      BY <1>5, <3>1 DEF LoneKernel
  <2>2. <<h, d>> \in Handles \X Handles /\ <<h, d>>[2] = d
    BY <1>5, KernelAssumption
  <2> QED
    BY <1>5, <2>1, <2>2 DEF Dependable
<1>7. T[d].dependentObject = NoHandle
  <2> SUFFICES ASSUME T[d].dependentObject # NoHandle
               PROVE  FALSE
    OBVIOUS
  <2>1. LoneEntry(t, s, T, d)
    BY <1>3, <1>6 DEF LoneState
  <2>2. PICK e : e = T[d].dependentObject /\ <<d, e>> \in Dependencies
    BY <2>1 DEF LoneEntry
  <2>3. <<h, d>>[2] = d /\ <<d, e>>[1] = d
    OBVIOUS
  <2> QED
    BY <1>5, <2>2, <2>3 DEF LoneKernel
<1>8. ~(Len(s) > MaxFrames)
  <2>1. CASE Top(t).msg = "destroy"
    BY <1>1, <1>2, <1>3, <1>4, <1>5, <2>1 DEF LoneCall, DeepestDestroys, isInvalidState
  <2> QED
    BY <1>2, <2>1
<1>9. ASSUME NEW i \in 1..(Len(s) - 1), s[i].handle = d, ~T[d].signalled
      PROVE  References(T[d]) > Cardinality(Makers(s, T, i)) /\ Len(s) \in Makers(s, T, i)
  <2>1. isMaking(Top(t))
    BY <1>4, <1>9 DEF IsOutside
  <2>2. i \in 1..Len(s) /\ s[i].at \in Lasting /\ LoneCall(s, T, i) /\ Len(s) \in (i + 1)..Len(s)
    <3>1. i \in 1..Len(s) /\ Len(s) \in (i + 1)..Len(s)
      BY <1>3
    <3> QED
      BY <1>3, <3>1, OutsideLasts DEF LoneState
  <2>3. References(T[d]) > Cardinality(Makers(s, T, i))
    BY <1>6, <1>9, <2>2 DEF LoneCall, KeepsObject, Holds
  <2>4. Len(s) \in Makers(s, T, i)
    BY <1>2, <1>9, <2>1, <2>2 DEF Makers
  <2> QED
    BY <2>3, <2>4
<1> QED
  BY <1>2, <1>4, <1>5, <1>6, <1>7, <1>8, <1>9

LEMMA LastReference ==
  ASSUME NEW o \in Entry, o.intRefCount >= 0, o.extRefCount >= 0, HasRef(o, FALSE),
         ~Referenced(DropRef(o, FALSE))
  PROVE  References(o) = 1
<1>1. DropRef(o, FALSE).intRefCount = o.intRefCount - 1 /\ DropRef(o, FALSE).extRefCount = o.extRefCount
  BY DEF DropRef, Entry
<1>2. o.intRefCount > 0 /\ ~(o.intRefCount - 1 > 0) /\ ~(o.extRefCount > 0)
  BY <1>1 DEF HasRef, Referenced
<1>3. o.intRefCount \in Int /\ o.extRefCount \in Int
  BY DEF Entry
<1>4. o.intRefCount = 1 /\ o.extRefCount = 0
  BY <1>2, <1>3
<1> QED
  BY <1>4 DEF References

(* It loses the last reference to that one: the destruction of the object  *)
(* is put off for the destruction of what it depends on.                   *)
LEMMA ReleaseLastLone ==
  ASSUME LoneKernel, LoneInv, NEW t \in Threads, Dispatching(t),
         isDestroy(Effective(t)), isInvalidState(Obj(t)) => Effective(t) = "converted",
         HasDependent(Obj(t)), NEW d, d = Obj(t).dependentObject,
         HasRef(objectTable[d], FALSE), NEW p, p = DropRef(objectTable[d], FALSE), ~Referenced(p),
         SetEntry(d, p),
         NEW e \in Frame, e.at = "predep", e.handle = Top(t).handle, e.uid = Obj(t).uniqueID,
         NEW f \in Frame, f.at = "call", f.msg = "destroy", f.handle = d,
         stack' = [stack EXCEPT ![t] = Append(Append(Front(@), e), f)]
  PROVE  LoneState(t, stack'[t], objectTable')
<1>1. PICK h : h = Top(t).handle
  OBVIOUS
<1>2. PICK s : s = stack[t]
  OBVIOUS
<1>3. PICK T : T = objectTable
  OBVIOUS
<1>4. /\ h \in Handles /\ d \in Handles /\ d # h /\ d \in Dependable /\ h \notin Dependable
      /\ T[d].dependentObject = NoHandle /\ ~isFree(T[h]) /\ ~isFree(T[d])
      /\ ~IsOutside(s, Len(s), h) /\ ~(Len(s) > MaxFrames)
      /\ \A i \in 1..(Len(s) - 1) :
           s[i].handle = d => \/ T[d].signalled
                              \/ /\ References(T[d]) > Cardinality(Makers(s, T, i))
                                 /\ Len(s) \in Makers(s, T, i)
  BY <1>1, <1>2, <1>3, ReleaseFacts
<1>5. stack[t] # << >> /\ Top(t).at = "call" /\ At(t, "call") /\ Accepted(t)
  BY DEF Dispatching, At
<1>6. /\ FramesTyped(s) /\ T \in [Handles -> Entry] /\ LoneState(t, s, T) /\ s # << >>
      /\ Len(s) \in Nat \ {0} /\ LoneEntry(t, s, T, h) /\ LoneEntry(t, s, T, d)
      /\ Top(t) = s[Len(s)] /\ Top(t) \in Frame /\ Obj(t) = T[h]
  BY <1>1, <1>2, <1>3, <1>4, <1>5, Innermost DEF LoneState
<1>7. e \in Frame /\ e.at = "predep" /\ e.handle = h /\ e.uid = T[h].uniqueID
  BY <1>1, <1>6
<1>8. f \in Frame /\ f.at = "call" /\ f.handle = d /\ f.msg = "destroy" /\ ~isMaking(f) /\ f.at \notin Lasting
  BY DEF isMaking, Lasting
<1>9. PICK r : r = Append(Front(s), e)
  OBVIOUS
<1>10. /\ FramesTyped(r) /\ Len(r) = Len(s) /\ r[Len(s)] = e
       /\ \A i \in 1..(Len(s) - 1) : r[i] = s[i]
  <2>1. e.at # "create" => e.handle \in Handles
    BY <1>4, <1>7
  <2> QED
    BY <1>6, <1>7, <1>9, <2>1, ReplacedFacts
<1>11. LoneState(t, r, T)
  <2>1. LoneCall(r, T, Len(s))
    <3>1. ~IsOutside(r, Len(s), h)
      BY <1>4, <1>10 DEF IsOutside
    <3>2. KeepsObject(r, T, Len(s))
      BY <1>4, <1>7, <1>10, <3>1 DEF KeepsObject, isMaking
    <3> QED
      BY <1>4, <1>7, <1>10, <3>2 DEF LoneCall, MayProceed, DeepestDestroys
  <2>2. Cardinality(InsideCalls(r, h)) = Cardinality(InsideCalls(s, h))
    <3>1. ~isInside(s[Len(s)], h) /\ ~isInside(e, h) /\ (e.at # "create" => e.handle \in Handles)
      BY <1>4, <1>5, <1>6, <1>7 DEF isInside
    <3>2. /\ Cardinality(InsideCalls(s, h)) \in Nat
          /\ Cardinality(InsideCalls(r, h)) = Cardinality(InsideCalls(s, h)) + (IF isInside(e, h) THEN 1 ELSE 0)
      BY <1>6, <1>7, <1>9, <3>1, ReplacedCount
    <3> QED
      BY <3>1, <3>2
  <2>3. LoneEntry(t, r, T, h)
    BY <1>4, <1>6, <2>2 DEF LoneEntry
  <2>4. PICK c : c = s[Len(s)] /\ c.handle = h
    BY <1>1, <1>6
  <2>5. ~isMaking(e) /\ (c.handle = h \/ c.at = "create")
    BY <1>7, <2>4 DEF isMaking
  <2>6. \A g \in Handles : g # h => T[g] = T[g]
    OBVIOUS
  <2> QED
    BY <1>4, <1>6, <1>7, <1>9, <2>1, <2>3, <2>4, <2>5, <2>6, ReplaceState, ZenonT(60)
<1>12. PICK u : u = Append(r, f)
  OBVIOUS
<1>13. /\ FramesTyped(u) /\ Len(r) \in Nat /\ Len(u) = Len(r) + 1 /\ u[Len(u)] = f
       /\ \A i \in 1..Len(r) : u[i] = r[i]
  <2>1. FramesTyped(u)
    BY <1>4, <1>8, <1>10, <1>12, PushTyped
  <2> QED
    BY <1>10, <1>8, <1>12, <2>1, PushStack, LenProperties DEF FramesTyped
<1>14. IsOutside(u, Len(u), d) => T[d].signalled
  <2> SUFFICES ASSUME NEW i \in 1..Len(r), u[i].handle = d
               PROVE  T[d].signalled
    <3>1. Len(u) - 1 = Len(r)
      BY <1>13
    <3> QED
      BY <3>1 DEF IsOutside
  <2>1. i # Len(s)
    BY <1>4, <1>7, <1>10, <1>13
  <2>2. i \in 1..(Len(s) - 1) /\ s[i].handle = d
    BY <1>10, <1>13, <2>1
  <2>3. CASE References(T[d]) > Cardinality(Makers(s, T, i)) /\ Len(s) \in Makers(s, T, i)
    <3>1. References(T[d]) = 1
      <4>1. PICK o \in Entry : o = T[d]
        BY <1>4, <1>6
      <4>2. o.intRefCount >= 0 /\ o.extRefCount >= 0
        BY <1>6, <4>1 DEF LoneEntry
      <4>3. HasRef(o, FALSE) /\ ~Referenced(DropRef(o, FALSE))
        BY <1>3, <4>1
      <4>5. References(o) = 1
        BY <4>2, <4>3, LastReference
      <4> QED
        BY <4>1, <4>5
    <3>2. IsFiniteSet(Makers(s, T, i)) /\ Cardinality(Makers(s, T, i)) \in Nat
      BY <1>6, <2>2, MakersFinite
    <3>3. Cardinality(Makers(s, T, i)) = 0
      BY <2>3, <3>1, <3>2
    <3> QED
      BY <2>3, <3>2, <3>3, FS_EmptySet
  <2> QED
    BY <1>4, <2>2, <2>3
<1>15. LoneState(t, u, T)
  <2>1. LoneCall(u, T, Len(u))
    <3>1. KeepsObject(u, T, Len(u))
      BY <1>8, <1>13 DEF KeepsObject, Holds, IsLast, isMaking
    <3>2. ~IsOutside(u, Len(u), NoHandle)
      <4> SUFFICES ASSUME NEW i \in 1..Len(r), u[i].handle = NoHandle
                   PROVE  FALSE
        <5>1. Len(u) - 1 = Len(r)
          BY <1>13
        <5> QED
          BY <5>1 DEF IsOutside
      <4>1. i < Len(u) /\ i \in 1..(Len(u) - 1) /\ i \in 1..Len(u)
        BY <1>13
      <4>2. r[i].handle \in Handles
        <5>1. CASE i = Len(s)
          BY <1>4, <1>7, <1>10, <5>1
        <5>2. CASE i # Len(s)
          <6>1. i \in 1..(Len(s) - 1) /\ r[i] = s[i]
            BY <1>6, <1>10, <5>2
          <6> QED
            BY <1>6, <6>1, OutsideLasts DEF LoneState
        <5> QED
          BY <5>1, <5>2
      <4> QED
        BY <1>13, <4>2, KernelAssumption
    <3>3. MayProceed(u, T, Len(u))
      BY <1>4, <1>8, <1>13, <1>14, <3>2 DEF MayProceed
    <3>4. DeepestDestroys(u, T, Len(u))
      BY <1>4, <1>6, <1>8, <1>10, <1>13, KernelAssumption DEF DeepestDestroys
    <3> QED
      BY <1>8, <1>13, <3>1, <3>3, <3>4 DEF LoneCall
  <2>2. r # << >> => r[Len(r)].at \in Lasting
    BY <1>7, <1>10 DEF Lasting
  <2>3. LoneCall(u, T, Len(r) + 1) /\ (f.at # "create" => f.handle \in Handles)
    BY <1>4, <1>8, <1>13, <2>1
  <2> QED
    BY <1>6, <1>8, <1>10, <1>11, <1>12, <2>2, <2>3, PushState, ZenonT(60)
<1>16. LoneState(t, u, objectTable')
  <2>1. PICK U : U = objectTable'
    OBVIOUS
  <2>2. PICK o \in Entry : o = T[d]
    BY <1>4, <1>6
  <2>3. /\ p \in Entry /\ p.intRefCount >= 0 /\ p.extRefCount >= 0
        /\ p.uniqueID = o.uniqueID /\ p.signalled = o.signalled /\ p.notinited = o.notinited
        /\ p.lockCount = o.lockCount /\ p.lockOwner = o.lockOwner
        /\ p.dependentObject = o.dependentObject
    <3>1. o.intRefCount >= 0 /\ o.extRefCount >= 0 /\ HasRef(o, FALSE) /\ p = DropRef(o, FALSE)
      BY <1>3, <1>6, <2>2 DEF LoneEntry
    <3> QED
      BY <3>1, DropRefFacts
  <2>4. U \in [Handles -> Entry] /\ U[d] = p /\ \A g \in Handles : g # d => U[g] = T[g]
    BY <1>3, <1>4, <1>6, <2>1, <2>3 DEF SetEntry
  <2>5. u # << >> /\ Append(Front(u), f) = u
    <3>1. u # << >> /\ u \in Seq(Frame)
      BY <1>13, EmptySeq DEF FramesTyped
    <3>2. /\ Append(Front(u), f) \in Seq(Frame) /\ Len(Append(Front(u), f)) = Len(u)
          /\ \A i \in 1..(Len(u) - 1) : Append(Front(u), f)[i] = u[i]
          /\ Append(Front(u), f)[Len(u)] = f
      BY <3>1, ReplaceStack
    <3>3. \A i \in 1..Len(u) : Append(Front(u), f)[i] = u[i]
      BY <1>13, <3>2
    <3> QED
      BY <3>1, <3>2, <3>3, SeqEqual
  <2>6. IsOutside(u, Len(u), d) => Upholds(T[d], U[d])
    BY <1>4, <1>14, <2>2, <2>3, <2>4 DEF Upholds, isFree
  <2>7. LoneCall(u, U, Len(u))
    <3>1. LoneCall(u, T, Len(u))
      <4>1. Len(u) \in 1..Len(u)
        BY <1>13
      <4> QED
        BY <1>15, <4>1 DEF LoneState
    <3> QED
      BY <1>8, <1>13, <2>2, <2>3, <2>4, <3>1
         DEF LoneCall, KeepsObject, MayProceed, DeepestDestroys, Holds, IsLast, isMaking
  <2>8. LoneEntry(t, u, U, d)
    <3>1. LoneEntry(t, u, T, d)
      BY <1>4, <1>15 DEF LoneState
    <3>2. Len(u) > 0
      BY <1>13
    <3>3. Destroying(u, d)
      BY <1>8, <1>13, <3>2 DEF Destroying
    <3> QED
      BY <2>2, <2>3, <2>4, <3>1, <3>3, <1>4 DEF LoneEntry
  <2>9. PICK c : c = u[Len(u)] /\ c = f
    BY <1>13
  <2>10. isMaking(f) => \/ U[d].dependentObject = NoHandle
                        \/ isMaking(c) /\ c.handle = d /\ U[d].dependentObject = T[d].dependentObject
    BY <1>8
  <2>11. c.handle = d \/ c.at = "create"
    BY <1>8, <2>9
  <2>12. u = Append(Front(u), f) /\ d = f.handle
    BY <2>5
  <2>13. LoneState(t, u, U)
    <3>1. /\ FramesTyped(u) /\ u # << >> /\ f \in Frame /\ T \in [Handles -> Entry]
          /\ LoneState(t, u, T) /\ d \in Handles
      BY <1>4, <1>6, <1>8, <1>13, <1>15, <2>5
    <3>2. c = u[Len(u)]
      BY <2>9
    <3>3. U \in [Handles -> Entry] /\ \A g \in Handles : g # d => U[g] = T[g]
      BY <2>4
    <3> QED
      BY <2>6, <2>7, <2>8, <2>10, <2>11, <2>12, <3>1, <3>2, <3>3, ReplaceState, ZenonT(60)
  <2> QED
    BY <2>1, <2>13
<1> QED
  BY <1>2, <1>9, <1>12, <1>16, NextStack DEF LoneInv

(* It loses a reference, but not the last one.                             *)
LEMMA ReleaseSomeLone ==
  ASSUME LoneKernel, LoneInv, NEW t \in Threads, Dispatching(t),
         isDestroy(Effective(t)), isInvalidState(Obj(t)) => Effective(t) = "converted",
         HasDependent(Obj(t)), NEW d, d = Obj(t).dependentObject,
         NEW p \in Entry, p.intRefCount >= 0, p.extRefCount >= 0,
         p.uniqueID = objectTable[d].uniqueID, p.signalled = objectTable[d].signalled,
         p.notinited = objectTable[d].notinited, p.lockCount = objectTable[d].lockCount,
         p.lockOwner = objectTable[d].lockOwner, p.dependentObject = objectTable[d].dependentObject,
         \/ p = objectTable[d]
         \/ References(p) = References(objectTable[d]) - 1 /\ References(p) > 0,
         NEW q \in Entry, q.signalled, q.uniqueID = Obj(t).uniqueID, q.notinited = Obj(t).notinited,
         q.intRefCount = Obj(t).intRefCount, q.extRefCount = Obj(t).extRefCount,
         q.lockCount = Obj(t).lockCount + 1, q.lockOwner = t, q.dependentObject = NoHandle,
         NEW f \in Frame, f.at = "handler", f.handle = Top(t).handle, f.uid = Obj(t).uniqueID,
         objectTable' = [objectTable EXCEPT ![d] = p, ![Top(t).handle] = q], Replace(t, f)
  PROVE  LoneState(t, stack'[t], objectTable')
<1>1. PICK h : h = Top(t).handle
  OBVIOUS
<1>2. PICK s : s = stack[t]
  OBVIOUS
<1>3. PICK T : T = objectTable
  OBVIOUS
<1>4. /\ h \in Handles /\ d \in Handles /\ d # h /\ d \in Dependable /\ h \notin Dependable
      /\ T[d].dependentObject = NoHandle /\ ~isFree(T[h]) /\ ~isFree(T[d])
      /\ ~IsOutside(s, Len(s), h) /\ ~(Len(s) > MaxFrames)
      /\ \A i \in 1..(Len(s) - 1) :
           s[i].handle = d => \/ T[d].signalled
                              \/ /\ References(T[d]) > Cardinality(Makers(s, T, i))
                                 /\ Len(s) \in Makers(s, T, i)
  BY <1>1, <1>2, <1>3, ReleaseFacts
<1>5. stack[t] # << >> /\ Top(t).at = "call" /\ At(t, "call") /\ Accepted(t)
  BY DEF Dispatching, At
<1>6. /\ FramesTyped(s) /\ T \in [Handles -> Entry] /\ LoneState(t, s, T) /\ s # << >>
      /\ Len(s) \in Nat \ {0} /\ LoneEntry(t, s, T, h) /\ LoneEntry(t, s, T, d)
      /\ Top(t) = s[Len(s)] /\ Top(t) \in Frame /\ Obj(t) = T[h]
  BY <1>1, <1>2, <1>3, <1>4, <1>5, Innermost DEF LoneState
<1>7. PICK r : r = Append(Front(s), f)
  OBVIOUS
<1>8. /\ FramesTyped(r) /\ Len(r) = Len(s) /\ r[Len(s)] = f
      /\ \A i \in 1..(Len(s) - 1) : r[i] = s[i]
  <2>1. f.at # "create" => f.handle \in Handles
    BY <1>1, <1>4
  <2> QED
    BY <1>6, <1>7, <2>1, ReplacedFacts
<1>9. PICK U : U = objectTable'
  OBVIOUS
<1>10. /\ U \in [Handles -> Entry] /\ U[d] = p /\ U[h] = q
       /\ \A g \in Handles : g # d /\ g # h => U[g] = T[g]
  BY <1>1, <1>3, <1>4, <1>6, <1>9
<1>11. /\ p.uniqueID = T[d].uniqueID /\ p.signalled = T[d].signalled
       /\ p.notinited = T[d].notinited /\ p.lockCount = T[d].lockCount
       /\ p.lockOwner = T[d].lockOwner /\ p.dependentObject = T[d].dependentObject
       /\ p = T[d] \/ (References(p) = References(T[d]) - 1 /\ References(p) > 0)
       /\ q.signalled /\ q.uniqueID = T[h].uniqueID /\ q.notinited = T[h].notinited
       /\ q.intRefCount = T[h].intRefCount /\ q.extRefCount = T[h].extRefCount
       /\ q.lockCount = T[h].lockCount + 1 /\ q.lockOwner = t /\ q.dependentObject = NoHandle
       /\ f.handle = h /\ f.uid = T[h].uniqueID
  BY <1>1, <1>3, <1>6
<1>12. \A i \in 1..(Len(s) - 1) :
         /\ i \in 1..Len(s) /\ s[i].at \in Lasting /\ s[i].handle \in Handles /\ s[i].handle # h
         /\ ~isFree(T[s[i].handle]) /\ LoneCall(s, T, i)
  BY <1>4, <1>6, OutsideLasts DEF LoneState, IsOutside
<1>13. ASSUME NEW i \in 1..(Len(s) - 1)
       PROVE  LoneCall(r, U, i)
  <2>1. PICK g \in Handles : g = s[i].handle /\ g # h
    BY <1>12
  <2>2. Makers(r, U, i) \subseteq Makers(s, T, i) \ {Len(s)}
    <3> SUFFICES ASSUME NEW j \in (i + 1)..Len(r), isMaking(r[j]), U[r[j].handle].dependentObject = r[i].handle
                 PROVE  j \in (i + 1)..Len(s) /\ isMaking(s[j]) /\ j # Len(s)
                        /\ T[s[j].handle].dependentObject = s[i].handle
      BY DEF Makers
    <3>1. j # Len(s)
      BY <1>8 DEF isMaking
    <3>2. j \in 1..(Len(s) - 1) /\ j \in (i + 1)..Len(s)
      BY <1>6, <1>8, <3>1
    <3>3. r[j] = s[j] /\ s[j].handle \in Handles /\ s[j].handle # h /\ r[i] = s[i]
      BY <1>8, <1>12, <3>2
    <3>4. U[s[j].handle].dependentObject = T[s[j].handle].dependentObject
      BY <1>10, <1>11, <3>3
    <3> QED
      BY <3>1, <3>2, <3>3, <3>4
  <2>3. /\ IsFiniteSet(Makers(s, T, i)) /\ Cardinality(Makers(s, T, i)) \in Nat
        /\ Cardinality(Makers(r, U, i)) \in Nat
    <3>1. i \in Nat
      BY <1>6
    <3> QED
      BY <1>6, <1>8, <3>1, MakersFinite
  <2>4. Cardinality(Makers(r, U, i)) <= Cardinality(Makers(s, T, i))
    <3>1. Makers(r, U, i) \subseteq Makers(s, T, i)
      BY <2>2
    <3> QED
      BY <2>3, <3>1, FS_Subset
  <2>5. References(T[g]) \in Int /\ References(U[g]) \in Int
    BY <1>6, <1>10, ReferencesTyped
  <2>6. g \in Dependable /\ ~U[g].signalled => References(U[g]) > Cardinality(Makers(r, U, i))
    <3> SUFFICES ASSUME g \in Dependable, ~U[g].signalled
                 PROVE  References(U[g]) > Cardinality(Makers(r, U, i))
      OBVIOUS
    <3>1. CASE g = d
      <4>1. References(T[d]) > Cardinality(Makers(s, T, i)) /\ Len(s) \in Makers(s, T, i)
        BY <1>4, <1>10, <1>11, <2>1, <3>1
      <4>2. /\ IsFiniteSet(Makers(s, T, i) \ {Len(s)})
            /\ Cardinality(Makers(s, T, i) \ {Len(s)}) = Cardinality(Makers(s, T, i)) - 1
        BY <2>3, <4>1, FS_RemoveElement
      <4>3. Cardinality(Makers(r, U, i)) <= Cardinality(Makers(s, T, i)) - 1
        BY <2>2, <4>2, FS_Subset
      <4>4. References(U[g]) >= References(T[d]) - 1
        BY <1>10, <1>11, <2>5, <3>1
      <4> QED
        BY <2>3, <2>5, <3>1, <4>1, <4>3, <4>4
    <3>2. CASE g # d
      <4>1. U[g] = T[g]
        BY <1>10, <2>1, <3>2
      <4>2. References(T[g]) > Cardinality(Makers(s, T, i))
        BY <1>12, <2>1, <4>1 DEF LoneCall, KeepsObject, Holds
      <4> QED
        BY <2>3, <2>4, <2>5, <4>1, <4>2
    <3> QED
      BY <3>1, <3>2
  <2>7. /\ U[g].uniqueID = T[g].uniqueID /\ (T[g].signalled => U[g].signalled) /\ U[g].notinited = T[g].notinited
    BY <1>4, <1>10, <1>11, <1>12, <2>1 DEF isFree
  <2>8. i \in 1..Len(s) /\ i <= Len(r) /\ \A j \in 1..i : r[j] = s[j]
    BY <1>6, <1>8
  <2>9. LoneCall(s, T, i) /\ s[i].at \in Lasting /\ (isMaking(s[i]) => U[g].notinited)
    BY <1>12, <2>1, <2>7 DEF LoneCall, KeepsObject
  <2> QED
    BY <1>6, <1>8, <2>1, <2>6, <2>7, <2>8, <2>9, CallStays
<1>14. LoneCall(r, U, Len(s))
  <2>1. ~IsOutside(r, Len(s), h)
    BY <1>4, <1>8 DEF IsOutside
  <2>2. KeepsObject(r, U, Len(s))
    BY <1>4, <1>8, <1>10, <1>11, <2>1 DEF KeepsObject, isMaking, isFree
  <2> QED
    BY <1>4, <1>8, <2>2 DEF LoneCall, MayProceed, DeepestDestroys
<1>15. ASSUME NEW g \in Handles
       PROVE  LoneEntry(t, r, U, g)
  <2>1. LoneEntry(t, s, T, g) /\ ~isInside(s[Len(s)], g)
    BY <1>5, <1>6 DEF LoneState, isInside
  <2>2. /\ Cardinality(InsideCalls(s, g)) \in Nat
        /\ Cardinality(InsideCalls(r, g)) = Cardinality(InsideCalls(s, g)) + (IF isInside(f, g) THEN 1 ELSE 0)
    <3>1. f.at # "create" => f.handle \in Handles
      BY <1>4, <1>11
    <3> QED
      BY <1>6, <1>7, <2>1, <3>1, ReplacedCount
  <2>3. isInside(f, g) <=> g = h
    BY <1>11 DEF isInside
  <2>4. CASE g = h
    <3>1. Cardinality(InsideCalls(r, h)) = Cardinality(InsideCalls(s, h)) + 1
      BY <2>2, <2>3, <2>4
    <3> QED
      BY <1>4, <1>10, <1>11, <2>1, <2>4, <3>1 DEF LoneEntry
  <2>5. CASE g # h
    <3>1. Cardinality(InsideCalls(r, g)) = Cardinality(InsideCalls(s, g))
      BY <2>2, <2>3, <2>5
    <3>2. ~Destroying(s, g)
      BY <1>1, <1>6, <2>5 DEF Destroying
    <3>3. CASE g = d
      <4>1. T[d].signalled \/ References(p) > 0
        BY <1>4, <1>11, <2>1, <3>2, <3>3 DEF LoneEntry
      <4> QED
        BY <1>4, <1>10, <1>11, <2>1, <3>1, <3>3, <4>1 DEF LoneEntry
    <3>4. CASE g # d
      BY <1>10, <2>1, <2>5, <3>1, <3>2, <3>4 DEF LoneEntry
    <3> QED
      BY <3>3, <3>4
  <2> QED
    BY <2>4, <2>5
<1>16. \A i \in 1..Len(r) : LoneCall(r, U, i)
  <2>1. \A i \in 1..Len(r) : i \in 1..(Len(s) - 1) \/ i = Len(s)
    BY <1>6, <1>8
  <2> QED
    BY <1>13, <1>14, <2>1
<1>17. LoneState(t, r, U)
  BY <1>15, <1>16 DEF LoneState
<1> QED
  BY <1>2, <1>7, <1>9, <1>17, NextStack DEF LoneInv

LEMMA ReleaseDependentLone ==
  ASSUME LoneKernel, LoneInv, NEW t \in Threads, Dispatching(t),
         isDestroy(Effective(t)), isInvalidState(Obj(t)) => Effective(t) = "converted",
         HasDependent(Obj(t)), ReleaseDependent(t, Obj(t))
  PROVE  LoneState(t, stack'[t], objectTable')
<1>1. PICK d : d = Obj(t).dependentObject
  OBVIOUS
<1>2. stack[t] # << >> /\ Top(t).at = "call" /\ At(t, "call") /\ Accepted(t)
  BY DEF Dispatching, At
<1>3. /\ Top(t) \in Frame /\ Top(t).handle \in Handles /\ Obj(t) \in Entry /\ Obj(t) = objectTable[Top(t).handle]
      /\ objectTable \in [Handles -> Entry] /\ LoneState(t, stack[t], objectTable)
      /\ Effective(t) \in Messages
  BY <1>2, Innermost, InCall DEF LoneInv
<1>4. d \in Handles /\ d # Top(t).handle
  <2>1. d # Top(t).handle /\ d \in Handles
    BY <1>1, ReleaseFacts
  <2> QED
    BY <2>1
<1>5. PICK b \in Entry : b = objectTable[d]
  BY <1>3, <1>4
<1>6. b.intRefCount >= 0 /\ b.extRefCount >= 0
  BY <1>3, <1>4, <1>5 DEF LoneState, LoneEntry
<1>7. PICK c \in Entry : c = Obj(t)
  BY <1>3
<1>8. CASE HasRef(b, FALSE) /\ ~Referenced(DropRef(b, FALSE))
  <2>1. PICK e : e = [Top(t) EXCEPT !.at = "predep", !.uid = c.uniqueID, !.msg = Effective(t), !.other = d]
    OBVIOUS
  <2>2. e \in Frame /\ e.at = "predep" /\ e.handle = Top(t).handle /\ e.uid = Obj(t).uniqueID
    <3>1. c.uniqueID \in Nat
      BY DEF Entry
    <3> QED
      BY <1>3, <1>4, <1>7, <2>1, <3>1 DEF Frame, Places
  <2>3. PICK f : f = NewFrame("call", d, 0, "destroy")
    OBVIOUS
  <2>4. f \in Frame /\ f.at = "call" /\ f.msg = "destroy" /\ f.handle = d
    BY <1>4, <2>3, NewFrameTyped DEF NewFrame, Places, Messages
  <2>5. PICK p : p = DropRef(objectTable[d], FALSE)
    OBVIOUS
  <2>6. /\ SetEntry(d, p)
        /\ stack' = [stack EXCEPT ![t] = Append(Append(Front(@), e), f)]
    BY <1>1, <1>5, <1>7, <1>8, <2>1, <2>3, <2>5 DEF ReleaseDependent
  <2>7. HasRef(objectTable[d], FALSE) /\ ~Referenced(p)
    BY <1>5, <1>8, <2>5
  <2> QED
    BY <1>1, <2>2, <2>4, <2>5, <2>6, <2>7, ReleaseLastLone, ZenonT(60)
<1>9. CASE ~(HasRef(b, FALSE) /\ ~Referenced(DropRef(b, FALSE)))
  <2>1. PICK p : p = IF HasRef(b, FALSE) THEN DropRef(b, FALSE) ELSE b
    OBVIOUS
  <2>2. /\ p \in Entry /\ p.intRefCount >= 0 /\ p.extRefCount >= 0
        /\ p.uniqueID = b.uniqueID /\ p.signalled = b.signalled /\ p.notinited = b.notinited
        /\ p.lockCount = b.lockCount /\ p.lockOwner = b.lockOwner
        /\ p.dependentObject = b.dependentObject
        /\ p = b \/ (References(p) = References(b) - 1 /\ References(p) > 0)
    <3>1. CASE HasRef(b, FALSE)
      <4>1. p = DropRef(b, FALSE) /\ Referenced(p)
        BY <1>9, <2>1, <3>1
      <4> QED
        BY <1>6, <3>1, <4>1, DropRefFacts
    <3>2. CASE ~HasRef(b, FALSE)
      BY <1>6, <2>1, <3>2
    <3> QED
      BY <3>1, <3>2
  <2>3. PICK q : q = [Signal(c) EXCEPT !.dependentObject = NoHandle, !.lockCount = @ + 1, !.lockOwner = t]
    OBVIOUS
  <2>4. /\ q \in Entry /\ q.signalled /\ q.uniqueID = c.uniqueID /\ q.notinited = c.notinited
        /\ q.intRefCount = c.intRefCount /\ q.extRefCount = c.extRefCount
        /\ q.lockCount = c.lockCount + 1 /\ q.lockOwner = t /\ q.dependentObject = NoHandle
    <3>1. PICK i \in Int : i = c.lockCount + 1
      BY EntryFacts
    <3>2. PICK a \in Entry : a = Signal(c)
      BY SignalTyped
    <3>3. /\ a.signalled /\ a.uniqueID = c.uniqueID /\ a.notinited = c.notinited
          /\ a.intRefCount = c.intRefCount /\ a.extRefCount = c.extRefCount
          /\ a.lockCount = c.lockCount
      BY <3>2 DEF Signal, Entry
    <3>4. q = [a EXCEPT !.dependentObject = NoHandle, !.lockCount = i, !.lockOwner = t]
      BY <2>3, <3>1, <3>2, <3>3
    <3> QED
      BY <3>1, <3>3, <3>4 DEF Entry
  <2>5. PICK f : f = [NewFrame("handler", Top(t).handle, c.uniqueID, Effective(t)) EXCEPT !.n = c.lockCount]
    OBVIOUS
  <2>6. f \in Frame /\ f.at = "handler" /\ f.handle = Top(t).handle /\ f.uid = Obj(t).uniqueID
    <3>1. PICK g : g = NewFrame("handler", Top(t).handle, c.uniqueID, Effective(t))
      OBVIOUS
    <3>2. g \in Frame /\ g.at = "handler" /\ g.handle = Top(t).handle /\ g.uid = c.uniqueID
      <4>1. c.uniqueID \in Nat
        BY DEF Entry
      <4> QED
        BY <1>3, <3>1, <4>1, NewFrameTyped DEF NewFrame, Places
    <3>3. PICK i \in Int : i = c.lockCount
      BY EntryFacts
    <3> QED
      BY <1>7, <2>5, <3>1, <3>2, <3>3 DEF Frame
  <2>7. /\ objectTable' = [objectTable EXCEPT ![d] = p, ![Top(t).handle] = q]
        /\ Replace(t, f)
    BY <1>1, <1>5, <1>7, <1>9, <2>1, <2>3, <2>5 DEF ReleaseDependent
  <2>8. /\ p.uniqueID = objectTable[d].uniqueID /\ p.signalled = objectTable[d].signalled
        /\ p.notinited = objectTable[d].notinited /\ p.lockCount = objectTable[d].lockCount
        /\ p.lockOwner = objectTable[d].lockOwner /\ p.dependentObject = objectTable[d].dependentObject
        /\ \/ p = objectTable[d]
           \/ References(p) = References(objectTable[d]) - 1 /\ References(p) > 0
        /\ p \in Entry /\ p.intRefCount >= 0 /\ p.extRefCount >= 0
    BY <1>5, <2>2
  <2>9. /\ q.signalled /\ q.uniqueID = Obj(t).uniqueID /\ q.notinited = Obj(t).notinited
        /\ q.intRefCount = Obj(t).intRefCount /\ q.extRefCount = Obj(t).extRefCount
        /\ q.lockCount = Obj(t).lockCount + 1 /\ q.lockOwner = t /\ q.dependentObject = NoHandle
        /\ q \in Entry
    BY <1>7, <2>4
  <2> QED
    BY <1>1, <2>6, <2>7, <2>8, <2>9, ReleaseSomeLone, ZenonT(60)
<1> QED
  BY <1>8, <1>9

LEMMA DispatchQueuedLone ==
  ASSUME LoneKernel, LoneInv, NEW t \in Threads, DispatchQueued(t)
  PROVE  LoneState(t, stack'[t], objectTable')
<1>1. /\ Dispatching(t) /\ stack[t] # << >> /\ Top(t).at = "call" /\ At(t, "call") /\ Accepted(t)
      /\ Process(t)
  BY DEF DispatchQueued, Enqueueing, Dispatching, At
<1>2. PICK h : h = Top(t).handle
  OBVIOUS
<1>3. PICK p \in Entry : p = Obj(t)
  BY <1>1, CallFacts
<1>4. PICK m \in Messages : m = Effective(t)
  BY <1>1, InCall DEF LoneInv
<1>5. /\ h \in Handles /\ p = objectTable[h] /\ p.intRefCount >= 0 /\ p.extRefCount >= 0 /\ ~isFree(p)
      /\ Top(t) = stack[t][Len(stack[t])] /\ LoneEntry(t, stack[t], objectTable, h)
      /\ Top(t).msg # "destroy" => Settled(h, p)
  BY <1>1, <1>2, <1>3, CallFacts
<1>6. CASE Return(t) /\ SetEntry(Top(t).handle, Signal(Obj(t)))
  <2>1. PICK o : o = Signal(p)
    OBVIOUS
  <2>2. /\ o \in Entry /\ o.signalled /\ o.uniqueID = p.uniqueID /\ o.notinited = p.notinited
        /\ o.intRefCount = p.intRefCount /\ o.extRefCount = p.extRefCount
        /\ o.lockCount = p.lockCount /\ o.lockOwner = p.lockOwner
        /\ o.dependentObject = p.dependentObject
    BY <2>1, SignalTyped DEF Signal, Entry
  <2>3. References(o) >= References(p)
    <3>1. References(o) = References(p) /\ References(p) \in Int
      BY <2>2, ReferencesTyped DEF References
    <3> QED
      BY <3>1
  <2>4. /\ SetEntry(h, o) /\ Top(t).at \notin {"create", "handler", "locked"}
        /\ o.intRefCount >= 0 /\ o.extRefCount >= 0
    BY <1>1, <1>2, <1>3, <1>5, <1>6, <2>1, <2>2
  <2> QED
    BY <1>1, <1>2, <1>3, <1>6, <2>2, <2>3, <2>4, UpdateReturnState, ZenonT(60)
<1>7. CASE /\ Return(t) /\ UNCHANGED objectTable
           /\ isInvalidState(p) /\ ~(m = "destroy" /\ p.notinited)
  <2>1. Destroying(stack[t], Top(t).handle) => Top(t).msg = "destroy"
    BY <1>5 DEF Destroying
  <2>2. Top(t).msg = "destroy" => p.signalled
    BY <1>3, <1>4, <1>7 DEF Effective, isInvalidState
  <2> QED
    BY <1>1, <1>3, <1>7, <2>1, <2>2, QuietReturnState
<1>8. CASE m = "use" /\ EnterHandler(t, Obj(t), Obj(t).uniqueID, m)
  <2>1. PICK uid \in Nat : uid = p.uniqueID
    BY DEF Entry
  <2>2. Settled(h, p)
    BY <1>4, <1>5, <1>8 DEF Effective
  <2>3. EnterHandler(t, p, uid, m) /\ ~isDestroy(m)
    BY <1>3, <1>8, <2>1 DEF isDestroy
  <2> QED
    BY <1>1, <1>2, <1>5, <2>1, <2>2, <2>3, EnterHandlerState, ZenonT(60)
<1>9. CASE isDestroy(m) /\ (isInvalidState(p) => m = "converted")
  <2>1. ~IsOutside(stack[t], Len(stack[t]), h)
    BY <1>1, <1>2, <1>3, <1>4, <1>9, DestroyProceeds
  <2>2. CASE HasDependent(p)
    <3>1. ReleaseDependent(t, Obj(t)) /\ HasDependent(Obj(t))
      BY <1>1, <1>3, <1>4, <1>9, <2>2 DEF Process, isDestroy
    <3> QED
      BY <1>1, <1>3, <1>4, <1>9, <3>1, ReleaseDependentLone
  <2>3. CASE ~HasDependent(p)
    <3>1. PICK q : q = Signal(p)
      OBVIOUS
    <3>2. /\ q \in Entry /\ q.signalled /\ q.uniqueID = p.uniqueID /\ q.notinited = p.notinited
          /\ q.intRefCount = p.intRefCount /\ q.extRefCount = p.extRefCount
          /\ q.lockCount = p.lockCount /\ q.dependentObject = p.dependentObject
      BY <3>1, SignalTyped DEF Signal, Entry
    <3>3. PICK uid \in Nat : uid = p.uniqueID
      BY DEF Entry
    <3>4. EnterHandler(t, q, uid, m)
      BY <1>1, <1>3, <1>4, <1>9, <2>3, <3>1, <3>3 DEF Process, isDestroy
    <3>5. Settled(h, q)
      BY <1>5, <3>2 DEF Settled, LoneEntry, isFree
    <3>6. /\ Top(t).at \in {"call", "predep"} /\ (p.signalled => q.signalled)
          /\ isDestroy(m) => ~IsOutside(stack[t], Len(stack[t]), h) /\ q.signalled
          /\ stack[t] # << >> /\ ~isFree(p)
      BY <1>1, <1>5, <2>1, <3>2
    <3>7. \/ q.dependentObject = p.dependentObject
          \/ q.dependentObject = NoHandle /\ ~IsOutside(stack[t], Len(stack[t]), h)
      BY <3>2
    <3>8. h \in Handles /\ p = objectTable[h]
      BY <1>5
    <3> QED
      BY <1>2, <3>2, <3>3, <3>4, <3>5, <3>6, <3>7, <3>8, EnterHandlerState, ZenonT(60)
  <2> QED
    BY <2>2, <2>3
<1> QED
  BY <1>1, <1>3, <1>4, <1>6, <1>7, <1>8, <1>9 DEF Process

LEMMA FailDependentLone ==
  ASSUME LoneInv, NEW t \in Threads, FailDependent(t)
  PROVE  LoneState(t, stack'[t], objectTable')
<1>1. stack[t] # << >> /\ Top(t).at = "setdep" /\ Return(t) /\ UNCHANGED objectTable
  BY DEF FailDependent, At
<1>2. ~Destroying(stack[t], Top(t).handle)
  BY <1>1, Innermost DEF Destroying
<1> QED
  BY <1>1, <1>2, QuietReturnState

(* Of the calls for an object, one at most is making it.                   *)
LEMMA OneMaker ==
  ASSUME NEW s, FramesTyped(s), NEW T, \A i \in 1..Len(s) : LoneCall(s, T, i),
         NEW i \in 1..Len(s), isMaking(s[i]), NEW j \in 1..Len(s), isMaking(s[j]),
         s[i].handle = s[j].handle
  PROVE  i = j
<1>1. Len(s) \in Nat /\ ~IsOutside(s, i, s[i].handle) /\ ~IsOutside(s, j, s[i].handle)
  BY LenProperties DEF FramesTyped, LoneCall, KeepsObject, IsLast
<1>2. ~(j < i) /\ ~(i < j)
  BY <1>1 DEF IsOutside
<1> QED
  BY <1>1, <1>2

LEMMA FinishDependentLone ==
  ASSUME LoneKernel, LoneInv, NEW t \in Threads, FinishDependent(t)
  PROVE  LoneState(t, stack'[t], objectTable')
<1>1. PICK h : h = Top(t).handle
  OBVIOUS
<1>2. PICK d : d = Top(t).other
  OBVIOUS
<1>3. PICK n : n = Top(t).n
  OBVIOUS
<1>4. PICK s : s = stack[t]
  OBVIOUS
<1>5. PICK T : T = objectTable
  OBVIOUS
<1>6. stack[t] # << >> /\ Top(t).at = "setdep" /\ Return(t)
  BY DEF FinishDependent, At
<1>7. /\ FramesTyped(s) /\ T \in [Handles -> Entry] /\ LoneState(t, s, T) /\ s # << >>
      /\ Len(s) \in Nat \ {0} /\ LoneEntry(t, s, T, h) /\ Top(t) = s[Len(s)] /\ h \in Handles
      /\ LoneCall(s, T, Len(s))
  BY <1>1, <1>4, <1>5, <1>6, Innermost
<1>8. /\ <<h, d>> \in Dependencies /\ n \in {0, 1} /\ ~isFree(T[h])
      /\ n = 0 => ~IsOutside(s, Len(s), d)
  BY <1>1, <1>2, <1>3, <1>6, <1>7 DEF LoneCall, MayProceed
<1>9. d \in Handles /\ d # h
  BY <1>7, <1>8, KernelAssumption
<1>10. PICK U : U = objectTable'
  OBVIOUS
<1>11. PICK p : p = [T[d] EXCEPT !.intRefCount = @ + n]
  OBVIOUS
<1>12. PICK q : q = [T[h] EXCEPT !.dependentObject = d]
  OBVIOUS
<1>13. U = [T EXCEPT ![d] = p, ![h] = q] /\ (n = 1 => ~isFree(T[d]))
  <2>1. U = [T EXCEPT ![d].intRefCount = @ + n, ![h].dependentObject = d] /\ (n = 1 => ~isFree(T[d]))
    BY <1>1, <1>2, <1>3, <1>5, <1>10 DEF FinishDependent
  <2> QED
    BY <1>7, <1>9, <1>11, <1>12, <2>1
<1>14. /\ p \in Entry /\ p.intRefCount = T[d].intRefCount + n /\ p.extRefCount = T[d].extRefCount
       /\ p.uniqueID = T[d].uniqueID /\ p.signalled = T[d].signalled /\ p.notinited = T[d].notinited
       /\ p.lockCount = T[d].lockCount /\ p.lockOwner = T[d].lockOwner
       /\ p.dependentObject = T[d].dependentObject
  BY <1>7, <1>8, <1>9, <1>11 DEF Entry
<1>15. /\ q \in Entry /\ q.intRefCount = T[h].intRefCount /\ q.extRefCount = T[h].extRefCount
       /\ q.uniqueID = T[h].uniqueID /\ q.signalled = T[h].signalled /\ q.notinited = T[h].notinited
       /\ q.lockCount = T[h].lockCount /\ q.lockOwner = T[h].lockOwner
       /\ q.dependentObject = d
  BY <1>7, <1>9, <1>12 DEF Entry
<1>16. /\ U \in [Handles -> Entry] /\ U[d] = p /\ U[h] = q
       /\ \A g \in Handles : g # d /\ g # h => U[g] = T[g]
  BY <1>7, <1>9, <1>13, <1>14, <1>15
<1>17. PICK r : r = Front(s)
  OBVIOUS
<1>18. /\ FramesTyped(r) /\ Len(r) = Len(s) - 1 /\ Len(s) = Len(r) + 1 /\ Len(r) \in Nat
       /\ \A i \in 1..Len(r) : s[i] = r[i]
  BY <1>7, <1>17, FrontFacts, LenProperties DEF FramesTyped
<1>19. \A i \in 1..Len(r) :
         /\ i \in 1..Len(s) /\ i \in 1..(Len(s) - 1) /\ s[i].at \in Lasting /\ s[i].handle \in Handles
         /\ ~isFree(T[s[i].handle]) /\ LoneCall(s, T, i)
  BY <1>7, <1>18, OutsideLasts DEF LoneState
<1>20. /\ References(T[h]) \in Int /\ References(T[d]) \in Int
       /\ References(q) = References(T[h]) /\ References(p) = References(T[d]) + n
  BY <1>7, <1>8, <1>9, <1>14, <1>15, EntryFacts DEF References
<1>21. ASSUME NEW i \in 1..Len(r)
       PROVE  LoneCall(r, U, i)
  <2>1. PICK g \in Handles : g = s[i].handle
    BY <1>19
  <2>2. ASSUME NEW j \in Makers(r, U, i), s[j].handle # h \/ g # d
        PROVE  j \in Makers(s, T, i)
    <3>1. /\ j \in (i + 1)..Len(r) /\ isMaking(r[j]) /\ U[r[j].handle].dependentObject = r[i].handle
      BY DEF Makers
    <3>2. j \in 1..Len(r) /\ j \in (i + 1)..Len(s)
      BY <1>18, <3>1
    <3>3. r[j] = s[j] /\ r[i] = s[i] /\ s[j].handle \in Handles
      BY <1>18, <1>19, <3>2
    <3>4. s[j].handle # h
      BY <1>15, <1>16, <2>1, <2>2, <3>1, <3>3
    <3>5. T[s[j].handle].dependentObject = s[i].handle
      BY <1>14, <1>16, <3>1, <3>3, <3>4
    <3> QED
      BY <3>1, <3>2, <3>3, <3>5 DEF Makers
  <2>3. /\ IsFiniteSet(Makers(s, T, i)) /\ Cardinality(Makers(s, T, i)) \in Nat
        /\ IsFiniteSet(Makers(r, U, i)) /\ Cardinality(Makers(r, U, i)) \in Nat
    <3>1. i \in Nat
      BY <1>18
    <3> QED
      BY <1>7, <1>18, <3>1, MakersFinite
  <2>4. References(T[g]) \in Int /\ References(U[g]) \in Int
    BY <1>7, <1>16, ReferencesTyped
  <2>5. g \in Dependable /\ ~U[g].signalled => References(U[g]) > Cardinality(Makers(r, U, i))
    <3> SUFFICES ASSUME g \in Dependable, ~U[g].signalled
                 PROVE  References(U[g]) > Cardinality(Makers(r, U, i))
      OBVIOUS
    <3>1. ~T[g].signalled
      BY <1>14, <1>15, <1>16
    <3>2. References(T[g]) > Cardinality(Makers(s, T, i))
      BY <1>19, <2>1, <3>1 DEF LoneCall, KeepsObject, Holds
    <3>3. CASE g # d
      <4>1. Makers(r, U, i) \subseteq Makers(s, T, i)
        BY <2>2, <3>3
      <4>2. Cardinality(Makers(r, U, i)) <= Cardinality(Makers(s, T, i))
        BY <2>3, <4>1, FS_Subset
      <4>3. References(U[g]) = References(T[g])
        BY <1>16, <1>20, <3>3
      <4> QED
        BY <2>3, <2>4, <3>2, <4>2, <4>3
    <3>4. CASE g = d
      <4>1. n = 1
        <5>1. IsOutside(s, Len(s), d)
          BY <1>19, <2>1, <3>4 DEF IsOutside
        <5> QED
          BY <1>8, <5>1
      <4>2. References(U[g]) = References(T[g]) + 1
        BY <1>16, <1>20, <3>4, <4>1
      <4>3. Cardinality(Makers(r, U, i)) <= Cardinality(Makers(s, T, i)) + 1
        <5>1. CASE \E k \in Makers(r, U, i) : s[k].handle = h
          <6>1. PICK k \in Makers(r, U, i) : s[k].handle = h
            BY <5>1
          <6>2. ASSUME NEW j \in Makers(r, U, i), j # k
                PROVE  s[j].handle # h
            <7>1. /\ j \in (i + 1)..Len(r) /\ isMaking(r[j])
                  /\ k \in (i + 1)..Len(r) /\ isMaking(r[k])
              BY DEF Makers
            <7>2. /\ j \in 1..Len(r) /\ k \in 1..Len(r)
              BY <1>18, <7>1
            <7>3. j \in 1..Len(s) /\ isMaking(s[j]) /\ k \in 1..Len(s) /\ isMaking(s[k])
              BY <1>18, <7>1, <7>2
            <7> QED
              BY <1>7, <6>1, <6>2, <7>3, OneMaker DEF LoneState
          <6>3. Makers(r, U, i) \ {k} \subseteq Makers(s, T, i)
            BY <2>2, <6>2
          <6>4. Cardinality(Makers(r, U, i) \ {k}) <= Cardinality(Makers(s, T, i))
            BY <2>3, <6>3, FS_Subset
          <6>5. Cardinality(Makers(r, U, i) \ {k}) = Cardinality(Makers(r, U, i)) - 1
            BY <2>3, <6>1, FS_RemoveElement
          <6> QED
            BY <2>3, <6>4, <6>5
        <5>2. CASE \A k \in Makers(r, U, i) : s[k].handle # h
          <6>1. Makers(r, U, i) \subseteq Makers(s, T, i)
            BY <2>2, <5>2
          <6>2. Cardinality(Makers(r, U, i)) <= Cardinality(Makers(s, T, i))
            BY <2>3, <6>1, FS_Subset
          <6> QED
            BY <2>3, <6>2
        <5> QED
          BY <5>1, <5>2
      <4> QED
        BY <2>3, <2>4, <3>2, <4>2, <4>3
    <3> QED
      BY <3>3, <3>4
  <2>6. /\ U[g].uniqueID = T[g].uniqueID /\ (T[g].signalled => U[g].signalled) /\ U[g].notinited = T[g].notinited
    BY <1>14, <1>15, <1>16, <1>19, <2>1 DEF isFree
  <2>7. i \in 1..Len(s) /\ i <= Len(r) /\ \A j \in 1..i : r[j] = s[j]
    BY <1>18
  <2>8. LoneCall(s, T, i) /\ s[i].at \in Lasting /\ (isMaking(s[i]) => U[g].notinited)
    BY <1>19, <2>1, <2>6 DEF LoneCall, KeepsObject
  <2> QED
    BY <1>7, <1>18, <2>1, <2>5, <2>6, <2>7, <2>8, CallStays
<1>22. ASSUME NEW g \in Handles
       PROVE  LoneEntry(t, r, U, g)
  <2>1. LoneEntry(t, s, T, g) /\ ~isInside(s[Len(s)], g) /\ ~Destroying(s, g)
    BY <1>6, <1>7 DEF LoneState, isInside, Destroying
  <2>2. InsideCalls(s, g) = InsideCalls(r, g)
    BY <1>7, <1>18, <2>1, OneMoreInside
  <2>3. CASE g = h
    <3>1. ~isFree(q)
      BY <1>8, <1>15 DEF isFree
    <3> QED
      BY <1>8, <1>15, <1>16, <1>20, <2>1, <2>2, <2>3, <3>1 DEF LoneEntry, isFree
  <2>4. CASE g = d
    <3>1. p.intRefCount >= 0
      BY <1>7, <1>8, <1>9, <1>14, <2>1, <2>4, EntryFacts DEF LoneEntry
    <3>2. T[d].signalled \/ References(T[d]) > 0 => p.signalled \/ References(p) > 0
      BY <1>8, <1>14, <1>20
    <3> QED
      BY <1>14, <1>16, <2>1, <2>2, <2>4, <3>1, <3>2 DEF LoneEntry, isFree
  <2>5. CASE g # h /\ g # d
    BY <1>16, <2>1, <2>2, <2>5 DEF LoneEntry
  <2> QED
    BY <2>3, <2>4, <2>5
<1>23. LoneState(t, r, U)
  BY <1>21, <1>22 DEF LoneState
<1> QED
  BY <1>4, <1>6, <1>10, <1>17, <1>23, NextStack DEF LoneInv

LEMMA LoneInit == Init => LoneInv
<1> SUFFICES ASSUME Init
             PROVE  LoneInv
  OBVIOUS
<1>1. TypeOK /\ ~shutdown
  BY TypeInit DEF Init
<1>2. ASSUME NEW t \in Threads
      PROVE  LoneState(t, stack[t], objectTable)
  <2>1. stack[t] = << >> /\ \A h \in Handles : objectTable[h] = FreeEntry
    BY DEF Init
  <2>2. Len(stack[t]) = 0
    BY <2>1, EmptySeq
  <2>3. \A h \in Handles : InsideCalls(stack[t], h) = {}
    BY <2>2 DEF InsideCalls
  <2>4. \A h \in Handles : LoneEntry(t, stack[t], objectTable, h)
    <3> SUFFICES ASSUME NEW h \in Handles
                 PROVE  LoneEntry(t, stack[t], objectTable, h)
      OBVIOUS
    <3>1. PICK o : o = objectTable[h]
      OBVIOUS
    <3>2. /\ o.lockCount = 0 /\ o.intRefCount = 0 /\ o.extRefCount = 0
          /\ o.dependentObject = NoHandle /\ isFree(o)
      BY <2>1, <3>1 DEF FreeEntry, isFree
    <3>3. Cardinality(InsideCalls(stack[t], h)) = 0
      BY <2>3, FS_EmptySet
    <3> QED
      BY <3>1, <3>2, <3>3 DEF LoneEntry
  <2> QED
    BY <2>2, <2>4 DEF LoneState
<1> QED
  BY <1>1, <1>2 DEF LoneInv

LEMMA LoneStep ==
  ASSUME LoneKernel, LoneInv, NEW t \in Threads, Begin(t) \/ Finish(t) \/ Kernel(t)
  PROVE  LoneState(t, stack'[t], objectTable') /\ shutdown' = shutdown
<1>1. shutdown' = shutdown
  BY NeverWaits DEF Begin, Finish, Kernel, BeginCreate, FailInit, Send, SetDependent, HandlerReturn,
     CompleteInit, UnlockObject, RejectCreate, EnterObject, Publish, RejectHandle, IncRef, DecRef, Ready,
     LockObject, DispatchDirect, RejectNesting, DispatchQueued, KeepWaiting, AbandonWait, EndWait,
     ResumeDestroy, FailDependent, FinishDependent
<1>2. ASSUME Begin(t)
      PROVE  LoneState(t, stack'[t], objectTable')
  <2>1. CASE BeginCreate(t) \/ FailInit(t)
    BY <2>1, BeginCreateLone, FailInitLone
  <2>2. CASE \E h \in Handles, m \in MayBeSent : Send(t, h, m)
    BY <2>2, SendLone
  <2>3. CASE \E h, d \in Handles, inc \in BOOLEAN : SetDependent(t, h, d, inc)
    BY <2>3, SetDependentLone
  <2> QED
    BY <1>2, <2>1, <2>2, <2>3 DEF Begin
<1>3. ASSUME Finish(t)
      PROVE  LoneState(t, stack'[t], objectTable')
  BY <1>3, HandlerReturnLone, CompleteInitLone, UnlockObjectLone DEF Finish
<1>4. ASSUME Kernel(t)
      PROVE  LoneState(t, stack'[t], objectTable')
  <2>1. ~BeginWait(t) /\ ~KeepWaiting(t) /\ ~AbandonWait(t) /\ ~EndWait(t)
    BY NeverWaits DEF KeepWaiting, AbandonWait, EndWait
  <2>2. CASE RejectCreate(t) \/ Publish(t) \/ \E h \in Handles : EnterObject(t, h)
    BY <2>2, RejectCreateLone, EnterObjectLone, PublishLone
  <2>3. CASE RejectHandle(t) \/ IncRef(t) \/ DecRef(t) \/ Ready(t) \/ LockObject(t)
    BY <2>3, RejectHandleLone, IncRefLone, DecRefLone, ReadyLone, LockObjectLone
  <2>4. CASE DispatchDirect(t) \/ RejectNesting(t) \/ DispatchQueued(t)
    BY <2>4, DispatchDirectLone, RejectNestingLone, DispatchQueuedLone
  <2>5. CASE ResumeDestroy(t) \/ FailDependent(t) \/ FinishDependent(t)
    BY <2>5, ResumeDestroyLone, FailDependentLone, FinishDependentLone
  <2> QED
    BY <1>4, <2>1, <2>2, <2>3, <2>4, <2>5 DEF Kernel
<1> QED
  BY <1>1, <1>2, <1>3, <1>4

LEMMA LoneNext == ASSUME LoneKernel PROVE LoneInv /\ [Next]_vars => LoneInv'
<1> SUFFICES ASSUME LoneInv, [Next]_vars
             PROVE  LoneInv'
  OBVIOUS
<1>1. TypeOK'
  BY TypeNext DEF LoneInv
<1>2. CASE UNCHANGED vars
  BY <1>1, <1>2 DEF vars, LoneInv
<1>3. ~BeginShutdown
  BY DEF LoneKernel, BeginShutdown
<1>4. ASSUME NEW t \in Threads, Begin(t) \/ Finish(t) \/ Kernel(t)
      PROVE  LoneInv'
  <2>1. \A u \in Threads : u = t
    BY DEF LoneKernel
  <2>2. LoneState(t, stack'[t], objectTable') /\ shutdown' = shutdown
    BY <1>4, LoneStep
  <2> QED
    BY <1>1, <2>1, <2>2 DEF LoneInv
<1> QED
  BY <1>2, <1>3, <1>4 DEF Next

LEMMA LoneInvGivesCount ==
  ASSUME LoneKernel, LoneInv
  PROVE  LockCountExact
<1> SUFFICES ASSUME NEW h \in Handles
             PROVE  objectTable[h].lockCount =
                      Cardinality({p \in Threads \X (1..MaxDepth) :
                        p[2] <= Len(stack[p[1]]) /\ isInside(stack[p[1]][p[2]], h)})
  BY DEF LockCountExact
<1> DEFINE inside == {p \in Threads \X (1..MaxDepth) :
                        p[2] <= Len(stack[p[1]]) /\ isInside(stack[p[1]][p[2]], h)}
<1>1. PICK t \in Threads : Threads = {t}
  BY DEF LoneKernel
<1>2. /\ LoneState(t, stack[t], objectTable) /\ FramesTyped(stack[t])
      /\ LoneEntry(t, stack[t], objectTable, h)
  BY TypeOKSplit DEF LoneInv, StacksTyped, LoneState
<1>3. Len(stack[t]) \in Nat /\ MaxDepth \in Nat /\ Len(stack[t]) <= MaxDepth
  <2>1. Len(stack[t]) \in Nat /\ MaxFrames \in Nat
    BY <1>2, LenProperties, KernelAssumption DEF FramesTyped
  <2>2. Cardinality(Dependencies) \in Nat
    BY FS_CardinalityType DEF LoneKernel
  <2>3. MaxDepth \in Nat /\ MaxFrames + 1 <= MaxDepth
    BY <2>1, <2>2 DEF MaxDepth
  <2>4. Len(stack[t]) <= MaxFrames + 1
    <3>1. CASE Len(stack[t]) = 0
      BY <2>1, <3>1
    <3>2. CASE Len(stack[t]) # 0
      <4>1. Len(stack[t]) \in 1..Len(stack[t])
        BY <2>1, <3>2
      <4> QED
        BY <1>2, <2>1, <4>1 DEF LoneState, LoneCall, DeepestDestroys
    <3> QED
      BY <3>1, <3>2
  <2> QED
    BY <2>1, <2>3, <2>4
<1> DEFINE f == [i \in InsideCalls(stack[t], h) |-> <<t, i>>]
<1>4. f \in [InsideCalls(stack[t], h) -> inside]
  BY <1>3 DEF InsideCalls
<1>5. \A i, j \in InsideCalls(stack[t], h) : f[i] = f[j] => i = j
  OBVIOUS
<1>6. \A p \in inside : \E i \in InsideCalls(stack[t], h) : f[i] = p
  <2> SUFFICES ASSUME NEW p \in inside
               PROVE  \E i \in InsideCalls(stack[t], h) : f[i] = p
    OBVIOUS
  <2>1. p = <<t, p[2]>> /\ p[2] \in 1..MaxDepth /\ p[2] <= Len(stack[t]) /\ isInside(stack[t][p[2]], h)
    BY <1>1
  <2>2. p[2] \in InsideCalls(stack[t], h)
    BY <1>3, <2>1 DEF InsideCalls
  <2> QED
    BY <2>1, <2>2
<1> HIDE DEF f, inside
<1>7. ExistsBijection(InsideCalls(stack[t], h), inside)
  BY <1>4, <1>5, <1>6
  DEF ExistsBijection, Bijection, Injection, IsInjective, Surjection
<1>8. Cardinality(inside) = Cardinality(InsideCalls(stack[t], h))
  BY <1>2, <1>7, InsideFinite, FS_Bijection
<1> QED
  BY <1>2, <1>8 DEF LoneEntry, inside

(* LoneInv is an invariant of every kernel of one thread without chains of  *)
(* dependent objects, locks and nested calls of every depth included.      *)
THEOREM LoneInvariant == ASSUME LoneKernel PROVE Spec => []LoneInv
  BY LoneInit, LoneNext, PTL DEF Spec

(* In such a kernel, where an object can be locked and where its DESTROY    *)
(* first sends one to the object that it depends on, the lock count of an  *)
(* entry is the number of calls of the thread inside its object: no        *)
(* nested DESTROY clears an entry under a call that has still to leave it. *)
THEOREM LockCountIsExactAlone == ASSUME LoneKernel PROVE Spec => []LockCountExact
<1>1. LoneInv => LockCountExact
  BY LoneInvGivesCount
<1> QED
  BY <1>1, LoneInvariant, PTL

(* What a returning call relied on: its object, and the object that is set *)
(* up under its creator.                                                   *)
LEMMA LoneInvGivesObjects ==
  ASSUME LoneInv
  PROVE  NoStaleCall /\ InitPinned
<1> SUFFICES ASSUME NEW t \in Threads, NEW i \in 1..Len(stack[t])
             PROVE  LET f == stack[t][i]
                        o == objectTable[f.handle]
                    IN /\ f.at \in {"handler", "locked"} => o.uniqueID = f.uid
                       /\ isMaking(f) => o.uniqueID = f.uid /\ o.notinited
  BY DEF NoStaleCall, InitPinned, isMaking
<1>1. KeepsObject(stack[t], objectTable, i)
  BY DEF LoneInv, LoneState, LoneCall
<1> QED
  BY <1>1 DEF KeepsObject, Holds, Lasting

LEMMA ReleaseDependentKeepsObjects ==
  ASSUME LoneInv, NEW t \in Threads, stack[t] # << >>, Top(t).at = "call",
         ReleaseDependent(t, Obj(t))
  PROVE  SameObjects
<1>1. /\ TypeOK /\ Top(t).handle \in Handles /\ Obj(t) \in Entry
      /\ Obj(t) = objectTable[Top(t).handle] /\ objectTable \in [Handles -> Entry]
  BY Innermost DEF LoneInv
<1> DEFINE d == Obj(t).dependentObject
           p == IF HasRef(objectTable[d], FALSE) THEN DropRef(objectTable[d], FALSE) ELSE objectTable[d]
           q == [Signal(Obj(t)) EXCEPT !.dependentObject = NoHandle,
                                       !.lockCount = @ + 1, !.lockOwner = t]
<1>2. d \in Handles => p.uniqueID = objectTable[d].uniqueID
  BY <1>1 DEF DropRef, Entry
<1>3. q.uniqueID = Obj(t).uniqueID
  BY <1>1 DEF Signal, Entry
<1>4. \/ SetEntry(d, p)
      \/ objectTable' = [objectTable EXCEPT ![d] = p, ![Top(t).handle] = q]
  BY DEF ReleaseDependent
<1> HIDE DEF p, q
<1> QED
  BY <1>1, <1>2, <1>3, <1>4 DEF SetEntry, SameObjects

LEMMA FinishDependentKeepsObjects ==
  ASSUME LoneInv, NEW t \in Threads, FinishDependent(t)
  PROVE  SameObjects
<1>1. objectTable \in [Handles -> Entry]
  BY DEF LoneInv, TypeOK
<1> SUFFICES ASSUME NEW h \in Handles
             PROVE  objectTable'[h].uniqueID = objectTable[h].uniqueID
  BY DEF SameObjects
<1> DEFINE T == [objectTable EXCEPT ![Top(t).other].intRefCount = @ + Top(t).n]
<1>2. T[h].uniqueID = objectTable[h].uniqueID /\ T = [g \in Handles |-> T[g]]
  BY <1>1 DEF Entry
<1>3. \A g \in Handles : T[g] = IF g = Top(t).other
                                THEN [objectTable[g] EXCEPT !.intRefCount = @ + Top(t).n]
                                ELSE objectTable[g]
  BY <1>1
<1>4. objectTable' = [T EXCEPT ![Top(t).handle].dependentObject = Top(t).other]
  BY DEF FinishDependent
<1>5. [T[h] EXCEPT !.dependentObject = Top(t).other].uniqueID = T[h].uniqueID
  BY <1>1, <1>3 DEF Entry
<1> HIDE DEF T
<1> QED
  BY <1>2, <1>4, <1>5

(* Only a new object and the end of a DESTROY change what is in an entry.  *)
LEMMA OthersKeepObjectsAlone ==
  ASSUME LoneInv, NEW t \in Threads, Begin(t) \/ Finish(t) \/ Kernel(t),
         ~HandlerReturn(t), ~\E h \in Handles : EnterObject(t, h)
  PROVE  SameObjects
<1>1. TypeOK
  BY DEF LoneInv
<1>2. ASSUME NEW p, p # "create", At(t, p)
      PROVE  /\ stack[t] # << >> /\ Top(t).at = p
             /\ Top(t).handle \in Handles /\ Obj(t) \in Entry
             /\ Obj(t) = objectTable[Top(t).handle]
  BY <1>2, Innermost DEF At
<1>3. CASE Publish(t) \/ UnlockObject(t)
  <2> DEFINE o == [Obj(t) EXCEPT !.internal = FALSE, !.intRefCount = @ - 1,
                                 !.extRefCount = @ + 1]
             q == [Obj(t) EXCEPT !.lockCount = @ - 1]
  <2>1. At(t, "publish") \/ At(t, "locked")
    BY <1>3 DEF Publish, UnlockObject
  <2>2. SetEntry(Top(t).handle, o) \/ SetEntry(Top(t).handle, q) \/ UNCHANGED objectTable
    BY <1>3 DEF Publish, UnlockObject
  <2>3. Obj(t) \in Entry /\ Top(t).handle \in Handles /\ Obj(t) = objectTable[Top(t).handle]
    BY <1>2, <2>1
  <2>4. o.uniqueID = Obj(t).uniqueID /\ q.uniqueID = Obj(t).uniqueID
    BY <2>3 DEF Entry
  <2> HIDE DEF o, q
  <2> QED
    BY <1>1, <2>2, <2>3, <2>4, UpdateKeepsObject, UnchangedObjects
<1>4. CASE IncRef(t) \/ DecRef(t) \/ Ready(t) \/ LockObject(t)
  <2> DEFINE o == [Obj(t) EXCEPT !.intRefCount = @ + 1]
             p == DropRef(Obj(t), External(t))
             q == [Obj(t) EXCEPT !.notinited = FALSE]
             r == [Obj(t) EXCEPT !.lockCount = @ + 1, !.lockOwner = t]
  <2>1. At(t, "call")
    BY <1>4 DEF IncRef, DecRef, Ready, LockObject, Call
  <2>2. \/ SetEntry(Top(t).handle, o) \/ SetEntry(Top(t).handle, p)
        \/ SetEntry(Top(t).handle, q) \/ SetEntry(Top(t).handle, r)
        \/ UNCHANGED objectTable
    BY <1>4 DEF IncRef, DecRef, Ready, LockObject
  <2>3. Obj(t) \in Entry /\ Top(t).handle \in Handles /\ Obj(t) = objectTable[Top(t).handle]
    BY <1>2, <2>1
  <2>4. /\ o.uniqueID = Obj(t).uniqueID /\ p.uniqueID = Obj(t).uniqueID
        /\ q.uniqueID = Obj(t).uniqueID /\ r.uniqueID = Obj(t).uniqueID
    BY <2>3 DEF Entry, DropRef
  <2> HIDE DEF o, p, q, r
  <2> QED
    BY <1>1, <2>2, <2>3, <2>4, UpdateKeepsObject, UnchangedObjects
<1>5. CASE DispatchDirect(t)
  <2>1. /\ At(t, "call")
        /\ \/ UNCHANGED objectTable
           \/ EnterHandler(t, Obj(t), Obj(t).uniqueID, "use")
    BY <1>5 DEF DispatchDirect, Dispatching
  <2> QED
    BY <1>1, <1>2, <2>1, EnterHandlerKeepsObject, UnchangedObjects
<1>6. CASE DispatchQueued(t)
  <2>1. At(t, "call") /\ Process(t)
    BY <1>6 DEF DispatchQueued, Enqueueing, Dispatching
  <2>2. /\ stack[t] # << >> /\ Top(t).at = "call" /\ Top(t).handle \in Handles
        /\ Obj(t) \in Entry /\ Obj(t) = objectTable[Top(t).handle]
    BY <1>2, <2>1
  <2>3. Signal(Obj(t)) \in Entry /\ Signal(Obj(t)).uniqueID = Obj(t).uniqueID
    BY <2>2, SignalTyped DEF Signal, Entry
  <2>4. CASE SetEntry(Top(t).handle, Signal(Obj(t))) \/ UNCHANGED objectTable
    BY <1>1, <2>2, <2>3, <2>4, UpdateKeepsObject, UnchangedObjects
  <2>5. CASE EnterHandler(t, Obj(t), Obj(t).uniqueID, Effective(t))
    BY <1>1, <2>2, <2>5, EnterHandlerKeepsObject
  <2>6. CASE EnterHandler(t, Signal(Obj(t)), Obj(t).uniqueID, Effective(t))
    BY <1>1, <2>2, <2>3, <2>6, EnterHandlerKeepsObject
  <2>7. CASE ReleaseDependent(t, Obj(t))
    BY <2>2, <2>7, ReleaseDependentKeepsObjects
  <2> QED
    BY <2>1, <2>4, <2>5, <2>6, <2>7 DEF Process
<1>7. CASE ResumeDestroy(t)
  <2> DEFINE o == [Signal(Obj(t)) EXCEPT !.dependentObject = NoHandle]
  <2>1. At(t, "predep") /\ EnterHandler(t, o, Top(t).uid, Top(t).msg)
    BY <1>7 DEF ResumeDestroy
  <2>2. Obj(t) \in Entry /\ Top(t).handle \in Handles
    BY <1>2, <2>1
  <2>3. o \in Entry /\ o.uniqueID = Obj(t).uniqueID
    BY <2>2 DEF Signal, Entry
  <2> HIDE DEF o
  <2> QED
    BY <1>1, <2>1, <2>2, <2>3, EnterHandlerKeepsObject
<1>8. CASE \/ BeginCreate(t) \/ RejectCreate(t) \/ FailInit(t) \/ CompleteInit(t)
           \/ \E h \in Handles, m \in MayBeSent : Send(t, h, m)
           \/ \E h, d \in Handles, inc \in BOOLEAN : SetDependent(t, h, d, inc)
           \/ RejectHandle(t) \/ RejectNesting(t) \/ FailDependent(t)
  BY <1>8, UnchangedObjects
  DEF BeginCreate, RejectCreate, FailInit, CompleteInit, Send, SetDependent, RejectHandle,
      RejectNesting, FailDependent
<1>9. ~BeginWait(t) /\ ~KeepWaiting(t) /\ ~AbandonWait(t) /\ ~EndWait(t)
  BY NeverWaits DEF KeepWaiting, AbandonWait, EndWait
<1> QED
  BY <1>3, <1>4, <1>5, <1>6, <1>7, <1>8, <1>9, FinishDependentKeepsObjects
  DEF Begin, Finish, Kernel

LEMMA ReturnRemovesAloneLone ==
  ASSUME LoneKernel, LoneInv, NEW t \in Threads, HandlerReturn(t)
  PROVE  RemovesAlone
<1>1. TypeOK /\ At(t, "handler") /\ Return(t) /\ stack[t] # << >> /\ Top(t).at = "handler"
  BY DEF LoneInv, HandlerReturn, At
<1>2. /\ FramesTyped(stack[t]) /\ Len(stack[t]) \in Nat \ {0}
      /\ Top(t) = stack[t][Len(stack[t])] /\ Top(t).handle \in Handles
      /\ Obj(t) \in Entry /\ Obj(t) = objectTable[Top(t).handle]
      /\ LoneCall(stack[t], objectTable, Len(stack[t])) /\ LoneState(t, stack[t], objectTable)
  BY <1>1, Innermost
<1>3. CASE isDestroy(Top(t).msg)
  <2> SUFFICES ASSUME NEW h \in Handles,
                      objectTable'[h].uniqueID # objectTable[h].uniqueID
               PROVE  /\ objectTable[h].signalled /\ objectTable[h].lockCount = 1
                      /\ Users(h) = {t} /\ stack'[t] = Front(stack[t])
    BY <1>1, <1>3 DEF RemovesAlone
  <2>1. h = Top(t).handle
    BY <1>1, <1>2 DEF HandlerReturn, SetEntry, TypeOK
  <2>2. objectTable[h].signalled /\ ~IsOutside(stack[t], Len(stack[t]), h)
    BY <1>1, <1>2, <1>3, <2>1 DEF LoneCall, KeepsObject, IsLast
  <2>3. InsideCalls(stack[t], h) = {Len(stack[t])}
    BY <1>1, <1>2, <2>1, <2>2 DEF InsideCalls, IsOutside, isInside
  <2>4. objectTable[h].lockCount = 1
    BY <1>2, <2>3, FS_Singleton DEF LoneState, LoneEntry
  <2>5. Users(h) = {t}
    <3>1. isInside(stack[t][Len(stack[t])], h) /\ Len(stack[t]) \in 1..Len(stack[t])
      BY <1>1, <1>2, <2>1 DEF isInside
    <3> QED
      BY <3>1 DEF Users, LoneKernel
  <2>6. stack'[t] = Front(stack[t])
    BY <1>1 DEF Return, TypeOK
  <2> QED
    BY <2>2, <2>4, <2>5, <2>6
<1>4. CASE ~isDestroy(Top(t).msg)
  <2> DEFINE o == [Obj(t) EXCEPT !.lockCount = @ - 1]
  <2>1. SetEntry(Top(t).handle, o) \/ UNCHANGED objectTable
    BY <1>4 DEF HandlerReturn
  <2>2. o.uniqueID = Obj(t).uniqueID
    BY <1>2 DEF Entry
  <2> HIDE DEF o
  <2>3. SameObjects
    BY <1>1, <1>2, <2>1, <2>2, UpdateKeepsObject, UnchangedObjects
  <2> QED
    BY <2>3 DEF SameObjects, RemovesAlone
<1> QED
  BY <1>3, <1>4

LEMMA LoneStepRemovesAlone ==
  ASSUME LoneKernel PROVE LoneInv /\ [Next]_vars => [RemovesAlone]_vars
<1> SUFFICES ASSUME LoneInv, Next
             PROVE  RemovesAlone
  OBVIOUS
<1>1. ~BeginShutdown
  BY DEF LoneKernel, BeginShutdown
<1>2. ASSUME NEW t \in Threads, Begin(t) \/ Finish(t) \/ Kernel(t)
      PROVE  RemovesAlone
  <2>1. CASE HandlerReturn(t)
    BY <2>1, ReturnRemovesAloneLone
  <2>2. ASSUME NEW h \in Handles, EnterObject(t, h)
        PROVE  RemovesAlone
    <3>1. /\ isFree(objectTable[h])
          /\ \A g \in Handles : g # h => objectTable'[g] = objectTable[g]
      BY <2>2 DEF EnterObject, SetEntry, LoneInv, TypeOK
    <3> QED
      BY <3>1 DEF RemovesAlone
  <2>3. CASE ~HandlerReturn(t) /\ ~\E h \in Handles : EnterObject(t, h)
    BY <1>2, <2>3, OthersKeepObjectsAlone DEF SameObjects, RemovesAlone
  <2> QED
    BY <2>1, <2>2, <2>3
<1> QED
  BY <1>1, <1>2 DEF Next

(* In such a kernel a call that comes back from a handler, or that ends a  *)
(* lock, finds the object that it was dispatched to, whatever it and its   *)
(* nested calls released meanwhile: dispatchMessage need not compare IDs.  *)
THEOREM ReturnsToItsObjectAlone == ASSUME LoneKernel PROVE Spec => []NoStaleCall
  BY LoneInvariant, LoneInvGivesObjects, PTL

(* In such a kernel an object whose set-up ties it to others stays in the  *)
(* table, not yet initialised, until its creator reports it as ready.      *)
THEOREM CreatorKeepsObjectAlone == ASSUME LoneKernel PROVE Spec => []InitPinned
  BY LoneInvariant, LoneInvGivesObjects, PTL

(* In such a kernel an entry is cleared only at the end of its object's    *)
(* DESTROY, behind the signalled state and with the one call of that       *)
(* DESTROY inside: the calls that a DESTROY nests for dependent objects    *)
(* never clear an entry under one another.                                 *)
THEOREM RemovedByItsOnlyUserAlone == ASSUME LoneKernel PROVE Spec => RemovedAlone
  BY LoneInvariant, LoneStepRemovesAlone, PTL DEF Spec, RemovedAlone
=============================================================================
