---------------------------- MODULE ObjectKernel ----------------------------
(***************************************************************************)
(* The object table of the cryptlib kernel and the threads that send       *)
(* messages to the objects in it (src/kernel/objects.c, sendmsg.c,         *)
(* int_msg.c and msg_acl.c).                                               *)
(*                                                                         *)
(* All of the table is guarded by one mutex, objectTable, so one action    *)
(* here is one critical section: the code from a MUTEX_LOCK to the next    *)
(* MUTEX_UNLOCK.  A call that gives the mutex up half-way (to run an       *)
(* object's message handler, to wait for a busy object, to send another    *)
(* message) leaves a frame on its thread's stack that says where it will   *)
(* go on.                                                                  *)
(***************************************************************************)
EXTENDS Integers, SequencesExt

CONSTANTS Threads,       \* the threads that call into the kernel
          Handles,       \* the dynamically allocated entries of the table
          NoThread,      \* lockOwner of an entry that was never locked
          NoHandle,      \* CRYPT_ERROR as a handle
          Dependencies,  \* pairs <<object, dependent object>> that may be set
          AppSends,      \* the messages that a thread sends from outside
          LibSends,      \* and those that it sends from inside cryptlib
          MayShutDown,   \* whether the kernel may start to shut down
          MaxUid,        \* bound: number of objects created
          MaxRefs,       \* bound: references an object may collect
          MaxFrames,     \* bound: depth at which a thread still sends messages
          MaxWait,       \* MAX_WAITCOUNT, 1000 in the code
          MaxNest        \* MESSAGE_QUEUE_SIZE / 2, 8 in the code

MayBeSent == {"use", "incref", "decref", "lock"}

ASSUME KernelAssumption ==
  /\ NoThread \notin Threads /\ NoHandle \notin Handles
  /\ Dependencies \subseteq Handles \X Handles
  /\ \A h \in Handles : <<h, h>> \notin Dependencies
  /\ AppSends \subseteq MayBeSent \ {"incref"}
  /\ LibSends \subseteq MayBeSent
  /\ MayShutDown \in BOOLEAN
  /\ MaxUid \in Nat /\ MaxRefs \in Nat /\ MaxFrames \in Nat
  /\ MaxWait \in Nat /\ MaxNest \in Nat

VARIABLES objectTable,     \* handle -> its entry of the object table
          objectUniqueID,  \* krnlData->objectUniqueID, the next unique ID
          stack,           \* thread -> the calls that it is in, innermost last
          shutdown         \* krnlData->shutdownLevel >= SHUTDOWN_LEVEL_MESSAGES

vars == <<objectTable, objectUniqueID, stack, shutdown>>

-----------------------------------------------------------------------------
(* Object table entries. *)

Entry ==
  [uniqueID : Nat,                     \* 0 marks a free entry
   notinited : BOOLEAN, signalled : BOOLEAN, internal : BOOLEAN,
   intRefCount : Int, extRefCount : Int, lockCount : Int,
   lockOwner : Threads \union {NoThread},
   dependentObject : Handles \union {NoHandle}]

FreeEntry ==
  [uniqueID |-> 0, notinited |-> FALSE, signalled |-> FALSE,
   internal |-> FALSE, intRefCount |-> 0, extRefCount |-> 0,
   lockCount |-> 0, lockOwner |-> NoThread, dependentObject |-> NoHandle]

NewEntry(uid) ==
  [FreeEntry EXCEPT !.uniqueID = uid, !.notinited = TRUE, !.internal = TRUE,
                    !.intRefCount = 1]

isFree(o)         == o.uniqueID = 0
isInUse(o)        == o.lockCount > 0
isInvalidState(o) == o.notinited \/ o.signalled
Referenced(o)     == o.intRefCount > 0 \/ o.extRefCount > 0

(* Messages.  "use" stands for every message that is dispatched to the     *)
(* object's handler; "ready" is CRYPT_IATTRIBUTE_STATUS = CRYPT_OK, which  *)
(* the kernel turns into "converted", a DESTROY, when the object has been  *)
(* signalled meanwhile; "lock" is CRYPT_IATTRIBUTE_LOCKED = TRUE.          *)
Messages == MayBeSent \union {"none", "destroy", "converted", "ready"}

isDestroy(m) == m \in {"destroy", "converted"}

(* Where a call stands between two critical sections.                      *)
Places == {"create",   \* krnlCreateObject, before the entry is allocated
           "init",     \* object made, its creator is setting it up
           "publish",  \* set up, about to be made externally visible
           "call",     \* krnlSendMessage, before it locks the table
           "wait",     \* waitForObject, table unlocked
           "handler",  \* the object's message function is running
           "predep",   \* DESTROY pre-dispatch, destroying the dependent
           "setdep",   \* setDependentObject, querying the dependent
           "locked"}   \* between LOCKED = TRUE and LOCKED = FALSE

Frame == [at : Places, handle : Handles \union {NoHandle}, uid : Nat,
          msg : Messages, n : Int, other : Handles \union {NoHandle}]

NewFrame(at, h, uid, msg) ==
  [at |-> at, handle |-> h, uid |-> uid, msg |-> msg, n |-> 0,
   other |-> NoHandle]

(* A stack never gets deeper: a thread sends messages up to MaxFrames, and *)
(* the kernel adds calls of its own only to destroy objects.               *)
MaxDepth == MaxFrames + 1 + Cardinality(Dependencies)

-----------------------------------------------------------------------------
Top(t)   == Last(stack[t])
At(t, p) == stack[t] # << >> /\ Top(t).at = p
Obj(t)   == objectTable[Top(t).handle]
Call(t, m) == At(t, "call") /\ Top(t).msg = m

Push(t, f)    == stack' = [stack EXCEPT ![t] = Append(@, f)]
Replace(t, f) == stack' = [stack EXCEPT ![t] = Append(Front(@), f)]
Return(t)     == stack' = [stack EXCEPT ![t] = Front(@)]

SetEntry(h, o) == objectTable' = [objectTable EXCEPT ![h] = o]

(* Code that may send a message: the application, an object's handler, the *)
(* creator of an object, and a function that has locked an object.         *)
MaySend(t) ==
  /\ Len(stack[t]) < MaxFrames
  /\ stack[t] # << >> => Top(t).at \in {"init", "handler", "locked"}

(* The application's own calls are external messages; everything sent from *)
(* inside cryptlib is an internal one.                                     *)
External(t) == Len(stack[t]) = 1 /\ Top(t).msg \in {"use", "decref"}

(* Code that works for an object keeps hands off the references to it, and *)
(* to an object that it depends on: they belong to its callers.            *)
Serving(t) ==
  LET working == {stack[t][i].handle : i \in 1..Len(stack[t])}
  IN working \union
     {h \in Handles : objectTable[h].dependentObject \in working}

-----------------------------------------------------------------------------
(* krnlCreateObject: the check of the shutdown level without the mutex,    *)
(* then the allocation of a table entry under it.  Running into MaxUid     *)
(* stands for running out of memory between the two.                       *)
BeginCreate(t) ==
  /\ MaySend(t) /\ ~shutdown
  /\ Push(t, NewFrame("create", NoHandle, 0, "none"))
  /\ UNCHANGED <<objectTable, objectUniqueID, shutdown>>

RejectCreate(t) ==
  /\ At(t, "create")
  /\ \/ shutdown
     \/ objectUniqueID > MaxUid
     \/ \A h \in Handles : ~isFree(objectTable[h])
  /\ Return(t)
  /\ UNCHANGED <<objectTable, objectUniqueID, shutdown>>

EnterObject(t, h) ==
  /\ At(t, "create")
  /\ ~shutdown /\ objectUniqueID <= MaxUid
  /\ isFree(objectTable[h])
  /\ SetEntry(h, NewEntry(objectUniqueID))
  /\ objectUniqueID' = objectUniqueID + 1
  /\ Replace(t, NewFrame("init", h, objectUniqueID, "none"))
  /\ UNCHANGED shutdown

(* The creator's set-up code: on an error it sends the new object a        *)
(* DESTROY, and in either case it ends by reporting the object as ready.   *)
FailInit(t) ==
  /\ At(t, "init") /\ ~Obj(t).signalled
  /\ Push(t, NewFrame("call", Top(t).handle, 0, "destroy"))
  /\ UNCHANGED <<objectTable, objectUniqueID, shutdown>>

CompleteInit(t) ==
  /\ At(t, "init")
  /\ IF shutdown THEN Return(t)
     ELSE Replace(t, [Top(t) EXCEPT !.at = "call", !.msg = "ready"])
  /\ UNCHANGED <<objectTable, objectUniqueID, shutdown>>

(* The object that the application asked for is made externally visible    *)
(* once the call that created it succeeds.                                 *)
Publish(t) ==
  /\ At(t, "publish")
  /\ LET o == Obj(t) IN
     IF ~shutdown /\ ~isFree(o) /\ o.internal /\ o.intRefCount > 0
     THEN SetEntry(Top(t).handle,
            [o EXCEPT !.internal = FALSE, !.intRefCount = @ - 1,
                      !.extRefCount = @ + 1])
     ELSE UNCHANGED objectTable
  /\ Return(t)
  /\ UNCHANGED <<objectUniqueID, shutdown>>

-----------------------------------------------------------------------------
(* krnlSendMessage up to the mutex: during a shutdown every message but    *)
(* DESTROY and DECREFCOUNT is turned away without taking it.               *)
Send(t, h, m) ==
  /\ MaySend(t)
  /\ m \in IF stack[t] = << >> THEN AppSends ELSE LibSends
  /\ m \in {"incref", "decref"} => h \notin Serving(t)
  /\ shutdown => m = "decref"
  /\ Push(t, NewFrame("call", h, 0, m))
  /\ UNCHANGED <<objectTable, objectUniqueID, shutdown>>

(* No such object, or not one that the application may see.                *)
RejectHandle(t) ==
  /\ At(t, "call")
  /\ isFree(Obj(t)) \/ (External(t) /\ Obj(t).internal)
  /\ Return(t)
  /\ UNCHANGED <<objectTable, objectUniqueID, shutdown>>

Accepted(t) ==
  ~isFree(Obj(t)) /\ ~(External(t) /\ Obj(t).internal)

(* Messages that the kernel handles itself, whatever the object's state.   *)
IncRef(t) ==
  /\ Call(t, "incref") /\ Accepted(t)
  /\ IF Obj(t).intRefCount < MaxRefs
     THEN SetEntry(Top(t).handle, [Obj(t) EXCEPT !.intRefCount = @ + 1])
     ELSE UNCHANGED objectTable
  /\ Return(t)
  /\ UNCHANGED <<objectUniqueID, shutdown>>

(* decRefCount on an entry: losing the last external reference hides the   *)
(* object from the application.                                            *)
DropRef(o, external) ==
  IF external
  THEN [o EXCEPT !.extRefCount = @ - 1, !.internal = @ \/ o.extRefCount = 1]
  ELSE [o EXCEPT !.intRefCount = @ - 1]

HasRef(o, external) == (IF external THEN o.extRefCount ELSE o.intRefCount) > 0

(* When the last reference goes the mutex is released and the object is    *)
(* sent a DESTROY.                                                         *)
DecRef(t) ==
  /\ Call(t, "decref") /\ Accepted(t)
  /\ LET o == Obj(t)
         p == DropRef(o, External(t))
     IN IF ~HasRef(o, External(t)) THEN Return(t) /\ UNCHANGED objectTable
        ELSE /\ SetEntry(Top(t).handle, p)
             /\ IF Referenced(p) THEN Return(t)
                ELSE Replace(t, NewFrame("call", Top(t).handle, 0, "destroy"))
  /\ UNCHANGED <<objectUniqueID, shutdown>>

(* Mutant: a DESTROY that came during the set-up is forgotten.             *)
ReadyRegardless(t) ==
  /\ Call(t, "ready") /\ Accepted(t)
  /\ SetEntry(Top(t).handle, [Obj(t) EXCEPT !.notinited = FALSE])
  /\ IF Len(stack[t]) = 1 THEN Replace(t, [Top(t) EXCEPT !.at = "publish"])
     ELSE Return(t)
  /\ UNCHANGED <<objectUniqueID, shutdown>>

(* CRYPT_IATTRIBUTE_STATUS = CRYPT_OK on an object that nothing happened   *)
(* to while it was set up.                                                 *)
Ready(t) ==
  /\ Call(t, "ready") /\ Accepted(t) /\ ~Obj(t).signalled
  /\ SetEntry(Top(t).handle, [Obj(t) EXCEPT !.notinited = FALSE])
  /\ IF Len(stack[t]) = 1 THEN Replace(t, [Top(t) EXCEPT !.at = "publish"])
     ELSE Return(t)
  /\ UNCHANGED <<objectUniqueID, shutdown>>

(* CRYPT_IATTRIBUTE_LOCKED: the lock count goes up, the sender becomes the *)
(* owner, and neither the previous owner nor the count is looked at.       *)
LockObject(t) ==
  /\ Call(t, "lock") /\ Accepted(t)
  /\ SetEntry(Top(t).handle,
       [Obj(t) EXCEPT !.lockCount = @ + 1, !.lockOwner = t])
  /\ Replace(t, [Top(t) EXCEPT !.at = "locked", !.uid = Obj(t).uniqueID])
  /\ UNCHANGED <<objectUniqueID, shutdown>>

(* Mutant: unlocking takes the lock count down twice, once for the lock    *)
(* and once for the message.                                               *)
UnlockObjectTwice(t) ==
  /\ At(t, "locked")
  /\ IF ~shutdown /\ isInUse(Obj(t))
     THEN SetEntry(Top(t).handle, [Obj(t) EXCEPT !.lockCount = @ - 2])
     ELSE UNCHANGED objectTable
  /\ Return(t)
  /\ UNCHANGED <<objectUniqueID, shutdown>>

UnlockObject(t) ==
  /\ At(t, "locked")
  /\ IF ~shutdown /\ isInUse(Obj(t))
     THEN SetEntry(Top(t).handle, [Obj(t) EXCEPT !.lockCount = @ - 1])
     ELSE UNCHANGED objectTable
  /\ Return(t)
  /\ UNCHANGED <<objectUniqueID, shutdown>>

-----------------------------------------------------------------------------
(* Messages that go on to the object's handler.  A "ready" to an object    *)
(* that has been signalled becomes a DESTROY at this point.                *)
Effective(t) ==
  IF Top(t).msg = "ready" /\ Obj(t).signalled THEN "converted" ELSE Top(t).msg

Dispatching(t) ==
  /\ At(t, "call") /\ Accepted(t)
  /\ Effective(t) \in {"use", "destroy", "converted"}

(* Mutant: the owner of the lock is not recorded.                          *)
EnterHandlerAnonymous(t, o, uid, m) ==
  /\ SetEntry(Top(t).handle, [o EXCEPT !.lockCount = @ + 1])
  /\ Replace(t, [NewFrame("handler", Top(t).handle, uid, m)
                   EXCEPT !.n = o.lockCount])

(* dispatchMessage, up to the call of the message function: the entry o is *)
(* marked as busy on behalf of this thread.                                *)
EnterHandler(t, o, uid, m) ==
  /\ SetEntry(Top(t).handle, [o EXCEPT !.lockCount = @ + 1, !.lockOwner = t])
  /\ Replace(t, [NewFrame("handler", Top(t).handle, uid, m)
                   EXCEPT !.n = o.lockCount])

Signal(o) == [o EXCEPT !.signalled = TRUE]

(* preDispatchSignalDependentObjects before the handler sees a DESTROY:    *)
(* the dependent object loses a reference, and if that was its last one it *)
(* is destroyed with the mutex released.                                   *)
HasDependent(o) ==
  o.dependentObject # NoHandle /\ ~isFree(objectTable[o.dependentObject])

ReleaseDependent(t, o) ==
  LET d == o.dependentObject
      p == IF HasRef(objectTable[d], FALSE)
           THEN DropRef(objectTable[d], FALSE) ELSE objectTable[d]
      q == [Signal(o) EXCEPT !.dependentObject = NoHandle,
                             !.lockCount = @ + 1, !.lockOwner = t]
  IN IF HasRef(objectTable[d], FALSE) /\ ~Referenced(p)
     THEN /\ SetEntry(d, p)
          /\ stack' = [stack EXCEPT ![t] =
               Append(Append(Front(@),
                 [Top(t) EXCEPT !.at = "predep", !.uid = o.uniqueID,
                                !.msg = Effective(t), !.other = d]),
                 NewFrame("call", d, 0, "destroy"))]
     ELSE /\ objectTable' =
               [objectTable EXCEPT ![d] = p, ![Top(t).handle] = q]
          /\ Replace(t, [NewFrame("handler", Top(t).handle, o.uniqueID,
                            Effective(t)) EXCEPT !.n = o.lockCount])

(* Mutant: a DESTROY of an object that is being set up is not deferred.    *)
ProcessAtOnce(t) ==
  LET o == Obj(t)
      m == Effective(t)
  IN \/ /\ isInvalidState(o) /\ ~isDestroy(m)
        /\ Return(t) /\ UNCHANGED objectTable
     \/ /\ ~isInvalidState(o) /\ m = "use"
        /\ EnterHandler(t, o, o.uniqueID, m)
     \/ /\ isDestroy(m)
        /\ IF HasDependent(o) THEN ReleaseDependent(t, o)
           ELSE EnterHandler(t, Signal(o), o.uniqueID, m)

(* Mutant: the object is not signalled before it is sent its DESTROY.      *)
ProcessUnsignalled(t) ==
  LET o == Obj(t)
      m == Effective(t)
  IN \/ /\ isInvalidState(o) /\ m # "converted"
        /\ IF m = "destroy" /\ o.notinited
           THEN SetEntry(Top(t).handle, Signal(o)) ELSE UNCHANGED objectTable
        /\ Return(t)
     \/ /\ ~isInvalidState(o) /\ m = "use"
        /\ EnterHandler(t, o, o.uniqueID, m)
     \/ /\ isDestroy(m) /\ (isInvalidState(o) => m = "converted")
        /\ EnterHandler(t, o, o.uniqueID, m)

(* The body of the dequeueing loop of krnlSendMessage.  The queue holds    *)
(* this one message: it was put there in the same critical section.        *)
Process(t) ==
  LET o == Obj(t)
      m == Effective(t)
  IN \/ /\ isInvalidState(o) /\ m # "converted"
        /\ IF m = "destroy" /\ o.notinited
           THEN SetEntry(Top(t).handle, Signal(o)) ELSE UNCHANGED objectTable
        /\ Return(t)
     \/ /\ ~isInvalidState(o) /\ m = "use"
        /\ EnterHandler(t, o, o.uniqueID, m)
     \/ /\ isDestroy(m) /\ (isInvalidState(o) => m = "converted")
        /\ IF HasDependent(o) THEN ReleaseDependent(t, o)
           ELSE EnterHandler(t, Signal(o), o.uniqueID, m)

(* Mutant: the shutdown level is only checked before the mutex is taken.   *)
DispatchDirectUnchecked(t) ==
  /\ Dispatching(t) /\ ~isInUse(Obj(t)) /\ Effective(t) = "use"
  /\ IF isInvalidState(Obj(t)) THEN Return(t) /\ UNCHANGED objectTable
     ELSE EnterHandler(t, Obj(t), Obj(t).uniqueID, "use")
  /\ UNCHANGED <<objectUniqueID, shutdown>>

(* An idle object gets an ordinary message at once.                        *)
DispatchDirect(t) ==
  /\ Dispatching(t) /\ ~isInUse(Obj(t)) /\ Effective(t) = "use"
  /\ IF isInvalidState(Obj(t)) \/ shutdown
     THEN Return(t) /\ UNCHANGED objectTable
     ELSE EnterHandler(t, Obj(t), Obj(t).uniqueID, "use")
  /\ UNCHANGED <<objectUniqueID, shutdown>>

Enqueueing(t) ==
  Dispatching(t) /\ (isInUse(Obj(t)) \/ isDestroy(Effective(t)))

RejectNesting(t) ==
  /\ Enqueueing(t) /\ Obj(t).lockCount > MaxNest
  /\ Return(t)
  /\ UNCHANGED <<objectTable, objectUniqueID, shutdown>>

(* Mutant: a DESTROY does not wait for the thread that uses the object.    *)
InUseByOtherUnlessDestroy(t) ==
  isInUse(Obj(t)) /\ Obj(t).lockOwner # t /\ ~isDestroy(Effective(t))

InUseByOther(t) == isInUse(Obj(t)) /\ Obj(t).lockOwner # t

BeginWait(t) ==
  /\ Enqueueing(t) /\ Obj(t).lockCount <= MaxNest /\ InUseByOther(t)
  /\ IF shutdown THEN Return(t)
     ELSE Replace(t, [Top(t) EXCEPT !.at = "wait", !.uid = Obj(t).uniqueID,
                                    !.msg = Effective(t)])
  /\ UNCHANGED <<objectTable, objectUniqueID, shutdown>>

DispatchQueued(t) ==
  /\ Enqueueing(t) /\ Obj(t).lockCount <= MaxNest /\ ~InUseByOther(t)
  /\ Process(t)
  /\ UNCHANGED <<objectUniqueID, shutdown>>

(* Mutant: the turns of the loop are not counted.                          *)
PollsUncounted(t) == 0

(* Mutant: unique IDs are not compared after the wait.                     *)
SameHandle(t) == ~isFree(Obj(t))

(* waitForObject, one turn of its loop: the thread has slept with the      *)
(* mutex released and looks at the object again.                           *)
Polls(t)     == Top(t).n + 1
SameObject(t) == ~isFree(Obj(t)) /\ Obj(t).uniqueID = Top(t).uid

KeepWaiting(t) ==
  /\ At(t, "wait") /\ SameObject(t) /\ isInUse(Obj(t))
  /\ Polls(t) < MaxWait /\ ~shutdown
  /\ Replace(t, [Top(t) EXCEPT !.n = Polls(t)])
  /\ UNCHANGED <<objectTable, objectUniqueID, shutdown>>

AbandonWait(t) ==
  /\ At(t, "wait")
  /\ shutdown \/ Polls(t) >= MaxWait \/ ~SameObject(t)
  /\ Return(t)
  /\ UNCHANGED <<objectTable, objectUniqueID, shutdown>>

(* Mutant: a wait ends without a second look at the lock count.            *)
EndWaitUnchecked(t) ==
  /\ At(t, "wait") /\ SameObject(t)
  /\ Polls(t) < MaxWait /\ ~shutdown
  /\ Process(t)
  /\ UNCHANGED <<objectUniqueID, shutdown>>

EndWait(t) ==
  /\ At(t, "wait") /\ SameObject(t) /\ ~isInUse(Obj(t))
  /\ Polls(t) < MaxWait /\ ~shutdown
  /\ Process(t)
  /\ UNCHANGED <<objectUniqueID, shutdown>>

(* dispatchMessage after the message function has returned, and what       *)
(* krnlSendMessage does behind a DESTROY: destroyObjectData.               *)
HandlerReturn(t) ==
  /\ At(t, "handler")
  /\ LET o == Obj(t) IN
     IF isFree(o) THEN UNCHANGED objectTable
     ELSE IF isDestroy(Top(t).msg) THEN SetEntry(Top(t).handle, FreeEntry)
     ELSE SetEntry(Top(t).handle, [o EXCEPT !.lockCount = @ - 1])
  /\ Return(t)
  /\ UNCHANGED <<objectUniqueID, shutdown>>

(* The dependent object's DESTROY is over: only now is the object itself   *)
(* signalled and its own DESTROY dispatched.                               *)
ResumeDestroy(t) ==
  /\ At(t, "predep")
  /\ EnterHandler(t, [Signal(Obj(t)) EXCEPT !.dependentObject = NoHandle],
                  Top(t).uid, Top(t).msg)
  /\ UNCHANGED <<objectUniqueID, shutdown>>

-----------------------------------------------------------------------------
(* setDependentObject: the checks, then (with the mutex released) queries  *)
(* to the certificate of the pair, then the assignment.  The queries may   *)
(* fail, and afterwards only the object itself is looked at again (by its  *)
(* unique ID), not the pair's other half nor the slot.  With inc the       *)
(* dependent object gains a reference, without it the object takes over    *)
(* the one its creator holds.                                              *)
SetDependent(t, h, d, inc) ==
  /\ MaySend(t) /\ stack[t] # << >> /\ ~shutdown
  /\ <<h, d>> \in Dependencies
  /\ inc \/ d \notin Serving(t)
  /\ ~isFree(objectTable[h]) /\ ~isFree(objectTable[d])
  /\ objectTable[h].dependentObject = NoHandle
  /\ objectTable[d].dependentObject # h
  /\ Push(t, [at |-> "setdep", handle |-> h, uid |-> objectTable[h].uniqueID,
              msg |-> "none", n |-> IF inc THEN 1 ELSE 0, other |-> d])
  /\ UNCHANGED <<objectTable, objectUniqueID, shutdown>>

FailDependent(t) ==
  /\ At(t, "setdep")
  /\ Return(t)
  /\ UNCHANGED <<objectTable, objectUniqueID, shutdown>>

FinishDependent(t) ==
  /\ At(t, "setdep")
  /\ LET f == Top(t)
         d == objectTable[f.other]
     IN /\ Obj(t).uniqueID = f.uid
        /\ f.n = 1 => ~isFree(d) /\ d.intRefCount < MaxRefs
        /\ objectTable' = [objectTable EXCEPT
             ![f.other].intRefCount = @ + f.n,
             ![f.handle].dependentObject = f.other]
  /\ Return(t)
  /\ UNCHANGED <<objectUniqueID, shutdown>>

(* destroyObjects: from now on only object destruction is let through.     *)
BeginShutdown ==
  /\ MayShutDown /\ ~shutdown
  /\ shutdown' = TRUE
  /\ UNCHANGED <<objectTable, objectUniqueID, stack>>

-----------------------------------------------------------------------------
Init ==
  /\ objectTable = [h \in Handles |-> FreeEntry]
  /\ objectUniqueID = 1
  /\ stack = [t \in Threads |-> << >>]
  /\ shutdown = FALSE

(* What a thread starts of its own accord ...                              *)
Begin(t) ==
  \/ BeginCreate(t)
  \/ FailInit(t)
  \/ \E h \in Handles, m \in MayBeSent : Send(t, h, m)
  \/ \E h, d \in Handles, inc \in BOOLEAN : SetDependent(t, h, d, inc)

(* ... the end of code that runs outside the kernel ...                    *)
Finish(t) == HandlerReturn(t) \/ CompleteInit(t) \/ UnlockObject(t)

(* ... and the kernel's own steps.                                         *)
Kernel(t) ==
  \/ RejectCreate(t)
  \/ \E h \in Handles : EnterObject(t, h)
  \/ Publish(t)
  \/ RejectHandle(t) \/ IncRef(t) \/ DecRef(t) \/ Ready(t) \/ LockObject(t)
  \/ DispatchDirect(t) \/ RejectNesting(t) \/ BeginWait(t)
  \/ DispatchQueued(t)
  \/ KeepWaiting(t) \/ AbandonWait(t) \/ EndWait(t)
  \/ ResumeDestroy(t)
  \/ FailDependent(t) \/ FinishDependent(t)

Next == BeginShutdown \/ \E t \in Threads : Begin(t) \/ Finish(t) \/ Kernel(t)

Spec == Init /\ [][Next]_vars

(* Every thread is scheduled, and every piece of code outside the kernel   *)
(* finishes in the end, however many messages it sends (d is how deep in   *)
(* its thread's stack it runs).                                            *)
Fairness ==
  \A t \in Threads :
     /\ WF_vars(Kernel(t))
     /\ \A d \in 1..MaxDepth : SF_vars(Len(stack[t]) = d /\ Finish(t))

FairSpec == Spec /\ Fairness
-----------------------------------------------------------------------------
(* Properties. *)

(* Every variable holds a value of its kind, and every call but a create   *)
(* that has no entry yet is about an entry of the table.                   *)
TypeOK ==
  /\ objectTable \in [Handles -> Entry]
  /\ objectUniqueID \in Nat \ {0}
  /\ stack \in [Threads -> Seq(Frame)]
  /\ \A t \in Threads : \A i \in 1..Len(stack[t]) :
       stack[t][i].at # "create" => stack[t][i].handle \in Handles
  /\ shutdown \in BOOLEAN

(* The calls that are inside an object: its handler is running, or the     *)
(* caller has locked it.                                                   *)
isInside(f, h) == f.at \in {"handler", "locked"} /\ f.handle = h

Users(h) ==
  {t \in Threads : \E i \in 1..Len(stack[t]) : isInside(stack[t][i], h)}

(* An object that is busy is busy for one thread only: while it processes  *)
(* a message (dispatchMessage) or is locked (CRYPT_IATTRIBUTE_LOCKED), no  *)
(* other thread gets into it, however the wait, the timeout, the reuse of  *)
(* its handle and the destroy interleave.                                  *)
ExclusiveUse == \A h \in Handles : \A t, u \in Users(h) : t = u

(* A call that comes back from a handler finds the object that it was      *)
(* dispatched to: the entry was neither cleared nor given to another       *)
(* object meanwhile.  dispatchMessage decrements the lock count of         *)
(* whatever is in the entry without comparing unique IDs.                  *)
NoStaleCall ==
  \A t \in Threads : \A i \in 1..Len(stack[t]) :
     stack[t][i].at \in {"handler", "locked"} =>
       objectTable[stack[t][i].handle].uniqueID = stack[t][i].uid

(* The lock count of an entry is the number of calls inside the object, so *)
(* it is back at zero when the last of them leaves and never before.       *)
LockCountExact ==
  \A h \in Handles :
     objectTable[h].lockCount =
       Cardinality({p \in Threads \X (1..MaxDepth) :
                      /\ p[2] <= Len(stack[p[1]])
                      /\ isInside(stack[p[1]][p[2]], h)})

(* An object cannot disappear, or become usable, under the code that is    *)
(* still setting it up, whoever sends it a DESTROY: the destroy is         *)
(* deferred until the creator reports the object as ready.                 *)
InitPinned ==
  \A t \in Threads : \A i \in 1..Len(stack[t]) :
     LET f == stack[t][i] IN
     f.at = "init" \/ (f.at = "call" /\ f.msg = "ready") =>
       /\ objectTable[f.handle].uniqueID = f.uid
       /\ objectTable[f.handle].notinited

RemovesAlone ==
  \A h \in Handles :
    objectTable'[h].uniqueID # objectTable[h].uniqueID /\ ~isFree(objectTable[h]) =>
      /\ objectTable[h].signalled /\ objectTable[h].lockCount = 1
      /\ \E t \in Threads : /\ Users(h) = {t} /\ stack'[t] = Front(stack[t])
                            /\ At(t, "handler") /\ isDestroy(Top(t).msg)

(* An object leaves the table only once: it has been signalled, so that    *)
(* nobody else can get in, and the one call inside it is the DESTROY of    *)
(* the thread that clears its entry.                                       *)
RemovedAlone == [][RemovesAlone]_vars

(* Once the kernel is shutting down, the only ordinary messages that still *)
(* reach a handler are those that a handler sends to its own object.       *)
EntersHandler(t) ==
  /\ stack'[t] # stack[t] /\ Len(stack'[t]) >= Len(stack[t])
  /\ Last(stack'[t]).at = "handler"

ShutdownGate ==
  [][\A t \in Threads :
       shutdown /\ EntersHandler(t) /\ Last(stack'[t]).msg = "use" =>
         t \in Users(Last(stack'[t]).handle)]_vars

(* A call that has waited gets the object that it waited for: a handle     *)
(* that was freed and given to a new object meanwhile is not mistaken for  *)
(* the old one (waitForObject compares unique IDs after every sleep).      *)
RightRecipient ==
  [][\A t \in Threads :
       At(t, "wait") /\ EntersHandler(t) => Last(stack'[t]).uid = Top(t).uid]_vars

(* An object whose last reference is gone is on its way out: some call is  *)
(* destroying it (decRefCount: "if all references are removed then the     *)
(* object is destroyed").                                                  *)
UnreferencedIsDestroyed ==
  \A h \in Handles :
     LET o == objectTable[h] IN
     ~isFree(o) /\ ~Referenced(o) =>
       o.signalled \/ \E t \in Threads : \E i \in 1..Len(stack[t]) :
         stack[t][i].handle = h /\ isDestroy(stack[t][i].msg)

(* A signalled object is destroyed in the end.                             *)
SignalledIsDestroyed ==
  \A u \in 1..MaxUid :
     (\E h \in Handles : objectTable[h].uniqueID = u /\ objectTable[h].signalled)
       ~> (\A h \in Handles : objectTable[h].uniqueID # u)

(* A busy object becomes available again: threads that are inside objects  *)
(* and wait for each other's are set free by MAX_WAITCOUNT.                *)
BusyIsReleased ==
  \A h \in Handles : isInUse(objectTable[h]) ~> ~isInUse(objectTable[h])
=============================================================================
