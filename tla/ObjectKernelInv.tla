--------------------------- MODULE ObjectKernelInv ---------------------------
(***************************************************************************)
(* The inductive invariant behind ExclusiveUse, NoStaleCall and InitPinned *)
(* of ObjectKernel: why a lock count with the name of its owner, checked   *)
(* only when a message arrives, is enough to keep an object to one thread. *)
(* It holds where no object has a dependent object and nobody uses         *)
(* CRYPT_IATTRIBUTE_LOCKED (PlainKernel); both break exclusive use.  With  *)
(* them, the inductive invariant of a kernel that one thread uses          *)
(* (LoneKernel).  And the refinement mapping to ObjectLifecycle, with what *)
(* it needs besides.                                                       *)
(***************************************************************************)
EXTENDS ObjectKernel

PlainKernel == Dependencies = {} /\ "lock" \notin AppSends \union LibSends

-----------------------------------------------------------------------------
isHandler(f, h) == f.at = "handler" /\ f.handle = h

(* An object's creator before the object is reported as ready.             *)
isMaking(f) == f.at = "init" \/ (f.at = "call" /\ f.msg = "ready")

(* The calls that exist in a plain kernel, and what they may carry.        *)
PlainFrame(f) ==
  /\ f.at \in {"create", "init", "publish", "call", "wait", "handler"}
  /\ f.at = "call" => f.msg \in {"use", "incref", "decref", "destroy", "ready"}
  /\ f.at = "wait" => f.msg \in {"use", "destroy"}

FramesPlain ==
  /\ \A t \in Threads : \A i \in 1..Len(stack[t]) : PlainFrame(stack[t][i])
  /\ \A h \in Handles : objectTable[h].dependentObject = NoHandle

(* A running handler owns its object; the lock count that it found (n)     *)
(* numbers it among the handlers of that object.                           *)
OwnsObject(t, i) ==
  LET f == stack[t][i]
      o == objectTable[f.handle]
  IN /\ o.uniqueID = f.uid /\ f.uid # 0
     /\ o.lockOwner = t /\ 0 <= f.n /\ f.n < o.lockCount
     /\ o.notinited <=> f.msg = "converted"
     /\ isDestroy(f.msg) => o.signalled /\ o.lockCount = 1

HandlersOwn ==
  \A t \in Threads : \A i \in 1..Len(stack[t]) :
     stack[t][i].at = "handler" => OwnsObject(t, i)

(* Handlers of one object nest with increasing n and without a gap.        *)
NestsWell(t, i) ==
  LET f == stack[t][i] IN
  /\ \A j \in 1..(i - 1) : isHandler(stack[t][j], f.handle) => stack[t][j].n < f.n
  /\ f.n > 0 => \E j \in 1..(i - 1) :
                   isHandler(stack[t][j], f.handle) /\ stack[t][j].n = f.n - 1

HandlersNest ==
  \A t \in Threads : \A i \in 1..Len(stack[t]) :
     stack[t][i].at = "handler" => NestsWell(t, i)

(* A lock count above zero is accounted for by a handler of the owner.     *)
LockHeld(h) ==
  LET o == objectTable[h] IN
  /\ o.lockCount >= 0
  /\ o.lockCount > 0 =>
       /\ o.lockOwner \in Threads
       /\ \E i \in 1..Len(stack[o.lockOwner]) :
            /\ isHandler(stack[o.lockOwner][i], h)
            /\ stack[o.lockOwner][i].n = o.lockCount - 1

LocksHeld == \A h \in Handles : LockHeld(h)

(* An object that is being made is there, not yet initialised, and has one *)
(* creator; it is not being destroyed.                                     *)
Pins(t, i) ==
  LET f == stack[t][i] IN
  /\ f.uid # 0
  /\ objectTable[f.handle].uniqueID = f.uid
  /\ objectTable[f.handle].notinited
  /\ \A u \in Threads : \A j \in 1..Len(stack[u]) :
       /\ ~isHandler(stack[u][j], f.handle)
       /\ isMaking(stack[u][j]) /\ stack[u][j].handle = f.handle => u = t /\ j = i

MakersPin ==
  \A t \in Threads : \A i \in 1..Len(stack[t]) :
     isMaking(stack[t][i]) => Pins(t, i)

(* A thread that is about to destroy an object is not inside it.           *)
DestroyersOutside ==
  \A t \in Threads : \A i \in 1..Len(stack[t]) :
     LET f == stack[t][i] IN
     f.at \in {"call", "wait"} /\ f.msg \in {"decref", "destroy"} =>
       \A j \in 1..(i - 1) : ~isHandler(stack[t][j], f.handle)

Inv == /\ TypeOK /\ FramesPlain /\ HandlersOwn /\ HandlersNest /\ LocksHeld
       /\ MakersPin /\ DestroyersOutside

-----------------------------------------------------------------------------
(* What the refinement of ObjectLifecycle and the exact lock count need    *)
(* besides Inv. *)

(* The next unique ID is new.                                              *)
FreshIds == \A h \in Handles : objectTable[h].uniqueID < objectUniqueID

(* What runs inside a signalled object is its DESTROY.                     *)
EndsSignalled ==
  \A t \in Threads : \A i \in 1..Len(stack[t]) :
     LET f == stack[t][i] IN
     f.at = "handler" /\ objectTable[f.handle].signalled => isDestroy(f.msg)

(* The deepest call that a thread can be in is the DESTROY of an object    *)
(* that it failed to set up.                                               *)
DepthBounded ==
  \A t \in Threads :
     /\ Len(stack[t]) <= MaxFrames + 1
     /\ \A i \in 1..Len(stack[t]) :
          i > MaxFrames => stack[t][i].at \notin {"create", "init"}

LifeInv == Inv /\ FreshIds /\ EndsSignalled /\ DepthBounded

-----------------------------------------------------------------------------
(* Why the lock count is exact in a kernel with locks and dependent        *)
(* objects that only one thread uses (LoneKernel).  There are no chains:   *)
(* what an object depends on depends on nothing itself.                    *)
LoneKernel ==
  /\ \E t : Threads = {t}
  /\ ~MayShutDown /\ IsFiniteSet(Dependencies)
  /\ \A p, q \in Dependencies : p[2] # q[1]

Dependable == {p[2] : p \in Dependencies}
References(o) == o.intRefCount + o.extRefCount

(* The operators below are about the calls of the thread, innermost last,  *)
(* and the object table.                                                   *)
IsOutside(calls, i, h) == \E j \in 1..(i - 1) : calls[j].handle = h

(* Calls that can have others inside them; with an object's creator until  *)
(* it is ready.                                                            *)
Lasting == {"init", "handler", "locked", "predep"}
Holds(f) == f.at \in Lasting \/ isMaking(f)

(* The last call for its object: nothing outside it is about that object.  *)
IsLast(f) == isMaking(f) \/ f.at = "predep" \/ (f.at = "handler" /\ isDestroy(f.msg))

(* The calls inside the i-th that are making objects dependent on its own. *)
Makers(calls, table, i) ==
  {j \in (i + 1)..Len(calls) :
     isMaking(calls[j]) /\ table[calls[j].handle].dependentObject = calls[i].handle}

(* What a call relies on to be the innermost again: its object is still in  *)
(* the table, and one that others can depend on has a reference besides those  *)
(* of the objects that are being made further inside.                      *)
KeepsObject(calls, table, i) ==
  LET f == calls[i]
      o == table[f.handle]
  IN /\ Holds(f) => ~isFree(o) /\ o.uniqueID = f.uid
     /\ isMaking(f) => o.notinited
     /\ IsLast(f) => ~IsOutside(calls, i, f.handle)
     /\ f.at = "handler" /\ isDestroy(f.msg) => o.signalled
     /\ f.at = "predep" => f.handle \notin Dependable
     /\ Holds(f) /\ f.handle \in Dependable =>
          o.signalled \/ References(o) > Cardinality(Makers(calls, table, i))

(* What the innermost call relies on until its message is processed.       *)
MayProceed(calls, table, i) ==
  LET f == calls[i]
      o == table[f.handle]
      d == o.dependentObject
  IN /\ f.at = "call" => f.msg # "converted"
     /\ f.at = "call" /\ f.msg = "decref" =>
          ~IsOutside(calls, i, f.handle) /\ ~IsOutside(calls, i, d)
     /\ f.at = "call" /\ f.msg = "destroy" =>
          \/ ~IsOutside(calls, i, f.handle) /\ ~IsOutside(calls, i, d)
          \/ o.signalled
          \/ o.notinited /\ o.lockCount = 0
     /\ f.at = "setdep" =>
          /\ <<f.handle, f.other>> \in Dependencies /\ f.n \in {0, 1}
          /\ ~isFree(o)
          /\ f.n = 0 => ~IsOutside(calls, i, f.other)

(* A thread goes deeper than MaxFrames only to destroy one object.         *)
DeepestDestroys(calls, table, i) ==
  LET f == calls[i]
      o == table[f.handle]
  IN i > MaxFrames =>
       /\ i = MaxFrames + 1 /\ f.at \in {"call", "handler"}
       /\ f.at = "call" => f.msg = "destroy" /\ (o.notinited \/ o.dependentObject = NoHandle)

LoneCall(calls, table, i) ==
  /\ i < Len(calls) => calls[i].at \in Lasting
  /\ calls[i].at # "wait"
  /\ KeepsObject(calls, table, i)
  /\ MayProceed(calls, table, i)
  /\ DeepestDestroys(calls, table, i)

InsideCalls(calls, h) == {i \in 1..Len(calls) : isInside(calls[i], h)}

Destroying(calls, h) ==
  LET i == Len(calls) IN
  i > 0 /\ calls[i].at = "call" /\ calls[i].msg = "destroy" /\ calls[i].handle = h

(* An entry, in the kernel of the one thread t; an object without          *)
(* references is being destroyed.                                          *)
LoneEntry(t, calls, table, h) ==
  LET o == table[h] IN
  /\ o.lockCount = Cardinality(InsideCalls(calls, h))
  /\ o.lockCount > 0 => o.lockOwner = t
  /\ o.intRefCount >= 0 /\ o.extRefCount >= 0
  /\ o.dependentObject # NoHandle => ~isFree(o) /\ <<h, o.dependentObject>> \in Dependencies
  /\ h \in Dependable /\ ~isFree(o) =>
       o.signalled \/ References(o) > 0 \/ Destroying(calls, h)

LoneState(t, calls, table) ==
  /\ \A i \in 1..Len(calls) : LoneCall(calls, table, i)
  /\ \A h \in Handles : LoneEntry(t, calls, table, h)

LoneInv == TypeOK /\ ~shutdown /\ \A t \in Threads : LoneState(t, stack[t], objectTable)

-----------------------------------------------------------------------------
(* Where the object in an entry is in its life, and whom it works for: the *)
(* refinement mapping to ObjectLifecycle.                                  *)
Phase(o) ==
  IF isFree(o) THEN "free"
  ELSE IF o.signalled /\ isInUse(o) THEN "dying"
  ELSE IF o.signalled THEN "doomed"
  ELSE IF o.notinited THEN "initialising" ELSE "ready"

User(o) == IF isInUse(o) THEN o.lockOwner ELSE NoThread

phase == [h \in Handles |-> Phase(objectTable[h])]
user  == [h \in Handles |-> User(objectTable[h])]
id    == [h \in Handles |-> objectTable[h].uniqueID]

Lifecycle == INSTANCE ObjectLifecycle

(* The kernel keeps the promise of ObjectLifecycle: an object is set up by *)
(* its creator, used by one thread at a time, and destroyed once, by a     *)
(* thread that has it to itself.                                           *)
LifecycleSpec == Lifecycle!Spec
=============================================================================
