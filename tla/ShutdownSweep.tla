--------------------------- MODULE ShutdownSweep ---------------------------
(***************************************************************************)
(* The destruction of the objects that are left when cryptlib is shut down *)
(* (destroyObjects and destroySelectedObjects of src/kernel/objects.c): a  *)
(* thread walks over the object table three times, by the depth of what an *)
(* object depends on, and sends a destroy message to each object, while    *)
(* other threads may still be busy in some.  No object is created any more *)
(* (objects.c:763) and only destroy and decref messages pass.              *)
(***************************************************************************)
EXTENDS Integers, FiniteSets, SequencesExt

CONSTANT Remains  \* the handles above those of the system objects, in table order

SYSTEM == 0   \* SYSTEM_OBJECT_HANDLE: valid throughout the sweep
ERROR == -1   \* CRYPT_ERROR: no object

SweepAssumption == Remains \subseteq Nat \ {SYSTEM} /\ IsFiniteSet(Remains)

VARIABLES live,             \* the objects in the table
          dependentObject, dependentDevice, refCount,  \* of their entries
          external,         \* objects that the user still has a reference to
          holds,            \* the references in an object's own data
          busy,             \* objects in which another thread processes a message
          stack,            \* the destroy messages that the sweep is processing
          depth, at,        \* the pass and the next handle of it
          skipped           \* what each pass found busy

sweepVars == <<live, dependentObject, dependentDevice, refCount, external, holds, busy, stack, depth, at, skipped>>

isPresent(h) == h = SYSTEM \/ h \in live

\* The handles that are left for this pass.
Left == {h \in Remains : h >= at}

-----------------------------------------------------------------------------
(* What is left over.  Certificates, envelopes and sessions depend on a    *)
(* context, a context on its certificate; what is attached depends on      *)
(* nothing but a device (an attached certificate is a data-only one).      *)
(* Contexts depend on the device that created them, all else on the system *)
(* device.  Envelopes and sessions hold references of their own.           *)

AttachableTo == [session |-> {"context"}, certificate |-> {"context"}, context |-> {"certificate"}, device |-> {}]

References(h, dep, dev, held, ext) ==
  Cardinality({p \in Remains : dep[p] = h}) + Cardinality({p \in Remains : dev[p] = h})
  + Cardinality({p \in Remains : h \in held[p]}) + (IF h \in ext THEN 1 ELSE 0)

SweepInit ==
  /\ \E kind \in [Remains -> DOMAIN AttachableTo] :
       /\ dependentObject \in [Remains -> Remains \union {ERROR}]
       /\ \A h \in Remains : dependentObject[h] # ERROR =>
            /\ dependentObject[h] # h /\ kind[dependentObject[h]] \in AttachableTo[kind[h]]
            /\ dependentObject[dependentObject[h]] = ERROR
       /\ dependentDevice \in [Remains -> {SYSTEM} \union {d \in Remains : kind[d] = "device"}]
       /\ \A h \in Remains : dependentDevice[h] # SYSTEM => kind[h] = "context"
       /\ holds \in [Remains -> {{}} \union {{x} : x \in Remains}]
       /\ \A h \in Remains : \A x \in holds[h] : kind[h] = "session" /\ kind[x] \in {"context", "certificate"}
  /\ external \in SUBSET Remains
  /\ refCount = [h \in Remains |-> References(h, dependentObject, dependentDevice, holds, external)]
  /\ \A h \in Remains : refCount[h] > 0
  /\ busy \in SUBSET external
  /\ live = Remains /\ stack = <<>> /\ depth = 3 /\ at = 1 /\ skipped = [i \in 1..3 |-> {}]

-----------------------------------------------------------------------------
(* Destroy messages.  A frame is the message to obj: before the dependent  *)
(* object is released ("release"), with it released ("signal"), in the     *)
(* object's handler ("handler"), and when the device has been released     *)
(* ("clear").                                                              *)

Frame(h) == [obj |-> h, at |-> "release"]
Top == Last(stack)
GoTo(l) == [stack EXCEPT ![Len(stack)].at = l]

\* A destroy message is processed unless another thread is in the object: at shutdown
\* waitForObject does not wait.
SendDestroy(h, frames) ==
  IF h \in busy \/ \E f \in ToSet(frames) : f.obj = h THEN frames ELSE Append(frames, Frame(h))

Dropped(h) == [refCount EXCEPT ![h] = @ - 1]

\* decRefCount: the last reference destroys the object, with the table unlocked around it.
Release(h, frames) ==
  /\ refCount' = Dropped(h)
  /\ stack' = IF refCount[h] = 1 THEN SendDestroy(h, frames) ELSE frames

\* preDispatchSignalDependentObjects.
SignalDependentObjects ==
  /\ stack # <<>> /\ Top.at = "release"
  /\ LET d == dependentObject[Top.obj] IN
     IF isPresent(d) THEN Release(d, GoTo("signal"))
     ELSE stack' = GoTo("signal") /\ UNCHANGED refCount
  /\ UNCHANGED <<live, dependentObject, dependentDevice, external, holds, busy, depth, at, skipped>>

\* The object keeps the handle of what it has released.
SignalKeeping ==
  /\ stack # <<>> /\ Top.at = "signal"
  /\ stack' = GoTo("handler")
  /\ UNCHANGED <<live, dependentObject, dependentDevice, refCount, external, holds, busy, depth, at, skipped>>

\* The object is signalled and its handler starts.
Signal ==
  /\ stack # <<>> /\ Top.at = "signal"
  /\ dependentObject' = [dependentObject EXCEPT ![Top.obj] = ERROR]
  /\ stack' = GoTo("handler")
  /\ UNCHANGED <<live, dependentDevice, refCount, external, holds, busy, depth, at, skipped>>

\* The handler sends a decref to what the object holds; one that has been destroyed is refused.
ReleaseHeld ==
  /\ stack # <<>> /\ Top.at = "handler"
  /\ \E x \in holds[Top.obj] :
       /\ holds' = [holds EXCEPT ![Top.obj] = @ \ {x}]
       /\ IF isPresent(x) THEN Release(x, stack) ELSE UNCHANGED <<refCount, stack>>
  /\ UNCHANGED <<live, dependentObject, dependentDevice, external, busy, depth, at, skipped>>

\* postDispatchSignalDependentDevices.  The system device is not destroyed this way.
SignalDependentDevices ==
  /\ stack # <<>> /\ Top.at = "handler" /\ holds[Top.obj] = {}
  /\ LET d == dependentDevice[Top.obj] IN
     /\ dependentDevice' = [dependentDevice EXCEPT ![Top.obj] = ERROR]
     /\ IF d # SYSTEM /\ isPresent(d) THEN Release(d, GoTo("clear"))
        ELSE stack' = GoTo("clear") /\ UNCHANGED refCount
  /\ UNCHANGED <<live, dependentObject, external, holds, busy, depth, at, skipped>>

\* destroyObjectData.
DestroyObjectData ==
  /\ stack # <<>> /\ Top.at = "clear"
  /\ live' = live \ {Top.obj} /\ stack' = Front(stack)
  /\ UNCHANGED <<dependentObject, dependentDevice, refCount, external, holds, busy, depth, at, skipped>>

-----------------------------------------------------------------------------
(* The sweep.                                                              *)

\* A depth that only looks at devices.
DepthOfDevices(h) == IF isPresent(dependentDevice[h]) THEN 2 ELSE 1

\* The depth of an object: 3 for one whose dependent object depends on something itself.
Depth(h) ==
  LET d == dependentObject[h] IN
  IF isPresent(d)
  THEN IF isPresent(dependentObject[d]) \/ isPresent(dependentDevice[d]) THEN 3 ELSE 2
  ELSE IF isPresent(dependentDevice[h]) THEN 2 ELSE 1

\* Only the objects of the very depth of the pass.
SelectedExactly(h) == h \in live /\ Depth(h) = depth

\* destroySelectedObjects takes every object that is at least as deep as the pass.
Selected(h) == h \in live /\ Depth(h) >= depth

DestroySelected ==
  /\ stack = <<>> /\ depth > 0
  /\ \E h \in Left :
       /\ \A g \in Left : h <= g
       /\ at' = h + 1
       /\ IF Selected(h)
          THEN stack' = SendDestroy(h, <<>>) /\ skipped' = IF h \in busy THEN [skipped EXCEPT ![depth] = @ \union {h}] ELSE skipped
          ELSE UNCHANGED <<stack, skipped>>
  /\ UNCHANGED <<live, dependentObject, dependentDevice, refCount, external, holds, busy, depth>>

NextDepth ==
  /\ stack = <<>> /\ depth > 0 /\ Left = {}
  /\ depth' = depth - 1 /\ at' = 1
  /\ UNCHANGED <<live, dependentObject, dependentDevice, refCount, external, holds, busy, stack, skipped>>

\* Another thread returns from its message.  What it sends next is refused.
LeaveObject ==
  /\ \E h \in busy : busy' = busy \ {h}
  /\ UNCHANGED <<live, dependentObject, dependentDevice, refCount, external, holds, stack, depth, at, skipped>>

SweepNext ==
  \/ SignalDependentObjects \/ Signal \/ ReleaseHeld \/ SignalDependentDevices \/ DestroyObjectData
  \/ DestroySelected \/ NextDepth
  \/ LeaveObject

SweepSpec == SweepInit /\ [][SweepNext]_sweepVars

-----------------------------------------------------------------------------
(* Properties.                                                             *)

SweepTypeOK ==
  /\ live \subseteq Remains /\ external \subseteq Remains /\ busy \subseteq Remains
  /\ dependentObject \in [Remains -> Remains \union {ERROR}]
  /\ dependentDevice \in [Remains -> Remains \union {SYSTEM, ERROR}]
  /\ refCount \in [Remains -> Int] /\ holds \in [Remains -> SUBSET Remains]
  /\ stack \in Seq([obj : Remains, at : {"release", "signal", "handler", "clear"}])
  /\ depth \in 0..3 /\ at \in Nat /\ skipped \in [1..3 -> SUBSET Remains]

\* However the table is torn down, the reference count of an object that is left is the number of
\* objects in the table that refer to it and of the user's references: no reference is dropped twice
\* and none is kept by an object that is gone (the decrements of msg_acl.c:1281, :2502 and of the handlers).
RefCountsExact ==
  \A h \in live :
    refCount[h] = Cardinality({p \in live : dependentObject[p] = h /\ ~\E f \in ToSet(stack) : f.obj = p /\ f.at = "signal"})
                  + Cardinality({p \in live : dependentDevice[p] = h}) + Cardinality({p \in live : h \in holds[p]})
                  + (IF h \in external THEN 1 ELSE 0)

\* "We can never delete another object out from under a dependent object" (objects.c:521): the sweep does
\* not send a destroy to an object that another one depends on, unless it has found that one busy.
NotUnderDependentStep ==
  \A h \in Remains : stack = <<>> /\ stack' # <<>> /\ stack'[1].obj = h =>
    {p \in live : dependentObject[p] = h} \subseteq UNION {skipped[i] : i \in 1..3}
NotUnderDependent == [][NotUnderDependentStep]_sweepVars

\* The same of the devices that objects depend on (objects.c:520: "cert -> context -> device").
NotUnderDevice ==
  [][\A h \in Remains : stack = <<>> /\ stack' # <<>> /\ stack'[1].obj = h => \A p \in live : dependentDevice[p] # h]_sweepVars

\* An object outlives the sweep only if another thread was in it when the last pass came to it: neither
\* its depth, nor what was destroyed before it, nor a reference makes the three passes miss it.
NothingMissed == depth = 0 => live \subseteq skipped[1]

-----------------------------------------------------------------------------
(* The inductive invariant behind them.                                    *)

InDestroy(h) == \E i \in 1..Len(stack) : stack[i].obj = h

\* Every destroy message is about an object of its own, in the table, and has cleared what it has passed.
FramesSound ==
  /\ \A i, j \in 1..Len(stack) : stack[i].obj = stack[j].obj => i = j
  /\ \A i \in 1..Len(stack) :
       /\ stack[i].obj \in live
       /\ stack[i].at \in {"handler", "clear"} => dependentObject[stack[i].obj] = ERROR
       /\ stack[i].at = "clear" => dependentDevice[stack[i].obj] = ERROR /\ holds[stack[i].obj] = {}

\* What is attached has nothing attached to it.  Devices are neither attached nor held.
Separate ==
  \A g, h \in Remains :
    /\ dependentObject[g] = h => dependentObject[h] = ERROR
    /\ dependentDevice[g] = h => /\ dependentObject[h] = ERROR
                                 /\ \A p \in Remains : dependentObject[p] # h /\ h \notin holds[p]

\* The first pass leaves the devices alone, so that it finds what depends on a context or certificate.
DevicesStay ==
  depth = 3 => \A h \in live :
    /\ dependentDevice[h] \in live \union {SYSTEM, ERROR}
    /\ dependentDevice[h] = ERROR => InDestroy(h)
    /\ dependentDevice[h] \in live => ~InDestroy(dependentDevice[h])

\* What the first pass has been through has nothing attached any more, or was busy.
DependentsFirst ==
  \A p \in live : dependentObject[p] \in live /\ (depth < 3 \/ p < at) => p \in skipped[3] \/ InDestroy(p)

\* What the last pass has been through is gone, or was busy.
LastPass ==
  /\ depth = 0 => stack = <<>>
  /\ \A p \in live : depth = 0 \/ (depth = 1 /\ p < at) => p \in skipped[1] \/ InDestroy(p)

SweepInv == SweepTypeOK /\ FramesSound /\ RefCountsExact /\ Separate /\ DevicesStay /\ DependentsFirst /\ LastPass

-----------------------------------------------------------------------------
\* "All objects except the root system object have been destroyed" (the postcondition at objects.c:533).
AllDestroyed == depth = 0 => live = {}
=============================================================================
