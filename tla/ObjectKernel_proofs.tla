------------------------- MODULE ObjectKernel_proofs -------------------------
(***************************************************************************)
(* Proofs about ObjectKernel: its types, who receives a message after a    *)
(* wait, and that an object is used by one thread at a time.               *)
(***************************************************************************)
EXTENDS ObjectKernelInv, SequenceTheorems, TLAPS

-----------------------------------------------------------------------------
(* The three things that happen to a stack of calls.                       *)

LEMMA PushStack ==
  ASSUME NEW S, NEW s \in Seq(S), NEW f \in S
  PROVE  /\ Append(s, f) \in Seq(S)
         /\ Len(s) \in Nat
         /\ Len(Append(s, f)) = Len(s) + 1
         /\ \A i \in 1..Len(s) : Append(s, f)[i] = s[i]
         /\ Append(s, f)[Len(s) + 1] = f
  BY AppendProperties

LEMMA PopStack ==
  ASSUME NEW S, NEW s \in Seq(S), s # << >>
  PROVE  /\ Front(s) \in Seq(S)
         /\ Len(s) \in Nat /\ Len(s) > 0
         /\ Len(Front(s)) = Len(s) - 1
         /\ \A i \in 1..(Len(s) - 1) : Front(s)[i] = s[i]
         /\ Last(s) = s[Len(s)] /\ Last(s) \in S
<1>1. Len(s) \in Nat /\ Len(s) > 0 /\ \A i \in 1..Len(s) : s[i] \in S
  BY EmptySeq, LenProperties, ElementOfSeq
<1>2. \A i \in 1..(Len(s) - 1) : s[i] \in S
  BY <1>1
<1> DEFINE n == Len(s) - 1
<1>2a. n \in Nat /\ 1 \in Int /\ n \in Int
  BY <1>1
<1>3. /\ SubSeq(s, 1, Len(s) - 1) \in Seq(S)
      /\ Len(SubSeq(s, 1, Len(s) - 1))
           = IF 1 <= Len(s) - 1 THEN Len(s) - 1 - 1 + 1 ELSE 0
      /\ \A i \in 1..(Len(s) - 1 - 1 + 1) :
           SubSeq(s, 1, Len(s) - 1)[i] = s[1 + i - 1]
  BY <1>1, <1>2, SubSeqProperties
<1>4. \A i \in 1..(Len(s) - 1) : SubSeq(s, 1, Len(s) - 1)[i] = s[i]
  BY <1>1, <1>3
<1>5. Len(SubSeq(s, 1, n)) = n
  <2>1. Len(SubSeq(s, 1, n)) = IF 1 <= n THEN n - 1 + 1 ELSE 0
    BY <1>3
  <2> HIDE DEF n
  <2>2. n \in Nat
    BY <1>2a
  <2> QED
    BY <2>1, <2>2
<1>6. Front(s) = SubSeq(s, 1, Len(s) - 1) /\ Last(s) = s[Len(s)]
  BY DEF Front, Last
<1>7. Last(s) \in S
  BY <1>1, <1>6
<1> QED
  BY <1>1, <1>3, <1>4, <1>5, <1>6, <1>7

LEMMA ReplaceStack ==
  ASSUME NEW S, NEW s \in Seq(S), s # << >>, NEW f \in S
  PROVE  /\ Append(Front(s), f) \in Seq(S)
         /\ Len(s) \in Nat /\ Len(s) > 0
         /\ Len(Append(Front(s), f)) = Len(s)
         /\ \A i \in 1..(Len(s) - 1) : Append(Front(s), f)[i] = s[i]
         /\ Append(Front(s), f)[Len(s)] = f
<1>1. /\ Front(s) \in Seq(S) /\ Len(s) \in Nat /\ Len(s) > 0
      /\ Len(Front(s)) = Len(s) - 1
      /\ \A i \in 1..(Len(s) - 1) : Front(s)[i] = s[i]
  BY PopStack
<1>2. /\ Append(Front(s), f) \in Seq(S)
      /\ Len(Append(Front(s), f)) = Len(Front(s)) + 1
      /\ \A i \in 1..Len(Front(s)) : Append(Front(s), f)[i] = Front(s)[i]
      /\ Append(Front(s), f)[Len(Front(s)) + 1] = f
  BY <1>1, PushStack
<1> QED
  BY <1>1, <1>2

-----------------------------------------------------------------------------
(* Type correctness. *)

FramesTyped(s) ==
  /\ s \in Seq(Frame)
  /\ \A i \in 1..Len(s) : s[i].at # "create" => s[i].handle \in Handles

StacksTyped == stack \in [Threads -> Seq(Frame)] /\ \A t \in Threads : FramesTyped(stack[t])

LEMMA TypeOKSplit ==
  TypeOK <=> /\ objectTable \in [Handles -> Entry]
             /\ objectUniqueID \in Nat \ {0}
             /\ StacksTyped
             /\ shutdown \in BOOLEAN
  BY DEF TypeOK, StacksTyped, FramesTyped

LEMMA PushTyped ==
  ASSUME NEW s, FramesTyped(s), NEW f \in Frame,
         f.at # "create" => f.handle \in Handles
  PROVE  FramesTyped(Append(s, f))
  BY PushStack DEF FramesTyped

LEMMA PopTyped ==
  ASSUME NEW s, FramesTyped(s), s # << >>
  PROVE  FramesTyped(Front(s))
<1>1. /\ Front(s) \in Seq(Frame) /\ Len(s) \in Nat /\ Len(Front(s)) = Len(s) - 1
      /\ \A i \in 1..(Len(s) - 1) : Front(s)[i] = s[i]
  BY PopStack DEF FramesTyped
<1> QED
  BY <1>1 DEF FramesTyped

LEMMA ReplaceTyped ==
  ASSUME NEW s, FramesTyped(s), s # << >>, NEW f \in Frame,
         f.at # "create" => f.handle \in Handles
  PROVE  FramesTyped(Append(Front(s), f))
  BY PopTyped, PushTyped

LEMMA StackTyped ==
  ASSUME StacksTyped, NEW t \in Threads, NEW s, FramesTyped(s),
         stack' = [stack EXCEPT ![t] = s]
  PROVE  StacksTyped'
  BY DEF StacksTyped, FramesTyped

(* The innermost call of a thread that is in one.                          *)
LEMMA TopTyped ==
  ASSUME TypeOK, NEW t \in Threads, stack[t] # << >>
  PROVE  /\ FramesTyped(stack[t]) /\ Top(t) \in Frame
         /\ Top(t) = stack[t][Len(stack[t])]
         /\ Top(t).at # "create" => Top(t).handle \in Handles /\ Obj(t) \in Entry
<1>1. stack[t] \in Seq(Frame)
  BY DEF TypeOK
<1>2. /\ Len(stack[t]) \in Nat /\ Len(stack[t]) > 0
      /\ Last(stack[t]) = stack[t][Len(stack[t])] /\ Last(stack[t]) \in Frame
  BY <1>1, PopStack
<1>3. Len(stack[t]) \in 1..Len(stack[t])
  BY <1>2
<1>4. Top(t).at # "create" => Top(t).handle \in Handles
  BY <1>2, <1>3 DEF TypeOK, Top
<1> QED
  BY <1>1, <1>2, <1>4 DEF TypeOK, FramesTyped, Top, Obj

LEMMA NewFrameTyped ==
  ASSUME NEW at \in Places, NEW h \in Handles \union {NoHandle}, NEW uid \in Nat,
         NEW msg \in Messages
  PROVE  NewFrame(at, h, uid, msg) \in Frame
  BY DEF NewFrame, Frame

LEMMA PushKeepsTyped ==
  ASSUME TypeOK, NEW t \in Threads, NEW f \in Frame,
         f.at # "create" => f.handle \in Handles, Push(t, f)
  PROVE  StacksTyped'
<1>1. FramesTyped(stack[t]) /\ StacksTyped
  BY TypeOKSplit DEF StacksTyped
<1> QED
  BY <1>1, PushTyped, StackTyped DEF Push

LEMMA PopKeepsTyped ==
  ASSUME TypeOK, NEW t \in Threads, stack[t] # << >>, Return(t)
  PROVE  StacksTyped'
<1>1. FramesTyped(stack[t]) /\ StacksTyped
  BY TypeOKSplit DEF StacksTyped
<1> QED
  BY <1>1, PopTyped, StackTyped DEF Return

LEMMA ReplaceKeepsTyped ==
  ASSUME TypeOK, NEW t \in Threads, stack[t] # << >>, NEW f \in Frame,
         f.at # "create" => f.handle \in Handles, Replace(t, f)
  PROVE  StacksTyped'
<1>1. FramesTyped(stack[t]) /\ StacksTyped
  BY TypeOKSplit DEF StacksTyped
<1> QED
  BY <1>1, ReplaceTyped, StackTyped DEF Replace

LEMMA SetEntryTyped ==
  ASSUME TypeOK, NEW h \in Handles, NEW o \in Entry, SetEntry(h, o)
  PROVE  objectTable' \in [Handles -> Entry]
  BY DEF TypeOK, SetEntry

LEMMA EnterHandlerTyped ==
  ASSUME TypeOK, NEW t \in Threads, stack[t] # << >>, Top(t).handle \in Handles,
         NEW o \in Entry, NEW uid \in Nat, NEW m \in Messages,
         EnterHandler(t, o, uid, m)
  PROVE  objectTable' \in [Handles -> Entry] /\ StacksTyped'
<1> DEFINE f == [NewFrame("handler", Top(t).handle, uid, m) EXCEPT !.n = o.lockCount]
<1>1. [o EXCEPT !.lockCount = @ + 1, !.lockOwner = t] \in Entry
  <2>1. o.lockCount + 1 \in Int /\ t \in Threads \union {NoThread}
    BY DEF Entry
  <2> QED
    BY <2>1 DEF Entry
<1>2. f \in Frame /\ f.handle \in Handles
  <2>1. NewFrame("handler", Top(t).handle, uid, m) \in Frame
    BY NewFrameTyped DEF Places
  <2>2. o.lockCount \in Int
    BY DEF Entry
  <2>3. f \in Frame
    BY <2>1, <2>2 DEF Frame
  <2> QED
    BY <2>3 DEF NewFrame
<1> QED
  BY <1>1, <1>2, SetEntryTyped, ReplaceKeepsTyped DEF EnterHandler

LEMMA EntryUpdates ==
  ASSUME NEW o \in Entry, NEW i \in Int, NEW b \in BOOLEAN
  PROVE  /\ [o EXCEPT !.intRefCount = i] \in Entry
         /\ [o EXCEPT !.extRefCount = i] \in Entry
         /\ [o EXCEPT !.lockCount = i] \in Entry
         /\ [o EXCEPT !.notinited = b] \in Entry
         /\ [o EXCEPT !.signalled = b] \in Entry
         /\ [o EXCEPT !.dependentObject = NoHandle] \in Entry
         /\ [o EXCEPT !.extRefCount = i, !.internal = b] \in Entry
         /\ o.intRefCount \in Int /\ o.extRefCount \in Int /\ o.lockCount \in Int
         /\ o.uniqueID \in Nat /\ o.internal \in BOOLEAN
         /\ o.dependentObject \in Handles \union {NoHandle}
  BY DEF Entry

LEMMA DropRefTyped ==
  ASSUME NEW o \in Entry, NEW external \in BOOLEAN
  PROVE  DropRef(o, external) \in Entry
<1>1. /\ o.extRefCount - 1 \in Int /\ o.intRefCount - 1 \in Int
      /\ (o.internal \/ o.extRefCount = 1) \in BOOLEAN
  <2>1. o.extRefCount \in Int /\ o.intRefCount \in Int
    BY DEF Entry
  <2>2. (o.internal \/ o.extRefCount = 1) \in BOOLEAN
    OBVIOUS
  <2> QED
    BY <2>1, <2>2
<1>2. CASE external
  <2>1. [o EXCEPT !.extRefCount = o.extRefCount - 1,
                  !.internal = o.internal \/ o.extRefCount = 1] \in Entry
    BY <1>1, EntryUpdates
  <2> QED
    BY <1>2, <2>1 DEF DropRef
<1>3. CASE ~external
  <2>1. [o EXCEPT !.intRefCount = o.intRefCount - 1] \in Entry
    BY <1>1, EntryUpdates
  <2> QED
    BY <1>3, <2>1 DEF DropRef
<1> QED
  BY <1>2, <1>3

LEMMA SignalTyped ==
  ASSUME NEW o \in Entry
  PROVE  /\ Signal(o) \in Entry
         /\ [Signal(o) EXCEPT !.dependentObject = NoHandle] \in Entry
<1>1. Signal(o) \in Entry
  BY DEF Signal, Entry
<1> QED
  BY <1>1 DEF Entry

(* A call that is not a create, as the lemmas below need it.               *)
LEMMA InCall ==
  ASSUME TypeOK, NEW t \in Threads, NEW p, At(t, p), p # "create"
  PROVE  /\ stack[t] # << >> /\ Top(t) \in Frame /\ Top(t).handle \in Handles
         /\ Obj(t) \in Entry /\ Top(t).at = p /\ Effective(t) \in Messages
<1>1. stack[t] # << >> /\ Top(t).at = p
  BY DEF At
<1>2. Top(t) \in Frame /\ Top(t).handle \in Handles /\ Obj(t) \in Entry
  BY <1>1, TopTyped
<1>3. Effective(t) \in Messages
  BY <1>2 DEF Effective, Frame, Messages
<1> QED
  BY <1>1, <1>2, <1>3

LEMMA ReleaseDependentTyped ==
  ASSUME TypeOK, NEW t \in Threads, NEW p, At(t, p), p # "create",
         HasDependent(Obj(t)), ReleaseDependent(t, Obj(t))
  PROVE  objectTable' \in [Handles -> Entry] /\ StacksTyped'
<1> DEFINE o == Obj(t)
           d == o.dependentObject
           dropped == IF HasRef(objectTable[d], FALSE)
                      THEN DropRef(objectTable[d], FALSE) ELSE objectTable[d]
           q == [Signal(o) EXCEPT !.dependentObject = NoHandle,
                                  !.lockCount = @ + 1, !.lockOwner = t]
           waiting == [Top(t) EXCEPT !.at = "predep", !.uid = o.uniqueID,
                                     !.msg = Effective(t), !.other = d]
           inner == NewFrame("call", d, 0, "destroy")
           running == [NewFrame("handler", Top(t).handle, o.uniqueID, Effective(t))
                         EXCEPT !.n = o.lockCount]
<1>1. /\ stack[t] # << >> /\ Top(t) \in Frame /\ Top(t).handle \in Handles
      /\ o \in Entry /\ Effective(t) \in Messages
  BY InCall
<1>2. d \in Handles /\ o.uniqueID \in Nat /\ o.lockCount \in Int
  BY <1>1 DEF HasDependent, Entry
<1>3. dropped \in Entry
  BY <1>2, DropRefTyped DEF TypeOK
<1>4. CASE HasRef(objectTable[d], FALSE) /\ ~Referenced(dropped)
  <2>1. waiting \in Frame /\ waiting.handle \in Handles
    <3>1. "predep" \in Places /\ o.uniqueID \in Nat /\ d \in Handles \union {NoHandle}
      BY <1>2 DEF Places
    <3> QED
      BY <1>1, <3>1 DEF Frame
  <2>2. inner \in Frame /\ inner.handle \in Handles
    <3>1. "call" \in Places /\ "destroy" \in Messages /\ 0 \in Nat
      BY DEF Places, Messages
    <3> QED
      BY <1>2, <3>1, NewFrameTyped DEF NewFrame
  <2>3. FramesTyped(stack[t]) /\ StacksTyped
    BY TypeOKSplit DEF StacksTyped
  <2>4. FramesTyped(Append(Append(Front(stack[t]), waiting), inner))
    BY <1>1, <2>1, <2>2, <2>3, ReplaceTyped, PushTyped
  <2>5. stack' = [stack EXCEPT ![t] = Append(Append(Front(@), waiting), inner)]
        /\ SetEntry(d, dropped)
    BY <1>4 DEF ReleaseDependent
  <2> HIDE DEF waiting, inner, dropped, d, o
  <2>6. StacksTyped'
    BY <2>3, <2>4, <2>5, StackTyped
  <2> QED
    BY <1>2, <1>3, <2>5, <2>6, SetEntryTyped
<1>5. CASE ~(HasRef(objectTable[d], FALSE) /\ ~Referenced(dropped))
  <2>1. q \in Entry
    <3>1. [Signal(o) EXCEPT !.dependentObject = NoHandle] \in Entry
          /\ Signal(o).lockCount = o.lockCount
      BY <1>1, SignalTyped DEF Signal, Entry
    <3>2. o.lockCount + 1 \in Int /\ t \in Threads \union {NoThread}
      BY <1>2
    <3> QED
      BY <3>1, <3>2 DEF Entry, Signal
  <2>2. running \in Frame /\ running.handle \in Handles
    <3>1. NewFrame("handler", Top(t).handle, o.uniqueID, Effective(t)) \in Frame
      BY <1>1, <1>2, NewFrameTyped DEF Places
    <3>2. running \in Frame
      BY <1>2, <3>1 DEF Frame
    <3> QED
      BY <1>1, <3>2 DEF NewFrame
  <2>3. objectTable' = [objectTable EXCEPT ![d] = dropped, ![Top(t).handle] = q]
        /\ Replace(t, running)
    BY <1>5 DEF ReleaseDependent
  <2>4. StacksTyped'
    BY <1>1, <2>2, <2>3, ReplaceKeepsTyped
  <2> HIDE DEF running, dropped, d, o, q
  <2>5. objectTable' \in [Handles -> Entry]
    BY <1>3, <2>1, <2>3 DEF TypeOK
  <2> QED
    BY <2>4, <2>5
<1> QED
  BY <1>4, <1>5

LEMMA ProcessTyped ==
  ASSUME TypeOK, NEW t \in Threads, NEW p, At(t, p), p # "create", Process(t)
  PROVE  objectTable' \in [Handles -> Entry] /\ StacksTyped'
<1> DEFINE o == Obj(t)
<1>1. /\ stack[t] # << >> /\ Top(t) \in Frame /\ Top(t).handle \in Handles
      /\ o \in Entry /\ Effective(t) \in Messages
  BY InCall
<1>2. Signal(o) \in Entry /\ o.uniqueID \in Nat
  BY <1>1, SignalTyped DEF Entry
<1>3. CASE /\ SetEntry(Top(t).handle, Signal(o)) \/ UNCHANGED objectTable
           /\ Return(t)
  BY <1>1, <1>2, <1>3, SetEntryTyped, PopKeepsTyped DEF TypeOK
<1>4. CASE EnterHandler(t, o, o.uniqueID, Effective(t))
  BY <1>1, <1>2, <1>4, EnterHandlerTyped
<1>5. CASE HasDependent(o) /\ ReleaseDependent(t, o)
  BY <1>5, ReleaseDependentTyped
<1>6. CASE EnterHandler(t, Signal(o), o.uniqueID, Effective(t))
  BY <1>1, <1>2, <1>6, EnterHandlerTyped
<1> QED
  BY <1>3, <1>4, <1>5, <1>6 DEF Process

LEMMA FreeEntryTyped == FreeEntry \in Entry
  BY DEF FreeEntry, Entry

LEMMA NewEntryTyped ==
  ASSUME NEW uid \in Nat
  PROVE  NewEntry(uid) \in Entry
<1> DEFINE e == [FreeEntry EXCEPT !.uniqueID = uid, !.notinited = TRUE,
                                  !.internal = TRUE]
<1>1. e \in Entry
  BY FreeEntryTyped DEF Entry
<1>2. NewEntry(uid) = [e EXCEPT !.intRefCount = 1]
  BY DEF NewEntry, FreeEntry
<1> HIDE DEF e
<1>3. [e EXCEPT !.intRefCount = 1] \in Entry
  BY <1>1 DEF Entry
<1> QED
  BY <1>2, <1>3

(* Creating an object.                                                     *)
LEMMA CreatingTyped ==
  ASSUME TypeOK, NEW t \in Threads,
         \/ BeginCreate(t) \/ RejectCreate(t) \/ \E h \in Handles : EnterObject(t, h)
         \/ FailInit(t) \/ CompleteInit(t) \/ Publish(t)
  PROVE  /\ objectTable' \in [Handles -> Entry] /\ StacksTyped'
         /\ objectUniqueID' \in Nat \ {0} /\ shutdown' \in BOOLEAN
<1>1. CASE BeginCreate(t)
  <2>1. NewFrame("create", NoHandle, 0, "none") \in Frame
        /\ NewFrame("create", NoHandle, 0, "none").at = "create"
    BY NewFrameTyped DEF Places, Messages, NewFrame
  <2> QED
    BY <1>1, <2>1, PushKeepsTyped DEF BeginCreate, TypeOK
<1>2. CASE RejectCreate(t)
  BY <1>2, PopKeepsTyped DEF RejectCreate, At, TypeOK
<1>3. CASE \E h \in Handles : EnterObject(t, h)
  <2>1. PICK h \in Handles : EnterObject(t, h)
    BY <1>3
  <2>2. objectUniqueID \in Nat \ {0} /\ stack[t] # << >>
    BY <2>1 DEF TypeOK, EnterObject, At
  <2>3. NewEntry(objectUniqueID) \in Entry
    BY <2>2, NewEntryTyped
  <2>4. NewFrame("init", h, objectUniqueID, "none") \in Frame
        /\ NewFrame("init", h, objectUniqueID, "none").handle = h
    BY <2>2, NewFrameTyped DEF Places, Messages, NewFrame
  <2> QED
    BY <2>1, <2>2, <2>3, <2>4, SetEntryTyped, ReplaceKeepsTyped
    DEF EnterObject, TypeOK
<1>4. CASE FailInit(t)
  <2>1. Top(t).handle \in Handles
    BY <1>4, InCall DEF FailInit
  <2>2. NewFrame("call", Top(t).handle, 0, "destroy") \in Frame
        /\ NewFrame("call", Top(t).handle, 0, "destroy").handle = Top(t).handle
    BY <2>1, NewFrameTyped DEF Places, Messages, NewFrame
  <2> QED
    BY <1>4, <2>1, <2>2, PushKeepsTyped DEF FailInit, TypeOK
<1>5. CASE CompleteInit(t)
  <2>1. stack[t] # << >> /\ Top(t) \in Frame /\ Top(t).handle \in Handles
    BY <1>5, InCall DEF CompleteInit
  <2>2. [Top(t) EXCEPT !.at = "call", !.msg = "ready"] \in Frame
        /\ [Top(t) EXCEPT !.at = "call", !.msg = "ready"].handle \in Handles
    BY <2>1 DEF Frame, Places, Messages
  <2> QED
    BY <1>5, <2>1, <2>2, PopKeepsTyped, ReplaceKeepsTyped DEF CompleteInit, TypeOK
<1>6. CASE Publish(t)
  <2>1. stack[t] # << >> /\ Top(t).handle \in Handles /\ Obj(t) \in Entry
    BY <1>6, InCall DEF Publish
  <2>2. [Obj(t) EXCEPT !.internal = FALSE, !.intRefCount = @ - 1,
                       !.extRefCount = @ + 1] \in Entry
    <3>1. Obj(t).intRefCount - 1 \in Int /\ Obj(t).extRefCount + 1 \in Int
      BY <2>1 DEF Entry
    <3> QED
      BY <2>1, <3>1 DEF Entry
  <2> QED
    BY <1>6, <2>1, <2>2, PopKeepsTyped, SetEntryTyped DEF Publish, TypeOK
<1> QED
  BY <1>1, <1>2, <1>3, <1>4, <1>5, <1>6

(* Messages on their way to an object.                                     *)
LEMMA SendingTyped ==
  ASSUME TypeOK, NEW t \in Threads,
         \/ \E h \in Handles, m \in MayBeSent : Send(t, h, m)
         \/ RejectHandle(t) \/ IncRef(t) \/ DecRef(t) \/ Ready(t)
         \/ LockObject(t) \/ UnlockObject(t)
  PROVE  /\ objectTable' \in [Handles -> Entry] /\ StacksTyped'
         /\ objectUniqueID' \in Nat \ {0} /\ shutdown' \in BOOLEAN
<1>1. CASE \E h \in Handles, m \in MayBeSent : Send(t, h, m)
  <2>1. PICK h \in Handles, m \in MayBeSent : Send(t, h, m)
    BY <1>1
  <2>2. NewFrame("call", h, 0, m) \in Frame /\ NewFrame("call", h, 0, m).handle = h
    BY NewFrameTyped DEF Places, Messages, NewFrame
  <2> QED
    BY <2>1, <2>2, PushKeepsTyped DEF Send, TypeOK
<1>2. CASE RejectHandle(t)
  BY <1>2, PopKeepsTyped DEF RejectHandle, At, TypeOK
<1>3. CASE IncRef(t)
  <2>1. stack[t] # << >> /\ Top(t).handle \in Handles /\ Obj(t) \in Entry
    BY <1>3, InCall DEF IncRef, Call
  <2>2. [Obj(t) EXCEPT !.intRefCount = @ + 1] \in Entry
    BY <2>1 DEF Entry
  <2> QED
    BY <1>3, <2>1, <2>2, PopKeepsTyped, SetEntryTyped DEF IncRef, TypeOK
<1>4. CASE DecRef(t)
  <2>1. stack[t] # << >> /\ Top(t).handle \in Handles /\ Obj(t) \in Entry
    BY <1>4, InCall DEF DecRef, Call
  <2>2. External(t) \in BOOLEAN
    BY DEF External
  <2>3. DropRef(Obj(t), External(t)) \in Entry
    BY <2>1, <2>2, DropRefTyped
  <2>4. NewFrame("call", Top(t).handle, 0, "destroy") \in Frame
        /\ NewFrame("call", Top(t).handle, 0, "destroy").handle = Top(t).handle
    BY <2>1, NewFrameTyped DEF Places, Messages, NewFrame
  <2>5. Return(t) \/ Replace(t, NewFrame("call", Top(t).handle, 0, "destroy"))
    BY <1>4 DEF DecRef
  <2>6. StacksTyped'
    BY <2>1, <2>4, <2>5, PopKeepsTyped, ReplaceKeepsTyped
  <2>7. UNCHANGED objectTable \/ SetEntry(Top(t).handle, DropRef(Obj(t), External(t)))
    BY <1>4 DEF DecRef
  <2> QED
    BY <1>4, <2>1, <2>3, <2>6, <2>7, SetEntryTyped DEF DecRef, TypeOK
<1>5. CASE Ready(t)
  <2>1. stack[t] # << >> /\ Top(t).handle \in Handles /\ Obj(t) \in Entry
        /\ Top(t) \in Frame
    BY <1>5, InCall DEF Ready, Call
  <2>2. [Obj(t) EXCEPT !.notinited = FALSE] \in Entry
    BY <2>1 DEF Entry
  <2>3. [Top(t) EXCEPT !.at = "publish"] \in Frame
        /\ [Top(t) EXCEPT !.at = "publish"].handle \in Handles
    BY <2>1 DEF Frame, Places
  <2> QED
    BY <1>5, <2>1, <2>2, <2>3, PopKeepsTyped, ReplaceKeepsTyped, SetEntryTyped
    DEF Ready, TypeOK
<1>6. CASE LockObject(t)
  <2>1. stack[t] # << >> /\ Top(t).handle \in Handles /\ Obj(t) \in Entry
        /\ Top(t) \in Frame
    BY <1>6, InCall DEF LockObject, Call
  <2>2. [Obj(t) EXCEPT !.lockCount = @ + 1, !.lockOwner = t] \in Entry
    <3>1. Obj(t).lockCount + 1 \in Int /\ t \in Threads \union {NoThread}
      BY <2>1 DEF Entry
    <3> QED
      BY <2>1, <3>1 DEF Entry
  <2>3. [Top(t) EXCEPT !.at = "locked", !.uid = Obj(t).uniqueID] \in Frame
        /\ [Top(t) EXCEPT !.at = "locked", !.uid = Obj(t).uniqueID].handle \in Handles
    <3>1. Obj(t).uniqueID \in Nat
      BY <2>1 DEF Entry
    <3> QED
      BY <2>1, <3>1 DEF Frame, Places
  <2> QED
    BY <1>6, <2>1, <2>2, <2>3, ReplaceKeepsTyped, SetEntryTyped DEF LockObject, TypeOK
<1>7. CASE UnlockObject(t)
  <2>1. stack[t] # << >> /\ Top(t).handle \in Handles /\ Obj(t) \in Entry
    BY <1>7, InCall DEF UnlockObject
  <2>2. [Obj(t) EXCEPT !.lockCount = @ - 1] \in Entry
    BY <2>1 DEF Entry
  <2> QED
    BY <1>7, <2>1, <2>2, PopKeepsTyped, SetEntryTyped DEF UnlockObject, TypeOK
<1> QED
  BY <1>1, <1>2, <1>3, <1>4, <1>5, <1>6, <1>7

(* Messages that are dispatched to a handler.                              *)
LEMMA DispatchingTyped ==
  ASSUME TypeOK, NEW t \in Threads,
         \/ DispatchDirect(t) \/ RejectNesting(t) \/ BeginWait(t) \/ DispatchQueued(t)
         \/ KeepWaiting(t) \/ AbandonWait(t) \/ EndWait(t)
         \/ HandlerReturn(t) \/ ResumeDestroy(t)
  PROVE  /\ objectTable' \in [Handles -> Entry] /\ StacksTyped'
         /\ objectUniqueID' \in Nat \ {0} /\ shutdown' \in BOOLEAN
<1>1. CASE DispatchDirect(t)
  <2>1. /\ stack[t] # << >> /\ Top(t).handle \in Handles
        /\ Obj(t) \in Entry /\ Obj(t).uniqueID \in Nat /\ "use" \in Messages
    BY <1>1, InCall DEF DispatchDirect, Dispatching, Entry, Messages, MayBeSent
  <2>2. \/ Return(t) /\ UNCHANGED objectTable
        \/ EnterHandler(t, Obj(t), Obj(t).uniqueID, "use")
    BY <1>1 DEF DispatchDirect
  <2>3. objectTable' \in [Handles -> Entry] /\ StacksTyped'
    BY <2>1, <2>2, PopKeepsTyped, EnterHandlerTyped DEF TypeOK
  <2> QED
    BY <1>1, <2>3 DEF DispatchDirect, TypeOK
<1>2. CASE RejectNesting(t)
  BY <1>2, PopKeepsTyped DEF RejectNesting, Enqueueing, Dispatching, At, TypeOK
<1>3. CASE BeginWait(t)
  <2>1. /\ stack[t] # << >> /\ Top(t) \in Frame /\ Top(t).handle \in Handles
        /\ Obj(t) \in Entry /\ Effective(t) \in Messages /\ Obj(t).uniqueID \in Nat
    BY <1>3, InCall DEF BeginWait, Enqueueing, Dispatching, Entry
  <2> DEFINE f == [Top(t) EXCEPT !.at = "wait", !.uid = Obj(t).uniqueID,
                                 !.msg = Effective(t)]
  <2>2. f \in Frame /\ f.handle \in Handles
    BY <2>1 DEF Frame, Places
  <2>3. Return(t) \/ Replace(t, f)
    BY <1>3 DEF BeginWait
  <2> HIDE DEF f
  <2>4. StacksTyped'
    BY <2>1, <2>2, <2>3, PopKeepsTyped, ReplaceKeepsTyped
  <2> QED
    BY <1>3, <2>4 DEF BeginWait, TypeOK
<1>4. CASE DispatchQueued(t)
  BY <1>4, ProcessTyped DEF DispatchQueued, Enqueueing, Dispatching, TypeOK
<1>5. CASE KeepWaiting(t)
  <2>1. stack[t] # << >> /\ Top(t) \in Frame /\ Top(t).handle \in Handles
    BY <1>5, InCall DEF KeepWaiting
  <2>2. [Top(t) EXCEPT !.n = Polls(t)] \in Frame
        /\ [Top(t) EXCEPT !.n = Polls(t)].handle \in Handles
    BY <2>1 DEF Frame, Polls
  <2> QED
    BY <1>5, <2>1, <2>2, ReplaceKeepsTyped DEF KeepWaiting, TypeOK
<1>6. CASE AbandonWait(t)
  BY <1>6, PopKeepsTyped DEF AbandonWait, At, TypeOK
<1>7. CASE EndWait(t)
  BY <1>7, ProcessTyped DEF EndWait, TypeOK
<1>8. CASE HandlerReturn(t)
  <2>1. stack[t] # << >> /\ Top(t).handle \in Handles /\ Obj(t) \in Entry
    BY <1>8, InCall DEF HandlerReturn
  <2>2. [Obj(t) EXCEPT !.lockCount = @ - 1] \in Entry
    BY <2>1 DEF Entry
  <2>3. \/ UNCHANGED objectTable
        \/ SetEntry(Top(t).handle, FreeEntry)
        \/ SetEntry(Top(t).handle, [Obj(t) EXCEPT !.lockCount = @ - 1])
    BY <1>8 DEF HandlerReturn
  <2>4. objectTable' \in [Handles -> Entry]
    BY <2>1, <2>2, <2>3, SetEntryTyped, FreeEntryTyped DEF TypeOK
  <2> QED
    BY <1>8, <2>1, <2>4, PopKeepsTyped DEF HandlerReturn, TypeOK
<1>9. CASE ResumeDestroy(t)
  <2>1. /\ stack[t] # << >> /\ Top(t).handle \in Handles /\ Obj(t) \in Entry
        /\ Top(t).uid \in Nat /\ Top(t).msg \in Messages
    BY <1>9, InCall DEF ResumeDestroy, Frame
  <2>2. [Signal(Obj(t)) EXCEPT !.dependentObject = NoHandle] \in Entry
    BY <2>1, SignalTyped
  <2> QED
    BY <1>9, <2>1, <2>2, EnterHandlerTyped DEF ResumeDestroy, TypeOK
<1> QED
  BY <1>1, <1>2, <1>3, <1>4, <1>5, <1>6, <1>7, <1>8, <1>9

(* Dependent objects.                                                      *)
LEMMA DependingTyped ==
  ASSUME TypeOK, NEW t \in Threads,
         \/ \E h, d \in Handles, inc \in BOOLEAN : SetDependent(t, h, d, inc)
         \/ FailDependent(t) \/ FinishDependent(t)
  PROVE  /\ objectTable' \in [Handles -> Entry] /\ StacksTyped'
         /\ objectUniqueID' \in Nat \ {0} /\ shutdown' \in BOOLEAN
<1>1. CASE \E h, d \in Handles, inc \in BOOLEAN : SetDependent(t, h, d, inc)
  <2>1. PICK h, d \in Handles, inc \in BOOLEAN : SetDependent(t, h, d, inc)
    BY <1>1
  <2> DEFINE f == [at |-> "setdep", handle |-> h, uid |-> objectTable[h].uniqueID,
                   msg |-> "none", n |-> IF inc THEN 1 ELSE 0, other |-> d]
  <2>2. objectTable[h].uniqueID \in Nat /\ (IF inc THEN 1 ELSE 0) \in Int
    BY DEF TypeOK, Entry
  <2>3. f \in Frame /\ f.handle \in Handles
    BY <2>2 DEF Frame, Places, Messages
  <2>4. Push(t, f)
    BY <2>1 DEF SetDependent
  <2> HIDE DEF f
  <2>5. StacksTyped'
    BY <2>3, <2>4, PushKeepsTyped
  <2> QED
    BY <2>1, <2>5 DEF SetDependent, TypeOK
<1>2. CASE FailDependent(t)
  BY <1>2, PopKeepsTyped DEF FailDependent, At, TypeOK
<1>3. CASE FinishDependent(t)
  <2>1. stack[t] # << >> /\ Top(t) \in Frame /\ Top(t).handle \in Handles
    BY <1>3, InCall DEF FinishDependent
  <2> DEFINE k == Top(t).other
             table == [objectTable EXCEPT ![k].intRefCount = @ + Top(t).n]
  <2>2. Top(t).n \in Int /\ k \in Handles \union {NoHandle}
    BY <2>1 DEF Frame
  <2>3. table \in [Handles -> Entry]
    <3>1. ASSUME k \in Handles
          PROVE  [objectTable[k] EXCEPT !.intRefCount = @ + Top(t).n] \in Entry
      <4>1. objectTable[k] \in Entry /\ objectTable[k].intRefCount + Top(t).n \in Int
        BY <2>2, <3>1 DEF TypeOK, Entry
      <4> QED
        BY <4>1, EntryUpdates
    <3> QED
      BY <3>1 DEF TypeOK
  <2>4. objectTable' = [table EXCEPT ![Top(t).handle].dependentObject = k]
    BY <1>3 DEF FinishDependent
  <2> HIDE DEF table, k
  <2>5. objectTable' \in [Handles -> Entry]
    <3>1. [table[Top(t).handle] EXCEPT !.dependentObject = k] \in Entry
      BY <2>1, <2>2, <2>3 DEF Entry
    <3> QED
      BY <2>3, <2>4, <3>1
  <2> QED
    BY <1>3, <2>1, <2>5, PopKeepsTyped DEF FinishDependent, TypeOK
<1> QED
  BY <1>1, <1>2, <1>3

LEMMA TypeInit == Init => TypeOK
<1> SUFFICES ASSUME Init PROVE TypeOK
  OBVIOUS
<1>1. objectTable \in [Handles -> Entry]
  BY FreeEntryTyped DEF Init
<1>2. \A t \in Threads : stack[t] = << >>
  BY DEF Init
<1>3. << >> \in Seq(Frame) /\ Len(<< >>) = 0
  BY EmptySeq
<1>4. stack \in [Threads -> Seq(Frame)]
  BY <1>3 DEF Init
<1>5. \A t \in Threads : 1..Len(stack[t]) = {}
  BY <1>2, <1>3
<1>6. objectUniqueID \in Nat \ {0}
  BY SMT DEF Init
<1>8. shutdown \in BOOLEAN
  BY Zenon DEF Init
<1>7. \A t \in Threads : \A i \in 1..Len(stack[t]) :
        stack[t][i].at # "create" => stack[t][i].handle \in Handles
  BY <1>5
<1> QED
  BY <1>1, <1>4, <1>6, <1>7, <1>8 DEF TypeOK

LEMMA TypeNext == TypeOK /\ [Next]_vars => TypeOK'
<1> SUFFICES ASSUME TypeOK, [Next]_vars
             PROVE  TypeOK'
  OBVIOUS
<1>1. CASE BeginShutdown
  BY <1>1, TypeOKSplit DEF BeginShutdown, TypeOK
<1>2. CASE UNCHANGED vars
  BY <1>2 DEF vars, TypeOK
<1>3. ASSUME NEW t \in Threads, Begin(t) \/ Finish(t) \/ Kernel(t)
      PROVE  TypeOK'
  <2>1. /\ objectTable' \in [Handles -> Entry] /\ StacksTyped'
        /\ objectUniqueID' \in Nat \ {0} /\ shutdown' \in BOOLEAN
    BY <1>3, CreatingTyped, SendingTyped, DispatchingTyped, DependingTyped
    DEF Begin, Finish, Kernel
  <2> QED
    BY <2>1 DEF TypeOK, StacksTyped, FramesTyped
<1> QED
  BY <1>1, <1>2, <1>3 DEF Next

(* Every variable of the kernel keeps to its type, for any number of       *)
(* threads and handles, with dependent objects and locked objects alike.   *)
THEOREM TypeCorrect == Spec => []TypeOK
  BY TypeInit, TypeNext, PTL DEF Spec

-----------------------------------------------------------------------------
(* A call that has waited, in any kernel.                                  *)

(* A thread's steps leave the calls of the others alone.                   *)
LEMMA OwnStack ==
  ASSUME TypeOK, NEW u \in Threads, Begin(u) \/ Finish(u) \/ Kernel(u),
         NEW t \in Threads, t # u
  PROVE  stack'[t] = stack[t]
<1>1. ASSUME NEW s, stack' = [stack EXCEPT ![u] = s]
      PROVE  stack'[t] = stack[t]
  BY <1>1 DEF TypeOK
<1>2. ASSUME NEW f, Push(u, f) \/ Replace(u, f)
      PROVE  stack'[t] = stack[t]
  BY <1>1, <1>2 DEF Push, Replace
<1>3. ASSUME Return(u)
      PROVE  stack'[t] = stack[t]
  BY <1>1, <1>3 DEF Return
<1>4. ASSUME NEW o, NEW uid, NEW m, EnterHandler(u, o, uid, m)
      PROVE  stack'[t] = stack[t]
  BY <1>2, <1>4 DEF EnterHandler
<1>5. ASSUME Process(u)
      PROVE  stack'[t] = stack[t]
  <2>1. ASSUME ReleaseDependent(u, Obj(u))
        PROVE  stack'[t] = stack[t]
    BY <1>1, <1>2, <2>1 DEF ReleaseDependent
  <2> QED
    BY <1>3, <1>4, <1>5, <2>1 DEF Process
<1>6. CASE Begin(u)
  BY <1>2, <1>6 DEF Begin, BeginCreate, FailInit, Send, SetDependent
<1>7. CASE Finish(u)
  BY <1>2, <1>3, <1>7 DEF Finish, HandlerReturn, CompleteInit, UnlockObject
<1>8. CASE \/ RejectCreate(u) \/ (\E h \in Handles : EnterObject(u, h)) \/ Publish(u)
           \/ RejectHandle(u) \/ IncRef(u) \/ DecRef(u) \/ Ready(u) \/ LockObject(u)
           \/ RejectNesting(u) \/ BeginWait(u) \/ KeepWaiting(u) \/ AbandonWait(u)
           \/ FailDependent(u) \/ FinishDependent(u)
  BY <1>2, <1>3, <1>8
  DEF RejectCreate, EnterObject, Publish, RejectHandle, IncRef, DecRef, Ready,
      LockObject, RejectNesting, BeginWait, KeepWaiting, AbandonWait, FailDependent,
      FinishDependent
<1>9. CASE DispatchDirect(u) \/ DispatchQueued(u) \/ EndWait(u) \/ ResumeDestroy(u)
  BY <1>3, <1>4, <1>5, <1>9 DEF DispatchDirect, DispatchQueued, EndWait, ResumeDestroy
<1> QED
  BY <1>6, <1>7, <1>8, <1>9 DEF Kernel

(* The innermost call when a call has been replaced by another.            *)
LEMMA TopReplaced ==
  ASSUME TypeOK, NEW t \in Threads, stack[t] # << >>, NEW f \in Frame, Replace(t, f)
  PROVE  Last(stack'[t]) = f
<1>1. stack[t] \in Seq(Frame) /\ stack'[t] = Append(Front(stack[t]), f)
  BY DEF TypeOK, Replace
<1>2. /\ Len(Append(Front(stack[t]), f)) = Len(stack[t])
      /\ Append(Front(stack[t]), f)[Len(stack[t])] = f
  BY <1>1, ReplaceStack
<1> QED
  BY <1>1, <1>2 DEF Last

LEMMA TopPushed ==
  ASSUME NEW s \in Seq(Frame), NEW f \in Frame
  PROVE  Last(Append(s, f)) = f
  BY PushStack DEF Last

LEMMA ReturnEntersNone ==
  ASSUME TypeOK, NEW t \in Threads, stack[t] # << >>, Return(t)
  PROVE  ~EntersHandler(t)
<1>1. stack[t] \in Seq(Frame) /\ stack'[t] = Front(stack[t])
  BY DEF Return, TypeOK
<1>2. Len(stack[t]) \in Nat /\ Len(Front(stack[t])) = Len(stack[t]) - 1
  BY <1>1, PopStack
<1> QED
  BY <1>1, <1>2 DEF EntersHandler

(* A call whose message goes to the handler carries the unique ID of the   *)
(* object that was found in the entry.                                     *)
LEMMA HandlerGetsObject ==
  ASSUME TypeOK, NEW t \in Threads, NEW p, At(t, p), p # "create", Process(t),
         EntersHandler(t)
  PROVE  Last(stack'[t]).uid = Obj(t).uniqueID
<1>1. /\ stack[t] # << >> /\ Top(t) \in Frame /\ Top(t).handle \in Handles
      /\ Obj(t) \in Entry /\ Effective(t) \in Messages
  BY InCall
<1>2. stack[t] \in Seq(Frame) /\ Obj(t).uniqueID \in Nat /\ Obj(t).lockCount \in Int
      /\ Signal(Obj(t)).lockCount = Obj(t).lockCount
  BY <1>1 DEF TypeOK, Entry, Signal
<1> DEFINE f == [NewFrame("handler", Top(t).handle, Obj(t).uniqueID, Effective(t))
                   EXCEPT !.n = Obj(t).lockCount]
<1>3. f \in Frame /\ f.uid = Obj(t).uniqueID
  <2>1. NewFrame("handler", Top(t).handle, Obj(t).uniqueID, Effective(t)) \in Frame
    BY <1>1, <1>2, NewFrameTyped DEF Places
  <2>2. f \in Frame
    BY <1>2, <2>1 DEF Frame
  <2> QED
    BY <2>2 DEF NewFrame
<1>4. ~Return(t)
  BY <1>1, ReturnEntersNone
<1>5. CASE \/ EnterHandler(t, Obj(t), Obj(t).uniqueID, Effective(t))
           \/ EnterHandler(t, Signal(Obj(t)), Obj(t).uniqueID, Effective(t))
  <2>1. Replace(t, f)
    BY <1>2, <1>5 DEF EnterHandler
  <2> HIDE DEF f
  <2> QED
    BY <1>1, <1>3, <2>1, TopReplaced
<1>6. CASE HasDependent(Obj(t)) /\ ReleaseDependent(t, Obj(t))
  <2> DEFINE d == Obj(t).dependentObject
             inner == NewFrame("call", d, 0, "destroy")
             waiting == [Top(t) EXCEPT !.at = "predep", !.uid = Obj(t).uniqueID,
                                       !.msg = Effective(t), !.other = d]
  <2>1. \/ stack' = [stack EXCEPT ![t] = Append(Append(Front(@), waiting), inner)]
        \/ Replace(t, f)
    BY <1>6 DEF ReleaseDependent
  <2>2. d \in Handles
    BY <1>1, <1>6 DEF HasDependent, Entry
  <2>3. inner \in Frame /\ inner.at = "call"
    BY <2>2, NewFrameTyped DEF Places, Messages, NewFrame
  <2>4. waiting \in Frame
    BY <1>1, <1>2, <2>2 DEF Frame, Places
  <2> HIDE DEF f, inner, waiting, d
  <2>5. Append(Front(stack[t]), waiting) \in Seq(Frame)
    BY <1>1, <1>2, <2>4, ReplaceStack
  <2>6. CASE stack' = [stack EXCEPT ![t] = Append(Append(Front(@), waiting), inner)]
    <3>1. stack'[t] = Append(Append(Front(stack[t]), waiting), inner)
      BY <2>6 DEF TypeOK
    <3>2. Last(stack'[t]) = inner
      BY <2>3, <2>5, <3>1, TopPushed
    <3> QED
      BY <2>3, <3>2 DEF EntersHandler
  <2>7. CASE Replace(t, f)
    BY <1>1, <1>3, <2>7, TopReplaced
  <2> QED
    BY <2>1, <2>6, <2>7
<1> QED
  BY <1>4, <1>5, <1>6 DEF Process

LEMMA StepRightRecipient ==
  ASSUME TypeOK, NEW u \in Threads, Begin(u) \/ Finish(u) \/ Kernel(u),
         NEW t \in Threads, At(t, "wait"), EntersHandler(t)
  PROVE  Last(stack'[t]).uid = Top(t).uid
<1>1. u = t
  BY OwnStack DEF EntersHandler
<1>2. CASE EndWait(t)
  <2>1. Process(t) /\ Obj(t).uniqueID = Top(t).uid
    BY <1>2 DEF EndWait, SameObject
  <2> QED
    BY <2>1, HandlerGetsObject
<1>3. CASE KeepWaiting(t) \/ AbandonWait(t)
  <2>1. stack[t] # << >> /\ Top(t) \in Frame /\ stack[t] \in Seq(Frame) /\ Top(t).at = "wait"
    BY InCall DEF TypeOK
  <2>2. CASE KeepWaiting(t)
    <3> DEFINE f == [Top(t) EXCEPT !.n = Polls(t)]
    <3>1. f \in Frame /\ f.uid = Top(t).uid
      <4>1. Polls(t) \in Int
        BY <2>1 DEF Frame, Polls
      <4> QED
        BY <2>1, <4>1 DEF Frame
    <3>2. Replace(t, f)
      BY <2>2 DEF KeepWaiting
    <3> HIDE DEF f
    <3> QED
      BY <2>1, <3>1, <3>2, TopReplaced
  <2>3. CASE AbandonWait(t)
    BY <2>1, <2>3, ReturnEntersNone DEF AbandonWait
  <2> QED
    BY <1>3, <2>2, <2>3
<1>4. Top(t).at = "wait" /\ ~MaySend(t) /\ stack[t] # << >>
  BY DEF At, MaySend
<1>5. ~Begin(t) /\ ~Finish(t)
  BY <1>4
  DEF Begin, Finish, BeginCreate, FailInit, Send, SetDependent, HandlerReturn,
      CompleteInit, UnlockObject, At
<1>6. Kernel(t) => EndWait(t) \/ KeepWaiting(t) \/ AbandonWait(t)
  BY <1>4
  DEF Kernel, RejectCreate, EnterObject, Publish, RejectHandle, IncRef, DecRef, Ready,
      LockObject, DispatchDirect, RejectNesting, BeginWait, DispatchQueued, Enqueueing,
      Dispatching, ResumeDestroy, FailDependent, FinishDependent, Call, At
<1> QED
  BY <1>1, <1>2, <1>3, <1>5, <1>6

(* In every kernel, with dependent and locked objects alike, a call that   *)
(* has waited for a busy object is only ever dispatched to that object: a  *)
(* handle that was reused meanwhile is told apart by its unique ID.        *)
THEOREM WaitersGetTheirObject == Spec => RightRecipient
<1>1. TypeOK /\ [Next]_vars =>
        [\A t \in Threads :
           At(t, "wait") /\ EntersHandler(t) => Last(stack'[t]).uid = Top(t).uid]_vars
  <2> SUFFICES ASSUME TypeOK, Next, NEW t \in Threads, At(t, "wait"), EntersHandler(t)
               PROVE  Last(stack'[t]).uid = Top(t).uid
    OBVIOUS
  <2>1. CASE BeginShutdown
    BY <2>1 DEF BeginShutdown, EntersHandler
  <2> QED
    BY <2>1, StepRightRecipient DEF Next
<1> QED
  BY <1>1, TypeCorrect, PTL DEF Spec, RightRecipient

-----------------------------------------------------------------------------
(* Exclusive use: Inv is an invariant of a plain kernel, and with it an    *)
(* object is only ever used by one thread, a handler returns to the object *)
(* it was called for, and nobody disturbs an object while it is being set  *)
(* up.                                                                     *)

(* What a step of thread t does to the stacks: of its own it keeps the     *)
(* first k calls, which is all of them or all but the innermost, and       *)
(* possibly puts a new one behind them.                                    *)
Keeps(t, k) ==
  /\ k \in Nat /\ k <= Len(stack[t]) /\ Len(stack[t]) <= k + 1
  /\ Len(stack'[t]) = k \/ Len(stack'[t]) = k + 1
  /\ \A u \in Threads : u # t => stack'[u] = stack[u]
  /\ \A i \in 1..k : stack'[t][i] = stack[t][i]

isOld(t, k, u, i) ==
  /\ i \in 1..Len(stack[u]) /\ stack'[u][i] = stack[u][i]
  /\ u = t => i <= k

isNew(t, k, u, i) == u = t /\ i = k + 1 /\ Len(stack'[t]) = k + 1

LEMMA StackLengths ==
  ASSUME TypeOK, NEW t \in Threads
  PROVE  stack[t] \in Seq(Frame) /\ Len(stack[t]) \in Nat
         /\ \A i \in 1..Len(stack[t]) : stack[t][i] \in Frame
<1>1. stack[t] \in Seq(Frame)
  BY DEF TypeOK
<1> QED
  BY <1>1, LenProperties, ElementOfSeq

(* Every call after the step is an old one or the new one, and the calls   *)
(* that it is made from are old.                                           *)
LEMMA OldOrNew ==
  ASSUME TypeOK, TypeOK', NEW t \in Threads, NEW k, Keeps(t, k),
         NEW u \in Threads, NEW i \in 1..Len(stack'[u])
  PROVE  /\ isOld(t, k, u, i) \/ isNew(t, k, u, i)
         /\ \A j \in 1..(i - 1) : isOld(t, k, u, j)
<1>1. Len(stack[u]) \in Nat /\ Len(stack[t]) \in Nat
  BY StackLengths
<1>2. CASE u # t
  BY <1>1, <1>2 DEF Keeps, isOld
<1>3. CASE u = t
  <2>1. k \in Nat /\ i \in Int /\ 1 <= i /\ i <= k + 1 /\ k <= Len(stack[t])
    BY <1>1, <1>3 DEF Keeps
  <2>2. \A j \in 1..k : isOld(t, k, u, j)
    BY <1>1, <1>3, <2>1 DEF Keeps, isOld
  <2>3. i <= k => i \in 1..k
    BY <2>1
  <2>4. i = k + 1 => isNew(t, k, u, i)
    BY <1>3, <2>1 DEF Keeps, isNew
  <2>5. \A j \in 1..(i - 1) : j \in 1..k
    BY <2>1
  <2> QED
    BY <2>1, <2>2, <2>3, <2>4, <2>5
<1> QED
  BY <1>2, <1>3

LEMMA PushKeeps ==
  ASSUME TypeOK, NEW t \in Threads, NEW f \in Frame, Push(t, f)
  PROVE  /\ Keeps(t, Len(stack[t]))
         /\ Len(stack'[t]) = Len(stack[t]) + 1
         /\ stack'[t][Len(stack[t]) + 1] = f
<1>1. stack[t] \in Seq(Frame) /\ Len(stack[t]) \in Nat
  BY StackLengths
<1>2. stack'[t] = Append(stack[t], f) /\ \A u \in Threads : u # t => stack'[u] = stack[u]
  BY DEF Push, TypeOK
<1>3. /\ Len(Append(stack[t], f)) = Len(stack[t]) + 1
      /\ \A i \in 1..Len(stack[t]) : Append(stack[t], f)[i] = stack[t][i]
      /\ Append(stack[t], f)[Len(stack[t]) + 1] = f
  BY <1>1, PushStack
<1> QED
  BY <1>1, <1>2, <1>3 DEF Keeps

LEMMA ReturnKeeps ==
  ASSUME TypeOK, NEW t \in Threads, stack[t] # << >>, Return(t)
  PROVE  /\ Keeps(t, Len(stack[t]) - 1)
         /\ Len(stack'[t]) = Len(stack[t]) - 1
         /\ Len(stack[t]) \in Nat \ {0} /\ Top(t) = stack[t][Len(stack[t])]
<1>1. stack[t] \in Seq(Frame) /\ Len(stack[t]) \in Nat
  BY StackLengths
<1>2. stack'[t] = Front(stack[t]) /\ \A u \in Threads : u # t => stack'[u] = stack[u]
  BY DEF Return, TypeOK
<1>3. /\ Len(stack[t]) > 0 /\ Len(Front(stack[t])) = Len(stack[t]) - 1
      /\ \A i \in 1..(Len(stack[t]) - 1) : Front(stack[t])[i] = stack[t][i]
      /\ Last(stack[t]) = stack[t][Len(stack[t])]
  BY <1>1, PopStack
<1> QED
  BY <1>1, <1>2, <1>3 DEF Keeps, Top

LEMMA ReplaceKeeps ==
  ASSUME TypeOK, NEW t \in Threads, stack[t] # << >>, NEW f \in Frame, Replace(t, f)
  PROVE  /\ Keeps(t, Len(stack[t]) - 1)
         /\ Len(stack'[t]) = Len(stack[t])
         /\ stack'[t][Len(stack[t])] = f
         /\ Len(stack[t]) \in Nat \ {0} /\ Top(t) = stack[t][Len(stack[t])]
<1>1. stack[t] \in Seq(Frame) /\ Len(stack[t]) \in Nat
  BY StackLengths
<1>2. /\ stack'[t] = Append(Front(stack[t]), f)
      /\ \A u \in Threads : u # t => stack'[u] = stack[u]
  BY DEF Replace, TypeOK
<1>3. /\ Len(stack[t]) > 0 /\ Len(Append(Front(stack[t]), f)) = Len(stack[t])
      /\ \A i \in 1..(Len(stack[t]) - 1) : Append(Front(stack[t]), f)[i] = stack[t][i]
      /\ Append(Front(stack[t]), f)[Len(stack[t])] = f
  BY <1>1, ReplaceStack
<1>4. Last(stack[t]) = stack[t][Len(stack[t])]
  BY <1>1, PopStack
<1> QED
  BY <1>1, <1>2, <1>3, <1>4 DEF Keeps, Top

-----------------------------------------------------------------------------
(* Steps that leave alone who is inside which object.                      *)
SameLocks ==
  \A h \in Handles :
     LET o == objectTable[h]
         p == objectTable'[h]
     IN /\ p.uniqueID = o.uniqueID /\ p.notinited = o.notinited
        /\ p.lockCount = o.lockCount /\ p.lockOwner = o.lockOwner
        /\ p.dependentObject = o.dependentObject
        /\ o.signalled => p.signalled

(* The call that goes is no handler, and the one that comes is none.  If   *)
(* it comes from an object's creator it takes the place of another such    *)
(* call, and if it is about to destroy an object it is not inside it.      *)
QuietCalls(t, k) ==
  /\ k < Len(stack[t]) => stack[t][k + 1].at # "handler"
  /\ Len(stack'[t]) = k + 1 =>
       LET f == stack'[t][k + 1] IN
       /\ PlainFrame(f) /\ f.at # "handler"
       /\ isMaking(f) =>
            /\ k < Len(stack[t]) /\ isMaking(stack[t][k + 1])
            /\ f.handle = stack[t][k + 1].handle /\ f.uid = stack[t][k + 1].uid
       /\ f.at \in {"call", "wait"} /\ f.msg \in {"decref", "destroy"} =>
            \A j \in 1..k : ~isHandler(stack[t][j], f.handle)

LEMMA QuietHandlers ==
  ASSUME Inv, TypeOK', NEW t \in Threads, NEW k, Keeps(t, k), SameLocks, QuietCalls(t, k)
  PROVE  FramesPlain' /\ HandlersOwn' /\ HandlersNest' /\ DestroyersOutside'
<1>1. TypeOK
  BY DEF Inv
<1>2. FramesPlain'
  <2>1. ASSUME NEW u \in Threads, NEW i \in 1..Len(stack'[u])
        PROVE  PlainFrame(stack'[u][i])
    <3>1. CASE isOld(t, k, u, i)
      BY <3>1 DEF Inv, FramesPlain, isOld
    <3>2. CASE isNew(t, k, u, i)
      BY <3>2 DEF QuietCalls, isNew
    <3> QED
      BY <1>1, <3>1, <3>2, OldOrNew
  <2> QED
    BY <2>1 DEF FramesPlain, Inv, SameLocks, PlainFrame
<1>3. HandlersOwn'
  <2> SUFFICES ASSUME NEW u \in Threads, NEW i \in 1..Len(stack'[u]),
                      stack'[u][i].at = "handler"
               PROVE  OwnsObject(u, i)'
    BY DEF HandlersOwn
  <2>1. isOld(t, k, u, i)
    BY <1>1, OldOrNew DEF QuietCalls, isNew
  <2>2. stack[u][i].handle \in Handles
    BY <1>1, <2>1 DEF TypeOK, isOld
  <2> QED
    BY <2>1, <2>2 DEF Inv, HandlersOwn, OwnsObject, isOld, SameLocks, isDestroy
<1>4. HandlersNest'
  <2> SUFFICES ASSUME NEW u \in Threads, NEW i \in 1..Len(stack'[u]),
                      stack'[u][i].at = "handler"
               PROVE  NestsWell(u, i)'
    BY DEF HandlersNest
  <2>1. isOld(t, k, u, i) /\ \A j \in 1..(i - 1) : isOld(t, k, u, j)
    BY <1>1, OldOrNew DEF QuietCalls, isNew
  <2> QED
    BY <2>1 DEF Inv, HandlersNest, NestsWell, isHandler, isOld
<1>5. DestroyersOutside'
  <2> SUFFICES ASSUME NEW u \in Threads, NEW i \in 1..Len(stack'[u]),
                      stack'[u][i].at \in {"call", "wait"},
                      stack'[u][i].msg \in {"decref", "destroy"},
                      NEW j \in 1..(i - 1)
               PROVE  ~isHandler(stack'[u][j], stack'[u][i].handle)
    BY DEF DestroyersOutside, isHandler
  <2>1. isOld(t, k, u, j)
    BY <1>1, OldOrNew
  <2>2. CASE isOld(t, k, u, i)
    BY <2>1, <2>2 DEF Inv, DestroyersOutside, isOld
  <2>3. CASE isNew(t, k, u, i)
    <3>1. k \in Nat
      BY DEF Keeps
    <3> QED
      BY <2>1, <2>3, <3>1 DEF QuietCalls, isNew, isOld
  <2> QED
    BY <1>1, <2>2, <2>3, OldOrNew
<1> QED
  BY <1>2, <1>3, <1>4, <1>5

LEMMA QuietLocks ==
  ASSUME Inv, TypeOK', NEW t \in Threads, NEW k, Keeps(t, k), SameLocks, QuietCalls(t, k)
  PROVE  LocksHeld'
<1>1. TypeOK /\ LocksHeld
  BY DEF Inv
<1> SUFFICES ASSUME NEW h \in Handles
             PROVE  LockHeld(h)'
  BY DEF LocksHeld
<1> DEFINE o == objectTable[h]
<1>2. objectTable'[h].lockCount = o.lockCount /\ objectTable'[h].lockOwner = o.lockOwner
  BY DEF SameLocks
<1>3. CASE o.lockCount > 0
  <2>1. PICK i \in 1..Len(stack[o.lockOwner]) :
          isHandler(stack[o.lockOwner][i], h) /\ stack[o.lockOwner][i].n = o.lockCount - 1
    BY <1>1, <1>3 DEF LocksHeld, LockHeld
  <2>2. o.lockOwner \in Threads /\ o.lockCount >= 0
    BY <1>1, <1>3 DEF LocksHeld, LockHeld
  <2>3. i \in 1..Len(stack'[o.lockOwner]) /\ stack'[o.lockOwner][i] = stack[o.lockOwner][i]
    <3>1. CASE o.lockOwner # t
      BY <2>2, <3>1 DEF Keeps
    <3>2. CASE o.lockOwner = t
      <4>1. Len(stack[t]) \in Nat
        BY <1>1, StackLengths
      <4>2. i # k + 1
        BY <2>1, <3>2 , <4>1 DEF QuietCalls, isHandler, Keeps
      <4>3. i \in 1..k
        BY <3>2, <4>1, <4>2 DEF Keeps
      <4> QED
        BY <3>2, <4>1, <4>3 DEF Keeps
    <3> QED
      BY <3>1, <3>2
  <2> QED
    BY <1>1, <1>2, <1>3, <2>1, <2>2, <2>3 DEF LockHeld, isHandler
<1>4. CASE ~(o.lockCount > 0)
  BY <1>1, <1>2, <1>4 DEF LocksHeld, LockHeld
<1> QED
  BY <1>3, <1>4

(* What MakersPin says of one creator, with the calls of all threads.      *)
LEMMA MakerFacts ==
  ASSUME Inv, NEW t \in Threads, NEW i \in 1..Len(stack[t]), isMaking(stack[t][i])
  PROVE  /\ stack[t][i].uid # 0
         /\ objectTable[stack[t][i].handle].uniqueID = stack[t][i].uid
         /\ objectTable[stack[t][i].handle].notinited
         /\ \A u \in Threads : \A j \in 1..Len(stack[u]) :
              /\ ~isHandler(stack[u][j], stack[t][i].handle)
              /\ isMaking(stack[u][j]) /\ stack[u][j].handle = stack[t][i].handle =>
                   u = t /\ j = i
  BY DEF Inv, MakersPin, Pins

LEMMA QuietMakers ==
  ASSUME Inv, TypeOK', NEW t \in Threads, NEW k, Keeps(t, k), SameLocks, QuietCalls(t, k)
  PROVE  MakersPin'
<1>1. TypeOK
  BY DEF Inv
<1>2. ASSUME NEW u \in Threads, NEW i \in 1..Len(stack'[u]), isMaking(stack'[u][i])
      PROVE  /\ i \in 1..Len(stack[u]) /\ isMaking(stack[u][i])
             /\ stack[u][i].handle = stack'[u][i].handle
             /\ stack[u][i].uid = stack'[u][i].uid
  <2>1. CASE isOld(t, k, u, i)
    BY <1>2, <2>1 DEF isOld
  <2>2. CASE isNew(t, k, u, i)
    <3>1. /\ k < Len(stack[t]) /\ isMaking(stack[t][k + 1])
          /\ stack'[t][k + 1].handle = stack[t][k + 1].handle
          /\ stack'[t][k + 1].uid = stack[t][k + 1].uid
      BY <1>2, <2>2 DEF QuietCalls, isNew
    <3>2. k + 1 \in 1..Len(stack[t])
      BY <1>1, <3>1, StackLengths DEF Keeps
    <3> QED
      BY <2>2, <3>1, <3>2 DEF isNew
  <2> QED
    BY <1>1, <2>1, <2>2, OldOrNew
<1>3. ASSUME NEW u \in Threads, NEW i \in 1..Len(stack'[u]), stack'[u][i].at = "handler"
      PROVE  i \in 1..Len(stack[u]) /\ stack[u][i] = stack'[u][i]
  BY <1>1, <1>3, OldOrNew DEF QuietCalls, isNew, isOld
<1> SUFFICES ASSUME NEW u \in Threads, NEW i \in 1..Len(stack'[u]), isMaking(stack'[u][i])
             PROVE  Pins(u, i)'
  BY DEF MakersPin, isMaking
<1> DEFINE f == stack'[u][i]
<1>4. /\ i \in 1..Len(stack[u]) /\ isMaking(stack[u][i])
      /\ stack[u][i].handle = f.handle /\ stack[u][i].uid = f.uid
  BY <1>2
<1>5. f.uid # 0 /\ objectTable[f.handle].uniqueID = f.uid /\ objectTable[f.handle].notinited
  BY <1>4, MakerFacts
<1>6. f.handle \in Handles
  BY <1>1, <1>4 DEF TypeOK, isMaking
<1>7. objectTable'[f.handle].uniqueID = f.uid /\ objectTable'[f.handle].notinited
  BY <1>5, <1>6 DEF SameLocks
<1>8. ASSUME NEW v \in Threads, NEW j \in 1..Len(stack'[v])
      PROVE  /\ ~isHandler(stack'[v][j], f.handle)
             /\ isMaking(stack'[v][j]) /\ stack'[v][j].handle = f.handle => v = u /\ j = i
  <2>1. ~isHandler(stack'[v][j], f.handle)
    <3>1. SUFFICES ASSUME isHandler(stack'[v][j], f.handle) PROVE FALSE
      OBVIOUS
    <3>2. j \in 1..Len(stack[v]) /\ isHandler(stack[v][j], f.handle)
      BY <1>3, <3>1 DEF isHandler
    <3> QED
      BY <1>4, <3>2, MakerFacts
  <2>2. isMaking(stack'[v][j]) /\ stack'[v][j].handle = f.handle => v = u /\ j = i
    <3>1. SUFFICES ASSUME isMaking(stack'[v][j]), stack'[v][j].handle = f.handle
                   PROVE  v = u /\ j = i
      OBVIOUS
    <3>2. j \in 1..Len(stack[v]) /\ isMaking(stack[v][j]) /\ stack[v][j].handle = f.handle
      BY <1>2, <3>1
    <3> QED
      BY <1>4, <3>2, MakerFacts
  <2> QED
    BY <2>1, <2>2
<1> HIDE DEF f
<1> QED
  BY <1>5, <1>7, <1>8 DEF f, Pins, isHandler, isMaking

LEMMA QuietStep ==
  ASSUME Inv, TypeOK', NEW t \in Threads, NEW k, Keeps(t, k), SameLocks, QuietCalls(t, k)
  PROVE  Inv'
  BY QuietHandlers, QuietLocks, QuietMakers DEF Inv

-----------------------------------------------------------------------------
(* Steps in which a thread enters, leaves, makes or completes the object   *)
(* at one handle: what Inv says of all other objects stays true.           *)
OnlyAt(t, k, h) ==
  /\ \A g \in Handles : g # h => objectTable'[g] = objectTable[g]
  /\ objectTable'[h].dependentObject = NoHandle
  /\ k < Len(stack[t]) /\ stack[t][k + 1].at = "handler" => stack[t][k + 1].handle = h
  /\ Len(stack'[t]) = k + 1 =>
       LET f == stack'[t][k + 1] IN
       /\ f.at \in {"init", "publish", "handler"} /\ f.handle = h /\ PlainFrame(f)

(* Calls about other objects are old calls, made from old calls.           *)
LEMMA ElsewhereOld ==
  ASSUME TypeOK, TypeOK', NEW t \in Threads, NEW k, Keeps(t, k),
         NEW h \in Handles, OnlyAt(t, k, h),
         NEW u \in Threads, NEW i \in 1..Len(stack'[u]), stack'[u][i].handle # h
  PROVE  isOld(t, k, u, i) /\ \A j \in 1..(i - 1) : isOld(t, k, u, j)
  BY OldOrNew DEF OnlyAt, isNew

LEMMA ElsewhereHandlers ==
  ASSUME Inv, TypeOK', NEW t \in Threads, NEW k, Keeps(t, k),
         NEW h \in Handles, OnlyAt(t, k, h),
         NEW u \in Threads, NEW i \in 1..Len(stack'[u]),
         stack'[u][i].at = "handler", stack'[u][i].handle # h
  PROVE  OwnsObject(u, i)' /\ NestsWell(u, i)'
<1>1. TypeOK
  BY DEF Inv
<1>2. isOld(t, k, u, i) /\ \A j \in 1..(i - 1) : isOld(t, k, u, j)
  BY <1>1, ElsewhereOld
<1>3. stack[u][i].handle \in Handles
  BY <1>1, <1>2 DEF TypeOK, isOld
<1>4. OwnsObject(u, i) /\ NestsWell(u, i)
  BY <1>2 DEF Inv, HandlersOwn, HandlersNest, isOld
<1>5. objectTable'[stack[u][i].handle] = objectTable[stack[u][i].handle]
  BY <1>2, <1>3 DEF OnlyAt, isOld
<1>6. OwnsObject(u, i)'
  BY <1>2, <1>4, <1>5 DEF OwnsObject, isOld, isDestroy
<1>7. NestsWell(u, i)'
  BY <1>2, <1>4 DEF NestsWell, isOld, isHandler
<1> QED
  BY <1>6, <1>7

LEMMA ElsewhereLocks ==
  ASSUME Inv, TypeOK', NEW t \in Threads, NEW k, Keeps(t, k),
         NEW h \in Handles, OnlyAt(t, k, h), NEW g \in Handles, g # h
  PROVE  LockHeld(g)'
<1>1. TypeOK /\ LockHeld(g)
  BY DEF Inv, LocksHeld
<1> DEFINE o == objectTable[g]
<1>2. objectTable'[g] = o
  BY DEF OnlyAt
<1>3. CASE o.lockCount > 0
  <2>1. PICK i \in 1..Len(stack[o.lockOwner]) :
          isHandler(stack[o.lockOwner][i], g) /\ stack[o.lockOwner][i].n = o.lockCount - 1
    BY <1>1, <1>3 DEF LockHeld
  <2>2. o.lockOwner \in Threads /\ o.lockCount >= 0
    BY <1>1, <1>3 DEF LockHeld
  <2>3. i \in 1..Len(stack'[o.lockOwner]) /\ stack'[o.lockOwner][i] = stack[o.lockOwner][i]
    <3>1. CASE o.lockOwner # t
      BY <2>2, <3>1 DEF Keeps
    <3>2. CASE o.lockOwner = t
      <4>1. Len(stack[t]) \in Nat
        BY <1>1, StackLengths
      <4>2. i # k + 1
        BY <2>1, <3>2, <4>1 DEF OnlyAt, isHandler, Keeps
      <4>3. i \in 1..k
        BY <3>2, <4>1, <4>2 DEF Keeps
      <4> QED
        BY <3>2, <4>1, <4>3 DEF Keeps
    <3> QED
      BY <3>1, <3>2
  <2> QED
    BY <1>2, <1>3, <2>1, <2>2, <2>3 DEF LockHeld, isHandler
<1>4. CASE ~(o.lockCount > 0)
  BY <1>1, <1>2, <1>4 DEF LockHeld
<1> QED
  BY <1>3, <1>4

LEMMA ElsewhereMakers ==
  ASSUME Inv, TypeOK', NEW t \in Threads, NEW k, Keeps(t, k),
         NEW h \in Handles, OnlyAt(t, k, h),
         NEW u \in Threads, NEW i \in 1..Len(stack'[u]),
         isMaking(stack'[u][i]), stack'[u][i].handle # h
  PROVE  Pins(u, i)'
<1>1. TypeOK
  BY DEF Inv
<1>2. isOld(t, k, u, i)
  BY <1>1, ElsewhereOld
<1> DEFINE f == stack'[u][i]
<1>3. i \in 1..Len(stack[u]) /\ stack[u][i] = f /\ isMaking(stack[u][i])
  BY <1>2 DEF isOld
<1>4. f.handle \in Handles
  BY <1>1, <1>3 DEF TypeOK, isMaking
<1>5. /\ f.uid # 0 /\ objectTable[f.handle].uniqueID = f.uid
      /\ objectTable[f.handle].notinited
      /\ objectTable'[f.handle] = objectTable[f.handle]
  BY <1>3, <1>4, MakerFacts DEF OnlyAt
<1>6. ASSUME NEW v \in Threads, NEW j \in 1..Len(stack'[v])
      PROVE  /\ ~isHandler(stack'[v][j], f.handle)
             /\ isMaking(stack'[v][j]) /\ stack'[v][j].handle = f.handle => v = u /\ j = i
  <2>1. CASE stack'[v][j].handle # h
    <3>1. j \in 1..Len(stack[v]) /\ stack[v][j] = stack'[v][j]
      BY <1>1, <2>1, ElsewhereOld DEF isOld
    <3> QED
      BY <1>3, <3>1, MakerFacts
  <2>2. CASE stack'[v][j].handle = h
    BY <2>2 DEF isHandler
  <2> QED
    BY <2>1, <2>2
<1> HIDE DEF f
<1> QED
  BY <1>5, <1>6 DEF f, Pins, isHandler, isMaking

LEMMA OnlyAtPlain ==
  ASSUME Inv, TypeOK', NEW t \in Threads, NEW k, Keeps(t, k),
         NEW h \in Handles, OnlyAt(t, k, h)
  PROVE  FramesPlain' /\ DestroyersOutside'
<1>1. TypeOK
  BY DEF Inv
<1>2. FramesPlain'
  <2>1. ASSUME NEW u \in Threads, NEW i \in 1..Len(stack'[u])
        PROVE  PlainFrame(stack'[u][i])
    <3>1. CASE isOld(t, k, u, i)
      BY <3>1 DEF Inv, FramesPlain, isOld
    <3>2. CASE isNew(t, k, u, i)
      BY <3>2 DEF OnlyAt, isNew
    <3> QED
      BY <1>1, <3>1, <3>2, OldOrNew
  <2>2. \A g \in Handles : objectTable'[g].dependentObject = NoHandle
    BY DEF OnlyAt, Inv, FramesPlain
  <2> QED
    BY <2>1, <2>2 DEF FramesPlain, PlainFrame
<1>3. DestroyersOutside'
  <2> SUFFICES ASSUME NEW u \in Threads, NEW i \in 1..Len(stack'[u]),
                      stack'[u][i].at \in {"call", "wait"},
                      stack'[u][i].msg \in {"decref", "destroy"},
                      NEW j \in 1..(i - 1)
               PROVE  ~isHandler(stack'[u][j], stack'[u][i].handle)
    BY DEF DestroyersOutside, isHandler
  <2>1. isOld(t, k, u, i) /\ isOld(t, k, u, j)
    BY <1>1, OldOrNew DEF OnlyAt, isNew
  <2> QED
    BY <2>1 DEF Inv, DestroyersOutside, isOld
<1> QED
  BY <1>2, <1>3

(* It remains to show what Inv says of the object at h.                    *)
LEMMA OnlyAtStep ==
  ASSUME Inv, TypeOK', NEW t \in Threads, NEW k, Keeps(t, k),
         NEW h \in Handles, OnlyAt(t, k, h),
         \A u \in Threads : \A i \in 1..Len(stack'[u]) :
            /\ isHandler(stack'[u][i], h) => OwnsObject(u, i)' /\ NestsWell(u, i)'
            /\ isMaking(stack'[u][i]) /\ stack'[u][i].handle = h => Pins(u, i)',
         LockHeld(h)'
  PROVE  Inv'
<1>1. HandlersOwn'
  BY ElsewhereHandlers DEF HandlersOwn, isHandler
<1>2. HandlersNest'
  BY ElsewhereHandlers DEF HandlersNest, isHandler
<1>3. LocksHeld'
  BY ElsewhereLocks DEF LocksHeld
<1>4. MakersPin'
  BY ElsewhereMakers DEF MakersPin, isMaking
<1> QED
  BY <1>1, <1>2, <1>3, <1>4, OnlyAtPlain DEF Inv

(* No handler runs in, and nobody is making, an object that is not there.  *)
LEMMA FreeIsUnused ==
  ASSUME Inv, NEW h \in Handles, isFree(objectTable[h])
  PROVE  \A u \in Threads : \A i \in 1..Len(stack[u]) :
           /\ ~isHandler(stack[u][i], h)
           /\ ~(isMaking(stack[u][i]) /\ stack[u][i].handle = h)
<1> SUFFICES ASSUME NEW u \in Threads, NEW i \in 1..Len(stack[u])
             PROVE  /\ ~isHandler(stack[u][i], h)
                    /\ ~(isMaking(stack[u][i]) /\ stack[u][i].handle = h)
  OBVIOUS
<1>1. isHandler(stack[u][i], h) => OwnsObject(u, i)
  BY DEF Inv, HandlersOwn, isHandler
<1>2. ~isHandler(stack[u][i], h)
  BY <1>1 DEF OwnsObject, isHandler, isFree
<1>3. ~(isMaking(stack[u][i]) /\ stack[u][i].handle = h)
  BY MakerFacts DEF isFree
<1> QED
  BY <1>2, <1>3

LEMMA EnterObjectKeepsInv ==
  ASSUME Inv, TypeOK', NEW t \in Threads, NEW h \in Handles, EnterObject(t, h)
  PROVE  Inv'
<1> PICK k : k = Len(stack[t]) - 1
  OBVIOUS
<1> DEFINE f == NewFrame("init", h, objectUniqueID, "none")
<1>1. /\ TypeOK /\ objectUniqueID \in Nat /\ objectUniqueID # 0
      /\ stack[t] # << >> /\ Top(t).at = "create" /\ isFree(objectTable[h])
      /\ SetEntry(h, NewEntry(objectUniqueID)) /\ Replace(t, f)
  BY DEF Inv, TypeOK, EnterObject, At
<1>2. f \in Frame /\ f.at = "init" /\ f.handle = h /\ f.uid = objectUniqueID
  BY <1>1, NewFrameTyped DEF Places, Messages, NewFrame
<1> HIDE DEF f
<1>3. /\ Keeps(t, k) /\ Len(stack'[t]) = k + 1 /\ stack'[t][k + 1] = f
      /\ k + 1 = Len(stack[t]) /\ stack[t][k + 1] = Top(t)
  BY <1>1, <1>2, ReplaceKeeps
<1>4. /\ objectTable'[h].uniqueID = objectUniqueID /\ objectTable'[h].notinited
      /\ objectTable'[h].lockCount = 0 /\ objectTable'[h].dependentObject = NoHandle
      /\ \A g \in Handles : g # h => objectTable'[g] = objectTable[g]
  BY <1>1 DEF SetEntry, NewEntry, FreeEntry, TypeOK
<1>5. OnlyAt(t, k, h)
  BY <1>1, <1>2, <1>3, <1>4 DEF OnlyAt, PlainFrame
<1>6. LockHeld(h)'
  BY <1>4 DEF LockHeld
<1>7. ASSUME NEW u \in Threads, NEW i \in 1..Len(stack'[u])
      PROVE  /\ ~isHandler(stack'[u][i], h)
             /\ isMaking(stack'[u][i]) /\ stack'[u][i].handle = h => isNew(t, k, u, i)
  <2>1. CASE isOld(t, k, u, i)
    BY <1>1, <2>1, FreeIsUnused DEF isOld
  <2>2. CASE isNew(t, k, u, i)
    BY <1>2, <1>3, <2>2 DEF isNew, isHandler
  <2> QED
    BY <1>1, <1>3, <2>1, <2>2, OldOrNew
<1>8. ASSUME NEW u \in Threads, NEW i \in 1..Len(stack'[u]),
             isMaking(stack'[u][i]), stack'[u][i].handle = h
      PROVE  Pins(u, i)'
  <2>1. u = t /\ i = k + 1 /\ stack'[u][i] = f
    BY <1>3, <1>7, <1>8 DEF isNew
  <2>2. \A v \in Threads : \A j \in 1..Len(stack'[v]) :
          /\ ~isHandler(stack'[v][j], h)
          /\ isMaking(stack'[v][j]) /\ stack'[v][j].handle = h => v = u /\ j = i
    BY <1>7, <2>1 DEF isNew
  <2> QED
    BY <1>1, <1>2, <1>4, <2>1, <2>2 DEF Pins, isHandler, isMaking
<1> QED
  BY <1>3, <1>5, <1>6, <1>7, <1>8, OnlyAtStep

(* The innermost call of a thread as a member of its stack.                *)
LEMMA TopCall ==
  ASSUME TypeOK, NEW t \in Threads, NEW p, At(t, p), p # "create"
  PROVE  /\ Len(stack[t]) \in 1..Len(stack[t])
         /\ Top(t) = stack[t][Len(stack[t])] /\ Top(t).at = p
         /\ Top(t) \in Frame /\ Top(t).handle \in Handles /\ Obj(t) \in Entry
         /\ Obj(t) = objectTable[Top(t).handle]
         /\ stack[t] # << >>
<1>1. /\ stack[t] # << >> /\ Top(t).at = p /\ Top(t) \in Frame
      /\ Top(t).handle \in Handles /\ Obj(t) \in Entry
  BY InCall
<1>2. stack[t] \in Seq(Frame)
  BY StackLengths
<1>3. Len(stack[t]) \in Nat /\ Len(stack[t]) > 0
      /\ Last(stack[t]) = stack[t][Len(stack[t])]
  BY <1>1, <1>2, PopStack
<1> QED
  BY <1>1, <1>3 DEF Top, Obj

LEMMA ReadyKeepsInv ==
  ASSUME Inv, TypeOK', NEW t \in Threads, Ready(t)
  PROVE  Inv'
<1> PICK k : k = Len(stack[t]) - 1
  OBVIOUS
<1> PICK h : h = Top(t).handle
  OBVIOUS
<1> DEFINE f == [Top(t) EXCEPT !.at = "publish"]
<1>1. /\ TypeOK /\ At(t, "call") /\ Top(t).msg = "ready"
      /\ SetEntry(h, [Obj(t) EXCEPT !.notinited = FALSE])
      /\ Return(t) \/ Replace(t, f)
  BY DEF Inv, Ready, Call
<1>2. /\ Len(stack[t]) \in 1..Len(stack[t]) /\ Top(t) = stack[t][Len(stack[t])]
      /\ Top(t).at = "call" /\ Top(t) \in Frame /\ h \in Handles /\ Obj(t) \in Entry
      /\ Obj(t) = objectTable[h] /\ stack[t] # << >>
  BY <1>1, TopCall
<1>3. f \in Frame /\ f.at = "publish" /\ f.handle = h
  BY <1>2 DEF Frame, Places
<1>4. /\ Keeps(t, k) /\ k + 1 = Len(stack[t])
      /\ Len(stack'[t]) = k + 1 => stack'[t][k + 1] = f
  BY <1>1, <1>2, <1>3, ReturnKeeps, ReplaceKeeps
<1>5. /\ objectTable'[h].lockCount = objectTable[h].lockCount
      /\ objectTable'[h].dependentObject = objectTable[h].dependentObject
      /\ \A g \in Handles : g # h => objectTable'[g] = objectTable[g]
  BY <1>1, <1>2 DEF SetEntry, TypeOK, Entry
<1> HIDE DEF f
<1>6. OnlyAt(t, k, h)
  <2>1. objectTable[h].dependentObject = NoHandle
    BY <1>2 DEF Inv, FramesPlain
  <2> QED
    BY <1>2, <1>3, <1>4, <1>5, <2>1 DEF OnlyAt, PlainFrame
<1>7. \A v \in Threads : \A j \in 1..Len(stack[v]) :
        /\ ~isHandler(stack[v][j], h)
        /\ isMaking(stack[v][j]) /\ stack[v][j].handle = h => v = t /\ j = k + 1
  BY <1>1, <1>2, <1>4, MakerFacts DEF isMaking
<1>8. LockHeld(h)'
  <2>1. LockHeld(h) /\ objectTable[h].lockCount \in Int
    BY <1>2 DEF Inv, LocksHeld, Entry
  <2>2. ~(objectTable[h].lockCount > 0)
    BY <1>7, <2>1 DEF LockHeld
  <2> QED
    BY <1>5, <2>1, <2>2 DEF LockHeld
<1>9. ASSUME NEW u \in Threads, NEW i \in 1..Len(stack'[u]), stack'[u][i].handle = h
      PROVE  ~isHandler(stack'[u][i], h) /\ ~isMaking(stack'[u][i])
  <2>1. CASE isOld(t, k, u, i)
    <3>1. /\ ~isHandler(stack[u][i], h)
          /\ isMaking(stack[u][i]) /\ stack[u][i].handle = h => u = t /\ i = k + 1
          /\ stack'[u][i] = stack[u][i] /\ (u = t => i <= k) /\ k \in Nat
      BY <1>4, <1>7, <2>1 DEF isOld, Keeps
    <3> QED
      BY <1>9, <3>1
  <2>2. CASE isNew(t, k, u, i)
    BY <1>3, <1>4, <2>2 DEF isNew, isHandler, isMaking
  <2> QED
    BY <1>1, <1>4, <2>1, <2>2, OldOrNew
<1> QED
  BY <1>2, <1>4, <1>6, <1>8, <1>9, OnlyAtStep DEF isHandler

(* What holds where a message is handed to the handler of its object o: it *)
(* is no other thread's, it is in a state to receive the message, and it   *)
(* is idle if that is a DESTROY.                                           *)
Receives(t, o, m) ==
  /\ o.uniqueID # 0 /\ o.dependentObject = NoHandle
  /\ o.lockCount = 0 \/ o.lockOwner = t
  /\ o.notinited <=> m = "converted"
  /\ m = "use" => ~o.signalled
  /\ isDestroy(m) => o.lockCount = 0
  /\ m = "converted" => isMaking(Top(t))

LEMMA EnterHandlerKeepsInv ==
  ASSUME Inv, TypeOK', NEW t \in Threads, NEW p \in {"call", "wait"}, At(t, p),
         NEW m \in {"use", "destroy", "converted"}, Receives(t, Obj(t), m),
         NEW o \in Entry, o = Obj(t) \/ o = Signal(Obj(t)),
         isDestroy(m) => o.signalled,
         EnterHandler(t, o, o.uniqueID, m)
  PROVE  Inv'
<1> PICK k : k = Len(stack[t]) - 1
  OBVIOUS
<1> PICK h : h = Top(t).handle
  OBVIOUS
<1> DEFINE f == [NewFrame("handler", h, o.uniqueID, m) EXCEPT !.n = o.lockCount]
           q == objectTable[h]
<1>1. TypeOK
  BY DEF Inv
<1>2. /\ Len(stack[t]) \in 1..Len(stack[t]) /\ Top(t) = stack[t][Len(stack[t])]
      /\ Top(t).at = p /\ Top(t) \in Frame /\ h \in Handles /\ Obj(t) \in Entry
      /\ Obj(t) = q /\ stack[t] # << >>
  BY <1>1, TopCall
<1>3. /\ o.uniqueID = q.uniqueID /\ o.lockCount = q.lockCount
      /\ o.notinited = q.notinited /\ o.dependentObject = q.dependentObject
      /\ o.lockOwner = q.lockOwner
      /\ q.lockCount \in Int /\ q.uniqueID \in Nat
  BY <1>2 DEF Signal, Entry
<1>4. /\ f \in Frame /\ f.at = "handler" /\ f.handle = h /\ f.uid = q.uniqueID
      /\ f.msg = m /\ f.n = q.lockCount /\ Replace(t, f)
  <2>1. f = [at |-> "handler", handle |-> h, uid |-> q.uniqueID, msg |-> m,
             n |-> q.lockCount, other |-> NoHandle]
    BY <1>3 DEF NewFrame
  <2>2. m \in Messages /\ "handler" \in Places
    BY DEF Messages, MayBeSent, Places
  <2>3. Replace(t, f)
    BY DEF EnterHandler
  <2> HIDE DEF f
  <2> QED
    BY <1>2, <1>3, <2>1, <2>2, <2>3 DEF Frame
<1> HIDE DEF f
<1>5. /\ Keeps(t, k) /\ k + 1 = Len(stack[t]) /\ Len(stack'[t]) = k + 1
      /\ stack'[t][k + 1] = f
  BY <1>1, <1>2, <1>4, ReplaceKeeps
<1>6. /\ objectTable'[h] = [o EXCEPT !.lockCount = @ + 1, !.lockOwner = t]
      /\ \A g \in Handles : g # h => objectTable'[g] = objectTable[g]
  BY <1>1, <1>2 DEF EnterHandler, SetEntry, TypeOK
<1>7. /\ objectTable'[h].uniqueID = q.uniqueID /\ objectTable'[h].notinited = q.notinited
      /\ objectTable'[h].lockCount = q.lockCount + 1 /\ objectTable'[h].lockOwner = t
      /\ objectTable'[h].dependentObject = NoHandle
      /\ objectTable'[h].signalled = o.signalled
  BY <1>2, <1>3, <1>6 DEF Entry, Receives
<1>8. OnlyAt(t, k, h)
  BY <1>2, <1>4, <1>5, <1>6, <1>7 DEF OnlyAt, PlainFrame
<1>9. ASSUME NEW u \in Threads, NEW i \in 1..Len(stack[u]), isHandler(stack[u][i], h)
      PROVE  /\ u = t /\ m = "use" /\ stack[u][i].n \in Int
             /\ 0 <= stack[u][i].n /\ stack[u][i].n < q.lockCount
             /\ stack[u][i].uid = q.uniqueID /\ stack[u][i].uid # 0
             /\ stack[u][i].msg # "converted" /\ ~isDestroy(stack[u][i].msg)
  <2>1. OwnsObject(u, i)
    BY <1>9 DEF Inv, HandlersOwn, isHandler
  <2>2. stack[u][i] \in Frame
    BY <1>1, StackLengths
  <2>3. stack[u][i].n \in Int /\ 0 <= stack[u][i].n /\ stack[u][i].n < q.lockCount
    BY <1>9, <2>1, <2>2 DEF OwnsObject, isHandler, Frame
  <2>4. q.lockCount # 0
    BY <1>3, <2>3
  <2>5. u = t /\ m = "use" /\ ~q.signalled /\ ~q.notinited
    BY <1>2, <1>9, <2>1, <2>4 DEF OwnsObject, isHandler, Receives, isDestroy
  <2> QED
    BY <1>9, <2>1, <2>3, <2>5 DEF OwnsObject, isHandler
<1>10. ASSUME NEW u \in Threads, NEW i \in 1..Len(stack'[u]), isHandler(stack'[u][i], h)
       PROVE  OwnsObject(u, i)' /\ NestsWell(u, i)'
  <2>1. \A j \in 1..(i - 1) : isOld(t, k, u, j)
    BY <1>1, <1>5, OldOrNew
  <2>2. CASE isOld(t, k, u, i)
    <3>1. i \in 1..Len(stack[u]) /\ stack'[u][i] = stack[u][i] /\ isHandler(stack[u][i], h)
      BY <1>10, <2>2 DEF isOld
    <3>2. OwnsObject(u, i) /\ NestsWell(u, i)
      BY <3>1 DEF Inv, HandlersOwn, HandlersNest, isHandler
    <3>3. NestsWell(u, i)'
      BY <2>1, <3>1, <3>2 DEF NestsWell, isOld, isHandler
    <3>4. OwnsObject(u, i)'
      BY <1>3, <1>7, <1>9, <3>1, <3>2 DEF OwnsObject, isHandler
    <3> QED
      BY <3>3, <3>4
  <2>3. CASE isNew(t, k, u, i)
    <3>1. u = t /\ i = k + 1 /\ stack'[u][i] = f /\ i - 1 = k /\ k \in Nat
      BY <1>5, <2>3 DEF isNew, Keeps
    <3>2. q.lockCount >= 0
      BY <1>2 DEF Inv, LocksHeld, LockHeld
    <3>3. OwnsObject(u, i)'
      BY <1>2, <1>3, <1>4, <1>7, <3>1, <3>2 DEF OwnsObject, Receives
    <3>4. \A j \in 1..k : isHandler(stack'[t][j], h) => stack'[t][j].n < f.n
      BY <1>4, <1>9, <2>1, <3>1 DEF isOld
    <3>5. ASSUME f.n > 0
          PROVE  \E j \in 1..k : isHandler(stack'[t][j], h) /\ stack'[t][j].n = f.n - 1
      <4>1. q.lockCount > 0 /\ q.lockOwner = t
        BY <1>2, <1>3, <1>4, <3>5 DEF Receives
      <4>2. PICK j \in 1..Len(stack[t]) :
              isHandler(stack[t][j], h) /\ stack[t][j].n = q.lockCount - 1
        BY <1>2, <4>1 DEF Inv, LocksHeld, LockHeld
      <4>3. j # k + 1
        BY <1>2, <1>5, <4>2 DEF isHandler
      <4>4. j \in 1..k /\ stack'[t][j] = stack[t][j]
        BY <1>5, <3>1, <4>3 DEF Keeps
      <4> QED
        BY <1>4, <4>2, <4>4
    <3>6. NestsWell(u, i)'
      BY <1>4, <3>1, <3>4, <3>5 DEF NestsWell, isHandler
    <3> QED
      BY <3>3, <3>6
  <2> QED
    BY <1>1, <1>5, <2>2, <2>3, OldOrNew
<1>11. ASSUME NEW u \in Threads, NEW i \in 1..Len(stack'[u]), stack'[u][i].handle = h
       PROVE  ~isMaking(stack'[u][i])
  <2>1. CASE isOld(t, k, u, i)
    <3>1. SUFFICES ASSUME isMaking(stack'[u][i]) PROVE FALSE
      OBVIOUS
    <3>2. i \in 1..Len(stack[u]) /\ isMaking(stack[u][i]) /\ stack[u][i].handle = h
      BY <1>11, <2>1, <3>1 DEF isOld
    <3>3. q.notinited
      BY <3>2, MakerFacts
    <3>4. isMaking(stack[t][k + 1]) /\ k + 1 \in 1..Len(stack[t])
      BY <1>2, <1>5, <3>3 DEF Receives
    <3>5. u = t /\ i = k + 1
      BY <1>2, <1>5, <3>2, <3>4, MakerFacts
    <3> QED
      BY <1>5, <2>1, <3>5 DEF isOld, Keeps
  <2>2. CASE isNew(t, k, u, i)
    BY <1>4, <1>5, <2>2 DEF isNew, isMaking
  <2> QED
    BY <1>1, <1>5, <2>1, <2>2, OldOrNew
<1>12. LockHeld(h)'
  <2>1. q.lockCount >= 0
    BY <1>2 DEF Inv, LocksHeld, LockHeld
  <2>2. k + 1 \in 1..Len(stack'[t])
    BY <1>2, <1>5
  <2>3. isHandler(stack'[t][k + 1], h) /\ stack'[t][k + 1].n = objectTable'[h].lockCount - 1
    BY <1>3, <1>4, <1>5, <1>7 DEF isHandler
  <2> QED
    BY <1>3, <1>7, <2>1, <2>2, <2>3 DEF LockHeld, isHandler
<1>13. \A u \in Threads : \A i \in 1..Len(stack'[u]) :
         /\ isHandler(stack'[u][i], h) => OwnsObject(u, i)' /\ NestsWell(u, i)'
         /\ isMaking(stack'[u][i]) /\ stack'[u][i].handle = h => Pins(u, i)'
  BY <1>10, <1>11
<1> QED
  BY <1>2, <1>5, <1>8, <1>12, <1>13, OnlyAtStep

LEMMA HandlerReturnKeepsInv ==
  ASSUME Inv, TypeOK', NEW t \in Threads, HandlerReturn(t)
  PROVE  Inv'
<1> PICK k : k = Len(stack[t]) - 1
  OBVIOUS
<1> PICK h : h = Top(t).handle
  OBVIOUS
<1> PICK f : f = Top(t)
  OBVIOUS
<1> DEFINE q == objectTable[h]
<1>1. TypeOK /\ At(t, "handler") /\ Return(t)
  BY DEF Inv, HandlerReturn
<1>2. /\ Len(stack[t]) \in 1..Len(stack[t]) /\ f = stack[t][Len(stack[t])]
      /\ f.at = "handler" /\ f \in Frame /\ h \in Handles /\ Obj(t) \in Entry
      /\ Obj(t) = q /\ stack[t] # << >> /\ f.handle = h
  BY <1>1, TopCall
<1>3. /\ Keeps(t, k) /\ k + 1 = Len(stack[t]) /\ Len(stack'[t]) = k
      /\ k \in Nat /\ stack[t][k + 1] = f /\ k + 1 \in 1..Len(stack[t])
  BY <1>1, <1>2, ReturnKeeps DEF Keeps
<1>4. OwnsObject(t, k + 1) /\ NestsWell(t, k + 1) /\ LockHeld(h)
  BY <1>2, <1>3 DEF Inv, HandlersOwn, HandlersNest, LocksHeld
<1>5. /\ q.uniqueID # 0 /\ q.lockOwner = t /\ 0 <= f.n /\ f.n < q.lockCount
      /\ isDestroy(f.msg) => q.lockCount = 1
      /\ f.n \in Int /\ q.lockCount \in Int
  <2>1. /\ q.uniqueID # 0 /\ q.lockOwner = t /\ 0 <= f.n /\ f.n < q.lockCount
        /\ isDestroy(f.msg) => q.lockCount = 1
    BY <1>2, <1>3, <1>4 DEF OwnsObject
  <2>2. f.n \in Int /\ q.lockCount \in Int
    BY <1>2 DEF Frame, Entry
  <2> QED
    BY <2>1, <2>2
<1>6. /\ \A j \in 1..k : isHandler(stack[t][j], h) => stack[t][j].n < f.n
      /\ f.n > 0 => \E j \in 1..k : isHandler(stack[t][j], h) /\ stack[t][j].n = f.n - 1
  <2>1. (k + 1) - 1 = k
    BY <1>3
  <2> QED
    BY <1>2, <1>3, <1>4, <2>1 DEF NestsWell
<1>7. objectTable' = [objectTable EXCEPT ![h] =
        IF isDestroy(f.msg) THEN FreeEntry ELSE [q EXCEPT !.lockCount = @ - 1]]
  BY <1>2, <1>5 DEF HandlerReturn, SetEntry, isFree
<1>8. \A g \in Handles : g # h => objectTable'[g] = objectTable[g]
  BY <1>7 DEF Inv, TypeOK
<1>9. objectTable'[h] = IF isDestroy(f.msg) THEN FreeEntry ELSE [q EXCEPT !.lockCount = @ - 1]
  BY <1>2, <1>7 DEF Inv, TypeOK
<1>10. OnlyAt(t, k, h)
  <2>1. objectTable[h].dependentObject = NoHandle
    BY <1>2 DEF Inv, FramesPlain
  <2>2. objectTable'[h].dependentObject = NoHandle
    BY <1>2, <1>9, <2>1 DEF Entry, FreeEntry
  <2>3. stack[t][k + 1].handle = h
    BY <1>2, <1>3
  <2>4. k # k + 1
    BY <1>3
  <2> QED
    BY <1>3, <1>8, <2>2, <2>3, <2>4 DEF OnlyAt
<1>11. ASSUME NEW u \in Threads, NEW i \in 1..Len(stack'[u]), isHandler(stack'[u][i], h)
       PROVE  /\ u = t /\ i \in 1..k /\ stack'[u][i] = stack[u][i]
              /\ i \in 1..Len(stack[u])
              /\ stack[u][i].n \in Int /\ 0 <= stack[u][i].n /\ stack[u][i].n < f.n
              /\ OwnsObject(u, i) /\ NestsWell(u, i)
              /\ \A j \in 1..(i - 1) : stack'[u][j] = stack[u][j]
  <2>1. /\ isOld(t, k, u, i) /\ i \in 1..Len(stack[u])
        /\ \A j \in 1..(i - 1) : stack'[u][j] = stack[u][j]
    BY <1>1, <1>3, OldOrNew DEF isNew, isOld
  <2>2. isHandler(stack[u][i], h) /\ stack[u][i] \in Frame
    BY <1>1, <1>11, <2>1, StackLengths DEF isOld
  <2>3. OwnsObject(u, i) /\ NestsWell(u, i)
    BY <2>1, <2>2 DEF Inv, HandlersOwn, HandlersNest, isHandler
  <2>4. /\ q.lockOwner = u /\ stack[u][i].n \in Int /\ 0 <= stack[u][i].n
    BY <2>2, <2>3 DEF OwnsObject, isHandler, Frame
  <2>5. u = t /\ i \in 1..k
    BY <1>5, <2>1, <2>4, <1>3 DEF isOld
  <2> QED
    BY <1>6, <2>1, <2>2, <2>3, <2>4, <2>5 DEF isOld
<1>12. ASSUME NEW u \in Threads, NEW i \in 1..Len(stack'[u]), stack'[u][i].handle = h
       PROVE  ~isMaking(stack'[u][i])
  <2>1. isOld(t, k, u, i)
    BY <1>1, <1>3, OldOrNew DEF isNew
  <2>2. isHandler(stack[t][k + 1], h)
    BY <1>2, <1>3 DEF isHandler
  <2> QED
    BY <1>3, <1>12, <2>1, <2>2, MakerFacts DEF isOld
<1>13. CASE isDestroy(f.msg)
  <2>1. f.n = 0
    BY <1>5, <1>13
  <2>2. \A u \in Threads : \A i \in 1..Len(stack'[u]) : ~isHandler(stack'[u][i], h)
    BY <1>11, <2>1
  <2>3. LockHeld(h)'
    BY <1>9, <1>13 DEF LockHeld, FreeEntry
  <2> QED
    BY <1>2, <1>3, <1>10, <1>12, <2>2, <2>3, OnlyAtStep
<1>14. CASE ~isDestroy(f.msg)
  <2>1. /\ objectTable'[h].uniqueID = q.uniqueID /\ objectTable'[h].notinited = q.notinited
        /\ objectTable'[h].lockCount = q.lockCount - 1 /\ objectTable'[h].lockOwner = t
        /\ objectTable'[h].signalled = q.signalled
    BY <1>2, <1>5, <1>9, <1>14 DEF Entry
  <2>2. ASSUME NEW u \in Threads, NEW i \in 1..Len(stack'[u]), isHandler(stack'[u][i], h)
        PROVE  OwnsObject(u, i)' /\ NestsWell(u, i)'
    <3>1. /\ u = t /\ i \in 1..k /\ stack'[u][i] = stack[u][i]
          /\ stack[u][i].n \in Int /\ 0 <= stack[u][i].n /\ stack[u][i].n < f.n
          /\ OwnsObject(u, i) /\ NestsWell(u, i)
          /\ \A j \in 1..(i - 1) : stack'[u][j] = stack[u][j]
      BY <1>11, <2>2
    <3>2. stack[u][i].n < q.lockCount - 1 /\ q.lockCount # 1
      BY <1>5, <3>1
    <3>3. ~isDestroy(stack[u][i].msg)
      BY <2>2, <3>1, <3>2 DEF OwnsObject, isHandler
    <3>4. OwnsObject(u, i)'
      BY <2>1, <2>2, <3>1, <3>2, <3>3 DEF OwnsObject, isHandler
    <3>5. NestsWell(u, i)'
      BY <2>2, <3>1 DEF NestsWell, isHandler
    <3> QED
      BY <3>4, <3>5
  <2>3. LockHeld(h)'
    <3>1. ASSUME q.lockCount - 1 > 0
          PROVE  \E i \in 1..Len(stack'[t]) :
                   isHandler(stack'[t][i], h) /\ stack'[t][i].n = q.lockCount - 2
      <4>1. PICK j \in 1..Len(stack[t]) :
              isHandler(stack[t][j], h) /\ stack[t][j].n = q.lockCount - 1
        BY <1>4, <1>5, <3>1 DEF LockHeld
      <4>2. j = k + 1
        BY <1>3, <1>5, <1>6, <4>1
      <4>3. f.n = q.lockCount - 1 /\ f.n > 0
        BY <1>3, <3>1, <4>1, <4>2
      <4>4. PICK i \in 1..k : isHandler(stack[t][i], h) /\ stack[t][i].n = f.n - 1
        BY <1>6, <4>3
      <4>5. stack'[t][i] = stack[t][i] /\ i \in 1..Len(stack'[t])
        BY <1>3, <4>4 DEF Keeps
      <4>6. stack[t][i].n = q.lockCount - 2
        BY <1>5, <4>3, <4>4
      <4> QED
        BY <4>4, <4>5, <4>6 DEF isHandler
    <3> QED
      BY <1>5, <2>1, <3>1 DEF LockHeld, isHandler
  <2> QED
    BY <1>2, <1>3, <1>10, <1>12, <2>2, <2>3, OnlyAtStep
<1> QED
  BY <1>13, <1>14

-----------------------------------------------------------------------------
(* Quiet steps by what they do to the stack of the thread.                 *)
OutsideObject(t, f) ==
  f.at \in {"call", "wait"} /\ f.msg \in {"decref", "destroy"} =>
    \A j \in 1..Len(stack[t]) : ~isHandler(stack[t][j], f.handle)

LEMMA QuietReturn ==
  ASSUME Inv, TypeOK', NEW t \in Threads, stack[t] # << >>, Top(t).at # "handler",
         SameLocks, Return(t)
  PROVE  Inv'
<1> PICK k : k = Len(stack[t]) - 1
  OBVIOUS
<1>1. TypeOK
  BY DEF Inv
<1>2. /\ Keeps(t, k) /\ Len(stack'[t]) = k /\ k + 1 = Len(stack[t]) /\ k \in Nat
      /\ Top(t) = stack[t][k + 1]
  BY <1>1, ReturnKeeps DEF Keeps
<1>3. k # k + 1
  BY <1>2
<1>4. QuietCalls(t, k)
  BY <1>2, <1>3 DEF QuietCalls
<1> QED
  BY <1>2, <1>4, QuietStep

LEMMA QuietReplace ==
  ASSUME Inv, TypeOK', NEW t \in Threads, stack[t] # << >>, Top(t).at # "handler",
         SameLocks, NEW f \in Frame, Replace(t, f), PlainFrame(f), f.at # "handler",
         isMaking(f) =>
           isMaking(Top(t)) /\ f.handle = Top(t).handle /\ f.uid = Top(t).uid,
         OutsideObject(t, f)
  PROVE  Inv'
<1> PICK k : k = Len(stack[t]) - 1
  OBVIOUS
<1>1. TypeOK
  BY DEF Inv
<1>2. /\ Keeps(t, k) /\ Len(stack'[t]) = k + 1 /\ k + 1 = Len(stack[t]) /\ k \in Nat
      /\ Top(t) = stack[t][k + 1] /\ stack'[t][k + 1] = f
  BY <1>1, ReplaceKeeps DEF Keeps
<1>3. \A j \in 1..k : j \in 1..Len(stack[t])
  BY <1>2
<1>4. k < Len(stack[t])
  BY <1>2
<1>5. QuietCalls(t, k)
  BY <1>2, <1>3, <1>4 DEF QuietCalls, OutsideObject
<1> QED
  BY <1>2, <1>5, QuietStep

LEMMA QuietPush ==
  ASSUME Inv, TypeOK', NEW t \in Threads, SameLocks, NEW f \in Frame, Push(t, f),
         PlainFrame(f), f.at # "handler", ~isMaking(f), OutsideObject(t, f)
  PROVE  Inv'
<1> PICK k : k = Len(stack[t])
  OBVIOUS
<1>1. TypeOK
  BY DEF Inv
<1>2. /\ Keeps(t, k) /\ Len(stack'[t]) = k + 1 /\ k \in Nat /\ stack'[t][k + 1] = f
  BY <1>1, PushKeeps DEF Keeps
<1>3. ~(k < Len(stack[t]))
  BY <1>2
<1>4. QuietCalls(t, k)
  BY <1>2, <1>3 DEF QuietCalls, OutsideObject
<1> QED
  BY <1>2, <1>4, QuietStep

LEMMA UnchangedTable ==
  ASSUME UNCHANGED objectTable
  PROVE  SameLocks
  BY DEF SameLocks

(* A thread is in no handler of the object that its innermost call is to   *)
(* destroy or to drop a reference to, nor of one that it is making.        *)
LEMMA TopOutside ==
  ASSUME Inv, NEW t \in Threads, NEW p \in {"call", "wait"}, At(t, p),
         Top(t).msg \in {"decref", "destroy"} \/ isMaking(Top(t))
  PROVE  \A j \in 1..Len(stack[t]) : ~isHandler(stack[t][j], Top(t).handle)
<1>1. TypeOK
  BY DEF Inv
<1>2. /\ Len(stack[t]) \in 1..Len(stack[t]) /\ Top(t) = stack[t][Len(stack[t])]
      /\ Top(t).at = p
  BY <1>1, TopCall
<1>3. CASE isMaking(Top(t))
  BY <1>2, <1>3, MakerFacts
<1>4. CASE Top(t).msg \in {"decref", "destroy"}
  <2> SUFFICES ASSUME NEW j \in 1..Len(stack[t]), isHandler(stack[t][j], Top(t).handle)
               PROVE  FALSE
    OBVIOUS
  <2>1. j # Len(stack[t])
    BY <1>2 DEF isHandler
  <2>2. j \in 1..(Len(stack[t]) - 1)
    BY <1>2, <2>1
  <2> QED
    BY <1>2, <1>4, <2>2 DEF Inv, DestroyersOutside
<1> QED
  BY <1>3, <1>4

(* An entry that only changes its references or its visibility.            *)
LEMMA EntryUpdateQuiet ==
  ASSUME TypeOK, NEW h \in Handles, NEW o, SetEntry(h, o),
         o.uniqueID = objectTable[h].uniqueID, o.notinited = objectTable[h].notinited,
         o.lockCount = objectTable[h].lockCount, o.lockOwner = objectTable[h].lockOwner,
         o.dependentObject = objectTable[h].dependentObject,
         objectTable[h].signalled => o.signalled
  PROVE  SameLocks
<1>1. /\ objectTable'[h] = o
      /\ \A g \in Handles : g # h => objectTable'[g] = objectTable[g]
  BY DEF SetEntry, TypeOK
<1> QED
  BY <1>1 DEF SameLocks

-----------------------------------------------------------------------------
(* The steps of Inv, one lemma per group of actions. *)

LEMMA CreatingKeepsInv ==
  ASSUME Inv, TypeOK', NEW t \in Threads,
         \/ BeginCreate(t) \/ RejectCreate(t) \/ FailInit(t) \/ CompleteInit(t)
         \/ Publish(t)
  PROVE  Inv'
<1>1. TypeOK
  BY DEF Inv
<1>2. CASE BeginCreate(t)
  <2> DEFINE f == NewFrame("create", NoHandle, 0, "none")
  <2>1. f \in Frame /\ f.at = "create" /\ f.msg = "none"
    BY NewFrameTyped DEF Places, Messages, NewFrame
  <2>2. Push(t, f) /\ SameLocks
    BY <1>2, UnchangedTable DEF BeginCreate
  <2> HIDE DEF f
  <2>3. PlainFrame(f) /\ f.at # "handler" /\ ~isMaking(f) /\ OutsideObject(t, f)
    BY <2>1 DEF PlainFrame, isMaking, OutsideObject
  <2> QED
    BY <2>1, <2>2, <2>3, QuietPush
<1>3. CASE RejectCreate(t)
  BY <1>3, QuietReturn, UnchangedTable DEF RejectCreate, At
<1>4. CASE FailInit(t)
  <2> DEFINE f == NewFrame("call", Top(t).handle, 0, "destroy")
  <2>1. At(t, "init") /\ Push(t, f) /\ SameLocks
    BY <1>4, UnchangedTable DEF FailInit
  <2>2. /\ Len(stack[t]) \in 1..Len(stack[t]) /\ Top(t) = stack[t][Len(stack[t])]
        /\ Top(t).at = "init" /\ Top(t).handle \in Handles
    BY <1>1, <2>1, TopCall
  <2>3. f \in Frame /\ f.at = "call" /\ f.msg = "destroy" /\ f.handle = Top(t).handle
    BY <2>2, NewFrameTyped DEF Places, Messages, NewFrame
  <2> HIDE DEF f
  <2>4. \A j \in 1..Len(stack[t]) : ~isHandler(stack[t][j], Top(t).handle)
    BY <2>2, MakerFacts DEF isMaking
  <2>5. PlainFrame(f) /\ f.at # "handler" /\ ~isMaking(f) /\ OutsideObject(t, f)
    BY <2>3, <2>4 DEF PlainFrame, isMaking, OutsideObject
  <2> QED
    BY <2>1, <2>3, <2>5, QuietPush
<1>5. CASE CompleteInit(t)
  <2> DEFINE f == [Top(t) EXCEPT !.at = "call", !.msg = "ready"]
  <2>1. At(t, "init") /\ SameLocks /\ (Return(t) \/ Replace(t, f))
    BY <1>5, UnchangedTable DEF CompleteInit
  <2>2. stack[t] # << >> /\ Top(t).at = "init" /\ Top(t) \in Frame
    BY <1>1, <2>1, TopCall
  <2>3. /\ f \in Frame /\ f.at = "call" /\ f.msg = "ready"
        /\ f.handle = Top(t).handle /\ f.uid = Top(t).uid
    BY <2>2 DEF Frame, Places, Messages
  <2> HIDE DEF f
  <2>4. PlainFrame(f) /\ f.at # "handler" /\ isMaking(Top(t)) /\ OutsideObject(t, f)
    BY <2>2, <2>3 DEF PlainFrame, isMaking, OutsideObject
  <2>5. CASE Return(t)
    BY <2>1, <2>2, <2>5, QuietReturn
  <2>6. CASE Replace(t, f)
    BY <2>1, <2>2, <2>3, <2>4, <2>6, QuietReplace
  <2> QED
    BY <2>1, <2>5, <2>6
<1>6. CASE Publish(t)
  <2> DEFINE o == [Obj(t) EXCEPT !.internal = FALSE, !.intRefCount = @ - 1,
                                 !.extRefCount = @ + 1]
  <2>1. At(t, "publish") /\ Return(t)
        /\ (SetEntry(Top(t).handle, o) \/ UNCHANGED objectTable)
    BY <1>6 DEF Publish
  <2>2. /\ stack[t] # << >> /\ Top(t).at = "publish" /\ Top(t).handle \in Handles
        /\ Obj(t) = objectTable[Top(t).handle] /\ Obj(t) \in Entry
    BY <1>1, <2>1, TopCall
  <2>3. /\ o.uniqueID = Obj(t).uniqueID /\ o.notinited = Obj(t).notinited
        /\ o.lockCount = Obj(t).lockCount /\ o.lockOwner = Obj(t).lockOwner
        /\ o.dependentObject = Obj(t).dependentObject /\ o.signalled = Obj(t).signalled
    BY <2>2 DEF Entry
  <2> HIDE DEF o
  <2>4. SameLocks
    BY <1>1, <2>1, <2>2, <2>3, EntryUpdateQuiet, UnchangedTable
  <2> QED
    BY <2>1, <2>2, <2>4, QuietReturn
<1> QED
  BY <1>2, <1>3, <1>4, <1>5, <1>6

LEMMA SendingKeepsInv ==
  ASSUME PlainKernel, Inv, TypeOK', NEW t \in Threads,
         \/ \E h \in Handles, m \in MayBeSent : Send(t, h, m)
         \/ RejectHandle(t) \/ IncRef(t) \/ DecRef(t)
  PROVE  Inv'
<1>1. TypeOK
  BY DEF Inv
<1>2. ASSUME NEW h \in Handles, NEW m \in MayBeSent, Send(t, h, m)
      PROVE  Inv'
  <2> DEFINE f == NewFrame("call", h, 0, m)
  <2>1. m \in {"use", "incref", "decref"}
    BY <1>2 DEF Send, PlainKernel, MayBeSent
  <2>2. Push(t, f) /\ SameLocks
    BY <1>2, UnchangedTable DEF Send
  <2>3. f \in Frame /\ f.at = "call" /\ f.msg = m /\ f.handle = h
    BY <2>1, NewFrameTyped DEF Places, Messages, MayBeSent, NewFrame
  <2> HIDE DEF f
  <2>4. ASSUME m = "decref", NEW j \in 1..Len(stack[t])
        PROVE  ~isHandler(stack[t][j], h)
    BY <1>2, <2>4 DEF Send, Serving, isHandler
  <2>5. PlainFrame(f) /\ f.at # "handler" /\ ~isMaking(f) /\ OutsideObject(t, f)
    BY <2>1, <2>3, <2>4 DEF PlainFrame, isMaking, OutsideObject
  <2> QED
    BY <2>2, <2>3, <2>5, QuietPush
<1>3. ASSUME At(t, "call")
      PROVE  /\ stack[t] # << >> /\ Top(t).at = "call" /\ Top(t).handle \in Handles
             /\ Obj(t) = objectTable[Top(t).handle] /\ Obj(t) \in Entry
  BY <1>1, <1>3, TopCall
<1>4. CASE RejectHandle(t)
  BY <1>3, <1>4, QuietReturn, UnchangedTable DEF RejectHandle
<1>5. CASE IncRef(t)
  <2> DEFINE o == [Obj(t) EXCEPT !.intRefCount = @ + 1]
  <2>1. At(t, "call") /\ Return(t)
        /\ (SetEntry(Top(t).handle, o) \/ UNCHANGED objectTable)
    BY <1>5 DEF IncRef, Call
  <2>2. /\ o.uniqueID = Obj(t).uniqueID /\ o.notinited = Obj(t).notinited
        /\ o.lockCount = Obj(t).lockCount /\ o.lockOwner = Obj(t).lockOwner
        /\ o.dependentObject = Obj(t).dependentObject /\ o.signalled = Obj(t).signalled
    BY <1>3, <2>1 DEF Entry
  <2> HIDE DEF o
  <2>3. SameLocks
    BY <1>1, <1>3, <2>1, <2>2, EntryUpdateQuiet, UnchangedTable
  <2> QED
    BY <1>3, <2>1, <2>3, QuietReturn
<1>6. CASE DecRef(t)
  <2> DEFINE p == DropRef(Obj(t), External(t))
             f == NewFrame("call", Top(t).handle, 0, "destroy")
  <2>1. /\ At(t, "call") /\ Top(t).msg = "decref"
        /\ SetEntry(Top(t).handle, p) \/ UNCHANGED objectTable
        /\ Return(t) \/ Replace(t, f)
    BY <1>6 DEF DecRef, Call
  <2>2. /\ p.uniqueID = Obj(t).uniqueID /\ p.notinited = Obj(t).notinited
        /\ p.lockCount = Obj(t).lockCount /\ p.lockOwner = Obj(t).lockOwner
        /\ p.dependentObject = Obj(t).dependentObject /\ p.signalled = Obj(t).signalled
    BY <1>3, <2>1 DEF Entry, DropRef
  <2>3. f \in Frame /\ f.at = "call" /\ f.msg = "destroy" /\ f.handle = Top(t).handle
    BY <1>3, <2>1, NewFrameTyped DEF Places, Messages, NewFrame
  <2> HIDE DEF f, p
  <2>4. SameLocks
    BY <1>1, <1>3, <2>1, <2>2, EntryUpdateQuiet, UnchangedTable
  <2>5. \A j \in 1..Len(stack[t]) : ~isHandler(stack[t][j], Top(t).handle)
    BY <2>1, TopOutside
  <2>6. PlainFrame(f) /\ f.at # "handler" /\ ~isMaking(f) /\ OutsideObject(t, f)
    BY <2>3, <2>5 DEF PlainFrame, isMaking, OutsideObject
  <2>7. CASE Return(t)
    BY <1>3, <2>1, <2>4, <2>7, QuietReturn
  <2>8. CASE Replace(t, f)
    BY <1>3, <2>1, <2>3, <2>4, <2>6, <2>8, QuietReplace
  <2> QED
    BY <2>1, <2>7, <2>8
<1> QED
  BY <1>2, <1>4, <1>5, <1>6

(* An object that is busy has its owner inside; so it is idle for the      *)
(* thread that is about to destroy it, unless another thread is using it.  *)
LEMMA DestroyedIsIdle ==
  ASSUME Inv, NEW t \in Threads, NEW p \in {"call", "wait"}, At(t, p),
         Top(t).msg \in {"decref", "destroy"} \/ isMaking(Top(t)),
         ~InUseByOther(t) \/ isMaking(Top(t))
  PROVE  Obj(t).lockCount = 0
<1>1. TypeOK
  BY DEF Inv
<1>2. /\ Len(stack[t]) \in 1..Len(stack[t]) /\ Top(t) = stack[t][Len(stack[t])]
      /\ Obj(t) = objectTable[Top(t).handle] /\ Top(t).handle \in Handles
      /\ Obj(t) \in Entry
  BY <1>1, TopCall
<1>3. LockHeld(Top(t).handle) /\ Obj(t).lockCount \in Int
  BY <1>2 DEF Inv, LocksHeld, Entry
<1>4. SUFFICES ASSUME Obj(t).lockCount > 0
               PROVE  FALSE
  BY <1>2, <1>3 DEF LockHeld
<1>5. PICK u \in Threads : u = Obj(t).lockOwner
  BY <1>2, <1>3, <1>4 DEF LockHeld
<1>6. PICK i \in 1..Len(stack[u]) : isHandler(stack[u][i], Top(t).handle)
  BY <1>2, <1>3, <1>4, <1>5 DEF LockHeld
<1>7. CASE isMaking(Top(t))
  BY <1>2, <1>6, <1>7, MakerFacts
<1>8. CASE ~isMaking(Top(t))
  <2>1. u = t
    BY <1>4, <1>5, <1>8 DEF InUseByOther, isInUse
  <2> QED
    BY <1>6, <2>1, TopOutside
<1> QED
  BY <1>7, <1>8

LEMMA WaitingKeepsInv ==
  ASSUME Inv, TypeOK', NEW t \in Threads,
         RejectNesting(t) \/ BeginWait(t) \/ KeepWaiting(t) \/ AbandonWait(t)
  PROVE  Inv'
<1>1. TypeOK /\ SameLocks
  BY UnchangedTable DEF Inv, RejectNesting, BeginWait, KeepWaiting, AbandonWait
<1>2. ASSUME NEW p \in {"call", "wait"}, At(t, p)
      PROVE  /\ Len(stack[t]) \in 1..Len(stack[t]) /\ Top(t) = stack[t][Len(stack[t])]
             /\ stack[t] # << >> /\ Top(t).at = p /\ Top(t) \in Frame
             /\ Obj(t) \in Entry /\ PlainFrame(Top(t))
  <2>1. /\ Len(stack[t]) \in 1..Len(stack[t]) /\ Top(t) = stack[t][Len(stack[t])]
        /\ stack[t] # << >> /\ Top(t).at = p /\ Top(t) \in Frame /\ Obj(t) \in Entry
    BY <1>1, <1>2, TopCall
  <2> QED
    BY <2>1 DEF Inv, FramesPlain
<1>3. CASE RejectNesting(t)
  BY <1>1, <1>2, <1>3, QuietReturn DEF RejectNesting, Enqueueing, Dispatching
<1>4. CASE AbandonWait(t)
  BY <1>1, <1>2, <1>4, QuietReturn DEF AbandonWait
<1>5. CASE BeginWait(t)
  <2> DEFINE f == [Top(t) EXCEPT !.at = "wait", !.uid = Obj(t).uniqueID,
                                 !.msg = Effective(t)]
  <2>1. /\ At(t, "call")
        /\ Return(t) \/ Replace(t, f)
        /\ Effective(t) \in {"use", "destroy", "converted"}
        /\ Obj(t).lockCount > 0
    BY <1>5 DEF BeginWait, Enqueueing, Dispatching, InUseByOther, isInUse
  <2>2. ~isMaking(Top(t))
    BY <2>1, DestroyedIsIdle
  <2>3. Effective(t) = Top(t).msg /\ Top(t).msg \in {"use", "destroy"}
    BY <1>2, <2>1, <2>2 DEF Effective, isMaking, PlainFrame
  <2>4. /\ f \in Frame /\ f.at = "wait" /\ f.msg = Top(t).msg
        /\ f.handle = Top(t).handle
    BY <1>2, <2>1, <2>3 DEF Frame, Places, Entry
  <2> HIDE DEF f
  <2>5. OutsideObject(t, f)
    BY <2>1, <2>4, TopOutside DEF OutsideObject
  <2>6. PlainFrame(f) /\ f.at # "handler" /\ ~isMaking(f)
    BY <2>3, <2>4 DEF PlainFrame, isMaking
  <2>7. CASE Return(t)
    BY <1>1, <1>2, <2>1, <2>7, QuietReturn
  <2>8. CASE Replace(t, f)
    BY <1>1, <1>2, <2>1, <2>4, <2>5, <2>6, <2>8, QuietReplace
  <2> QED
    BY <2>1, <2>7, <2>8
<1>6. CASE KeepWaiting(t)
  <2> DEFINE f == [Top(t) EXCEPT !.n = Polls(t)]
  <2>1. At(t, "wait") /\ Replace(t, f)
    BY <1>6 DEF KeepWaiting
  <2>2. Polls(t) \in Int
    BY <1>2, <2>1 DEF Polls, Frame
  <2>3. /\ f \in Frame /\ f.at = "wait" /\ f.msg = Top(t).msg
        /\ f.handle = Top(t).handle
    BY <1>2, <2>1, <2>2 DEF Frame
  <2> HIDE DEF f
  <2>4. OutsideObject(t, f)
    BY <2>1, <2>3, TopOutside DEF OutsideObject
  <2>5. PlainFrame(f) /\ f.at # "handler" /\ ~isMaking(f)
    BY <1>2, <2>1, <2>3 DEF PlainFrame, isMaking
  <2> QED
    BY <1>1, <1>2, <2>1, <2>3, <2>4, <2>5, QuietReplace
<1> QED
  BY <1>3, <1>4, <1>5, <1>6

LEMMA ProcessKeepsInv ==
  ASSUME Inv, TypeOK', NEW t \in Threads, NEW p \in {"call", "wait"}, At(t, p),
         ~isFree(Obj(t)), ~InUseByOther(t),
         Effective(t) \in {"use", "destroy", "converted"}, Process(t)
  PROVE  Inv'
<1> PICK m : m = Effective(t)
  OBVIOUS
<1> PICK o : o = Obj(t)
  OBVIOUS
<1>1. TypeOK
  BY DEF Inv
<1>2. /\ Len(stack[t]) \in 1..Len(stack[t]) /\ Top(t) = stack[t][Len(stack[t])]
      /\ stack[t] # << >> /\ Top(t).at = p /\ Top(t).handle \in Handles
      /\ o = objectTable[Top(t).handle] /\ o \in Entry
  BY <1>1, TopCall
<1>3. PlainFrame(Top(t)) /\ o.dependentObject = NoHandle
  BY <1>2 DEF Inv, FramesPlain
<1>4. /\ m \in {"use", "destroy"} => m = Top(t).msg
      /\ m = "converted" => isMaking(Top(t))
  BY <1>2, <1>3 DEF Effective, PlainFrame, isMaking
<1>5. isDestroy(m) => o.lockCount = 0
  BY <1>4, DestroyedIsIdle DEF isDestroy
<1>6. m = "converted" => o.notinited
  BY <1>2, <1>4, MakerFacts
<1>7. o.lockCount = 0 \/ o.lockOwner = t
  <2>1. o.lockCount >= 0 /\ o.lockCount \in Int
    BY <1>2 DEF Inv, LocksHeld, LockHeld, Entry
  <2> QED
    BY <2>1 DEF InUseByOther, isInUse
<1>8. CASE /\ isInvalidState(o) /\ m # "converted" /\ Return(t)
           /\ SetEntry(Top(t).handle, Signal(o)) \/ UNCHANGED objectTable
  <2>1. SameLocks
    <3>1. /\ Signal(o).uniqueID = o.uniqueID /\ Signal(o).notinited = o.notinited
          /\ Signal(o).lockCount = o.lockCount /\ Signal(o).lockOwner = o.lockOwner
          /\ Signal(o).dependentObject = o.dependentObject /\ Signal(o).signalled
      BY <1>2 DEF Signal, Entry
    <3> QED
      BY <1>1, <1>2, <1>8, <3>1, EntryUpdateQuiet, UnchangedTable
  <2> QED
    BY <1>2, <1>8, <2>1, QuietReturn
<1>9. CASE ~isInvalidState(o) /\ m = "use" /\ EnterHandler(t, o, o.uniqueID, m)
  <2>1. Receives(t, o, m) /\ ~isDestroy(m)
    BY <1>3, <1>7, <1>9 DEF Receives, isInvalidState, isFree, isDestroy
  <2> QED
    BY <1>2, <1>9, <2>1, EnterHandlerKeepsInv
<1>10. CASE /\ isDestroy(m)
            /\ isInvalidState(o) => m = "converted"
            /\ EnterHandler(t, Signal(o), o.uniqueID, m)
  <2>1. m \in {"use", "destroy", "converted"}
    OBVIOUS
  <2>2. o.notinited <=> m = "converted"
    BY <1>6, <1>10 DEF isInvalidState
  <2>3. Receives(t, o, m)
    BY <1>3, <1>4, <1>5, <1>10, <2>2 DEF Receives, isFree, isDestroy
  <2>4. Signal(o) \in Entry /\ Signal(o).signalled /\ Signal(o).uniqueID = o.uniqueID
    BY <1>2, SignalTyped DEF Signal, Entry
  <2> QED
    BY <1>10, <2>1, <2>3, <2>4, EnterHandlerKeepsInv
<1>11. ~HasDependent(o)
  BY <1>3 DEF HasDependent
<1> QED
  BY <1>8, <1>9, <1>10, <1>11 DEF Process

LEMMA DispatchingKeepsInv ==
  ASSUME Inv, TypeOK', NEW t \in Threads,
         DispatchDirect(t) \/ DispatchQueued(t) \/ EndWait(t)
  PROVE  Inv'
<1>1. TypeOK
  BY DEF Inv
<1>2. CASE DispatchQueued(t)
  BY <1>2, ProcessKeepsInv
  DEF DispatchQueued, Enqueueing, Dispatching, Accepted
<1>3. CASE EndWait(t)
  <2>1. At(t, "wait") /\ ~isFree(Obj(t)) /\ ~InUseByOther(t) /\ Process(t)
    BY <1>3 DEF EndWait, SameObject, InUseByOther
  <2>2. PlainFrame(Top(t)) /\ Top(t).at = "wait"
    BY <1>1, <2>1, TopCall DEF Inv, FramesPlain
  <2>3. Effective(t) \in {"use", "destroy", "converted"}
    BY <2>2 DEF Effective, PlainFrame
  <2> QED
    BY <2>1, <2>3, ProcessKeepsInv
<1>4. CASE DispatchDirect(t)
  <2> PICK o : o = Obj(t)
    OBVIOUS
  <2>1. At(t, "call") /\ o.uniqueID # 0 /\ ~(o.lockCount > 0)
    BY <1>4 DEF DispatchDirect, Dispatching, Accepted, isFree, isInUse
  <2>2. /\ stack[t] # << >> /\ Top(t).at = "call" /\ Top(t).handle \in Handles
        /\ o = objectTable[Top(t).handle] /\ o \in Entry
    BY <1>1, <2>1, TopCall
  <2>3. CASE Return(t) /\ UNCHANGED objectTable
    BY <2>2, <2>3, QuietReturn, UnchangedTable
  <2>4. CASE ~isInvalidState(o) /\ EnterHandler(t, o, o.uniqueID, "use")
    <3>1. o.lockCount = 0
      BY <2>1, <2>2 DEF Inv, LocksHeld, LockHeld, Entry
    <3>2. o.dependentObject = NoHandle
      BY <2>2 DEF Inv, FramesPlain
    <3>3. Receives(t, o, "use") /\ ~isDestroy("use")
      BY <2>1, <2>4, <3>1, <3>2 DEF Receives, isInvalidState, isDestroy
    <3> QED
      BY <2>1, <2>2, <2>4, <3>3, EnterHandlerKeepsInv
  <2> QED
    BY <1>4, <2>3, <2>4 DEF DispatchDirect
<1> QED
  BY <1>2, <1>3, <1>4

-----------------------------------------------------------------------------
LEMMA InvInit == ASSUME PlainKernel PROVE Init => Inv
<1> SUFFICES ASSUME Init
             PROVE  Inv
  OBVIOUS
<1>1. TypeOK
  BY TypeInit
<1>2. \A t \in Threads : 1..Len(stack[t]) = {}
  <2>1. Len(<< >>) = 0
    BY EmptySeq
  <2> QED
    BY <2>1 DEF Init
<1>3. \A h \in Handles :
        objectTable[h].lockCount = 0 /\ objectTable[h].dependentObject = NoHandle
  BY DEF Init, FreeEntry
<1>4. LocksHeld
  BY <1>3 DEF LocksHeld, LockHeld
<1>5. FramesPlain /\ HandlersOwn /\ HandlersNest /\ MakersPin /\ DestroyersOutside
  BY <1>2, <1>3
  DEF FramesPlain, HandlersOwn, HandlersNest, MakersPin, DestroyersOutside
<1> QED
  BY <1>1, <1>4, <1>5 DEF Inv

(* Actions of a kernel with locked or dependent objects, which a plain     *)
(* kernel never takes.                                                     *)
LEMMA PlainSteps ==
  ASSUME PlainKernel, Inv, NEW t \in Threads
  PROVE  /\ ~LockObject(t) /\ ~UnlockObject(t) /\ ~ResumeDestroy(t)
         /\ ~FailDependent(t) /\ ~FinishDependent(t)
         /\ ~\E h, d \in Handles, inc \in BOOLEAN : SetDependent(t, h, d, inc)
<1>1. TypeOK
  BY DEF Inv
<1>2. ASSUME NEW p, p # "create", At(t, p)
      PROVE  /\ p \in {"init", "publish", "call", "wait", "handler"}
             /\ p = "call" => Top(t).msg # "lock"
  BY <1>1, <1>2, TopCall DEF Inv, FramesPlain, PlainFrame
<1>3. ~LockObject(t)
  BY <1>2 DEF LockObject, Call
<1>4. ~UnlockObject(t)
  BY <1>2 DEF UnlockObject
<1>5. ~ResumeDestroy(t)
  BY <1>2 DEF ResumeDestroy
<1>6. ~FailDependent(t) /\ ~FinishDependent(t)
  BY <1>2 DEF FailDependent, FinishDependent
<1>7. ~\E h, d \in Handles, inc \in BOOLEAN : SetDependent(t, h, d, inc)
  BY DEF SetDependent, PlainKernel
<1> QED
  BY <1>3, <1>4, <1>5, <1>6, <1>7

LEMMA InvNext == ASSUME PlainKernel PROVE Inv /\ [Next]_vars => Inv'
<1> SUFFICES ASSUME Inv, [Next]_vars
             PROVE  Inv'
  OBVIOUS
<1>1. TypeOK'
  BY TypeNext DEF Inv
<1>2. CASE BeginShutdown \/ UNCHANGED vars
  <2>1. objectTable' = objectTable /\ stack' = stack
    BY <1>2 DEF BeginShutdown, vars
  <2> QED
    BY <1>1, <2>1
    DEF Inv, FramesPlain, PlainFrame, HandlersOwn, OwnsObject, HandlersNest, NestsWell,
        LocksHeld, LockHeld, MakersPin, Pins, DestroyersOutside, isHandler, isMaking,
        isDestroy
<1>3. ASSUME NEW t \in Threads, Begin(t) \/ Finish(t) \/ Kernel(t)
      PROVE  Inv'
  <2>1. CASE \/ BeginCreate(t) \/ RejectCreate(t) \/ FailInit(t) \/ CompleteInit(t)
             \/ Publish(t)
    BY <1>1, <2>1, CreatingKeepsInv
  <2>2. CASE \/ \E h \in Handles, m \in MayBeSent : Send(t, h, m)
             \/ RejectHandle(t) \/ IncRef(t) \/ DecRef(t)
    BY <1>1, <2>2, SendingKeepsInv
  <2>3. CASE RejectNesting(t) \/ BeginWait(t) \/ KeepWaiting(t) \/ AbandonWait(t)
    BY <1>1, <2>3, WaitingKeepsInv
  <2>4. CASE DispatchDirect(t) \/ DispatchQueued(t) \/ EndWait(t)
    BY <1>1, <2>4, DispatchingKeepsInv
  <2>5. CASE \E h \in Handles : EnterObject(t, h)
    BY <1>1, <2>5, EnterObjectKeepsInv
  <2>6. CASE Ready(t)
    BY <1>1, <2>6, ReadyKeepsInv
  <2>7. CASE HandlerReturn(t)
    BY <1>1, <2>7, HandlerReturnKeepsInv
  <2> QED
    BY <1>3, <2>1, <2>2, <2>3, <2>4, <2>5, <2>6, <2>7, PlainSteps
    DEF Begin, Finish, Kernel
<1> QED
  BY <1>2, <1>3 DEF Next

-----------------------------------------------------------------------------
LEMMA InvGivesExclusiveUse == ASSUME PlainKernel, Inv PROVE ExclusiveUse
<1> SUFFICES ASSUME NEW h \in Handles, NEW t \in Users(h)
             PROVE  objectTable[h].lockOwner = t
  BY DEF ExclusiveUse
<1>1. PICK i \in 1..Len(stack[t]) : isInside(stack[t][i], h)
  BY DEF Users
<1>2. t \in Threads /\ PlainFrame(stack[t][i])
  BY DEF Inv, FramesPlain, Users
<1>3. stack[t][i].at = "handler" /\ stack[t][i].handle = h
  BY <1>1, <1>2 DEF isInside, PlainFrame
<1> QED
  BY <1>2, <1>3 DEF Inv, HandlersOwn, OwnsObject

LEMMA InvGivesNoStaleCall == ASSUME PlainKernel, Inv PROVE NoStaleCall
<1> SUFFICES ASSUME NEW t \in Threads, NEW i \in 1..Len(stack[t]),
                    stack[t][i].at \in {"handler", "locked"}
             PROVE  objectTable[stack[t][i].handle].uniqueID = stack[t][i].uid
  BY DEF NoStaleCall
<1>1. stack[t][i].at = "handler"
  BY DEF Inv, FramesPlain, PlainFrame
<1> QED
  BY <1>1 DEF Inv, HandlersOwn, OwnsObject

LEMMA InvGivesInitPinned == ASSUME Inv PROVE InitPinned
  BY DEF InitPinned, Inv, MakersPin, Pins, isMaking

(* The strengthened invariant holds of every plain kernel: any number of   *)
(* threads, handles and objects, any nesting, with or without a shutdown.  *)
THEOREM Invariant == ASSUME PlainKernel PROVE Spec => []Inv
  BY InvInit, InvNext, PTL DEF Spec

(* Where no object is locked by CRYPT_IATTRIBUTE_LOCKED and none has a     *)
(* dependent object, the lock count and its owner in the object table keep *)
(* every object to one thread at a time.                                   *)
THEOREM OneThreadPerObject == ASSUME PlainKernel PROVE Spec => []ExclusiveUse
<1>1. Inv => ExclusiveUse
  BY InvGivesExclusiveUse
<1> QED
  BY <1>1, Invariant, PTL

(* In such a kernel dispatchMessage, which does not compare unique IDs     *)
(* when a handler returns, unlocks the very object that it locked.         *)
THEOREM ReturnsToItsObject == ASSUME PlainKernel PROVE Spec => []NoStaleCall
<1>1. Inv => NoStaleCall
  BY InvGivesNoStaleCall
<1> QED
  BY <1>1, Invariant, PTL

(* In such a kernel an object stays in the table, not yet initialised, for *)
(* as long as its creator is setting it up.                                *)
THEOREM CreatorKeepsObject == ASSUME PlainKernel PROVE Spec => []InitPinned
<1>1. Inv => InitPinned
  BY InvGivesInitPinned
<1> QED
  BY <1>1, Invariant, PTL
=============================================================================
