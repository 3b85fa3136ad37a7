-------------------------- MODULE DependentObjects --------------------------
(***************************************************************************)
(* Certificates that constrain contexts: setDependentObject, with          *)
(* updateDependentObjectPerms, and clearDependentObject of                 *)
(* src/kernel/int_msg.c, and the end of an object, in steps, of            *)
(* src/kernel/msg_acl.c.  All of them release the object table in the      *)
(* middle: to ask the certificate what it allows, while the last reference *)
(* destroys an object, while an object destroys itself.  They go on with   *)
(* what they read before.  Callers hold a reference to what they attach,   *)
(* and detach, if at all, what they attached; anybody may attach something *)
(* to the same object, and give up any other reference, meanwhile.         *)
(***************************************************************************)
EXTENDS Integers, FiniteSets

CONSTANTS Contexts, Certs, Threads, NoHandle,
          Usages,   \* kinds of use that a context permits and a certificate allows
          MaxUid    \* bound: objects that are created

Handles == Contexts \union Certs
DependentObjectsAssumption ==
  /\ Contexts \intersect Certs = {} /\ NoHandle \notin Handles
  /\ IsFiniteSet(Handles) /\ IsFiniteSet(Threads) /\ MaxUid \in Nat

VARIABLES objectTable,
          outside,  \* references to each object that are no object's of the table
          pending,  \* the message that each thread is processing
          attached, \* the objects to which each thread has attached something and not yet detached it
          late,     \* history: something was stored in a slot that was free when it was checked
          uid       \* the unique ID of the next object

vars == <<objectTable, outside, pending, attached, late, uid>>

-----------------------------------------------------------------------------
(* An entry: permitted is actionFlags of a context and what a certificate  *)
(* allows; state is "dying" from the last reference on, "signalled" from   *)
(* OBJECT_FLAG_SIGNALLED on, and "left" if the DESTROY came to nothing.    *)

Free == [uniqueID |-> 0, permitted |-> {}, intRefCount |-> 0, dependentObject |-> NoHandle, state |-> "normal"]
isValidObject(h) == h # NoHandle /\ objectTable[h].uniqueID # 0
Idle == [at |-> "idle", handle |-> NoHandle, dependent |-> NoHandle, uniqueID |-> 0,
         actionFlags |-> {}, inc |-> FALSE]

Working(t, at) == pending[t].at = at

\* The references to an object that callers keep until their message is through: one that the
\* object takes over for each of those, one in all for the others.
Attaching(t, h) == pending[t].dependent = h /\ pending[t].at \in {"set", "asked"}
Detaching(t, h) == pending[t].handle = h /\ Working(t, "clear")
Giving(h) == {t \in Threads : Attaching(t, h) /\ ~pending[t].inc}
Keeping(h) == {t \in Threads : Detaching(t, h) \/ (Attaching(t, h) /\ pending[t].inc)}
Promised(h) == Cardinality(Giving(h)) + IF Keeping(h) = {} THEN 0 ELSE 1

\* Mutant: a reference is dropped from a count of zero.
DecRefUnchecked(table, h) ==
  IF h = NoHandle THEN table
  ELSE [table EXCEPT ![h].intRefCount = @ - 1, ![h].state = IF table[h].intRefCount = 1 THEN "dying" ELSE @]

\* decRefCount up to the DESTROY that follows the last reference; no object, or a count of zero, is an error.
DecRef(table, h) ==
  IF h = NoHandle \/ table[h].intRefCount = 0 THEN table
  ELSE [table EXCEPT ![h].intRefCount = @ - 1, ![h].state = IF table[h].intRefCount = 1 THEN "dying" ELSE @]

Create(h, usages) ==
  /\ ~isValidObject(h) /\ uid <= MaxUid
  /\ h \in Contexts => usages = Usages
  /\ objectTable' = [objectTable EXCEPT ![h] =
       [uniqueID |-> uid, permitted |-> usages, intRefCount |-> 1, dependentObject |-> NoHandle, state |-> "normal"]]
  /\ outside' = [outside EXCEPT ![h] = @ + 1]
  /\ uid' = uid + 1
  /\ UNCHANGED <<pending, attached, late>>

\* decRefCount for a reference that nobody has promised to an object.
DecRefCount(h) ==
  /\ outside[h] > Promised(h)
  /\ objectTable' = DecRef(objectTable, h)
  /\ outside' = [outside EXCEPT ![h] = @ - 1]
  /\ UNCHANGED <<pending, attached, late, uid>>

-----------------------------------------------------------------------------
(* The DESTROY that follows the last reference, with the table unlocked.   *)

\* The wait for an object that is in use times out, and nobody tries again.
GiveUp(h) ==
  /\ objectTable[h].state = "dying"
  /\ objectTable' = [objectTable EXCEPT ![h].state = "left"]
  /\ UNCHANGED <<outside, pending, attached, late, uid>>

\* preDispatchSignalDependentObjects: the dependent object loses a reference.
SignalObject(h) ==
  /\ objectTable[h].state = "dying"
  /\ objectTable' = [DecRef(objectTable, objectTable[h].dependentObject) EXCEPT
                        ![h].dependentObject = NoHandle, ![h].state = "signalled"]
  /\ attached' = [t \in Threads |-> attached[t] \ {h}]
  /\ UNCHANGED <<outside, pending, late, uid>>

\* The handler is through and the entry cleared.
RemoveObject(h) ==
  /\ objectTable[h].state = "signalled"
  /\ objectTable' = [objectTable EXCEPT ![h] = Free]
  /\ UNCHANGED <<outside, pending, attached, late, uid>>

-----------------------------------------------------------------------------
(* setDependentObject *)

\* The checks.
SetDependentObject(t, h, d, inc) ==
  /\ Working(t, "idle")
  /\ {h, d} \intersect Contexts # {} /\ {h, d} \intersect Certs # {}
  /\ isValidObject(h) /\ isValidObject(d)
  /\ objectTable[h].intRefCount > 0
  /\ objectTable[h].dependentObject = NoHandle /\ objectTable[d].dependentObject # h
  /\ pending' = [pending EXCEPT ![t] =
       [Idle EXCEPT !.at = "set", !.handle = h, !.dependent = d,
                    !.uniqueID = objectTable[h].uniqueID, !.inc = inc]]
  /\ Promised(d)' <= outside[d]
  /\ UNCHANGED <<objectTable, outside, attached, late, uid>>

\* checkContextCapability of the certificate, which may be gone: no object, no capability.
CheckCapability(t) ==
  /\ Working(t, "set")
  /\ LET cert == CHOOSE c \in {pending[t].handle, pending[t].dependent} : c \in Certs IN
     pending' = [pending EXCEPT ![t].at = "asked",
                   ![t].actionFlags = IF objectTable[cert].state = "signalled" THEN {}
                                      ELSE objectTable[cert].permitted]
  /\ UNCHANGED <<objectTable, outside, attached, late, uid>>

\* Mutant: a context takes the last certificate's permissions.
UpdateToLast(f, table) ==
  LET context == IF f.handle \in Contexts THEN f.handle ELSE f.dependent IN
  [table EXCEPT ![context].permitted = f.actionFlags]

\* updateActionPerms, the ratchet.
UpdateActionPerms(f, table) ==
  LET context == IF f.handle \in Contexts THEN f.handle ELSE f.dependent IN
  [table EXCEPT ![context].permitted = @ \intersect f.actionFlags]

\* Whether the object is the one that was checked, and the certificate allows anything.
SameObject(f) == objectTable[f.handle].uniqueID = f.uniqueID /\ f.actionFlags # {}

\* With the table locked again; the slot and the state of the object are not looked at again.
FinishDependent(t) ==
  LET f == pending[t] IN
  /\ Working(t, "asked")
  /\ IF SameObject(f)
     THEN /\ objectTable' = [UpdateActionPerms(f, objectTable) EXCEPT
               ![f.handle].dependentObject = f.dependent,
               ![f.dependent].intRefCount = @ + IF f.inc THEN 1 ELSE 0]
          /\ outside' = IF f.inc THEN outside ELSE [outside EXCEPT ![f.dependent] = @ - 1]
          /\ attached' = [attached EXCEPT ![t] = @ \union {f.handle}]
          /\ late' = \/ late \/ objectTable[f.handle].dependentObject # NoHandle
                     \/ objectTable[f.handle].state = "signalled"
     ELSE UNCHANGED <<objectTable, outside, attached, late>>
  /\ pending' = [pending EXCEPT ![t] = Idle]
  /\ UNCHANGED uid

-----------------------------------------------------------------------------
(* clearDependentObject, sent by who attached the object.  The reference   *)
(* goes first; if it was the last the slot has to wait for the DESTROY, and*)
(* keeps the object if that fails.                                         *)

Detached(t, h) == [attached EXCEPT ![t] = @ \ {h}]

\* No dependent object, or none with a reference to drop: an error.
ClearNothing(t, h) ==
  LET d == objectTable[h].dependentObject IN
  /\ ~isValidObject(d) \/ objectTable[d].intRefCount = 0
  /\ attached' = Detached(t, h)
  /\ UNCHANGED <<objectTable, pending>>

ClearReference(t, h) ==
  LET d == objectTable[h].dependentObject IN
  /\ isValidObject(d) /\ objectTable[d].intRefCount > 1
  /\ objectTable' = [DecRef(objectTable, d) EXCEPT ![h].dependentObject = NoHandle]
  /\ attached' = Detached(t, h)
  /\ UNCHANGED pending

ClearLastReference(t, h) ==
  LET d == objectTable[h].dependentObject IN
  /\ isValidObject(d) /\ objectTable[d].intRefCount = 1
  /\ objectTable' = DecRef(objectTable, d)
  /\ pending' = [pending EXCEPT ![t] = [Idle EXCEPT !.at = "clear", !.handle = h, !.dependent = d,
                                                    !.uniqueID = objectTable[d].uniqueID]]
  /\ UNCHANGED attached

ClearDependentObject(t, h) ==
  /\ Working(t, "idle") /\ h \in attached[t] /\ isValidObject(h) /\ outside[h] > 0
  /\ ClearNothing(t, h) \/ ClearReference(t, h) \/ ClearLastReference(t, h)
  /\ Promised(h)' <= outside[h]
  /\ UNCHANGED <<outside, late, uid>>

\* The DESTROY has succeeded.
ForgetDependent(t) ==
  LET f == pending[t] IN
  /\ Working(t, "clear") /\ objectTable[f.dependent].uniqueID # f.uniqueID
  /\ objectTable' = [objectTable EXCEPT ![f.handle].dependentObject = NoHandle]
  /\ pending' = [pending EXCEPT ![t] = Idle]
  /\ attached' = Detached(t, f.handle)
  /\ UNCHANGED <<outside, late, uid>>

\* The DESTROY has failed: the error return, with the slot as it was.
ClearFails(t) ==
  LET f == pending[t] IN
  /\ Working(t, "clear") /\ objectTable[f.dependent].uniqueID = f.uniqueID
  /\ objectTable[f.dependent].state = "left"
  /\ pending' = [pending EXCEPT ![t] = Idle]
  /\ attached' = Detached(t, f.handle)
  /\ UNCHANGED <<objectTable, outside, late, uid>>

Init ==
  /\ objectTable = [h \in Handles |-> Free] /\ outside = [h \in Handles |-> 0]
  /\ pending = [t \in Threads |-> Idle] /\ attached = [t \in Threads |-> {}]
  /\ late = FALSE /\ uid = 1

Next ==
  \/ \E h \in Handles : \/ DecRefCount(h) \/ GiveUp(h) \/ SignalObject(h) \/ RemoveObject(h)
                        \/ \E usages \in SUBSET Usages \ {{}} : Create(h, usages)
  \/ \E t \in Threads :
       \/ \E h, d \in Handles, inc \in BOOLEAN : SetDependentObject(t, h, d, inc)
       \/ CheckCapability(t) \/ FinishDependent(t)
       \/ \E h \in Handles : ClearDependentObject(t, h)
       \/ ForgetDependent(t) \/ ClearFails(t)

Spec == Init /\ [][Next]_vars

-----------------------------------------------------------------------------

\* The slot of an object is to be cleared when its dependent object is destroyed; it is destroyed.
Clearing(h) == \E t \in Threads : Detaching(t, h)
Forgotten(h) == \E t \in Threads :
  Detaching(t, h) /\ objectTable[pending[t].dependent].uniqueID # pending[t].uniqueID

\* The objects that count as references to one.
DependOn(h) == {p \in Handles : isValidObject(p) /\ objectTable[p].dependentObject = h /\ ~Clearing(p)}

\* As long as every attachment has found the slot as it was checked, the reference count of an object is
\* that of the references outside and of the objects that depend on it, also when objects go, and their
\* handles come back, between the steps of other threads; and an object whose DESTROY has failed stays
\* without references, although a slot that it was to be cleared from keeps it, and that slot's object
\* drops it once more at its own end.
RefsBalanced ==
  ~late => \A h \in Handles : isValidObject(h) =>
    objectTable[h].intRefCount =
      outside[h] + IF objectTable[h].state = "left" THEN 0 ELSE Cardinality(DependOn(h))

\* As long as that is so, a context permits nothing that a certificate attached to it, or to which it is
\* attached, does not allow, whatever was attached to it in whatever order ("the cert can constrain the
\* use of the context beyond its normal level", int_msg.c:996).
ConstrainedByCert ==
  ~late => \A h \in Handles :
    LET d == objectTable[h].dependentObject IN
    isValidObject(h) /\ d # NoHandle /\ ~Forgotten(h) =>
      \A context \in {h, d} \intersect Contexts, cert \in {h, d} \intersect Certs :
        objectTable[context].permitted \subseteq objectTable[cert].permitted

\* A dependent object is not overwritten by another ("There can't already be a dependent object set",
\* int_msg.c:911).  It is: setDependentObject looks at the slot before it gives the table up, and two
\* threads that attach to one object both find it free; the first one's reference is never dropped.
NotOverwritten ==
  [][\A h \in Handles : objectTable[h].dependentObject # NoHandle =>
       objectTable'[h].dependentObject \in {objectTable[h].dependentObject, NoHandle}]_vars

\* An object that is signalled has no dependent object ("the dependent object is disconnected from this
\* object", msg_acl.c:1287).  It may: an attachment that was checked before is stored in the signalled
\* object, and goes with its entry, with the reference.
SignalledIsDisconnected ==
  \A h \in Handles : objectTable[h].state = "signalled" => objectTable[h].dependentObject = NoHandle

-----------------------------------------------------------------------------
(* What makes the first two inductive. *)

Message == [at : {"idle", "set", "asked", "clear"}, handle : Handles \union {NoHandle},
            dependent : Handles \union {NoHandle}, uniqueID : Nat, actionFlags : SUBSET Usages, inc : BOOLEAN]

Entry == [uniqueID : Nat, permitted : SUBSET Usages, intRefCount : Int,
          dependentObject : Handles \union {NoHandle}, state : {"normal", "dying", "signalled", "left"}]

TypeOK ==
  /\ objectTable \in [Handles -> Entry]
  /\ outside \in [Handles -> Nat] /\ uid \in Nat \ {0} /\ pending \in [Threads -> Message]
  /\ attached \in [Threads -> SUBSET Handles]

\* One of two handles is a context's and the other a certificate's.
Attachable(h, d) ==
  (h \in Contexts /\ d \in Certs) \/ (h \in Certs /\ d \in Contexts)

\* The message of t is about the object that h stands for now.
About(t, h) == pending[t].handle = h /\ pending[t].uniqueID = objectTable[h].uniqueID

\* Unique IDs are used once, and a free entry is empty.
UniqueIDs ==
  /\ \A h \in Handles : objectTable[h].uniqueID < uid
  /\ \A t \in Threads : pending[t].uniqueID < uid
  /\ \A h \in Handles : ~isValidObject(h) => objectTable[h] = Free /\ outside[h] = 0

\* An object is on its way out from its last reference on, and signalled without a dependent object.
Ends ==
  \A h \in Handles :
    /\ isValidObject(h) /\ objectTable[h].state = "normal" => objectTable[h].intRefCount > 0
    /\ objectTable[h].state # "normal" => objectTable[h].intRefCount = 0
    /\ objectTable[h].state = "signalled" => objectTable[h].dependentObject = NoHandle

\* What a thread that is not idle works on; a reference of one that detaches is gone already.
Messages ==
  \A t \in Threads :
    LET f == pending[t] IN
    /\ ~Working(t, "idle") => Attachable(f.handle, f.dependent) /\ f.uniqueID # 0
    /\ Working(t, "idle") => f.handle = NoHandle
    /\ Working(t, "clear") => objectTable[f.handle].dependentObject = f.dependent /\ f.handle \in attached[t]

\* One thread has attached what depends on an object.
Attachers ==
  \A h \in Handles :
    /\ \A t, v \in Threads : h \in attached[t] /\ h \in attached[v] => t = v
    /\ \A t \in Threads : h \in attached[t] => objectTable[h].dependentObject # NoHandle

\* Callers have the references that they have promised.
PromisesKept == \A h \in Handles : Promised(h) <= outside[h]

\* Objects depend on objects of the other kind, and these exist while the slot stands for them.
DependentsExist ==
  \A h \in Handles :
    LET d == objectTable[h].dependentObject IN
    isValidObject(h) /\ d # NoHandle =>
      Attachable(h, d) /\ (~Forgotten(h) => isValidObject(d))

\* A certificate allows what it answered while the object that the answer is for exists.
AnswersCurrent ==
  \A t \in Threads : \A cert \in Certs :
    LET f == pending[t] IN
    Working(t, "asked") /\ About(t, f.handle) /\ cert \in {f.handle, f.dependent} =>
      f.actionFlags \subseteq objectTable[cert].permitted

DependentsInv ==
  /\ TypeOK /\ UniqueIDs /\ Ends /\ Messages /\ Attachers /\ PromisesKept /\ DependentsExist
  /\ AnswersCurrent /\ RefsBalanced /\ ConstrainedByCert

\* As long as nothing was stored in a slot that was no longer free.
OnTime == ~late => DependentsInv
=============================================================================
