-------------------------- MODULE HandleAllocation --------------------------
(***************************************************************************)
(* How krnlCreateObject of src/kernel/objects.c chooses the handle and the *)
(* unique ID of an object: findFreeObjectEntry steps through the table,    *)
(* in the order that Steps gives (that of a shift register, HandleOrder),  *)
(* from the handle that was given last.  All of it happens with the object *)
(* table locked, so that a creation is one action.                         *)
(***************************************************************************)
EXTENDS Integers, FiniteSets

CONSTANTS MAX_NO_OBJECTS, NO_SYSTEM_OBJECTS,
          Steps,         \* the handle after each handle in the order of the search
          INT_MAX,       \* where the unique ID starts again
          Watched,       \* a handle whose reuse is watched
          Fixup,         \* added to a first handle that is a system object's, 17 in the code
          Starts,        \* values of the clock, by which the first handle is chosen
          CreateLoads,   \* bounds: numbers of objects in the table at which one is created
          DestroyLoads   \* and at which one is destroyed

CRYPT_ERROR_OVERFLOW == -1
CRYPT_ERROR_INTERNAL == -2
FREE == -3        \* the objectPtr of an entry is null
NONE == -4        \* nothing has been freed or returned

TableHandles == 0..MAX_NO_OBJECTS - 1
LFSR_MASK == MAX_NO_OBJECTS

HandleAssumption ==
  /\ MAX_NO_OBJECTS \in Nat /\ NO_SYSTEM_OBJECTS \in Nat \ {0} /\ Fixup \in Nat
  /\ NO_SYSTEM_OBJECTS + Fixup < MAX_NO_OBJECTS   \* the static_assert at objects.c:1051
  /\ Steps \in [TableHandles -> TableHandles]
  /\ INT_MAX \in Nat /\ INT_MAX > NO_SYSTEM_OBJECTS
  /\ Watched \in TableHandles /\ Starts \subseteq Nat
  /\ CreateLoads \subseteq Nat /\ DestroyLoads \subseteq Nat

\* The steps lead from any handle but 0 through all others and back, in the order that turn lists them.
GoesRound(size, steps, turn) ==
  /\ DOMAIN turn = 1..size - 1 /\ {turn[k] : k \in 1..size - 1} = 1..size - 1
  /\ \A k \in 1..size - 1 : steps[turn[k]] = IF k = size - 1 THEN turn[1] ELSE turn[k + 1]

VARIABLES uniqueID,        \* entry -> the unique ID of its object, or FREE
          objectHandle,    \* the handle given last
          objectUniqueID,  \* the next unique ID
          iterations,      \* of the latest search
          result,          \* handle or error of the latest creation, NONE after a destruction
          freed,           \* the handle freed by the latest step
          since            \* handles given since Watched was freed, while it is free

allocationVars == <<uniqueID, objectHandle, objectUniqueID, iterations, result, freed, since>>

isFreeObject(h) == uniqueID[h] = FREE
Objects == {h \in TableHandles : ~isFreeObject(h)}

-----------------------------------------------------------------------------
\* What value is in iteration i of the loop of findFreeObjectEntry, which steps before it looks.
Path(v) == LET p[i \in 0..MAX_NO_OBJECTS - 1] == IF i = 0 THEN Steps[v] ELSE Steps[p[i - 1]] IN p

\* A search that looks for the end of its round first.
FoundBeforeStart(v, i) == isFreeObject(Path(v)[i]) /\ Path(v)[i] # v

Found(v, i) == isFreeObject(Path(v)[i])

\* The loop is left at its bound, with a free entry, or where it began.
SearchEnds(v, i) == i = MAX_NO_OBJECTS \/ Found(v, i) \/ Path(v)[i] = v
LastIteration(v) == CHOOSE i \in 0..MAX_NO_OBJECTS : SearchEnds(v, i) /\ \A j \in 0..i - 1 : ~SearchEnds(v, j)

Outcome(v, i) ==
  IF i = MAX_NO_OBJECTS THEN CRYPT_ERROR_INTERNAL
  ELSE IF Found(v, i) THEN Path(v)[i]
  ELSE CRYPT_ERROR_OVERFLOW

\* The search of a table that hands the entry just left out again.
findFreeInPlace(v) ==
  LET i == LastIteration(v) IN
  [handle |-> IF isFreeObject(v) THEN v ELSE Outcome(v, i), iterations |-> i]

findFreeObjectEntry(v) == LET i == LastIteration(v) IN [handle |-> Outcome(v, i), iterations |-> i]

\* The first dynamic handle is searched for from a place that depends on the clock.
StartHandle(time) ==
  LET h == time % LFSR_MASK IN
  IF h < NO_SYSTEM_OBJECTS THEN NO_SYSTEM_OBJECTS + Fixup ELSE h

\* The ID after the current one.
NextUniqueID == IF objectUniqueID >= INT_MAX - 1 THEN NO_SYSTEM_OBJECTS ELSE objectUniqueID + 1

\* The system objects are in the table.
AllocationInit ==
  /\ uniqueID = [h \in TableHandles |-> IF h < NO_SYSTEM_OBJECTS THEN h ELSE FREE]
  /\ objectHandle \in {StartHandle(t) : t \in Starts}
  /\ objectUniqueID = NO_SYSTEM_OBJECTS
  /\ iterations = 0 /\ result = NONE /\ freed = NONE /\ since = {}

krnlCreateObject ==
  /\ Cardinality(Objects) \in CreateLoads
  /\ LET entry == findFreeObjectEntry(objectHandle) IN
     /\ iterations' = entry.iterations /\ result' = entry.handle /\ freed' = NONE
     /\ IF entry.handle \in {CRYPT_ERROR_OVERFLOW, CRYPT_ERROR_INTERNAL}
        THEN UNCHANGED <<uniqueID, objectHandle, objectUniqueID, since>>
        ELSE /\ uniqueID' = [uniqueID EXCEPT ![entry.handle] = objectUniqueID]
             /\ objectHandle' = entry.handle /\ objectUniqueID' = NextUniqueID
             /\ since' = IF Watched \in Objects \/ entry.handle = Watched THEN {} ELSE since \union {entry.handle}

destroyObjectData ==
  /\ Cardinality(Objects) \in DestroyLoads
  /\ \E h \in Objects :
       /\ h >= NO_SYSTEM_OBJECTS
       /\ uniqueID' = [uniqueID EXCEPT ![h] = FREE] /\ freed' = h
       /\ since' = IF h = Watched THEN {} ELSE since
  /\ result' = NONE /\ iterations' = 0
  /\ UNCHANGED <<objectHandle, objectUniqueID>>

AllocationNext == krnlCreateObject \/ destroyObjectData

AllocationSpec == AllocationInit /\ [][AllocationNext]_allocationVars

-----------------------------------------------------------------------------
(* Properties.                                                             *)

\* A creation fails for want of an entry only when there is none, and then after MAX_NO_OBJECTS - 2
\* iterations (the postconditions at objects.c:695); the loop never reaches its bound (objects.c:686).
OverflowExact ==
  result \in {CRYPT_ERROR_OVERFLOW, CRYPT_ERROR_INTERNAL} =>
    result = CRYPT_ERROR_OVERFLOW /\ Objects = TableHandles /\ iterations = MAX_NO_OBJECTS - 2

\* A free handle is passed over for others, but for none of them twice: handles are reused in turn
\* (objects.c:601: a handle that has been given up is not given again as soon as possible).
ReusedInTurnStep == result' \in since /\ freed' = NONE => Watched \in Objects
ReusedInTurn == [][ReusedInTurnStep]_allocationVars

\* A handle that was given up is given to the very next object only if no other is free: "there is one case
\* in which we can still get handle reuse", a table that is nearly full (objects.c:617).
ReuseOnlyWhenFull == [][freed # NONE /\ result' = freed => Cardinality(Objects) = MAX_NO_OBJECTS - 1]_allocationVars

\* "The kernel can tell them apart because it maintains an internal unique ID for each object" (objects.c:608).
DistinctIDs == \A g, h \in Objects : g # h => uniqueID[g] # uniqueID[h]

-----------------------------------------------------------------------------
(* The invariant behind them.                                              *)

\* The search always starts at a handle that no system object has (the precondition at objects.c:640).
AllocationTypeOK ==
  /\ uniqueID \in [TableHandles -> Nat \union {FREE}]
  /\ \A h \in 0..NO_SYSTEM_OBJECTS - 1 : uniqueID[h] = h
  /\ objectHandle \in NO_SYSTEM_OBJECTS..MAX_NO_OBJECTS - 1
  /\ objectUniqueID \in NO_SYSTEM_OBJECTS..INT_MAX - 1

\* While Watched is free, the handles given since then are those that the next search comes to behind it.
GivenAreBehind ==
  Watched \notin Objects =>
    /\ Watched \notin since
    /\ \A i \in 0..MAX_NO_OBJECTS - 2 :
         Path(objectHandle)[i] \in since => \E j \in 0..i : Path(objectHandle)[j] = Watched

AllocationInv == AllocationTypeOK /\ OverflowExact /\ GivenAreBehind

\* As long as no unique ID has been given twice.
NotWrapped == objectUniqueID < INT_MAX - 1

\* Until then the IDs of the objects are behind the next one, and those of system objects their own.
IDsBehind == \A h \in Objects : h >= NO_SYSTEM_OBJECTS => uniqueID[h] \in NO_SYSTEM_OBJECTS..objectUniqueID - 1
IDsInv == IDsBehind /\ DistinctIDs
=============================================================================
