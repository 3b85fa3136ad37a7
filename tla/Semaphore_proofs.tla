--------------------------- MODULE Semaphore_proofs ---------------------------
(* The semaphore's reference count is exact and its thread handle is       *)
(* closed once and by the last to leave, for any number of waiters.        *)
EXTENDS Semaphore, FiniteSetTheorems, TLAPS

(* The waiters are finitely many, and so are those inside a wait. *)
LEMMA InsideFinite == IsFiniteSet(Inside) /\ Cardinality(Inside) \in Nat
  BY SemaphoreAssumption, FS_Subset, FS_CardinalityType DEF Inside, SemaphoreAssumption

(* Nobody is inside exactly if the number of those inside is zero. *)
LEMMA InsideEmpty == Cardinality(Inside) = 0 <=> Inside = {}
  BY InsideFinite, FS_EmptySet

(* A step that moves no waiter in or out leaves the number inside alone. *)
LEMMA SameInside ==
  ASSUME \A w \in Waiters : waiter'[w] \in {"waiting", "waited", "leaving"}
                              <=> waiter[w] \in {"waiting", "waited", "leaving"}
  PROVE  Inside' = Inside
  BY DEF Inside

(* A waiter that passes the first locked block is one more inside. *)
LEMMA OneIn ==
  ASSUME SemaphoreTypeOK, NEW w \in Waiters, WaiterAt(w, "checked", "waiting")
  PROVE  Cardinality(Inside') = Cardinality(Inside) + 1 /\ Inside' # {}
<1>1. Inside' = Inside \union {w} /\ w \notin Inside
  BY DEF Inside, WaiterAt, SemaphoreTypeOK
<1>2. IsFiniteSet(Inside) /\ Cardinality(Inside) \in Nat
  BY InsideFinite
<1>3. Cardinality(Inside \union {w}) = Cardinality(Inside) + 1
  BY <1>1, <1>2, FS_AddElement
<1> QED BY <1>1, <1>3

(* A waiter that leaves is one less. *)
LEMMA OneOut ==
  ASSUME SemaphoreTypeOK, NEW w \in Waiters, NEW from \in {"waited", "leaving"}, WaiterAt(w, from, "idle")
  PROVE  /\ Cardinality(Inside') = Cardinality(Inside) - 1
         /\ Cardinality(Inside) \in Nat \ {0} /\ Inside # {}
         /\ Cardinality(Inside') = 0 <=> Inside' = {}
<1>1. Inside' = Inside \ {w} /\ w \in Inside
  BY DEF Inside, WaiterAt, SemaphoreTypeOK
<1>2. IsFiniteSet(Inside) /\ Cardinality(Inside) \in Nat
  BY InsideFinite
<1>3. Cardinality(Inside \ {w}) = Cardinality(Inside) - 1
  BY <1>1, <1>2, FS_RemoveElement
<1>4. IsFiniteSet(Inside \ {w})
  BY <1>2, FS_RemoveElement
<1> QED BY <1>1, <1>2, <1>3, <1>4, InsideEmpty, FS_EmptySet

LEMMA InitHolds == SemaphoreInit => SemaphoreInv
<1> SUFFICES ASSUME SemaphoreInit PROVE SemaphoreInv
  OBVIOUS
<1>1. Inside = {} /\ Cardinality(Inside) = 0
  <2>1. Inside = {}
    BY DEF SemaphoreInit, Inside
  <2> QED BY <2>1, InsideEmpty
<1>2. \A w \in Waiters : waiter[w] # "waiting"
  BY DEF SemaphoreInit
<1>3. SemaphoreTypeOK
  BY DEF SemaphoreInit, Template, SemaphoreTypeOK
<1>4. closes = 0 /\ creator = "start" /\ worker = "none" /\ semaphoreInfo.state = "uninited" /\ semaphoreInfo.refCount = 0
  BY DEF SemaphoreInit, Template
<1> QED BY <1>1, <1>2, <1>3, <1>4
     DEF SemaphoreInv, RefCountExact, HandleOpenUnderWaiters, SomebodyTurnsOutTheLights, BusyIsSet

LEMMA BackgroundKeepsInv ==
  ASSUME SemaphoreInv, Background \/ endSemaphores PROVE SemaphoreInv'
<1>1. waiter' = waiter /\ Inside' = Inside
  BY DEF Background, CreateThread, setSemaphore, clearSemaphore, ExitThread, endSemaphores, Inside
<1>2. Cardinality(Inside) \in Nat /\ (Cardinality(Inside) = 0 <=> Inside = {})
  BY InsideFinite, InsideEmpty
<1>3. (\E w \in Waiters : waiter[w] = "waiting") => Inside # {}
  BY DEF Inside
<1> USE DEF SemaphoreInv, SemaphoreTypeOK, RefCountExact, HandleOpenUnderWaiters, SomebodyTurnsOutTheLights, BusyIsSet, Template, Cleared
<1>4. CASE CreateThread
  BY <1>1, <1>2, <1>4 DEF CreateThread
<1>5. CASE setSemaphore
  BY <1>1, <1>2, <1>5 DEF setSemaphore
<1>6. CASE clearSemaphore
  BY <1>1, <1>2, <1>3, <1>6, SMTT(60) DEF clearSemaphore, ClearBlock
<1>7. CASE ExitThread
  BY <1>1, <1>2, <1>7 DEF ExitThread
<1>8. CASE endSemaphores
  BY <1>1, <1>2, <1>8 DEF endSemaphores
<1> QED BY <1>4, <1>5, <1>6, <1>7, <1>8 DEF Background

LEMMA WaitKeepsInv ==
  ASSUME SemaphoreInv, NEW w \in Waiters, Wait(w) PROVE SemaphoreInv'
<1>1. Cardinality(Inside) \in Nat /\ (Cardinality(Inside) = 0 <=> Inside = {})
  BY InsideFinite, InsideEmpty
<1>2. (\E v \in Waiters : waiter[v] = "waiting") => Inside # {}
  BY DEF Inside
<1>3. (\E v \in Waiters : waiter'[v] = "waiting") => Inside' # {}
  BY DEF Inside
<1>4. SemaphoreTypeOK
  BY DEF SemaphoreInv
<1> USE DEF SemaphoreInv, SemaphoreTypeOK, RefCountExact, HandleOpenUnderWaiters, SomebodyTurnsOutTheLights, BusyIsSet, Cleared, Template
<1>5. CASE EnterWait(w) \/ WaitForThread(w) \/ CheckAgain(w)
  <2>1. Inside' = Inside
    BY <1>5 DEF EnterWait, WaitForThread, CheckAgain, WaiterAt, Inside
  <2> QED BY <1>1, <1>2, <1>5, <2>1, SMTT(60) DEF EnterWait, WaitForThread, CheckAgain, WaiterAt
<1>6. CASE CountWaiter(w)
  <2>1. CASE semaphoreInfo.state = "set"
    BY <1>1, <1>4, <1>6, <2>1, OneIn, SMTT(60) DEF CountWaiter, WaiterAt
  <2>2. CASE semaphoreInfo.state # "set"
    <3>1. Inside' = Inside
      BY <1>6, <2>2 DEF CountWaiter, WaiterAt, Inside
    <3> QED BY <1>1, <1>2, <1>6, <2>2, <3>1, SMTT(60) DEF CountWaiter, WaiterAt
  <2> QED BY <2>1, <2>2
<1>7. CASE SkipRelease(w)
  <2>1. /\ Cardinality(Inside') = Cardinality(Inside) - 1
        /\ Cardinality(Inside) \in Nat \ {0} /\ Inside # {}
        /\ Cardinality(Inside') = 0 <=> Inside' = {}
    BY <1>4, <1>7, OneOut DEF SkipRelease
  <2> QED BY <1>1, <1>3, <1>7, <2>1, SMTT(60) DEF SkipRelease, WaiterAt
<1>8. CASE releaseRefOpt(w)
  <2>1. /\ Cardinality(Inside') = Cardinality(Inside) - 1
        /\ Cardinality(Inside) \in Nat \ {0} /\ Inside # {}
        /\ Cardinality(Inside') = 0 <=> Inside' = {}
    BY <1>4, <1>8, OneOut DEF releaseRefOpt
  <2> QED BY <1>1, <1>3, <1>8, <2>1, SMTT(60) DEF releaseRefOpt, WaiterAt
<1> QED BY <1>5, <1>6, <1>7, <1>8 DEF Wait

(* The inductive invariant of the semaphore (sync.c), and with it what     *)
(* follows, for any number of waiters and whether or not calls of the      *)
(* operating system fail.                                                  *)
THEOREM SemaphoreInvariant == SemaphoreSpec => []SemaphoreInv
<1>1. SemaphoreInv /\ [SemaphoreNext]_semaphoreVars => SemaphoreInv'
  <2> SUFFICES ASSUME SemaphoreInv, [SemaphoreNext]_semaphoreVars PROVE SemaphoreInv'
    OBVIOUS
  <2>1. CASE SemaphoreNext
    BY <2>1, BackgroundKeepsInv, WaitKeepsInv DEF SemaphoreNext
  <2>2. CASE UNCHANGED semaphoreVars
    BY <2>2 DEF semaphoreVars, SemaphoreInv, SemaphoreTypeOK, RefCountExact, HandleOpenUnderWaiters,
                SomebodyTurnsOutTheLights, BusyIsSet, Inside
  <2> QED BY <2>1, <2>2
<1> QED BY InitHolds, <1>1, PTL DEF SemaphoreSpec

(* The reference count is the number of threads inside a wait.             *)
THEOREM CountsWaiters == SemaphoreSpec => []RefCountExact
<1>1. SemaphoreInv => RefCountExact
  BY DEF SemaphoreInv
<1> QED BY <1>1, SemaphoreInvariant, PTL

(* The thread handle is closed at most once, and not under a waiter.       *)
THEOREM ClosedByTheLast == SemaphoreSpec => []HandleOpenUnderWaiters
<1>1. SemaphoreInv => HandleOpenUnderWaiters
  BY DEF SemaphoreInv
<1> QED BY <1>1, SemaphoreInvariant, PTL

(* Nobody passes the semaphore while the thread function runs.             *)
THEOREM NobodyPasses == SemaphoreSpec => []BusyIsSet
<1>1. SemaphoreInv => BusyIsSet
  BY DEF SemaphoreInv
<1> QED BY <1>1, SemaphoreInvariant, PTL

(* A semaphore is used once.                                               *)
THEOREM UsedOnce == SemaphoreSpec => OneShot
<1>1. SemaphoreInv /\ [SemaphoreNext]_semaphoreVars =>
        [/\ semaphoreInfo.state # "uninited" => semaphoreInfo'.state # "uninited"
         /\ semaphoreInfo.state = "preclear" => semaphoreInfo'.state # "set"
         /\ semaphoreInfo.state = "clear" => semaphoreInfo'.state = "clear"]_semaphoreVars
  BY SMTT(60) DEF SemaphoreNext, Background, Wait, semaphoreVars, CreateThread, setSemaphore, clearSemaphore, ClearBlock, ExitThread, endSemaphores,
         EnterWait, CountWaiter, WaitForThread, SkipRelease, CheckAgain, releaseRefOpt, Cleared, Template, SemaphoreInv, SemaphoreTypeOK
<1> QED BY <1>1, SemaphoreInvariant, PTL DEF SemaphoreSpec, OneShot
=============================================================================
