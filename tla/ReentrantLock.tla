---------------------------- MODULE ReentrantLock ----------------------------
(* What a mutex of the kernel promises the code that uses it: one thread   *)
(* at a time, which may lock again what it has locked.                     *)
EXTENDS Integers

CONSTANTS Threads, MaxDepth

VARIABLE depth

Acquire(t) ==
  /\ \A u \in Threads \ {t} : depth[u] = 0
  /\ depth[t] < MaxDepth
  /\ depth' = [depth EXCEPT ![t] = @ + 1]

Release(t) == depth[t] > 0 /\ depth' = [depth EXCEPT ![t] = @ - 1]

Init == depth = [t \in Threads |-> 0]
Next == \E t \in Threads : Acquire(t) \/ Release(t)
Spec == Init /\ [][Next]_depth
=============================================================================
