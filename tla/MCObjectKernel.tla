---------------------------- MODULE MCObjectKernel ----------------------------
(* Small instances of ObjectKernel for TLC. *)
EXTENDS ObjectKernelInv, TLC

Symmetry == Permutations(Threads) \union Permutations(Handles)

NoPairs == {}

(* The object at the first handle may depend on the one at the second. *)
CONSTANTS h1, h2
OnePair == {<<h1, h2>>}
=============================================================================
