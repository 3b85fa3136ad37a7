----------------------------- MODULE HandleOrder -----------------------------
(***************************************************************************)
(* The linear feedback shift register of src/kernel/objects.c, which gives *)
(* the order in which findFreeObjectEntry goes through an object table of  *)
(* MAX_NO_OBJECTS entries.  HandleAllocation has the search itself, with   *)
(* the step from entry to entry as a parameter.                            *)
(***************************************************************************)
EXTENDS Integers, Sequences, Bitwise

CONSTANTS MAX_NO_OBJECTS, LFSRPOLY

LFSR_MASK == MAX_NO_OBJECTS

\* Multiply by x and reduce by the polynomial.
NextHandle(v) == IF 2 * v >= LFSR_MASK THEN (2 * v) ^^ LFSRPOLY ELSE 2 * v

\* The step at every handle.
LFSRSteps == [v \in 0..MAX_NO_OBJECTS - 1 |-> NextHandle(v)]

\* The first handles of the order are continued by as many; jump is as many steps as there are of them,
\* from each handle but 0.  Both are built with \o, as values: TLC evaluates a function made of functions anew
\* wherever it is applied.
RECURSIVE Continued(_, _)
Continued(first, jump) ==
  IF Len(first) = MAX_NO_OBJECTS THEN first
  ELSE Continued(first \o [i \in 1..Len(first) |-> jump[first[i]]], <<>> \o [v \in 1..Len(jump) |-> jump[jump[v]]])

\* All handles but 0 in the order of the register.
Turn == SubSeq(Continued(<<1>>, Tail(<<>> \o [v \in 1..MAX_NO_OBJECTS |-> LFSRSteps[v - 1]])), 1, MAX_NO_OBJECTS - 1)
=============================================================================
