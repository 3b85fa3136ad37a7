-------------------------- MODULE KernelServices_proofs --------------------------
(***************************************************************************)
(* Proofs about four services of the kernel, one after the other, for any  *)
(* number of blocks, objects and threads and any size of the table.        *)
(*                                                                         *)
(* SecureMemory: the links always describe the list, and no page of a      *)
(* listed block is unlocked.                                               *)
(*                                                                         *)
(* ShutdownSweep: reference counts are exact, nothing is destroyed under   *)
(* what it is attached to, and nothing is missed.                          *)
(*                                                                         *)
(* DependentObjects: reference counts agree with the references, and a     *)
(* context stays within what its certificates allow, while no attachment   *)
(* comes late.                                                             *)
(*                                                                         *)
(* HandleAllocation: a search finds a free entry while there is one, and   *)
(* handles are used again in turn, if the order of the table goes round.   *)
(***************************************************************************)
EXTENDS DependentObjects, ShutdownSweep, SecureMemory, HandleAllocation,
        SequenceTheorems, FiniteSetTheorems, FunctionTheorems, WellFoundedInduction, TLAPS

-----------------------------------------------------------------------------
(***************************************************************************)
(* SecureMemory                                                            *)
(***************************************************************************)
-----------------------------------------------------------------------------
(* Numbers. *)

(* What stands in for an induction: a nonempty set of numbers has a least  *)
(* one.                                                                    *)
LessThan == {p \in Nat \X Nat : p[1] < p[2]}

LEMMA LeastNatural ==
  ASSUME NEW D, D \subseteq Nat, D # {}
  PROVE  \E d \in D : \A k \in D : d <= k
<1>1. IsWellFoundedOn(LessThan, Nat)
  BY NatLessThanWellFounded, Zenon DEF OpToRel, LessThan
<1>2. PICK d \in D : \A k \in D : <<k, d>> \notin LessThan
  BY <1>1, WFMin, Zenon
<1>3. ASSUME NEW k \in D
      PROVE  d <= k
  <2>1. k \in Nat /\ d \in Nat /\ <<k, d>> \notin LessThan
    BY <1>2
  <2>2. ~(k < d)
    BY <2>1 DEF LessThan
  <2> QED
    BY <2>1, <2>2
<1> QED
  BY <1>3

-----------------------------------------------------------------------------
(* Sequences of blocks. *)

LEMMA ListedAre ==
  ASSUME NEW s \in Seq(Blocks)
  PROVE  /\ Len(s) \in Nat
         /\ \A i \in 1..Len(s) : s[i] \in Blocks
         /\ ToSet(s) = {s[i] : i \in 1..Len(s)}
         /\ s = <<>> <=> Len(s) = 0
         /\ Last(s) = s[Len(s)]
<1>1. Len(s) \in Nat /\ DOMAIN s = 1..Len(s)
  BY LenProperties
<1>2. \A i \in 1..Len(s) : s[i] \in Blocks
  BY ElementOfSeq
<1>3. s = <<>> <=> Len(s) = 0
  BY EmptySeq
<1> QED
  BY <1>1, <1>2, <1>3 DEF ToSet, Last

(* A block is listed behind all others.                                    *)
LEMMA Listing ==
  ASSUME NEW s \in Seq(Blocks), NEW b \in Blocks
  PROVE  /\ Append(s, b) \in Seq(Blocks)
         /\ Len(s) \in Nat /\ Len(Append(s, b)) = Len(s) + 1
         /\ \A i \in 1..Len(s) : Append(s, b)[i] = s[i]
         /\ Append(s, b)[Len(s) + 1] = b
  BY AppendProperties

(* What RemoveAt leaves.                                                   *)
LEMMA Delisting ==
  ASSUME NEW s \in Seq(Blocks), NEW k \in 1..Len(s)
  PROVE  /\ RemoveAt(s, k) \in Seq(Blocks)
         /\ Len(s) \in Nat /\ Len(RemoveAt(s, k)) = Len(s) - 1
         /\ \A i \in 1..(Len(s) - 1) : RemoveAt(s, k)[i] = IF i < k THEN s[i] ELSE s[i + 1]
<1>1. /\ Len(s) \in Nat
      /\ \A i \in 1..Len(s) : s[i] \in Blocks
  BY ListedAre
<1>2. PICK n \in Nat : n = Len(s)
  BY <1>1
<1>3. PICK l \in Nat : l = k - 1
  BY <1>1
<1>4. PICK u \in Nat : u = k + 1
  BY <1>1
<1>5. /\ SubSeq(s, 1, l) \in Seq(Blocks)
      /\ Len(SubSeq(s, 1, l)) = IF 1 <= l THEN l - 1 + 1 ELSE 0
      /\ \A i \in 1..(l - 1 + 1) : SubSeq(s, 1, l)[i] = s[1 + i - 1]
  <2>1. \A i \in 1..l : s[i] \in Blocks
    BY <1>1, <1>3
  <2> QED
    BY <1>1, <1>3, <2>1, SubSeqProperties
<1>6. /\ SubSeq(s, u, n) \in Seq(Blocks)
      /\ Len(SubSeq(s, u, n)) = IF u <= n THEN n - u + 1 ELSE 0
      /\ \A i \in 1..(n - u + 1) : SubSeq(s, u, n)[i] = s[u + i - 1]
  <2>1. \A i \in u..n : s[i] \in Blocks
    BY <1>1, <1>2, <1>4
  <2> QED
    BY <1>1, <1>2, <1>4, <2>1, SubSeqProperties
<1>7. PICK f \in Seq(Blocks) : f = SubSeq(s, 1, l)
  BY <1>5
<1>8. PICK g \in Seq(Blocks) : g = SubSeq(s, u, n)
  BY <1>6
<1>9. Len(f) = l /\ Len(g) = n - k
  BY <1>1, <1>2, <1>3, <1>4, <1>5, <1>6, <1>7, <1>8
<1>10. RemoveAt(s, k) = f \o g
  BY <1>2, <1>3, <1>4, <1>7, <1>8 DEF RemoveAt
<1>11. /\ f \o g \in Seq(Blocks)
       /\ Len(f \o g) = Len(f) + Len(g)
       /\ \A i \in 1..(Len(f) + Len(g)) : (f \o g)[i] = IF i <= Len(f) THEN f[i] ELSE g[i - Len(f)]
  BY ConcatProperties
<1>12. ASSUME NEW i \in 1..(n - 1)
       PROVE  (f \o g)[i] = IF i < k THEN s[i] ELSE s[i + 1]
  <2>1. (f \o g)[i] = IF i <= l THEN f[i] ELSE g[i - l]
    BY <1>2, <1>3, <1>9, <1>11
  <2>2. CASE i < k
    BY <1>1, <1>2, <1>3, <1>5, <1>7, <2>1, <2>2
  <2>3. CASE ~(i < k)
    <3>1. i - l \in 1..(n - u + 1) /\ u + (i - l) - 1 = i + 1
      BY <1>1, <1>2, <1>3, <1>4, <2>3
    <3>2. g[i - l] = s[i + 1]
      BY <1>6, <1>8, <3>1
    <3> QED
      BY <1>3, <2>1, <2>3, <3>2
  <2> QED
    BY <2>2, <2>3
<1>13. Len(s) = n /\ Len(f) + Len(g) = n - 1 /\ n - 1 = Len(s) - 1
  BY <1>1, <1>2, <1>3, <1>9
<1> QED
  BY <1>1, <1>10, <1>11, <1>12, <1>13

-----------------------------------------------------------------------------
(* Each step keeps the invariant. *)

LEMMA MemoryInitial ==
  ASSUME SecureMemoryAssumption, MemoryInit
  PROVE  MemoryInv
<1>1. order \in Seq(Blocks) /\ Len(order) = 0
  BY ListedAre DEF MemoryInit
<1>2. MemoryTypeOK
  BY <1>1 DEF MemoryInit, MemoryTypeOK
<1>3. ListedOnce /\ NewUnlinked
  BY <1>1 DEF MemoryInit, ListedOnce, NewUnlinked
<1>4. ListInOrder
  <2>1. ToSet(order) = {order[i] : i \in 1..Len(order)}
    BY <1>1, ListedAre
  <2>2. ToSet(order) = {}
    BY <1>1, <2>1
  <2> QED
    BY <1>1, <2>2 DEF MemoryInit, ListInOrder
<1> QED
  BY <1>2, <1>3, <1>4 DEF MemoryInv

LEMMA LockBlockKeeps ==
  ASSUME SecureMemoryAssumption, MemoryInv, NEW b \in Blocks, LockBlock(b)
  PROVE  MemoryInv'
<1>0. /\ MemoryTypeOK /\ ListedOnce /\ NewUnlinked /\ ListInOrder
      /\ order' = order /\ state[b] = "free" /\ state' = [state EXCEPT ![b] = "locked"]
      /\ next' = [next EXCEPT ![b] = NULL] /\ prev' = [prev EXCEPT ![b] = NULL]
      /\ allocatedListHead' = allocatedListHead /\ allocatedListTail' = allocatedListTail
  BY DEF MemoryInv, LockBlock, Goes
<1>1. MemoryTypeOK'
  <2>1. PICK ok \in LockResults :
          /\ flagLocked' = IF ok THEN flagLocked \union {b} ELSE flagLocked \ {b}
          /\ lockedPages' = IF ok THEN lockedPages \union Pages(b) ELSE lockedPages
    BY DEF LockBlock
  <2>2. Pages(b) \subseteq Nat
    BY DEF SecureMemoryAssumption, Pages
  <2>3. flagLocked' \subseteq Blocks /\ lockedPages' \subseteq Nat
    BY <1>0, <2>1, <2>2 DEF MemoryTypeOK
  <2>4. next' \in [Blocks -> Blocks \union {NULL}] /\ prev' \in [Blocks -> Blocks \union {NULL}]
    BY <1>0 DEF MemoryTypeOK
  <2>5. state' \in [Blocks -> {"free", "locked", "listed", "unlinked"}]
    BY <1>0 DEF MemoryTypeOK
  <2> QED
    BY <1>0, <2>3, <2>4, <2>5 DEF MemoryTypeOK
<1>2. \A i \in 1..Len(order) : order[i] \in Blocks /\ state[order[i]] = "listed" /\ order[i] # b
  BY <1>0, ListedAre DEF MemoryTypeOK, ListInOrder
<1>3. /\ \A i \in 1..Len(order) : next'[order[i]] = next[order[i]] /\ prev'[order[i]] = prev[order[i]]
  BY <1>0, <1>2 DEF MemoryTypeOK
<1>4. ListedOnce' /\ NewUnlinked'
  BY <1>0 DEF ListedOnce, NewUnlinked, MemoryTypeOK
<1>5. ListInOrder'
  <2>1. Len(order) \in Nat /\ (order = <<>> <=> Len(order) = 0) /\ Last(order) = order[Len(order)]
    BY <1>0, ListedAre DEF MemoryTypeOK
  <2>2. {c \in Blocks : state'[c] = "listed"} = {c \in Blocks : state[c] = "listed"}
    BY <1>0 DEF MemoryTypeOK
  <2>3. ToSet(order) = {c \in Blocks : state'[c] = "listed"}
    BY <1>0, <2>2 DEF ListInOrder
  <2>4. ASSUME Len(order) # 0
        PROVE  /\ allocatedListHead = order[1] /\ prev'[order[1]] = NULL
               /\ allocatedListTail = Last(order) /\ next'[Last(order)] = NULL
    BY <1>0, <1>3, <2>1, <2>4 DEF ListInOrder
  <2>5. \A i \in 2..Len(order) : prev'[order[i]] = order[i - 1] /\ next'[order[i - 1]] = order[i]
    BY <1>0, <1>3, <2>1 DEF ListInOrder
  <2> QED
    BY <1>0, <2>1, <2>3, <2>4, <2>5 DEF ListInOrder
<1> QED
  BY <1>1, <1>4, <1>5 DEF MemoryInv

LEMMA InsertKeeps ==
  ASSUME SecureMemoryAssumption, MemoryInv, NEW b \in Blocks, insertMemBlock(b)
  PROVE  MemoryInv'
<1> DEFINE n == Len(order)
<1>0. /\ MemoryTypeOK /\ ListedOnce /\ NewUnlinked /\ ListInOrder
      /\ order' = Append(order, b) /\ state[b] = "locked" /\ state' = [state EXCEPT ![b] = "listed"]
      /\ flagLocked' = flagLocked /\ lockedPages' = lockedPages /\ allocatedListTail' = b
  BY DEF MemoryInv, insertMemBlock, Goes
<1>1. /\ order' \in Seq(Blocks) /\ n \in Nat /\ Len(order') = n + 1
      /\ \A i \in 1..n : order'[i] = order[i]
      /\ order'[n + 1] = b
  BY <1>0, Listing DEF MemoryTypeOK
<1>2. /\ \A i \in 1..n : order[i] \in Blocks /\ state[order[i]] = "listed" /\ order[i] # b
      /\ order = <<>> <=> n = 0
      /\ Last(order) = order[n]
      /\ ToSet(order) = {order[i] : i \in 1..n}
      /\ ToSet(order') = {order'[i] : i \in 1..(n + 1)}
      /\ Last(order') = order'[n + 1]
      /\ order' # <<>>
  <2>1. PICK s \in Seq(Blocks) : s = order'
    BY <1>1
  <2>2. /\ ToSet(order') = {order'[i] : i \in 1..(n + 1)}
        /\ Last(order') = order'[n + 1]
        /\ order' # <<>>
    BY <1>1, <2>1, ListedAre
  <2>3. /\ \A i \in 1..n : order[i] \in Blocks
        /\ order = <<>> <=> n = 0
        /\ Last(order) = order[n]
        /\ ToSet(order) = {order[i] : i \in 1..n}
    BY <1>0, ListedAre DEF MemoryTypeOK
  <2>4. \A i \in 1..n : state[order[i]] = "listed" /\ order[i] # b
    BY <1>0, <2>3 DEF ListInOrder
  <2> QED
    BY <2>2, <2>3, <2>4
<1>3. next[b] = NULL /\ prev[b] = NULL
  BY <1>0 DEF NewUnlinked
<1>4. n = 0 <=> allocatedListHead = NULL
  BY <1>0, <1>1, <1>2 DEF ListInOrder, SecureMemoryAssumption
<1>5. /\ next' \in [Blocks -> Blocks \union {NULL}]
      /\ \A c \in Blocks : next'[c] = IF n # 0 /\ c = order[n] THEN b ELSE next[c]
  <2>1. CASE n = 0
    BY <1>0, <1>4, <2>1 DEF insertMemBlock, MemoryTypeOK
  <2>2. CASE n # 0
    <3>1. next' = [next EXCEPT ![order[n]] = b]
      BY <1>0, <1>2, <1>4, <2>2 DEF insertMemBlock, ListInOrder
    <3> QED
      BY <1>0, <1>2, <2>2, <3>1 DEF MemoryTypeOK
  <2> QED
    BY <2>1, <2>2
<1>6. /\ prev' \in [Blocks -> Blocks \union {NULL}]
      /\ \A c \in Blocks : prev'[c] = IF n # 0 /\ c = b THEN order[n] ELSE prev[c]
  <2>1. CASE n = 0
    BY <1>0, <1>4, <2>1 DEF insertMemBlock, MemoryTypeOK
  <2>2. CASE n # 0
    <3>1. prev' = [prev EXCEPT ![b] = order[n]] /\ order[n] \in Blocks
      BY <1>0, <1>1, <1>2, <1>4, <2>2 DEF insertMemBlock, ListInOrder
    <3> QED
      BY <1>0, <2>2, <3>1 DEF MemoryTypeOK
  <2> QED
    BY <2>1, <2>2
<1>7. allocatedListHead' = IF n = 0 THEN b ELSE allocatedListHead
  BY <1>4 DEF insertMemBlock
<1>8. MemoryTypeOK'
  BY <1>0, <1>1, <1>5, <1>6, <1>7 DEF MemoryTypeOK
<1>9. ListedOnce'
  BY <1>0, <1>1, <1>2 DEF ListedOnce
<1>10. NewUnlinked'
  <2>1. ASSUME NEW c \in Blocks, state'[c] = "locked"
        PROVE  next'[c] = NULL /\ prev'[c] = NULL
    <3>1. c # b /\ state[c] = "locked"
      BY <1>0, <2>1 DEF MemoryTypeOK
    <3>2. n # 0 => c # order[n]
      BY <1>1, <1>2, <3>1
    <3> QED
      BY <1>0, <1>5, <1>6, <3>1, <3>2 DEF NewUnlinked
  <2> QED
    BY <2>1 DEF NewUnlinked
<1>11. ListInOrder'
  <2>1. ToSet(order') = ToSet(order) \union {b}
    BY <1>1, <1>2
  <2>2. {c \in Blocks : state'[c] = "listed"} = {c \in Blocks : state[c] = "listed"} \union {b}
    BY <1>0 DEF MemoryTypeOK
  <2>3. ToSet(order') = {c \in Blocks : state'[c] = "listed"}
    BY <1>0, <2>1, <2>2 DEF ListInOrder
  <2>4. allocatedListTail' = Last(order') /\ next'[Last(order')] = NULL
    <3>1. Last(order') = b /\ (n # 0 => order[n] # b)
      BY <1>1, <1>2
    <3> QED
      BY <1>0, <1>3, <1>5, <3>1
  <2>5. allocatedListHead' = order'[1] /\ prev'[order'[1]] = NULL
    <3>1. CASE n = 0
      BY <1>1, <1>3, <1>6, <1>7, <3>1
    <3>2. CASE n # 0
      BY <1>0, <1>1, <1>2, <1>6, <1>7, <3>2 DEF ListInOrder
    <3> QED
      BY <3>1, <3>2
  <2>6. ASSUME NEW i \in 2..(n + 1)
        PROVE  prev'[order'[i]] = order'[i - 1] /\ next'[order'[i - 1]] = order'[i]
    <3>1. CASE i = n + 1
      <4>1. n # 0 /\ order'[i] = b /\ order'[i - 1] = order[n] /\ order[n] \in Blocks
        BY <1>1, <1>2, <3>1
      <4> QED
        BY <1>5, <1>6, <4>1
    <3>2. CASE i # n + 1
      <4>1. i \in 2..n /\ i - 1 \in 1..n /\ i - 1 # n /\ n \in 1..n
        BY <1>1, <3>2
      <4>2. /\ order'[i] = order[i] /\ order'[i - 1] = order[i - 1]
            /\ order[i] # b /\ order[i - 1] # order[n]
            /\ order[i] \in Blocks /\ order[i - 1] \in Blocks
        BY <1>0, <1>1, <1>2, <4>1 DEF ListedOnce
      <4>3. prev[order[i]] = order[i - 1] /\ next[order[i - 1]] = order[i]
        BY <1>0, <4>1 DEF ListInOrder
      <4> QED
        BY <1>5, <1>6, <4>2, <4>3
    <3> QED
      BY <3>1, <3>2
  <2> QED
    BY <1>1, <1>2, <2>3, <2>4, <2>5, <2>6 DEF ListInOrder
<1> QED
  BY <1>8, <1>9, <1>10, <1>11 DEF MemoryInv

(* Where a block is in the list.                                           *)
LEMMA InTheList ==
  ASSUME MemoryInv, NEW b \in Blocks, state[b] = "listed"
  PROVE  Position(b) \in 1..Len(order) /\ order[Position(b)] = b
<1>1. ToSet(order) = {order[i] : i \in 1..Len(order)} /\ b \in ToSet(order)
  BY ListedAre DEF MemoryInv, MemoryTypeOK, ListInOrder
<1>2. \E i \in 1..Len(order) : order[i] = b
  BY <1>1
<1> QED
  BY <1>2 DEF Position

(* The neighbours of a listed block are the blocks before and behind it,   *)
(* so that it passes unlinkMemBlock's tests.                               *)
LEMMA Neighbours ==
  ASSUME SecureMemoryAssumption, MemoryInv, NEW k \in 1..Len(order)
  PROVE  /\ order[k] \in Blocks
         /\ prev[order[k]] = IF k = 1 THEN NULL ELSE order[k - 1]
         /\ next[order[k]] = IF k = Len(order) THEN NULL ELSE order[k + 1]
         /\ order[k] = allocatedListHead <=> k = 1
         /\ order[k] = allocatedListTail <=> k = Len(order)
         /\ Linked(order[k])
<1> DEFINE n == Len(order)
<1>1. /\ n \in Nat /\ (order = <<>> <=> n = 0) /\ Last(order) = order[n]
      /\ \A i \in 1..n : order[i] \in Blocks
      /\ \A i \in 1..n : order[i] # NULL
  BY ListedAre DEF MemoryInv, MemoryTypeOK, SecureMemoryAssumption
<1>2. /\ \A i, j \in 1..n : order[i] = order[j] => i = j
      /\ allocatedListHead = order[1] /\ prev[order[1]] = NULL
      /\ allocatedListTail = order[n] /\ next[order[n]] = NULL
      /\ \A i \in 2..n : prev[order[i]] = order[i - 1] /\ next[order[i - 1]] = order[i]
  BY <1>1 DEF MemoryInv, ListInOrder, ListedOnce
<1>3. 1 \in 1..n /\ n \in 1..n
  BY <1>1
<1>4. /\ order[k] = allocatedListHead <=> k = 1
      /\ order[k] = allocatedListTail <=> k = n
  BY <1>2, <1>3
<1>5. prev[order[k]] = IF k = 1 THEN NULL ELSE order[k - 1]
  BY <1>1, <1>2
<1>6. ASSUME k # n
      PROVE  next[order[k]] = order[k + 1] /\ prev[order[k + 1]] = order[k]
  <2>1. k + 1 \in 2..n /\ (k + 1) - 1 = k
    BY <1>1, <1>6
  <2> QED
    BY <1>2, <2>1
<1>7. Linked(order[k])
  <2>1. CASE k = 1
    BY <1>1, <1>2, <1>4, <1>5, <1>6, <2>1 DEF Linked
  <2>2. CASE k # 1
    <3>1. k \in 2..n /\ k - 1 \in 1..n
      BY <1>1, <2>2
    <3>2. prev[order[k]] = order[k - 1] /\ next[order[k - 1]] = order[k] /\ order[k - 1] # NULL
      BY <1>1, <1>2, <3>1
    <3> QED
      BY <1>1, <1>2, <1>4, <1>6, <2>2, <3>2 DEF Linked
  <2> QED
    BY <2>1, <2>2
<1> QED
  BY <1>1, <1>2, <1>4, <1>5, <1>6, <1>7

LEMMA UnlinkKeeps ==
  ASSUME SecureMemoryAssumption, MemoryInv, NEW b \in Blocks, UnlinkBlock(b)
  PROVE  MemoryInv' /\ ToSet(order') = ToSet(order) \ {b}
<1>0. /\ MemoryTypeOK /\ ListedOnce /\ NewUnlinked /\ ListInOrder
      /\ state[b] = "listed" /\ state' = [state EXCEPT ![b] = "unlinked"]
      /\ flagLocked' = flagLocked /\ lockedPages' \subseteq lockedPages
  BY DEF MemoryInv, UnlinkBlock, Goes
<1>1. PICK n \in Nat : n = Len(order)
  BY <1>0, ListedAre DEF MemoryTypeOK
<1>2. PICK k \in 1..n : k = Position(b) /\ order[k] = b
  BY <1>0, <1>1, InTheList
<1>3. /\ order' \in Seq(Blocks) /\ Len(order') = n - 1
      /\ \A i \in 1..(n - 1) : order'[i] = IF i < k THEN order[i] ELSE order[i + 1]
  BY <1>0, <1>1, <1>2, Delisting DEF MemoryTypeOK, UnlinkBlock
<1>4. /\ \A i \in 1..n : order[i] \in Blocks /\ order[i] # NULL
      /\ \A i, j \in 1..n : order[i] = order[j] => i = j
      /\ ToSet(order) = {order[i] : i \in 1..n}
      /\ order = <<>> <=> n = 0
      /\ Last(order) = order[n]
  BY <1>0, <1>1, ListedAre DEF MemoryTypeOK, ListedOnce, SecureMemoryAssumption
<1>5. /\ order' = <<>> <=> n = 1
      /\ Last(order') = order'[n - 1]
      /\ ToSet(order') = {order'[i] : i \in 1..(n - 1)}
  <2>1. PICK s \in Seq(Blocks) : s = order'
    BY <1>3
  <2> QED
    BY <1>1, <1>3, <2>1, ListedAre
<1>6. PICK p \in Blocks \union {NULL} : p = IF k = 1 THEN NULL ELSE order[k - 1]
  BY <1>1, <1>2, <1>4
<1>7. PICK x \in Blocks \union {NULL} : x = IF k = n THEN NULL ELSE order[k + 1]
  BY <1>1, <1>2, <1>4
<1>8. /\ allocatedListHead' = IF k = 1 THEN x ELSE order[1]
      /\ allocatedListTail' = IF k = n THEN p ELSE order[n]
      /\ next' \in [Blocks -> Blocks \union {NULL}] /\ prev' \in [Blocks -> Blocks \union {NULL}]
      /\ \A c \in Blocks : next'[c] = IF c = b THEN NULL ELSE IF c = p THEN x ELSE next[c]
      /\ \A c \in Blocks : prev'[c] = IF c = b THEN NULL ELSE IF c = x THEN p ELSE prev[c]
  <2>1. /\ Linked(b) /\ prev[b] = p /\ next[b] = x
        /\ b = allocatedListHead <=> k = 1
        /\ b = allocatedListTail <=> k = n
    BY <1>1, <1>2, <1>6, <1>7, Neighbours
  <2>2. UnlinkedLinks(b)
    BY <2>1 DEF UnlinkBlock, unlinkMemBlock
  <2>3. /\ allocatedListHead' = IF k = 1 THEN x ELSE allocatedListHead
        /\ allocatedListTail' = IF k = n THEN p ELSE allocatedListTail
        /\ next' = [[c \in Blocks |-> IF c = p THEN x ELSE next[c]] EXCEPT ![b] = NULL]
        /\ prev' = [[c \in Blocks |-> IF c = x THEN p ELSE prev[c]] EXCEPT ![b] = NULL]
    BY <2>1, <2>2 DEF UnlinkedLinks
  <2>4. allocatedListHead = order[1] /\ allocatedListTail = order[n]
    BY <1>0, <1>1, <1>2, <1>4 DEF ListInOrder
  <2> QED
    BY <1>0, <2>3, <2>4 DEF MemoryTypeOK
<1>9. ToSet(order') = ToSet(order) \ {b}
  <2>1. ASSUME NEW i \in 1..(n - 1)
        PROVE  \E j \in 1..n : j # k /\ order'[i] = order[j]
    <3>1. CASE i < k
      BY <1>1, <1>3, <3>1
    <3>2. CASE ~(i < k)
      <4>1. i + 1 \in 1..n /\ i + 1 # k
        BY <1>1, <3>2
      <4> QED
        BY <1>3, <3>2, <4>1
    <3> QED
      BY <3>1, <3>2
  <2>2. ASSUME NEW j \in 1..n, j # k
        PROVE  \E i \in 1..(n - 1) : order'[i] = order[j]
    <3>1. CASE j < k
      <4>1. j \in 1..(n - 1)
        BY <1>1, <3>1
      <4> QED
        BY <1>3, <3>1, <4>1
    <3>2. CASE ~(j < k)
      <4>1. j - 1 \in 1..(n - 1) /\ ~(j - 1 < k) /\ (j - 1) + 1 = j
        BY <1>1, <2>2, <3>2
      <4> QED
        BY <1>3, <4>1
    <3> QED
      BY <3>1, <3>2
  <2>3. ASSUME NEW c \in ToSet(order')
        PROVE  c \in ToSet(order) \ {b}
    <3>1. PICK i \in 1..(n - 1) : c = order'[i]
      BY <1>5, <2>3
    <3>2. PICK j \in 1..n : j # k /\ c = order[j]
      BY <2>1, <3>1
    <3> QED
      BY <1>2, <1>4, <3>2
  <2>4. ASSUME NEW c \in ToSet(order), c # b
        PROVE  c \in ToSet(order')
    <3>1. PICK j \in 1..n : c = order[j]
      BY <1>4, <2>4
    <3>2. PICK i \in 1..(n - 1) : order'[i] = c
      BY <1>2, <2>2, <2>4, <3>1
    <3> QED
      BY <1>5, <3>2
  <2> QED
    BY <2>3, <2>4
<1>10. MemoryTypeOK'
  <2>1. state' \in [Blocks -> {"free", "locked", "listed", "unlinked"}]
    BY <1>0 DEF MemoryTypeOK
  <2>2. allocatedListHead' \in Blocks \union {NULL} /\ allocatedListTail' \in Blocks \union {NULL}
    BY <1>1, <1>2, <1>4, <1>8
  <2> QED
    BY <1>0, <1>3, <1>8, <2>1, <2>2 DEF MemoryTypeOK
<1>11. ListedOnce'
  <2>1. ASSUME NEW i \in 1..(n - 1), NEW j \in 1..(n - 1), order'[i] = order'[j]
        PROVE  i = j
    <3>1. /\ i \in 1..n /\ i + 1 \in 1..n /\ j \in 1..n /\ j + 1 \in 1..n
      BY <1>1
    <3>2. PICK u \in 1..n : u = (IF i < k THEN i ELSE i + 1) /\ order'[i] = order[u]
      BY <1>3, <3>1
    <3>3. PICK v \in 1..n : v = (IF j < k THEN j ELSE j + 1) /\ order'[j] = order[v]
      BY <1>3, <3>1
    <3>4. u = v
      BY <1>4, <2>1, <3>2, <3>3
    <3> QED
      BY <1>1, <3>2, <3>3, <3>4
  <2> QED
    BY <1>3, <2>1 DEF ListedOnce
<1>12. NewUnlinked'
  <2>1. ASSUME NEW c \in Blocks, state'[c] = "locked"
        PROVE  next'[c] = NULL /\ prev'[c] = NULL
    <3>1. c # b /\ state[c] = "locked" /\ next[c] = NULL /\ prev[c] = NULL
      BY <1>0, <2>1 DEF MemoryTypeOK, NewUnlinked
    <3>2. c \notin ToSet(order)
      BY <1>0, <3>1 DEF ListInOrder
    <3>3. \A i \in 1..n : c # order[i]
      BY <1>4, <3>2
    <3>4. c # p /\ c # x
      BY <1>1, <1>2, <1>6, <1>7, <3>3, SecureMemoryAssumption DEF SecureMemoryAssumption
    <3> QED
      BY <1>8, <3>1, <3>4
  <2> QED
    BY <2>1 DEF NewUnlinked
<1>13. ListInOrder'
  <2>1. ToSet(order') = {c \in Blocks : state'[c] = "listed"}
    <3>1. {c \in Blocks : state'[c] = "listed"} = {c \in Blocks : state[c] = "listed"} \ {b}
      BY <1>0 DEF MemoryTypeOK
    <3> QED
      BY <1>0, <1>9, <3>1 DEF ListInOrder
  <2>2. /\ prev[order[1]] = NULL /\ next[order[n]] = NULL
        /\ \A i \in 2..n : prev[order[i]] = order[i - 1] /\ next[order[i - 1]] = order[i]
    BY <1>0, <1>1, <1>2, <1>4 DEF ListInOrder
  <2>3. ASSUME n = 1
        PROVE  allocatedListHead' = NULL /\ allocatedListTail' = NULL
    BY <1>6, <1>7, <1>8, <2>3
  <2>4. ASSUME n # 1
        PROVE  allocatedListHead' = order'[1] /\ prev'[order'[1]] = NULL
    <3>1. CASE k = 1
      <4>1. order'[1] = order[2] /\ x = order[2] /\ p = NULL /\ order[2] # b /\ order[2] \in Blocks
        BY <1>1, <1>2, <1>3, <1>4, <1>6, <1>7, <2>4, <3>1
      <4> QED
        BY <1>8, <3>1, <4>1
    <3>2. CASE k # 1
      <4>1. order'[1] = order[1] /\ order[1] # b /\ order[1] \in Blocks
        BY <1>1, <1>2, <1>3, <1>4, <2>4, <3>2
      <4>2. order[1] # x
        BY <1>1, <1>2, <1>4, <1>7, <3>2
      <4> QED
        BY <1>8, <2>2, <3>2, <4>1, <4>2
    <3> QED
      BY <3>1, <3>2
  <2>5. ASSUME n # 1
        PROVE  allocatedListTail' = Last(order') /\ next'[Last(order')] = NULL
    <3>1. CASE k = n
      <4>1. Last(order') = order[n - 1] /\ p = order[n - 1] /\ x = NULL /\ order[n - 1] # b /\ order[n - 1] \in Blocks
        BY <1>1, <1>2, <1>3, <1>4, <1>5, <1>6, <1>7, <2>5, <3>1
      <4> QED
        BY <1>8, <3>1, <4>1
    <3>2. CASE k # n
      <4>1. Last(order') = order[n] /\ order[n] # b /\ order[n] \in Blocks
        BY <1>1, <1>2, <1>3, <1>4, <1>5, <2>5, <3>2
      <4>2. order[n] # p
        BY <1>1, <1>2, <1>4, <1>6, <3>2
      <4> QED
        BY <1>8, <2>2, <3>2, <4>1, <4>2
    <3> QED
      BY <3>1, <3>2
  <2>6. ASSUME NEW i \in 2..(n - 1)
        PROVE  prev'[order'[i]] = order'[i - 1] /\ next'[order'[i - 1]] = order'[i]
    <3>0. i - 1 \in 1..n /\ i \in 1..n /\ i + 1 \in 1..n /\ i - 1 \in 1..(n - 1) /\ i \in 1..(n - 1)
      BY <1>1
    <3>1. CASE i < k
      <4>1. order'[i] = order[i] /\ order'[i - 1] = order[i - 1]
        BY <1>1, <1>3, <3>0, <3>1
      <4>2. order[i] # b /\ order[i - 1] # b /\ order[i] \in Blocks /\ order[i - 1] \in Blocks
        BY <1>1, <1>2, <1>4, <3>0, <3>1
      <4>3. order[i] # x
        BY <1>1, <1>2, <1>4, <1>7, <3>0, <3>1
      <4>4. order[i - 1] # p
        BY <1>1, <1>2, <1>4, <1>6, <3>0, <3>1
      <4> QED
        BY <1>8, <2>2, <3>0, <4>1, <4>2, <4>3, <4>4
    <3>2. CASE i = k
      <4>1. order'[i] = order[i + 1] /\ order'[i - 1] = order[i - 1] /\ p = order[i - 1] /\ x = order[i + 1]
        BY <1>1, <1>3, <1>6, <1>7, <3>0, <3>2
      <4>2. order[i + 1] # b /\ order[i - 1] # b /\ order[i + 1] \in Blocks /\ order[i - 1] \in Blocks
        BY <1>1, <1>2, <1>4, <3>0, <3>2
      <4> QED
        BY <1>8, <4>1, <4>2
    <3>3. CASE i > k
      <4>1. order'[i] = order[i + 1] /\ order'[i - 1] = order[i]
        <5>1. ~(i < k) /\ ~(i - 1 < k) /\ (i - 1) + 1 = i
          BY <1>1, <3>3
        <5> QED
          BY <1>3, <3>0, <5>1
      <4>2. order[i + 1] # b /\ order[i] # b /\ order[i + 1] \in Blocks /\ order[i] \in Blocks
        BY <1>1, <1>2, <1>4, <3>0, <3>3
      <4>3. order[i + 1] # x
        BY <1>1, <1>2, <1>4, <1>7, <3>0, <3>3
      <4>4. order[i] # p
        BY <1>1, <1>2, <1>4, <1>6, <3>0, <3>3
      <4>5. prev[order[i + 1]] = order[i] /\ next[order[i]] = order[i + 1]
        <5>1. i + 1 \in 2..n /\ (i + 1) - 1 = i
          BY <1>1, <3>3
        <5> QED
          BY <2>2, <5>1
      <4> QED
        BY <1>8, <4>1, <4>2, <4>3, <4>4, <4>5
    <3> QED
      BY <1>1, <3>1, <3>2, <3>3
  <2> QED
    BY <1>3, <1>5, <2>1, <2>3, <2>4, <2>5, <2>6 DEF ListInOrder
<1> QED
  BY <1>9, <1>10, <1>11, <1>12, <1>13 DEF MemoryInv

LEMMA FreeKeeps ==
  ASSUME SecureMemoryAssumption, MemoryInv, NEW b \in Blocks, FreeBlock(b)
  PROVE  MemoryInv'
<1>1. /\ MemoryTypeOK /\ ListedOnce /\ NewUnlinked /\ ListInOrder
      /\ state[b] = "unlinked" /\ state' = [state EXCEPT ![b] = "free"]
      /\ UNCHANGED <<flagLocked, next, prev, allocatedListHead, allocatedListTail, lockedPages, order>>
  BY DEF MemoryInv, FreeBlock, Goes
<1>2. MemoryTypeOK'
  BY <1>1 DEF MemoryTypeOK
<1>3. ListedOnce' /\ NewUnlinked'
  BY <1>1 DEF ListedOnce, NewUnlinked, MemoryTypeOK
<1>4. {c \in Blocks : state'[c] = "listed"} = {c \in Blocks : state[c] = "listed"}
  BY <1>1 DEF MemoryTypeOK
<1>5. ListInOrder'
  BY <1>1, <1>4 DEF ListInOrder
<1> QED
  BY <1>2, <1>3, <1>5 DEF MemoryInv

LEMMA MemoryStep ==
  ASSUME SecureMemoryAssumption, MemoryInv, [MemoryNext]_memoryVars
  PROVE  MemoryInv'
<1>1. CASE MemoryNext
  <2>1. PICK b \in Blocks : LockBlock(b) \/ insertMemBlock(b) \/ UnlinkBlock(b) \/ FreeBlock(b)
    BY <1>1 DEF MemoryNext
  <2> QED
    BY <2>1, LockBlockKeeps, InsertKeeps, UnlinkKeeps, FreeKeeps
<1>2. CASE UNCHANGED memoryVars
  BY <1>2 DEF memoryVars, MemoryInv, MemoryTypeOK, ListedOnce, NewUnlinked, ListInOrder
<1> QED
  BY <1>1, <1>2

(* Whatever blocks are allocated and freed, in any order and by any        *)
(* threads, the links are in order.                                        *)
THEOREM MemoryCorrect ==
  ASSUME SecureMemoryAssumption
  PROVE  MemorySpec => []MemoryInv
<1>1. MemoryInit => MemoryInv
  BY MemoryInitial
<1>2. MemoryInv /\ [MemoryNext]_memoryVars => MemoryInv'
  BY MemoryStep
<1> QED
  BY <1>1, <1>2, PTL DEF MemorySpec

(* The list of secure memory blocks (sec_mem.c) is whole both ways: the    *)
(* blocks in use, in the order in which they came.                         *)
THEOREM ListAlwaysInOrder ==
  ASSUME SecureMemoryAssumption
  PROVE  MemorySpec => []ListInOrder
<1>1. MemoryInv => ListInOrder
  BY DEF MemoryInv
<1> QED
  BY <1>1, MemoryCorrect, PTL

-----------------------------------------------------------------------------
(* The walk over the list. *)


(* No list is longer than the number of blocks.                            *)
LEMMA ListIsShort ==
  ASSUME SecureMemoryAssumption, MemoryInv
  PROVE  Len(order) <= Cardinality(Blocks) /\ Cardinality(Blocks) \in Nat
<1>1. /\ Len(order) \in Nat
      /\ \A i \in 1..Len(order) : order[i] \in Blocks
      /\ \A i, j \in 1..Len(order) : order[i] = order[j] => i = j
  BY ListedAre DEF MemoryInv, MemoryTypeOK, ListedOnce
<1>2. PICK n \in Nat : n = Len(order)
  BY <1>1
<1>3. PICK f : f = [i \in 1..n |-> order[i]]
  OBVIOUS
<1>4. f \in Injection(1..n, Blocks)
  BY <1>1, <1>2, <1>3 DEF Injection, IsInjective
<1>5. IsFiniteSet(Blocks) /\ Cardinality(Blocks) \in Nat
  BY FS_CardinalityType DEF SecureMemoryAssumption
<1>6. Cardinality(1..n) <= Cardinality(Blocks)
  BY <1>4, <1>5, FS_Injection
<1>7. Cardinality(1..n) = n
  <2>1. 1 \in Int /\ n \in Int
    BY <1>2
  <2>2. Cardinality(1..n) = IF 1 > n THEN 0 ELSE n - 1 + 1
    BY <2>1, FS_Interval, Zenon
  <2> QED
    BY <1>2, <2>2
<1> QED
  BY <1>2, <1>5, <1>6, <1>7

(* The i-th block that the walk comes to is the i-th of the list.          *)
LEMMA WalkIsList ==
  ASSUME SecureMemoryAssumption, MemoryInv
  PROVE  \A i \in Nat : i < Len(order) => BlockAt[i] = order[i + 1]
<1> DEFINE Links(f) == [i \in Nat |-> IF i = 0 THEN allocatedListHead
                                     ELSE IF f[i - 1] = NULL THEN NULL ELSE next[f[i - 1]]]
<1>1. PICK n \in Nat : n = Len(order)
  BY ListedAre DEF MemoryInv, MemoryTypeOK
<1>2. PICK w : w = [i \in Nat |-> IF i < n THEN order[i + 1] ELSE NULL]
  OBVIOUS
<1>3. w = Links(w)
  <2>1. ASSUME NEW i \in Nat
        PROVE  w[i] = IF i = 0 THEN allocatedListHead
                      ELSE IF w[i - 1] = NULL THEN NULL ELSE next[w[i - 1]]
    <3>1. CASE i = 0
      BY <1>1, <1>2, <3>1, ListedAre DEF MemoryInv, MemoryTypeOK, ListInOrder
    <3>2. CASE i # 0 /\ i - 1 < n
      <4>1. i - 1 \in Nat /\ i \in 1..n /\ (i - 1) + 1 = i
        BY <1>1, <3>2
      <4>2. w[i - 1] = order[i] /\ order[i] # NULL
        BY <1>1, <1>2, <3>2, <4>1, ListedAre DEF MemoryInv, MemoryTypeOK, SecureMemoryAssumption
      <4>3. next[order[i]] = IF i = n THEN NULL ELSE order[i + 1]
        BY <1>1, <4>1, Neighbours
      <4> QED
        BY <1>1, <1>2, <3>2, <4>1, <4>2, <4>3
    <3>3. CASE i # 0 /\ ~(i - 1 < n)
      <4>1. i - 1 \in Nat /\ ~(i < n)
        BY <1>1, <3>3
      <4> QED
        BY <1>2, <3>3, <4>1
    <3> QED
      BY <3>1, <3>2, <3>3
  <2>2. Links(w) = [i \in Nat |-> w[i]]
    BY <2>1
  <2>3. w = [i \in Nat |-> w[i]]
    BY <1>2
  <2> QED
    BY <2>2, <2>3
<1>4. BlockAt = Links(BlockAt)
  BY <1>3 DEF BlockAt
<1>5. BlockAt[0] = allocatedListHead
  BY <1>4
<1>6. \A i \in Nat : i # 0 => BlockAt[i] = IF BlockAt[i - 1] = NULL THEN NULL ELSE next[BlockAt[i - 1]]
  BY <1>4
<1>7. SUFFICES ASSUME NEW a \in {i \in Nat : i < n /\ BlockAt[i] # order[i + 1]},
                      \A i \in {i \in Nat : i < n /\ BlockAt[i] # order[i + 1]} : a <= i
               PROVE  FALSE
  <2>1. {i \in Nat : i < n /\ BlockAt[i] # order[i + 1]} \subseteq Nat
    OBVIOUS
  <2> QED
    BY <1>1, <2>1, LeastNatural
<1>8. CASE a = 0
  BY <1>1, <1>5, <1>7, <1>8, ListedAre DEF MemoryInv, MemoryTypeOK, ListInOrder
<1>9. CASE a # 0
  <2>1. a - 1 \in Nat /\ a \in 1..n /\ (a - 1) + 1 = a /\ a # n /\ ~(a <= a - 1)
    BY <1>1, <1>7, <1>9
  <2>2. BlockAt[a - 1] = order[a]
    BY <1>1, <1>7, <2>1
  <2>3. order[a] # NULL
    BY <1>1, <2>1, ListedAre DEF MemoryInv, MemoryTypeOK, SecureMemoryAssumption
  <2>4. next[order[a]] = order[a + 1]
    BY <1>1, <2>1, Neighbours
  <2> QED
    BY <1>6, <1>7, <1>9, <2>2, <2>3, <2>4
<1> QED
  BY <1>8, <1>9

(* unlockMemory sees every block of the list.                              *)
LEMMA WalkSeesAll ==
  ASSUME SecureMemoryAssumption, MemoryInv
  PROVE  ToSet(order) \subseteq Walk
<1>1. ASSUME NEW i \in 1..Len(order)
      PROVE  order[i] \in Walk
  <2>1. PICK j \in Nat : j = i - 1 /\ j + 1 = i /\ j < Len(order)
    BY ListedAre DEF MemoryInv, MemoryTypeOK
  <2>2. j \in 0..Cardinality(Blocks)
    BY <2>1, ListIsShort, ListedAre DEF MemoryInv, MemoryTypeOK
  <2>3. BlockAt[j] = order[i] /\ order[i] # NULL
    BY <2>1, WalkIsList, ListedAre DEF MemoryInv, MemoryTypeOK, SecureMemoryAssumption
  <2> QED
    BY <2>2, <2>3 DEF Walk
<1> QED
  BY <1>1, ListedAre DEF MemoryInv, MemoryTypeOK

LEMMA OnlyUnsharedUnlocked ==
  ASSUME SecureMemoryAssumption, MemoryInv, [MemoryNext]_memoryVars
  PROVE  SharedPageStaysLockedStep
<1>1. CASE lockedPages \subseteq lockedPages'
  BY <1>1 DEF SharedPageStaysLockedStep
<1>2. ASSUME NEW b \in Blocks, UnlinkBlock(b)
      PROVE  SharedPageStaysLockedStep
  <2>1. lockedPages \ lockedPages' \subseteq Unlocked(b)
    BY <1>2 DEF UnlinkBlock
  <2>2. ToSet(order') \subseteq Walk \ {b}
    BY <1>2, UnlinkKeeps, WalkSeesAll
  <2> QED
    BY <2>1, <2>2 DEF Unlocked, SharedPageStaysLockedStep
<1>3. CASE UNCHANGED memoryVars
  BY <1>1, <1>3 DEF memoryVars
<1>4. ASSUME NEW b \in Blocks, LockBlock(b)
      PROVE  lockedPages \subseteq lockedPages'
  BY <1>4 DEF LockBlock
<1>5. ASSUME NEW b \in Blocks, insertMemBlock(b) \/ FreeBlock(b)
      PROVE  lockedPages \subseteq lockedPages'
  BY <1>5 DEF insertMemBlock, FreeBlock
<1> QED
  BY <1>1, <1>2, <1>3, <1>4, <1>5 DEF MemoryNext

(* "We can't unlock a memory block if there's another locked block on the  *)
(* same page" (os_spec.c): freeing a block never unlocks a page under      *)
(* another block of the list, however many blocks share it.                *)
THEOREM SharedPagesStayLocked ==
  ASSUME SecureMemoryAssumption
  PROVE  MemorySpec => SharedPageStaysLocked
<1>1. MemoryInv /\ [MemoryNext]_memoryVars => SharedPageStaysLockedStep
  BY OnlyUnsharedUnlocked
<1> QED
  BY <1>1, MemoryCorrect, PTL DEF MemorySpec, SharedPageStaysLocked

-----------------------------------------------------------------------------
(***************************************************************************)
(* ShutdownSweep                                                           *)
(***************************************************************************)
-----------------------------------------------------------------------------
(* Destroy messages. *)

Places == {"release", "signal", "handler", "clear"}
DestroyMessage == [obj : Remains, at : Places]

InSignal(h) == \E i \in 1..Len(stack) : stack[i].obj = h /\ stack[i].at = "signal"

LEMMA DestroyMessages ==
  ASSUME NEW s \in Seq(DestroyMessage)
  PROVE  /\ Len(s) \in Nat
         /\ \A i \in 1..Len(s) : s[i] \in DestroyMessage
         /\ \A f : f \in ToSet(s) <=> \E i \in 1..Len(s) : s[i] = f
         /\ s = <<>> <=> Len(s) = 0
         /\ Last(s) = s[Len(s)]
<1>1. Len(s) \in Nat /\ DOMAIN s = 1..Len(s)
  BY LenProperties
<1>2. \A i \in 1..Len(s) : s[i] \in DestroyMessage
  BY ElementOfSeq
<1>3. s = <<>> <=> Len(s) = 0
  BY EmptySeq
<1> QED
  BY <1>1, <1>2, <1>3 DEF ToSet, Last

LEMMA PushMessage ==
  ASSUME NEW s \in Seq(DestroyMessage), NEW f \in DestroyMessage
  PROVE  /\ Append(s, f) \in Seq(DestroyMessage)
         /\ Len(s) \in Nat /\ Len(Append(s, f)) = Len(s) + 1
         /\ \A i \in 1..Len(s) : Append(s, f)[i] = s[i]
         /\ Append(s, f)[Len(s) + 1] = f
  BY AppendProperties

(* The message on top goes on.                                             *)
LEMMA GoingTo ==
  ASSUME stack \in Seq(DestroyMessage), stack # <<>>, NEW l \in Places
  PROVE  /\ Len(stack) \in Nat /\ Len(stack) > 0 /\ Top = stack[Len(stack)] /\ Top \in DestroyMessage
         /\ GoTo(l) \in Seq(DestroyMessage) /\ Len(GoTo(l)) = Len(stack)
         /\ \A i \in 1..(Len(stack) - 1) : GoTo(l)[i] = stack[i]
         /\ GoTo(l)[Len(stack)] = [obj |-> Top.obj, at |-> l]
<1>1. /\ Len(stack) \in Nat /\ Len(stack) > 0 /\ Top = stack[Len(stack)]
      /\ \A i \in 1..Len(stack) : stack[i] \in DestroyMessage
  BY DestroyMessages DEF Top
<1>2. PICK n \in Nat : n = Len(stack) /\ n > 0
  BY <1>1
<1>3. PICK f \in DestroyMessage : f = [obj |-> Top.obj, at |-> l]
  <2>1. Top.obj \in Remains
    BY <1>1, <1>2 DEF DestroyMessage
  <2>2. [obj |-> Top.obj, at |-> l] \in DestroyMessage
    BY <2>1 DEF DestroyMessage
  <2> QED
    BY <2>2
<1>4. stack[n] \in DestroyMessage /\ [stack[n] EXCEPT !.at = l] = f
  BY <1>1, <1>2, <1>3 DEF DestroyMessage
<1>5. GoTo(l) = [stack EXCEPT ![n] = f]
  BY <1>2, <1>4 DEF GoTo
<1>6. /\ [stack EXCEPT ![n] = f] \in Seq(DestroyMessage)
      /\ Len([stack EXCEPT ![n] = f]) = Len(stack)
      /\ \A i \in 1..Len(stack) : [stack EXCEPT ![n] = f][i] = IF i = n THEN f ELSE stack[i]
  BY <1>2, ExceptSeq
<1> QED
  BY <1>1, <1>2, <1>3, <1>5, <1>6

(* The message on top is through.                                          *)
LEMMA Popping ==
  ASSUME stack \in Seq(DestroyMessage), stack # <<>>
  PROVE  /\ Front(stack) \in Seq(DestroyMessage) /\ Len(Front(stack)) = Len(stack) - 1
         /\ \A i \in 1..(Len(stack) - 1) : Front(stack)[i] = stack[i]
<1>1. /\ Len(stack) \in Nat /\ Len(stack) > 0
      /\ \A i \in 1..Len(stack) : stack[i] \in DestroyMessage
  BY DestroyMessages
<1>2. PICK n \in Nat : n = Len(stack) - 1
  BY <1>1
<1>3. Front(stack) = SubSeq(stack, 1, n)
  BY <1>2 DEF Front
<1>4. \A i \in 1..n : stack[i] \in DestroyMessage
  BY <1>1, <1>2
<1>5. /\ SubSeq(stack, 1, n) \in Seq(DestroyMessage)
      /\ Len(SubSeq(stack, 1, n)) = IF 1 <= n THEN n - 1 + 1 ELSE 0
      /\ \A i \in 1..(n - 1 + 1) : SubSeq(stack, 1, n)[i] = stack[1 + i - 1]
  BY <1>1, <1>2, <1>4, SubSeqProperties
<1> QED
  BY <1>1, <1>2, <1>3, <1>5

(* A destroy message is taken up unless the object is being destroyed, or  *)
(* another thread is in it.                                                *)
LEMMA Sending ==
  ASSUME NEW s \in Seq(DestroyMessage), NEW h \in Remains
  PROVE  \/ SendDestroy(h, s) = s /\ (h \in busy \/ \E i \in 1..Len(s) : s[i].obj = h)
         \/ /\ SendDestroy(h, s) \in Seq(DestroyMessage) /\ Len(s) \in Nat /\ Len(SendDestroy(h, s)) = Len(s) + 1
            /\ \A i \in 1..Len(s) : SendDestroy(h, s)[i] = s[i] /\ s[i].obj # h
            /\ SendDestroy(h, s)[Len(s) + 1] = [obj |-> h, at |-> "release"]
            /\ h \notin busy
<1>1. (\E f \in ToSet(s) : f.obj = h) <=> (\E i \in 1..Len(s) : s[i].obj = h)
  BY DestroyMessages
<1>2. PICK f \in DestroyMessage : f = Frame(h) /\ f = [obj |-> h, at |-> "release"]
  BY DEF Frame, DestroyMessage, Places
<1>3. CASE h \in busy \/ \E i \in 1..Len(s) : s[i].obj = h
  BY <1>1, <1>3 DEF SendDestroy
<1>4. CASE ~(h \in busy \/ \E i \in 1..Len(s) : s[i].obj = h)
  <2>1. SendDestroy(h, s) = Append(s, f)
    BY <1>1, <1>2, <1>4 DEF SendDestroy
  <2> QED
    BY <1>2, <1>4, <2>1, PushMessage
<1> QED
  BY <1>3, <1>4

-----------------------------------------------------------------------------
(* Counting references. *)

Depending(h) == {p \in live : dependentObject[p] = h /\ ~InSignal(p)}
OnDevice(h) == {p \in live : dependentDevice[p] = h}
Holding(h) == {p \in live : h \in holds[p]}
ByUser(h) == IF h \in external THEN 1 ELSE 0
Counted == \A h \in live :
  refCount[h] = Cardinality(Depending(h)) + Cardinality(OnDevice(h)) + Cardinality(Holding(h)) + ByUser(h)

LEMMA CountedIsExact ==
  ASSUME stack \in Seq(DestroyMessage)
  PROVE  RefCountsExact <=> Counted
<1>1. \A p : (\E f \in ToSet(stack) : f.obj = p /\ f.at = "signal") <=> InSignal(p)
  BY DestroyMessages DEF InSignal
<1>2. \A h : {p \in live : dependentObject[p] = h /\ ~\E f \in ToSet(stack) : f.obj = p /\ f.at = "signal"} = Depending(h)
  BY <1>1 DEF Depending
<1> QED
  BY <1>2 DEF RefCountsExact, Counted, OnDevice, Holding, ByUser

LEMMA CountedIsExactNext ==
  ASSUME stack' \in Seq(DestroyMessage)
  PROVE  RefCountsExact' <=> Counted'
<1>1. \A p : (\E f \in ToSet(stack') : f.obj = p /\ f.at = "signal") <=> InSignal(p)'
  BY DestroyMessages DEF InSignal
<1>2. \A h : {p \in live' : dependentObject'[p] = h /\ ~\E f \in ToSet(stack') : f.obj = p /\ f.at = "signal"} = Depending(h)'
  BY <1>1 DEF Depending
<1> QED
  BY <1>2 DEF RefCountsExact, Counted, OnDevice, Holding, ByUser

LEMMA Finite ==
  ASSUME SweepAssumption, live \subseteq Remains, NEW h
  PROVE  /\ IsFiniteSet(Depending(h)) /\ Cardinality(Depending(h)) \in Nat
         /\ IsFiniteSet(OnDevice(h)) /\ Cardinality(OnDevice(h)) \in Nat
         /\ IsFiniteSet(Holding(h)) /\ Cardinality(Holding(h)) \in Nat
<1>1. \A S : S \subseteq live => IsFiniteSet(S) /\ Cardinality(S) \in Nat
  <2>1. IsFiniteSet(Remains)
    BY DEF SweepAssumption
  <2> QED
    BY <2>1, FS_Subset, FS_CardinalityType
<1> QED
  BY <1>1 DEF Depending, OnDevice, Holding

LEMMA OneLess ==
  ASSUME NEW S, NEW T, NEW p \in S, IsFiniteSet(S), T = S \ {p}
  PROVE  Cardinality(T) = Cardinality(S) - 1 /\ Cardinality(S) \in Nat
  BY FS_RemoveElement, FS_CardinalityType

-----------------------------------------------------------------------------
(* What the steps of a destroy message have in common. *)

(* The object o on top of the stack goes on to l, and its message may have *)
(* sent another one to d.                                                  *)
LEMMA OnTop ==
  ASSUME stack \in Seq(DestroyMessage), stack # <<>>, NEW l \in Places,
         FramesSound,
         stack' = GoTo(l) \/ \E d \in Remains : stack' = SendDestroy(d, GoTo(l))
  PROVE  /\ stack' \in Seq(DestroyMessage)
         /\ Top.obj \in Remains
         /\ \A p : InDestroy(p) => InDestroy(p)'
         /\ \A p : InSignal(p)' <=> IF p = Top.obj THEN l = "signal" ELSE InSignal(p)
         /\ InDestroy(Top.obj)
<1> DEFINE n == Len(stack)
<1>1. /\ n \in Nat /\ n > 0 /\ Top = stack[n] /\ Top \in DestroyMessage
      /\ GoTo(l) \in Seq(DestroyMessage) /\ Len(GoTo(l)) = n
      /\ \A i \in 1..(n - 1) : GoTo(l)[i] = stack[i]
      /\ GoTo(l)[n] = [obj |-> Top.obj, at |-> l]
  BY GoingTo
<1>2. /\ stack' \in Seq(DestroyMessage) /\ (Len(stack') = n \/ Len(stack') = n + 1)
      /\ \A i \in 1..n : stack'[i] = GoTo(l)[i]
      /\ Len(stack') = n + 1 => stack'[n + 1].at = "release" /\ \A i \in 1..n : stack'[i].obj # stack'[n + 1].obj
  <2>1. CASE stack' = GoTo(l)
    BY <1>1, <2>1
  <2>2. CASE \E d \in Remains : stack' = SendDestroy(d, GoTo(l))
    <3>1. PICK s \in Seq(DestroyMessage) : s = GoTo(l)
      BY <1>1
    <3>2. PICK d \in Remains : stack' = SendDestroy(d, s)
      BY <2>2, <3>1
    <3>3. CASE stack' = s
      BY <1>1, <3>1, <3>3
    <3>4. CASE stack' # s
      <4>1. /\ stack' \in Seq(DestroyMessage) /\ Len(stack') = n + 1
            /\ \A i \in 1..n : stack'[i] = s[i] /\ s[i].obj # d
            /\ stack'[n + 1] = [obj |-> d, at |-> "release"]
        BY <1>1, <3>1, <3>2, <3>4, Sending
      <4> QED
        BY <3>1, <4>1
    <3> QED
      BY <3>3, <3>4
  <2> QED
    BY <2>1, <2>2
<1>3. n \in 1..n /\ \A i \in 1..n : i # n => i \in 1..(n - 1)
  BY <1>1
<1>4. ASSUME NEW i \in 1..n
      PROVE  stack'[i].obj = stack[i].obj
  <2>1. CASE i = n
    <3>1. stack'[n] = [obj |-> Top.obj, at |-> l] /\ stack[n] = Top
      BY <1>1, <1>2, <1>3
    <3> QED
      BY <2>1, <3>1
  <2>2. CASE i # n
    BY <1>1, <1>2, <1>3, <2>2
  <2> QED
    BY <2>1, <2>2
<1>5. /\ Top.obj \in Remains /\ stack[n].obj = Top.obj
      /\ \A i \in 1..n : stack[i].obj = Top.obj => i = n
  BY <1>1, <1>3 DEF FramesSound, DestroyMessage
<1>6. ASSUME NEW p, InDestroy(p)
      PROVE  InDestroy(p)'
  <2>1. PICK i \in 1..n : stack[i].obj = p
    BY <1>6 DEF InDestroy
  <2>2. i \in 1..Len(stack')
    BY <1>1, <1>2
  <2> QED
    BY <1>4, <2>1, <2>2 DEF InDestroy
<1>7. ASSUME NEW p
      PROVE  InSignal(p)' <=> IF p = Top.obj THEN l = "signal" ELSE InSignal(p)
  <2>1. InSignal(p)' <=> \E i \in 1..n : stack'[i].obj = p /\ stack'[i].at = "signal"
    <3>1. ASSUME NEW i \in 1..Len(stack'), stack'[i].at = "signal"
          PROVE  i \in 1..n
      BY <1>1, <1>2, <3>1
    <3>2. 1..n \subseteq 1..Len(stack')
      BY <1>1, <1>2
    <3> QED
      BY <3>1, <3>2 DEF InSignal
  <2>2. CASE p = Top.obj
    <3>1. \A i \in 1..n : stack'[i].obj = p => i = n
      BY <1>4, <1>5, <2>2
    <3>2. stack'[n].obj = p /\ stack'[n].at = l
      BY <1>1, <1>2, <1>3, <2>2
    <3> QED
      BY <1>3, <2>1, <2>2, <3>1, <3>2
  <2>3. CASE p # Top.obj
    <3>1. \A i \in 1..n : stack[i].obj = p => stack'[i] = stack[i]
      BY <1>1, <1>2, <1>3, <1>5, <2>3
    <3>2. \A i \in 1..n : stack'[i].obj = p => stack'[i] = stack[i]
      BY <1>4, <3>1
    <3> QED
      BY <1>4, <2>1, <2>3, <3>1, <3>2 DEF InSignal
  <2> QED
    BY <2>2, <2>3
<1>8. InDestroy(Top.obj)
  BY <1>3, <1>5 DEF InDestroy
<1> QED
  BY <1>2, <1>5, <1>6, <1>7, <1>8

(* Given the reference counts, a step of the message on top keeps all the  *)
(* rest.                                                                   *)
LEMMA OnTopKeeps ==
  ASSUME SweepAssumption, SweepInv, stack # <<>>, NEW l \in Places,
         \/ stack' = GoTo(l)
         \/ \E d \in live : /\ stack' = SendDestroy(d, GoTo(l))
                            /\ depth = 3 => \A h \in live : dependentDevice'[h] # d,
         UNCHANGED <<live, external, busy, depth, at, skipped>>,
         refCount' \in [Remains -> Int],
         dependentObject' \in [Remains -> Remains \union {ERROR}],
         dependentDevice' \in [Remains -> Remains \union {SYSTEM, ERROR}],
         holds' \in [Remains -> SUBSET Remains],
         \A h \in Remains : /\ dependentObject'[h] = dependentObject[h] \/ (h = Top.obj /\ dependentObject'[h] = ERROR)
                            /\ dependentDevice'[h] = dependentDevice[h] \/ (h = Top.obj /\ dependentDevice'[h] = ERROR)
                            /\ holds'[h] \subseteq holds[h],
         l \in {"handler", "clear"} => dependentObject'[Top.obj] = ERROR,
         l = "clear" => dependentDevice'[Top.obj] = ERROR /\ holds'[Top.obj] = {},
         Counted'
  PROVE  SweepInv'
<1> DEFINE n == Len(stack)
<1>0. /\ SweepTypeOK /\ FramesSound /\ Separate /\ DevicesStay /\ DependentsFirst /\ LastPass
      /\ stack \in Seq(DestroyMessage) /\ live \subseteq Remains
  BY DEF SweepInv, SweepTypeOK, DestroyMessage, Places
<1>1. /\ n \in Nat /\ n > 0 /\ Top = stack[n] /\ Top \in DestroyMessage
      /\ GoTo(l) \in Seq(DestroyMessage) /\ Len(GoTo(l)) = n
      /\ \A i \in 1..(n - 1) : GoTo(l)[i] = stack[i]
      /\ GoTo(l)[n] = [obj |-> Top.obj, at |-> l]
  BY <1>0, GoingTo
<1>2. /\ stack' \in Seq(DestroyMessage)
      /\ Top.obj \in Remains
      /\ \A p : InDestroy(p) => InDestroy(p)'
      /\ InDestroy(Top.obj)
  <2>1. stack' = GoTo(l) \/ \E d \in Remains : stack' = SendDestroy(d, GoTo(l))
    BY <1>0
  <2> QED
    BY <1>0, <2>1, OnTop
<1>3. SweepTypeOK'
  BY <1>0, <1>2 DEF SweepTypeOK, DestroyMessage, Places
<1>4. RefCountsExact'
  BY <1>2, CountedIsExactNext
<1>5. Separate'
  <2>1. SUFFICES ASSUME NEW g \in Remains, NEW h \in Remains
                 PROVE  /\ dependentObject'[g] = h => dependentObject'[h] = ERROR
                        /\ dependentDevice'[g] = h => /\ dependentObject'[h] = ERROR
                                                      /\ \A p \in Remains : dependentObject'[p] # h /\ h \notin holds'[p]
    BY DEF Separate
  <2>2. h # ERROR
    BY DEF SweepAssumption, ERROR
  <2>3. /\ dependentObject'[g] = h => dependentObject[g] = h
        /\ dependentDevice'[g] = h => dependentDevice[g] = h
        /\ dependentObject[h] = ERROR => dependentObject'[h] = ERROR
        /\ \A p \in Remains : dependentObject[p] # h /\ h \notin holds[p] => dependentObject'[p] # h /\ h \notin holds'[p]
    BY <2>2
  <2> QED
    BY <1>0, <2>3 DEF Separate
<1>6. DependentsFirst' /\ LastPass'
  <2>1. depth # 0
    BY <1>0, <1>1, DestroyMessages DEF LastPass
  <2>2. DependentsFirst'
    BY <1>0, <1>2 DEF DependentsFirst, SweepAssumption, ERROR
  <2>3. LastPass'
    BY <1>0, <1>2, <2>1 DEF LastPass
  <2> QED
    BY <2>2, <2>3
<1>7. /\ Len(stack') = n \/ Len(stack') = n + 1
      /\ \A i \in 1..n : stack'[i] = GoTo(l)[i] /\ stack'[i].obj = stack[i].obj
      /\ Len(stack') = n + 1 => /\ stack'[n + 1].at = "release" /\ stack'[n + 1].obj \in live
                                /\ \A i \in 1..n : stack[i].obj # stack'[n + 1].obj
                                /\ depth = 3 => \A h \in live : dependentDevice'[h] # stack'[n + 1].obj
  <2>1. ASSUME NEW i \in 1..n
        PROVE  GoTo(l)[i].obj = stack[i].obj
    <3>1. i = n \/ i \in 1..(n - 1)
      BY <1>1
    <3> QED
      BY <1>1, <3>1
  <2>2. CASE stack' = GoTo(l)
    BY <1>1, <2>1, <2>2
  <2>3. ASSUME NEW d \in live, stack' = SendDestroy(d, GoTo(l)),
               depth = 3 => \A h \in live : dependentDevice'[h] # d
        PROVE  <1>7!:
    <3>1. d \in Remains
      BY <1>0
    <3>2. PICK s \in Seq(DestroyMessage) : s = GoTo(l)
      BY <1>1
    <3>3. CASE stack' = s
      BY <2>2, <3>2, <3>3
    <3>4. CASE stack' # s
      <4>1. /\ Len(stack') = n + 1 /\ stack'[n + 1] = [obj |-> d, at |-> "release"]
            /\ \A i \in 1..n : stack'[i] = s[i] /\ s[i].obj # d
        BY <1>1, <2>3, <3>1, <3>2, <3>4, Sending
      <4>2. stack'[n + 1].obj = d /\ stack'[n + 1].at = "release"
        BY <4>1
      <4>3. \A i \in 1..n : stack'[i] = GoTo(l)[i] /\ stack'[i].obj = stack[i].obj /\ stack[i].obj # d
        BY <2>1, <3>2, <4>1
      <4> QED
        BY <2>3, <4>1, <4>2, <4>3
    <3> QED
      BY <3>3, <3>4
  <2> QED
    BY <2>2, <2>3
<1>8. FramesSound'
  <2>1. ASSUME NEW i \in 1..Len(stack'), NEW j \in 1..Len(stack'), stack'[i].obj = stack'[j].obj
        PROVE  i = j
    <3>1. CASE i \in 1..n /\ j \in 1..n
      BY <1>0, <1>7, <2>1, <3>1 DEF FramesSound
    <3>2. CASE i \notin 1..n \/ j \notin 1..n
      <4>1. Len(stack') = n + 1 /\ (i \in 1..n \/ i = n + 1) /\ (j \in 1..n \/ j = n + 1)
        BY <1>1, <1>7, <3>2
      <4> QED
        BY <1>7, <2>1, <3>2, <4>1
    <3> QED
      BY <3>1, <3>2
  <2>2. ASSUME NEW i \in 1..Len(stack')
        PROVE  /\ stack'[i].obj \in live'
               /\ stack'[i].at \in {"handler", "clear"} => dependentObject'[stack'[i].obj] = ERROR
               /\ stack'[i].at = "clear" => dependentDevice'[stack'[i].obj] = ERROR /\ holds'[stack'[i].obj] = {}
    <3>1. CASE i = n
      <4>1. stack'[i].obj = Top.obj /\ stack'[i].at = l /\ Top.obj \in live
        BY <1>0, <1>1, <1>7, <3>1 DEF FramesSound
      <4> QED
        BY <4>1
    <3>2. CASE i \in 1..(n - 1)
      <4>0. i \in 1..n
        BY <1>1, <3>2
      <4>1. stack'[i] = stack[i]
        BY <1>1, <1>7, <3>2, <4>0
      <4>2. /\ stack[i].obj \in live
            /\ stack[i].at \in {"handler", "clear"} => dependentObject[stack[i].obj] = ERROR
            /\ stack[i].at = "clear" => dependentDevice[stack[i].obj] = ERROR /\ holds[stack[i].obj] = {}
        BY <1>0, <4>0 DEF FramesSound
      <4>3. stack[i].obj \in Remains
        BY <1>0, <4>2
      <4> QED
        BY <4>1, <4>2, <4>3
    <3>3. CASE i = n + 1
      BY <1>1, <1>7, <3>3
    <3> QED
      BY <1>1, <1>7, <3>1, <3>2, <3>3
  <2> QED
    BY <2>1, <2>2 DEF FramesSound
<1>9. DevicesStay'
  <2>1. ASSUME NEW p, InDestroy(p)', ~InDestroy(p)
        PROVE  depth = 3 => \A h \in live : dependentDevice'[h] # p
    <3>1. PICK i \in 1..Len(stack') : stack'[i].obj = p
      BY <2>1 DEF InDestroy
    <3>2. i \notin 1..n
      BY <1>7, <2>1, <3>1 DEF InDestroy
    <3>3. i = n + 1 /\ Len(stack') = n + 1
      BY <1>1, <1>7, <3>2
    <3> QED
      BY <1>7, <3>1, <3>3
  <2>2. SUFFICES ASSUME depth = 3, NEW h \in live
                 PROVE  /\ dependentDevice'[h] \in live \union {SYSTEM, ERROR}
                        /\ dependentDevice'[h] = ERROR => InDestroy(h)'
                        /\ dependentDevice'[h] \in live => ~(InDestroy(dependentDevice[h]))'
    BY DEF DevicesStay
  <2>3. /\ dependentDevice[h] \in live \union {SYSTEM, ERROR}
        /\ dependentDevice[h] = ERROR => InDestroy(h)
        /\ dependentDevice[h] \in live => ~InDestroy(dependentDevice[h])
    BY <1>0, <2>2 DEF DevicesStay
  <2>4. /\ dependentDevice'[h] = dependentDevice[h] \/ (h = Top.obj /\ dependentDevice'[h] = ERROR)
        /\ ERROR \notin live
    BY <1>0 DEF SweepAssumption, ERROR
  <2>5. dependentDevice'[h] \in live => ~(InDestroy(dependentDevice[h]))'
    BY <2>1, <2>2, <2>3, <2>4
  <2> QED
    BY <1>2, <2>3, <2>4, <2>5
<1> QED
  BY <1>3, <1>4, <1>5, <1>6, <1>8, <1>9 DEF SweepInv

-----------------------------------------------------------------------------
(* Each step keeps the invariant. *)

(* What every step of the message on top starts from.                      *)
LEMMA TopFacts ==
  ASSUME SweepAssumption, SweepInv, stack # <<>>
  PROVE  /\ stack \in Seq(DestroyMessage) /\ Top.obj \in live /\ live \subseteq Remains
         /\ SYSTEM \notin Remains /\ ERROR \notin Remains /\ SYSTEM # ERROR
         /\ InSignal(Top.obj) <=> Top.at = "signal"
         /\ Top.at \in {"handler", "clear"} => dependentObject[Top.obj] = ERROR
         /\ Top.at = "clear" => dependentDevice[Top.obj] = ERROR /\ holds[Top.obj] = {}
         /\ \A h \in live : IsFiniteSet(Depending(h)) /\ IsFiniteSet(OnDevice(h)) /\ IsFiniteSet(Holding(h))
         /\ \A h \in live : /\ Cardinality(Depending(h)) \in Nat /\ Cardinality(OnDevice(h)) \in Nat
                             /\ Cardinality(Holding(h)) \in Nat /\ ByUser(h) \in Nat
         /\ Counted
<1>1. /\ stack \in Seq(DestroyMessage) /\ live \subseteq Remains
      /\ FramesSound /\ RefCountsExact
  BY DEF SweepInv, SweepTypeOK, DestroyMessage, Places
<1>2. PICK n \in 1..Len(stack) : n = Len(stack) /\ Top = stack[n]
  BY <1>1, DestroyMessages DEF Top
<1>3. /\ Top.obj \in live
      /\ Top.at \in {"handler", "clear"} => dependentObject[Top.obj] = ERROR
      /\ Top.at = "clear" => dependentDevice[Top.obj] = ERROR /\ holds[Top.obj] = {}
      /\ InSignal(Top.obj) <=> Top.at = "signal"
  BY <1>1, <1>2 DEF FramesSound, InSignal
<1>4. SYSTEM \notin Remains /\ ERROR \notin Remains /\ SYSTEM # ERROR
  BY DEF SweepAssumption, SYSTEM, ERROR
<1>5. Counted
  BY <1>1, CountedIsExact
<1> QED
  BY <1>1, <1>3, <1>4, <1>5, Finite DEF ByUser

(* A reference that is dropped was counted.                                *)
LEMMA DroppedOne ==
  ASSUME SweepTypeOK, NEW d \in live, Counted, live' = live, external' = external,
         refCount' = Dropped(d),
         \A h \in live : h # d => Depending(h)' = Depending(h) /\ OnDevice(h)' = OnDevice(h) /\ Holding(h)' = Holding(h),
         \A h \in live : /\ Cardinality(Depending(h)) \in Nat /\ Cardinality(OnDevice(h)) \in Nat
                         /\ Cardinality(Holding(h)) \in Nat /\ ByUser(h) \in Nat,
         IsFiniteSet(Depending(d)), IsFiniteSet(OnDevice(d)), IsFiniteSet(Holding(d)), NEW p,
         \/ p \in Depending(d) /\ Depending(d)' = Depending(d) \ {p} /\ OnDevice(d)' = OnDevice(d) /\ Holding(d)' = Holding(d)
         \/ p \in OnDevice(d) /\ OnDevice(d)' = OnDevice(d) \ {p} /\ Depending(d)' = Depending(d) /\ Holding(d)' = Holding(d)
         \/ p \in Holding(d) /\ Holding(d)' = Holding(d) \ {p} /\ Depending(d)' = Depending(d) /\ OnDevice(d)' = OnDevice(d)
  PROVE  Counted' /\ refCount' \in [Remains -> Int]
<1>1. refCount \in [Remains -> Int] /\ d \in Remains /\ live \subseteq Remains
  BY DEF SweepTypeOK
<1>2. /\ refCount' \in [Remains -> Int] /\ refCount'[d] = refCount[d] - 1
      /\ \A h \in Remains : h # d => refCount'[h] = refCount[h]
  BY <1>1 DEF Dropped
<1>3. \A h \in live : ByUser(h)' = ByUser(h)
  BY DEF ByUser
<1>4. ASSUME NEW h \in live, h # d
      PROVE  refCount'[h] = Cardinality(Depending(h)') + Cardinality(OnDevice(h)') + Cardinality(Holding(h)') + ByUser(h)'
  BY <1>1, <1>2, <1>3, <1>4 DEF Counted
<1>5. refCount[d] = Cardinality(Depending(d)) + Cardinality(OnDevice(d)) + Cardinality(Holding(d)) + ByUser(d)
  BY DEF Counted
<1>6. refCount'[d] = Cardinality(Depending(d)') + Cardinality(OnDevice(d)') + Cardinality(Holding(d)') + ByUser(d)'
  <2>1. CASE p \in Depending(d) /\ Depending(d)' = Depending(d) \ {p} /\ OnDevice(d)' = OnDevice(d) /\ Holding(d)' = Holding(d)
    <3>1. Cardinality(Depending(d)') = Cardinality(Depending(d)) - 1
      BY <2>1, OneLess
    <3> QED
      BY <1>2, <1>3, <1>5, <2>1, <3>1
  <2>2. CASE p \in OnDevice(d) /\ OnDevice(d)' = OnDevice(d) \ {p} /\ Depending(d)' = Depending(d) /\ Holding(d)' = Holding(d)
    <3>1. Cardinality(OnDevice(d)') = Cardinality(OnDevice(d)) - 1
      BY <2>2, OneLess
    <3> QED
      BY <1>2, <1>3, <1>5, <2>2, <3>1
  <2>3. CASE p \in Holding(d) /\ Holding(d)' = Holding(d) \ {p} /\ Depending(d)' = Depending(d) /\ OnDevice(d)' = OnDevice(d)
    <3>1. Cardinality(Holding(d)') = Cardinality(Holding(d)) - 1
      BY <2>3, OneLess
    <3> QED
      BY <1>2, <1>3, <1>5, <2>3, <3>1
  <2> QED
    BY <2>1, <2>2, <2>3
<1> QED
  BY <1>2, <1>4, <1>6 DEF Counted

LEMMA SameCounts ==
  ASSUME Counted, live' = live, external' = external, refCount' = refCount,
         \A h \in live : Depending(h)' = Depending(h) /\ OnDevice(h)' = OnDevice(h) /\ Holding(h)' = Holding(h)
  PROVE  Counted'
<1>1. \A h \in live : ByUser(h)' = ByUser(h)
  BY DEF ByUser
<1> QED
  BY <1>1 DEF Counted

LEMMA SignalDependentObjectsKeeps ==
  ASSUME SweepAssumption, SweepInv, SignalDependentObjects
  PROVE  SweepInv'
<1>0. PICK o : o = Top.obj
  OBVIOUS
<1>10. PICK d : d = dependentObject[o]
  OBVIOUS
<1>1. /\ stack # <<>> /\ Top.at = "release" /\ "signal" \in Places
      /\ UNCHANGED <<live, dependentObject, dependentDevice, external, holds, busy, depth, at, skipped>>
  BY DEF SignalDependentObjects, Places
<1>2. SweepTypeOK /\ FramesSound /\ Separate
  BY DEF SweepInv
<1>3. /\ stack \in Seq(DestroyMessage) /\ o \in live /\ live \subseteq Remains
      /\ SYSTEM \notin Remains /\ ERROR \notin Remains /\ SYSTEM # ERROR
      /\ ~InSignal(o) /\ Counted
  BY <1>0, <1>1, TopFacts
<1>4. d \in live => \A h \in live : dependentDevice[h] # d
  BY <1>10, <1>2, <1>3 DEF Separate, SweepTypeOK
<1>5. \/ d \in live /\ refCount' = Dropped(d) /\ (stack' = SendDestroy(d, GoTo("signal")) \/ stack' = GoTo("signal"))
      \/ d \notin live /\ refCount' = refCount /\ stack' = GoTo("signal")
  BY <1>0, <1>10, <1>2, <1>3 DEF SignalDependentObjects, Release, isPresent, SweepTypeOK
<1>6. \A p : InSignal(p)' <=> p = o \/ InSignal(p)
  <2>1. stack' = GoTo("signal") \/ \E c \in Remains : stack' = SendDestroy(c, GoTo("signal"))
    BY <1>3, <1>5
  <2> QED
    BY <1>0, <1>1, <1>2, <1>3, <2>1, OnTop
<1>7. /\ \A h \in live : OnDevice(h)' = OnDevice(h) /\ Holding(h)' = Holding(h)
      /\ \A h \in live : h # d => Depending(h)' = Depending(h)
      /\ d \in live => o \in Depending(d) /\ Depending(d)' = Depending(d) \ {o}
  BY <1>10, <1>1, <1>3, <1>6 DEF Depending, OnDevice, Holding
<1>8. Counted' /\ refCount' \in [Remains -> Int]
  <2>1. CASE d \in live
    BY <1>1, <1>2, <1>3, <1>5, <1>7, <2>1, TopFacts, DroppedOne
  <2>2. CASE d \notin live
    BY <1>1, <1>2, <1>3, <1>5, <1>7, <2>2, SameCounts DEF SweepTypeOK
  <2> QED
    BY <2>1, <2>2
<1>9. \/ stack' = GoTo("signal")
      \/ \E c \in live : /\ stack' = SendDestroy(c, GoTo("signal"))
                         /\ depth = 3 => \A h \in live : dependentDevice'[h] # c
  BY <1>1, <1>4, <1>5
<1> QED
  BY <1>1, <1>2, <1>8, <1>9, OnTopKeeps DEF SweepTypeOK

LEMMA SignalKeeps ==
  ASSUME SweepAssumption, SweepInv, Signal
  PROVE  SweepInv'
<1> DEFINE o == Top.obj
<1>1. /\ stack # <<>> /\ Top.at = "signal" /\ "handler" \in Places
      /\ dependentObject' = [dependentObject EXCEPT ![o] = ERROR] /\ stack' = GoTo("handler")
      /\ UNCHANGED <<live, dependentDevice, refCount, external, holds, busy, depth, at, skipped>>
  BY DEF Signal, Places
<1>2. SweepTypeOK /\ FramesSound
  BY DEF SweepInv
<1>3. /\ stack \in Seq(DestroyMessage) /\ o \in live /\ live \subseteq Remains
      /\ SYSTEM \notin Remains /\ ERROR \notin Remains
      /\ InSignal(o) /\ Counted
  BY <1>1, TopFacts
<1>4. /\ dependentObject' \in [Remains -> Remains \union {ERROR}] /\ dependentObject'[o] = ERROR
      /\ \A h \in Remains : h # o => dependentObject'[h] = dependentObject[h]
  BY <1>1, <1>2, <1>3 DEF SweepTypeOK
<1>5. \A p : InSignal(p)' <=> p # o /\ InSignal(p)
  BY <1>1, <1>2, <1>3, OnTop
<1>6. \A h \in live : Depending(h)' = Depending(h) /\ OnDevice(h)' = OnDevice(h) /\ Holding(h)' = Holding(h)
  BY <1>1, <1>3, <1>4, <1>5 DEF Depending, OnDevice, Holding
<1>7. Counted'
  BY <1>1, <1>3, <1>6, SameCounts
<1> QED
  BY <1>1, <1>2, <1>4, <1>7, OnTopKeeps DEF SweepTypeOK

LEMMA ReleaseHeldKeeps ==
  ASSUME SweepAssumption, SweepInv, ReleaseHeld
  PROVE  SweepInv'
<1> DEFINE o == Top.obj
<1>1. /\ stack # <<>> /\ Top.at = "handler" /\ "handler" \in Places
      /\ UNCHANGED <<live, dependentObject, dependentDevice, external, busy, depth, at, skipped>>
  BY DEF ReleaseHeld, Places
<1>2. SweepTypeOK /\ FramesSound /\ Separate
  BY DEF SweepInv
<1>3. /\ stack \in Seq(DestroyMessage) /\ o \in live /\ live \subseteq Remains
      /\ SYSTEM \notin Remains /\ ERROR \notin Remains /\ SYSTEM # ERROR
      /\ ~InSignal(o) /\ Counted /\ dependentObject[o] = ERROR
  BY <1>1, TopFacts
<1>4. PICK x \in holds[o] :
        /\ holds' = [holds EXCEPT ![o] = @ \ {x}]
        /\ IF isPresent(x) THEN Release(x, stack) ELSE UNCHANGED <<refCount, stack>>
  BY DEF ReleaseHeld
<1>5. GoTo("handler") = stack
  <2>1. /\ Len(stack) \in Nat /\ Len(stack) > 0 /\ Top = stack[Len(stack)] /\ Top \in DestroyMessage
        /\ GoTo("handler") \in Seq(DestroyMessage) /\ Len(GoTo("handler")) = Len(stack)
        /\ \A i \in 1..(Len(stack) - 1) : GoTo("handler")[i] = stack[i]
        /\ GoTo("handler")[Len(stack)] = [obj |-> Top.obj, at |-> "handler"]
    BY <1>1, <1>3, GoingTo
  <2>2. [obj |-> Top.obj, at |-> "handler"] = Top
    BY <1>1, <2>1 DEF DestroyMessage
  <2>3. \A i \in 1..Len(stack) : GoTo("handler")[i] = stack[i]
    BY <2>1, <2>2
  <2> QED
    BY <1>3, <2>1, <2>3, SeqEqual
<1>6. /\ x \in Remains /\ holds' \in [Remains -> SUBSET Remains] /\ holds'[o] = holds[o] \ {x}
      /\ \A h \in Remains : h # o => holds'[h] = holds[h]
  BY <1>2, <1>3, <1>4 DEF SweepTypeOK
<1>7. \/ x \in live /\ refCount' = Dropped(x) /\ (stack' = SendDestroy(x, stack) \/ stack' = stack)
      \/ x \notin live /\ refCount' = refCount /\ stack' = stack
  BY <1>3, <1>4, <1>6 DEF Release, isPresent
<1>8. \A p : InSignal(p)' <=> InSignal(p)
  <2>1. stack' = GoTo("handler") \/ \E c \in Remains : stack' = SendDestroy(c, GoTo("handler"))
    BY <1>5, <1>6, <1>7
  <2> QED
    BY <1>1, <1>2, <1>3, <2>1, OnTop
<1>9. \A h \in live : dependentDevice[h] # x
  BY <1>2, <1>3, <1>6 DEF Separate
<1>10. /\ \A h \in live : Depending(h)' = Depending(h) /\ OnDevice(h)' = OnDevice(h)
       /\ \A h \in live : h # x => Holding(h)' = Holding(h)
       /\ x \in live => o \in Holding(x) /\ Holding(x)' = Holding(x) \ {o}
  BY <1>1, <1>3, <1>6, <1>8 DEF Depending, OnDevice, Holding
<1>11. Counted' /\ refCount' \in [Remains -> Int]
  <2>1. CASE x \in live
    BY <1>1, <1>2, <1>3, <1>7, <1>10, <2>1, TopFacts, DroppedOne
  <2>2. CASE x \notin live
    BY <1>1, <1>2, <1>3, <1>7, <1>10, <2>2, SameCounts DEF SweepTypeOK
  <2> QED
    BY <2>1, <2>2
<1>12. \/ stack' = GoTo("handler")
       \/ \E c \in live : /\ stack' = SendDestroy(c, GoTo("handler"))
                          /\ depth = 3 => \A h \in live : dependentDevice'[h] # c
  BY <1>1, <1>5, <1>7, <1>9
<1>13. \A h \in Remains : holds'[h] \subseteq holds[h]
  BY <1>6
<1> QED
  BY <1>1, <1>2, <1>3, <1>6, <1>11, <1>12, <1>13, OnTopKeeps DEF SweepTypeOK

LEMMA SignalDependentDevicesKeeps ==
  ASSUME SweepAssumption, SweepInv, SignalDependentDevices
  PROVE  SweepInv'
<1>1. PICK o : o = Top.obj
  OBVIOUS
<1>2. PICK d : d = dependentDevice[o]
  OBVIOUS
<1>3. /\ stack # <<>> /\ Top.at = "handler" /\ holds[o] = {} /\ "clear" \in Places
      /\ dependentDevice' = [dependentDevice EXCEPT ![o] = ERROR]
      /\ UNCHANGED <<live, dependentObject, external, holds, busy, depth, at, skipped>>
  BY <1>1 DEF SignalDependentDevices, Places
<1>4. SweepTypeOK /\ FramesSound /\ Separate
  BY DEF SweepInv
<1>5. /\ stack \in Seq(DestroyMessage) /\ o \in live /\ live \subseteq Remains
      /\ SYSTEM \notin Remains /\ ERROR \notin Remains /\ SYSTEM # ERROR
      /\ ~InSignal(o) /\ Counted /\ dependentObject[o] = ERROR
  BY <1>1, <1>3, TopFacts
<1>6. /\ dependentDevice' \in [Remains -> Remains \union {SYSTEM, ERROR}] /\ dependentDevice'[o] = ERROR
      /\ \A h \in Remains : h # o => dependentDevice'[h] = dependentDevice[h]
  BY <1>3, <1>4, <1>5 DEF SweepTypeOK
<1>7. \/ d \in live /\ refCount' = Dropped(d)
         /\ stack' = IF refCount[d] = 1 THEN SendDestroy(d, GoTo("clear")) ELSE GoTo("clear")
      \/ d \notin live /\ refCount' = refCount /\ stack' = GoTo("clear")
  BY <1>1, <1>2, <1>4, <1>5 DEF SignalDependentDevices, Release, isPresent, SweepTypeOK
<1>8. \A p : InSignal(p)' <=> InSignal(p)
  <2>1. stack' = GoTo("clear") \/ \E c \in Remains : stack' = SendDestroy(c, GoTo("clear"))
    BY <1>5, <1>7
  <2> QED
    BY <1>1, <1>3, <1>4, <1>5, <2>1, OnTop
<1>9. /\ \A h \in live : Depending(h)' = Depending(h) /\ Holding(h)' = Holding(h)
      /\ \A h \in live : h # d => OnDevice(h)' = OnDevice(h)
      /\ d \in live => o \in OnDevice(d) /\ OnDevice(d)' = OnDevice(d) \ {o}
  BY <1>2, <1>3, <1>5, <1>6, <1>8 DEF Depending, OnDevice, Holding
<1>10. Counted' /\ refCount' \in [Remains -> Int]
  <2>1. CASE d \in live
    BY <1>3, <1>4, <1>5, <1>7, <1>9, <2>1, TopFacts, DroppedOne
  <2>2. CASE d \notin live
    BY <1>3, <1>4, <1>5, <1>7, <1>9, <2>2, SameCounts DEF SweepTypeOK
  <2> QED
    BY <2>1, <2>2
(* The device's last reference was this one, so that nothing else in the   *)
(* table depends on it.                                                    *)
<1>11. ASSUME d \in live, refCount[d] = 1
       PROVE  \A h \in live : dependentDevice'[h] # d
  <2>1. /\ refCount[d] = Cardinality(Depending(d)) + Cardinality(OnDevice(d)) + Cardinality(Holding(d)) + ByUser(d)
        /\ Cardinality(Depending(d)) \in Nat /\ Cardinality(OnDevice(d)) \in Nat
        /\ Cardinality(Holding(d)) \in Nat /\ ByUser(d) \in Nat /\ IsFiniteSet(OnDevice(d))
    BY <1>3, <1>5, <1>11, TopFacts DEF Counted
  <2>2. Cardinality(OnDevice(d) \ {o}) = Cardinality(OnDevice(d)) - 1 /\ IsFiniteSet(OnDevice(d) \ {o})
    BY <1>9, <1>11, <2>1, FS_RemoveElement
  <2>3. Cardinality(OnDevice(d) \ {o}) \in Nat
    BY <2>2, FS_CardinalityType
  <2>4. Cardinality(OnDevice(d) \ {o}) = 0
    BY <1>11, <2>1, <2>2, <2>3
  <2>5. OnDevice(d) \ {o} = {}
    BY <2>2, <2>4, FS_EmptySet
  <2> QED
    BY <1>5, <1>6, <1>11, <2>5 DEF OnDevice
<1>12. \/ stack' = GoTo("clear")
       \/ \E c \in live : /\ stack' = SendDestroy(c, GoTo("clear"))
                          /\ depth = 3 => \A h \in live : dependentDevice'[h] # c
  BY <1>7, <1>11
<1> QED
  BY <1>1, <1>3, <1>4, <1>5, <1>6, <1>10, <1>12, OnTopKeeps DEF SweepTypeOK

LEMMA DestroyObjectDataKeeps ==
  ASSUME SweepAssumption, SweepInv, DestroyObjectData
  PROVE  SweepInv'
<1>1. PICK o : o = Top.obj
  OBVIOUS
<1>2. /\ stack # <<>> /\ Top.at = "clear" /\ live' = live \ {o} /\ stack' = Front(stack)
      /\ UNCHANGED <<dependentObject, dependentDevice, refCount, external, holds, busy, depth, at, skipped>>
  BY <1>1 DEF DestroyObjectData
<1>3. SweepTypeOK /\ FramesSound /\ Separate /\ DevicesStay /\ DependentsFirst /\ LastPass
  BY DEF SweepInv
<1>4. /\ stack \in Seq(DestroyMessage) /\ o \in live /\ live \subseteq Remains
      /\ SYSTEM \notin Remains /\ ERROR \notin Remains /\ SYSTEM # ERROR
      /\ ~InSignal(o) /\ Counted /\ dependentObject[o] = ERROR /\ dependentDevice[o] = ERROR /\ holds[o] = {}
  BY <1>1, <1>2, TopFacts
<1>5. PICK n \in Nat : n = Len(stack) /\ n > 0 /\ Top = stack[n]
  BY <1>2, <1>4, DestroyMessages DEF Top
<1>6. /\ stack' \in Seq(DestroyMessage) /\ Len(stack') = n - 1
      /\ \A i \in 1..(n - 1) : stack'[i] = stack[i] /\ i \in 1..n
      /\ \A i \in 1..n : i = n \/ i \in 1..(n - 1)
  BY <1>2, <1>4, <1>5, Popping
<1>7. \A i \in 1..(n - 1) : stack[i].obj # o
  BY <1>1, <1>3, <1>5, <1>6 DEF FramesSound
<1>8. \A p : InDestroy(p) <=> p = o \/ InDestroy(p)'
  <2>1. \A p : InDestroy(p)' <=> \E i \in 1..(n - 1) : stack[i].obj = p
    BY <1>6 DEF InDestroy
  <2>2. \A p : InDestroy(p) <=> \E i \in 1..n : stack[i].obj = p
    BY <1>5 DEF InDestroy
  <2>3. n \in 1..n /\ stack[n].obj = o
    BY <1>1, <1>5
  <2> QED
    BY <1>6, <2>1, <2>2, <2>3
<1>9. \A p : InSignal(p)' <=> InSignal(p)
  BY <1>1, <1>2, <1>5, <1>6 DEF InSignal
<1>10. SweepTypeOK'
  BY <1>2, <1>3, <1>6 DEF SweepTypeOK, DestroyMessage, Places
<1>11. FramesSound'
  <2>1. ASSUME NEW i \in 1..(n - 1), NEW j \in 1..(n - 1), stack'[i].obj = stack'[j].obj
        PROVE  i = j
    BY <1>3, <1>5, <1>6, <2>1 DEF FramesSound
  <2>2. ASSUME NEW i \in 1..(n - 1)
        PROVE  /\ stack'[i].obj \in live'
               /\ stack'[i].at \in {"handler", "clear"} => dependentObject'[stack'[i].obj] = ERROR
               /\ stack'[i].at = "clear" => dependentDevice'[stack'[i].obj] = ERROR /\ holds'[stack'[i].obj] = {}
    <3>1. i \in 1..Len(stack) /\ stack'[i] = stack[i] /\ stack[i].obj # o
      BY <1>5, <1>6, <1>7
    <3>2. /\ stack[i].obj \in live
          /\ stack[i].at \in {"handler", "clear"} => dependentObject[stack[i].obj] = ERROR
          /\ stack[i].at = "clear" => dependentDevice[stack[i].obj] = ERROR /\ holds[stack[i].obj] = {}
      BY <1>3, <3>1 DEF FramesSound
    <3> QED
      BY <1>2, <3>1, <3>2
  <2> QED
    BY <1>6, <2>1, <2>2 DEF FramesSound
<1>12. RefCountsExact'
  <2>1. ASSUME NEW h \in live'
        PROVE  Depending(h)' = Depending(h) /\ OnDevice(h)' = OnDevice(h) /\ Holding(h)' = Holding(h)
    BY <1>2, <1>4, <1>9 DEF Depending, OnDevice, Holding
  <2>2. \A h \in live' : ByUser(h)' = ByUser(h) /\ refCount'[h] = refCount[h] /\ h \in live
    BY <1>2 DEF ByUser
  <2>3. Counted'
    BY <1>4, <2>1, <2>2 DEF Counted
  <2> QED
    BY <1>6, <2>3, CountedIsExactNext
<1>13. Separate'
  BY <1>2, <1>3 DEF Separate
<1>14. DevicesStay'
  <2>1. SUFFICES ASSUME depth = 3, NEW h \in live, h # o
                 PROVE  /\ dependentDevice[h] \in (live \ {o}) \union {SYSTEM, ERROR}
                        /\ dependentDevice[h] = ERROR => InDestroy(h)'
                        /\ dependentDevice[h] \in live => ~(InDestroy(dependentDevice[h]))'
    BY <1>2 DEF DevicesStay
  <2>2. /\ dependentDevice[h] \in live \union {SYSTEM, ERROR}
        /\ dependentDevice[h] = ERROR => InDestroy(h)
        /\ dependentDevice[h] \in live => ~InDestroy(dependentDevice[h])
    BY <1>3, <2>1 DEF DevicesStay
  <2>3. ~(dependentDevice[h] = o)
    BY <1>4, <1>8, <2>2
  <2>4. dependentDevice[h] \in live => ~(InDestroy(dependentDevice[h]))'
    <3>1. PICK e : e = dependentDevice[h] /\ e = dependentDevice'[h]
      BY <1>2
    <3> QED
      BY <1>2, <1>8, <2>2, <3>1
  <2> QED
    BY <1>8, <2>1, <2>2, <2>3, <2>4
<1>15. DependentsFirst' /\ LastPass'
  <2>1. depth # 0
    BY <1>2, <1>3 DEF LastPass
  <2>2. DependentsFirst'
    BY <1>2, <1>3, <1>8 DEF DependentsFirst
  <2>3. LastPass'
    BY <1>2, <1>3, <1>8, <2>1 DEF LastPass
  <2> QED
    BY <2>2, <2>3
<1> QED
  BY <1>10, <1>11, <1>12, <1>13, <1>14, <1>15 DEF SweepInv

LEMMA DestroySelectedKeeps ==
  ASSUME SweepAssumption, SweepInv, DestroySelected
  PROVE  SweepInv' /\ NotUnderDependentStep
<1>1. /\ stack = <<>> /\ depth > 0
      /\ UNCHANGED <<live, dependentObject, dependentDevice, refCount, external, holds, busy, depth>>
  BY DEF DestroySelected
<1>2. SweepTypeOK /\ FramesSound /\ Separate /\ DevicesStay /\ DependentsFirst /\ LastPass
  BY DEF SweepInv
<1>3. PICK h \in Left :
        /\ \A g \in Left : h <= g
        /\ at' = h + 1
        /\ IF Selected(h)
           THEN stack' = SendDestroy(h, <<>>)
                /\ skipped' = IF h \in busy THEN [skipped EXCEPT ![depth] = @ \union {h}] ELSE skipped
           ELSE UNCHANGED <<stack, skipped>>
  BY DEF DestroySelected
<1>4. /\ stack \in Seq(DestroyMessage) /\ Len(stack) = 0 /\ live \subseteq Remains /\ depth \in 1..3
      /\ h \in Remains /\ h \in Nat /\ at \in Nat /\ Remains \subseteq Nat
      /\ SYSTEM \notin Remains /\ ERROR \notin Remains /\ SYSTEM # ERROR
  BY <1>1, <1>2, <1>3, DestroyMessages DEF SweepTypeOK, DestroyMessage, Places, Left, SweepAssumption, SYSTEM, ERROR
<1>5. /\ \A p : ~InDestroy(p)
      /\ \A p : ~InSignal(p)
  BY <1>4 DEF InDestroy, InSignal
<1>6. \/ stack' = <<>> /\ (Selected(h) => h \in busy)
      \/ /\ Selected(h) /\ h \notin busy /\ stack' \in Seq(DestroyMessage) /\ Len(stack') = 1
         /\ stack'[1] = [obj |-> h, at |-> "release"]
  <2>1. PICK s \in Seq(DestroyMessage) : s = <<>> /\ Len(s) = 0
    BY <1>1, <1>4
  <2>2. CASE Selected(h)
    <3>1. stack' = SendDestroy(h, s)
      BY <1>3, <2>1, <2>2
    <3>2. \/ SendDestroy(h, s) = s /\ (h \in busy \/ \E i \in 1..Len(s) : s[i].obj = h)
          \/ /\ SendDestroy(h, s) \in Seq(DestroyMessage) /\ Len(s) \in Nat /\ Len(SendDestroy(h, s)) = Len(s) + 1
             /\ SendDestroy(h, s)[Len(s) + 1] = [obj |-> h, at |-> "release"]
             /\ h \notin busy
      BY <1>4, Sending
    <3> QED
      BY <2>1, <2>2, <3>1, <3>2
  <2>3. CASE ~Selected(h)
    BY <1>1, <1>3, <2>3
  <2> QED
    BY <2>2, <2>3
<1>7. stack' \in Seq(DestroyMessage) /\ Len(stack') \in {0, 1}
  BY <1>1, <1>4, <1>6
<1>8. \A i \in 1..Len(stack') : i = 1 /\ stack'[i].obj = h /\ stack'[i].at = "release" /\ Selected(h)
  <2>1. CASE stack' = <<>>
    <3>1. Len(stack') = 0
      BY <1>1, <1>4, <2>1
    <3> QED
      BY <3>1
  <2>2. CASE stack' # <<>>
    <3>1. Selected(h) /\ Len(stack') = 1 /\ stack'[1] = [obj |-> h, at |-> "release"]
      BY <1>6, <2>2, Zenon
    <3>2. \A i \in 1..Len(stack') : i = 1
      BY <3>1
    <3>3. stack'[1].obj = h /\ stack'[1].at = "release"
      BY <3>1
    <3> QED
      BY <3>1, <3>2, <3>3
  <2> QED
    BY <2>1, <2>2
<1>9. /\ skipped' \in [1..3 -> SUBSET Remains]
      /\ \A i \in 1..3 : skipped[i] \subseteq skipped'[i]
      /\ Selected(h) /\ h \in busy => h \in skipped'[depth]
  <2>1. skipped \in [1..3 -> SUBSET Remains]
    BY <1>2 DEF SweepTypeOK
  <2> QED
    BY <1>3, <1>4, <2>1
<1>10. /\ \A p : InDestroy(p)' => p = h /\ Selected(h)
       /\ Selected(h) => h \in skipped'[depth] \/ InDestroy(h)'
  <2>1. \A p : InDestroy(p)' => p = h /\ Selected(h)
    BY <1>8 DEF InDestroy
  <2>2. Selected(h) => h \in skipped'[depth] \/ InDestroy(h)'
    <3>1. CASE stack' = <<>>
      BY <1>6, <1>9, <3>1
    <3>2. CASE stack' # <<>>
      <4>1. 1 \in 1..Len(stack') /\ stack'[1].obj = h
        BY <1>6, <3>2
      <4> QED
        BY <4>1 DEF InDestroy
    <3> QED
      BY <3>1, <3>2
  <2> QED
    BY <2>1, <2>2
<1>11. SweepTypeOK'
  BY <1>1, <1>2, <1>3, <1>4, <1>7, <1>9 DEF SweepTypeOK, DestroyMessage, Places
<1>12. FramesSound'
  <2>1. Selected(h) => h \in live
    BY DEF Selected
  <2> QED
    BY <1>1, <1>8, <2>1 DEF FramesSound
<1>13. RefCountsExact'
  <2>1. \A p : ~InSignal(p)'
    BY <1>8 DEF InSignal
  <2>2. ASSUME NEW g \in live
        PROVE  Depending(g)' = Depending(g) /\ OnDevice(g)' = OnDevice(g) /\ Holding(g)' = Holding(g)
    BY <1>1, <1>5, <2>1 DEF Depending, OnDevice, Holding
  <2>3. Counted
    BY <1>4, CountedIsExact DEF SweepInv
  <2>4. Counted'
    BY <1>1, <2>2, <2>3, SameCounts
  <2> QED
    BY <1>7, <2>4, CountedIsExactNext
<1>14. Separate'
  BY <1>1, <1>2 DEF Separate
(* In the first pass only what something is attached to is selected: no    *)
(* device, and nothing that is attached itself.                            *)
<1>15. ASSUME depth = 3, Selected(h)
       PROVE  h \in live /\ dependentObject[h] \in Remains
  <2>1. h \in live /\ Depth(h) >= 3
    BY <1>15 DEF Selected
  <2>2. isPresent(dependentObject[h])
    BY <2>1 DEF Depth
  <2> QED
    BY <1>2, <1>4, <2>1, <2>2 DEF isPresent, SweepTypeOK
<1>16. DevicesStay'
  <2>1. SUFFICES ASSUME depth = 3, NEW p \in live
                 PROVE  /\ dependentDevice[p] \in live \union {SYSTEM, ERROR}
                        /\ dependentDevice[p] = ERROR => InDestroy(p)'
                        /\ dependentDevice[p] \in live => ~(InDestroy(dependentDevice[p]))'
    BY <1>1 DEF DevicesStay
  <2>2. dependentDevice[p] \in live \union {SYSTEM} /\ p \in Remains
    BY <1>2, <1>4, <1>5, <2>1 DEF DevicesStay
  <2>3. PICK e : e = dependentDevice[p] /\ e = dependentDevice'[p]
    BY <1>1
  <2>4. e \in live => ~InDestroy(e)'
    <3>1. SUFFICES ASSUME e \in live, InDestroy(e)'
                   PROVE  FALSE
      OBVIOUS
    <3>2. e = h /\ Selected(h)
      BY <1>10, <3>1
    <3>3. dependentObject[h] # ERROR
      BY <1>4, <1>15, <2>1, <3>2
    <3> QED
      BY <1>2, <1>4, <2>2, <2>3, <3>2, <3>3 DEF Separate
  <2> QED
    BY <1>1, <1>4, <2>2, <2>3, <2>4
<1>17. DependentsFirst'
  <2>1. SUFFICES ASSUME NEW p \in live, dependentObject[p] \in live, depth < 3 \/ p < h + 1
                 PROVE  p \in skipped'[3] \/ InDestroy(p)'
    BY <1>1, <1>3 DEF DependentsFirst
  <2>2. CASE depth < 3 \/ p < at
    BY <1>2, <1>5, <1>9, <2>1, <2>2 DEF DependentsFirst
  <2>3. CASE ~(depth < 3 \/ p < at)
    <3>1. p \in Left /\ depth = 3
      BY <1>4, <2>1, <2>3 DEF Left
    <3>2. p = h
      BY <1>3, <1>4, <2>1, <3>1
    <3>3. PICK d \in live : d = dependentObject[p]
      BY <2>1
    <3>4. dependentDevice[d] \in live \union {SYSTEM}
      BY <1>2, <1>5, <3>1 DEF DevicesStay
    <3>5. Depth(p) = 3
      BY <3>3, <3>4 DEF Depth, isPresent
    <3>6. Selected(h)
      BY <2>1, <3>1, <3>2, <3>5 DEF Selected
    <3> QED
      BY <1>10, <3>1, <3>2, <3>6
  <2> QED
    BY <2>2, <2>3
<1>18. LastPass'
  <2>1. SUFFICES ASSUME NEW p \in live, depth = 1, p < h + 1
                 PROVE  p \in skipped'[1] \/ InDestroy(p)'
    BY <1>1, <1>3 DEF LastPass
  <2>2. CASE p < at
    BY <1>2, <1>5, <1>9, <2>1, <2>2 DEF LastPass
  <2>3. CASE ~(p < at)
    <3>1. p \in Left
      BY <1>4, <2>1, <2>3 DEF Left
    <3>2. p = h
      BY <1>3, <1>4, <2>1, <3>1
    <3>3. Depth(h) >= 1
      BY DEF Depth
    <3>4. Selected(h)
      BY <2>1, <3>2, <3>3 DEF Selected
    <3> QED
      BY <1>10, <2>1, <3>2, <3>4
  <2> QED
    BY <2>2, <2>3
<1>19. NotUnderDependentStep
  <2>1. ASSUME NEW g \in Remains, stack' # <<>>, stack'[1].obj = g, NEW p \in live, dependentObject[p] = g
        PROVE  p \in skipped[3]
    <3>1. Selected(h) /\ g = h /\ g \in live /\ p \in Remains
      BY <1>4, <1>6, <2>1 DEF Selected
    <3>2. dependentObject[h] = ERROR
      BY <1>2, <1>4, <2>1, <3>1 DEF Separate
    <3>3. depth # 3
      BY <1>4, <1>15, <3>1, <3>2
    <3>4. depth < 3
      BY <1>4, <3>3
    <3>5. p \in skipped[3] \/ InDestroy(p)
      BY <1>2, <2>1, <3>1, <3>4 DEF DependentsFirst
    <3> QED
      BY <1>5, <3>5
  <2>2. skipped[3] \subseteq UNION {skipped[i] : i \in 1..3}
    OBVIOUS
  <2>3. ASSUME NEW g \in Remains, stack' # <<>>, stack'[1].obj = g
        PROVE  {p \in live : dependentObject[p] = g} \subseteq UNION {skipped[i] : i \in 1..3}
    BY <2>1, <2>2, <2>3
  <2> QED
    BY <2>3 DEF NotUnderDependentStep
<1> QED
  BY <1>11, <1>12, <1>13, <1>14, <1>16, <1>17, <1>18, <1>19 DEF SweepInv

LEMMA NextDepthKeeps ==
  ASSUME SweepAssumption, SweepInv, NextDepth
  PROVE  SweepInv'
<1>1. /\ stack = <<>> /\ depth > 0 /\ Left = {} /\ depth' = depth - 1 /\ at' = 1
      /\ UNCHANGED <<live, dependentObject, dependentDevice, refCount, external, holds, busy, stack, skipped>>
  BY DEF NextDepth
<1>2. SweepTypeOK /\ FramesSound /\ Separate /\ DevicesStay /\ DependentsFirst /\ LastPass /\ RefCountsExact
  BY DEF SweepInv
<1>3. /\ depth \in 1..3 /\ depth' \in 0..2 /\ at \in Nat /\ live \subseteq Remains /\ Remains \subseteq Nat \ {0}
  BY <1>1, <1>2 DEF SweepTypeOK, SweepAssumption, SYSTEM
<1>4. \A p \in live : p < at
  BY <1>1, <1>3 DEF Left
<1>5. SweepTypeOK' /\ FramesSound' /\ Separate' /\ RefCountsExact'
  <2>1. SweepTypeOK'
    BY <1>1, <1>2, <1>3 DEF SweepTypeOK
  <2>2. FramesSound'
    BY <1>1, <1>2 DEF FramesSound
  <2>3. Separate'
    BY <1>1, <1>2 DEF Separate
  <2>4. RefCountsExact'
    BY <1>1, <1>2 DEF RefCountsExact
  <2> QED
    BY <2>1, <2>2, <2>3, <2>4
<1>6. DevicesStay'
  BY <1>3 DEF DevicesStay
<1>7. \A p : InDestroy(p)' <=> InDestroy(p)
  BY <1>1 DEF InDestroy
<1>8. DependentsFirst'
  <2>1. ASSUME NEW p \in live, dependentObject[p] \in live
        PROVE  p \in skipped[3] \/ InDestroy(p)
    BY <1>2, <1>3, <1>4, <2>1 DEF DependentsFirst
  <2> QED
    BY <1>1, <1>7, <2>1 DEF DependentsFirst
<1>9. LastPass'
  <2>1. ASSUME NEW p \in live, depth' = 0 \/ (depth' = 1 /\ p < at')
        PROVE  p \in skipped[1] \/ InDestroy(p)
    <3>1. depth' = 0 /\ depth = 1
      BY <1>1, <1>3, <2>1
    <3> QED
      BY <1>2, <1>4, <3>1 DEF LastPass
  <2> QED
    BY <1>1, <1>7, <2>1 DEF LastPass
<1> QED
  BY <1>5, <1>6, <1>8, <1>9 DEF SweepInv

LEMMA LeaveObjectKeeps ==
  ASSUME SweepInv, LeaveObject
  PROVE  SweepInv'
<1>1. /\ busy' \subseteq busy
      /\ UNCHANGED <<live, dependentObject, dependentDevice, refCount, external, holds, stack, depth, at, skipped>>
  BY DEF LeaveObject
<1>2. SweepTypeOK'
  BY <1>1 DEF SweepInv, SweepTypeOK
<1>3. FramesSound' /\ Separate' /\ RefCountsExact'
  <2>1. FramesSound'
    BY <1>1 DEF SweepInv, FramesSound
  <2>2. Separate'
    BY <1>1 DEF SweepInv, Separate
  <2>3. RefCountsExact'
    BY <1>1 DEF SweepInv, RefCountsExact
  <2> QED
    BY <2>1, <2>2, <2>3
<1>4. DevicesStay' /\ DependentsFirst' /\ LastPass'
  <2>1. \A p : InDestroy(p)' <=> InDestroy(p)
    BY <1>1 DEF InDestroy
  <2> QED
    BY <1>1, <2>1 DEF SweepInv, DevicesStay, DependentsFirst, LastPass, InDestroy
<1> QED
  BY <1>2, <1>3, <1>4 DEF SweepInv

LEMMA SweepInitial ==
  ASSUME SweepAssumption, SweepInit
  PROVE  SweepInv
<1>1. /\ refCount = [h \in Remains |-> References(h, dependentObject, dependentDevice, holds, external)]
      /\ \A h \in Remains : refCount[h] > 0
      /\ live = Remains /\ stack = <<>> /\ depth = 3 /\ at = 1 /\ skipped = [i \in 1..3 |-> {}]
      /\ external \subseteq Remains /\ busy \subseteq Remains
  BY DEF SweepInit
<1>2. PICK kind \in [Remains -> DOMAIN AttachableTo] :
        /\ dependentObject \in [Remains -> Remains \union {ERROR}]
        /\ \A h \in Remains : dependentObject[h] # ERROR =>
             /\ dependentObject[h] # h /\ kind[dependentObject[h]] \in AttachableTo[kind[h]]
             /\ dependentObject[dependentObject[h]] = ERROR
        /\ dependentDevice \in [Remains -> {SYSTEM} \union {d \in Remains : kind[d] = "device"}]
        /\ holds \in [Remains -> {{}} \union {{x} : x \in Remains}]
        /\ \A h \in Remains : \A x \in holds[h] : kind[h] = "session" /\ kind[x] \in {"context", "certificate"}
  BY DEF SweepInit
<1>3. /\ SYSTEM \notin Remains /\ ERROR \notin Remains /\ SYSTEM # ERROR /\ Remains \subseteq Nat \ {0}
      /\ stack \in Seq(DestroyMessage) /\ Len(stack) = 0
  BY <1>1, DestroyMessages DEF SweepAssumption, SYSTEM, ERROR
<1>4. /\ \A p : ~InDestroy(p)
      /\ \A p : ~InSignal(p)
  BY <1>3 DEF InDestroy, InSignal
<1>5. ASSUME NEW h \in Remains
      PROVE  /\ refCount[h] = Cardinality(Depending(h)) + Cardinality(OnDevice(h)) + Cardinality(Holding(h)) + ByUser(h)
             /\ refCount[h] \in Int
  <2>1. refCount[h] = Cardinality({p \in Remains : dependentObject[p] = h}) + Cardinality({p \in Remains : dependentDevice[p] = h})
                      + Cardinality({p \in Remains : h \in holds[p]}) + (IF h \in external THEN 1 ELSE 0)
    BY <1>1 DEF References
  <2>2. /\ Depending(h) = {p \in Remains : dependentObject[p] = h}
        /\ OnDevice(h) = {p \in Remains : dependentDevice[p] = h}
        /\ Holding(h) = {p \in Remains : h \in holds[p]}
    BY <1>1, <1>4 DEF Depending, OnDevice, Holding
  <2>3. Cardinality(Depending(h)) \in Nat /\ Cardinality(OnDevice(h)) \in Nat /\ Cardinality(Holding(h)) \in Nat
    BY <1>1, Finite
  <2> QED
    BY <2>1, <2>2, <2>3 DEF ByUser
<1>6. holds \in [Remains -> SUBSET Remains]
  BY <1>2
<1>7. SweepTypeOK
  <2>1. refCount \in [Remains -> Int]
    BY <1>1, <1>5
  <2>2. dependentDevice \in [Remains -> Remains \union {SYSTEM, ERROR}]
    BY <1>2
  <2> QED
    BY <1>1, <1>2, <1>3, <1>6, <2>1, <2>2 DEF SweepTypeOK, DestroyMessage, Places
<1>8. FramesSound
  BY <1>3 DEF FramesSound
<1>9. RefCountsExact
  <2>1. Counted
    BY <1>1, <1>5 DEF Counted
  <2> QED
    BY <1>3, <2>1, CountedIsExact
<1>10. Separate
  <2>1. ASSUME NEW g \in Remains, NEW h \in Remains, dependentDevice[g] = h
        PROVE  dependentObject[h] = ERROR /\ \A p \in Remains : dependentObject[p] # h /\ h \notin holds[p]
    <3>1. kind[h] = "device"
      BY <1>2, <1>3, <2>1
    <3>2. dependentObject[h] = ERROR
      BY <1>2, <3>1 DEF AttachableTo
    <3>3. \A p \in Remains : "device" \notin AttachableTo[kind[p]]
      BY <1>2 DEF AttachableTo
    <3>4. \A p \in Remains : dependentObject[p] # h
      BY <1>2, <1>3, <3>1, <3>3
    <3>5. \A p \in Remains : h \notin holds[p]
      BY <1>2, <3>1
    <3> QED
      BY <3>2, <3>4, <3>5
  <2>2. ASSUME NEW g \in Remains, NEW h \in Remains, dependentObject[g] = h
        PROVE  dependentObject[h] = ERROR
    BY <1>2, <1>3, <2>2
  <2> QED
    BY <2>1, <2>2 DEF Separate
<1>11. DevicesStay
  <2>1. ASSUME NEW h \in Remains
        PROVE  dependentDevice[h] \in Remains \union {SYSTEM} /\ dependentDevice[h] # ERROR
    BY <1>2, <1>3
  <2>2. ASSUME NEW h \in live
        PROVE  /\ dependentDevice[h] \in live \union {SYSTEM, ERROR}
               /\ dependentDevice[h] = ERROR => InDestroy(h)
               /\ dependentDevice[h] \in live => ~InDestroy(dependentDevice[h])
    BY <1>1, <1>4, <2>1
  <2> QED
    BY <2>2 DEF DevicesStay
<1>12. DependentsFirst /\ LastPass
  BY <1>1, <1>3 DEF DependentsFirst, LastPass
<1> QED
  BY <1>7, <1>8, <1>9, <1>10, <1>11, <1>12 DEF SweepInv

LEMMA SweepStep ==
  ASSUME SweepAssumption, SweepInv, [SweepNext]_sweepVars
  PROVE  SweepInv'
<1>1. CASE UNCHANGED sweepVars
  <2>1. UNCHANGED <<live, dependentObject, dependentDevice, refCount, external, holds, busy, stack, depth, at, skipped>>
    BY <1>1 DEF sweepVars
  <2>2. SweepTypeOK' /\ FramesSound' /\ Separate'
    BY <2>1 DEF SweepInv, SweepTypeOK, FramesSound, Separate
  <2>3. RefCountsExact'
    BY <2>1 DEF SweepInv, RefCountsExact
  <2>4. DevicesStay' /\ DependentsFirst' /\ LastPass'
    BY <2>1 DEF SweepInv, DevicesStay, DependentsFirst, LastPass, InDestroy
  <2> QED
    BY <2>2, <2>3, <2>4 DEF SweepInv
<1>2. CASE SweepNext
  BY <1>2, SignalDependentObjectsKeeps, SignalKeeps, ReleaseHeldKeeps, SignalDependentDevicesKeeps,
     DestroyObjectDataKeeps, DestroySelectedKeeps, NextDepthKeeps, LeaveObjectKeeps DEF SweepNext
<1> QED
  BY <1>1, <1>2

-----------------------------------------------------------------------------
(* The invariant of the sweep, for every number of objects and every way   *)
(* in which they are attached.                                             *)
THEOREM SweepCorrect ==
  ASSUME SweepAssumption
  PROVE  SweepSpec => []SweepInv
<1>1. SweepInit => SweepInv
  BY SweepInitial
<1>2. SweepInv /\ [SweepNext]_sweepVars => SweepInv'
  BY SweepStep
<1> QED
  BY <1>1, <1>2, PTL DEF SweepSpec

(* However the table is torn down, the reference counts (objects.c) of     *)
(* what is left are exact: no reference is dropped twice.                  *)
THEOREM RefCountsAlwaysExact ==
  ASSUME SweepAssumption
  PROVE  SweepSpec => []RefCountsExact
<1>1. SweepInv => RefCountsExact
  BY DEF SweepInv
<1> QED
  BY <1>1, SweepCorrect, PTL

(* "We can never delete another object out from under a dependent object"  *)
(* (objects.c:521), of the objects that are attached to others.            *)
THEOREM NeverUnderDependent ==
  ASSUME SweepAssumption
  PROVE  SweepSpec => NotUnderDependent
<1>1. SweepInv /\ [SweepNext]_sweepVars => NotUnderDependentStep
  <2>1. ASSUME SweepInv, [SweepNext]_sweepVars, ~DestroySelected
        PROVE  stack = <<>> => stack' = <<>>
    BY <2>1 DEF SweepNext, sweepVars, SignalDependentObjects, Signal, ReleaseHeld, SignalDependentDevices,
                DestroyObjectData, NextDepth, LeaveObject
  <2>2. (stack = <<>> => stack' = <<>>) => NotUnderDependentStep
    BY DEF NotUnderDependentStep
  <2> QED
    BY <2>1, <2>2, DestroySelectedKeeps
<1> QED
  BY <1>1, SweepCorrect, PTL DEF SweepSpec, NotUnderDependent

(* Three passes (objects.c:537) are enough: what outlives them had another *)
(* thread in it when the last one came to it.                              *)
THEOREM ThreePassesSuffice ==
  ASSUME SweepAssumption
  PROVE  SweepSpec => []NothingMissed
<1>1. SweepInv => NothingMissed
  <2>1. SUFFICES ASSUME SweepInv, depth = 0, NEW p \in live
                 PROVE  p \in skipped[1]
    BY DEF NothingMissed
  <2>2. stack = <<>> /\ (p \in skipped[1] \/ InDestroy(p))
    BY <2>1 DEF SweepInv, LastPass
  <2>3. Len(stack) = 0
    BY <2>2
  <2> QED
    BY <2>2, <2>3 DEF InDestroy
<1> QED
  BY <1>1, SweepCorrect, PTL

-----------------------------------------------------------------------------
(***************************************************************************)
(* DependentObjects                                                        *)
(*                                                                         *)
(* DependentsInv is inductive as long as no attachment comes late: one     *)
(* lemma for each action, with a step for each conjunct.  The counting is  *)
(* in the lemmas on Promised and DependOn.                                 *)
(***************************************************************************)
-----------------------------------------------------------------------------
USE DEF isValidObject, Working, Attachable, Message, Entry

------------------------------------------------------------------------------
(* Promises and their number *)

\* Two objects that can be attached are two handles.
LEMMA TwoHandles ==
  ASSUME DependentObjectsAssumption, NEW h, NEW d, Attachable(h, d)
  PROVE  h \in Handles /\ d \in Handles /\ h # d /\ h # NoHandle /\ d # NoHandle
  BY DEF DependentObjectsAssumption, Handles

\* There are finitely many promises.
LEMMA PromisesFinite ==
  ASSUME DependentObjectsAssumption, NEW h
  PROVE  /\ IsFiniteSet(Giving(h)) /\ Cardinality(Giving(h)) \in Nat
         /\ Promised(h) \in Nat
<1>1. IsFiniteSet(Giving(h))
    BY FS_Subset DEF DependentObjectsAssumption, Giving
<1>2. Cardinality(Giving(h)) \in Nat
    BY <1>1, FS_CardinalityType
<1> QED BY <1>1, <1>2 DEF Promised

\* What a caller works with has a promised reference.
LEMMA CallersPromise ==
  ASSUME DependentObjectsAssumption, NEW h, NEW t \in Threads, Attaching(t, h) \/ Detaching(t, h)
  PROVE  Promised(h) >= 1
<1>1. CASE t \in Keeping(h)
    BY <1>1, PromisesFinite DEF Promised
<1>2. CASE t \notin Keeping(h)
  <2>1. Giving(h) # {}
      BY <1>2 DEF Keeping, Giving
  <2>2. Cardinality(Giving(h)) # 0
      BY <2>1, PromisesFinite, FS_EmptySet
  <2> QED BY <2>2, PromisesFinite DEF Promised
<1> QED BY <1>1, <1>2

\* Fewer callers, fewer promises.
LEMMA FewerPromises ==
  ASSUME DependentObjectsAssumption, NEW h,
         Giving(h)' \subseteq Giving(h), Keeping(h)' \subseteq Keeping(h)
  PROVE  Promised(h)' <= Promised(h)
<1>1. /\ IsFiniteSet(Giving(h)') /\ Cardinality(Giving(h)') <= Cardinality(Giving(h))
      /\ Cardinality(Giving(h)') \in Nat
    BY PromisesFinite, FS_Subset, FS_CardinalityType
<1> QED BY <1>1, PromisesFinite DEF Promised

\* A caller that gives its reference away has one promise less to keep.
LEMMA PromiseFulfilled ==
  ASSUME DependentObjectsAssumption, NEW h, NEW t \in Giving(h),
         Giving(h)' = Giving(h) \ {t}, Keeping(h)' \subseteq Keeping(h)
  PROVE  Promised(h)' <= Promised(h) - 1
<1>1. Cardinality(Giving(h)') = Cardinality(Giving(h)) - 1
    BY PromisesFinite, FS_RemoveElement
<1> QED BY <1>1, PromisesFinite DEF Promised

\* What a promise is made for exists.
LEMMA PromisedExists ==
  ASSUME DependentObjectsAssumption, DependentsInv, NEW h \in Handles, NEW t \in Threads,
         Attaching(t, h) \/ Detaching(t, h)
  PROVE  outside[h] >= 1 /\ isValidObject(h)
<1>1. outside[h] \in Nat /\ h # NoHandle /\ Promised(h) <= outside[h]
    BY DEF DependentsInv, TypeOK, PromisesKept, DependentObjectsAssumption
<1>2. outside[h] >= 1
    BY <1>1, CallersPromise, PromisesFinite
<1> QED BY <1>1, <1>2 DEF DependentsInv, UniqueIDs

------------------------------------------------------------------------------
(* Dependent objects and their number *)

\* Finitely many objects depend on one.
LEMMA DependFinite ==
  ASSUME DependentObjectsAssumption, NEW h
  PROVE  IsFiniteSet(DependOn(h)) /\ Cardinality(DependOn(h)) \in Nat
<1>1. IsFiniteSet(DependOn(h))
    BY FS_Subset DEF DependentObjectsAssumption, DependOn
<1> QED BY <1>1, FS_CardinalityType

\* An object with a reference count of zero has no references, unless it was left with a slot.
LEMMA NoReferences ==
  ASSUME DependentObjectsAssumption, DependentsInv, ~late, NEW h \in Handles, isValidObject(h),
         objectTable[h].intRefCount = 0
  PROVE  outside[h] = 0 /\ (objectTable[h].state # "left" => DependOn(h) = {})
<1> DEFINE n == IF objectTable[h].state = "left" THEN 0 ELSE Cardinality(DependOn(h))
<1>1. outside[h] \in Nat /\ 0 = outside[h] + n
    BY DEF DependentsInv, TypeOK, RefsBalanced
<1>2. n \in Nat
    BY DependFinite
<1>3. outside[h] = 0 /\ n = 0
    BY <1>1, <1>2
<1> QED BY <1>3, DependFinite, FS_EmptySet

\* An object without references, or that does not exist, has no callers and nothing depends on it.
LEMMA Unused ==
  ASSUME DependentObjectsAssumption, DependentsInv, NEW h \in Handles,
         outside[h] = 0
  PROVE  \A t \in Threads : ~Attaching(t, h) /\ ~Detaching(t, h)
  BY PromisedExists

LEMMA NothingDependsOnFree ==
  ASSUME DependentObjectsAssumption, DependentsInv, NEW h \in Handles, ~isValidObject(h)
  PROVE  DependOn(h) = {} /\ outside[h] = 0
<1>1. \A p : Forgotten(p) => Clearing(p)
    BY DEF Forgotten, Clearing
<1> QED BY <1>1 DEF DependentsInv, DependentsExist, UniqueIDs, DependOn, DependentObjectsAssumption

\* An object whose last reference has gone.
LEMMA Ending ==
  ASSUME DependentObjectsAssumption, DependentsInv, ~late, NEW h \in Handles, objectTable[h].state # "normal"
  PROVE  /\ isValidObject(h) /\ objectTable[h].intRefCount = 0 /\ outside[h] = 0
         /\ objectTable[h].state # "left" => DependOn(h) = {}
         /\ ~Clearing(h) /\ ~Forgotten(h)
         /\ \A t \in Threads : ~Attaching(t, h) /\ ~Detaching(t, h)
<1>1. isValidObject(h) /\ objectTable[h].intRefCount = 0
    BY DEF DependentsInv, UniqueIDs, Ends, Free
<1>2. outside[h] = 0 /\ (objectTable[h].state # "left" => DependOn(h) = {})
    BY <1>1, NoReferences
<1>3. \A t \in Threads : ~Attaching(t, h) /\ ~Detaching(t, h)
    BY <1>2, Unused
<1> QED BY <1>1, <1>2, <1>3 DEF Clearing, Forgotten

\* One that still has references, callers' or dependents', is not on its way out.
LEMMA Referenced ==
  ASSUME DependentObjectsAssumption, DependentsInv, ~late, NEW h \in Handles, isValidObject(h),
         outside[h] > 0 \/ objectTable[h].intRefCount # 0 \/ (objectTable[h].state # "left" /\ DependOn(h) # {})
  PROVE  objectTable[h].state = "normal" /\ objectTable[h].intRefCount > 0
<1>1. objectTable[h].state = "normal"
    BY Ending DEF DependentsInv, TypeOK
<1> QED BY <1>1 DEF DependentsInv, Ends

------------------------------------------------------------------------------
(* Steps that leave most as it is *)

\* An entry with another count and state.
LEMMA OtherCount ==
  ASSUME NEW e \in Entry, NEW n \in Int, NEW s \in {"normal", "dying", "signalled", "left"},
         NEW g, g = [e EXCEPT !.intRefCount = n, !.state = s]
  PROVE  /\ g \in Entry /\ g.uniqueID = e.uniqueID /\ g.permitted = e.permitted
         /\ g.dependentObject = e.dependentObject /\ g.intRefCount = n /\ g.state = s
  OBVIOUS

\* decRefCount changes a count and a state.
LEMMA DecRefIs ==
  ASSUME NEW table \in [Handles -> Entry], NEW h \in Handles \union {NoHandle}, NoHandle \notin Handles,
         \A p \in Handles : table[p].intRefCount >= 0
  PROVE  /\ DecRef(table, h) \in [Handles -> Entry]
         /\ \A p \in Handles :
              /\ DecRef(table, h)[p].uniqueID = table[p].uniqueID
              /\ DecRef(table, h)[p].permitted = table[p].permitted
              /\ DecRef(table, h)[p].dependentObject = table[p].dependentObject
              /\ DecRef(table, h)[p].intRefCount =
                   IF p = h /\ table[h].intRefCount # 0 THEN table[h].intRefCount - 1 ELSE table[p].intRefCount
              /\ DecRef(table, h)[p].state =
                   IF p = h /\ table[h].intRefCount = 1 THEN "dying" ELSE table[p].state
              /\ p # h => DecRef(table, h)[p] = table[p]
<1>1. CASE h = NoHandle
    BY <1>1 DEF DecRef
<1>2. CASE h # NoHandle /\ table[h].intRefCount = 0
    BY <1>2 DEF DecRef
<1>3. CASE h # NoHandle /\ table[h].intRefCount # 0
  <2> DEFINE n == table[h].intRefCount - 1
             s == IF table[h].intRefCount = 1 THEN "dying" ELSE table[h].state
             e == [table[h] EXCEPT !.intRefCount = n, !.state = s]
  <2>1. DecRef(table, h) = [table EXCEPT ![h] = e]
      BY <1>3 DEF DecRef
  <2>2. h \in Handles /\ table[h] \in Entry /\ n \in Int /\ s \in {"normal", "dying", "signalled", "left"}
      BY <1>3
  <2>3. /\ e \in Entry /\ e.uniqueID = table[h].uniqueID /\ e.permitted = table[h].permitted
        /\ e.dependentObject = table[h].dependentObject
        /\ e.intRefCount = table[h].intRefCount - 1
        /\ e.state = IF table[h].intRefCount = 1 THEN "dying" ELSE table[h].state
    <3> HIDE DEF n, s
    <3>1. /\ e \in Entry /\ e.uniqueID = table[h].uniqueID /\ e.permitted = table[h].permitted
          /\ e.dependentObject = table[h].dependentObject /\ e.intRefCount = n /\ e.state = s
        BY <2>2, OtherCount
    <3> QED BY <3>1 DEF n, s
  <2> HIDE DEF e
  <2> QED BY <1>3, <2>1, <2>2, <2>3
<1> QED BY <1>1, <1>2, <1>3

\* Counts are not negative.
LEMMA Counts ==
  ASSUME DependentObjectsAssumption, DependentsInv
  PROVE  \A p \in Handles : objectTable[p].intRefCount \in Nat
<1> SUFFICES ASSUME NEW p \in Handles PROVE objectTable[p].intRefCount \in Nat
    OBVIOUS
<1>1. p # NoHandle
    BY DEF DependentObjectsAssumption
<1> QED BY <1>1 DEF DependentsInv, TypeOK, UniqueIDs, Ends, Free

\* While no object comes or goes and the threads stay where they are.
LEMMA QuietStep ==
  ASSUME DependentObjectsAssumption, DependentsInv, pending' = pending,
         \A p \in Handles : /\ objectTable'[p].uniqueID = objectTable[p].uniqueID
                            /\ objectTable'[p].permitted = objectTable[p].permitted
  PROVE  /\ \A p : Promised(p)' = Promised(p) /\ Clearing(p)' = Clearing(p)
         /\ \A p \in Handles : Forgotten(p)' = Forgotten(p)
         /\ AnswersCurrent'
<1>1. \A t \in Threads : ~Working(t, "idle") => pending[t].handle \in Handles /\ pending[t].dependent \in Handles
    BY TwoHandles DEF DependentsInv, Messages
<1>2. \A p : Promised(p)' = Promised(p) /\ Clearing(p)' = Clearing(p)
    BY DEF Clearing, Promised, Giving, Keeping, Attaching, Detaching
<1>3. \A p \in Handles : Forgotten(p)' = Forgotten(p)
    BY <1>1 DEF Forgotten, Detaching
<1>4. AnswersCurrent'
  <2> SUFFICES ASSUME NEW t \in Threads, NEW cert \in Certs,
                      Working(t, "asked"), About(t, pending[t].handle)',
                      cert \in {pending[t].handle, pending[t].dependent}
               PROVE  pending[t].actionFlags \subseteq objectTable'[cert].permitted
      BY DEF AnswersCurrent
  <2>1. About(t, pending[t].handle) /\ cert \in Handles
      BY <1>1 DEF About
  <2> QED BY <2>1 DEF DependentsInv, AnswersCurrent
<1> QED BY <1>2, <1>3, <1>4

\* What is attached is what was attached, and permissions are as they were.
LEMMA StillConstrained ==
  ASSUME DependentObjectsAssumption, DependentsInv, ~late,
         \A p \in Handles : isValidObject(p)' /\ objectTable'[p].dependentObject # NoHandle /\ ~Forgotten(p)' =>
           /\ isValidObject(p) /\ ~Forgotten(p)
           /\ objectTable'[p].dependentObject = objectTable[p].dependentObject
           /\ objectTable'[p].permitted = objectTable[p].permitted
           /\ LET e == objectTable[p].dependentObject IN objectTable'[e].permitted = objectTable[e].permitted
  PROVE  ConstrainedByCert'
<1> SUFFICES ASSUME NEW p \in Handles, isValidObject(p)', ~Forgotten(p)',
                    NEW e, e = objectTable'[p].dependentObject, e # NoHandle,
                    NEW x \in {p, e} \intersect Contexts, NEW c \in {p, e} \intersect Certs
             PROVE  objectTable'[x].permitted \subseteq objectTable'[c].permitted
    BY DEF ConstrainedByCert
<1>1. isValidObject(p) /\ ~Forgotten(p) /\ e = objectTable[p].dependentObject
    OBVIOUS
<1>2. objectTable[x].permitted \subseteq objectTable[c].permitted
    BY <1>1 DEF DependentsInv, ConstrainedByCert
<1> QED BY <1>2

------------------------------------------------------------------------------
(* The steps of one object *)

\* Create preserves the invariant: nothing is left of what the handle stood for before.
LEMMA CreateKeeps ==
  ASSUME DependentObjectsAssumption, DependentsInv, ~late, NEW h \in Handles,
         NEW usages \in SUBSET Usages, Create(h, usages)
  PROVE  DependentsInv'
<1>1. /\ uid \in Nat /\ uid' = uid + 1 /\ uid # 0 /\ h # NoHandle
      /\ pending' = pending /\ attached' = attached
      /\ outside'[h] = 1 /\ \A p \in Handles \ {h} : outside'[p] = outside[p]
      /\ objectTable[h] = Free /\ outside[h] = 0
      /\ objectTable'[h] = [uniqueID |-> uid, permitted |-> usages, intRefCount |-> 1,
                            dependentObject |-> NoHandle, state |-> "normal"]
      /\ \A p \in Handles \ {h} : objectTable'[p] = objectTable[p]
    BY DEF Create, DependentsInv, TypeOK, UniqueIDs, DependentObjectsAssumption
<1>2. \A t \in Threads : ~Attaching(t, h) /\ ~Detaching(t, h)
    BY <1>1, Unused
<1>20. \A t \in Threads : ~Working(t, "idle") => pending[t].handle \in Handles /\ pending[t].dependent \in Handles
    BY TwoHandles DEF DependentsInv, Messages
<1>3. \A p \in Handles : Clearing(p)' = Clearing(p) /\ (Forgotten(p) => Forgotten(p)')
    BY <1>1, <1>20 DEF Clearing, Detaching, Forgotten, DependentsInv, TypeOK, UniqueIDs
<1>4. \A t \in Threads, p \in Handles : About(t, p)' => About(t, p) /\ p # h
    BY <1>1, <1>2 DEF About, DependentsInv, TypeOK, UniqueIDs
<1>5. TypeOK'
  <2>1. objectTable' \in [Handles -> Entry]
      BY <1>1 DEF Create, DependentsInv, TypeOK
  <2>2. outside' \in [Handles -> Nat]
      BY <1>1 DEF Create, DependentsInv, TypeOK
  <2> QED BY <1>1, <2>1, <2>2 DEF DependentsInv, TypeOK
<1>6. UniqueIDs'
  <2>1. /\ \A p \in Handles : objectTable[p].uniqueID \in Nat /\ objectTable[p].uniqueID < uid
        /\ \A t \in Threads : pending[t].uniqueID \in Nat /\ pending[t].uniqueID < uid
      BY DEF DependentsInv, TypeOK, UniqueIDs
  <2>2. \A p \in Handles : objectTable'[p].uniqueID < uid'
      BY <1>1, <2>1
  <2>3. \A t \in Threads : pending'[t].uniqueID < uid'
      BY <1>1, <2>1
  <2>4. \A p \in Handles : ~isValidObject(p)' => objectTable'[p] = Free /\ outside'[p] = 0
      BY <1>1 DEF DependentsInv, UniqueIDs
  <2> QED BY <2>2, <2>3, <2>4 DEF UniqueIDs
<1>61. Ends'
    BY <1>1 DEF DependentsInv, Ends
<1>7. Messages'
    BY <1>1, <1>2, <1>20 DEF DependentsInv, Messages, Detaching
<1>8. Attachers'
    BY <1>1 DEF DependentsInv, Attachers, Free
<1>9. PromisesKept'
  <2>1. \A p \in Handles : Promised(p)' = Promised(p)
      BY <1>1 DEF Promised, Giving, Keeping, Attaching, Detaching
  <2>2. Promised(h) = 0
      BY <1>1, PromisesFinite DEF DependentsInv, PromisesKept
  <2> QED BY <1>1, <2>1, <2>2 DEF DependentsInv, TypeOK, PromisesKept
<1>10. DependentsExist'
    BY <1>1, <1>3, TwoHandles DEF DependentsInv, TypeOK, DependentsExist
<1>11. AnswersCurrent'
  <2> SUFFICES ASSUME NEW t \in Threads, NEW cert \in Certs,
                      Working(t, "asked"), About(t, pending[t].handle)',
                      cert \in {pending[t].handle, pending[t].dependent}
               PROVE  pending[t].actionFlags \subseteq objectTable'[cert].permitted
      BY <1>1 DEF AnswersCurrent
  <2>1. pending[t].handle \in Handles /\ pending[t].dependent \in Handles
      BY <1>20
  <2>2. About(t, pending[t].handle) /\ pending[t].handle # h
      BY <1>1, <1>4, <2>1 DEF About
  <2>3. pending[t].dependent # h
      BY <1>2 DEF Attaching
  <2> QED BY <1>1, <2>1, <2>2, <2>3 DEF DependentsInv, AnswersCurrent
<1>12. RefsBalanced'
  <2>0. \A p \in Handles : \A q : q \in DependOn(p)' <=> q \in DependOn(p)
      BY <1>1, <1>3 DEF DependOn, DependentObjectsAssumption, Free
  <2>1. DependOn(h)' = {}
      BY <2>0, <1>1, NothingDependsOnFree DEF Free
  <2>2. \A p \in Handles \ {h} : DependOn(p)' = DependOn(p)
      BY <2>0
  <2>3. Cardinality(DependOn(h)') = 0
      BY <2>1, FS_EmptySet
  <2>4. objectTable'[h].intRefCount = outside'[h] + Cardinality(DependOn(h)') /\ objectTable'[h].state # "left"
      BY <1>1, <2>3
  <2>5. \A p \in Handles \ {h} : isValidObject(p) =>
          objectTable'[p].intRefCount = outside'[p] +
            IF objectTable'[p].state = "left" THEN 0 ELSE Cardinality(DependOn(p)')
      BY <1>1, <2>2 DEF DependentsInv, RefsBalanced
  <2> QED BY <1>1, <2>4, <2>5 DEF RefsBalanced
<1>13. ConstrainedByCert'
  <2> SUFFICES ASSUME NEW p \in Handles, isValidObject(p)', objectTable'[p].dependentObject # NoHandle, ~Forgotten(p)'
               PROVE  /\ isValidObject(p) /\ ~Forgotten(p) /\ p # h
                      /\ LET e == objectTable[p].dependentObject IN e \in Handles /\ e # h
      BY <1>1, StillConstrained
  <2>1. p # h /\ isValidObject(p) /\ ~Forgotten(p)
      BY <1>1, <1>3
  <2> QED BY <1>1, <2>1, TwoHandles DEF DependentsInv, DependentsExist, Free
<1> QED BY <1>5, <1>6, <1>61, <1>7, <1>8, <1>9, <1>10, <1>11, <1>12, <1>13 DEF DependentsInv

\* DecRefCount preserves the invariant: the reference is not a promised one.
LEMMA DecRefCountKeeps ==
  ASSUME DependentObjectsAssumption, DependentsInv, ~late, NEW h \in Handles, DecRefCount(h)
  PROVE  DependentsInv'
<1>1. /\ pending' = pending /\ uid' = uid /\ h # NoHandle /\ attached' = attached
      /\ outside[h] \in Nat /\ outside[h] > Promised(h) /\ outside' = [outside EXCEPT ![h] = @ - 1]
      /\ objectTable' = DecRef(objectTable, h)
    BY DEF DecRefCount, DependentsInv, TypeOK, DependentObjectsAssumption
<1>2. outside[h] > 0 /\ isValidObject(h)
    BY <1>1, PromisesFinite DEF DependentsInv, UniqueIDs
<1>3. objectTable[h].state = "normal" /\ objectTable[h].intRefCount > 0 /\ objectTable[h].intRefCount \in Nat
    BY <1>2, Referenced, Counts
<1>4. /\ objectTable' \in [Handles -> Entry]
      /\ \A p \in Handles :
           /\ objectTable'[p].uniqueID = objectTable[p].uniqueID
           /\ objectTable'[p].permitted = objectTable[p].permitted
           /\ objectTable'[p].dependentObject = objectTable[p].dependentObject
           /\ p # h => objectTable'[p] = objectTable[p]
      /\ objectTable'[h].intRefCount = objectTable[h].intRefCount - 1
      /\ objectTable'[h].state = IF objectTable[h].intRefCount = 1 THEN "dying" ELSE "normal"
  <2>1. /\ objectTable \in [Handles -> Entry] /\ h \in Handles \union {NoHandle} /\ NoHandle \notin Handles
        /\ \A p \in Handles : objectTable[p].intRefCount >= 0
      BY Counts DEF DependentsInv, TypeOK, DependentObjectsAssumption
  <2>2. /\ DecRef(objectTable, h) \in [Handles -> Entry]
        /\ \A p \in Handles :
             /\ DecRef(objectTable, h)[p].uniqueID = objectTable[p].uniqueID
             /\ DecRef(objectTable, h)[p].permitted = objectTable[p].permitted
             /\ DecRef(objectTable, h)[p].dependentObject = objectTable[p].dependentObject
             /\ DecRef(objectTable, h)[p].intRefCount =
                  IF p = h /\ objectTable[h].intRefCount # 0 THEN objectTable[h].intRefCount - 1
                  ELSE objectTable[p].intRefCount
             /\ DecRef(objectTable, h)[p].state =
                  IF p = h /\ objectTable[h].intRefCount = 1 THEN "dying" ELSE objectTable[p].state
             /\ p # h => DecRef(objectTable, h)[p] = objectTable[p]
      BY <2>1, DecRefIs
  <2> QED BY <1>1, <1>3, <2>2
<1>5. /\ \A p : Promised(p)' = Promised(p) /\ Clearing(p)' = Clearing(p)
      /\ \A p \in Handles : Forgotten(p)' = Forgotten(p)
      /\ AnswersCurrent'
    BY <1>1, <1>4, QuietStep
<1>6. TypeOK'
  <2>1. outside \in [Handles -> Nat] /\ outside[h] - 1 \in Nat
      BY <1>1, <1>2 DEF DependentsInv, TypeOK
  <2>2. outside' \in [Handles -> Nat]
      BY <1>1, <2>1
  <2> QED BY <1>1, <1>4, <2>2 DEF DependentsInv, TypeOK
<1>7. UniqueIDs'
    BY <1>1, <1>2, <1>4 DEF DependentsInv, UniqueIDs
<1>8. Ends'
    BY <1>3, <1>4 DEF DependentsInv, Ends
<1>9. Messages'
  <2>1. \A t \in Threads : ~Working(t, "idle") => pending[t].handle \in Handles
      BY TwoHandles DEF DependentsInv, Messages
  <2> QED BY <1>1, <1>4, <2>1 DEF DependentsInv, TypeOK, Messages
<1>10. Attachers'
    BY <1>1, <1>4 DEF DependentsInv, Attachers
<1>11. PromisesKept'
    BY <1>1, <1>5, PromisesFinite DEF DependentsInv, TypeOK, PromisesKept
<1>12. DependentsExist'
    BY <1>4, <1>5, TwoHandles DEF DependentsInv, DependentsExist
<1>13. RefsBalanced'
  <2>1. \A p \in Handles : DependOn(p)' = DependOn(p)
      BY <1>4, <1>5 DEF DependOn
  <2>2. /\ outside'[h] = outside[h] - 1 /\ objectTable'[h].state # "left" /\ objectTable[h].state # "left"
        /\ \A p \in Handles \ {h} : outside'[p] = outside[p]
      BY <1>1, <1>3, <1>4 DEF DependentsInv, TypeOK
  <2>3. objectTable[h].intRefCount = outside[h] + Cardinality(DependOn(h))
      BY <1>2, <2>2 DEF DependentsInv, RefsBalanced
  <2>4. objectTable'[h].intRefCount = outside'[h] + Cardinality(DependOn(h)')
      BY <1>1, <1>3, <1>4, <2>1, <2>2, <2>3, DependFinite
  <2>5. \A p \in Handles \ {h} : isValidObject(p) =>
          objectTable'[p].intRefCount = outside'[p] +
            IF objectTable'[p].state = "left" THEN 0 ELSE Cardinality(DependOn(p)')
      BY <1>4, <2>1, <2>2 DEF DependentsInv, RefsBalanced
  <2> QED BY <1>4, <2>2, <2>4, <2>5 DEF RefsBalanced
<1>14. ConstrainedByCert'
  <2>1. \A p \in Handles : isValidObject(p) /\ objectTable[p].dependentObject # NoHandle =>
          objectTable[p].dependentObject \in Handles
      BY TwoHandles DEF DependentsInv, DependentsExist
  <2> QED BY <1>4, <1>5, <2>1, StillConstrained
<1> QED BY <1>5, <1>6, <1>7, <1>8, <1>9, <1>10, <1>11, <1>12, <1>13, <1>14 DEF DependentsInv

\* GiveUp preserves the invariant: nobody has a reference to the object.
LEMMA GiveUpKeeps ==
  ASSUME DependentObjectsAssumption, DependentsInv, ~late, NEW h \in Handles, GiveUp(h)
  PROVE  DependentsInv'
<1>1. isValidObject(h) /\ objectTable[h].intRefCount = 0 /\ outside[h] = 0
    BY Ending DEF GiveUp
<1>2. /\ pending' = pending /\ uid' = uid /\ outside' = outside /\ attached' = attached
      /\ objectTable' \in [Handles -> Entry]
      /\ objectTable'[h].state = "left"
      /\ \A p \in Handles :
           /\ objectTable'[p].uniqueID = objectTable[p].uniqueID
           /\ objectTable'[p].permitted = objectTable[p].permitted
           /\ objectTable'[p].dependentObject = objectTable[p].dependentObject
           /\ objectTable'[p].intRefCount = objectTable[p].intRefCount
           /\ p # h => objectTable'[p] = objectTable[p]
    BY DEF GiveUp, DependentsInv, TypeOK
<1>3. /\ \A p : Promised(p)' = Promised(p) /\ Clearing(p)' = Clearing(p)
      /\ \A p \in Handles : Forgotten(p)' = Forgotten(p)
      /\ AnswersCurrent'
    BY <1>2, QuietStep
<1>4. TypeOK' /\ PromisesKept'
    BY <1>2, <1>3 DEF DependentsInv, TypeOK, PromisesKept
<1>5. UniqueIDs' /\ Ends' /\ Attachers'
    BY <1>1, <1>2 DEF DependentsInv, UniqueIDs, Ends, Attachers
<1>6. Messages'
  <2>1. \A t \in Threads : ~Working(t, "idle") => pending[t].handle \in Handles
      BY TwoHandles DEF DependentsInv, Messages
  <2> QED BY <1>2, <2>1 DEF DependentsInv, Messages
<1>7. DependentsExist'
    BY <1>2, <1>3, TwoHandles DEF DependentsInv, DependentsExist
<1>8. RefsBalanced'
  <2>1. \A p \in Handles : DependOn(p)' = DependOn(p)
      BY <1>2, <1>3 DEF DependOn
  <2>2. \A p \in Handles \ {h} : isValidObject(p) =>
          objectTable'[p].intRefCount = outside'[p] +
            IF objectTable'[p].state = "left" THEN 0 ELSE Cardinality(DependOn(p)')
      BY <1>2, <2>1 DEF DependentsInv, RefsBalanced
  <2>3. objectTable'[h].intRefCount = outside'[h] +
          IF objectTable'[h].state = "left" THEN 0 ELSE Cardinality(DependOn(h)')
      BY <1>1, <1>2
  <2> QED BY <1>2, <2>2, <2>3 DEF RefsBalanced
<1>9. ConstrainedByCert'
  <2>1. \A p \in Handles : isValidObject(p) /\ objectTable[p].dependentObject # NoHandle =>
          objectTable[p].dependentObject \in Handles
      BY TwoHandles DEF DependentsInv, DependentsExist
  <2> QED BY <1>2, <1>3, <2>1, StillConstrained
<1> QED BY <1>3, <1>4, <1>5, <1>6, <1>7, <1>8, <1>9 DEF DependentsInv

\* SignalObject preserves the invariant: nobody works with the object, and what it depends on exists and has its
\* reference, or was left without one.
LEMMA SignalObjectKeeps ==
  ASSUME DependentObjectsAssumption, DependentsInv, ~late, NEW h \in Handles, SignalObject(h),
         NEW d, d = objectTable[h].dependentObject
  PROVE  DependentsInv'
<1>1. /\ isValidObject(h) /\ objectTable[h].intRefCount = 0 /\ outside[h] = 0
      /\ DependOn(h) = {} /\ ~Clearing(h) /\ ~Forgotten(h)
      /\ \A t \in Threads : ~Attaching(t, h) /\ ~Detaching(t, h)
    BY Ending DEF SignalObject
<1>2. /\ d # NoHandle => d \in Handles /\ d # h /\ isValidObject(d) /\ Attachable(h, d)
      /\ d \in Handles \union {NoHandle} /\ d # h
    BY <1>1, TwoHandles DEF DependentsInv, TypeOK, DependentsExist
<1>3. d # NoHandle => \/ objectTable[d].state = "left" /\ objectTable[d].intRefCount = 0
                      \/ objectTable[d].state = "normal" /\ objectTable[d].intRefCount > 0 /\ h \in DependOn(d)
  <2> SUFFICES ASSUME d # NoHandle, objectTable[d].state # "left"
               PROVE  objectTable[d].state = "normal" /\ objectTable[d].intRefCount > 0 /\ h \in DependOn(d)
      BY <1>2, Ending
  <2>1. h \in DependOn(d)
      BY <1>1, <1>2 DEF DependOn
  <2> QED BY <2>1, <1>2, Referenced
<1>4. /\ DecRef(objectTable, d) \in [Handles -> Entry]
      /\ \A p \in Handles :
           /\ DecRef(objectTable, d)[p].uniqueID = objectTable[p].uniqueID
           /\ DecRef(objectTable, d)[p].permitted = objectTable[p].permitted
           /\ DecRef(objectTable, d)[p].dependentObject = objectTable[p].dependentObject
           /\ DecRef(objectTable, d)[p].intRefCount =
                IF p = d /\ objectTable[d].intRefCount # 0 THEN objectTable[d].intRefCount - 1
                ELSE objectTable[p].intRefCount
           /\ DecRef(objectTable, d)[p].state =
                IF p = d /\ objectTable[d].intRefCount = 1 THEN "dying" ELSE objectTable[p].state
           /\ p # d => DecRef(objectTable, d)[p] = objectTable[p]
    BY <1>2, DecRefIs, Counts DEF DependentsInv, TypeOK, DependentObjectsAssumption
<1>5. /\ pending' = pending /\ uid' = uid /\ outside' = outside
      /\ attached' = [t \in Threads |-> attached[t] \ {h}]
      /\ objectTable' = [DecRef(objectTable, d) EXCEPT ![h].dependentObject = NoHandle, ![h].state = "signalled"]
    BY DEF SignalObject
<1>6. /\ objectTable' \in [Handles -> Entry]
      /\ objectTable'[h].dependentObject = NoHandle /\ objectTable'[h].state = "signalled"
      /\ objectTable'[h].intRefCount = 0
      /\ \A p \in Handles :
           /\ objectTable'[p].uniqueID = objectTable[p].uniqueID
           /\ objectTable'[p].permitted = objectTable[p].permitted
           /\ p # h => /\ objectTable'[p].dependentObject = objectTable[p].dependentObject
                       /\ objectTable'[p].intRefCount =
                            IF p = d /\ objectTable[d].intRefCount # 0 THEN objectTable[d].intRefCount - 1
                            ELSE objectTable[p].intRefCount
                       /\ objectTable'[p].state =
                            IF p = d /\ objectTable[d].intRefCount = 1 THEN "dying" ELSE objectTable[p].state
           /\ p \notin {h, d} => objectTable'[p] = objectTable[p]
  <2> DEFINE table == DecRef(objectTable, d)
  <2>1. /\ table \in [Handles -> Entry] /\ table[h].intRefCount = 0
        /\ objectTable' = [table EXCEPT ![h].dependentObject = NoHandle, ![h].state = "signalled"]
      BY <1>1, <1>2, <1>4, <1>5
  <2> HIDE DEF table
  <2>2. /\ objectTable' \in [Handles -> Entry]
        /\ objectTable'[h].dependentObject = NoHandle /\ objectTable'[h].state = "signalled"
        /\ objectTable'[h].intRefCount = 0
        /\ objectTable'[h].uniqueID = table[h].uniqueID /\ objectTable'[h].permitted = table[h].permitted
        /\ \A p \in Handles \ {h} : objectTable'[p] = table[p]
      BY <2>1
  <2> QED BY <1>4, <2>2 DEF table
<1>7. /\ \A p : Promised(p)' = Promised(p) /\ Clearing(p)' = Clearing(p)
      /\ \A p \in Handles : Forgotten(p)' = Forgotten(p)
      /\ AnswersCurrent'
    BY <1>5, <1>6, QuietStep
<1>8. TypeOK' /\ PromisesKept'
  <2>1. attached' \in [Threads -> SUBSET Handles]
      BY <1>5 DEF DependentsInv, TypeOK
  <2> QED BY <1>5, <1>6, <1>7, <2>1 DEF DependentsInv, TypeOK, PromisesKept
<1>9. UniqueIDs'
  <2>1. \A p \in Handles : ~isValidObject(p)' => p \notin {h, d} /\ ~isValidObject(p)
      BY <1>1, <1>2, <1>6 DEF DependentObjectsAssumption
  <2>2. \A p \in Handles : ~isValidObject(p)' => objectTable'[p] = Free /\ outside'[p] = 0
      BY <1>5, <1>6, <2>1 DEF DependentsInv, UniqueIDs
  <2>3. \A p \in Handles : objectTable'[p].uniqueID < uid
      BY <1>6 DEF DependentsInv, UniqueIDs
  <2> QED BY <1>5, <2>2, <2>3 DEF DependentsInv, UniqueIDs
<1>10. Ends'
  <2> SUFFICES ASSUME NEW p \in Handles
               PROVE  /\ isValidObject(p)' /\ objectTable'[p].state = "normal" => objectTable'[p].intRefCount > 0
                      /\ objectTable'[p].state # "normal" => objectTable'[p].intRefCount = 0
                      /\ objectTable'[p].state = "signalled" => objectTable'[p].dependentObject = NoHandle
      BY DEF Ends
  <2>1. CASE p = h
      BY <2>1, <1>6
  <2>2. CASE p = d
    <3>1. d # NoHandle /\ p # h /\ objectTable[d].intRefCount \in Nat
        BY <2>2, <1>2, Counts DEF DependentObjectsAssumption
    <3>2. \/ objectTable[d].state = "left" /\ objectTable[d].intRefCount = 0
          \/ objectTable[d].state = "normal" /\ objectTable[d].intRefCount > 0
        BY <3>1, <1>3
    <3> QED BY <2>2, <3>1, <3>2, <1>6
  <2>3. CASE p \notin {h, d}
      BY <2>3, <1>6 DEF DependentsInv, Ends
  <2> QED BY <2>1, <2>2, <2>3
<1>11. Messages'
  <2>1. \A t \in Threads : ~Working(t, "idle") => pending[t].handle \in Handles
      BY TwoHandles DEF DependentsInv, Messages
  <2>2. \A t \in Threads : Working(t, "clear") => pending[t].handle # h
      BY <1>1 DEF Detaching
  <2> QED BY <1>5, <1>6, <2>1, <2>2 DEF DependentsInv, TypeOK, Messages
<1>12. Attachers'
    BY <1>5, <1>6 DEF DependentsInv, Attachers
<1>13. DependentsExist'
  <2> SUFFICES ASSUME NEW p \in Handles, isValidObject(p)',
                      NEW e, e = objectTable'[p].dependentObject, e # NoHandle
               PROVE  Attachable(p, e) /\ (~Forgotten(p)' => isValidObject(e)')
      BY DEF DependentsExist
  <2>1. p # h /\ isValidObject(p) /\ e = objectTable[p].dependentObject
      BY <1>6
  <2>2. e \in Handles /\ Attachable(p, e) /\ (~Forgotten(p) => isValidObject(e))
      BY <2>1, TwoHandles DEF DependentsInv, DependentsExist
  <2> QED BY <1>6, <1>7, <2>2
<1>14. RefsBalanced'
  <2> SUFFICES ASSUME NEW p \in Handles, isValidObject(p)'
               PROVE  objectTable'[p].intRefCount = outside[p] +
                        IF objectTable'[p].state = "left" THEN 0 ELSE Cardinality(DependOn(p)')
      BY <1>5 DEF RefsBalanced
  <2>1. isValidObject(p) /\ objectTable[p].intRefCount = outside[p] +
          IF objectTable[p].state = "left" THEN 0 ELSE Cardinality(DependOn(p))
      BY <1>6 DEF DependentsInv, RefsBalanced
  <2>2. \A q : q \in DependOn(p)' <=> q \in DependOn(p) \ {h}
      BY <1>6, <1>7 DEF DependOn
  <2>3. DependOn(p)' = DependOn(p) \ {h}
      BY <2>2
  <2>4. CASE p = h
    <3>1. DependOn(p)' = {}
        BY <1>1, <2>3, <2>4
    <3>2. Cardinality(DependOn(p)') = 0
        BY <3>1, FS_EmptySet
    <3> QED BY <3>2, <2>4, <1>1, <1>6
  <2>5. CASE p = d /\ objectTable[d].state = "left"
      BY <2>5, <2>1, <1>2, <1>3, <1>6, Counts
  <2>6. CASE p = d /\ objectTable[d].state # "left"
    <3>1. objectTable[d].state = "normal" /\ objectTable[d].intRefCount > 0 /\ h \in DependOn(d)
        BY <2>6, <1>3 DEF DependentObjectsAssumption
    <3>2. Cardinality(DependOn(p)') = Cardinality(DependOn(p)) - 1
        BY <3>1, <2>3, <2>6, DependFinite, FS_RemoveElement
    <3>3. objectTable'[p].state # "left" /\ objectTable'[p].intRefCount = objectTable[p].intRefCount - 1
        BY <3>1, <2>6, <1>2, <1>6
    <3>4. outside[p] \in Nat /\ objectTable[p].intRefCount = outside[p] + Cardinality(DependOn(p))
        BY <2>1, <2>6 DEF DependentsInv, TypeOK
    <3> QED BY <3>2, <3>3, <3>4, DependFinite
  <2>7. CASE p \notin {h, d}
    <3>1. h \notin DependOn(p)
        BY <2>7 DEF DependOn
    <3>2. DependOn(p)' = DependOn(p)
        BY <2>3, <3>1
    <3> QED BY <3>2, <2>1, <2>7, <1>6
  <2> QED BY <2>4, <2>5, <2>6, <2>7
<1>15. ConstrainedByCert'
  <2>1. \A p \in Handles : isValidObject(p) /\ objectTable[p].dependentObject # NoHandle =>
          objectTable[p].dependentObject \in Handles
      BY TwoHandles DEF DependentsInv, DependentsExist
  <2>2. ASSUME NEW p \in Handles, isValidObject(p)', objectTable'[p].dependentObject # NoHandle, ~Forgotten(p)'
        PROVE  /\ isValidObject(p) /\ ~Forgotten(p)
               /\ objectTable'[p].dependentObject = objectTable[p].dependentObject
               /\ objectTable'[p].permitted = objectTable[p].permitted
               /\ LET e == objectTable[p].dependentObject IN objectTable'[e].permitted = objectTable[e].permitted
      BY <2>1, <2>2, <1>6, <1>7
  <2> QED BY <2>2, StillConstrained
<1> QED BY <1>7, <1>8, <1>9, <1>10, <1>11, <1>12, <1>13, <1>14, <1>15 DEF DependentsInv

\* RemoveObject preserves the invariant: nobody works with the object or depends on it.
LEMMA RemoveObjectKeeps ==
  ASSUME DependentObjectsAssumption, DependentsInv, ~late, NEW h \in Handles, RemoveObject(h)
  PROVE  DependentsInv'
<1>1. /\ isValidObject(h) /\ outside[h] = 0 /\ DependOn(h) = {} /\ ~Clearing(h)
      /\ \A t \in Threads : ~Attaching(t, h) /\ ~Detaching(t, h)
      /\ objectTable[h].dependentObject = NoHandle
    BY Ending DEF RemoveObject, DependentsInv, Ends
<1>2. /\ pending' = pending /\ uid' = uid /\ outside' = outside /\ attached' = attached
      /\ objectTable' \in [Handles -> Entry]
      /\ objectTable'[h] = Free /\ \A p \in Handles \ {h} : objectTable'[p] = objectTable[p]
    BY DEF RemoveObject, DependentsInv, TypeOK, Free
<1>3. \A t \in Threads : ~Working(t, "idle") =>
        pending[t].handle \in Handles /\ pending[t].dependent \in Handles /\ pending[t].uniqueID # 0
    BY TwoHandles DEF DependentsInv, Messages
<1>4. \A p \in Handles : /\ Promised(p)' = Promised(p) /\ Clearing(p)' = Clearing(p)
                         /\ Forgotten(p) => Forgotten(p)'
  <2>1. \A p \in Handles : Promised(p)' = Promised(p) /\ Clearing(p)' = Clearing(p)
      BY <1>2 DEF Promised, Giving, Keeping, Attaching, Detaching, Clearing
  <2>2. \A t \in Threads : Working(t, "clear") /\ objectTable[pending[t].dependent].uniqueID # pending[t].uniqueID =>
          objectTable'[pending[t].dependent].uniqueID # pending[t].uniqueID
      BY <1>2, <1>3 DEF Free
  <2>3. \A p \in Handles : Forgotten(p) => Forgotten(p)'
      BY <1>2, <2>2 DEF Forgotten, Detaching
  <2> QED BY <2>1, <2>3
<1>5. \A t \in Threads : ~Working(t, "idle") /\ About(t, pending[t].handle)' =>
        About(t, pending[t].handle) /\ pending[t].handle # h
    BY <1>2, <1>3 DEF About, Free
<1>6. TypeOK' /\ PromisesKept'
    BY <1>2, <1>4 DEF DependentsInv, TypeOK, PromisesKept
<1>7. UniqueIDs' /\ Ends'
    BY <1>1, <1>2 DEF DependentsInv, TypeOK, UniqueIDs, Ends, Free
<1>8. Messages'
  <2>1. \A t \in Threads : Working(t, "clear") => pending[t].handle # h
      BY <1>1 DEF Detaching
  <2> QED BY <1>2, <1>3, <2>1 DEF DependentsInv, Messages
<1>9. Attachers'
    BY <1>1, <1>2 DEF DependentsInv, Attachers
<1>10. DependentsExist'
  <2> SUFFICES ASSUME NEW p \in Handles, isValidObject(p)',
                      NEW e, e = objectTable'[p].dependentObject, e # NoHandle
               PROVE  Attachable(p, e) /\ (~Forgotten(p)' => isValidObject(e)')
      BY DEF DependentsExist
  <2>1. p # h /\ isValidObject(p) /\ e = objectTable[p].dependentObject
      BY <1>2 DEF Free
  <2>2. e \in Handles /\ Attachable(p, e) /\ (~Forgotten(p) => isValidObject(e))
      BY <2>1, TwoHandles DEF DependentsInv, DependentsExist
  <2>3. e = h => Forgotten(p)'
    <3> SUFFICES ASSUME e = h PROVE Forgotten(p)'
        OBVIOUS
    <3>1. Clearing(p)
        BY <1>1, <2>1 DEF DependOn
    <3>2. PICK t \in Threads : Detaching(t, p)
        BY <3>1 DEF Clearing
    <3>3. pending[t].dependent = h /\ pending[t].uniqueID # 0
        BY <3>2, <2>1 DEF DependentsInv, Messages, Detaching
    <3> QED BY <3>2, <3>3, <1>2 DEF Forgotten, Detaching, Free
  <2> QED BY <1>2, <1>4, <2>1, <2>2, <2>3
<1>11. AnswersCurrent'
  <2> SUFFICES ASSUME NEW t \in Threads, NEW cert \in Certs,
                      Working(t, "asked"), About(t, pending[t].handle)',
                      cert \in {pending[t].handle, pending[t].dependent}
               PROVE  pending[t].actionFlags \subseteq objectTable'[cert].permitted
      BY <1>2 DEF AnswersCurrent
  <2>1. About(t, pending[t].handle) /\ pending[t].handle # h
      BY <1>5
  <2>2. pending[t].dependent # h
      BY <1>1 DEF Attaching
  <2> QED BY <1>2, <1>3, <2>1, <2>2 DEF DependentsInv, AnswersCurrent
<1>12. RefsBalanced'
  <2>1. ASSUME NEW p \in Handles PROVE DependOn(p)' = DependOn(p)
    <3>1. \A q : q \in DependOn(p)' <=> q \in DependOn(p)
        BY <1>1, <1>2, <1>4 DEF DependOn, Free, DependentObjectsAssumption
    <3> QED BY <3>1
  <2> QED BY <1>2, <2>1 DEF DependentsInv, RefsBalanced, Free
<1>13. ConstrainedByCert'
  <2> SUFFICES ASSUME NEW p \in Handles, isValidObject(p)', objectTable'[p].dependentObject # NoHandle, ~Forgotten(p)'
               PROVE  /\ isValidObject(p) /\ ~Forgotten(p) /\ p # h
                      /\ LET e == objectTable[p].dependentObject IN e \in Handles /\ e # h
      BY <1>2, StillConstrained
  <2>1. p # h /\ isValidObject(p) /\ ~Forgotten(p)
      BY <1>2, <1>4 DEF Free
  <2>2. objectTable'[p].dependentObject # h
      BY <1>2, <1>10 DEF DependentsExist, Free
  <2> QED BY <1>2, <2>1, <2>2, TwoHandles DEF DependentsInv, DependentsExist
<1> QED BY <1>6, <1>7, <1>8, <1>9, <1>10, <1>11, <1>12, <1>13 DEF DependentsInv

------------------------------------------------------------------------------
(* The steps of a thread *)

\* SetDependentObject preserves the invariant: its caller holds what it attaches.
LEMMA SetDependentObjectKeeps ==
  ASSUME DependentObjectsAssumption, DependentsInv, ~late,
         NEW t \in Threads, NEW h \in Handles, NEW d \in Handles,
         NEW inc \in BOOLEAN, SetDependentObject(t, h, d, inc)
  PROVE  DependentsInv'
<1>1. /\ objectTable' = objectTable /\ outside' = outside /\ uid' = uid /\ attached' = attached
      /\ \A v \in Threads \ {t} : pending'[v] = pending[v]
      /\ pending'[t] = [at |-> "set", handle |-> h, dependent |-> d, uniqueID |-> objectTable[h].uniqueID,
                        actionFlags |-> {}, inc |-> inc]
      /\ pending[t].at = "idle" /\ pending[t].handle = NoHandle
    BY DEF SetDependentObject, Idle, DependentsInv, TypeOK, Messages
<1>2. Attachable(h, d) /\ isValidObject(h)
    BY DEF SetDependentObject, Handles, DependentObjectsAssumption
<1>3. \A v \in Threads : \A p : Detaching(v, p)' <=> Detaching(v, p)
    BY <1>1 DEF Detaching
<1>4. \A p : Clearing(p)' = Clearing(p) /\ Forgotten(p)' = Forgotten(p)
  <2>1. \A p : Clearing(p)' = Clearing(p)
      BY <1>3 DEF Clearing
  <2>2. \A v \in Threads : \A p : Detaching(v, p) => pending'[v] = pending[v]
      BY <1>1 DEF Detaching
  <2>3. \A p : Forgotten(p)' = Forgotten(p)
      BY <1>1, <1>3, <2>2 DEF Forgotten
  <2> QED BY <2>1, <2>3
<1>6. TypeOK'
    BY <1>1 DEF SetDependentObject, Idle, DependentsInv, TypeOK
<1>7. UniqueIDs' /\ Ends' /\ Attachers'
    BY <1>1 DEF DependentsInv, UniqueIDs, Ends, Attachers
<1>8. Messages'
    BY <1>1, <1>2 DEF DependentsInv, Messages
<1>10. PromisesKept'
  <2>1. Promised(d)' <= outside'[d]
      BY <1>1 DEF SetDependentObject
  <2>2. ASSUME NEW p \in Handles \ {d} PROVE Giving(p)' \subseteq Giving(p) /\ Keeping(p)' \subseteq Keeping(p)
      BY <1>1 DEF Giving, Keeping, Attaching, Detaching
  <2>3. \A p \in Handles \ {d} : Promised(p)' <= Promised(p) /\ Promised(p) \in Nat /\ Promised(p)' \in Int
    <3> SUFFICES ASSUME NEW p \in Handles \ {d}
                 PROVE  Promised(p)' <= Promised(p) /\ Promised(p) \in Nat /\ Promised(p)' \in Int
        OBVIOUS
    <3>1. IsFiniteSet(Giving(p)') /\ Cardinality(Giving(p)') \in Nat
        BY <2>2, PromisesFinite, FS_Subset, FS_CardinalityType
    <3> QED BY <3>1, <2>2, FewerPromises, PromisesFinite DEF Promised
  <2> QED BY <1>1, <2>1, <2>3 DEF DependentsInv, TypeOK, PromisesKept
<1>11. DependentsExist'
    BY <1>1, <1>4 DEF DependentsInv, DependentsExist
<1>12. AnswersCurrent'
    BY <1>1 DEF DependentsInv, AnswersCurrent, About
<1>13. RefsBalanced'
  <2>1. \A p \in Handles : DependOn(p)' = DependOn(p)
      BY <1>1, <1>4 DEF DependOn
  <2> QED BY <1>1, <2>1 DEF DependentsInv, RefsBalanced
<1>14. ConstrainedByCert'
    BY <1>1, <1>4 DEF DependentsInv, ConstrainedByCert
<1> QED BY <1>6, <1>7, <1>8, <1>10, <1>11, <1>12, <1>13, <1>14 DEF DependentsInv

\* CheckCapability preserves the invariant: the answer is the certificate's.
LEMMA CheckCapabilityKeeps ==
  ASSUME DependentObjectsAssumption, DependentsInv, ~late, NEW t \in Threads, CheckCapability(t)
  PROVE  DependentsInv'
<1> DEFINE f == pending[t]
           cert == CHOOSE c \in {f.handle, f.dependent} : c \in Certs
           allows == IF objectTable[cert].state = "signalled" THEN {} ELSE objectTable[cert].permitted
<1>1. /\ objectTable' = objectTable /\ outside' = outside /\ uid' = uid /\ attached' = attached
      /\ \A v \in Threads \ {t} : pending'[v] = pending[v]
      /\ f.at = "set"
    BY DEF CheckCapability, DependentsInv, TypeOK
<1>2. Attachable(f.handle, f.dependent) /\ f.handle \in Handles /\ f.dependent \in Handles
    BY <1>1, TwoHandles DEF DependentsInv, Messages
<1>3. cert \in Handles /\ \A c \in Certs : c \in {f.handle, f.dependent} => c = cert
    BY <1>2 DEF DependentObjectsAssumption
<1>4. /\ f \in Message
      /\ allows \in SUBSET Usages /\ allows \subseteq objectTable[cert].permitted
    BY <1>3 DEF DependentsInv, TypeOK
<1>31. pending' = [pending EXCEPT ![t].at = "asked", ![t].actionFlags = allows]
    BY DEF CheckCapability
<1> HIDE DEF allows, cert
<1>32. pending'[t] = [f EXCEPT !.at = "asked", !.actionFlags = allows]
    BY <1>31 DEF DependentsInv, TypeOK
<1>5. /\ pending'[t].at = "asked" /\ pending'[t].handle = f.handle /\ pending'[t].dependent = f.dependent
      /\ pending'[t].uniqueID = f.uniqueID /\ pending'[t].inc = f.inc
      /\ pending'[t].actionFlags = allows
    BY <1>32, <1>4
<1>6. \A p : Clearing(p)' = Clearing(p) /\ Forgotten(p)' = Forgotten(p)
  <2>1. \A v \in Threads : \A p : (Detaching(v, p)' <=> Detaching(v, p)) /\ (Detaching(v, p) => pending'[v] = pending[v])
      BY <1>1, <1>5 DEF Detaching
  <2> QED BY <1>1, <2>1 DEF Clearing, Forgotten
<1>8. TypeOK'
  <2>1. pending'[t] \in Message
      BY <1>32, <1>4
  <2>2. pending' \in [Threads -> Message]
      BY <1>1, <1>31, <2>1 DEF DependentsInv, TypeOK
  <2> QED BY <1>1, <2>2 DEF DependentsInv, TypeOK
<1>9. UniqueIDs' /\ Ends' /\ Attachers'
    BY <1>1, <1>5 DEF DependentsInv, UniqueIDs, Ends, Attachers
<1>10. Messages'
  <2> SUFFICES ASSUME NEW v \in Threads, NEW g, g = pending'[v]
               PROVE  /\ g.at # "idle" => Attachable(g.handle, g.dependent) /\ g.uniqueID # 0
                      /\ g.at = "idle" => g.handle = NoHandle
                      /\ g.at = "clear" => objectTable[g.handle].dependentObject = g.dependent
                                           /\ g.handle \in attached[v]
      BY <1>1 DEF Messages
  <2>1. CASE v = t
      BY <2>1, <1>1, <1>2, <1>5 DEF DependentsInv, Messages
  <2>2. CASE v # t
      BY <2>2, <1>1 DEF DependentsInv, Messages
  <2> QED BY <2>1, <2>2
<1>12. PromisesKept'
  <2>1. \A p \in Handles : Promised(p)' = Promised(p)
    <3> SUFFICES ASSUME NEW p \in Handles PROVE Giving(p)' = Giving(p) /\ Keeping(p)' = Keeping(p)
        BY DEF Promised
    <3>1. \A v \in Threads : /\ Attaching(v, p)' = Attaching(v, p) /\ Detaching(v, p)' = Detaching(v, p)
                             /\ pending'[v].inc = pending[v].inc
        BY <1>1, <1>5 DEF Attaching, Detaching
    <3> QED BY <3>1 DEF Giving, Keeping
  <2> QED BY <1>1, <2>1 DEF DependentsInv, PromisesKept
<1>13. DependentsExist'
    BY <1>1, <1>6 DEF DependentsInv, DependentsExist
<1>14. AnswersCurrent'
  <2> SUFFICES ASSUME NEW v \in Threads, NEW c \in Certs, NEW g, g = pending'[v],
                      g.at = "asked", g.uniqueID = objectTable[g.handle].uniqueID, c \in {g.handle, g.dependent}
               PROVE  g.actionFlags \subseteq objectTable[c].permitted
      BY <1>1 DEF AnswersCurrent, About
  <2>1. CASE v = t
      BY <2>1, <1>3, <1>4, <1>5
  <2>2. CASE v # t
      BY <2>2, <1>1 DEF DependentsInv, AnswersCurrent, About
  <2> QED BY <2>1, <2>2
<1>15. RefsBalanced'
  <2>1. \A p \in Handles : DependOn(p)' = DependOn(p)
      BY <1>1, <1>6 DEF DependOn
  <2> QED BY <1>1, <2>1 DEF DependentsInv, RefsBalanced
<1>16. ConstrainedByCert'
    BY <1>1, <1>6 DEF DependentsInv, ConstrainedByCert
<1> QED BY <1>8, <1>9, <1>10, <1>12, <1>13, <1>14, <1>15, <1>16 DEF DependentsInv

\* A caller that is through has nothing promised any more.
LEMMA ThroughKeepsRest ==
  ASSUME DependentObjectsAssumption, DependentsInv, NEW t \in Threads, pending' = [pending EXCEPT ![t] = Idle]
  PROVE  /\ \A v \in Threads \ {t} : pending'[v] = pending[v]
         /\ pending'[t] = Idle /\ pending' \in [Threads -> Message]
         /\ \A p \in Handles : /\ Giving(p)' = Giving(p) \ {t} /\ Keeping(p)' \subseteq Keeping(p)
                               /\ Promised(p)' \in Nat /\ Promised(p)' <= Promised(p)
<1>1. /\ \A v \in Threads \ {t} : pending'[v] = pending[v]
      /\ pending'[t] = Idle
    BY DEF DependentsInv, TypeOK
<1>2. pending' \in [Threads -> Message]
    BY DEF DependentsInv, TypeOK, Idle
<1>3. ASSUME NEW p \in Handles
      PROVE  Giving(p)' = Giving(p) \ {t} /\ Keeping(p)' \subseteq Keeping(p)
  <2>1. \A v \in Threads \ {t} : /\ Attaching(v, p)' = Attaching(v, p) /\ Detaching(v, p)' = Detaching(v, p)
                                 /\ pending'[v].inc = pending[v].inc
      BY <1>1 DEF Attaching, Detaching
  <2>2. ~Attaching(t, p)' /\ ~Detaching(t, p)'
      BY <1>1 DEF Attaching, Detaching, Idle
  <2>3. \A v : v \in Giving(p)' <=> v \in Giving(p) \ {t}
      BY <2>1, <2>2 DEF Giving
  <2>4. \A v : v \in Keeping(p)' => v \in Keeping(p)
      BY <2>1, <2>2 DEF Keeping
  <2> QED BY <2>3, <2>4
<1>4. ASSUME NEW p \in Handles
      PROVE  Promised(p)' \in Nat /\ Promised(p)' <= Promised(p)
  <2>1. IsFiniteSet(Giving(p)') /\ Cardinality(Giving(p)') \in Nat
      BY <1>3, PromisesFinite, FS_Subset, FS_CardinalityType
  <2>2. Promised(p)' \in Nat
      BY <2>1 DEF Promised
  <2> QED BY <2>2, <1>3, FewerPromises
<1> QED BY <1>1, <1>2, <1>3, <1>4

\* FinishDependent preserves the invariant if the object is the one that was checked and its slot is free.
LEMMA AttachKeeps ==
  ASSUME DependentObjectsAssumption, DependentsInv, ~late, ~late', NEW t \in Threads, FinishDependent(t), SameObject(pending[t]),
         NEW f, f = pending[t], NEW h, h = f.handle, NEW d, d = f.dependent
  PROVE  DependentsInv'
<1> DEFINE context == IF h \in Contexts THEN h ELSE d
<1>1. /\ uid' = uid /\ f.at = "asked" /\ f \in Message /\ pending' = [pending EXCEPT ![t] = Idle]
      /\ outside' = IF f.inc THEN outside ELSE [outside EXCEPT ![d] = @ - 1]
      /\ f.uniqueID = objectTable[h].uniqueID
    BY DEF FinishDependent, SameObject, DependentsInv, TypeOK
<1>2. /\ h \in Handles /\ d \in Handles /\ h # d /\ h # NoHandle /\ d # NoHandle /\ Attachable(h, d)
      /\ isValidObject(h)
    BY <1>1, TwoHandles DEF DependentsInv, Messages
<1>3. isValidObject(d) /\ outside[d] >= 1
    BY <1>1, <1>2, PromisedExists DEF Attaching
<1>4. /\ objectTable[h].dependentObject = NoHandle /\ objectTable[h].state # "signalled"
      /\ attached' = [attached EXCEPT ![t] = @ \union {h}]
    BY DEF FinishDependent
<1>5. objectTable[d].state = "normal" /\ objectTable[d].intRefCount > 0
    BY <1>2, <1>3, Referenced DEF DependentsInv, TypeOK
<1>6. ~Clearing(h)
  <2> SUFFICES ASSUME NEW v \in Threads, pending[v].handle = h, pending[v].at = "clear"
               PROVE  FALSE
      BY DEF Clearing, Detaching
  <2>1. objectTable[h].dependentObject = pending[v].dependent /\ Attachable(h, pending[v].dependent)
      BY DEF DependentsInv, Messages
  <2>2. pending[v].dependent # NoHandle
      BY <2>1, TwoHandles
  <2> QED BY <2>1, <2>2, <1>4
<1>7. /\ \A v \in Threads \ {t} : pending'[v] = pending[v]
      /\ pending'[t] = Idle /\ pending' \in [Threads -> Message]
      /\ \A p \in Handles : /\ Giving(p)' = Giving(p) \ {t} /\ Keeping(p)' \subseteq Keeping(p)
                            /\ Promised(p)' \in Nat /\ Promised(p)' <= Promised(p)
    BY <1>1, ThroughKeepsRest
<1>80. \A v \in Threads : \A p : (Detaching(v, p)' <=> Detaching(v, p)) /\ (Detaching(v, p) => v # t)
    BY <1>1, <1>7 DEF Detaching, Idle
<1>8. \A p : Clearing(p)' = Clearing(p)
    BY <1>80 DEF Clearing
<1> DEFINE table == [objectTable EXCEPT ![context].permitted = @ \intersect f.actionFlags]
<1>9. objectTable' = [table EXCEPT ![h].dependentObject = d, ![d].intRefCount = @ + IF f.inc THEN 1 ELSE 0]
    BY DEF FinishDependent, UpdateActionPerms
<1>90. /\ context \in Handles /\ context \notin Certs /\ context \in {h, d}
       /\ \A x \in Contexts : x \in {h, d} => x = context
    BY <1>2 DEF DependentObjectsAssumption
<1> HIDE DEF context
<1>91. /\ table \in [Handles -> Entry]
       /\ \A p \in Handles :
            /\ table[p].uniqueID = objectTable[p].uniqueID
            /\ table[p].permitted = IF p = context THEN objectTable[p].permitted \intersect f.actionFlags
                                                   ELSE objectTable[p].permitted
            /\ table[p].dependentObject = objectTable[p].dependentObject
            /\ table[p].intRefCount = objectTable[p].intRefCount
            /\ table[p].state = objectTable[p].state
            /\ p # context => table[p] = objectTable[p]
  <2>1. objectTable \in [Handles -> Entry] /\ objectTable[context].permitted \intersect f.actionFlags \in SUBSET Usages
      BY <1>1, <1>90 DEF DependentsInv, TypeOK
  <2>2. table \in [Handles -> Entry]
      BY <2>1, <1>90
  <2>3. ASSUME NEW p \in Handles
        PROVE  /\ table[p].uniqueID = objectTable[p].uniqueID
               /\ table[p].permitted = IF p = context THEN objectTable[p].permitted \intersect f.actionFlags
                                                      ELSE objectTable[p].permitted
               /\ table[p].dependentObject = objectTable[p].dependentObject
               /\ table[p].intRefCount = objectTable[p].intRefCount
               /\ table[p].state = objectTable[p].state
               /\ p # context => table[p] = objectTable[p]
      BY <2>1, <1>90
  <2> QED BY <2>2, <2>3
<1> HIDE DEF table
<1>92. objectTable' \in [Handles -> Entry]
    BY <1>2, <1>9, <1>91
<1>10. \A p \in Handles :
         /\ objectTable'[p].uniqueID = objectTable[p].uniqueID
         /\ objectTable'[p].permitted = IF p = context THEN objectTable[p].permitted \intersect f.actionFlags
                                                       ELSE objectTable[p].permitted
         /\ objectTable'[p].dependentObject = IF p = h THEN d ELSE objectTable[p].dependentObject
         /\ objectTable'[p].intRefCount =
              IF p = d THEN objectTable[p].intRefCount + (IF f.inc THEN 1 ELSE 0) ELSE objectTable[p].intRefCount
         /\ objectTable'[p].state = objectTable[p].state
         /\ p \notin {h, d} => objectTable'[p] = objectTable[p]
  <2>0. ASSUME NEW p \in Handles
        PROVE  /\ objectTable'[p].uniqueID = table[p].uniqueID
               /\ objectTable'[p].permitted = table[p].permitted
               /\ objectTable'[p].dependentObject = IF p = h THEN d ELSE table[p].dependentObject
               /\ objectTable'[p].intRefCount =
                    IF p = d THEN table[p].intRefCount + (IF f.inc THEN 1 ELSE 0) ELSE table[p].intRefCount
               /\ objectTable'[p].state = table[p].state
               /\ p \notin {h, d} => objectTable'[p] = table[p]
    <3>1. CASE p = h
        BY <3>1, <1>2, <1>9, <1>91
    <3>2. CASE p = d
        BY <3>2, <1>2, <1>9, <1>91
    <3>3. CASE p \notin {h, d}
        BY <3>3, <1>2, <1>9, <1>91
    <3> QED BY <3>1, <3>2, <3>3
  <2> SUFFICES ASSUME NEW p \in Handles
               PROVE  /\ objectTable'[p].uniqueID = objectTable[p].uniqueID
                      /\ objectTable'[p].permitted = IF p = context THEN objectTable[p].permitted \intersect f.actionFlags
                                                                    ELSE objectTable[p].permitted
                      /\ objectTable'[p].dependentObject = IF p = h THEN d ELSE objectTable[p].dependentObject
                      /\ objectTable'[p].intRefCount =
                           IF p = d THEN objectTable[p].intRefCount + (IF f.inc THEN 1 ELSE 0)
                                    ELSE objectTable[p].intRefCount
                      /\ objectTable'[p].state = objectTable[p].state
                      /\ p \notin {h, d} => objectTable'[p] = objectTable[p]
      OBVIOUS
  <2>1. /\ table[p].uniqueID = objectTable[p].uniqueID
        /\ table[p].permitted = IF p = context THEN objectTable[p].permitted \intersect f.actionFlags
                                               ELSE objectTable[p].permitted
        /\ table[p].dependentObject = objectTable[p].dependentObject
        /\ table[p].intRefCount = objectTable[p].intRefCount
        /\ table[p].state = objectTable[p].state
        /\ p \notin {h, d} => table[p] = objectTable[p]
      BY <1>90, <1>91
  <2> QED BY <2>0, <2>1
<1>11. TypeOK'
  <2>1. outside' \in [Handles -> Nat]
    <3>1. outside \in [Handles -> Nat] /\ outside[d] - 1 \in Nat
        BY <1>2, <1>3 DEF DependentsInv, TypeOK
    <3> QED BY <1>1, <3>1
  <2>2. uid' \in Nat \ {0}
      BY <1>1 DEF DependentsInv, TypeOK
  <2>3. attached' \in [Threads -> SUBSET Handles]
      BY <1>2, <1>4 DEF DependentsInv, TypeOK
  <2> QED BY <1>7, <1>92, <2>1, <2>2, <2>3 DEF TypeOK
<1>93. \A p \in Handles : Forgotten(p)' = Forgotten(p)
  <2>1. \A v \in Threads : Working(v, "clear") => pending[v].dependent \in Handles
      BY TwoHandles DEF DependentsInv, Messages
  <2>2. ASSUME NEW v \in Threads, NEW p \in Handles, Detaching(v, p)
        PROVE  /\ pending'[v] = pending[v]
               /\ objectTable'[pending[v].dependent].uniqueID = objectTable[pending[v].dependent].uniqueID
    <3>1. v # t /\ pending[v].dependent \in Handles
        BY <1>80, <2>1, <2>2 DEF Detaching
    <3> QED BY <3>1, <1>7, <1>10
  <2> QED BY <1>80, <2>2 DEF Forgotten
<1>94. Ends'
  <2> SUFFICES ASSUME NEW p \in Handles
               PROVE  /\ isValidObject(p)' /\ objectTable'[p].state = "normal" => objectTable'[p].intRefCount > 0
                      /\ objectTable'[p].state # "normal" => objectTable'[p].intRefCount = 0
                      /\ objectTable'[p].state = "signalled" => objectTable'[p].dependentObject = NoHandle
      BY DEF Ends
  <2>1. /\ objectTable'[p].uniqueID = objectTable[p].uniqueID /\ objectTable'[p].state = objectTable[p].state
        /\ objectTable'[p].dependentObject = IF p = h THEN d ELSE objectTable[p].dependentObject
        /\ objectTable'[p].intRefCount =
             IF p = d THEN objectTable[p].intRefCount + (IF f.inc THEN 1 ELSE 0) ELSE objectTable[p].intRefCount
      BY <1>10
  <2>2. /\ isValidObject(p) /\ objectTable[p].state = "normal" => objectTable[p].intRefCount > 0
        /\ objectTable[p].state # "normal" => objectTable[p].intRefCount = 0
        /\ objectTable[p].state = "signalled" => objectTable[p].dependentObject = NoHandle
      BY DEF DependentsInv, Ends
  <2>3. objectTable[d].intRefCount \in Nat
      BY <1>2, Counts
  <2>4. CASE p = d
      BY <2>1, <2>3, <2>4, <1>2, <1>4, <1>5
  <2>5. CASE p # d
      BY <2>1, <2>2, <2>5, <1>4
  <2> QED BY <2>4, <2>5
<1>95. Attachers'
  <2>1. \A v \in Threads : h \notin attached[v]
      BY <1>2, <1>4 DEF DependentsInv, Attachers
  <2>2. \A v \in Threads : attached'[v] = IF v = t THEN attached[v] \union {h} ELSE attached[v]
      BY <1>4 DEF DependentsInv, TypeOK
  <2> SUFFICES ASSUME NEW p \in Handles
               PROVE  /\ \A v, w \in Threads : p \in attached'[v] /\ p \in attached'[w] => v = w
                      /\ \A v \in Threads : p \in attached'[v] => objectTable'[p].dependentObject # NoHandle
      BY DEF Attachers
  <2>3. CASE p = h
    <3>1. \A v \in Threads : h \in attached'[v] => v = t
        BY <2>1, <2>2
    <3>2. objectTable'[h].dependentObject # NoHandle
        BY <1>2, <1>10
    <3> QED BY <2>3, <3>1, <3>2
  <2>4. CASE p # h
    <3>1. \A v \in Threads : p \in attached'[v] <=> p \in attached[v]
        BY <2>2, <2>4
    <3> QED BY <3>1, <2>4, <1>10 DEF DependentsInv, Attachers
  <2> QED BY <2>3, <2>4
<1>12. UniqueIDs'
  <2>1. ASSUME NEW p \in Handles, ~isValidObject(p)'
        PROVE  p \notin {h, d} /\ ~isValidObject(p)
    <3>1. objectTable'[p].uniqueID = objectTable[p].uniqueID
        BY <1>10
    <3>2. ~isValidObject(p)
        BY <3>1, <2>1 DEF DependentObjectsAssumption
    <3> QED BY <3>2, <1>2, <1>3
  <2>2. \A p \in Handles \ {d} : outside'[p] = outside[p]
      BY <1>1 DEF DependentsInv, TypeOK
  <2>3. \A p \in Handles : ~isValidObject(p)' => objectTable'[p] = Free /\ outside'[p] = 0
      BY <1>10, <2>1, <2>2 DEF DependentsInv, UniqueIDs
  <2>4. \A p \in Handles : objectTable'[p].uniqueID < uid
      BY <1>10 DEF DependentsInv, UniqueIDs
  <2>5. \A v \in Threads : pending'[v].uniqueID < uid
      BY <1>7 DEF DependentsInv, TypeOK, UniqueIDs, Idle
  <2> QED BY <1>1, <2>3, <2>4, <2>5 DEF UniqueIDs
<1>13. ASSUME NEW v \in Threads, NEW p \in Handles, About(v, p)'
       PROVE  v # t /\ About(v, p)
  <2>1. v # t
      BY <1>7, <1>13 DEF About, Idle, DependentObjectsAssumption
  <2>2. About(v, p)
      BY <2>1, <1>7, <1>10, <1>13 DEF About
  <2> QED BY <2>1, <2>2
<1>14. Messages'
  <2> SUFFICES ASSUME NEW v \in Threads, NEW g, g = pending'[v]
               PROVE  /\ g.at # "idle" => Attachable(g.handle, g.dependent) /\ g.uniqueID # 0
                      /\ g.at = "idle" => g.handle = NoHandle
                      /\ g.at = "clear" => objectTable'[g.handle].dependentObject = g.dependent
                                           /\ g.handle \in attached'[v]
      BY DEF Messages
  <2>1. CASE v = t
      BY <2>1, <1>7 DEF Idle
  <2>2. CASE v # t
    <3>1. g = pending[v] /\ (g.at # "idle" => g.handle \in Handles /\ Attachable(g.handle, g.dependent))
        BY <2>2, <1>7, TwoHandles DEF DependentsInv, Messages
    <3>2. g.at = "clear" => g.handle # h
        BY <3>1, <1>6 DEF Clearing, Detaching
    <3>3. attached'[v] = attached[v]
        BY <2>2, <1>4 DEF DependentsInv, TypeOK
    <3>4. \A p \in Handles \ {h} : objectTable'[p].dependentObject = objectTable[p].dependentObject
        BY <1>10
    <3> QED BY <2>2, <3>1, <3>2, <3>3, <3>4 DEF DependentsInv, Messages
  <2> QED BY <2>1, <2>2
<1>16. PromisesKept'
  <2>1. f.inc => outside' = outside
      BY <1>1
  <2>2. CASE f.inc
      BY <2>1, <2>2, <1>7, PromisesFinite DEF DependentsInv, TypeOK, PromisesKept
  <2>3. CASE ~f.inc
    <3>1. t \in Giving(d)
        BY <2>3, <1>1 DEF Giving, Attaching
    <3>2. Promised(d)' <= Promised(d) - 1
        BY <3>1, <1>2, <1>7, PromiseFulfilled
    <3>3. outside'[d] = outside[d] - 1 /\ \A p \in Handles \ {d} : outside'[p] = outside[p]
        BY <2>3, <1>1, <1>2 DEF DependentsInv, TypeOK
    <3> QED BY <1>2, <1>7, <3>2, <3>3, PromisesFinite DEF DependentsInv, TypeOK, PromisesKept
  <2> QED BY <2>2, <2>3
<1>17. DependentsExist'
  <2> SUFFICES ASSUME NEW p \in Handles, isValidObject(p)',
                      NEW e, e = objectTable'[p].dependentObject, e # NoHandle
               PROVE  Attachable(p, e) /\ (~Forgotten(p)' => isValidObject(e)')
      BY DEF DependentsExist
  <2>1. CASE p = h
    <3>1. e = d
        BY <2>1, <1>2, <1>10
    <3>2. isValidObject(d)'
        BY <1>2, <1>3, <1>10
    <3> QED BY <2>1, <3>1, <3>2, <1>2
  <2>2. CASE p # h
    <3>1. isValidObject(p) /\ e = objectTable[p].dependentObject
        BY <2>2, <1>10
    <3>2. e \in Handles /\ Attachable(p, e) /\ (~Forgotten(p) => isValidObject(e))
        BY <3>1, TwoHandles DEF DependentsInv, DependentsExist
    <3> QED BY <3>2, <1>93, <1>10
  <2> QED BY <2>1, <2>2
<1>18. AnswersCurrent'
  <2> SUFFICES ASSUME NEW v \in Threads, NEW c \in Certs, NEW g, g = pending'[v],
                      g.at = "asked", About(v, g.handle)', c \in {g.handle, g.dependent}
               PROVE  g.actionFlags \subseteq objectTable'[c].permitted
      BY DEF AnswersCurrent
  <2>1. v # t /\ g = pending[v]
      BY <1>7 DEF Idle
  <2>2. g.handle \in Handles /\ g.dependent \in Handles
      BY <2>1, TwoHandles DEF DependentsInv, Messages
  <2>3. c \in Handles /\ objectTable'[c].permitted = objectTable[c].permitted
      BY <1>10, <1>90 DEF Handles
  <2>4. About(v, g.handle)
      BY <1>13, <2>1, <2>2
  <2> QED BY <2>1, <2>2, <2>3, <2>4 DEF DependentsInv, AnswersCurrent
<1>19. RefsBalanced'
  <2> SUFFICES ASSUME NEW p \in Handles, isValidObject(p)'
               PROVE  objectTable'[p].intRefCount = outside'[p] +
                        IF objectTable'[p].state = "left" THEN 0 ELSE Cardinality(DependOn(p)')
      BY DEF RefsBalanced
  <2>1. /\ isValidObject(p) /\ objectTable'[p].state = objectTable[p].state
        /\ objectTable[p].intRefCount = outside[p] +
             IF objectTable[p].state = "left" THEN 0 ELSE Cardinality(DependOn(p))
      BY <1>10 DEF DependentsInv, RefsBalanced
  <2>2. \A q : q \in DependOn(p)' <=> q \in DependOn(p) \/ (q = h /\ p = d)
    <3>1. \A q \in Handles : /\ isValidObject(q)' <=> isValidObject(q)
                             /\ Clearing(q)' = Clearing(q)
        BY <1>8, <1>10 DEF DependentObjectsAssumption
    <3>2. \A q \in Handles \ {h} : objectTable'[q].dependentObject = objectTable[q].dependentObject
        BY <1>10
    <3>3. objectTable'[h].dependentObject = d /\ objectTable[h].dependentObject # p
        BY <1>2, <1>4, <1>10, <2>1
    <3> QED BY <3>1, <3>2, <3>3, <1>2, <1>6 DEF DependOn
  <2>3. CASE p = d
    <3>1. DependOn(d)' = DependOn(d) \union {h} /\ h \notin DependOn(d)
        BY <2>2, <2>3, <1>2, <1>4 DEF DependOn
    <3>2. Cardinality(DependOn(d)') = Cardinality(DependOn(d)) + 1
      <4>1. IsFiniteSet(DependOn(d)) /\ Cardinality(DependOn(d)) \in Nat
          BY DependFinite
      <4>2. Cardinality(DependOn(d) \union {h}) = Cardinality(DependOn(d)) + 1
          BY <3>1, <4>1, FS_AddElement
      <4> QED BY <3>1, <4>2
    <3>3. outside'[d] = outside[d] - IF f.inc THEN 0 ELSE 1
        BY <1>1, <1>2 DEF DependentsInv, TypeOK
    <3>4. objectTable[d].intRefCount \in Int /\ outside[d] \in Nat
        BY <1>2 DEF DependentsInv, TypeOK
    <3>5. objectTable'[d].intRefCount = objectTable[d].intRefCount + (IF f.inc THEN 1 ELSE 0)
        BY <1>2, <1>10
    <3>6. objectTable[d].intRefCount = outside[d] + Cardinality(DependOn(d)) /\ objectTable'[d].state # "left"
        BY <2>1, <2>3, <1>5
    <3> QED BY <2>3, <3>2, <3>3, <3>4, <3>5, <3>6, DependFinite
  <2>4. CASE p # d
    <3>1. DependOn(p)' = DependOn(p)
        BY <2>2, <2>4
    <3>2. outside'[p] = outside[p]
        BY <1>1, <2>4 DEF DependentsInv, TypeOK
    <3> QED BY <2>1, <2>4, <3>1, <3>2, <1>10
  <2> QED BY <2>3, <2>4
<1>20. ConstrainedByCert'
  <2> SUFFICES ASSUME NEW p \in Handles, isValidObject(p)', ~Forgotten(p)',
                      NEW e, e = objectTable'[p].dependentObject, e # NoHandle,
                      NEW x \in {p, e} \intersect Contexts, NEW c \in {p, e} \intersect Certs
               PROVE  objectTable'[x].permitted \subseteq objectTable'[c].permitted
      BY DEF ConstrainedByCert
  <2>1. x \in Handles /\ c \in Handles /\ c # context
      BY <1>90 DEF Handles
  <2>2. CASE p = h
    <3>1. e = d /\ x = context
        BY <2>2, <1>2, <1>10, <1>90
    <3>2. f.actionFlags \subseteq objectTable[c].permitted
        BY <2>2, <3>1, <1>1 DEF DependentsInv, AnswersCurrent, About
    <3>3. objectTable'[x].permitted = objectTable[x].permitted \intersect f.actionFlags
          /\ objectTable'[c].permitted = objectTable[c].permitted
        BY <1>10, <2>1, <3>1
    <3> QED BY <3>2, <3>3
  <2>3. CASE p # h
    <3>1. isValidObject(p) /\ ~Forgotten(p) /\ e = objectTable[p].dependentObject
        BY <2>3, <1>93, <1>10
    <3>2. objectTable[x].permitted \subseteq objectTable[c].permitted
        BY <3>1 DEF DependentsInv, ConstrainedByCert
    <3>3. objectTable'[x].permitted \subseteq objectTable[x].permitted
          /\ objectTable'[c].permitted = objectTable[c].permitted
        BY <1>10, <2>1
    <3> QED BY <3>2, <3>3
  <2> QED BY <2>2, <2>3
<1> QED BY <1>11, <1>12, <1>14, <1>16, <1>17, <1>18, <1>19, <1>20, <1>94, <1>95 DEF DependentsInv

\* FinishDependent preserves the invariant if the object has gone or nothing is allowed.
LEMMA TurnedAwayKeeps ==
  ASSUME DependentObjectsAssumption, DependentsInv, ~late, NEW t \in Threads, FinishDependent(t), ~SameObject(pending[t])
  PROVE  DependentsInv'
<1>1. /\ objectTable' = objectTable /\ outside' = outside /\ uid' = uid /\ attached' = attached
      /\ pending[t].at = "asked" /\ pending' = [pending EXCEPT ![t] = Idle]
    BY DEF FinishDependent
<1>2. /\ \A v \in Threads \ {t} : pending'[v] = pending[v]
      /\ pending'[t] = Idle /\ pending' \in [Threads -> Message]
      /\ \A p \in Handles : Promised(p)' \in Nat /\ Promised(p)' <= Promised(p)
    BY <1>1, ThroughKeepsRest
<1>3. \A p : Clearing(p)' = Clearing(p) /\ Forgotten(p)' = Forgotten(p)
  <2>1. \A v \in Threads : \A p : (Detaching(v, p)' <=> Detaching(v, p)) /\ (Detaching(v, p) => v # t)
      BY <1>1, <1>2 DEF Detaching, Idle
  <2> QED BY <1>1, <1>2, <2>1 DEF Clearing, Forgotten
<1>4. \A v \in Threads, p \in Handles : About(v, p)' => v # t /\ About(v, p)
    BY <1>1, <1>2 DEF About, Idle, DependentObjectsAssumption
<1>5. TypeOK' /\ UniqueIDs' /\ Ends' /\ Attachers'
    BY <1>1, <1>2 DEF DependentsInv, TypeOK, UniqueIDs, Idle, Ends, Attachers
<1>6. Messages'
  <2> SUFFICES ASSUME NEW v \in Threads, NEW g, g = pending'[v]
               PROVE  /\ g.at # "idle" => Attachable(g.handle, g.dependent) /\ g.uniqueID # 0
                      /\ g.at = "idle" => g.handle = NoHandle
                      /\ g.at = "clear" => objectTable[g.handle].dependentObject = g.dependent
                                           /\ g.handle \in attached[v]
      BY <1>1 DEF Messages
  <2>1. CASE v = t
      BY <2>1, <1>2 DEF Idle
  <2>2. CASE v # t
      BY <2>2, <1>2 DEF DependentsInv, Messages
  <2> QED BY <2>1, <2>2
<1>8. PromisesKept'
    BY <1>1, <1>2, PromisesFinite DEF DependentsInv, TypeOK, PromisesKept
<1>9. DependentsExist'
    BY <1>1, <1>3 DEF DependentsInv, DependentsExist
<1>10. AnswersCurrent'
  <2> SUFFICES ASSUME NEW v \in Threads, NEW c \in Certs, NEW g, g = pending'[v],
                      g.at = "asked", g.uniqueID = objectTable[g.handle].uniqueID, c \in {g.handle, g.dependent}
               PROVE  g.actionFlags \subseteq objectTable[c].permitted
      BY <1>1 DEF AnswersCurrent, About
  <2> QED BY <1>2 DEF DependentsInv, AnswersCurrent, About, Idle
<1>11. RefsBalanced'
  <2>1. \A p \in Handles : DependOn(p)' = DependOn(p)
      BY <1>1, <1>3 DEF DependOn
  <2> QED BY <1>1, <2>1 DEF DependentsInv, RefsBalanced
<1>12. ConstrainedByCert'
    BY <1>1, <1>3 DEF DependentsInv, ConstrainedByCert
<1> QED BY <1>5, <1>6, <1>8, <1>9, <1>10, <1>11, <1>12 DEF DependentsInv


\* ClearNothing preserves the invariant: only the attacher forgets.
LEMMA ClearNothingKeeps ==
  ASSUME DependentObjectsAssumption, DependentsInv, ~late, NEW t \in Threads, NEW h \in Handles,
         ClearDependentObject(t, h), ClearNothing(t, h)
  PROVE  DependentsInv'
<1>1. /\ objectTable' = objectTable /\ outside' = outside /\ uid' = uid /\ pending' = pending
      /\ attached' = [attached EXCEPT ![t] = @ \ {h}] /\ pending[t].at = "idle"
    BY DEF ClearDependentObject, ClearNothing, Detached
<1>2. /\ \A p : Promised(p)' = Promised(p) /\ Clearing(p)' = Clearing(p)
      /\ \A p \in Handles : Forgotten(p)' = Forgotten(p)
      /\ AnswersCurrent'
    BY <1>1, QuietStep
<1>3. \A v \in Threads : attached'[v] \subseteq attached[v] /\ (v # t => attached'[v] = attached[v])
    BY <1>1 DEF DependentsInv, TypeOK
<1>4. attached' \in [Threads -> SUBSET Handles]
    BY <1>1 DEF DependentsInv, TypeOK
<1>5. TypeOK' /\ UniqueIDs' /\ Ends' /\ PromisesKept'
    BY <1>1, <1>2, <1>4 DEF DependentsInv, TypeOK, UniqueIDs, Ends, PromisesKept
<1>6. Attachers'
    BY <1>1, <1>3 DEF DependentsInv, Attachers
<1>7. Messages'
    BY <1>1, <1>3 DEF DependentsInv, Messages
<1>8. DependentsExist'
    BY <1>1, <1>2 DEF DependentsInv, DependentsExist
<1>9. RefsBalanced'
  <2>1. \A p \in Handles : DependOn(p)' = DependOn(p)
      BY <1>1, <1>2 DEF DependOn
  <2> QED BY <1>1, <2>1 DEF DependentsInv, RefsBalanced
<1>10. ConstrainedByCert'
    BY <1>1, <1>2 DEF DependentsInv, ConstrainedByCert
<1> QED BY <1>2, <1>5, <1>6, <1>7, <1>8, <1>9, <1>10 DEF DependentsInv

\* What a thread that detaches finds in the slot, and what decRefCount makes of it.
LEMMA SlotToClear ==
  ASSUME DependentObjectsAssumption, DependentsInv, ~late, NEW t \in Threads, NEW h \in Handles,
         ClearDependentObject(t, h), NEW d, d = objectTable[h].dependentObject,
         isValidObject(d), objectTable[d].intRefCount > 0
  PROVE  /\ outside' = outside /\ uid' = uid /\ pending[t].at = "idle" /\ pending[t].handle = NoHandle
         /\ isValidObject(h) /\ d \in Handles /\ h # d /\ h # NoHandle /\ d # NoHandle /\ Attachable(h, d)
         /\ \A v \in Threads : ~Detaching(v, h)
         /\ ~Clearing(h) /\ ~Forgotten(h) /\ h \in DependOn(d)
         /\ objectTable[h].state = "normal" /\ objectTable[d].state = "normal"
         /\ DecRef(objectTable, d) \in [Handles -> Entry]
         /\ \A p \in Handles :
              /\ DecRef(objectTable, d)[p].uniqueID = objectTable[p].uniqueID
              /\ DecRef(objectTable, d)[p].permitted = objectTable[p].permitted
              /\ DecRef(objectTable, d)[p].dependentObject = objectTable[p].dependentObject
              /\ p # d => DecRef(objectTable, d)[p] = objectTable[p]
         /\ DecRef(objectTable, d)[d].intRefCount = objectTable[d].intRefCount - 1
         /\ DecRef(objectTable, d)[d].state = IF objectTable[d].intRefCount = 1 THEN "dying" ELSE "normal"
<1>1. /\ outside' = outside /\ uid' = uid /\ pending[t].at = "idle" /\ pending[t].handle = NoHandle
      /\ isValidObject(h) /\ h \in attached[t] /\ outside[h] > 0
    BY DEF ClearDependentObject, DependentsInv, Messages
<1>2. d \in Handles /\ h # d /\ h # NoHandle /\ d # NoHandle /\ Attachable(h, d)
    BY <1>1, TwoHandles DEF DependentsInv, DependentsExist
<1>3. \A v \in Threads : ~Detaching(v, h)
    BY <1>1 DEF Detaching, DependentsInv, Messages, Attachers
<1>4. ~Clearing(h) /\ ~Forgotten(h) /\ h \in DependOn(d)
    BY <1>1, <1>3 DEF Clearing, Forgotten, DependOn
<1>5. objectTable[h].state = "normal" /\ objectTable[d].state = "normal"
    BY <1>1, <1>2, Referenced DEF DependentsInv, TypeOK
<1>6. /\ objectTable \in [Handles -> Entry] /\ d \in Handles \union {NoHandle} /\ NoHandle \notin Handles
      /\ \A p \in Handles : objectTable[p].intRefCount >= 0
    BY <1>2, Counts DEF DependentsInv, TypeOK, DependentObjectsAssumption
<1>7. /\ DecRef(objectTable, d) \in [Handles -> Entry]
      /\ \A p \in Handles :
           /\ DecRef(objectTable, d)[p].uniqueID = objectTable[p].uniqueID
           /\ DecRef(objectTable, d)[p].permitted = objectTable[p].permitted
           /\ DecRef(objectTable, d)[p].dependentObject = objectTable[p].dependentObject
           /\ DecRef(objectTable, d)[p].intRefCount =
                IF p = d /\ objectTable[d].intRefCount # 0 THEN objectTable[d].intRefCount - 1
                ELSE objectTable[p].intRefCount
           /\ DecRef(objectTable, d)[p].state =
                IF p = d /\ objectTable[d].intRefCount = 1 THEN "dying" ELSE objectTable[p].state
           /\ p # d => DecRef(objectTable, d)[p] = objectTable[p]
    BY <1>6, DecRefIs
<1>8. objectTable[d].intRefCount # 0
    BY <1>2, Counts
<1> QED BY <1>1, <1>2, <1>3, <1>4, <1>5, <1>7, <1>8

\* ClearReference preserves the invariant: the reference and the slot go together.
LEMMA ClearReferenceKeeps ==
  ASSUME DependentObjectsAssumption, DependentsInv, ~late, NEW t \in Threads, NEW h \in Handles,
         ClearDependentObject(t, h), ClearReference(t, h), NEW d, d = objectTable[h].dependentObject
  PROVE  DependentsInv'
<1>1. isValidObject(d) /\ objectTable[d].intRefCount > 1 /\ objectTable[d].intRefCount > 0
      /\ objectTable[d].intRefCount # 1 /\ objectTable[d].intRefCount \in Int
  <2>1. isValidObject(d) /\ objectTable[d].intRefCount > 1 /\ d \in Handles
      BY DEF ClearReference, DependentsInv, TypeOK
  <2>2. objectTable[d].intRefCount \in Nat
      BY <2>1, Counts
  <2> QED BY <2>1, <2>2
<1>2. /\ outside' = outside /\ uid' = uid /\ pending[t].at = "idle" /\ pending[t].handle = NoHandle
      /\ isValidObject(h) /\ d \in Handles /\ h # d /\ h # NoHandle /\ d # NoHandle /\ Attachable(h, d)
      /\ \A v \in Threads : ~Detaching(v, h)
      /\ ~Clearing(h) /\ ~Forgotten(h) /\ h \in DependOn(d)
      /\ objectTable[h].state = "normal" /\ objectTable[d].state = "normal"
    BY <1>1, SlotToClear
<1> DEFINE table == DecRef(objectTable, d)
<1>3. /\ table \in [Handles -> Entry]
      /\ \A p \in Handles :
           /\ table[p].uniqueID = objectTable[p].uniqueID
           /\ table[p].permitted = objectTable[p].permitted
           /\ table[p].dependentObject = objectTable[p].dependentObject
           /\ p # d => table[p] = objectTable[p]
      /\ table[d].intRefCount = objectTable[d].intRefCount - 1
      /\ table[d].state = "normal"
    BY <1>1, SlotToClear
<1>4. /\ pending' = pending /\ attached' = [attached EXCEPT ![t] = @ \ {h}]
      /\ objectTable' = [table EXCEPT ![h].dependentObject = NoHandle]
    BY DEF ClearReference, Detached
<1> HIDE DEF table
<1>5. /\ objectTable' \in [Handles -> Entry]
      /\ objectTable'[h].dependentObject = NoHandle /\ objectTable'[h].intRefCount = objectTable[h].intRefCount
      /\ objectTable'[h].state = "normal"
      /\ objectTable'[h].uniqueID = objectTable[h].uniqueID /\ objectTable'[h].permitted = objectTable[h].permitted
      /\ \A p \in Handles \ {h} : objectTable'[p] = table[p]
    BY <1>2, <1>3, <1>4
<1>6. \A p \in Handles :
        /\ objectTable'[p].uniqueID = objectTable[p].uniqueID
        /\ objectTable'[p].permitted = objectTable[p].permitted
        /\ objectTable'[p].dependentObject = IF p = h THEN NoHandle ELSE objectTable[p].dependentObject
        /\ objectTable'[p].state = objectTable[p].state
        /\ objectTable'[p].intRefCount =
             IF p = d THEN objectTable[p].intRefCount - 1 ELSE objectTable[p].intRefCount
        /\ p \notin {h, d} => objectTable'[p] = objectTable[p]
  <2> SUFFICES ASSUME NEW p \in Handles
               PROVE  /\ objectTable'[p].uniqueID = objectTable[p].uniqueID
                      /\ objectTable'[p].permitted = objectTable[p].permitted
                      /\ objectTable'[p].dependentObject = IF p = h THEN NoHandle ELSE objectTable[p].dependentObject
                      /\ objectTable'[p].state = objectTable[p].state
                      /\ objectTable'[p].intRefCount =
                           IF p = d THEN objectTable[p].intRefCount - 1 ELSE objectTable[p].intRefCount
                      /\ p \notin {h, d} => objectTable'[p] = objectTable[p]
      OBVIOUS
  <2>1. CASE p = h
      BY <2>1, <1>2, <1>5
  <2>2. CASE p = d
      BY <2>2, <1>2, <1>3, <1>5
  <2>3. CASE p \notin {h, d}
      BY <2>3, <1>3, <1>5
  <2> QED BY <2>1, <2>2, <2>3
<1>7. /\ \A p : Promised(p)' = Promised(p) /\ Clearing(p)' = Clearing(p)
      /\ \A p \in Handles : Forgotten(p)' = Forgotten(p)
      /\ AnswersCurrent'
    BY <1>4, <1>6, QuietStep
<1>8. /\ attached' \in [Threads -> SUBSET Handles]
      /\ \A v \in Threads : attached'[v] \subseteq attached[v] /\ h \notin attached'[v]
      /\ \A v \in Threads, p \in Handles \ {h} : p \in attached'[v] <=> p \in attached[v]
  <2>1. \A v \in Threads : v # t => h \notin attached[v]
      BY DEF ClearDependentObject, DependentsInv, Attachers
  <2>2. attached' \in [Threads -> SUBSET Handles]
        /\ \A v \in Threads : attached'[v] = IF v = t THEN attached[v] \ {h} ELSE attached[v]
      BY <1>4 DEF DependentsInv, TypeOK
  <2> QED BY <2>1, <2>2
<1>9. TypeOK' /\ PromisesKept'
    BY <1>2, <1>4, <1>5, <1>7, <1>8 DEF DependentsInv, TypeOK, PromisesKept
<1>10. UniqueIDs'
  <2>1. ASSUME NEW p \in Handles, ~isValidObject(p)'
        PROVE  objectTable'[p] = Free /\ outside[p] = 0
    <3>1. ~isValidObject(p)
        BY <2>1, <1>6 DEF DependentObjectsAssumption
    <3>2. p \notin {h, d}
        BY <3>1, <1>1, <1>2
    <3> QED BY <3>1, <3>2, <1>6 DEF DependentsInv, UniqueIDs
  <2>2. \A p \in Handles : objectTable'[p].uniqueID < uid
      BY <1>6 DEF DependentsInv, UniqueIDs
  <2> QED BY <1>2, <1>4, <2>1, <2>2 DEF DependentsInv, UniqueIDs
<1>11. Ends'
  <2> SUFFICES ASSUME NEW p \in Handles
               PROVE  /\ isValidObject(p)' /\ objectTable'[p].state = "normal" => objectTable'[p].intRefCount > 0
                      /\ objectTable'[p].state # "normal" => objectTable'[p].intRefCount = 0
                      /\ objectTable'[p].state = "signalled" => objectTable'[p].dependentObject = NoHandle
      BY DEF Ends
  <2>1. CASE p = h
      BY <2>1, <1>2, <1>5 DEF DependentsInv, Ends
  <2>2. CASE p = d
      BY <2>2, <1>1, <1>2, <1>6
  <2>3. CASE p \notin {h, d}
      BY <2>3, <1>6 DEF DependentsInv, Ends
  <2> QED BY <2>1, <2>2, <2>3
<1>12. Messages'
  <2> SUFFICES ASSUME NEW v \in Threads, NEW g, g = pending[v]
               PROVE  /\ g.at # "idle" => Attachable(g.handle, g.dependent) /\ g.uniqueID # 0
                      /\ g.at = "idle" => g.handle = NoHandle
                      /\ g.at = "clear" => objectTable'[g.handle].dependentObject = g.dependent
                                           /\ g.handle \in attached'[v]
      BY <1>4 DEF Messages
  <2>1. g.at # "idle" => g.handle \in Handles
      BY TwoHandles DEF DependentsInv, Messages
  <2>2. g.at = "clear" => g.handle # h
      BY <1>2 DEF Detaching
  <2> QED BY <1>6, <1>8, <2>1, <2>2 DEF DependentsInv, Messages
<1>13. Attachers'
  <2> SUFFICES ASSUME NEW p \in Handles
               PROVE  /\ \A v, w \in Threads : p \in attached'[v] /\ p \in attached'[w] => v = w
                      /\ \A v \in Threads : p \in attached'[v] => objectTable'[p].dependentObject # NoHandle
      BY DEF Attachers
  <2>1. CASE p = h
      BY <2>1, <1>8
  <2>2. CASE p # h
      BY <2>2, <1>6, <1>8 DEF DependentsInv, Attachers
  <2> QED BY <2>1, <2>2
<1>14. DependentsExist'
  <2> SUFFICES ASSUME NEW p \in Handles, isValidObject(p)',
                      NEW e, e = objectTable'[p].dependentObject, e # NoHandle
               PROVE  Attachable(p, e) /\ (~Forgotten(p)' => isValidObject(e)')
      BY DEF DependentsExist
  <2>1. p # h /\ isValidObject(p) /\ e = objectTable[p].dependentObject
      BY <1>6
  <2>2. e \in Handles /\ Attachable(p, e) /\ (~Forgotten(p) => isValidObject(e))
      BY <2>1, TwoHandles DEF DependentsInv, DependentsExist
  <2> QED BY <1>6, <1>7, <2>2
<1>15. RefsBalanced'
  <2> SUFFICES ASSUME NEW p \in Handles, isValidObject(p)'
               PROVE  objectTable'[p].intRefCount = outside[p] +
                        IF objectTable'[p].state = "left" THEN 0 ELSE Cardinality(DependOn(p)')
      BY <1>2 DEF RefsBalanced
  <2>1. isValidObject(p) /\ objectTable[p].intRefCount = outside[p] +
          IF objectTable[p].state = "left" THEN 0 ELSE Cardinality(DependOn(p))
      BY <1>6 DEF DependentsInv, RefsBalanced
  <2>2. \A q : q \in DependOn(p)' <=> q \in DependOn(p) \ {h}
    <3>1. p # NoHandle /\ \A q \in Handles : isValidObject(q)' <=> isValidObject(q)
        BY <1>6 DEF DependentObjectsAssumption
    <3>2. \A q \in Handles \ {h} : objectTable'[q].dependentObject = objectTable[q].dependentObject
        BY <1>6
    <3> QED BY <3>1, <3>2, <1>5, <1>7 DEF DependOn
  <2>3. DependOn(p)' = DependOn(p) \ {h}
      BY <2>2
  <2>4. CASE p = d
    <3>1. Cardinality(DependOn(p)') = Cardinality(DependOn(p)) - 1
        BY <2>3, <2>4, <1>2, DependFinite, FS_RemoveElement
    <3>2. objectTable'[p].intRefCount = objectTable[p].intRefCount - 1 /\ objectTable'[p].state # "left"
        BY <2>4, <1>2, <1>6
    <3>3. outside[p] \in Nat /\ objectTable[p].intRefCount = outside[p] + Cardinality(DependOn(p))
        BY <2>1, <2>4, <1>2 DEF DependentsInv, TypeOK
    <3> QED BY <3>1, <3>2, <3>3, DependFinite
  <2>5. CASE p # d
    <3>1. DependOn(p)' = DependOn(p)
        BY <2>3, <2>5 DEF DependOn
    <3> QED BY <3>1, <2>1, <2>5, <1>6
  <2> QED BY <2>4, <2>5
<1>16. ConstrainedByCert'
  <2>1. \A p \in Handles : isValidObject(p) /\ objectTable[p].dependentObject # NoHandle =>
          objectTable[p].dependentObject \in Handles
      BY TwoHandles DEF DependentsInv, DependentsExist
  <2>2. ASSUME NEW p \in Handles, isValidObject(p)', objectTable'[p].dependentObject # NoHandle, ~Forgotten(p)'
        PROVE  /\ isValidObject(p) /\ ~Forgotten(p)
               /\ objectTable'[p].dependentObject = objectTable[p].dependentObject
               /\ objectTable'[p].permitted = objectTable[p].permitted
               /\ LET e == objectTable[p].dependentObject IN objectTable'[e].permitted = objectTable[e].permitted
      BY <2>1, <2>2, <1>6, <1>7
  <2> QED BY <2>2, StillConstrained
<1> QED BY <1>7, <1>9, <1>10, <1>11, <1>12, <1>13, <1>14, <1>15, <1>16 DEF DependentsInv

\* ClearLastReference preserves the invariant: the slot that is to be cleared does not count any more.
LEMMA ClearLastReferenceKeeps ==
  ASSUME DependentObjectsAssumption, DependentsInv, ~late, NEW t \in Threads, NEW h \in Handles,
         ClearDependentObject(t, h), ClearLastReference(t, h), NEW d, d = objectTable[h].dependentObject
  PROVE  DependentsInv'
<1>1. isValidObject(d) /\ objectTable[d].intRefCount = 1 /\ objectTable[d].intRefCount > 0
    BY DEF ClearLastReference
<1>2. /\ outside' = outside /\ uid' = uid /\ pending[t].at = "idle" /\ pending[t].handle = NoHandle
      /\ isValidObject(h) /\ d \in Handles /\ h # d /\ h # NoHandle /\ d # NoHandle /\ Attachable(h, d)
      /\ \A v \in Threads : ~Detaching(v, h)
      /\ ~Clearing(h) /\ ~Forgotten(h) /\ h \in DependOn(d)
      /\ objectTable[h].state = "normal" /\ objectTable[d].state = "normal"
    BY <1>1, SlotToClear
<1> DEFINE clearing == [Idle EXCEPT !.at = "clear", !.handle = h, !.dependent = d,
                                    !.uniqueID = objectTable[d].uniqueID]
<1>3. /\ attached' = attached /\ objectTable' = DecRef(objectTable, d)
      /\ pending' = [pending EXCEPT ![t] = clearing]
    BY DEF ClearLastReference
<1>4. /\ objectTable' \in [Handles -> Entry]
      /\ \A p \in Handles :
           /\ objectTable'[p].uniqueID = objectTable[p].uniqueID
           /\ objectTable'[p].permitted = objectTable[p].permitted
           /\ objectTable'[p].dependentObject = objectTable[p].dependentObject
           /\ p # d => objectTable'[p] = objectTable[p]
      /\ objectTable'[d].intRefCount = 0 /\ objectTable'[d].state = "dying"
    BY <1>1, <1>3, SlotToClear
<1>5. /\ clearing \in Message
      /\ clearing.at = "clear" /\ clearing.handle = h /\ clearing.dependent = d
      /\ clearing.uniqueID = objectTable[d].uniqueID
    BY <1>2 DEF Idle, DependentsInv, TypeOK
<1> HIDE DEF clearing
<1>6. /\ pending' \in [Threads -> Message] /\ pending'[t] = clearing
      /\ \A v \in Threads \ {t} : pending'[v] = pending[v]
    BY <1>3, <1>5 DEF DependentsInv, TypeOK
<1>7. \A v \in Threads, p \in Handles : Detaching(v, p)' <=> (v = t /\ p = h) \/ Detaching(v, p)
  <2> SUFFICES ASSUME NEW v \in Threads, NEW p \in Handles
               PROVE  Detaching(v, p)' <=> (v = t /\ p = h) \/ Detaching(v, p)
      OBVIOUS
  <2>1. CASE v = t
      BY <2>1, <1>2, <1>5, <1>6 DEF Detaching
  <2>2. CASE v # t
      BY <2>2, <1>6 DEF Detaching
  <2> QED BY <2>1, <2>2
<1>8. Clearing(h)' /\ \A p \in Handles \ {h} : Clearing(p)' = Clearing(p)
    BY <1>7 DEF Clearing
<1>9. ~Forgotten(h)' /\ \A p \in Handles \ {h} : Forgotten(p)' = Forgotten(p)
  <2>1. ~Forgotten(h)'
    <3> SUFFICES ASSUME NEW v \in Threads, Detaching(v, h)'
                 PROVE  objectTable'[pending'[v].dependent].uniqueID = pending'[v].uniqueID
        BY DEF Forgotten
    <3>1. v = t
        BY <1>2, <1>7
    <3> QED BY <3>1, <1>2, <1>4, <1>5, <1>6
  <2>2. ASSUME NEW v \in Threads, NEW p \in Handles \ {h}, Detaching(v, p)
        PROVE  /\ pending'[v] = pending[v]
               /\ objectTable'[pending[v].dependent].uniqueID = objectTable[pending[v].dependent].uniqueID
    <3>1. v # t
        BY <2>2, <1>2 DEF Detaching
    <3>2. pending[v].dependent \in Handles
        BY <2>2, TwoHandles DEF DependentsInv, Messages, Detaching
    <3> QED BY <3>1, <3>2, <1>4, <1>6
  <2>3. ASSUME NEW p \in Handles \ {h} PROVE Forgotten(p)' = Forgotten(p)
      BY <1>7, <2>2 DEF Forgotten
  <2> QED BY <2>1, <2>3
<1>10. TypeOK'
    BY <1>2, <1>3, <1>4, <1>6 DEF DependentsInv, TypeOK
<1>11. UniqueIDs'
  <2>1. ASSUME NEW p \in Handles, ~isValidObject(p)'
        PROVE  objectTable'[p] = Free /\ outside[p] = 0
    <3>1. ~isValidObject(p)
        BY <2>1, <1>4 DEF DependentObjectsAssumption
    <3>2. p # d
        BY <3>1, <1>1
    <3> QED BY <3>1, <3>2, <1>4 DEF DependentsInv, UniqueIDs
  <2>2. \A p \in Handles : objectTable'[p].uniqueID < uid
      BY <1>4 DEF DependentsInv, UniqueIDs
  <2>3. \A v \in Threads : pending'[v].uniqueID < uid
      BY <1>2, <1>5, <1>6 DEF DependentsInv, UniqueIDs
  <2> QED BY <1>2, <2>1, <2>2, <2>3 DEF UniqueIDs
<1>12. Ends'
    BY <1>4 DEF DependentsInv, Ends
<1>13. Messages'
  <2> SUFFICES ASSUME NEW v \in Threads, NEW g, g = pending'[v]
               PROVE  /\ g.at # "idle" => Attachable(g.handle, g.dependent) /\ g.uniqueID # 0
                      /\ g.at = "idle" => g.handle = NoHandle
                      /\ g.at = "clear" => objectTable'[g.handle].dependentObject = g.dependent
                                           /\ g.handle \in attached[v]
      BY <1>3 DEF Messages
  <2>1. CASE v = t
    <3>1. h \in attached[t]
        BY DEF ClearDependentObject
    <3> QED BY <2>1, <3>1, <1>1, <1>2, <1>4, <1>5, <1>6
  <2>2. CASE v # t
    <3>1. g = pending[v] /\ (g.at # "idle" => g.handle \in Handles)
        BY <2>2, <1>6, TwoHandles DEF DependentsInv, Messages
    <3> QED BY <3>1, <1>4 DEF DependentsInv, Messages
  <2> QED BY <2>1, <2>2
<1>14. Attachers'
    BY <1>3, <1>4 DEF DependentsInv, Attachers
<1>15. PromisesKept'
  <2>1. Promised(h)' <= outside'[h]
      BY <1>2 DEF ClearDependentObject
  <2>2. ASSUME NEW p \in Handles \ {h}
        PROVE  Promised(p)' <= Promised(p) /\ Promised(p) \in Nat /\ Promised(p)' \in Nat
    <3>1. Giving(p)' \subseteq Giving(p) /\ Keeping(p)' \subseteq Keeping(p)
        BY <1>5, <1>6, <1>7 DEF Giving, Keeping, Attaching
    <3>2. IsFiniteSet(Giving(p)') /\ Cardinality(Giving(p)') \in Nat
        BY <3>1, PromisesFinite, FS_Subset, FS_CardinalityType
    <3>3. Promised(p)' \in Nat
        BY <3>2 DEF Promised
    <3> QED BY <3>1, <3>3, FewerPromises, PromisesFinite
  <2> QED BY <1>2, <2>1, <2>2 DEF DependentsInv, TypeOK, PromisesKept
<1>16. DependentsExist'
  <2> SUFFICES ASSUME NEW p \in Handles, isValidObject(p)',
                      NEW e, e = objectTable'[p].dependentObject, e # NoHandle
               PROVE  Attachable(p, e) /\ (~Forgotten(p)' => isValidObject(e)')
      BY DEF DependentsExist
  <2>1. isValidObject(p) /\ e = objectTable[p].dependentObject
      BY <1>4
  <2>2. e \in Handles /\ Attachable(p, e) /\ (~Forgotten(p) => isValidObject(e))
      BY <2>1, TwoHandles DEF DependentsInv, DependentsExist
  <2>3. Forgotten(p) => Forgotten(p)'
      BY <1>2, <1>9
  <2> QED BY <1>4, <2>2, <2>3
<1>17. AnswersCurrent'
  <2> SUFFICES ASSUME NEW v \in Threads, NEW c \in Certs, NEW g, g = pending'[v],
                      g.at = "asked", About(v, g.handle)', c \in {g.handle, g.dependent}
               PROVE  g.actionFlags \subseteq objectTable'[c].permitted
      BY DEF AnswersCurrent
  <2>1. v # t /\ g = pending[v]
      BY <1>5, <1>6
  <2>2. g.handle \in Handles /\ c \in Handles
      BY <2>1, TwoHandles DEF DependentsInv, Messages
  <2>3. About(v, g.handle)
      BY <1>4, <2>1, <2>2 DEF About
  <2> QED BY <1>4, <2>1, <2>2, <2>3 DEF DependentsInv, AnswersCurrent
<1>18. RefsBalanced'
  <2> SUFFICES ASSUME NEW p \in Handles, isValidObject(p)'
               PROVE  objectTable'[p].intRefCount = outside[p] +
                        IF objectTable'[p].state = "left" THEN 0 ELSE Cardinality(DependOn(p)')
      BY <1>2 DEF RefsBalanced
  <2>1. isValidObject(p) /\ objectTable[p].intRefCount = outside[p] +
          IF objectTable[p].state = "left" THEN 0 ELSE Cardinality(DependOn(p))
      BY <1>4 DEF DependentsInv, RefsBalanced
  <2>2. \A q : q \in DependOn(p)' <=> q \in DependOn(p) \ {h}
      BY <1>4, <1>8 DEF DependOn
  <2>3. DependOn(p)' = DependOn(p) \ {h}
      BY <2>2
  <2>4. CASE p = d
    <3>1. Cardinality(DependOn(p)') = Cardinality(DependOn(p)) - 1
        BY <2>3, <2>4, <1>2, DependFinite, FS_RemoveElement
    <3>2. objectTable'[p].intRefCount = 0 /\ objectTable'[p].state # "left"
        BY <2>4, <1>4
    <3>3. outside[p] \in Nat /\ 1 = outside[p] + Cardinality(DependOn(p))
        BY <2>1, <2>4, <1>1, <1>2 DEF DependentsInv, TypeOK
    <3> QED BY <3>1, <3>2, <3>3, DependFinite
  <2>5. CASE p # d
    <3>1. DependOn(p)' = DependOn(p)
        BY <2>3, <2>5 DEF DependOn
    <3> QED BY <3>1, <2>1, <2>5, <1>4
  <2> QED BY <2>4, <2>5
<1>19. ConstrainedByCert'
  <2>1. \A p \in Handles : isValidObject(p) /\ objectTable[p].dependentObject # NoHandle =>
          objectTable[p].dependentObject \in Handles
      BY TwoHandles DEF DependentsInv, DependentsExist
  <2>2. ASSUME NEW p \in Handles, isValidObject(p)', objectTable'[p].dependentObject # NoHandle, ~Forgotten(p)'
        PROVE  /\ isValidObject(p) /\ ~Forgotten(p)
               /\ objectTable'[p].dependentObject = objectTable[p].dependentObject
               /\ objectTable'[p].permitted = objectTable[p].permitted
               /\ LET e == objectTable[p].dependentObject IN objectTable'[e].permitted = objectTable[e].permitted
      BY <2>1, <2>2, <1>2, <1>4, <1>9
  <2> QED BY <2>2, StillConstrained
<1> QED BY <1>10, <1>11, <1>12, <1>13, <1>14, <1>15, <1>16, <1>17, <1>18, <1>19 DEF DependentsInv

\* A thread that has detached, or failed to: nobody else detaches from the object.
LEMMA OneDetaches ==
  ASSUME DependentObjectsAssumption, DependentsInv, ~late, NEW t \in Threads, pending[t].at = "clear",
         pending' = [pending EXCEPT ![t] = Idle],
         NEW h, h = pending[t].handle,
         \A p \in Handles : objectTable'[p].uniqueID = objectTable[p].uniqueID
  PROVE  /\ h \in Handles /\ isValidObject(h) /\ Clearing(h) /\ h \in attached[t]
         /\ pending[t].dependent \in Handles /\ objectTable[h].dependentObject = pending[t].dependent
         /\ ~Clearing(h)' /\ ~Forgotten(h)'
         /\ \A p \in Handles \ {h} : Clearing(p)' = Clearing(p) /\ Forgotten(p)' = Forgotten(p)
         /\ \A v \in Threads \ {t} : ~Detaching(v, h)
<1>1. /\ h \in Handles /\ pending[t].dependent \in Handles /\ h \in attached[t]
      /\ objectTable[h].dependentObject = pending[t].dependent
    BY TwoHandles DEF DependentsInv, Messages
<1>2. Detaching(t, h)
    BY DEF Detaching
<1>3. isValidObject(h) /\ Clearing(h)
    BY <1>1, <1>2, PromisedExists DEF Clearing
<1>4. /\ \A v \in Threads \ {t} : pending'[v] = pending[v]
      /\ pending'[t] = Idle
    BY ThroughKeepsRest
<1>5. \A v \in Threads \ {t} : ~Detaching(v, h)
    BY <1>1 DEF Detaching, DependentsInv, Messages, Attachers
<1>6. \A v \in Threads, p \in Handles : Detaching(v, p)' <=> v # t /\ Detaching(v, p)
  <2> SUFFICES ASSUME NEW v \in Threads, NEW p \in Handles
               PROVE  Detaching(v, p)' <=> v # t /\ Detaching(v, p)
      OBVIOUS
  <2>1. CASE v = t
      BY <2>1, <1>4 DEF Detaching, Idle
  <2>2. CASE v # t
      BY <2>2, <1>4 DEF Detaching
  <2> QED BY <2>1, <2>2
<1>7. \A p \in Handles \ {h} : ~Detaching(t, p)
    BY DEF Detaching
<1>8. ~Clearing(h)' /\ ~Forgotten(h)'
    BY <1>1, <1>5, <1>6 DEF Clearing, Forgotten
<1>9. \A p \in Handles \ {h} : Clearing(p)' = Clearing(p)
    BY <1>6, <1>7 DEF Clearing
<1>10. ASSUME NEW v \in Threads \ {t}, NEW p \in Handles, Detaching(v, p)
       PROVE  /\ pending'[v] = pending[v]
              /\ objectTable'[pending[v].dependent].uniqueID = objectTable[pending[v].dependent].uniqueID
  <2>1. pending[v].dependent \in Handles
      BY <1>10, TwoHandles DEF DependentsInv, Messages, Detaching
  <2> QED BY <2>1, <1>4
<1>11. ASSUME NEW p \in Handles \ {h} PROVE Forgotten(p)' = Forgotten(p)
    BY <1>6, <1>7, <1>10 DEF Forgotten
<1> QED BY <1>1, <1>3, <1>5, <1>8, <1>9, <1>11

\* ForgetDependent preserves the invariant: the slot did not count any more.
LEMMA ForgetDependentKeeps ==
  ASSUME DependentObjectsAssumption, DependentsInv, ~late, NEW t \in Threads, ForgetDependent(t),
         NEW h, h = pending[t].handle
  PROVE  DependentsInv'
<1>1. /\ outside' = outside /\ uid' = uid /\ pending[t].at = "clear"
      /\ pending' = [pending EXCEPT ![t] = Idle]
      /\ attached' = [attached EXCEPT ![t] = @ \ {h}]
      /\ objectTable' = [objectTable EXCEPT ![h].dependentObject = NoHandle]
    BY DEF ForgetDependent, Detached
<1>2. h \in Handles
    BY <1>1, TwoHandles DEF DependentsInv, Messages
<1>3. /\ objectTable' \in [Handles -> Entry]
      /\ objectTable'[h].dependentObject = NoHandle
      /\ \A p \in Handles :
           /\ objectTable'[p].uniqueID = objectTable[p].uniqueID
           /\ objectTable'[p].permitted = objectTable[p].permitted
           /\ objectTable'[p].intRefCount = objectTable[p].intRefCount
           /\ objectTable'[p].state = objectTable[p].state
           /\ p # h => objectTable'[p] = objectTable[p]
    BY <1>1, <1>2 DEF DependentsInv, TypeOK
<1>4. /\ isValidObject(h) /\ Clearing(h) /\ h \in attached[t]
      /\ ~Clearing(h)' /\ ~Forgotten(h)'
      /\ \A p \in Handles \ {h} : Clearing(p)' = Clearing(p) /\ Forgotten(p)' = Forgotten(p)
      /\ \A v \in Threads \ {t} : ~Detaching(v, h)
    BY <1>1, <1>3, OneDetaches
<1>5. /\ \A v \in Threads \ {t} : pending'[v] = pending[v]
      /\ pending'[t] = Idle /\ pending' \in [Threads -> Message]
      /\ \A p \in Handles : Promised(p)' \in Nat /\ Promised(p)' <= Promised(p)
    BY <1>1, ThroughKeepsRest
<1>6. /\ attached' \in [Threads -> SUBSET Handles]
      /\ \A v \in Threads : h \notin attached'[v]
      /\ \A v \in Threads, p \in Handles \ {h} : p \in attached'[v] <=> p \in attached[v]
  <2>1. \A v \in Threads : v # t => h \notin attached[v]
      BY <1>2, <1>4 DEF DependentsInv, Attachers
  <2>2. attached' \in [Threads -> SUBSET Handles]
        /\ \A v \in Threads : attached'[v] = IF v = t THEN attached[v] \ {h} ELSE attached[v]
      BY <1>1 DEF DependentsInv, TypeOK
  <2> QED BY <2>1, <2>2
<1>10. TypeOK'
    BY <1>1, <1>3, <1>5, <1>6 DEF DependentsInv, TypeOK
<1>11. UniqueIDs'
  <2>1. \A v \in Threads : pending'[v].uniqueID < uid
      BY <1>5 DEF DependentsInv, TypeOK, UniqueIDs, Idle
  <2>2. ASSUME NEW p \in Handles, ~isValidObject(p)'
        PROVE  objectTable'[p] = Free /\ outside[p] = 0
    <3>1. ~isValidObject(p)
        BY <2>2, <1>3 DEF DependentObjectsAssumption
    <3> QED BY <3>1, <1>3, <1>4 DEF DependentsInv, UniqueIDs
  <2>3. \A p \in Handles : objectTable'[p].uniqueID < uid
      BY <1>3 DEF DependentsInv, UniqueIDs
  <2> QED BY <1>1, <2>1, <2>2, <2>3 DEF UniqueIDs
<1>12. Ends'
  <2> SUFFICES ASSUME NEW p \in Handles
               PROVE  /\ isValidObject(p)' /\ objectTable'[p].state = "normal" => objectTable'[p].intRefCount > 0
                      /\ objectTable'[p].state # "normal" => objectTable'[p].intRefCount = 0
                      /\ objectTable'[p].state = "signalled" => objectTable'[p].dependentObject = NoHandle
      BY DEF Ends
  <2>1. CASE p = h
      BY <2>1, <1>3, <1>4 DEF DependentsInv, Ends
  <2>2. CASE p # h
      BY <2>2, <1>3 DEF DependentsInv, Ends
  <2> QED BY <2>1, <2>2
<1>13. Messages'
  <2> SUFFICES ASSUME NEW v \in Threads, NEW g, g = pending'[v]
               PROVE  /\ g.at # "idle" => Attachable(g.handle, g.dependent) /\ g.uniqueID # 0
                      /\ g.at = "idle" => g.handle = NoHandle
                      /\ g.at = "clear" => objectTable'[g.handle].dependentObject = g.dependent
                                           /\ g.handle \in attached'[v]
      BY DEF Messages
  <2>1. CASE v = t
      BY <2>1, <1>5 DEF Idle
  <2>2. CASE v # t
    <3>1. g = pending[v] /\ (g.at # "idle" => g.handle \in Handles)
        BY <2>2, <1>5, TwoHandles DEF DependentsInv, Messages
    <3>2. g.at = "clear" => g.handle # h
        BY <2>2, <3>1, <1>4 DEF Detaching
    <3> QED BY <3>1, <3>2, <1>3, <1>6 DEF DependentsInv, Messages
  <2> QED BY <2>1, <2>2
<1>14. Attachers'
  <2> SUFFICES ASSUME NEW p \in Handles
               PROVE  /\ \A v, w \in Threads : p \in attached'[v] /\ p \in attached'[w] => v = w
                      /\ \A v \in Threads : p \in attached'[v] => objectTable'[p].dependentObject # NoHandle
      BY DEF Attachers
  <2>1. CASE p = h
      BY <2>1, <1>6
  <2>2. CASE p # h
      BY <2>2, <1>3, <1>6 DEF DependentsInv, Attachers
  <2> QED BY <2>1, <2>2
<1>15. PromisesKept'
    BY <1>1, <1>5, PromisesFinite DEF DependentsInv, TypeOK, PromisesKept
<1>16. DependentsExist'
  <2> SUFFICES ASSUME NEW p \in Handles, isValidObject(p)',
                      NEW e, e = objectTable'[p].dependentObject, e # NoHandle
               PROVE  Attachable(p, e) /\ (~Forgotten(p)' => isValidObject(e)')
      BY DEF DependentsExist
  <2>1. p # h /\ isValidObject(p) /\ e = objectTable[p].dependentObject
      BY <1>3
  <2>2. e \in Handles /\ Attachable(p, e) /\ (~Forgotten(p) => isValidObject(e))
      BY <2>1, TwoHandles DEF DependentsInv, DependentsExist
  <2> QED BY <2>1, <2>2, <1>3, <1>4
<1>17. AnswersCurrent'
  <2> SUFFICES ASSUME NEW v \in Threads, NEW c \in Certs, NEW g, g = pending'[v],
                      g.at = "asked", About(v, g.handle)', c \in {g.handle, g.dependent}
               PROVE  g.actionFlags \subseteq objectTable'[c].permitted
      BY DEF AnswersCurrent
  <2>1. v # t /\ g = pending[v]
      BY <1>5 DEF Idle
  <2>2. g.handle \in Handles /\ c \in Handles
      BY <2>1, TwoHandles DEF DependentsInv, Messages
  <2>3. About(v, g.handle)
      BY <1>3, <2>1, <2>2 DEF About
  <2> QED BY <1>3, <2>1, <2>2, <2>3 DEF DependentsInv, AnswersCurrent
<1>18. RefsBalanced'
  <2>1. ASSUME NEW p \in Handles PROVE DependOn(p)' = DependOn(p)
    <3>1. p # NoHandle /\ \A q \in Handles : isValidObject(q)' <=> isValidObject(q)
        BY <1>3 DEF DependentObjectsAssumption
    <3>2. \A q : q \in DependOn(p)' <=> q \in DependOn(p)
        BY <1>3, <1>4, <3>1 DEF DependOn
    <3> QED BY <3>2
  <2>2. \A p \in Handles : isValidObject(p)' => isValidObject(p)
      BY <1>3
  <2> QED BY <1>1, <1>3, <2>1, <2>2 DEF DependentsInv, RefsBalanced
<1>19. ConstrainedByCert'
  <2>1. \A p \in Handles : isValidObject(p) /\ objectTable[p].dependentObject # NoHandle =>
          objectTable[p].dependentObject \in Handles
      BY TwoHandles DEF DependentsInv, DependentsExist
  <2>2. ASSUME NEW p \in Handles, isValidObject(p)', objectTable'[p].dependentObject # NoHandle, ~Forgotten(p)'
        PROVE  /\ isValidObject(p) /\ ~Forgotten(p)
               /\ objectTable'[p].dependentObject = objectTable[p].dependentObject
               /\ objectTable'[p].permitted = objectTable[p].permitted
               /\ LET e == objectTable[p].dependentObject IN objectTable'[e].permitted = objectTable[e].permitted
    <3>1. p # h
        BY <2>2, <1>3
    <3> QED BY <3>1, <2>1, <2>2, <1>3, <1>4
  <2> QED BY <2>2, StillConstrained
<1> QED BY <1>10, <1>11, <1>12, <1>13, <1>14, <1>15, <1>16, <1>17, <1>18, <1>19 DEF DependentsInv

\* ClearFails preserves the invariant: the slot keeps an object that does not count it.
LEMMA ClearFailsKeeps ==
  ASSUME DependentObjectsAssumption, DependentsInv, ~late, NEW t \in Threads, ClearFails(t),
         NEW h, h = pending[t].handle, NEW d, d = pending[t].dependent
  PROVE  DependentsInv'
<1>1. /\ objectTable' = objectTable /\ outside' = outside /\ uid' = uid /\ pending[t].at = "clear"
      /\ pending' = [pending EXCEPT ![t] = Idle]
      /\ attached' = [attached EXCEPT ![t] = @ \ {h}]
      /\ objectTable[d].uniqueID = pending[t].uniqueID /\ objectTable[d].state = "left"
    BY DEF ClearFails, Detached
<1>2. /\ h \in Handles /\ isValidObject(h) /\ Clearing(h) /\ d \in Handles /\ objectTable[h].dependentObject = d
      /\ ~Clearing(h)' /\ ~Forgotten(h)'
      /\ \A p \in Handles \ {h} : Clearing(p)' = Clearing(p) /\ Forgotten(p)' = Forgotten(p)
      /\ \A v \in Threads \ {t} : ~Detaching(v, h)
    BY <1>1, OneDetaches
<1>3. ~Forgotten(h)
    BY <1>1, <1>2 DEF Forgotten
<1>4. /\ \A v \in Threads \ {t} : pending'[v] = pending[v]
      /\ pending'[t] = Idle /\ pending' \in [Threads -> Message]
      /\ \A p \in Handles : Promised(p)' \in Nat /\ Promised(p)' <= Promised(p)
    BY <1>1, ThroughKeepsRest
<1>5. /\ attached' \in [Threads -> SUBSET Handles]
      /\ \A v \in Threads : attached'[v] \subseteq attached[v]
      /\ \A v \in Threads \ {t} : attached'[v] = attached[v]
    BY <1>1 DEF DependentsInv, TypeOK
<1>6. \A p \in Handles : Forgotten(p)' <=> Forgotten(p)
    BY <1>2, <1>3
<1>7. TypeOK' /\ UniqueIDs' /\ Ends'
    BY <1>1, <1>4, <1>5 DEF DependentsInv, TypeOK, UniqueIDs, Idle, Ends
<1>8. Attachers'
    BY <1>1, <1>5 DEF DependentsInv, Attachers
<1>9. Messages'
  <2> SUFFICES ASSUME NEW v \in Threads, NEW g, g = pending'[v]
               PROVE  /\ g.at # "idle" => Attachable(g.handle, g.dependent) /\ g.uniqueID # 0
                      /\ g.at = "idle" => g.handle = NoHandle
                      /\ g.at = "clear" => objectTable[g.handle].dependentObject = g.dependent
                                           /\ g.handle \in attached'[v]
      BY <1>1 DEF Messages
  <2>1. CASE v = t
      BY <2>1, <1>4 DEF Idle
  <2>2. CASE v # t
      BY <2>2, <1>4, <1>5 DEF DependentsInv, Messages
  <2> QED BY <2>1, <2>2
<1>10. PromisesKept'
    BY <1>1, <1>4, PromisesFinite DEF DependentsInv, TypeOK, PromisesKept
<1>11. DependentsExist'
    BY <1>1, <1>6 DEF DependentsInv, DependentsExist
<1>12. AnswersCurrent'
  <2> SUFFICES ASSUME NEW v \in Threads, NEW c \in Certs, NEW g, g = pending'[v],
                      g.at = "asked", g.uniqueID = objectTable[g.handle].uniqueID, c \in {g.handle, g.dependent}
               PROVE  g.actionFlags \subseteq objectTable[c].permitted
      BY <1>1 DEF AnswersCurrent, About
  <2> QED BY <1>4 DEF DependentsInv, AnswersCurrent, About, Idle
<1>13. RefsBalanced'
  <2> SUFFICES ASSUME NEW p \in Handles, isValidObject(p)
               PROVE  objectTable[p].intRefCount = outside[p] +
                        IF objectTable[p].state = "left" THEN 0 ELSE Cardinality(DependOn(p)')
      BY <1>1 DEF RefsBalanced
  <2>1. CASE p = d
      BY <2>1, <1>1 DEF DependentsInv, RefsBalanced
  <2>2. CASE p # d
    <3>1. \A q : q \in DependOn(p)' <=> q \in DependOn(p)
        BY <2>2, <1>1, <1>2 DEF DependOn
    <3>2. DependOn(p)' = DependOn(p)
        BY <3>1
    <3> QED BY <3>2 DEF DependentsInv, RefsBalanced
  <2> QED BY <2>1, <2>2
<1>14. ConstrainedByCert'
    BY <1>1, <1>6 DEF DependentsInv, ConstrainedByCert
<1> QED BY <1>7, <1>8, <1>9, <1>10, <1>11, <1>12, <1>13, <1>14 DEF DependentsInv

------------------------------------------------------------------------------
(* The theorems *)

\* Nothing exists at the start.
LEMMA InitDependents ==
  ASSUME DependentObjectsAssumption, Init
  PROVE  OnTime
<1>1. /\ TypeOK /\ UniqueIDs /\ Ends /\ Messages /\ Attachers /\ DependentsExist /\ AnswersCurrent
      /\ ConstrainedByCert
    BY DEF Init, Free, Idle, TypeOK, UniqueIDs, Ends, Messages, Attachers, DependentsExist, AnswersCurrent,
           ConstrainedByCert
<1>2. RefsBalanced
    BY DEF Init, Free, RefsBalanced
<1>3. ASSUME NEW h \in Handles PROVE Promised(h) <= outside[h]
  <2>1. Giving(h) = {} /\ Keeping(h) = {}
      BY DEF Init, Idle, Giving, Keeping, Attaching, Detaching
  <2>2. Cardinality(Giving(h)) = 0
      BY <2>1, FS_EmptySet
  <2> QED BY <2>1, <2>2 DEF Init, Promised
<1> QED BY <1>1, <1>2, <1>3 DEF OnTime, DependentsInv, PromisesKept

\* Every step that is on time preserves the invariant.
LEMMA NextKeeps ==
  ASSUME DependentObjectsAssumption, OnTime, [Next]_vars
  PROVE  OnTime'
<1> SUFFICES ASSUME ~late' PROVE DependentsInv'
    BY DEF OnTime
<1>0. CASE UNCHANGED vars
  <2>1. /\ DependentsInv
        /\ objectTable' = objectTable /\ outside' = outside /\ pending' = pending /\ attached' = attached
        /\ late' = late /\ uid' = uid
      BY <1>0 DEF vars, OnTime
  <2>2. /\ \A p : Promised(p)' = Promised(p) /\ Clearing(p)' = Clearing(p)
        /\ \A p \in Handles : Forgotten(p)' = Forgotten(p)
        /\ AnswersCurrent'
      BY <2>1, QuietStep
  <2>3. TypeOK' /\ UniqueIDs' /\ Ends' /\ Messages' /\ Attachers' /\ PromisesKept'
      BY <2>1, <2>2 DEF DependentsInv, TypeOK, UniqueIDs, Ends, Messages, Attachers, PromisesKept
  <2>4. DependentsExist' /\ ConstrainedByCert'
      BY <2>1, <2>2 DEF DependentsInv, DependentsExist, ConstrainedByCert
  <2>5. RefsBalanced'
    <3>1. \A p \in Handles : DependOn(p)' = DependOn(p)
        BY <2>1, <2>2 DEF DependOn
    <3> QED BY <2>1, <3>1 DEF DependentsInv, RefsBalanced
  <2> QED BY <2>2, <2>3, <2>4, <2>5 DEF DependentsInv
<1> SUFFICES ASSUME Next PROVE DependentsInv'
    BY <1>0
<1>late. ~late
    BY DEF Next, DecRefCount, GiveUp, SignalObject, RemoveObject, Create, SetDependentObject, CheckCapability, FinishDependent,
           ClearDependentObject, ForgetDependent, ClearFails
<1>inv. DependentsInv
    BY <1>late DEF OnTime
<1>1. ASSUME NEW h \in Handles, DecRefCount(h) PROVE DependentsInv'
    BY <1>1, <1>late, <1>inv, DecRefCountKeeps
<1>2. ASSUME NEW h \in Handles, GiveUp(h) PROVE DependentsInv'
    BY <1>2, <1>late, <1>inv, GiveUpKeeps
<1>3. ASSUME NEW h \in Handles, SignalObject(h) PROVE DependentsInv'
    BY <1>3, <1>late, <1>inv, SignalObjectKeeps
<1>4. ASSUME NEW h \in Handles, RemoveObject(h) PROVE DependentsInv'
    BY <1>4, <1>late, <1>inv, RemoveObjectKeeps
<1>5. ASSUME NEW h \in Handles, NEW usages \in SUBSET Usages \ {{}}, Create(h, usages) PROVE DependentsInv'
    BY <1>5, <1>late, <1>inv, CreateKeeps
<1>6. ASSUME NEW t \in Threads, NEW h \in Handles, NEW d \in Handles, NEW inc \in BOOLEAN,
             SetDependentObject(t, h, d, inc)
      PROVE  DependentsInv'
    BY <1>6, <1>late, <1>inv, SetDependentObjectKeeps
<1>7. ASSUME NEW t \in Threads, CheckCapability(t) PROVE DependentsInv'
    BY <1>7, <1>late, <1>inv, CheckCapabilityKeeps
<1>8. ASSUME NEW t \in Threads, FinishDependent(t) PROVE DependentsInv'
    BY <1>8, <1>late, <1>inv, AttachKeeps, TurnedAwayKeeps
<1>9. ASSUME NEW t \in Threads, NEW h \in Handles, ClearDependentObject(t, h) PROVE DependentsInv'
  <2>1. ClearNothing(t, h) \/ ClearReference(t, h) \/ ClearLastReference(t, h)
      BY <1>9 DEF ClearDependentObject
  <2> QED BY <2>1, <1>9, <1>late, <1>inv, ClearNothingKeeps, ClearReferenceKeeps, ClearLastReferenceKeeps
<1>10. ASSUME NEW t \in Threads, ForgetDependent(t) PROVE DependentsInv'
    BY <1>10, <1>late, <1>inv, ForgetDependentKeeps
<1>11. ASSUME NEW t \in Threads, ClearFails(t) PROVE DependentsInv'
    BY <1>11, <1>late, <1>inv, ClearFailsKeeps
<1> QED BY <1>1, <1>2, <1>3, <1>4, <1>5, <1>6, <1>7, <1>8, <1>9, <1>10, <1>11 DEF Next

\* As long as every attachment finds the slot as it was checked, the invariant of the dependent objects holds
\* (setDependentObject, clearDependentObject and the end of an object, each with the table unlocked in the
\* middle, among any threads, with DESTROYs that fail).
THEOREM DependentsCorrect ==
  ASSUME DependentObjectsAssumption
  PROVE  Spec => []OnTime
  BY InitDependents, NextKeeps, PTL DEF Spec

\* So long, reference counts agree with the references, for any objects and threads: nothing is counted for
\* an object that has gone, and only an object whose DESTROY has failed is in a slot that does not count.
THEOREM RefsBalancedAlways ==
  ASSUME DependentObjectsAssumption
  PROVE  Spec => []RefsBalanced
<1>1. OnTime => RefsBalanced
    BY DEF OnTime, DependentsInv, RefsBalanced
<1> QED BY <1>1, DependentsCorrect, PTL

\* So long, a context permits no more than the certificate that it is attached to, whatever is attached,
\* detached, destroyed and created again while the certificate is asked.
THEOREM ConstrainedByCertAlways ==
  ASSUME DependentObjectsAssumption
  PROVE  Spec => []ConstrainedByCert
<1>1. OnTime => ConstrainedByCert
    BY DEF OnTime, DependentsInv, ConstrainedByCert
<1> QED BY <1>1, DependentsCorrect, PTL

-----------------------------------------------------------------------------
(***************************************************************************)
(* HandleAllocation                                                        *)
(***************************************************************************)
-----------------------------------------------------------------------------
(* The order of the table has every handle but 0 once.                     *)
LEMMA TurnIsExact ==
  ASSUME HandleAssumption, NEW turn, GoesRound(MAX_NO_OBJECTS, Steps, turn), NEW m, m = MAX_NO_OBJECTS - 1
  PROVE  /\ m \in Nat \ {0} /\ m + 1 = MAX_NO_OBJECTS
         /\ \A k \in 1..m : turn[k] \in 1..m
         /\ \A v \in 1..m : \E k \in 1..m : turn[k] = v
         /\ \A j, k \in 1..m : turn[j] = turn[k] => j = k
         /\ \A k \in 1..m : Steps[turn[k]] = IF k = m THEN turn[1] ELSE turn[k + 1]
<1>1. m \in Nat \ {0} /\ m + 1 = MAX_NO_OBJECTS
  BY DEF HandleAssumption
<1>2. /\ {turn[k] : k \in 1..m} = 1..m
      /\ \A k \in 1..m : Steps[turn[k]] = IF k = m THEN turn[1] ELSE turn[k + 1]
  BY DEF GoesRound
<1>3. \A k \in 1..m : turn[k] \in 1..m
  BY <1>2
<1>4. \A v \in 1..m : \E k \in 1..m : turn[k] = v
  BY <1>2
<1>5. PICK f : f = [k \in 1..m |-> turn[k]]
  OBVIOUS
<1>6. f \in Surjection(1..m, 1..m)
  BY <1>3, <1>4, <1>5 DEF Surjection
<1>7. IsFiniteSet(1..m)
  BY <1>1, FS_Interval
<1>8. f \in Injection(1..m, 1..m)
  BY <1>6, <1>7, FS_SurjSameCardinalityImpliesInj
<1>9. \A j, k \in 1..m : f[j] = f[k] => j = k
  BY <1>8 DEF Injection, IsInjective
<1> QED
  BY <1>1, <1>2, <1>3, <1>4, <1>5, <1>9

(* The search from the k-th handle of the order goes on with the next.     *)
LEMMA PathFollowsTurn ==
  ASSUME HandleAssumption, NEW turn, GoesRound(MAX_NO_OBJECTS, Steps, turn), NEW m, m = MAX_NO_OBJECTS - 1,
         NEW k \in 1..m
  PROVE  \A i \in 0..m : Path(turn[k])[i] = turn[IF k + 1 + i <= m THEN k + 1 + i
                                                 ELSE IF k + 1 + i <= 2 * m THEN k + 1 + i - m ELSE 1]
<1> DEFINE At(i) == IF k + 1 + i <= m THEN k + 1 + i ELSE IF k + 1 + i <= 2 * m THEN k + 1 + i - m ELSE 1
           Walk2(f) == [i \in 0..MAX_NO_OBJECTS - 1 |-> IF i = 0 THEN Steps[turn[k]] ELSE Steps[f[i - 1]]]
<1>1. m \in Nat \ {0} /\ MAX_NO_OBJECTS - 1 = m
  BY TurnIsExact
<1>2. \A i \in 0..m : At(i) \in 1..m
  BY <1>1
<1>3. Steps[turn[k]] = turn[At(0)]
  <2>1. Steps[turn[k]] = IF k = m THEN turn[1] ELSE turn[k + 1]
    BY TurnIsExact
  <2>2. At(0) = IF k = m THEN 1 ELSE k + 1
    BY <1>1
  <2> QED
    BY <2>1, <2>2
<1>4. ASSUME NEW i \in 1..m
      PROVE  Steps[turn[At(i - 1)]] = turn[At(i)]
  <2>1. PICK j \in 1..m : j = At(i - 1)
    <3>1. i - 1 \in 0..m
      BY <1>1
    <3> QED
      BY <1>2, <3>1
  <2>2. Steps[turn[j]] = IF j = m THEN turn[1] ELSE turn[j + 1]
    BY TurnIsExact
  <2>3. At(i) = IF j = m THEN 1 ELSE j + 1
    BY <1>1, <2>1
  <2> QED
    BY <2>1, <2>2, <2>3
<1>5. PICK w : w = [i \in 0..m |-> turn[At(i)]]
  OBVIOUS
<1>6. w = Walk2(w)
  <2>1. ASSUME NEW i \in 0..m
        PROVE  w[i] = IF i = 0 THEN Steps[turn[k]] ELSE Steps[w[i - 1]]
    <3>1. CASE i = 0
      BY <1>3, <1>5, <3>1
    <3>2. CASE i # 0
      <4>1. i \in 1..m /\ i - 1 \in 0..m
        BY <1>1, <3>2
      <4> HIDE DEF At
      <4> QED
        BY <1>4, <1>5, <3>2, <4>1
    <3> QED
      BY <3>1, <3>2
  <2>2. Walk2(w) = [i \in 0..m |-> w[i]]
    BY <1>1, <2>1
  <2> QED
    BY <1>5, <2>2
<1> HIDE DEF At
<1>7. Path(turn[k]) = Walk2(Path(turn[k]))
  BY <1>6 DEF Path
<1>8. PICK p : p = Path(turn[k])
  OBVIOUS
<1>9. /\ p[0] = Steps[turn[k]]
      /\ \A i \in 1..m : p[i] = Steps[p[i - 1]]
  BY <1>1, <1>7, <1>8
<1>10. \A i \in 0..m : p[i] = turn[At(i)]
  <2>1. SUFFICES ASSUME NEW a \in {i \in 0..m : p[i] # turn[At(i)]},
                        \A i \in {i \in 0..m : p[i] # turn[At(i)]} : a <= i
                 PROVE  FALSE
    <3>1. {i \in 0..m : p[i] # turn[At(i)]} \subseteq Nat
      OBVIOUS
    <3> QED
      BY <3>1, LeastNatural
  <2>2. a # 0 /\ a \in 0..m
    BY <1>3, <1>9
  <2>3. a \in 1..m /\ a - 1 \in 0..m /\ ~(a <= a - 1)
    BY <1>1, <2>2
  <2>4. p[a - 1] = turn[At(a - 1)]
    BY <2>1, <2>3
  <2>5. p[a] = turn[At(a)]
    BY <1>4, <1>9, <2>3, <2>4
  <2> QED
    BY <2>1, <2>5
<1> QED
  BY <1>8, <1>10 DEF At

(* The search from any handle but 0 comes to every other once and at the   *)
(* end to the handle itself; from a handle on its way it goes on the same. *)
LEMMA PathIsRound ==
  ASSUME HandleAssumption, NEW turn, GoesRound(MAX_NO_OBJECTS, Steps, turn), NEW m, m = MAX_NO_OBJECTS - 1,
         NEW v \in 1..m
  PROVE  /\ \A i \in 0..m : Path(v)[i] \in 1..m
         /\ \A i, j \in 0..m - 1 : Path(v)[i] = Path(v)[j] => i = j
         /\ \A w \in 1..m : \E i \in 0..m - 1 : Path(v)[i] = w
         /\ Path(v)[m - 1] = v
         /\ \A n, i \in 0..m : n + 1 + i <= m => Path(Path(v)[n])[i] = Path(v)[n + 1 + i]
<1> DEFINE At(k, i) == IF k + 1 + i <= m THEN k + 1 + i ELSE IF k + 1 + i <= 2 * m THEN k + 1 + i - m ELSE 1
<1>1. m \in Nat \ {0}
  BY TurnIsExact
<1>2. \A k \in 1..m, i \in 0..m : Path(turn[k])[i] = turn[At(k, i)]
  BY PathFollowsTurn
<1>3. PICK k \in 1..m : turn[k] = v
  BY TurnIsExact
<1>4. \A j \in 1..m, i \in 0..m : At(j, i) \in 1..m
  BY <1>1
<1>5. \A i \in 0..m : Path(v)[i] = turn[At(k, i)] /\ At(k, i) \in 1..m
  BY <1>2, <1>3, <1>4
<1>6. \A i, j \in 0..m - 1 : At(k, i) = At(k, j) => i = j
  BY <1>1
<1>7. ASSUME NEW l \in 1..m
      PROVE  \E i \in 0..m - 1 : At(k, i) = l
  <2>1. CASE l > k
    <3>1. l - k - 1 \in 0..m - 1 /\ At(k, l - k - 1) = l
      BY <1>1, <2>1
    <3> QED
      BY <3>1
  <2>2. CASE ~(l > k)
    <3>1. l + m - k - 1 \in 0..m - 1 /\ At(k, l + m - k - 1) = l
      BY <1>1, <2>2
    <3> QED
      BY <3>1
  <2> QED
    BY <2>1, <2>2
<1>8. m - 1 \in 0..m /\ At(k, m - 1) = k
  BY <1>1
<1>9. \A n, i \in 0..m : n + 1 + i <= m => n + 1 + i \in 0..m /\ At(At(k, n), i) = At(k, n + 1 + i)
  BY <1>1
<1> HIDE DEF At
<1>t. /\ \A j \in 1..m : turn[j] \in 1..m
      /\ \A j, l \in 1..m : turn[j] = turn[l] => j = l
  BY TurnIsExact
<1>10. \A i \in 0..m : Path(v)[i] \in 1..m
  BY <1>5, <1>t
<1>11. \A i, j \in 0..m - 1 : Path(v)[i] = Path(v)[j] => i = j
  <2>1. 0..m - 1 \subseteq 0..m
    BY <1>1
  <2> QED
    BY <1>5, <1>6, <1>t, <2>1
<1>12. ASSUME NEW w \in 1..m
       PROVE  \E i \in 0..m - 1 : Path(v)[i] = w
  <2>1. PICK l \in 1..m : turn[l] = w
    BY TurnIsExact
  <2>2. PICK i \in 0..m - 1 : At(k, i) = l
    BY <1>7
  <2>3. i \in 0..m
    BY <1>1
  <2> QED
    BY <1>5, <2>1, <2>2, <2>3
<1>13. Path(v)[m - 1] = v
  BY <1>3, <1>5, <1>8
<1>14. \A n, i \in 0..m : n + 1 + i <= m => Path(Path(v)[n])[i] = Path(v)[n + 1 + i]
  BY <1>2, <1>5, <1>9
<1> QED
  BY <1>10, <1>11, <1>12, <1>13, <1>14

(* What a search from a handle that is no system object's comes to: the    *)
(* first free entry behind the handle, at the latest the handle's own, or, *)
(* when there is none, the handle's own after a whole round.               *)
LEMMA SearchFinds ==
  ASSUME HandleAssumption, NEW turn, GoesRound(MAX_NO_OBJECTS, Steps, turn), NEW m, m = MAX_NO_OBJECTS - 1,
         NEW v \in 1..m
  PROVE  LET entry == findFreeObjectEntry(v) IN
         /\ entry.iterations \in 0..m - 1
         /\ \A j \in 0..entry.iterations - 1 : ~isFreeObject(Path(v)[j])
         /\ \/ /\ isFreeObject(Path(v)[entry.iterations])
               /\ entry.handle = Path(v)[entry.iterations]
            \/ /\ ~isFreeObject(Path(v)[entry.iterations])
               /\ entry.iterations = m - 1
               /\ entry.handle = CRYPT_ERROR_OVERFLOW
<1>1. m \in Nat \ {0} /\ MAX_NO_OBJECTS = m + 1
  BY TurnIsExact
<1>2. /\ \A i, j \in 0..m - 1 : Path(v)[i] = Path(v)[j] => i = j
      /\ Path(v)[m - 1] = v
  BY PathIsRound
<1>3. m - 1 \in {i \in 0..MAX_NO_OBJECTS : SearchEnds(v, i)}
  BY <1>1, <1>2 DEF SearchEnds
<1>4. PICK n \in {i \in 0..MAX_NO_OBJECTS : SearchEnds(v, i)} :
             \A i \in {i \in 0..MAX_NO_OBJECTS : SearchEnds(v, i)} : n <= i
  <2>1. {i \in 0..MAX_NO_OBJECTS : SearchEnds(v, i)} \subseteq Nat
    BY <1>1
  <2> QED
    BY <1>3, <2>1, LeastNatural
<1>5. \E i \in 0..MAX_NO_OBJECTS : SearchEnds(v, i) /\ \A j \in 0..i - 1 : ~SearchEnds(v, j)
  <2>1. \A j \in 0..n - 1 : j \in 0..MAX_NO_OBJECTS /\ ~(n <= j)
    BY <1>1, <1>4
  <2> QED
    BY <1>4, <2>1
<1>6. PICK l : l = LastIteration(v)
  OBVIOUS
<1>7. l \in 0..MAX_NO_OBJECTS /\ SearchEnds(v, l) /\ \A j \in 0..l - 1 : ~SearchEnds(v, j)
  BY <1>5, <1>6 DEF LastIteration
<1>8. l \in 0..m - 1 /\ l # MAX_NO_OBJECTS
  <2>1. ~(m - 1 \in 0..l - 1)
    BY <1>3, <1>7
  <2> QED
    BY <1>1, <1>7, <2>1
<1>9. \A j \in 0..l - 1 : ~isFreeObject(Path(v)[j])
  BY <1>7 DEF SearchEnds, Found
<1>10. findFreeObjectEntry(v) = [handle |-> Outcome(v, l), iterations |-> l]
  BY <1>6 DEF findFreeObjectEntry
<1>11. CASE isFreeObject(Path(v)[l])
  BY <1>8, <1>9, <1>10, <1>11 DEF Outcome, Found
<1>12. CASE ~isFreeObject(Path(v)[l])
  <2>1. Path(v)[l] = v
    BY <1>7, <1>8, <1>12 DEF SearchEnds, Found
  <2>2. l = m - 1
    BY <1>1, <1>2, <1>8, <2>1
  <2> QED
    BY <1>8, <1>9, <1>10, <1>12, <2>2 DEF Outcome, Found
<1> QED
  BY <1>11, <1>12

(* Every behaviour starts with the system objects and a handle that is     *)
(* none of theirs.                                                         *)
LEMMA AllocationInitial ==
  ASSUME HandleAssumption, AllocationInit
  PROVE  AllocationInv /\ IDsInv
<1>1. PICK t \in Starts : objectHandle = StartHandle(t)
  BY DEF AllocationInit
<1>2. t % MAX_NO_OBJECTS \in 0..MAX_NO_OBJECTS - 1
  BY DEF HandleAssumption
<1>3. objectHandle \in NO_SYSTEM_OBJECTS..MAX_NO_OBJECTS - 1
  BY <1>1, <1>2 DEF StartHandle, LFSR_MASK, HandleAssumption
<1>4. AllocationTypeOK
  <2>1. uniqueID = [h \in TableHandles |-> IF h < NO_SYSTEM_OBJECTS THEN h ELSE FREE]
    BY DEF AllocationInit
  <2>2. uniqueID \in [TableHandles -> Nat \union {FREE}]
    BY <2>1 DEF TableHandles
  <2>3. \A h \in 0..NO_SYSTEM_OBJECTS - 1 : h \in TableHandles /\ h < NO_SYSTEM_OBJECTS
    BY DEF TableHandles, HandleAssumption
  <2>4. objectUniqueID \in NO_SYSTEM_OBJECTS..INT_MAX - 1
    BY DEF AllocationInit, HandleAssumption
  <2> QED
    BY <1>3, <2>1, <2>2, <2>3, <2>4 DEF AllocationTypeOK
<1>5. OverflowExact
  BY DEF AllocationInit, OverflowExact, NONE, CRYPT_ERROR_OVERFLOW, CRYPT_ERROR_INTERNAL
<1>6. GivenAreBehind
  BY DEF AllocationInit, GivenAreBehind
<1>7. IDsBehind
  BY DEF AllocationInit, IDsBehind, Objects, isFreeObject, TableHandles, HandleAssumption
<1>8. DistinctIDs
  <2>1. \A h \in Objects : uniqueID[h] = h
    BY DEF AllocationInit, Objects, isFreeObject, TableHandles
  <2> QED
    BY <2>1 DEF DistinctIDs
<1> QED
  BY <1>4, <1>5, <1>6, <1>7, <1>8 DEF AllocationInv, IDsInv

(* A free entry is neither entry 0 nor a system object's.                  *)
LEMMA FreeIsDynamic ==
  ASSUME HandleAssumption, AllocationTypeOK, NEW m, m = MAX_NO_OBJECTS - 1
  PROVE  /\ \A h \in TableHandles : isFreeObject(h) => h >= NO_SYSTEM_OBJECTS /\ h \in 1..m
         /\ objectHandle \in 1..m
         /\ 1..m \subseteq TableHandles
         /\ \A h \in TableHandles : h # 0 => h \in 1..m
         /\ 0 \in TableHandles /\ ~isFreeObject(0)
<1>1. \A h \in TableHandles : isFreeObject(h) => ~(h \in 0..NO_SYSTEM_OBJECTS - 1)
  BY DEF AllocationTypeOK, isFreeObject, FREE
<1>2. 0 \in 0..NO_SYSTEM_OBJECTS - 1
  BY DEF HandleAssumption
<1> QED
  BY <1>1, <1>2 DEF AllocationTypeOK, TableHandles, HandleAssumption

(* A search that fails has seen every entry used.                          *)
LEMMA FailsWhenFull ==
  ASSUME HandleAssumption, AllocationTypeOK, NEW turn, GoesRound(MAX_NO_OBJECTS, Steps, turn),
         findFreeObjectEntry(objectHandle).handle \in {CRYPT_ERROR_OVERFLOW, CRYPT_ERROR_INTERNAL}
  PROVE  /\ findFreeObjectEntry(objectHandle).handle = CRYPT_ERROR_OVERFLOW
         /\ findFreeObjectEntry(objectHandle).iterations = MAX_NO_OBJECTS - 2
         /\ Objects = TableHandles
<1>1. PICK m : m = MAX_NO_OBJECTS - 1
  OBVIOUS
<1>2. m \in Nat \ {0} /\ MAX_NO_OBJECTS - 2 = m - 1
  BY <1>1, TurnIsExact DEF HandleAssumption
<1>3. objectHandle \in 1..m /\ ~isFreeObject(0) /\ \A h \in TableHandles : h # 0 => h \in 1..m
  BY <1>1, FreeIsDynamic
<1>4. PICK entry : entry = findFreeObjectEntry(objectHandle)
  OBVIOUS
<1>5. /\ entry.iterations \in 0..m - 1
      /\ \A j \in 0..entry.iterations - 1 : ~isFreeObject(Path(objectHandle)[j])
      /\ \/ entry.handle = Path(objectHandle)[entry.iterations]
         \/ /\ ~isFreeObject(Path(objectHandle)[entry.iterations])
            /\ entry.iterations = m - 1
            /\ entry.handle = CRYPT_ERROR_OVERFLOW
  BY <1>1, <1>3, <1>4, SearchFinds
<1>6. /\ \A i \in 0..m : Path(objectHandle)[i] \in 1..m
      /\ \A w \in 1..m : \E i \in 0..m - 1 : Path(objectHandle)[i] = w
  BY <1>1, <1>3, PathIsRound
<1>7. Path(objectHandle)[entry.iterations] \in 1..m
  BY <1>2, <1>5, <1>6
<1>8. entry.handle # Path(objectHandle)[entry.iterations]
  BY <1>2, <1>4, <1>7 DEF CRYPT_ERROR_OVERFLOW, CRYPT_ERROR_INTERNAL
<1>9. \A i \in 0..m - 1 : ~isFreeObject(Path(objectHandle)[i])
  BY <1>2, <1>5, <1>8
<1>10. \A h \in TableHandles : ~isFreeObject(h)
  BY <1>3, <1>6, <1>9
<1> QED
  BY <1>1, <1>2, <1>4, <1>5, <1>8, <1>10 DEF Objects

(* A search that succeeds gives the first free handle behind the last one. *)
LEMMA GivesFirstFree ==
  ASSUME HandleAssumption, AllocationTypeOK, NEW turn, GoesRound(MAX_NO_OBJECTS, Steps, turn),
         NEW m, m = MAX_NO_OBJECTS - 1,
         findFreeObjectEntry(objectHandle).handle \notin {CRYPT_ERROR_OVERFLOW, CRYPT_ERROR_INTERNAL}
  PROVE  \E n \in 0..m - 1 :
           /\ findFreeObjectEntry(objectHandle).handle = Path(objectHandle)[n]
           /\ isFreeObject(Path(objectHandle)[n])
           /\ \A j \in 0..n - 1 : ~isFreeObject(Path(objectHandle)[j])
           /\ Path(objectHandle)[n] \in 1..m /\ Path(objectHandle)[n] \in TableHandles
           /\ Path(objectHandle)[n] >= NO_SYSTEM_OBJECTS
<1>1. objectHandle \in 1..m /\ 1..m \subseteq TableHandles /\ m \in Nat
  BY FreeIsDynamic, TurnIsExact
<1>2. PICK entry : entry = findFreeObjectEntry(objectHandle)
  OBVIOUS
<1>3. /\ entry.iterations \in 0..m - 1
      /\ \A j \in 0..entry.iterations - 1 : ~isFreeObject(Path(objectHandle)[j])
      /\ isFreeObject(Path(objectHandle)[entry.iterations])
      /\ entry.handle = Path(objectHandle)[entry.iterations]
  BY <1>1, <1>2, SearchFinds
<1>4. entry.iterations \in 0..m
  BY <1>1, <1>3
<1>5. Path(objectHandle)[entry.iterations] \in 1..m
  BY <1>1, <1>4, PathIsRound
<1>6. Path(objectHandle)[entry.iterations] >= NO_SYSTEM_OBJECTS
  BY <1>1, <1>3, <1>5, FreeIsDynamic
<1> QED
  BY <1>1, <1>2, <1>3, <1>5, <1>6

(* A creation keeps the invariant, and its handle is not one that Watched  *)
(* has been passed over for.                                               *)
LEMMA CreatesInTurn ==
  ASSUME HandleAssumption, AllocationInv, NEW turn, GoesRound(MAX_NO_OBJECTS, Steps, turn), krnlCreateObject
  PROVE  AllocationInv' /\ ReusedInTurnStep /\ (IDsInv /\ NotWrapped => IDsInv')
<1>1. PICK entry : entry = findFreeObjectEntry(objectHandle)
  OBVIOUS
<1>2. iterations' = entry.iterations /\ result' = entry.handle /\ freed' = NONE
  BY <1>1 DEF krnlCreateObject
<1>3. CASE entry.handle \in {CRYPT_ERROR_OVERFLOW, CRYPT_ERROR_INTERNAL}
  <2>1. UNCHANGED <<uniqueID, objectHandle, objectUniqueID, since>>
    BY <1>1, <1>3 DEF krnlCreateObject
  <2>2. entry.handle = CRYPT_ERROR_OVERFLOW /\ entry.iterations = MAX_NO_OBJECTS - 2 /\ Objects = TableHandles
    BY <1>1, <1>3, FailsWhenFull DEF AllocationInv
  <2>3. Objects' = Objects
    BY <2>1 DEF Objects, isFreeObject
  <2>4. AllocationTypeOK' /\ OverflowExact' /\ GivenAreBehind' /\ (IDsInv => IDsInv')
    BY <1>2, <2>1, <2>2, <2>3 DEF AllocationInv, AllocationTypeOK, OverflowExact, GivenAreBehind, IDsInv, IDsBehind, DistinctIDs
  <2>5. ReusedInTurnStep
    BY <2>2, HandleAssumption DEF ReusedInTurnStep, HandleAssumption
  <2> QED
    BY <2>4, <2>5 DEF AllocationInv
<1>4. CASE entry.handle \notin {CRYPT_ERROR_OVERFLOW, CRYPT_ERROR_INTERNAL}
  <2>1. PICK m : m = MAX_NO_OBJECTS - 1 /\ m \in Nat \ {0} /\ MAX_NO_OBJECTS - 2 = m - 1
    BY TurnIsExact DEF HandleAssumption
  <2>2. PICK v \in 1..m : v = objectHandle
    BY <2>1, FreeIsDynamic DEF AllocationInv
  <2>3. PICK n \in 0..m - 1 :
           /\ entry.handle = Path(v)[n]
           /\ isFreeObject(Path(v)[n])
           /\ \A j \in 0..n - 1 : ~isFreeObject(Path(v)[j])
           /\ Path(v)[n] \in 1..m /\ Path(v)[n] \in TableHandles
           /\ Path(v)[n] >= NO_SYSTEM_OBJECTS
    BY <1>1, <1>4, <2>1, <2>2, GivesFirstFree DEF AllocationInv
  <2>4. PICK e : e = Path(v)[n]
    OBVIOUS
  <2>5. /\ uniqueID' = [uniqueID EXCEPT ![e] = objectUniqueID]
        /\ objectHandle' = e /\ objectUniqueID' = NextUniqueID
        /\ since' = IF Watched \in Objects \/ e = Watched THEN {} ELSE since \union {e}
    BY <1>1, <1>4, <2>3, <2>4 DEF krnlCreateObject
  <2>6. AllocationTypeOK'
    <3>1. objectUniqueID \in NO_SYSTEM_OBJECTS..INT_MAX - 1 /\ objectUniqueID \in Nat
      BY DEF AllocationInv, AllocationTypeOK, HandleAssumption
    <3>2. objectUniqueID' \in NO_SYSTEM_OBJECTS..INT_MAX - 1
      BY <2>5, <3>1 DEF NextUniqueID, HandleAssumption
    <3>3. objectHandle' \in NO_SYSTEM_OBJECTS..MAX_NO_OBJECTS - 1
      BY <2>1, <2>3, <2>4, <2>5 DEF HandleAssumption
    <3>4. uniqueID' \in [TableHandles -> Nat \union {FREE}]
      BY <2>5, <3>1 DEF AllocationInv, AllocationTypeOK
    <3>5. \A h \in 0..NO_SYSTEM_OBJECTS - 1 : h # e /\ h \in TableHandles
      BY <2>3, <2>4 DEF TableHandles, HandleAssumption
    <3>6. \A h \in 0..NO_SYSTEM_OBJECTS - 1 : uniqueID'[h] = h
      BY <2>5, <3>5 DEF AllocationInv, AllocationTypeOK
    <3> QED
      BY <3>2, <3>3, <3>4, <3>6 DEF AllocationTypeOK
  <2>7. OverflowExact'
    BY <1>2, <1>4 DEF OverflowExact
  <2>8. Objects' = Objects \union {e}
    <3>1. \A h \in TableHandles : uniqueID'[h] = IF h = e THEN objectUniqueID ELSE uniqueID[h]
      BY <2>5 DEF AllocationInv, AllocationTypeOK
    <3>2. objectUniqueID # FREE
      BY DEF AllocationInv, AllocationTypeOK, FREE, HandleAssumption
    <3> QED
      BY <2>3, <2>4, <3>1, <3>2 DEF Objects, isFreeObject
  <2>9. ASSUME Watched \notin Objects, e # Watched
        PROVE  \A j \in 0..n : Path(v)[j] # Watched
    <3>1. isFreeObject(Watched)
      BY <2>9 DEF Objects, HandleAssumption
    <3>2. \A j \in 0..n : j \in 0..n - 1 \/ j = n
      BY <2>3
    <3> QED
      BY <2>3, <2>4, <2>9, <3>1, <3>2
  <2>10. ReusedInTurnStep
    <3> SUFFICES ASSUME e \in since, Watched \notin Objects
                 PROVE  FALSE
      BY <1>2, <2>3, <2>4 DEF ReusedInTurnStep
    <3>1. e # Watched
      BY DEF AllocationInv, GivenAreBehind
    <3>2. n \in 0..MAX_NO_OBJECTS - 2
      BY <2>1
    <3>3. \E j \in 0..n : Path(v)[j] = Watched
      BY <2>2, <2>4, <3>2 DEF AllocationInv, GivenAreBehind
    <3> QED
      BY <2>9, <3>1, <3>3
  <2>11. GivenAreBehind'
    <3> SUFFICES ASSUME Watched \notin Objects'
                 PROVE  /\ Watched \notin since'
                        /\ \A i \in 0..MAX_NO_OBJECTS - 2 :
                             Path(e)[i] \in since' => \E j \in 0..i : Path(e)[j] = Watched
      BY <2>5 DEF GivenAreBehind
    <3>1. Watched \notin Objects /\ e # Watched
      BY <2>8
    <3>2. since' = since \union {e}
      BY <2>5, <3>1
    <3>3. Watched \notin since'
      BY <3>1, <3>2 DEF AllocationInv, GivenAreBehind
    <3>4. SUFFICES ASSUME NEW i \in 0..m - 1, Path(e)[i] \in since',
                          \A j \in 0..i : Path(e)[j] # Watched
                   PROVE  FALSE
      BY <2>1, <3>3
    <3>5. PICK w \in 0..m - 1 : Path(v)[w] = Watched
      <4>1. Watched \in 1..m
        <5>1. isFreeObject(Watched) /\ Watched \in TableHandles
          BY <3>1 DEF Objects, HandleAssumption
        <5> QED
          BY <2>1, <5>1, FreeIsDynamic DEF AllocationInv
      <4> QED
        BY <2>1, <4>1, PathIsRound
    <3>6. \A k \in 0..m : n + 1 + k <= m => Path(e)[k] = Path(v)[n + 1 + k]
      <4>1. n \in 0..m
        BY <2>1
      <4>2. \A a, b \in 0..m : a + 1 + b <= m => Path(Path(v)[a])[b] = Path(v)[a + 1 + b]
        BY <2>1, PathIsRound
      <4> QED
        BY <2>4, <4>1, <4>2
    <3>7. w > n + 1 + i
      <4>1. w > n
        <5>1. ~(w \in 0..n)
          BY <2>9, <3>1, <3>5
        <5> QED
          BY <2>1, <5>1
      <4>2. SUFFICES ASSUME ~(w > n + 1 + i)
                     PROVE  FALSE
        BY <2>1
      <4>3. PICK k \in 0..i : n + 1 + k = w /\ k \in 0..m
        <5>1. w - n - 1 \in 0..i /\ w - n - 1 \in 0..m /\ n + 1 + (w - n - 1) = w
          BY <2>1, <4>1, <4>2
        <5> QED
          BY <5>1
      <4>4. Path(e)[k] = Watched
        BY <2>1, <3>5, <3>6, <4>3
      <4> QED
        BY <3>4, <4>3, <4>4
    <3>8. PICK l \in 0..m - 1 : l = n + 1 + i
      BY <2>1, <3>7
    <3>9. Path(e)[i] = Path(v)[l]
      BY <2>1, <3>6, <3>8
    <3>10. Path(v)[l] # e
      <4>1. l # n
        BY <2>1, <3>8
      <4>2. \A a, b \in 0..m - 1 : Path(v)[a] = Path(v)[b] => a = b
        BY <2>1, PathIsRound
      <4> QED
        BY <2>4, <4>1, <4>2
    <3>11. PICK j \in 0..l : Path(v)[j] = Watched
      <4>1. Path(v)[l] \in since /\ l \in 0..MAX_NO_OBJECTS - 2
        BY <2>1, <3>2, <3>4, <3>9, <3>10
      <4> QED
        BY <2>2, <3>1, <4>1 DEF AllocationInv, GivenAreBehind
    <3>12. j = w
      <4>1. j \in 0..m - 1
        BY <2>1, <3>8, <3>11
      <4>2. \A a, b \in 0..m - 1 : Path(v)[a] = Path(v)[b] => a = b
        BY <2>1, PathIsRound
      <4> QED
        BY <3>5, <3>11, <4>1, <4>2
    <3> QED
      BY <2>1, <3>7, <3>8, <3>11, <3>12
  <2>12. IDsInv /\ NotWrapped => IDsInv'
    <3> SUFFICES ASSUME IDsInv, NotWrapped
                 PROVE  IDsInv'
      OBVIOUS
    <3>1. objectUniqueID \in NO_SYSTEM_OBJECTS..INT_MAX - 1 /\ objectUniqueID' = objectUniqueID + 1
      BY <2>5 DEF AllocationInv, AllocationTypeOK, NextUniqueID, NotWrapped, HandleAssumption
    <3>2. \A h \in Objects' : /\ h \in TableHandles /\ (h = e \/ h \in Objects)
                             /\ uniqueID'[h] = IF h = e THEN objectUniqueID ELSE uniqueID[h]
      BY <2>5, <2>8 DEF AllocationInv, AllocationTypeOK, Objects
    <3>3. \A h \in Objects : h >= NO_SYSTEM_OBJECTS => uniqueID[h] \in NO_SYSTEM_OBJECTS..objectUniqueID - 1
      BY DEF IDsInv, IDsBehind
    <3>4. \A h \in Objects : ~(h >= NO_SYSTEM_OBJECTS) => uniqueID[h] = h
      <4>1. \A h \in Objects : ~(h >= NO_SYSTEM_OBJECTS) => h \in 0..NO_SYSTEM_OBJECTS - 1
        BY DEF Objects, TableHandles, HandleAssumption
      <4> QED
        BY <4>1 DEF AllocationInv, AllocationTypeOK
    <3>5. \A h \in Objects : uniqueID[h] # objectUniqueID
      <4> SUFFICES ASSUME NEW h \in Objects
                   PROVE  uniqueID[h] # objectUniqueID
        OBVIOUS
      <4>1. h \in Nat
        BY DEF Objects, TableHandles, HandleAssumption
      <4>2. CASE h >= NO_SYSTEM_OBJECTS
        BY <3>1, <3>3, <4>2 DEF HandleAssumption
      <4>3. CASE ~(h >= NO_SYSTEM_OBJECTS)
        BY <3>1, <3>4, <4>1, <4>3 DEF HandleAssumption
      <4> QED
        BY <4>2, <4>3
    <3>6. IDsBehind'
      <4> SUFFICES ASSUME NEW h \in Objects', h >= NO_SYSTEM_OBJECTS
                   PROVE  uniqueID'[h] \in NO_SYSTEM_OBJECTS..objectUniqueID' - 1
        BY DEF IDsBehind
      <4>1. CASE h = e
        BY <3>1, <3>2, <4>1 DEF HandleAssumption
      <4>2. CASE h # e
        <5>1. uniqueID'[h] = uniqueID[h] /\ uniqueID[h] \in NO_SYSTEM_OBJECTS..objectUniqueID - 1
          BY <3>2, <3>3, <4>2
        <5> QED
          BY <3>1, <5>1 DEF HandleAssumption
      <4> QED
        BY <4>1, <4>2
    <3>7. DistinctIDs'
      BY <3>2, <3>5 DEF IDsInv, DistinctIDs
    <3> QED
      BY <3>6, <3>7 DEF IDsInv
  <2> QED
    BY <2>6, <2>7, <2>10, <2>11, <2>12 DEF AllocationInv
<1> QED
  BY <1>3, <1>4

(* A destruction keeps the invariant: a handle given up is watched from    *)
(* then on.                                                                *)
LEMMA DestroyFrees ==
  ASSUME HandleAssumption, AllocationInv, destroyObjectData
  PROVE  AllocationInv' /\ ReusedInTurnStep /\ (IDsInv => IDsInv')
<1>1. PICK d \in Objects :
        /\ d >= NO_SYSTEM_OBJECTS
        /\ uniqueID' = [uniqueID EXCEPT ![d] = FREE] /\ freed' = d
        /\ since' = IF d = Watched THEN {} ELSE since
  BY DEF destroyObjectData
<1>2. result' = NONE /\ UNCHANGED <<objectHandle, objectUniqueID>>
  BY DEF destroyObjectData
<1>3. d \in TableHandles
  BY DEF Objects
<1>4. AllocationTypeOK'
  <2>1. uniqueID' \in [TableHandles -> Nat \union {FREE}]
    BY <1>1 DEF AllocationInv, AllocationTypeOK
  <2>2. \A h \in 0..NO_SYSTEM_OBJECTS - 1 : h # d /\ h \in TableHandles
    BY <1>1, <1>3 DEF TableHandles, HandleAssumption
  <2>3. \A h \in 0..NO_SYSTEM_OBJECTS - 1 : uniqueID'[h] = h
    BY <1>1, <2>2 DEF AllocationInv, AllocationTypeOK
  <2> QED
    BY <1>2, <2>1, <2>3 DEF AllocationInv, AllocationTypeOK
<1>5. OverflowExact' /\ ReusedInTurnStep
  <2>1. OverflowExact'
    BY <1>2 DEF OverflowExact, NONE, CRYPT_ERROR_OVERFLOW, CRYPT_ERROR_INTERNAL
  <2>2. freed' # NONE
    BY <1>1, <1>3 DEF NONE, TableHandles, HandleAssumption
  <2> QED
    BY <2>1, <2>2 DEF ReusedInTurnStep
<1>6. Objects' = Objects \ {d}
  <2>1. \A h \in TableHandles : uniqueID'[h] = IF h = d THEN FREE ELSE uniqueID[h]
    BY <1>1 DEF AllocationInv, AllocationTypeOK
  <2> QED
    BY <2>1 DEF Objects, isFreeObject
<1>7. GivenAreBehind'
  <2>1. CASE d = Watched
    BY <1>1, <2>1 DEF GivenAreBehind
  <2>2. CASE d # Watched
    BY <1>1, <1>2, <1>6, <2>2 DEF AllocationInv, GivenAreBehind
  <2> QED
    BY <2>1, <2>2
<1>8. IDsInv => IDsInv'
  <2>1. \A h \in Objects' : h \in Objects /\ uniqueID'[h] = uniqueID[h]
    BY <1>1, <1>6 DEF AllocationInv, AllocationTypeOK, Objects
  <2> QED
    BY <1>2, <2>1 DEF IDsInv, IDsBehind, DistinctIDs
<1> QED
  BY <1>4, <1>5, <1>7, <1>8 DEF AllocationInv

(* One step of the allocation.                                             *)
LEMMA AllocationStep ==
  ASSUME HandleAssumption, AllocationInv, NEW turn, GoesRound(MAX_NO_OBJECTS, Steps, turn),
         [AllocationNext]_allocationVars
  PROVE  /\ AllocationInv'
         /\ ReusedInTurnStep \/ UNCHANGED allocationVars
         /\ IDsInv /\ NotWrapped => IDsInv'
<1>1. CASE krnlCreateObject
  BY <1>1, CreatesInTurn
<1>2. CASE destroyObjectData
  BY <1>2, DestroyFrees
<1>3. CASE UNCHANGED allocationVars
  BY <1>3 DEF allocationVars, AllocationInv, AllocationTypeOK, OverflowExact, GivenAreBehind, IDsInv, IDsBehind, DistinctIDs, Objects, isFreeObject
<1> QED
  BY <1>1, <1>2, <1>3 DEF AllocationNext

(* The inductive invariant of the allocation, for a table of any size      *)
(* whose order goes round.                                                 *)
THEOREM AllocationCorrect ==
  ASSUME HandleAssumption, NEW turn, GoesRound(MAX_NO_OBJECTS, Steps, turn)
  PROVE  AllocationSpec => []AllocationInv
<1>1. AllocationInit => AllocationInv
  BY AllocationInitial
<1>2. AllocationInv /\ [AllocationNext]_allocationVars => AllocationInv'
  BY AllocationStep
<1> QED
  BY <1>1, <1>2, PTL DEF AllocationSpec

(* A creation fails only when every entry is used, and then after one      *)
(* round (findFreeObjectEntry's postconditions).                           *)
THEOREM OverflowAlwaysExact ==
  ASSUME HandleAssumption, NEW turn, GoesRound(MAX_NO_OBJECTS, Steps, turn)
  PROVE  AllocationSpec => []OverflowExact
<1>1. AllocationInv => OverflowExact
  BY DEF AllocationInv
<1> QED
  BY <1>1, AllocationCorrect, PTL

(* No free handle is passed over twice for the same other one, whichever   *)
(* handle is watched.                                                      *)
THEOREM AlwaysReusedInTurn ==
  ASSUME HandleAssumption, NEW turn, GoesRound(MAX_NO_OBJECTS, Steps, turn)
  PROVE  AllocationSpec => ReusedInTurn
<1>1. AllocationInv /\ [AllocationNext]_allocationVars => [ReusedInTurnStep]_allocationVars
  BY AllocationStep
<1> QED
  BY <1>1, AllocationCorrect, PTL DEF AllocationSpec, ReusedInTurn

(* Until the unique ID starts again no two objects have the same.          *)
THEOREM IDsDistinctUntilWrapped ==
  ASSUME HandleAssumption, NEW turn, GoesRound(MAX_NO_OBJECTS, Steps, turn)
  PROVE  AllocationSpec /\ []NotWrapped => []DistinctIDs
<1>1. AllocationInit => IDsInv
  BY AllocationInitial
<1>2. AllocationInv /\ IDsInv /\ NotWrapped /\ [AllocationNext]_allocationVars => IDsInv'
  BY AllocationStep
<1>3. IDsInv => DistinctIDs
  BY DEF IDsInv
<1> QED
  BY <1>1, <1>2, <1>3, AllocationCorrect, PTL DEF AllocationSpec
=============================================================================
