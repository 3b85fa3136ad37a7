------------------------- MODULE ObjectAccess_proofs -------------------------
(***************************************************************************)
(* Proofs about ObjectAccess: the object is not kept locked for good, the  *)
(* lock count is the number of handlers that hold the lock until somebody  *)
(* undoes another's, and object and nonce mutex are not waited for         *)
(* crosswise.                                                              *)
(***************************************************************************)
EXTENDS ObjectAccess, SequenceTheorems, FiniteSetTheorems, WellFoundedInduction, TLAPS

-----------------------------------------------------------------------------
(* Numbers and sequences. *)

(* What stands in for an induction: a nonempty set of numbers has a least  *)
(* one.                                                                    *)
LessThan == {p \in Nat \X Nat : p[1] < p[2]}

LEMMA LeastNatural ==
  ASSUME NEW D, D \subseteq Nat, D # {}
  PROVE  \E d \in D : \A k \in D : d <= k
<1>1. IsWellFoundedOn(LessThan, Nat)
  BY NatLessThanWellFounded, Zenon DEF OpToRel, LessThan
<1>2. PICK d \in D : \A k \in D : <<k, d>> \notin LessThan
  BY <1>1, WFMin, Zenon
<1>3. ASSUME NEW k \in D
      PROVE  d <= k
  <2>1. k \in Nat /\ d \in Nat /\ <<k, d>> \notin LessThan
    BY <1>2
  <2>2. ~(k < d)
    BY <2>1 DEF LessThan
  <2> QED
    BY <2>1, <2>2
<1> QED
  BY <1>3

LEMMA PushFrame ==
  ASSUME NEW s \in Seq(Frame), NEW f \in Frame
  PROVE  /\ Append(s, f) \in Seq(Frame)
         /\ Len(s) \in Nat /\ Len(Append(s, f)) = Len(s) + 1
         /\ \A i \in 1..Len(s) : Append(s, f)[i] = s[i]
         /\ Append(s, f)[Len(s) + 1] = f
  BY AppendProperties

LEMMA DropFrame ==
  ASSUME NEW s \in Seq(Frame), s # <<>>
  PROVE  /\ Front(s) \in Seq(Frame)
         /\ Len(s) \in Nat /\ Len(s) > 0 /\ Len(Front(s)) = Len(s) - 1
         /\ \A i \in 1..(Len(s) - 1) : Front(s)[i] = s[i]
         /\ Last(s) = s[Len(s)] /\ Last(s) \in Frame
<1>1. /\ Len(s) \in Nat /\ Len(s) > 0
      /\ \A i \in 1..Len(s) : s[i] \in Frame
  BY EmptySeq, LenProperties, ElementOfSeq
<1>2. PICK n \in Nat : n = Len(s) - 1
  BY <1>1
<1>3. Front(s) = SubSeq(s, 1, n) /\ Last(s) = s[Len(s)]
  BY <1>2 DEF Front, Last
<1>4. \A i \in 1..n : s[i] \in Frame
  BY <1>1, <1>2
<1>5. /\ SubSeq(s, 1, n) \in Seq(Frame)
      /\ Len(SubSeq(s, 1, n)) = IF 1 <= n THEN n - 1 + 1 ELSE 0
      /\ \A i \in 1..(n - 1 + 1) : SubSeq(s, 1, n)[i] = s[1 + i - 1]
  BY <1>1, <1>2, <1>4, SubSeqProperties
<1>6. Len(SubSeq(s, 1, n)) = n /\ \A i \in 1..n : SubSeq(s, 1, n)[i] = s[i]
  BY <1>5
<1> QED
  BY <1>1, <1>2, <1>3, <1>5, <1>6

LEMMA ReplaceFrame ==
  ASSUME NEW s \in Seq(Frame), s # <<>>, NEW f \in Frame
  PROVE  /\ Replaced(s, f) \in Seq(Frame)
         /\ Len(s) \in Nat /\ Len(s) > 0 /\ Len(Replaced(s, f)) = Len(s)
         /\ \A i \in 1..(Len(s) - 1) : Replaced(s, f)[i] = s[i]
         /\ Replaced(s, f)[Len(s)] = f
<1>1. /\ Front(s) \in Seq(Frame)
      /\ Len(s) \in Nat /\ Len(s) > 0 /\ Len(Front(s)) = Len(s) - 1
      /\ \A i \in 1..(Len(s) - 1) : Front(s)[i] = s[i]
  BY DropFrame
<1>2. /\ Append(Front(s), f) \in Seq(Frame)
      /\ Len(Append(Front(s), f)) = Len(Front(s)) + 1
      /\ \A i \in 1..Len(Front(s)) : Append(Front(s), f)[i] = Front(s)[i]
      /\ Append(Front(s), f)[Len(Front(s)) + 1] = f
  BY <1>1, PushFrame
<1> QED
  BY <1>1, <1>2 DEF Replaced

-----------------------------------------------------------------------------
(* Counting the handlers that rely on the lock. *)

LEMMA LastSuspendedIs ==
  ASSUME NEW s, NEW n \in Nat
  PROVE  /\ LastSuspended(s, n) \in 0..n
         /\ LastSuspended(s, n) > 0 => Suspended(s[LastSuspended(s, n)])
         /\ \A j \in (LastSuspended(s, n) + 1)..n : ~Suspended(s[j])
<1> DEFINE D == {d \in 0..n : d = n \/ Suspended(s[n - d])}
<1>1. D \subseteq Nat /\ n \in D
  OBVIOUS
<1>2. PICK d \in D : \A k \in D : d <= k
  BY <1>1, LeastNatural
<1>3. PICK i \in 0..n : i = n - d
  BY <1>2
<1>4. i > 0 => Suspended(s[i])
  BY <1>2, <1>3
<1>5. ASSUME NEW j \in (i + 1)..n
      PROVE  ~Suspended(s[j])
  <2>1. n - j \in 0..n /\ ~(d <= n - j) /\ n - (n - j) = j
    BY <1>2, <1>3, <1>5
  <2>2. n - j \notin D
    BY <1>2, <2>1
  <2> QED
    BY <2>1, <2>2
<1> QED
  BY <1>4, <1>5 DEF LastSuspended

LEMMA LastSuspendedUnique ==
  ASSUME NEW s, NEW n \in Nat, NEW i \in 0..n,
         i > 0 => Suspended(s[i]), \A j \in (i + 1)..n : ~Suspended(s[j])
  PROVE  LastSuspended(s, n) = i
<1>1. PICK k \in 0..n : k = LastSuspended(s, n)
  BY LastSuspendedIs
<1>2. (k > 0 => Suspended(s[k])) /\ \A j \in (k + 1)..n : ~Suspended(s[j])
  BY <1>1, LastSuspendedIs
<1>3. ~(k < i)
  BY <1>2
<1>4. ~(i < k)
  BY <1>2
<1> QED
  BY <1>1, <1>3, <1>4

LEMMA LockersFinite ==
  ASSUME NEW s, NEW n \in Nat, NEW k \in Nat
  PROVE  IsFiniteSet({i \in (k + 1)..n : Locking(s[i])})
<1>1. IsFiniteSet((k + 1)..n)
  BY FS_Interval
<1> QED
  BY <1>1, FS_Subset

LEMMA ClaimsNat ==
  ASSUME NEW s, NEW n \in Nat
  PROVE  Claims(s, n) \in Nat
<1>1. LastSuspended(s, n) \in Nat
  BY LastSuspendedIs
<1> QED
  BY <1>1, LockersFinite, FS_CardinalityType DEF Claims

LEMMA ClaimsNone ==
  ASSUME NEW s
  PROVE  Claims(s, 0) = 0
<1>1. LastSuspended(s, 0) = 0
  BY LastSuspendedIs
<1>2. {i \in (0 + 1)..0 : Locking(s[i])} = {}
  OBVIOUS
<1> QED
  BY <1>1, <1>2, FS_EmptySet DEF Claims

(* One more message: it starts anew, counts for one, or not at all.        *)
LEMMA ClaimsNext ==
  ASSUME NEW s, NEW n \in Nat
  PROVE  /\ Suspended(s[n + 1]) => Claims(s, n + 1) = 0
         /\ ~Suspended(s[n + 1]) /\ Locking(s[n + 1]) => Claims(s, n + 1) = Claims(s, n) + 1
         /\ ~Suspended(s[n + 1]) /\ ~Locking(s[n + 1]) => Claims(s, n + 1) = Claims(s, n)
<1>1. CASE Suspended(s[n + 1])
  <2>1. LastSuspended(s, n + 1) = n + 1
    BY <1>1, LastSuspendedUnique
  <2>2. {i \in ((n + 1) + 1)..(n + 1) : Locking(s[i])} = {}
    OBVIOUS
  <2> QED
    BY <1>1, <2>1, <2>2, FS_EmptySet DEF Claims
<1>2. CASE ~Suspended(s[n + 1])
  <2>1. PICK k \in 0..n : k = LastSuspended(s, n)
    BY LastSuspendedIs
  <2>2. (k > 0 => Suspended(s[k])) /\ \A j \in (k + 1)..n : ~Suspended(s[j])
    BY <2>1, LastSuspendedIs
  <2>3. \A j \in (k + 1)..(n + 1) : j \in (k + 1)..n \/ j = n + 1
    OBVIOUS
  <2>4. LastSuspended(s, n + 1) = k
    BY <1>2, <2>2, <2>3, LastSuspendedUnique
  <2> DEFINE A == {i \in (k + 1)..n : Locking(s[i])}
             B == {i \in (k + 1)..(n + 1) : Locking(s[i])}
  <2>5. Claims(s, n) = Cardinality(A) /\ Claims(s, n + 1) = Cardinality(B)
    BY <2>1, <2>4 DEF Claims
  <2>6. IsFiniteSet(A) /\ n + 1 \notin A
    BY LockersFinite
  <2>7. CASE Locking(s[n + 1])
    <3>1. B = A \union {n + 1}
      BY <2>3, <2>7
    <3> HIDE DEF A, B
    <3> QED
      BY <1>2, <2>5, <2>6, <2>7, <3>1, FS_AddElement
  <2>8. CASE ~Locking(s[n + 1])
    <3>1. B = A
      BY <2>3, <2>8
    <3> HIDE DEF A, B
    <3> QED
      BY <1>2, <2>5, <2>8, <3>1
  <2> QED
    BY <2>7, <2>8
<1> QED
  BY <1>1, <1>2

LEMMA ClaimsSame ==
  ASSUME NEW s, NEW r, NEW n \in Nat,
         \A i \in 1..n : /\ Suspended(s[i]) <=> Suspended(r[i])
                         /\ Locking(s[i]) <=> Locking(r[i])
  PROVE  Claims(s, n) = Claims(r, n)
<1>1. PICK k \in 0..n : k = LastSuspended(s, n)
  BY LastSuspendedIs
<1>2. (k > 0 => Suspended(s[k])) /\ \A j \in (k + 1)..n : ~Suspended(s[j])
  BY <1>1, LastSuspendedIs
<1>3. (k > 0 => Suspended(r[k])) /\ \A j \in (k + 1)..n : ~Suspended(r[j])
  BY <1>2
<1>4. LastSuspended(r, n) = k
  BY <1>3, LastSuspendedUnique
<1>5. {i \in (k + 1)..n : Locking(s[i])} = {i \in (k + 1)..n : Locking(r[i])}
  OBVIOUS
<1> QED
  BY <1>1, <1>4, <1>5 DEF Claims

-----------------------------------------------------------------------------
(* What happens to a stack: a message comes, goes on, or returns. *)

(* How many handlers rely on the lock with one more, where c did before.   *)
Weight(f, c) == IF Suspended(f) THEN 0 ELSE IF Locking(f) THEN c + 1 ELSE c

LEMMA ClaimsWeight ==
  ASSUME NEW s, NEW n \in Nat
  PROVE  Claims(s, n + 1) = Weight(s[n + 1], Claims(s, n))
  BY ClaimsNext DEF Weight

LEMMA TopFits ==
  ASSUME NEW e, NEW s \in Seq(Frame), s # <<>>, Fits(s, e)
  PROVE  /\ Last(s) \in Frame /\ Claims(s, Len(s) - 1) \in Nat
         /\ FrameFits(Last(s), Claims(s, Len(s) - 1), e)
         /\ Claims(s, Len(s)) = Weight(Last(s), Claims(s, Len(s) - 1))
<1>1. PICK n \in Nat : n + 1 = Len(s)
  BY DropFrame
<1>2. Last(s) = s[n + 1] /\ Last(s) \in Frame /\ Len(s) - 1 = n /\ (n + 1) - 1 = n
  BY <1>1, DropFrame
<1>3. FrameFits(s[n + 1], Claims(s, n), e)
  BY <1>1, <1>2 DEF Fits
<1> QED
  BY <1>1, <1>2, <1>3, ClaimsNat, ClaimsWeight

(* A longer or changed stack with the same messages at the bottom.         *)
LEMMA SameBelow ==
  ASSUME NEW e, NEW s, NEW r, NEW n \in Nat, \A i \in 1..n : r[i] = s[i], n <= Len(s), Len(s) \in Nat,
         Fits(s, e)
  PROVE  /\ Claims(r, n) = Claims(s, n)
         /\ \A i \in 1..n : FrameFits(r[i], Claims(r, i - 1), e)
<1>1. ASSUME NEW m \in Nat, m <= n
      PROVE  Claims(r, m) = Claims(s, m)
  BY <1>1, ClaimsSame
<1>2. ASSUME NEW i \in 1..n
      PROVE  FrameFits(r[i], Claims(r, i - 1), e)
  <2>1. i - 1 \in Nat /\ i - 1 <= n /\ i \in 1..Len(s)
    OBVIOUS
  <2>2. Claims(r, i - 1) = Claims(s, i - 1)
    BY <1>1, <2>1
  <2> QED
    BY <2>1, <2>2 DEF Fits
<1> QED
  BY <1>1, <1>2

LEMMA PushFits ==
  ASSUME NEW e, NEW s \in Seq(Frame), Fits(s, e), NEW f \in Frame, FrameFits(f, Claims(s, Len(s)), e)
  PROVE  /\ Append(s, f) \in Seq(Frame) /\ Fits(Append(s, f), e)
         /\ Claims(Append(s, f), Len(Append(s, f))) = Weight(f, Claims(s, Len(s)))
<1>1. PICK r \in Seq(Frame) : r = Append(s, f)
  BY PushFrame
<1>2. PICK n \in Nat : n = Len(s)
  BY PushFrame
<1>3. Len(r) = n + 1 /\ r[n + 1] = f /\ \A i \in 1..n : r[i] = s[i]
  BY <1>1, <1>2, PushFrame
<1>4. Claims(r, n) = Claims(s, n) /\ \A i \in 1..n : FrameFits(r[i], Claims(r, i - 1), e)
  <2>1. n <= Len(s) /\ Len(s) \in Nat
    BY <1>2
  <2> QED
    BY <1>3, <2>1, SameBelow, Zenon
<1>5. \A i \in 1..(n + 1) : i \in 1..n \/ (i = n + 1 /\ i - 1 = n)
  OBVIOUS
<1>6. FrameFits(r[n + 1], Claims(r, n), e)
  BY <1>2, <1>3, <1>4
<1>7. Fits(r, e)
  BY <1>3, <1>4, <1>5, <1>6 DEF Fits
<1>8. Claims(r, n + 1) = Weight(r[n + 1], Claims(r, n))
  BY ClaimsWeight
<1> QED
  BY <1>1, <1>2, <1>3, <1>4, <1>7, <1>8

LEMMA ReplaceFits ==
  ASSUME NEW e, NEW s \in Seq(Frame), s # <<>>, Fits(s, e),
         NEW f \in Frame, FrameFits(f, Claims(s, Len(s) - 1), e)
  PROVE  /\ Replaced(s, f) \in Seq(Frame) /\ Fits(Replaced(s, f), e)
         /\ Claims(Replaced(s, f), Len(Replaced(s, f))) = Weight(f, Claims(s, Len(s) - 1))
<1>1. PICK r \in Seq(Frame) : r = Replaced(s, f)
  BY ReplaceFrame
<1>2. PICK n \in Nat : n + 1 = Len(s)
  BY DropFrame
<1>3. Len(s) - 1 = n /\ Len(s) \in Nat /\ n <= Len(s)
  BY <1>2
<1>4. Len(r) = n + 1 /\ r[n + 1] = f /\ \A i \in 1..n : r[i] = s[i]
  <2>1. Len(r) = Len(s) /\ r[Len(s)] = f /\ \A i \in 1..(Len(s) - 1) : r[i] = s[i]
    BY <1>1, ReplaceFrame
  <2> QED
    BY <1>2, <1>3, <2>1
<1>5. Claims(r, n) = Claims(s, n) /\ \A i \in 1..n : FrameFits(r[i], Claims(r, i - 1), e)
  BY <1>3, <1>4, SameBelow
<1>6. \A i \in 1..(n + 1) : i \in 1..n \/ (i = n + 1 /\ i - 1 = n)
  OBVIOUS
<1>7. FrameFits(r[n + 1], Claims(r, n), e)
  BY <1>3, <1>4, <1>5
<1>8. Fits(r, e)
  BY <1>4, <1>5, <1>6, <1>7 DEF Fits
<1>9. Claims(r, n + 1) = Weight(r[n + 1], Claims(r, n))
  BY ClaimsWeight
<1> QED
  BY <1>1, <1>3, <1>4, <1>5, <1>8, <1>9

LEMMA FrontFits ==
  ASSUME NEW e, NEW s \in Seq(Frame), s # <<>>, Fits(s, e)
  PROVE  /\ Front(s) \in Seq(Frame) /\ Fits(Front(s), e)
         /\ Claims(Front(s), Len(Front(s))) = Claims(s, Len(s) - 1)
<1>1. PICK r \in Seq(Frame) : r = Front(s)
  BY DropFrame
<1>2. PICK n \in Nat : n + 1 = Len(s)
  BY DropFrame
<1>3. Len(s) - 1 = n /\ Len(s) \in Nat /\ n <= Len(s)
  BY <1>2
<1>4. Len(r) = n /\ \A i \in 1..n : r[i] = s[i]
  BY <1>1, <1>3, DropFrame
<1>5. Claims(r, n) = Claims(s, n) /\ \A i \in 1..n : FrameFits(r[i], Claims(r, i - 1), e)
  BY <1>3, <1>4, SameBelow
<1> QED
  BY <1>1, <1>3, <1>4, <1>5 DEF Fits

(* getNonce goes on where its seed was asked for.                          *)
LEMMA AfterSeedFits ==
  ASSUME NEW e, NEW f \in Frame, NEW c \in Nat, FrameFits(f, c, e), NEW ok \in BOOLEAN
  PROVE  /\ AfterSeed(f, ok) \in Frame /\ FrameFits(AfterSeed(f, ok), c, e)
         /\ Weight(AfterSeed(f, ok), c) = Weight(f, c)
<1>1. CASE f.at \notin {"seed", "retry"}
  BY <1>1 DEF AfterSeed
<1>2. ASSUME NEW a \in {"retry", "drawn"}, f.at \in {"seed", "retry"}
      PROVE  LET g == [f EXCEPT !.at = a] IN
             g \in Frame /\ FrameFits(g, c, e) /\ Weight(g, c) = Weight(f, c)
  BY <1>2 DEF Frame, FrameFits, Weight, Suspended, Locking, Bare
<1>3. CASE f.at \in {"seed", "retry"}
  <2>1. \E a \in {"retry", "drawn"} : AfterSeed(f, ok) = [f EXCEPT !.at = a]
    BY <1>3 DEF AfterSeed
  <2> QED
    BY <1>2, <1>3, <2>1
<1> QED
  BY <1>1, <1>3

(* The stack when its innermost message has returned.                      *)
Popped(s, ok) ==
  IF Front(s) = <<>> THEN <<>> ELSE Replaced(Front(s), AfterSeed(Last(Front(s)), ok))

LEMMA PopFits ==
  ASSUME NEW e, NEW s \in Seq(Frame), s # <<>>, Fits(s, e), NEW ok \in BOOLEAN
  PROVE  /\ Popped(s, ok) \in Seq(Frame) /\ Fits(Popped(s, ok), e)
         /\ Claims(Popped(s, ok), Len(Popped(s, ok))) = Claims(s, Len(s) - 1)
<1>1. PICK b \in Seq(Frame) : b = Front(s)
  BY DropFrame
<1>2. Fits(b, e) /\ Claims(b, Len(b)) = Claims(s, Len(s) - 1)
  BY <1>1, FrontFits
<1>3. CASE b = <<>>
  BY <1>1, <1>2, <1>3 DEF Popped
<1>4. CASE b # <<>>
  <2>1. PICK c \in Nat : c = Claims(b, Len(b) - 1)
    BY <1>2, <1>4, TopFits
  <2>2. Last(b) \in Frame /\ FrameFits(Last(b), c, e) /\ Claims(b, Len(b)) = Weight(Last(b), c)
    BY <1>2, <1>4, <2>1, TopFits
  <2>3. PICK f \in Frame : f = AfterSeed(Last(b), ok)
    BY <2>2, AfterSeedFits
  <2>4. FrameFits(f, c, e) /\ Weight(f, c) = Weight(Last(b), c)
    BY <2>2, <2>3, AfterSeedFits
  <2>5. /\ Replaced(b, f) \in Seq(Frame) /\ Fits(Replaced(b, f), e)
        /\ Claims(Replaced(b, f), Len(Replaced(b, f))) = Weight(f, c)
    BY <1>2, <1>4, <2>1, <2>4, ReplaceFits
  <2>6. Popped(s, ok) = Replaced(b, f)
    BY <1>1, <1>4, <2>3 DEF Popped
  <2> QED
    BY <1>2, <2>2, <2>4, <2>5, <2>6
<1> QED
  BY <1>3, <1>4

(* Less is asked of the frames once a lock has been undone.                *)
LEMMA FitsLess ==
  ASSUME NEW e \in BOOLEAN, NEW d \in BOOLEAN, d => e, NEW s \in Seq(Frame), Fits(s, e)
  PROVE  Fits(s, d)
<1>1. ASSUME NEW i \in 1..Len(s)
      PROVE  FrameFits(s[i], Claims(s, i - 1), d)
  <2>1. FrameFits(s[i], Claims(s, i - 1), e)
    BY DEF Fits
  <2> QED
    BY <2>1 DEF FrameFits
<1> QED
  BY <1>1 DEF Fits

(* A frame whose lock is lost relies on nothing.                           *)
Loser(f) == IF Locking(f) THEN [f EXCEPT !.lost = TRUE] ELSE f

LEMMA LoserFits ==
  ASSUME NEW e, NEW f \in Frame, NEW c \in Nat, FrameFits(f, c, e), ~Suspended(f)
  PROVE  /\ Loser(f) \in Frame /\ FrameFits(Loser(f), 0, e)
         /\ ~Suspended(Loser(f)) /\ ~Locking(Loser(f))
<1>1. CASE Locking(f)
  <2>1. PICK g : g = [f EXCEPT !.lost = TRUE]
    OBVIOUS
  <2>2. /\ g \in Frame /\ g.kind = f.kind /\ g.at = f.at /\ g.unlocked = f.unlocked
        /\ g.refCount = f.refCount /\ g.lost
    BY <2>1 DEF Frame
  <2>3. ~Suspended(g) /\ ~Locking(g)
    BY <2>2 DEF Suspended, Locking
  <2>4. FrameFits(g, 0, e)
    BY <1>1, <2>2, <2>3 DEF FrameFits, Locking
  <2> QED
    BY <1>1, <2>1, <2>2, <2>3, <2>4 DEF Loser
<1>2. CASE ~Locking(f)
  <2>1. FrameFits(f, 0, e)
    BY DEF FrameFits
  <2> QED
    BY <1>2, <2>1 DEF Loser
<1> QED
  BY <1>1, <1>2

(* What is left when the object cannot be taken back: from the last        *)
(* suspended frame below on, nobody has a lock.                            *)
LEMMA StrandedFits ==
  ASSUME NEW e, NEW s \in Seq(Frame), s # <<>>, Fits(s, e),
         NEW f \in Frame, ~Suspended(f), FrameFits(f, 0, e)
  PROVE  /\ Stranded(Replaced(s, f)) \in Seq(Frame) /\ Fits(Stranded(Replaced(s, f)), e)
         /\ Claims(Stranded(Replaced(s, f)), Len(Stranded(Replaced(s, f)))) = 0
<1>1. PICK b \in Seq(Frame) : b = Replaced(s, f)
  BY ReplaceFrame
<1>2. PICK n \in Nat : n + 1 = Len(s)
  BY DropFrame
<1>3. Len(s) - 1 = n /\ Len(s) \in Nat /\ n <= Len(s)
  BY <1>2
<1>4. Len(b) = n + 1 /\ b[n + 1] = f /\ \A i \in 1..n : b[i] = s[i]
  <2>1. Len(b) = Len(s) /\ b[Len(s)] = f /\ \A i \in 1..(Len(s) - 1) : b[i] = s[i]
    BY <1>1, ReplaceFrame
  <2> QED
    BY <1>2, <1>3, <2>1
<1>5. PICK k \in 0..n : k = LastSuspended(b, n)
  BY LastSuspendedIs
<1>6. (k > 0 => Suspended(b[k])) /\ \A j \in (k + 1)..n : ~Suspended(b[j])
  BY <1>5, LastSuspendedIs
<1>7. PICK r : r = [i \in 1..(n + 1) |-> IF i > k THEN Loser(b[i]) ELSE b[i]]
  OBVIOUS
<1>8. Stranded(b) = r
  <2>1. Len(b) - 1 = n
    BY <1>4
  <2>2. Stranded(b) = [i \in 1..(n + 1) |->
           IF i > k /\ Locking(b[i]) THEN [b[i] EXCEPT !.lost = TRUE] ELSE b[i]]
    BY <1>4, <1>5, <2>1 DEF Stranded
  <2>3. \A i \in 1..(n + 1) :
          (IF i > k /\ Locking(b[i]) THEN [b[i] EXCEPT !.lost = TRUE] ELSE b[i])
            = (IF i > k THEN Loser(b[i]) ELSE b[i])
    BY DEF Loser
  <2> QED
    BY <1>7, <2>2, <2>3
<1>9. \A i \in 1..n : FrameFits(b[i], Claims(b, i - 1), e)
  BY <1>3, <1>4, SameBelow
<1>10. ASSUME NEW i \in (k + 1)..(n + 1)
       PROVE  /\ Loser(b[i]) \in Frame /\ FrameFits(Loser(b[i]), 0, e)
              /\ ~Suspended(Loser(b[i])) /\ ~Locking(Loser(b[i]))
  <2>1. b[i] \in Frame
    BY <1>4, ElementOfSeq
  <2>2. CASE i = n + 1
    BY <1>4, <2>1, <2>2, LoserFits
  <2>3. CASE i # n + 1
    <3>1. i \in 1..n /\ i \in (k + 1)..n /\ i - 1 \in Nat
      BY <2>3
    <3>2. Claims(b, i - 1) \in Nat /\ FrameFits(b[i], Claims(b, i - 1), e) /\ ~Suspended(b[i])
      BY <1>6, <1>9, <3>1, ClaimsNat
    <3> QED
      BY <2>1, <3>2, LoserFits
  <2> QED
    BY <2>2, <2>3
<1>11. ASSUME NEW i \in 1..(n + 1)
       PROVE  /\ i <= k => r[i] = b[i]
              /\ i > k => FrameFits(r[i], 0, e) /\ ~Suspended(r[i]) /\ ~Locking(r[i])
  <2>1. b[i] \in Frame
    BY <1>4, ElementOfSeq
  <2>2. CASE i > k
    <3>1. i \in (k + 1)..(n + 1) /\ r[i] = Loser(b[i])
      BY <1>7, <2>2
    <3> QED
      BY <1>10, <2>2, <3>1
  <2>3. CASE ~(i > k)
    BY <1>7, <2>1, <2>3
  <2> QED
    BY <2>2, <2>3
<1>12. r \in Seq(Frame) /\ Len(r) = n + 1
  <2>1. \A i \in 1..(n + 1) : r[i] \in Frame
    <3>1. ASSUME NEW i \in 1..(n + 1) PROVE r[i] \in Frame
      <4>1. CASE i > k
        <5>1. i \in (k + 1)..(n + 1) /\ r[i] = Loser(b[i])
          BY <1>7, <4>1
        <5> QED
          BY <1>10, <5>1
      <4>2. CASE ~(i > k)
        <5>1. r[i] = b[i]
          BY <1>7, <4>2
        <5> QED
          BY <1>4, <5>1, ElementOfSeq
      <4> QED
        BY <4>1, <4>2
    <3> QED
      BY <3>1
  <2>2. r \in [1..(n + 1) -> Frame]
    BY <1>7, <2>1
  <2> QED
    BY <2>2, LenProperties, SeqDef
<1>13. ASSUME NEW m \in k..(n + 1)
       PROVE  Claims(r, m) = 0
  <2>1. k \in 0..m /\ m \in Nat /\ (k > 0 => Suspended(r[k]))
    BY <1>6, <1>11
  <2>2. \A j \in (k + 1)..m : ~Suspended(r[j]) /\ ~Locking(r[j])
    BY <1>11
  <2>3. LastSuspended(r, m) = k
    BY <2>1, <2>2, LastSuspendedUnique
  <2>4. {i \in (k + 1)..m : Locking(r[i])} = {}
    BY <2>2
  <2> QED
    BY <2>3, <2>4, FS_EmptySet DEF Claims
<1>14. Fits(r, e)
  <2>1. \A i \in 1..k : r[i] = b[i] /\ i \in 1..n
    BY <1>11
  <2>2. ASSUME NEW i \in 1..k
        PROVE  FrameFits(r[i], Claims(r, i - 1), e)
    <3>1. Claims(r, i - 1) = Claims(b, i - 1)
      <4>1. i - 1 \in Nat /\ \A j \in 1..(i - 1) : r[j] = b[j]
        BY <2>1
      <4> QED
        BY <4>1, ClaimsSame
    <3> QED
      BY <1>9, <2>1, <3>1
  <2>3. ASSUME NEW i \in (k + 1)..(n + 1)
        PROVE  FrameFits(r[i], Claims(r, i - 1), e)
    <3>1. i - 1 \in k..(n + 1) /\ i \in 1..(n + 1) /\ i > k
      OBVIOUS
    <3>2. Claims(r, i - 1) = 0
      BY <1>13, <3>1
    <3> QED
      BY <1>11, <3>1, <3>2
  <2>4. \A i \in 1..(n + 1) : i \in 1..k \/ i \in (k + 1)..(n + 1)
    OBVIOUS
  <2> QED
    BY <1>12, <2>2, <2>3, <2>4 DEF Fits
<1>15. Claims(r, n + 1) = 0
  BY <1>13
<1> QED
  BY <1>1, <1>8, <1>12, <1>14, <1>15

-----------------------------------------------------------------------------
(* The inductive invariant. *)

(* No thread has undone the lock of another, and handlers that give the    *)
(* object up for good are called with nobody around that holds it.         *)
Exact == CalledBare /\ ~undone

(* The locks of the handlers below a thread's innermost message.           *)
Under(t) == Claims(stack[t], Len(stack[t]) - 1)

LEMMA Acting ==
  ASSUME AccessInv, NEW t \in Threads, stack[t] # <<>>
  PROVE  /\ stack[t] \in Seq(Frame) /\ Fits(stack[t], Exact)
         /\ Top(t) \in Frame /\ Under(t) \in Nat /\ FrameFits(Top(t), Under(t), Exact)
         /\ Owed(t) \in Nat /\ Owed(t) <= Weight(Top(t), Under(t))
         /\ Exact => Weight(Top(t), Under(t)) = Owed(t)
         /\ Claims(stack[t], Len(stack[t])) = Weight(Top(t), Under(t))
<1>1. stack[t] \in Seq(Frame) /\ Fits(stack[t], Exact) /\ Owed(t) \in Nat
  BY DEF AccessInv, TypeOK, FramesFit, Exact, Owed
<1>2. /\ Owed(t) <= Claims(stack[t], Len(stack[t]))
      /\ Exact => Claims(stack[t], Len(stack[t])) = Owed(t)
  BY DEF AccessInv, NotKeptLocked, LockCountExact, Exact
<1>3. /\ Last(stack[t]) \in Frame /\ Claims(stack[t], Len(stack[t]) - 1) \in Nat
      /\ FrameFits(Last(stack[t]), Claims(stack[t], Len(stack[t]) - 1), Exact)
      /\ Claims(stack[t], Len(stack[t]))
           = Weight(Last(stack[t]), Claims(stack[t], Len(stack[t]) - 1))
  BY <1>1, TopFits, Zenon
<1> QED
  BY <1>1, <1>2, <1>3 DEF Top, Under

(* What a step does to the lock: nothing, or its thread has it afterwards, *)
(* or one lock of another thread is undone.                                *)
LockStep(t) ==
  /\ lockCount' \in Nat /\ lockOwner' \in Threads \union {NoThread} /\ undone' \in BOOLEAN
  /\ nonceHolder' \in Threads \union {NoThread} /\ nonceDataInitialised' \in BOOLEAN
  /\ Exact' => Exact
  /\ \/ UNCHANGED <<lockCount, lockOwner>>
     \/ lockOwner' = t /\ (lockOwner = t \/ lockCount = 0)
     \/ lockOwner' = lockOwner /\ lockCount' <= lockCount /\ ~Exact'

(* A thread's step, seen from its stack and the lock.                      *)
LEMMA StackStep ==
  ASSUME AccessInv, NEW t \in Threads, LockStep(t),
         NEW r \in Seq(Frame), Fits(r, Exact), stack' = [stack EXCEPT ![t] = r],
         Owed(t)' <= Claims(r, Len(r)), Exact' => Claims(r, Len(r)) = Owed(t)'
  PROVE  AccessInv'
<1>1. /\ stack \in [Threads -> Seq(Frame)] /\ stack' \in [Threads -> Seq(Frame)]
      /\ stack'[t] = r /\ \A u \in Threads : u # t => stack'[u] = stack[u]
  BY DEF AccessInv, TypeOK
<1>2. TypeOK'
  BY <1>1 DEF TypeOK, LockStep
<1>3. Exact \in BOOLEAN /\ Exact' \in BOOLEAN /\ (Exact' => Exact)
  BY DEF LockStep, Exact
<1>4. \A u \in Threads : Fits(stack[u], Exact)
  BY DEF AccessInv, FramesFit, Exact
<1>5. \A u \in Threads : Fits(stack'[u], Exact')
  <2>1. ASSUME NEW u \in Threads
        PROVE  Fits(stack'[u], Exact')
    <3>1. stack'[u] \in Seq(Frame) /\ Fits(stack'[u], Exact)
      BY <1>1, <1>4
    <3> QED
      BY <1>3, <3>1, FitsLess
  <2> QED
    BY <2>1
<1>6. FramesFit'
  BY <1>5 DEF FramesFit, Exact
<1>7. ASSUME NEW u \in Threads
      PROVE  /\ Owed(u)' <= Claims(stack'[u], Len(stack'[u]))
             /\ Exact' => Claims(stack'[u], Len(stack'[u])) = Owed(u)'
  <2>1. CASE u = t
    BY <1>1, <2>1
  <2>2. CASE u # t
    <3>1. /\ stack'[u] = stack[u] /\ Owed(u) <= Claims(stack[u], Len(stack[u]))
          /\ Exact => Claims(stack[u], Len(stack[u])) = Owed(u)
      BY <1>1, <2>2 DEF AccessInv, NotKeptLocked, LockCountExact, Exact
    <3>2. stack[u] \in Seq(Frame) /\ Len(stack[u]) \in Nat
      BY <1>1, LenProperties
    <3>3. Claims(stack[u], Len(stack[u])) \in Nat
      BY <3>2, ClaimsNat
    <3>4. Owed(u)' <= Owed(u) /\ (Exact' => Owed(u)' = Owed(u)) /\ Owed(u) \in Nat /\ Owed(u)' \in Nat
      BY <2>2 DEF LockStep, Owed, AccessInv, TypeOK
    <3> QED
      BY <1>3, <3>1, <3>3, <3>4
  <2> QED
    BY <2>1, <2>2
<1>8. NotKeptLocked'
  BY <1>7 DEF NotKeptLocked
<1>9. CalledBare => LockCountExact'
  BY <1>7 DEF LockCountExact, Exact
<1> QED
  BY <1>2, <1>6, <1>8, <1>9 DEF AccessInv

(* The innermost message goes on.                                          *)
LEMMA GoesOn ==
  ASSUME AccessInv, NEW t \in Threads, stack[t] # <<>>, LockStep(t),
         NEW f \in Frame, FrameFits(f, Under(t), Exact), SetTop(t, f),
         Owed(t)' <= Weight(f, Under(t)), Exact' => Weight(f, Under(t)) = Owed(t)'
  PROVE  AccessInv'
<1>1. stack[t] \in Seq(Frame) /\ Fits(stack[t], Exact)
  BY Acting
<1>2. PICK r : r = Replaced(stack[t], f)
  OBVIOUS
<1>3. r \in Seq(Frame) /\ Fits(r, Exact) /\ Claims(r, Len(r)) = Weight(f, Under(t))
  BY <1>1, <1>2, ReplaceFits DEF Under
<1>4. stack' = [stack EXCEPT ![t] = r]
  BY <1>2 DEF SetTop
<1> QED
  BY <1>3, <1>4, StackStep

(* A step that does not touch the lock.                                    *)
LEMMA QuietStep ==
  ASSUME AccessInv, NEW t \in Threads, UNCHANGED <<lockCount, lockOwner, undone>>,
         nonceHolder' \in Threads \union {NoThread}, nonceDataInitialised' \in BOOLEAN
  PROVE  LockStep(t) /\ Owed(t)' = Owed(t) /\ Exact' = Exact
  BY DEF AccessInv, TypeOK, LockStep, Owed, Exact

LEMMA GoesOnQuietly ==
  ASSUME AccessInv, NEW t \in Threads, stack[t] # <<>>,
         NEW f \in Frame, FrameFits(f, Under(t), Exact), SetTop(t, f),
         UNCHANGED <<lockCount, lockOwner, undone>>,
         nonceHolder' \in Threads \union {NoThread}, nonceDataInitialised' \in BOOLEAN,
         Owed(t) <= Weight(f, Under(t)), Exact => Weight(f, Under(t)) = Owed(t)
  PROVE  AccessInv'
<1>1. LockStep(t) /\ Owed(t)' = Owed(t) /\ Exact' = Exact
  BY QuietStep
<1>2. Owed(t)' <= Weight(f, Under(t)) /\ (Exact' => Weight(f, Under(t)) = Owed(t)')
  BY <1>1
<1> QED
  BY <1>1, <1>2, GoesOn

(* The innermost message returns; its lock has been dealt with.            *)
LEMMA Returns ==
  ASSUME AccessInv, NEW t \in Threads, stack[t] # <<>>, NEW ok \in BOOLEAN, Pop(t, ok), LockStep(t),
         Owed(t)' <= Under(t), Exact' => Under(t) = Owed(t)'
  PROVE  AccessInv'
<1>1. stack[t] \in Seq(Frame) /\ Fits(stack[t], Exact)
  BY Acting
<1>2. PICK r : r = Popped(stack[t], ok)
  OBVIOUS
<1>3. r \in Seq(Frame) /\ Fits(r, Exact) /\ Claims(r, Len(r)) = Under(t)
  BY <1>1, <1>2, PopFits DEF Under
<1>4. stack' = [stack EXCEPT ![t] = r]
  BY <1>2 DEF Pop, Popped
<1> QED
  BY <1>3, <1>4, StackStep

LEMMA MessageFits ==
  ASSUME NEW k \in Kinds, k \in Sent, NEW c \in Nat, CalledBare /\ k \in Bare => c = 0, NEW e
  PROVE  Message(k) \in Frame /\ FrameFits(Message(k), c, e) /\ Weight(Message(k), c) = c
  BY DEF Message, Frame, FrameFits, Weight, Suspended, Locking

-----------------------------------------------------------------------------
(* The actions. *)

LEMMA SendKeepsInv ==
  ASSUME AccessInv, NEW t \in Threads, NEW k \in Kinds, Send(t, k)
  PROVE  AccessInv'
<1>1. TypeOK /\ stack[t] \in Seq(Frame) /\ Fits(stack[t], Exact) /\ Owed(t) \in Nat
  BY DEF AccessInv, TypeOK, FramesFit, Exact, Owed
<1>2. LockStep(t) /\ Owed(t)' = Owed(t) /\ Exact' = Exact
  <2>1. /\ UNCHANGED <<lockCount, lockOwner, undone>>
        /\ nonceHolder' \in Threads \union {NoThread} /\ nonceDataInitialised' \in BOOLEAN
    BY <1>1 DEF Send, TypeOK
  <2> QED
    BY <2>1, QuietStep
<1>3a. k \in Sent
  BY DEF Send, Sent
<1>3. CASE stack[t] = <<>> /\ stack' = [stack EXCEPT ![t] = <<Message(k)>>]
  <2>1. Claims(stack[t], Len(stack[t])) = 0 /\ Owed(t) = 0
    <3>1. Len(stack[t]) = 0 /\ Owed(t) <= Claims(stack[t], Len(stack[t]))
      BY <1>3 DEF AccessInv, NotKeptLocked
    <3>2. Claims(stack[t], Len(stack[t])) = 0
      BY <3>1, ClaimsNone
    <3> QED
      BY <1>1, <3>1, <3>2
  <2>2. Message(k) \in Frame /\ FrameFits(Message(k), 0, Exact) /\ Weight(Message(k), 0) = 0
    BY <1>3a, MessageFits
  <2>3. PICK r : r = Append(stack[t], Message(k))
    OBVIOUS
  <2>4. r \in Seq(Frame) /\ Fits(r, Exact) /\ Claims(r, Len(r)) = 0
    BY <1>1, <2>1, <2>2, <2>3, PushFits
  <2>5. r = <<Message(k)>>
    BY <1>3, <2>3
  <2>6. /\ stack' = [stack EXCEPT ![t] = r] /\ Owed(t)' <= Claims(r, Len(r))
        /\ Exact' => Claims(r, Len(r)) = Owed(t)'
    BY <1>2, <1>3, <2>1, <2>4, <2>5
  <2> QED
    BY <1>2, <2>4, <2>6, StackStep
<1>4. CASE /\ \/ At(t, {"plain"}, "held") /\ k \in NestedSends
              \/ At(t, {"forward"}, "open") /\ k \in ForwardSends
           /\ stack' = [stack EXCEPT ![t] =
                  Append(Replaced(@, [Top(t) EXCEPT !.at = "return"]), Message(k))]
  <2>1. stack[t] # <<>>
    BY <1>4 DEF At
  <2>2. PICK c \in Nat : c = Under(t)
    BY <2>1, Acting
  <2>3. /\ Top(t) \in Frame /\ FrameFits(Top(t), c, Exact)
        /\ Owed(t) <= Weight(Top(t), c) /\ (Exact => Weight(Top(t), c) = Owed(t))
    BY <2>1, <2>2, Acting
  <2>4. PICK f : f = [Top(t) EXCEPT !.at = "return"]
    OBVIOUS
  <2>5. f \in Frame /\ FrameFits(f, c, Exact)
    BY <1>4, <2>3, <2>4 DEF Frame, FrameFits, Suspended, At, Bare
  <2>6. /\ Weight(f, c) = Weight(Top(t), c) /\ Weight(f, c) \in Nat
        /\ CalledBare /\ k \in Bare => Weight(f, c) = 0
    <3>1. CASE At(t, {"plain"}, "held") /\ k \in NestedSends
      BY <2>3, <2>4, <3>1 DEF Frame, FrameFits, Weight, Suspended, Locking, At, CalledBare
    <3>2. CASE At(t, {"forward"}, "open") /\ k \in ForwardSends
      BY <2>3, <2>4, <3>2 DEF Frame, FrameFits, Weight, Suspended, Locking, At, Bare
    <3> QED
      BY <1>4, <3>1, <3>2
  <2>7. PICK b : b = Replaced(stack[t], f)
    OBVIOUS
  <2>8. b \in Seq(Frame) /\ Fits(b, Exact) /\ Claims(b, Len(b)) = Weight(f, c)
    BY <1>1, <2>1, <2>2, <2>5, <2>7, ReplaceFits DEF Under
  <2>9. PICK w \in Nat : w = Weight(f, c)
    BY <2>6
  <2>10. /\ Message(k) \in Frame /\ FrameFits(Message(k), w, Exact)
         /\ Weight(Message(k), w) = w
    BY <1>3a, <2>6, <2>9, MessageFits
  <2>11. PICK r : r = Append(b, Message(k))
    OBVIOUS
  <2>12. r \in Seq(Frame) /\ Fits(r, Exact) /\ Claims(r, Len(r)) = w
    BY <2>8, <2>9, <2>10, <2>11, PushFits
  <2>13. stack' = [stack EXCEPT ![t] = r]
    BY <1>4, <2>4, <2>7, <2>11
  <2>14. Owed(t)' <= w /\ (Exact' => w = Owed(t)')
    BY <1>2, <2>3, <2>6, <2>9
  <2> QED
    BY <1>2, <2>12, <2>13, <2>14, StackStep
<1> QED
  BY <1>3, <1>4 DEF Send

LEMMA DispatchKeepsInv ==
  ASSUME AccessInv, NEW t \in Threads, Dispatch(t)
  PROVE  AccessInv'
<1>1. stack[t] # <<>> /\ TypeOK /\ Top(t).at = "arrive"
  BY DEF Dispatch, At, AccessInv
<1>2. PICK c \in Nat : c = Under(t)
  BY <1>1, Acting
<1>3. /\ Top(t) \in Frame /\ FrameFits(Top(t), c, Exact) /\ Owed(t) \in Nat
      /\ Owed(t) <= Weight(Top(t), c) /\ (Exact => Weight(Top(t), c) = Owed(t))
  BY <1>1, <1>2, Acting
<1>4. PICK f : f = [Top(t) EXCEPT !.at = "held"]
  OBVIOUS
<1>5. SetTop(t, f)
  BY <1>4 DEF Dispatch, GoTo
<1>6. f \in Frame /\ FrameFits(f, c, Exact) /\ Weight(f, c) = c + 1 /\ Weight(Top(t), c) = c
  BY <1>1, <1>3, <1>4 DEF Frame, FrameFits, Weight, Suspended, Locking, Bare
<1>7. /\ lockCount \in Nat /\ (lockOwner = t \/ lockCount = 0)
      /\ lockCount' = lockCount + 1 /\ lockOwner' = t
  BY <1>1 DEF Dispatch, BusyElsewhere, TypeOK
<1>8. Owed(t)' = Owed(t) + 1
  BY <1>3, <1>7 DEF Owed
<1>9. LockStep(t) /\ Exact' = Exact
  BY <1>1, <1>7 DEF Dispatch, TypeOK, LockStep, Exact
<1>10. Owed(t)' <= Weight(f, c) /\ (Exact' => Weight(f, c) = Owed(t)')
  BY <1>3, <1>6, <1>8, <1>9
<1> QED
  BY <1>1, <1>2, <1>5, <1>6, <1>9, <1>10, GoesOn

LEMMA GiveUpWaitingKeepsInv ==
  ASSUME AccessInv, NEW t \in Threads, GiveUpWaiting(t)
  PROVE  AccessInv'
<1>1. stack[t] # <<>> /\ TypeOK /\ Top(t).at = "arrive" /\ Pop(t, FALSE)
  BY DEF GiveUpWaiting, At, AccessInv
<1>2. PICK c \in Nat : c = Under(t)
  BY <1>1, Acting
<1>3. /\ Top(t) \in Frame /\ Owed(t) <= Weight(Top(t), c)
      /\ Exact => Weight(Top(t), c) = Owed(t)
  BY <1>1, <1>2, Acting
<1>4. Weight(Top(t), c) = c
  BY <1>1, <1>3 DEF Weight, Suspended, Locking, Frame
<1>5. LockStep(t) /\ Owed(t)' = Owed(t) /\ Exact' = Exact
  <2>1. /\ UNCHANGED <<lockCount, lockOwner, undone>>
        /\ nonceHolder' \in Threads \union {NoThread} /\ nonceDataInitialised' \in BOOLEAN
    BY <1>1 DEF GiveUpWaiting, TypeOK
  <2> QED
    BY <2>1, QuietStep
<1> QED
  BY <1>1, <1>2, <1>3, <1>4, <1>5, Returns

LEMMA ReturnKeepsInv ==
  ASSUME AccessInv, NEW t \in Threads, Return(t)
  PROVE  AccessInv'
<1>1. stack[t] # <<>> /\ TypeOK /\ Top(t).at \in {"return", "held"} /\ Pop(t, TRUE)
  BY DEF Return, At, AccessInv
<1>2. PICK c \in Nat : c = Under(t)
  BY <1>1, Acting
<1>3. /\ Top(t) \in Frame /\ FrameFits(Top(t), c, Exact) /\ Owed(t) \in Nat
      /\ Owed(t) <= Weight(Top(t), c) /\ (Exact => Weight(Top(t), c) = Owed(t))
  BY <1>1, <1>2, Acting
<1>4. /\ lockCount \in Nat /\ lockOwner \in Threads \union {NoThread}
      /\ UNCHANGED <<lockOwner, nonceHolder, nonceDataInitialised>>
      /\ lockCount' = IF Top(t).unlocked \/ lockCount = 0 THEN lockCount ELSE lockCount - 1
      /\ undone' = (undone \/ Undoes(t))
      /\ nonceHolder' \in Threads \union {NoThread} /\ nonceDataInitialised' \in BOOLEAN
      /\ undone \in BOOLEAN
  BY <1>1 DEF Return, TypeOK
<1>5. Weight(Top(t), c) = IF Top(t).unlocked \/ Top(t).lost THEN c ELSE c + 1
  BY <1>1, <1>3 DEF Weight, Suspended, Locking, Frame
<1>6. undone' \in BOOLEAN /\ (Exact' => Exact /\ ~Undoes(t))
  BY <1>4 DEF Exact
<1>7. CASE Top(t).unlocked \/ lockCount = 0
  <2>1. lockCount' = lockCount /\ Owed(t)' = Owed(t)
    BY <1>4, <1>7 DEF Owed
  <2>2. LockStep(t)
    BY <1>4, <1>6, <2>1 DEF LockStep
  <2>3. Owed(t)' <= c /\ (Exact' => c = Owed(t)')
    <3>1. CASE Top(t).unlocked
      BY <1>3, <1>5, <1>6, <2>1, <3>1
    <3>2. CASE lockCount = 0
      <4>1. Owed(t) = 0
        BY <3>2 DEF Owed
      <4> QED
        BY <1>3, <1>5, <1>6, <2>1, <4>1
    <3> QED
      BY <1>7, <3>1, <3>2
  <2> QED
    BY <1>1, <1>2, <2>2, <2>3, Returns
<1>8. CASE ~Top(t).unlocked /\ lockCount > 0 /\ lockOwner = t
  <2>1. lockCount' = lockCount - 1 /\ Owed(t) = lockCount /\ Owed(t)' = lockCount - 1
    BY <1>4, <1>8 DEF Owed
  <2>2. LockStep(t)
    BY <1>4, <1>6, <1>8, <2>1 DEF LockStep
  <2>3. ~Top(t).lost
    BY <1>3, <1>5, <1>8, <2>1 DEF FrameFits
  <2>4. Owed(t)' <= c /\ (Exact' => c = Owed(t)')
    BY <1>3, <1>4, <1>5, <1>6, <1>8, <2>1, <2>3
  <2> QED
    BY <1>1, <1>2, <2>2, <2>4, Returns
<1>9. CASE ~Top(t).unlocked /\ lockCount > 0 /\ lockOwner # t
  <2>1. lockCount' = lockCount - 1 /\ Owed(t) = 0 /\ Owed(t)' = 0
    BY <1>4, <1>9 DEF Owed
  <2>2. ~Exact'
    <3>1. CASE Top(t).lost
      BY <1>6, <1>9, <3>1 DEF Undoes
    <3>2. CASE ~Top(t).lost
      BY <1>3, <1>5, <1>6, <1>9, <2>1, <3>2
    <3> QED
      BY <3>1, <3>2
  <2>3. LockStep(t)
    BY <1>4, <1>6, <1>9, <2>1, <2>2 DEF LockStep
  <2>4. Owed(t)' <= Under(t) /\ (Exact' => Under(t) = Owed(t)')
    BY <1>2, <2>1, <2>2
  <2> QED
    BY <1>1, <2>3, <2>4, Returns
<1> QED
  BY <1>4, <1>7, <1>8, <1>9

LEMMA SuspendKeepsInv ==
  ASSUME AccessInv, NEW t \in Threads, Suspend(t)
  PROVE  AccessInv'
<1>1. stack[t] # <<>> /\ TypeOK /\ Top(t).at = "held" /\ Top(t).kind \in Kinds \ {"plain"}
  BY DEF Suspend, At, AccessInv
<1>2. PICK c \in Nat : c = Under(t)
  BY <1>1, Acting
<1>3. /\ Top(t) \in Frame /\ FrameFits(Top(t), c, Exact) /\ Owed(t) \in Nat
      /\ Owed(t) <= Weight(Top(t), c) /\ (Exact => Weight(Top(t), c) = Owed(t))
  BY <1>1, <1>2, Acting
<1>4. Weight(Top(t), c) = IF Top(t).lost THEN 0 ELSE c + 1
  BY <1>1, <1>3 DEF Weight, Suspended, Locking, Frame, FrameFits
<1>5. CASE lockCount > 0 /\ lockOwner = t
  <2>1. Owed(t) = lockCount /\ lockCount \in Nat /\ Owed(t) > 0
    BY <1>1, <1>5 DEF Owed, TypeOK
  <2>2. ~Top(t).lost /\ lockCount <= c + 1 /\ (Exact => lockCount = c + 1)
    BY <1>3, <1>4, <2>1
  <2>3. PICK f : f = [Top(t) EXCEPT !.at = "open", !.refCount = lockCount,
                                    !.unlocked = Top(t).kind = "forward"]
    OBVIOUS
  <2>4. lockCount' = 0 /\ SetTop(t, f)
    BY <1>5, <2>3 DEF Suspend
  <2>5. /\ f \in Frame /\ f.at = "open" /\ f.refCount = lockCount /\ f.kind = Top(t).kind
        /\ f.unlocked <=> f.kind = "forward"
        /\ ~f.lost
    BY <1>3, <2>1, <2>2, <2>3 DEF Frame
  <2>6. FrameFits(f, c, Exact) /\ Weight(f, c) = IF f.kind = "forward" THEN c ELSE 0
    BY <1>1, <1>3, <2>2, <2>5 DEF FrameFits, Weight, Suspended, Locking, Frame, Bare
  <2>7. Exact /\ f.kind = "forward" => c = 0
    BY <1>3, <2>5 DEF FrameFits, Exact, Bare
  <2>8. LockStep(t) /\ Owed(t)' = 0 /\ Exact' = Exact
    BY <1>1, <1>5, <2>4 DEF Suspend, LockStep, Owed, TypeOK, Exact
  <2>9. Owed(t)' <= Weight(f, c) /\ (Exact' => Weight(f, c) = Owed(t)')
    BY <2>6, <2>7, <2>8
  <2> QED
    BY <1>1, <1>2, <2>4, <2>5, <2>6, <2>8, <2>9, GoesOn
<1>6. CASE ~(lockCount > 0 /\ lockOwner = t)
  <2>1. PICK f : f = [Top(t) EXCEPT !.at = "return"]
    OBVIOUS
  <2>2. f \in Frame /\ FrameFits(f, c, Exact) /\ Weight(f, c) = Weight(Top(t), c)
    BY <1>1, <1>3, <2>1 DEF FrameFits, Weight, Suspended, Locking, Frame, Bare
  <2>3. SetTop(t, f) /\ UNCHANGED <<lockCount, lockOwner, undone>>
    BY <1>6, <2>1 DEF Suspend, GoTo
  <2>4. nonceHolder' \in Threads \union {NoThread} /\ nonceDataInitialised' \in BOOLEAN
    BY <1>1 DEF Suspend, TypeOK
  <2> QED
    BY <1>1, <1>2, <1>3, <2>2, <2>3, <2>4, GoesOnQuietly
<1> QED
  BY <1>5, <1>6

LEMMA ReadRandomKeepsInv ==
  ASSUME AccessInv, NEW t \in Threads, ReadRandom(t)
  PROVE  AccessInv'
<1>1. stack[t] # <<>> /\ TypeOK /\ Top(t).at = "open" /\ Top(t).kind = "random"
  BY DEF ReadRandom, At, AccessInv
<1>2. PICK c \in Nat : c = Under(t)
  BY <1>1, Acting
<1>3. /\ Top(t) \in Frame /\ FrameFits(Top(t), c, Exact) /\ Owed(t) \in Nat
      /\ Owed(t) <= Weight(Top(t), c) /\ (Exact => Weight(Top(t), c) = Owed(t))
  BY <1>1, <1>2, Acting
<1>4. /\ ~Top(t).unlocked /\ ~Top(t).lost /\ Weight(Top(t), c) = 0
      /\ Top(t).refCount \in Nat /\ Top(t).refCount <= c + 1 /\ (Exact => Top(t).refCount = c + 1)
  BY <1>1, <1>3 DEF FrameFits, Weight, Suspended, Frame
<1>5. /\ UNCHANGED <<lockCount, lockOwner, undone>> /\ nonceHolder' \in Threads \union {NoThread}
      /\ nonceDataInitialised' \in BOOLEAN /\ Owed(t) = 0
  BY <1>1, <1>3, <1>4 DEF ReadRandom, TypeOK
<1>6. CASE Top(t).refCount > 1
  <2>1. PICK f : f = [Top(t) EXCEPT !.at = "resume"]
    OBVIOUS
  <2>2. f \in Frame /\ FrameFits(f, c, Exact) /\ Weight(f, c) = 0
    BY <1>1, <1>3, <1>4, <2>1 DEF Frame, FrameFits, Weight, Suspended, Bare
  <2>3. SetTop(t, f)
    BY <1>6, <2>1 DEF ReadRandom
  <2> QED
    BY <1>1, <1>2, <1>5, <2>2, <2>3, GoesOnQuietly
<1>7. CASE ~(Top(t).refCount > 1)
  <2>1. PICK f : f = [Top(t) EXCEPT !.at = "return", !.unlocked = TRUE]
    OBVIOUS
  <2>2. Exact => c = 0
    BY <1>4, <1>7
  <2>3. f \in Frame /\ FrameFits(f, c, Exact) /\ Weight(f, c) = c
    BY <1>1, <1>3, <1>4, <2>1 DEF Frame, FrameFits, Weight, Suspended, Locking, Bare
  <2>4. SetTop(t, f)
    BY <1>7, <2>1 DEF ReadRandom
  <2>5. Owed(t) <= Weight(f, c) /\ (Exact => Weight(f, c) = Owed(t))
    BY <1>5, <2>2, <2>3
  <2> QED
    BY <1>1, <1>2, <1>5, <2>3, <2>4, <2>5, GoesOnQuietly
<1> QED
  BY <1>6, <1>7

(* Where a handler goes without a change of what it relies on.             *)
LEMMA GoToKeepsInv ==
  ASSUME AccessInv, NEW t \in Threads, stack[t] # <<>>, NEW a, GoTo(t, a),
         \/ Top(t).at = "open" /\ Top(t).kind = "nonce" /\ a = "getnonce"
         \/ Top(t).at = "open" /\ Top(t).kind \in {"nonzero", "selftest", "commit"} /\ a = "resume"
         \/ Top(t).at = "open" /\ Top(t).kind = "forward" /\ a = "return"
         \/ Top(t).at = "getnonce" /\ a \in {"drawn", "seed"}
         \/ Top(t).at = "drawn" /\ Top(t).kind = "nonce" /\ a = "resume",
         UNCHANGED <<lockCount, lockOwner, undone>>,
         nonceHolder' \in Threads \union {NoThread}, nonceDataInitialised' \in BOOLEAN
  PROVE  AccessInv'
<1>1. PICK c \in Nat : c = Under(t)
  BY Acting
<1>2. /\ Top(t) \in Frame /\ FrameFits(Top(t), c, Exact)
      /\ Owed(t) <= Weight(Top(t), c) /\ (Exact => Weight(Top(t), c) = Owed(t))
  BY <1>1, Acting
<1>3. PICK f : f = [Top(t) EXCEPT !.at = a]
  OBVIOUS
<1>4. SetTop(t, f)
  BY <1>3 DEF GoTo
<1>5. f \in Frame /\ FrameFits(f, c, Exact) /\ Weight(f, c) = Weight(Top(t), c)
  BY <1>2, <1>3 DEF Frame, FrameFits, Weight, Suspended, Locking, Bare
<1> QED
  BY <1>1, <1>2, <1>4, <1>5, GoesOnQuietly

LEMMA WorkKeepsInv ==
  ASSUME AccessInv, NEW t \in Threads, Work(t)
  PROVE  AccessInv'
<1>1. stack[t] # <<>> /\ Top(t).at = "open"
  BY DEF Work, At
<1>2. /\ UNCHANGED <<lockCount, lockOwner, undone>> /\ nonceHolder' \in Threads \union {NoThread}
      /\ nonceDataInitialised' \in BOOLEAN
  BY DEF Work, AccessInv, TypeOK
<1>3. \E a : /\ GoTo(t, a)
             /\ \/ Top(t).kind = "nonce" /\ a = "getnonce"
                \/ Top(t).kind \in {"nonzero", "selftest", "commit"} /\ a = "resume"
                \/ Top(t).kind = "forward" /\ a = "return"
  BY DEF Work, At
<1> QED
  BY <1>1, <1>2, <1>3, GoToKeepsInv

LEMMA EnterNonceMutexKeepsInv ==
  ASSUME AccessInv, NEW t \in Threads, EnterNonceMutex(t)
  PROVE  AccessInv'
<1>1. stack[t] # <<>> /\ Top(t).at = "getnonce"
  BY DEF EnterNonceMutex, At
<1>2. /\ UNCHANGED <<lockCount, lockOwner, undone>> /\ nonceHolder' \in Threads \union {NoThread}
      /\ nonceDataInitialised' \in BOOLEAN
  BY DEF EnterNonceMutex, AccessInv, TypeOK
<1>3. \E a \in {"drawn", "seed"} : GoTo(t, a)
  BY DEF EnterNonceMutex
<1> QED
  BY <1>1, <1>2, <1>3, GoToKeepsInv

LEMMA ExitNonceMutexKeepsInv ==
  ASSUME AccessInv, NEW t \in Threads, ExitNonceMutex(t)
  PROVE  AccessInv'
<1>1. stack[t] # <<>> /\ Top(t).at = "drawn"
  BY DEF ExitNonceMutex, At
<1>2. /\ UNCHANGED <<lockCount, lockOwner, undone>> /\ nonceHolder' \in Threads \union {NoThread}
      /\ nonceDataInitialised' \in BOOLEAN
  BY DEF ExitNonceMutex
<1>3. CASE Top(t).kind = "nonce" /\ GoTo(t, "resume")
  BY <1>1, <1>2, <1>3, GoToKeepsInv
<1>4. CASE /\ Top(t).kind = "selftest"
           /\ SetTop(t, [Top(t) EXCEPT !.kind = "forward", !.at = "held"])
  <2>1. PICK c \in Nat : c = Under(t)
    BY <1>1, Acting
  <2>2. /\ Top(t) \in Frame /\ FrameFits(Top(t), c, Exact)
        /\ Owed(t) <= Weight(Top(t), c) /\ (Exact => Weight(Top(t), c) = Owed(t))
    BY <1>1, <2>1, Acting
  <2>3. PICK f : f = [Top(t) EXCEPT !.kind = "forward", !.at = "held"]
    OBVIOUS
  <2>4. f \in Frame /\ FrameFits(f, c, Exact) /\ Weight(f, c) = Weight(Top(t), c)
    BY <1>1, <1>4, <2>2, <2>3 DEF Frame, FrameFits, Weight, Suspended, Locking, Bare, Kinds, Sent
  <2>5. SetTop(t, f)
    BY <1>4, <2>3
  <2> QED
    BY <1>1, <1>2, <2>1, <2>2, <2>4, <2>5, GoesOnQuietly
<1> QED
  BY <1>3, <1>4 DEF ExitNonceMutex, At

LEMMA AskForSeedKeepsInv ==
  ASSUME AccessInv, NEW t \in Threads, AskForSeed(t)
  PROVE  AccessInv'
<1>1. stack[t] # <<>> /\ TypeOK
  BY DEF AskForSeed, At, AccessInv
<1>2. stack[t] \in Seq(Frame) /\ Fits(stack[t], Exact)
  BY <1>1, Acting
<1>3. PICK c \in Nat : c = Claims(stack[t], Len(stack[t]))
  BY <1>2, LenProperties, ClaimsNat
<1>4. Owed(t) <= c /\ (Exact => c = Owed(t))
  BY <1>1, <1>3, Acting
<1>5. PICK m : m = Message("random")
  OBVIOUS
<1>6. m \in Frame /\ FrameFits(m, c, Exact) /\ Weight(m, c) = c
  <2>1. "random" \in Kinds /\ "random" \in Sent /\ "random" \notin Bare
    BY DEF Kinds, Sent, Bare
  <2> QED
    BY <1>3, <1>5, <2>1, MessageFits
<1>7. PICK r : r = Append(stack[t], m)
  OBVIOUS
<1>8. r \in Seq(Frame) /\ Fits(r, Exact) /\ Claims(r, Len(r)) = c
  BY <1>2, <1>3, <1>6, <1>7, PushFits
<1>9. stack' = [stack EXCEPT ![t] = r]
  BY <1>5, <1>7 DEF AskForSeed
<1>10. LockStep(t) /\ Owed(t)' = Owed(t) /\ Exact' = Exact
  <2>1. /\ UNCHANGED <<lockCount, lockOwner, undone>>
        /\ nonceHolder' \in Threads \union {NoThread} /\ nonceDataInitialised' \in BOOLEAN
    BY <1>1 DEF AskForSeed, TypeOK
  <2> QED
    BY <2>1, QuietStep
<1> QED
  BY <1>4, <1>8, <1>9, <1>10, StackStep

LEMMA ResumeKeepsInv ==
  ASSUME AccessInv, NEW t \in Threads, Resume(t)
  PROVE  AccessInv'
<1>1. stack[t] # <<>> /\ TypeOK /\ Top(t).at = "resume" /\ lockCount = 0
  BY DEF Resume, At, AccessInv
<1>2. PICK c \in Nat : c = Under(t)
  BY <1>1, Acting
<1>3. FrameFits(Top(t), c, Exact) /\ Top(t) \in Frame
  BY <1>1, <1>2, Acting
<1>4. /\ ~Top(t).unlocked /\ ~Top(t).lost /\ Top(t).refCount \in Nat
      /\ Top(t).refCount <= c + 1 /\ (Exact => Top(t).refCount = c + 1)
  BY <1>1, <1>3 DEF FrameFits, Suspended, Frame
<1>5. lockCount' = Top(t).refCount /\ lockOwner' = t /\ Owed(t)' = Top(t).refCount
  BY DEF Resume, Owed
<1>6. LockStep(t) /\ Exact' = Exact
  BY <1>1, <1>4, <1>5 DEF Resume, LockStep, TypeOK, Exact
<1>7. ASSUME NEW f \in Frame, FrameFits(f, c, Exact), Weight(f, c) = c + 1, SetTop(t, f)
      PROVE  AccessInv'
  <2>1. Owed(t)' <= Weight(f, c) /\ (Exact' => Weight(f, c) = Owed(t)')
    BY <1>4, <1>5, <1>6, <1>7
  <2> QED
    BY <1>1, <1>2, <1>6, <1>7, <2>1, GoesOn
<1>8. CASE At(t, {"nonce", "commit", "random", "nonzero"}, "resume") /\ GoTo(t, "return")
  <2>1. PICK f : f = [Top(t) EXCEPT !.at = "return"]
    OBVIOUS
  <2>2. f \in Frame /\ FrameFits(f, c, Exact) /\ Weight(f, c) = c + 1
    BY <1>1, <1>3, <1>4, <1>8, <2>1 DEF Frame, FrameFits, Weight, Suspended, Locking, Bare, At
  <2> QED
    BY <1>7, <1>8, <2>1, <2>2 DEF GoTo
<1>9. CASE /\ At(t, {"random", "nonzero"}, "resume")
           /\ SetTop(t, [Top(t) EXCEPT !.at = "held", !.failures = @ + 1])
  <2>1a. PICK n \in Nat : n = Top(t).failures + 1
    BY <1>3 DEF Frame
  <2>1. PICK f : f = [Top(t) EXCEPT !.at = "held", !.failures = n]
    OBVIOUS
  <2>2. /\ f \in Frame /\ f.at = "held" /\ ~f.unlocked /\ ~f.lost
        /\ f.kind \in {"random", "nonzero"} /\ f.kind \in Sent
    BY <1>3, <1>4, <1>9, <2>1 DEF Frame, At, FrameFits
  <2>3. FrameFits(f, c, Exact) /\ Weight(f, c) = c + 1
    BY <2>2 DEF FrameFits, Weight, Suspended, Locking, Bare
  <2>4. SetTop(t, f)
    BY <1>9, <2>1a, <2>1
  <2> QED
    BY <1>7, <2>2, <2>3, <2>4
<1>10. CASE At(t, {"selftest"}, "resume") /\ GoTo(t, "getnonce")
  <2>1. PICK f : f = [Top(t) EXCEPT !.at = "getnonce"]
    OBVIOUS
  <2>2. f \in Frame /\ FrameFits(f, c, Exact) /\ Weight(f, c) = c + 1
    BY <1>1, <1>3, <1>4, <1>10, <2>1 DEF Frame, FrameFits, Weight, Suspended, Locking, Bare, At
  <2> QED
    BY <1>7, <1>10, <2>1, <2>2 DEF GoTo
<1> QED
  BY <1>8, <1>9, <1>10 DEF Resume, AfterResume

LEMMA ResumeFailsKeepsInv ==
  ASSUME AccessInv, NEW t \in Threads, ResumeFails(t)
  PROVE  AccessInv'
<1>1. stack[t] # <<>> /\ TypeOK /\ Top(t).at = "resume"
  BY DEF ResumeFails, At, AccessInv
<1>2. PICK c \in Nat : c = Under(t)
  BY <1>1, Acting
<1>3. /\ Top(t) \in Frame /\ FrameFits(Top(t), c, Exact) /\ Owed(t) \in Nat
      /\ Owed(t) <= Weight(Top(t), c)
  BY <1>1, <1>2, Acting
<1>4. ~Top(t).unlocked /\ ~Top(t).lost /\ Weight(Top(t), c) = 0
  BY <1>1, <1>3 DEF FrameFits, Suspended, Frame, Weight
<1>5. Owed(t) = 0
  BY <1>3, <1>4
<1>6. PICK f \in AfterFailure(Top(t)) : stack' = [stack EXCEPT ![t] = Stranded(Replaced(@, f))]
  BY DEF ResumeFails
<1>7. f \in Frame /\ ~Suspended(f) /\ FrameFits(f, 0, Exact)
  <2>1. Top(t).kind \in {"random", "nonzero", "nonce", "selftest", "commit"}
    BY <1>1, <1>3 DEF FrameFits
  <2>2. PICK n \in Nat : n = Top(t).failures + 1
    BY <1>3 DEF Frame
  <2>3. /\ f \in Frame /\ ~f.lost /\ f.kind = Top(t).kind
        /\ \/ f.at = "return"
           \/ f.at = "getnonce" /\ f.kind = "selftest" /\ ~f.unlocked
           \/ f.at = "held" /\ ~f.unlocked
    <3>1. CASE Top(t).kind \in {"random", "nonce"}
      <4>1. f = [Top(t) EXCEPT !.at = "return", !.unlocked = TRUE]
        BY <1>6, <3>1 DEF AfterFailure
      <4> QED
        BY <1>3, <1>4, <4>1 DEF Frame
    <3>2. CASE Top(t).kind = "commit"
      <4>1. f = [Top(t) EXCEPT !.at = "return"]
        BY <1>6, <3>2 DEF AfterFailure
      <4> QED
        BY <1>3, <1>4, <4>1 DEF Frame
    <3>3. CASE Top(t).kind = "selftest"
      <4>1. f = [Top(t) EXCEPT !.at = "getnonce"]
        BY <1>6, <3>3 DEF AfterFailure
      <4> QED
        BY <1>3, <1>4, <3>3, <4>1 DEF Frame
    <3>4. CASE Top(t).kind = "nonzero"
      <4>1. \/ f = [Top(t) EXCEPT !.at = "return"]
            \/ f = [Top(t) EXCEPT !.at = "held", !.failures = n]
        BY <1>6, <2>2, <3>4 DEF AfterFailure
      <4> QED
        BY <1>3, <1>4, <4>1 DEF Frame
    <3> QED
      BY <2>1, <3>1, <3>2, <3>3, <3>4
  <2>4. f.kind \in Sent
    BY <1>3, <2>3 DEF FrameFits
  <2> QED
    BY <2>1, <2>3, <2>4 DEF FrameFits, Suspended
<1>8. stack[t] \in Seq(Frame) /\ Fits(stack[t], Exact)
  BY <1>1, Acting
<1>9. PICK r : r = Stranded(Replaced(stack[t], f))
  OBVIOUS
<1>10. r \in Seq(Frame) /\ Fits(r, Exact) /\ Claims(r, Len(r)) = 0
  BY <1>1, <1>7, <1>8, <1>9, StrandedFits
<1>11. stack' = [stack EXCEPT ![t] = r]
  BY <1>6, <1>9
<1>12. LockStep(t) /\ Owed(t)' = Owed(t) /\ Exact' = Exact
  <2>1. /\ UNCHANGED <<lockCount, lockOwner, undone>>
        /\ nonceHolder' \in Threads \union {NoThread} /\ nonceDataInitialised' \in BOOLEAN
    BY <1>1 DEF ResumeFails, TypeOK
  <2> QED
    BY <2>1, QuietStep
<1>13. Owed(t)' <= Claims(r, Len(r)) /\ (Exact' => Claims(r, Len(r)) = Owed(t)')
  BY <1>5, <1>10, <1>12
<1> QED
  BY <1>10, <1>11, <1>12, <1>13, StackStep

-----------------------------------------------------------------------------
(* The theorems. *)

LEMMA InitAccessInv == Init => AccessInv
<1> SUFFICES ASSUME Init PROVE AccessInv
  OBVIOUS
<1>1. <<>> \in Seq(Frame) /\ Len(<<>>) = 0
  BY EmptySeq
<1>2. TypeOK
  BY <1>1 DEF Init, TypeOK
<1>3. \A t \in Threads : Claims(stack[t], Len(stack[t])) = 0 /\ Owed(t) = 0
  BY <1>1, ClaimsNone DEF Init, Owed
<1>4. NotKeptLocked /\ LockCountExact
  BY <1>3 DEF NotKeptLocked, LockCountExact
<1>5. FramesFit
  BY <1>1 DEF Init, FramesFit, Fits
<1> QED
  BY <1>2, <1>4, <1>5 DEF AccessInv

LEMMA NextKeepsAccessInv == AccessInv /\ [Next]_vars => AccessInv'
<1> SUFFICES ASSUME AccessInv, [Next]_vars PROVE AccessInv'
  OBVIOUS
<1>1. CASE UNCHANGED vars
  <2>1. TypeOK'
    BY <1>1 DEF vars, AccessInv, TypeOK
  <2>2. stack' = stack /\ lockOwner' = lockOwner /\ lockCount' = lockCount /\ undone' = undone
    BY <1>1 DEF vars
  <2>3. NotKeptLocked'
    BY <2>2 DEF AccessInv, NotKeptLocked, Owed
  <2>4. CalledBare => LockCountExact'
    BY <2>2 DEF AccessInv, LockCountExact, Owed
  <2>5. FramesFit'
    BY <2>2 DEF AccessInv, FramesFit
  <2> QED
    BY <2>1, <2>3, <2>4, <2>5 DEF AccessInv
<1>2. ASSUME NEW t \in Threads, NEW k \in Kinds, Send(t, k)
      PROVE  AccessInv'
  BY <1>2, SendKeepsInv
<1>3. ASSUME NEW t \in Threads, Step(t)
      PROVE  AccessInv'
  BY <1>3, DispatchKeepsInv, GiveUpWaitingKeepsInv, ReturnKeepsInv, SuspendKeepsInv, ReadRandomKeepsInv,
     WorkKeepsInv, ResumeKeepsInv, ResumeFailsKeepsInv, EnterNonceMutexKeepsInv, AskForSeedKeepsInv,
     ExitNonceMutexKeepsInv DEF Step
<1> QED
  BY <1>1, <1>2, <1>3 DEF Next

(* However messages to the system or user object nest, suspend it, take it *)
(* back or fail to, and whoever undoes whose lock then, the inductive      *)
(* invariant holds.                                                        *)
THEOREM AccessCorrect == Spec => []AccessInv
<1>1. Init => AccessInv
  BY InitAccessInv
<1>2. AccessInv /\ [Next]_vars => AccessInv'
  BY NextKeepsAccessInv
<1> QED
  BY <1>1, <1>2, PTL DEF Spec

(* The object is never kept locked for good: each of its locks has a       *)
(* handler of the owner that will undo it, also when krnlResumeObject      *)
(* fails, whatever the messages are and however they nest.                 *)
THEOREM NotKeptLockedAlways == Spec => []NotKeptLocked
<1>1. AccessInv => NotKeptLocked
  BY DEF AccessInv
<1> QED
  BY <1>1, AccessCorrect, PTL

(* The lock count is the number of handlers that hold the lock, and they   *)
(* are its owner's, until a handler that could not take the object back    *)
(* undoes another thread's lock.  What gives the object up for good is not *)
(* called from a handler that holds it (an assertion of cryptdev.c).       *)
THEOREM LockCountExactAlways == ASSUME CalledBare PROVE Spec => []LockCountExact
<1>1. AccessInv => LockCountExact
  BY DEF AccessInv
<1> QED
  BY <1>1, AccessCorrect, PTL

(* Without the self-test, a thread that waits for the nonce mutex does not *)
(* hold the system object: object and mutex are never waited for crosswise. *)
THEOREM NoEmbraceAlways ==
  ASSUME "selftest" \notin AppSends \union NestedSends \union ForwardSends
  PROVE  Spec => []NoEmbrace
<1>1. ASSUME AccessInv PROVE NoEmbrace
  <2> SUFFICES ASSUME NEW t \in Threads, NEW u \in Threads, Embraced(t, u) PROVE FALSE
    BY DEF NoEmbrace
  <2>1. stack[t] # <<>> /\ Top(t).at = "getnonce" /\ Owed(t) = lockCount /\ lockCount > 0
    BY DEF Embraced, At, Owed
  <2>2. PICK c \in Nat : c = Under(t)
    BY <1>1, <2>1, Acting
  <2>3. FrameFits(Top(t), c, Exact) /\ Owed(t) \in Nat /\ Owed(t) <= Weight(Top(t), c)
    BY <1>1, <2>1, <2>2, Acting
  <2>4. Top(t).kind = "nonce"
    BY <2>1, <2>3 DEF FrameFits, Sent
  <2>5. Weight(Top(t), c) = 0
    BY <2>1, <2>4 DEF Weight, Suspended
  <2> QED
    BY <2>1, <2>3, <2>5
<1> QED
  BY <1>1, AccessCorrect, PTL
=============================================================================
