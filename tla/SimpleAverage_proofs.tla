------------------------ MODULE SimpleAverage_proofs ------------------------
(***************************************************************************)
(* For any size of the ring and any values: the ring remembers what a      *)
(* window over the last N values would, and its sum is the sum of them.    *)
(***************************************************************************)
EXTENDS SimpleAverage, SequenceTheorems, WellFoundedInduction, TLAPS

USE SizeAssumption DEF Slots

\* A ring that is not full has never wrapped since its last reset.
Unwrapped == count < N => index = count

RingInv == TypeOK /\ Unwrapped

LEMMA RingInvCorrect == Spec => []RingInv
<1>1. Init => RingInv
  BY DEF Init, RingInv, TypeOK, Unwrapped
<1>2. RingInv /\ [Next]_vars => RingInv'
  <2> SUFFICES ASSUME RingInv, [Next]_vars PROVE RingInv'
    OBVIOUS
  <2>1. CASE UNCHANGED vars
    BY <2>1 DEF RingInv, TypeOK, Unwrapped, vars
  <2>2. CASE Reset
    BY <2>2 DEF RingInv, TypeOK, Unwrapped, Reset
  <2>3. ASSUME NEW d \in Values, Filter(d) PROVE RingInv'
    <3>1. buffer[index] \in Int /\ d \in Int
      BY DEF RingInv, TypeOK
    <3>2. QED
      BY <2>3, <3>1 DEF RingInv, TypeOK, Unwrapped, Filter
  <2>4. QED
    BY <2>1, <2>2, <2>3 DEF Next
<1>3. QED
  BY <1>1, <1>2, PTL DEF Spec

\* The fields of the ring keep their types.
THEOREM TypeCorrect == Spec => []TypeOK
<1>1. RingInv => TypeOK
  BY DEF RingInv
<1>2. QED
  BY <1>1, RingInvCorrect, PTL

-----------------------------------------------------------------------------

LEMMA SlotInRange ==
    ASSUME RingInv, NEW k \in 1..count
    PROVE  Slot(k) \in Slots
BY DEF RingInv, TypeOK, Slot

LEMMA AppendElements ==
    ASSUME NEW S, NEW s \in Seq(S), NEW d \in S
    PROVE  Append(s, d) = [k \in 1..Len(s) + 1 |->
                              IF k = Len(s) + 1 THEN d ELSE s[k]]
<1> DEFINE f == [k \in 1..Len(s) + 1 |-> IF k = Len(s) + 1 THEN d ELSE s[k]]
<1>1. f \in Seq(S) /\ Len(f) = Len(s) + 1
  <2>1. \A k \in 1..Len(s) + 1 : (IF k = Len(s) + 1 THEN d ELSE s[k]) \in S
    OBVIOUS
  <2>2. QED
    BY <2>1
<1>2. \A k \in 1..Len(f) : Append(s, d)[k] = f[k]
  BY <1>1, AppendProperties
<1>3. Append(s, d) \in Seq(S) /\ Len(Append(s, d)) = Len(f)
  BY <1>1, AppendProperties
<1> HIDE DEF f
<1>4. Append(s, d) = f
  BY <1>1, <1>2, <1>3, SeqEqual
<1>5. QED
  BY <1>4 DEF f

LEMMA ReplaceElements ==
    ASSUME NEW S, NEW s \in Seq(S), NEW d \in S, Len(s) > 0
    PROVE  Append(Tail(s), d) = [k \in 1..Len(s) |->
                                    IF k = Len(s) THEN d ELSE s[k + 1]]
<1>1. Tail(s) \in Seq(S) /\ Len(Tail(s)) = Len(s) - 1
  OBVIOUS
<1>2. \A k \in 1..Len(s) - 1 : Tail(s)[k] = s[k + 1]
  OBVIOUS
<1>3. Append(Tail(s), d)
        = [k \in 1..Len(Tail(s)) + 1 |->
             IF k = Len(Tail(s)) + 1 THEN d ELSE Tail(s)[k]]
  <2>1. \A t \in Seq(S) :
          Append(t, d) = [k \in 1..Len(t) + 1 |->
                             IF k = Len(t) + 1 THEN d ELSE t[k]]
    BY AppendElements
  <2>2. QED
    BY <1>1, <2>1, Zenon
<1>4. \A k \in 1..Len(s) : (IF k = Len(s) THEN d ELSE Tail(s)[k])
                            = (IF k = Len(s) THEN d ELSE s[k + 1])
  BY <1>2
<1>5. Len(Tail(s)) + 1 = Len(s)
  BY <1>1
<1>6. QED
  BY <1>3, <1>4, <1>5

LEMMA ContentsType ==
    ASSUME RingInv
    PROVE  Contents \in Seq(Values) /\ Len(Contents) = count
BY SlotInRange DEF Contents, RingInv, TypeOK

-----------------------------------------------------------------------------
(* The ring implements the window.                                          *)

\* A value filtered into a ring that is not full is appended.
LEMMA AppendStep ==
    ASSUME RingInv, NEW d \in Values, Filter(d), count < N
    PROVE  Contents' = Append(Contents, d)
<1>1. count' = count + 1 /\ buffer' = [buffer EXCEPT ![count] = d]
  BY DEF RingInv, TypeOK, Unwrapped, Filter
<1>2. \A k \in 1..count + 1 : Slot(k)' = k - 1
  BY <1>1 DEF RingInv, TypeOK, Unwrapped, Filter, Slot
<1>3. \A k \in 1..count : Slot(k) = k - 1
  BY DEF RingInv, TypeOK, Unwrapped, Slot
<1>4. \A k \in 1..count + 1 :
        buffer'[Slot(k)'] = IF k = count + 1 THEN d ELSE buffer[Slot(k)]
  BY <1>1, <1>2, <1>3 DEF RingInv, TypeOK
<1>5. Append(Contents, d)
        = [k \in 1..count + 1 |-> IF k = count + 1 THEN d ELSE buffer[Slot(k)]]
  <2>1. Append(Contents, d)
          = [k \in 1..count + 1 |-> IF k = count + 1 THEN d ELSE Contents[k]]
    BY ContentsType, AppendElements
  <2>2. \A k \in 1..count + 1 :
          (IF k = count + 1 THEN d ELSE Contents[k])
            = (IF k = count + 1 THEN d ELSE buffer[Slot(k)])
    BY DEF Contents, RingInv, TypeOK
  <2>3. QED
    BY <2>1, <2>2
<1>6. QED
  BY <1>1, <1>4, <1>5 DEF Contents

\* A value filtered into a full ring takes the place of the oldest.
LEMMA ReplaceStep ==
    ASSUME RingInv, NEW d \in Values, Filter(d), count = N
    PROVE  Contents' = Append(Tail(Contents), d)
<1>1. count' = N /\ buffer' = [buffer EXCEPT ![index] = d]
  BY DEF RingInv, TypeOK, Filter
<1>2. \A k \in 1..N-1 : Slot(k)' = Slot(k + 1) /\ Slot(k + 1) # index
  BY DEF RingInv, TypeOK, Filter, Slot
<1>3. \A k \in {N} : Slot(k)' = index
  BY DEF RingInv, TypeOK, Filter, Slot
<1>4. \A k \in 1..N :
        buffer'[Slot(k)'] = IF k = N THEN d ELSE buffer[Slot(k + 1)]
  <2>1. \A k \in 1..N-1 : Slot(k + 1) \in Slots
    BY SlotInRange
  <2>2. QED
    BY <1>1, <1>2, <1>3, <2>1 DEF RingInv, TypeOK
<1>5. Append(Tail(Contents), d)
        = [k \in 1..N |-> IF k = N THEN d ELSE buffer[Slot(k + 1)]]
  <2>1. Append(Tail(Contents), d)
          = [k \in 1..N |-> IF k = N THEN d ELSE Contents[k + 1]]
    BY ContentsType, ReplaceElements
  <2>2. \A k \in 1..N : (IF k = N THEN d ELSE Contents[k + 1])
                         = (IF k = N THEN d ELSE buffer[Slot(k + 1)])
    BY DEF Contents
  <2>3. QED
    BY <2>1, <2>2
<1>6. QED
  BY <1>1, <1>4, <1>5 DEF Contents

\* Through any wraps and resets the ring remembers the last N values.
THEOREM ImplementsSampleWindow == Spec => RemembersLast
<1>1. Init => Contents = <<>>
  BY DEF Init, Contents
<1>2. ASSUME RingInv, [Next]_vars
      PROVE  [Window!Next]_Contents
  <2>1. CASE UNCHANGED vars
    BY <2>1 DEF vars, Contents, Slot
  <2>2. CASE Reset
    <3>1. Contents' = <<>>
      BY <2>2 DEF Reset, Contents
    <3>2. QED
      BY <3>1 DEF Window!Next, Window!Reset
  <2>3. ASSUME NEW d \in Values, Filter(d) PROVE Window!Next
    <3>1. Contents' = Window!Remember(Contents, d)
      BY <1>2, <2>3, AppendStep, ReplaceStep, ContentsType
         DEF Window!Remember, RingInv, TypeOK
    <3>2. QED
      BY <3>1 DEF Window!Next, Window!Filter
  <2>4. QED
    BY <1>2, <2>1, <2>2, <2>3 DEF Next
<1>3. QED
  BY <1>1, <1>2, RingInvCorrect, PTL
     DEF Spec, RemembersLast, Window!Spec, Window!Init

-----------------------------------------------------------------------------
(* Sums.                                                                    *)

\* A set of naturals that has 0 and, with n, n + 1 has them all: induction for
\* a property that is a set.
LEMMA NaturalsByInduction ==
    ASSUME NEW P, 0 \in P, \A n \in Nat : n \in P => n + 1 \in P
    PROVE  \A n \in Nat : n \in P
<1> DEFINE Missing == {n \in Nat : n \notin P}
<1> SUFFICES ASSUME Missing # {} PROVE FALSE
  OBVIOUS
<1>1. PICK n \in Missing : \A m \in Missing : <<m, n>> \notin OpToRel(<, Nat)
  <2>1. Missing \subseteq Nat
    OBVIOUS
  <2> HIDE DEF Missing
  <2>2. QED
    BY <2>1, NatLessThanWellFounded, WFMin
<1>2. \A m \in Nat : m < n => m \in P
  BY <1>1 DEF OpToRel
<1>3. n # 0 /\ n - 1 \in Nat
  OBVIOUS
<1>4. n - 1 \in P
  BY <1>2, <1>3
<1>5. QED
  BY <1>3, <1>4

\* Two series that grow by the same amounts stay as far apart as they began.
GrowAlike(f, g, n, c) ==
    /\ \A k \in 0..n : f[k] \in Int /\ g[k] \in Int
    /\ f[0] = g[0] + c
    /\ \A k \in 1..n : f[k] - f[k - 1] = g[k] - g[k - 1]

LEMMA SameGrowth ==
    ASSUME NEW f, NEW g, NEW n \in Nat, NEW c \in Int, GrowAlike(f, g, n, c)
    PROVE  \A k \in 0..n : f[k] = g[k] + c
<1> USE DEF GrowAlike
<1> DEFINE P == {k \in Nat : k <= n => f[k] = g[k] + c}
<1>1. 0 \in P
  OBVIOUS
<1>2. ASSUME NEW k \in Nat, k \in P PROVE k + 1 \in P
  <2> SUFFICES ASSUME k + 1 <= n PROVE f[k + 1] = g[k + 1] + c
    OBVIOUS
  <2>1. k + 1 \in 1..n /\ k \in 0..n /\ k + 1 \in 0..n /\ (k + 1) - 1 = k
    OBVIOUS
  <2>2. f[k] = g[k] + c /\ f[k + 1] - f[k] = g[k + 1] - g[k]
    BY <1>2, <2>1
  <2>3. f[k] \in Int /\ g[k] \in Int /\ f[k + 1] \in Int /\ g[k + 1] \in Int
    BY <2>1
  <2>4. QED
    BY <2>2, <2>3
<1> HIDE DEF P
<1>3. \A k \in Nat : k \in P
  BY <1>1, <1>2, NaturalsByInduction
<1>4. QED
  BY <1>3 DEF P

\* f sums up the first n elements of s.
Sums(f, s, n) ==
    /\ f \in [0..n -> Int]
    /\ f[0] = 0
    /\ \A k \in 1..n : f[k] = f[k - 1] + s[k]

LEMMA SumsExist ==
    ASSUME NEW s \in Seq(Int)
    PROVE  \E f : Sums(f, s, Len(s))
<1> DEFINE P == {n \in Nat : n <= Len(s) => \E f : Sums(f, s, n)}
<1>0. Len(s) \in Nat /\ \A k \in 1..Len(s) : s[k] \in Int
  OBVIOUS
<1>1. 0 \in P
  <2>1. Sums([k \in 0..0 |-> 0], s, 0)
    BY DEF Sums
  <2>2. QED
    BY <2>1
<1>2. ASSUME NEW n \in Nat, n \in P PROVE n + 1 \in P
  <2> SUFFICES ASSUME n + 1 <= Len(s) PROVE \E g : Sums(g, s, n + 1)
    OBVIOUS
  <2>1. PICK f : Sums(f, s, n)
    BY <1>0, <1>2
  <2> DEFINE g == [k \in 0..n + 1 |-> IF k <= n THEN f[k] ELSE f[n] + s[n + 1]]
  <2>2. f \in [0..n -> Int] /\ s[n + 1] \in Int /\ f[n] \in Int
    BY <1>0, <2>1 DEF Sums
  <2>3. g \in [0..n + 1 -> Int]
    BY <2>2
  <2>4. g[0] = 0
    BY <2>1 DEF Sums
  <2>5. \A k \in 1..n + 1 : g[k] = g[k - 1] + s[k]
    <3> SUFFICES ASSUME NEW k \in 1..n + 1 PROVE g[k] = g[k - 1] + s[k]
      OBVIOUS
    <3>1. CASE k = n + 1
      BY <3>1
    <3>2. CASE k \in 1..n
      BY <2>1, <3>2 DEF Sums
    <3>3. QED
      BY <3>1, <3>2
  <2> HIDE DEF g
  <2>6. QED
    BY <2>3, <2>4, <2>5 DEF Sums
<1> HIDE DEF P
<1>3. Len(s) \in P
  BY <1>0, <1>1, <1>2, NaturalsByInduction
<1>4. QED
  BY <1>0, <1>3 DEF P

\* The recursive definition defines what it says.
LEMMA PartialSumsSum ==
    ASSUME NEW s \in Seq(Int)
    PROVE  Sums(PartialSums(s), s, Len(s))
<1> DEFINE n == Len(s)
           IsTotal(f) == f = [k \in 0..n |-> IF k = 0 THEN 0 ELSE f[k - 1] + s[k]]
           g == PartialSums(s)
<1>0. n \in Nat /\ \A k \in 1..n : s[k] \in Int
  OBVIOUS
<1>1. PICK f : Sums(f, s, n)
  BY SumsExist
<1>2. IsTotal(f)
  <2>1. f = [k \in 0..n |-> f[k]]
    BY <1>1 DEF Sums
  <2>2. \A k \in 0..n : f[k] = IF k = 0 THEN 0 ELSE f[k - 1] + s[k]
    BY <1>0, <1>1 DEF Sums
  <2>3. QED
    BY <2>1, <2>2
<1>3. g = CHOOSE h : IsTotal(h)
  BY DEF PartialSums
<1>4. IsTotal(g)
  <2> HIDE DEF IsTotal, g
  <2>1. QED
    BY <1>2, <1>3
<1> HIDE DEF g
<1>5. /\ DOMAIN g = 0..n /\ g = [k \in 0..n |-> g[k]] /\ g[0] = 0
      /\ \A k \in 1..n : g[k] = g[k - 1] + s[k]
  BY <1>0, <1>4
<1> DEFINE P == {k \in Nat : k <= n => g[k] \in Int}
<1>6. 0 \in P
  BY <1>5
<1>7. ASSUME NEW k \in Nat, k \in P PROVE k + 1 \in P
  <2> SUFFICES ASSUME k + 1 <= n PROVE g[k + 1] \in Int
    OBVIOUS
  <2>1. g[k] \in Int /\ k + 1 \in 1..n /\ (k + 1) - 1 = k
    BY <1>0, <1>7
  <2>2. g[k + 1] = g[k] + s[k + 1] /\ s[k + 1] \in Int
    BY <1>0, <1>5, <2>1
  <2>3. QED
    BY <2>1, <2>2
<1>8. \A k \in Nat : k \in P
  <2> HIDE DEF P
  <2>1. QED
    BY <1>6, <1>7, NaturalsByInduction
<1>9. \A k \in 0..n : g[k] \in Int
  BY <1>0, <1>8
<1>10. QED
  BY <1>5, <1>9 DEF Sums, g

\* What is appended is added.
LEMMA SumOfAppend ==
    ASSUME NEW s \in Seq(Int), NEW d \in Int
    PROVE  PartialSums(Append(s, d))[Len(s) + 1] = PartialSums(s)[Len(s)] + d
<1> DEFINE t == Append(s, d)
           n == Len(s)
           f == PartialSums(t)
           g == PartialSums(s)
<1>1. /\ t \in Seq(Int) /\ Len(t) = n + 1 /\ n \in Nat
      /\ \A k \in 1..n : t[k] = s[k]
      /\ t[n + 1] = d
  BY AppendProperties
<1>2. Sums(f, t, n + 1) /\ Sums(g, s, n)
  BY <1>1, PartialSumsSum
<1> HIDE DEF t, n, f, g
<1>3. /\ \A k \in 0..n : f[k] \in Int /\ g[k] \in Int
      /\ f[0] = g[0] + 0
      /\ \A k \in 1..n : f[k] - f[k - 1] = g[k] - g[k - 1]
  <2>1. \A k \in 0..n : k \in 0..n + 1 /\ f[k] \in Int /\ g[k] \in Int
    BY <1>1, <1>2 DEF Sums
  <2>2. f[0] = g[0] + 0
    BY <1>2 DEF Sums
  <2>3. ASSUME NEW k \in 1..n PROVE f[k] - f[k - 1] = g[k] - g[k - 1]
    <3>1. k \in 1..n + 1 /\ k - 1 \in 0..n /\ s[k] \in Int
      BY <1>1
    <3>2. f[k] = f[k - 1] + s[k] /\ g[k] = g[k - 1] + s[k]
      BY <1>1, <1>2, <3>1 DEF Sums
    <3>3. f[k - 1] \in Int /\ g[k - 1] \in Int
      BY <2>1, <3>1
    <3>4. QED
      BY <3>1, <3>2, <3>3
  <2>4. QED
    BY <2>1, <2>2, <2>3
<1>4. \A k \in 0..n : f[k] = g[k] + 0
  <2>1. n \in Nat /\ 0 \in Int
    BY <1>1
  <2>2. GrowAlike(f, g, n, 0)
    BY <1>3 DEF GrowAlike
  <2>3. QED
    BY <2>1, <2>2, SameGrowth
<1>5. f[n] = g[n] /\ f[n + 1] = f[n] + d
  BY <1>1, <1>2, <1>4 DEF Sums
<1>6. QED
  BY <1>5 DEF t, n, f, g

\* What is taken off the front is taken off the sum.
LEMMA SumOfTail ==
    ASSUME NEW s \in Seq(Int), Len(s) > 0
    PROVE  PartialSums(Tail(s))[Len(s) - 1] = PartialSums(s)[Len(s)] - s[1]
<1> DEFINE t == Tail(s)
           n == Len(s) - 1
           f == PartialSums(t)
           g == PartialSums(s)
           h == [k \in 0..n |-> g[k + 1]]
<1>1. /\ t \in Seq(Int) /\ Len(t) = n /\ n \in Nat /\ Len(s) = n + 1
      /\ \A k \in 1..n : t[k] = s[k + 1]
      /\ \A k \in 1..n + 1 : s[k] \in Int
  OBVIOUS
<1>2. Sums(f, t, n) /\ Sums(g, s, n + 1)
  BY <1>1, PartialSumsSum
<1> HIDE DEF t, n, f, g
<1>3. -s[1] \in Int /\ g[1] = s[1] /\ f[0] = 0 /\ h[0] = g[1]
  BY <1>1, <1>2 DEF Sums
<1>4. /\ \A k \in 0..n : f[k] \in Int /\ h[k] \in Int
      /\ f[0] = h[0] + (-s[1])
  <2>1. ASSUME NEW k \in 0..n PROVE f[k] \in Int /\ h[k] \in Int
    <3>1. k + 1 \in 0..n + 1 /\ h[k] = g[k + 1]
      BY <1>1
    <3>2. QED
      BY <1>2, <3>1 DEF Sums
  <2>2. s[1] \in Int
    BY <1>1
  <2> HIDE DEF h
  <2>3. QED
    BY <1>3, <2>1, <2>2
<1>5. \A k \in 1..n : f[k] - f[k - 1] = h[k] - h[k - 1]
  <2> SUFFICES ASSUME NEW k \in 1..n PROVE f[k] - f[k - 1] = h[k] - h[k - 1]
    OBVIOUS
  <2>0. /\ k - 1 \in 0..n /\ k \in 0..n /\ k + 1 \in 1..n + 1 /\ k \in 0..n + 1
        /\ (k - 1) + 1 = k /\ (k + 1) - 1 = k
    BY <1>1
  <2>1. h[k] = g[k + 1] /\ h[k - 1] = g[k] /\ g[k + 1] = g[k] + s[k + 1]
    <3>1. h[k] = g[k + 1] /\ h[k - 1] = g[(k - 1) + 1]
      BY <2>0
    <3>2. g[k + 1] = g[(k + 1) - 1] + s[k + 1]
      BY <1>2, <2>0 DEF Sums
    <3>3. QED
      BY <2>0, <3>1, <3>2
  <2>2. f[k] = f[k - 1] + s[k + 1]
    BY <1>1, <1>2 DEF Sums
  <2>3. f[k - 1] \in Int /\ g[k] \in Int /\ s[k + 1] \in Int
    BY <1>1, <1>2, <2>0 DEF Sums
  <2>4. QED
    BY <2>1, <2>2, <2>3
<1>6. h[n] = g[n + 1] /\ g[n + 1] \in Int
  BY <1>1, <1>2 DEF Sums
<1> HIDE DEF h
<1>7. \A k \in 0..n : f[k] = h[k] + (-s[1])
  <2>1. n \in Nat /\ -s[1] \in Int
    BY <1>1, <1>3
  <2>2. GrowAlike(f, h, n, -s[1])
    BY <1>4, <1>5 DEF GrowAlike
  <2>3. QED
    BY <2>1, <2>2, SameGrowth
<1>8. f[n] = g[n + 1] - s[1]
  BY <1>1, <1>3, <1>6, <1>7
<1>9. QED
  BY <1>1, <1>8 DEF t, n, f, g

\* Through any wraps and resets the running sum is that of the values the ring
\* remembers.
THEOREM SumMatchesCorrect == Spec => []SumMatches
<1>1. Init => SumMatches
  <2> SUFFICES ASSUME Init PROVE SumMatches
    OBVIOUS
  <2>1. Contents = <<>> /\ count = 0 /\ sum = 0
    BY DEF Init, Contents
  <2>2. Sums(PartialSums(<<>>), <<>>, 0)
    BY PartialSumsSum, EmptySeq
  <2>3. QED
    BY <2>1, <2>2 DEF SumMatches, Sums
<1>2. RingInv /\ SumMatches /\ [Next]_vars => SumMatches'
  <2> SUFFICES ASSUME RingInv, SumMatches, [Next]_vars PROVE SumMatches'
    OBVIOUS
  <2>0. Contents \in Seq(Int) /\ Len(Contents) = count /\ count \in 0..N
    BY ContentsType, SeqMonotonic DEF RingInv, TypeOK
  <2>1. CASE UNCHANGED vars
    BY <2>1 DEF vars, SumMatches, Contents, Slot
  <2>2. CASE Reset
    <3>1. Contents' = <<>> /\ count' = 0 /\ sum' = 0
      BY <2>2 DEF Reset, Contents
    <3>2. Sums(PartialSums(<<>>), <<>>, 0)
      BY PartialSumsSum, EmptySeq
    <3>3. QED
      BY <3>1, <3>2 DEF SumMatches, Sums
  <2>3. ASSUME NEW d \in Values, Filter(d), count < N PROVE SumMatches'
    <3>1. Contents' = Append(Contents, d) /\ count' = count + 1 /\ sum' = sum + d
      <4>1. sum \in Int /\ d \in Int
        BY DEF RingInv, TypeOK
      <4>2. Contents' = Append(Contents, d)
        BY <2>3, AppendStep
      <4>3. QED
        BY <2>0, <2>3, <4>1, <4>2 DEF Filter
    <3>2. PartialSums(Append(Contents, d))[count + 1] = PartialSums(Contents)[count] + d
      BY <2>0, SumOfAppend
    <3>3. QED
      BY <3>1, <3>2 DEF SumMatches
  <2>4. ASSUME NEW d \in Values, Filter(d), count = N PROVE SumMatches'
    <3> DEFINE tail == Tail(Contents)
    <3>1. Contents' = Append(tail, d) /\ count' = count /\ sum' = sum + d - buffer[index]
      <4>1. Contents' = Append(tail, d)
        BY <2>4, ReplaceStep
      <4>2. QED
        BY <2>0, <2>4, <4>1 DEF Filter
    <3>2. Contents[1] = buffer[index]
      BY <2>0, <2>4 DEF Contents, Slot, RingInv, TypeOK
    <3>3. tail \in Seq(Int) /\ Len(tail) = count - 1 /\ count \in Nat /\ d \in Int
          /\ buffer[index] \in Int /\ sum \in Int
      BY <2>0, <2>4 DEF RingInv, TypeOK
    <3>4. PartialSums(tail)[count - 1] = PartialSums(Contents)[count] - buffer[index]
      BY <2>0, <2>4, <3>2, SumOfTail
    <3> HIDE DEF tail
    <3>5. PartialSums(Append(tail, d))[(count - 1) + 1] = PartialSums(tail)[count - 1] + d
      BY <3>3, SumOfAppend
    <3>6. (count - 1) + 1 = count
      BY <3>3
    <3>7. PartialSums(Append(tail, d))[count] = sum - buffer[index] + d
      BY <3>4, <3>5, <3>6 DEF SumMatches
    <3>8. QED
      BY <3>1, <3>3, <3>7 DEF SumMatches
  <2>5. QED
    BY <2>0, <2>1, <2>2, <2>3, <2>4 DEF Next
<1>3. QED
  BY <1>1, <1>2, RingInvCorrect, PTL DEF Spec

=============================================================================
