--------------------------- MODULE Multitouch_proofs ---------------------------
(***************************************************************************)
(* What stands between the parser and macOS.                               *)
(*                                                                         *)
(* The multitouch interface, for any engines and scores: what an engine    *)
(* that opens during a report can do to it.                                *)
(*                                                                         *)
(* The report protocol of the simulated trackpad, for any number of        *)
(* clients and whatever they ask for: a client that meets no other gets    *)
(* its own answer, and when they meet no answer outlives its question.     *)
(***************************************************************************)
EXTENDS MultitouchInterface, MT2ReportProtocol,
        FiniteSetTheorems, FunctionTheorems, SequenceTheorems, TLAPS

-----------------------------------------------------------------------------
(* The interface.                                                           *)

InterfaceTypeOK ==
    /\ engines \in Seq(Engines)
    /\ forwarding \in BOOLEAN
    /\ at \in Nat \ {0}
    /\ count \in Nat
    /\ handled \in Seq(Engines)
    /\ opened \in SUBSET Engines
    /\ broken \in BOOLEAN

\* The set holds no engine twice, and the higher score first.
Ordered ==
    \A j, k \in 1..Len(engines) :
        j < k => engines[j] # engines[k] /\ Score[engines[j]] >= Score[engines[k]]

\* An engine that had the report at k has moved on by no more places than engines
\* opened since.
Shifted ==
    \A k \in 1..Len(handled) :
        \E p \in k..k + Cardinality(opened) :
            p <= Len(engines) /\ engines[p] = handled[k]

\* The loop has passed over nobody but newcomers, and as many engines as opened are
\* past its end.
PassedNobody ==
    /\ Len(engines) = count + Cardinality(opened)
    /\ \A p \in 1..Len(engines) :
          p < at => engines[p] \in opened \/ \E k \in 1..Len(handled) : handled[k] = engines[p]

ReportInv ==
    /\ at = Len(handled) + 1
    /\ at <= count + 1
    /\ count <= Len(engines)
    /\ opened \subseteq Members
    /\ ~broken
    /\ Shifted
    /\ PassedNobody

\* What a report that ended leaves behind no longer changes.
InterfaceInv ==
    /\ InterfaceTypeOK
    /\ Ordered
    /\ forwarding => ReportInv
    /\ QuietReportReachesAll
    /\ OpensDisturbLittle

\* A set of numbers from 1 on without gaps is the interval up to its size.
LEMMA InitialSegment ==
    ASSUME NEW m \in Nat, NEW D \in SUBSET (1..m),
           \A k \in D : \A j \in 1..k : j \in D
    PROVE  Cardinality(D) \in 0..m /\ D = 1..Cardinality(D)
<1> DEFINE n == Cardinality(D)
<1>1. IsFiniteSet(1..m) /\ Cardinality(1..m) = m
  BY FS_Interval, 1 \in Int, m \in Int
<1>2. IsFiniteSet(D) /\ n <= m
  <2>1. IsFiniteSet(D) /\ n <= Cardinality(1..m)
    BY <1>1, FS_Subset, Zenon
  <2>2. QED
    BY <1>1, <2>1
<1>3. n \in Nat
  BY <1>2, FS_CardinalityType
<1>4. ASSUME NEW k \in D PROVE k <= n
  <2>1. k \in Nat /\ k >= 1
    OBVIOUS
  <2>2. 1..k \in SUBSET D
    BY <2>1
  <2>3. Cardinality(1..k) = k
    BY <2>1, FS_Interval, 1 \in Int, k \in Int
  <2>4. QED
    BY <1>2, <2>2, <2>3, FS_Subset
<1> HIDE DEF n
<1>5. D \in SUBSET (1..n)
  <2>1. \A k \in D : k \in Nat /\ k >= 1
    OBVIOUS
  <2>2. QED
    BY <1>3, <1>4, <2>1
<1>6. IsFiniteSet(1..n) /\ Cardinality(1..n) = n
  BY <1>3, FS_Interval, 1 \in Int, n \in Int
<1>7. D = 1..n
  BY <1>5, <1>6, FS_Subset DEF n
<1>8. QED
  BY <1>2, <1>3, <1>7 DEF n

LEMMA OpenedIsFinite ==
    ASSUME InterfaceTypeOK
    PROVE  IsFiniteSet(opened) /\ Cardinality(opened) \in Nat
BY EnginesAssumption, FS_Subset, FS_CardinalityType DEF InterfaceTypeOK

\* Where the newcomer goes: behind those of its score or a higher one.
LEMMA QueuedElements ==
    ASSUME InterfaceTypeOK, Ordered, NEW f \in Engines
    PROVE  \E n \in 0..Len(engines) :
              /\ Queued(f) \in Seq(Engines)
              /\ Len(Queued(f)) = Len(engines) + 1
              /\ \A k \in 1..n : Queued(f)[k] = engines[k]
                                 /\ Score[engines[k]] >= Score[f]
              /\ Queued(f)[n + 1] = f
              /\ \A k \in n+1..Len(engines) : Queued(f)[k + 1] = engines[k]
                                              /\ Score[engines[k]] < Score[f]
<1> DEFINE m == Len(engines)
           D == {k \in DOMAIN engines : Before(engines[k], f)}
           n == Cardinality(D)
           front == SubSeq(engines, 1, n)
           back == SubSeq(engines, n + 1, m)
<1>1. m \in Nat /\ DOMAIN engines = 1..m /\ \A k \in 1..m : engines[k] \in Engines
  BY LenProperties, ElementOfSeq DEF InterfaceTypeOK
<1>2. \A e \in Engines : Score[e] \in Nat
  BY EnginesAssumption
<1>3. D \in SUBSET (1..m)
  BY <1>1
<1>4. \A k \in D : \A j \in 1..k : j \in D
  <2> SUFFICES ASSUME NEW k \in D, NEW j \in 1..k PROVE j \in D
    OBVIOUS
  <2>1. k \in 1..m /\ j \in 1..m /\ (j = k \/ j < k)
    BY <1>1
  <2>2. Score[engines[j]] >= Score[engines[k]]
    BY <1>1, <1>2, <2>1 DEF Ordered
  <2>3. Score[engines[k]] >= Score[f]
    BY DEF Before
  <2>4. QED
    BY <1>1, <1>2, <2>1, <2>2, <2>3 DEF Before
<1>5. n \in 0..m /\ D = 1..n
  BY <1>1, <1>3, <1>4, InitialSegment
<1>6. \A k \in 1..m : k <= n <=> Score[engines[k]] >= Score[f]
  BY <1>1, <1>5 DEF Before
<1> HIDE DEF n, D
<1>7. /\ front \in Seq(Engines) /\ Len(front) = n
      /\ \A k \in 1..n : front[k] = engines[k]
  <2>1. \A k \in 1..n : engines[k] \in Engines
    BY <1>1, <1>5
  <2>2. /\ front \in Seq(Engines)
        /\ Len(front) = IF 1 <= n THEN n - 1 + 1 ELSE 0
        /\ \A k \in 1..n-1+1 : front[k] = engines[1 + k - 1]
    BY <1>5, <2>1, SubSeqProperties, 1 \in Int, n \in Int
  <2>3. QED
    BY <1>5, <2>2
<1>8. /\ back \in Seq(Engines) /\ Len(back) = m - n
      /\ \A k \in 1..m-n : back[k] = engines[n + k]
  <2>1. \A k \in n+1..m : engines[k] \in Engines
    BY <1>1, <1>5
  <2>2. n + 1 \in Int /\ m \in Int
    BY <1>1, <1>5
  <2>3. /\ back \in Seq(Engines)
        /\ Len(back) = IF n + 1 <= m THEN m - (n + 1) + 1 ELSE 0
        /\ \A k \in 1..m-(n+1)+1 : back[k] = engines[n + 1 + k - 1]
    BY <2>1, <2>2, SubSeqProperties
  <2>4. \A k \in 1..m-n : back[k] = engines[n + k]
    <3> SUFFICES ASSUME NEW k \in 1..m-n PROVE back[k] = engines[n + k]
      OBVIOUS
    <3>1. k \in 1..m-(n+1)+1 /\ n + 1 + k - 1 = n + k
      BY <1>1, <1>5
    <3>2. QED
      BY <2>3, <3>1
  <2> HIDE DEF back, m
  <2>5. Len(back) = m - n
    <3>1. CASE n + 1 <= m
      BY <1>1, <1>5, <2>3, <3>1
    <3>2. CASE ~(n + 1 <= m)
      <4>1. m - n = 0
        BY <1>1, <1>5, <3>2
      <4>2. QED
        BY <2>3, <3>2, <4>1
    <3>3. QED
      BY <3>1, <3>2
  <2>6. QED
    BY <2>3, <2>4, <2>5
<1> DEFINE start == front \o <<f>>
<1> HIDE DEF front, back
<1>9. /\ start \in Seq(Engines) /\ Len(start) = n + 1
      /\ \A k \in 1..n : start[k] = engines[k]
      /\ start[n + 1] = f
  BY <1>5, <1>7
<1> HIDE DEF start
<1>10. Queued(f) = start \o back
  BY DEF Queued, start, front, back, n, D
<1>11. /\ start \o back \in Seq(Engines)
       /\ Len(start \o back) = Len(start) + Len(back)
       /\ \A k \in 1..Len(start) + Len(back) :
             (start \o back)[k] = IF k <= Len(start) THEN start[k]
                                                      ELSE back[k - Len(start)]
  BY <1>8, <1>9, ConcatProperties
<1>12. \A k \in 1..n : (start \o back)[k] = engines[k]
  BY <1>1, <1>5, <1>8, <1>9, <1>11
<1>13. (start \o back)[n + 1] = f
  BY <1>1, <1>5, <1>8, <1>9, <1>11
<1>14. \A k \in n+1..m : (start \o back)[k + 1] = engines[k]
  <2> SUFFICES ASSUME NEW k \in n+1..m PROVE (start \o back)[k + 1] = engines[k]
    OBVIOUS
  <2>1. /\ k + 1 \in 1..n + 1 + (m - n) /\ ~(k + 1 <= n + 1)
        /\ k + 1 - (n + 1) = k - n /\ k - n \in 1..m-n /\ n + (k - n) = k
    BY <1>1, <1>5
  <2>2. (start \o back)[k + 1] = back[k - n]
    BY <1>8, <1>9, <1>11, <2>1
  <2>3. QED
    BY <1>8, <2>1, <2>2
<1>15. \A k \in 1..m : ~(k <= n) => Score[engines[k]] < Score[f]
  BY <1>1, <1>2, <1>6
<1>16. Len(start \o back) = m + 1
  <2>1. Len(start) + Len(back) = n + 1 + (m - n)
    BY <1>8, <1>9
  <2>2. n + 1 + (m - n) = m + 1
    BY <1>1, <1>5
  <2>3. QED
    BY <1>11, <2>1, <2>2
<1>17. QED
  <2>1. \A k \in 1..n : k \in 1..m /\ k <= n
    BY <1>1, <1>5
  <2>2. \A k \in n+1..m : k \in 1..m /\ ~(k <= n)
    BY <1>1, <1>5
  <2>3. \A k \in 1..n : Queued(f)[k] = engines[k] /\ Score[engines[k]] >= Score[f]
    BY <1>6, <1>10, <1>12, <2>1
  <2>4. \A k \in n+1..m : Queued(f)[k + 1] = engines[k] /\ Score[engines[k]] < Score[f]
    BY <1>10, <1>14, <1>15, <2>2
  <2>5. Queued(f) \in Seq(Engines) /\ Len(Queued(f)) = m + 1 /\ Queued(f)[n + 1] = f
    BY <1>10, <1>11, <1>13, <1>16
  <2>6. QED
    BY <1>5, <2>3, <2>4, <2>5

LEMMA OpenKeepsOrder ==
    ASSUME InterfaceTypeOK, Ordered, NEW e \in Engines, Open(e)
    PROVE  Ordered' /\ engines' \in Seq(Engines)
<1>1. PICK n \in 0..Len(engines) :
         /\ Queued(e) \in Seq(Engines)
         /\ Len(Queued(e)) = Len(engines) + 1
         /\ \A k \in 1..n : Queued(e)[k] = engines[k] /\ Score[engines[k]] >= Score[e]
         /\ Queued(e)[n + 1] = e
         /\ \A k \in n+1..Len(engines) : Queued(e)[k + 1] = engines[k]
                                         /\ Score[engines[k]] < Score[e]
  BY QueuedElements
<1> DEFINE m == Len(engines)
           q == Queued(e)
<1>2. m \in Nat /\ DOMAIN engines = 1..m /\ \A k \in 1..m : engines[k] \in Engines
  BY LenProperties, ElementOfSeq DEF InterfaceTypeOK
<1>3. \A g \in Engines : Score[g] \in Nat
  BY EnginesAssumption
<1>4. \A k \in 1..m : engines[k] # e
  BY <1>2 DEF Open, Admitted, Members
<1>5. engines' = q
  BY DEF Open
<1> HIDE DEF q, m
<1>6. \A k \in 1..m+1 : \/ k \in 1..n /\ k \in 1..m
                        \/ k = n + 1
                        \/ k - 1 \in n+1..m /\ k - 1 \in 1..m /\ (k - 1) + 1 = k
  BY <1>2 DEF m
<1>7. ASSUME NEW j \in 1..m+1, NEW k \in 1..m+1, j < k
      PROVE  q[j] # q[k] /\ Score[q[j]] >= Score[q[k]]
  <2>1. CASE j \in 1..n /\ j \in 1..m
    <3>1. q[j] = engines[j] /\ Score[engines[j]] >= Score[e] /\ engines[j] \in Engines
      BY <1>1, <1>2, <2>1 DEF q, m
    <3>2. CASE k \in 1..n /\ k \in 1..m
      <4>1. q[k] = engines[k]
        BY <1>1, <3>2 DEF q
      <4>2. QED
        BY <1>7, <2>1, <3>1, <3>2, <4>1 DEF Ordered, m
    <3>3. CASE k = n + 1
      BY <1>1, <1>4, <2>1, <3>1, <3>3 DEF q
    <3>4. CASE k - 1 \in n+1..m /\ k - 1 \in 1..m /\ (k - 1) + 1 = k
      <4>1. q[k] = engines[k - 1]
        BY <1>1, <3>4 DEF q, m
      <4>2. j < k - 1
        BY <2>1, <3>4
      <4>3. QED
        BY <2>1, <3>1, <3>4, <4>1, <4>2 DEF Ordered, m
    <3>5. QED
      BY <1>6, <3>2, <3>3, <3>4
  <2>2. CASE j = n + 1
    <3>1. q[j] = e
      BY <1>1, <2>2 DEF q
    <3>2. k - 1 \in n+1..m /\ k - 1 \in 1..m /\ (k - 1) + 1 = k
      BY <1>6, <1>7, <2>2
    <3>3. q[k] = engines[k - 1] /\ Score[engines[k - 1]] < Score[e]
      BY <1>1, <3>2 DEF q, m
    <3>4. engines[k - 1] \in Engines /\ engines[k - 1] # e
      BY <1>2, <1>4, <3>2
    <3>5. QED
      BY <1>3, <3>1, <3>3, <3>4
  <2>3. CASE j - 1 \in n+1..m /\ j - 1 \in 1..m /\ (j - 1) + 1 = j
    <3>1. q[j] = engines[j - 1]
      BY <1>1, <2>3 DEF q, m
    <3>2. k - 1 \in n+1..m /\ k - 1 \in 1..m /\ (k - 1) + 1 = k
      BY <1>6, <1>7, <2>3
    <3>3. q[k] = engines[k - 1]
      BY <1>1, <3>2 DEF q, m
    <3>4. j - 1 < k - 1
      BY <1>7
    <3>5. QED
      BY <2>3, <3>1, <3>2, <3>3, <3>4 DEF Ordered, m
  <2>4. QED
    BY <1>6, <2>1, <2>2, <2>3
<1>8. QED
  BY <1>1, <1>5, <1>7 DEF Ordered, q, m

\* Opening moves the engines behind by one place, and nothing else.
LEMMA OpenShifts ==
    ASSUME InterfaceTypeOK, Ordered, NEW e \in Engines, Open(e)
    PROVE  /\ Len(engines') = Len(engines) + 1
           /\ Members \cup {e} \subseteq Members'
           /\ \A p \in 1..Len(engines) : \E q \in {p, p + 1} : engines'[q] = engines[p]
<1>1. PICK n \in 0..Len(engines) :
         /\ Queued(e) \in Seq(Engines)
         /\ Len(Queued(e)) = Len(engines) + 1
         /\ \A k \in 1..n : Queued(e)[k] = engines[k] /\ Score[engines[k]] >= Score[e]
         /\ Queued(e)[n + 1] = e
         /\ \A k \in n+1..Len(engines) : Queued(e)[k + 1] = engines[k]
                                         /\ Score[engines[k]] < Score[e]
  BY QueuedElements
<1>2. engines' = Queued(e)
  BY DEF Open
<1>3. Len(engines) \in Nat /\ DOMAIN engines = 1..Len(engines)
  BY LenProperties DEF InterfaceTypeOK
<1>4. DOMAIN engines' = 1..Len(engines) + 1
  BY <1>1, <1>2, LenProperties
<1>5. \A p \in 1..Len(engines) : \E q \in {p, p + 1} : engines'[q] = engines[p]
  <2> SUFFICES ASSUME NEW p \in 1..Len(engines)
               PROVE  \E q \in {p, p + 1} : engines'[q] = engines[p]
    OBVIOUS
  <2>1. CASE p \in 1..n
    BY <1>1, <1>2, <2>1
  <2>2. CASE p \in n+1..Len(engines)
    BY <1>1, <1>2, <2>2
  <2>3. QED
    BY <1>3, <2>1, <2>2
<1>6. e \in Members'
  <2>1. n + 1 \in DOMAIN engines'
    BY <1>3, <1>4
  <2>2. QED
    BY <1>1, <1>2, <2>1 DEF Members
<1>7. Members \subseteq Members'
  <2> SUFFICES ASSUME NEW p \in 1..Len(engines) PROVE engines[p] \in Members'
    BY <1>3 DEF Members
  <2>1. PICK q \in {p, p + 1} : engines'[q] = engines[p]
    BY <1>5
  <2>2. q \in DOMAIN engines'
    BY <1>3, <1>4
  <2>3. QED
    BY <2>1, <2>2 DEF Members
<1>8. QED
  BY <1>1, <1>2, <1>5, <1>6, <1>7

\* Who stands at a place after an engine has opened stood there, or before it, unless
\* it is the newcomer.
LEMMA OpenPlaces ==
    ASSUME InterfaceTypeOK, Ordered, NEW e \in Engines, Open(e),
           NEW q \in 1..Len(engines) + 1
    PROVE  \/ engines'[q] = e
           \/ \E p \in 1..Len(engines) : p <= q /\ engines'[q] = engines[p]
<1>1. PICK n \in 0..Len(engines) :
         /\ Queued(e) \in Seq(Engines)
         /\ Len(Queued(e)) = Len(engines) + 1
         /\ \A k \in 1..n : Queued(e)[k] = engines[k] /\ Score[engines[k]] >= Score[e]
         /\ Queued(e)[n + 1] = e
         /\ \A k \in n+1..Len(engines) : Queued(e)[k + 1] = engines[k]
                                         /\ Score[engines[k]] < Score[e]
  BY QueuedElements
<1>2. engines' = Queued(e)
  BY DEF Open
<1>3. Len(engines) \in Nat
  BY LenProperties DEF InterfaceTypeOK
<1>4. CASE q \in 1..n
  <2>1. q \in 1..Len(engines) /\ q <= q
    BY <1>3, <1>4
  <2>2. QED
    BY <1>1, <1>2, <1>4, <2>1
<1>5. CASE q = n + 1
  BY <1>1, <1>2, <1>5
<1>6. CASE q - 1 \in n+1..Len(engines)
  <2>1. (q - 1) + 1 = q /\ q - 1 \in 1..Len(engines) /\ q - 1 <= q
    BY <1>3, <1>6
  <2>2. engines'[q] = engines[q - 1]
    BY <1>1, <1>2, <1>6, <2>1
  <2>3. QED
    BY <2>1, <2>2
<1>7. QED
  BY <1>3, <1>4, <1>5, <1>6

-----------------------------------------------------------------------------
(* What the shifts leave of a report.                                       *)

\* An engine stands at one place, and has had the report from there or from as
\* many places before as engines opened.
LEMMA ShiftedTimes ==
    ASSUME InterfaceTypeOK, Ordered, Shifted, NEW e \in Engines
    PROVE  Times(e) <= 1 + Cardinality(opened)
<1> DEFINE K == {k \in DOMAIN handled : handled[k] = e}
           c == Cardinality(opened)
<1>1. c \in Nat
  BY OpenedIsFinite
<1>2. DOMAIN handled = 1..Len(handled) /\ Len(handled) \in Nat /\ Len(engines) \in Nat
  BY LenProperties DEF InterfaceTypeOK
<1> HIDE DEF c
<1>3. CASE K = {}
  BY <1>1, <1>3, FS_EmptySet DEF Times, c
<1>4. ASSUME NEW j \in K PROVE Times(e) <= 1 + c
  <2>1. PICK p \in j..j + c : p <= Len(engines) /\ engines[p] = e
    BY <1>2, <1>4 DEF Shifted, c
  <2>2. ASSUME NEW k \in K PROVE k \in p - c..p
    <3>1. PICK q \in k..k + c : q <= Len(engines) /\ engines[q] = e
      BY <1>2, <2>2 DEF Shifted, c
    <3>2. p \in 1..Len(engines) /\ q \in 1..Len(engines)
      BY <1>1, <1>2, <1>4, <2>1, <2>2, <3>1
    <3>3. p = q
      BY <2>1, <3>1, <3>2 DEF Ordered
    <3>4. k \in Int /\ p \in Int
      BY <1>2, <2>2, <3>2
    <3>5. QED
      BY <1>1, <3>1, <3>3, <3>4
  <2>3. p \in Int /\ p - c \in Int
    BY <1>1, <1>2, <1>4, <2>1
  <2>4. IsFiniteSet(p - c..p) /\ Cardinality(p - c..p) = 1 + c
    <3>1. ~(p - c > p) /\ p - (p - c) + 1 = 1 + c
      BY <1>1, <2>3
    <3>2. QED
      BY <2>3, <3>1, FS_Interval
  <2>5. K \in SUBSET (p - c..p)
    BY <2>2
  <2>6. QED
    BY <2>4, <2>5, FS_Subset DEF Times
<1>5. QED
  BY <1>3, <1>4 DEF c

\* With one shift at most a later place is not before an earlier one.
LEMMA ShiftedOrder ==
    ASSUME InterfaceTypeOK, Ordered, Shifted, Cardinality(opened) <= 1,
           NEW j \in DOMAIN handled, NEW k \in DOMAIN handled, j < k
    PROVE  /\ Score[handled[j]] >= Score[handled[k]]
           /\ opened = {} => handled[j] # handled[k]
<1>1. Cardinality(opened) \in Nat /\ (opened = {} => Cardinality(opened) = 0)
  BY OpenedIsFinite, FS_EmptySet
<1>2. DOMAIN handled = 1..Len(handled) /\ Len(handled) \in Nat /\ Len(engines) \in Nat
  BY LenProperties DEF InterfaceTypeOK
<1>3. PICK p \in j..j + Cardinality(opened) : p <= Len(engines) /\ engines[p] = handled[j]
  BY <1>2 DEF Shifted
<1>4. PICK q \in k..k + Cardinality(opened) : q <= Len(engines) /\ engines[q] = handled[k]
  BY <1>2 DEF Shifted
<1>5. /\ p \in 1..Len(engines) /\ q \in 1..Len(engines) /\ p <= q
      /\ opened = {} => p < q
  BY <1>1, <1>2, <1>3, <1>4
<1>6. engines[q] \in Engines /\ Score[engines[q]] \in Nat
  BY <1>5, ElementOfSeq, EnginesAssumption DEF InterfaceTypeOK
<1>7. p = q \/ p < q
  BY <1>5
<1>8. QED
  BY <1>3, <1>4, <1>5, <1>6, <1>7 DEF Ordered

\* At the end of the loop who has not had the report stands past it, where there are
\* as many places as engines opened.
LEMMA LoopLeavesFew ==
    ASSUME InterfaceTypeOK, ReportInv, ~More
    PROVE  Cardinality(Unreached) <= Cardinality(opened)
<1> DEFINE c == Cardinality(opened)
           tail == count + 1..count + c
           there == {p \in tail : engines[p] \in Unreached}
           who == [p \in there |-> engines[p]]
<1>1. c \in Nat
  BY OpenedIsFinite
<1>2. /\ at = count + 1 /\ count \in Nat /\ Len(engines) = count + c
      /\ DOMAIN engines = 1..Len(engines) /\ DOMAIN handled = 1..Len(handled)
      /\ Len(handled) \in Nat
  BY LenProperties DEF InterfaceTypeOK, ReportInv, PassedNobody, More
<1> HIDE DEF c
<1>3. ASSUME NEW e \in Unreached PROVE \E p \in tail : engines[p] = e
  <2>1. PICK p \in 1..Len(engines) : engines[p] = e
    BY <1>2 DEF Unreached, Members
  <2>2. e \notin opened /\ Times(e) = 0
    BY DEF Unreached
  <2>3. {k \in DOMAIN handled : handled[k] = e} = {}
    <3>1. IsFiniteSet(1..Len(handled))
      BY <1>2, FS_Interval, 1 \in Int, Len(handled) \in Int
    <3>2. IsFiniteSet({k \in DOMAIN handled : handled[k] = e})
      BY <1>2, <3>1, FS_Subset
    <3>3. QED
      BY <2>2, <3>2, FS_EmptySet DEF Times
  <2>4. ~(p < at)
    BY <1>2, <2>1, <2>2, <2>3 DEF ReportInv, PassedNobody
  <2>5. p \in tail
    BY <1>1, <1>2, <2>1, <2>4
  <2>6. QED
    BY <2>1, <2>5
<1>4. IsFiniteSet(tail) /\ Cardinality(tail) = c
  <2> DEFINE low == count + 1
             high == count + c
  <2>1. low \in Int /\ high \in Int
    BY <1>1, <1>2
  <2>2. (IF low > high THEN 0 ELSE high - low + 1) = c
    <3>1. CASE c = 0
      BY <1>2, <3>1
    <3>2. CASE c # 0
      BY <1>1, <1>2, <3>2
    <3>3. QED
      BY <3>1, <3>2
  <2> HIDE DEF low, high
  <2>3. IsFiniteSet(low..high) /\ Cardinality(low..high) = c
    BY <2>1, <2>2, FS_Interval
  <2>4. QED
    BY <2>3 DEF low, high
<1> HIDE DEF tail
<1>5. IsFiniteSet(there) /\ Cardinality(there) <= c /\ Cardinality(there) \in Nat
  BY <1>4, FS_Subset, FS_CardinalityType
<1>6. who \in Surjection(there, Unreached)
  BY <1>3 DEF Surjection
<1>7. IsFiniteSet(Unreached) /\ Cardinality(Unreached) <= Cardinality(there)
  BY <1>5, <1>6, FS_Surjection
<1>8. Cardinality(Unreached) \in Nat
  BY <1>7, FS_CardinalityType
<1>9. QED
  BY <1>1, <1>5, <1>7, <1>8 DEF c

\* A report with no more shifts than engines opened is as it should be, if it is
\* complete when it ends.
Complete == ~broken => Len(handled) = count \/ forwarding

LEMMA ReportIsGood ==
    InterfaceTypeOK /\ Ordered /\ Shifted /\ Complete /\ (forwarding => ReportInv)
        => QuietReportReachesAll /\ OpensDisturbLittle
<1> SUFFICES ASSUME InterfaceTypeOK, Ordered, Shifted, Complete, forwarding => ReportInv
             PROVE  QuietReportReachesAll /\ OpensDisturbLittle
  OBVIOUS
<1>1. QuietReportReachesAll
  <2>1. opened = {} => Cardinality(opened) <= 1
    BY FS_EmptySet
  <2>2. QED
    BY <2>1, ShiftedOrder DEF QuietReportReachesAll, Complete
<1>2. OpensDisturbLittle
  BY ShiftedTimes, ShiftedOrder, LoopLeavesFew DEF OpensDisturbLittle
<1>3. QED
  BY <1>1, <1>2

-----------------------------------------------------------------------------
LEMMA InterfaceInvCorrect == Spec => []InterfaceInv
<1>1. Init => InterfaceInv
  <2> SUFFICES ASSUME Init PROVE InterfaceInv
    OBVIOUS
  <2>1. InterfaceTypeOK /\ Ordered
    <3>1. forwarding \in BOOLEAN /\ broken \in BOOLEAN
      BY Zenon DEF Init
    <3>2. QED
      BY <3>1 DEF Init, InterfaceTypeOK, Ordered
  <2>2. Shifted /\ Len(handled) = count /\ ~forwarding
    BY DEF Init, Shifted
  <2>3. QED
    BY <2>1, <2>2, ReportIsGood DEF Init, InterfaceInv, Complete
<1>2. InterfaceInv /\ [Next]_vars => InterfaceInv'
  <2> SUFFICES ASSUME InterfaceInv, [Next]_vars PROVE InterfaceInv'
    OBVIOUS
  <2>0. InterfaceTypeOK /\ Ordered /\ Len(handled) \in Nat /\ Len(engines) \in Nat
    BY LenProperties DEF InterfaceInv, InterfaceTypeOK
  <2>1. CASE Begin
    <3>1. InterfaceTypeOK'
      <4>1. forwarding' \in BOOLEAN /\ broken' \in BOOLEAN
        BY <2>1, Zenon DEF Begin
      <4>2. QED
        BY <2>0, <2>1, <4>1 DEF Begin, InterfaceTypeOK
    <3>2. Ordered' /\ Shifted'
      BY <2>0, <2>1 DEF Begin, Ordered, Shifted
    <3>3. ReportInv'
      <4>1. PassedNobody'
        BY <2>0, <2>1, FS_EmptySet DEF Begin, PassedNobody
      <4>2. QED
        BY <2>0, <2>1, <3>2, <4>1 DEF Begin, ReportInv
    <3>4. QuietReportReachesAll' /\ OpensDisturbLittle'
      <4>1. Complete'
        BY <2>1 DEF Begin, Complete
      <4>2. QED
        BY <3>1, <3>2, <3>3, <4>1, ReportIsGood, PTL
    <3>5. QED
      BY <3>1, <3>2, <3>3, <3>4 DEF InterfaceInv
  <2>2. CASE Handle
    <3>1. ReportInv /\ at <= count
      BY <2>2 DEF InterfaceInv, Handle, More
    <3>2. at \in 1..Len(engines) /\ at \in Nat /\ engines[at] \in Engines
      BY <2>0, <3>1, ElementOfSeq DEF ReportInv, InterfaceTypeOK
    <3>3. /\ handled' \in Seq(Engines)
          /\ Len(handled') = Len(handled) + 1
          /\ \A k \in 1..Len(handled) : handled'[k] = handled[k]
          /\ handled'[at] = engines[at]
      BY <2>0, <2>2, <3>1, <3>2, AppendProperties DEF Handle, ReportInv, InterfaceTypeOK
    <3>4. InterfaceTypeOK'
      <4>1. forwarding' \in BOOLEAN /\ broken' \in BOOLEAN
        BY <2>0, <2>2, Zenon DEF Handle, InterfaceTypeOK
      <4>2. at' \in {at, at + 1} /\ UNCHANGED <<engines, count, opened>>
        BY <2>2, Zenon DEF Handle
      <4>3. at' \in Nat \ {0}
        BY <2>0, <4>2 DEF InterfaceTypeOK
      <4>4. QED
        BY <2>0, <3>3, <4>1, <4>2, <4>3 DEF InterfaceTypeOK
    <3>5. Ordered'
      BY <2>0, <2>2 DEF Handle, Ordered
    <3>6. Shifted'
      <4>1. Cardinality(opened) \in Nat
        BY <2>0, OpenedIsFinite
      <4>2. UNCHANGED <<engines, opened>> /\ Len(handled') = at
        BY <2>2, <3>1, <3>3 DEF Handle, ReportInv
      <4>3. at \in at..at + Cardinality(opened) /\ at <= Len(engines)
        BY <3>2, <4>1
      <4>4. \A k \in 1..at : k \in 1..Len(handled) \/ k = at
        BY <2>0, <3>1 DEF ReportInv
      <4>5. QED
        BY <3>1, <3>3, <4>2, <4>3, <4>4 DEF Shifted, ReportInv
    <3>7. forwarding' => ReportInv'
      <4> SUFFICES ASSUME forwarding' PROVE ReportInv'
        OBVIOUS
      <4>1. at' = at + 1 /\ UNCHANGED <<engines, count, opened, broken>>
        BY <2>2 DEF Handle
      <4>2. PassedNobody'
        <5>1. ASSUME NEW p \in 1..Len(engines), p < at + 1
              PROVE  \/ engines[p] \in opened
                     \/ \E k \in 1..Len(handled) + 1 : handled'[k] = engines[p]
          <6>1. p < at \/ p = at
            BY <3>2, <5>1
          <6>2. CASE p < at
            BY <2>0, <3>1, <3>3, <6>2 DEF ReportInv, PassedNobody
          <6>3. CASE p = at
            BY <2>0, <3>1, <3>3, <6>3 DEF ReportInv
          <6>4. QED
            BY <6>1, <6>2, <6>3
        <5>2. QED
          BY <3>1, <3>3, <4>1, <5>1 DEF ReportInv, PassedNobody
      <4>3. QED
        BY <2>0, <3>1, <3>3, <3>6, <4>1, <4>2 DEF ReportInv, InterfaceTypeOK, Members
    <3>8. Complete'
      BY <2>2 DEF Handle, Complete
    <3>9. QuietReportReachesAll' /\ OpensDisturbLittle'
      BY <3>4, <3>5, <3>6, <3>7, <3>8, ReportIsGood, PTL
    <3>10. QED
      BY <3>4, <3>5, <3>7, <3>9 DEF InterfaceInv
  <2>3. CASE Finish
    <3>1. ReportInv
      BY <2>3 DEF InterfaceInv, Finish
    <3>2. InterfaceTypeOK' /\ Ordered' /\ Shifted'
      BY <2>0, <2>3, <3>1 DEF Finish, InterfaceTypeOK, Ordered, Shifted, ReportInv
    <3>3. Complete'
      BY <2>0, <2>3, <3>1 DEF Finish, More, ReportInv, InterfaceTypeOK, Complete
    <3>4. QuietReportReachesAll' /\ OpensDisturbLittle'
      <4>1. ~forwarding'
        BY <2>3 DEF Finish
      <4>2. QED
        BY <3>2, <3>3, <4>1, ReportIsGood, PTL
    <3>5. QED
      BY <2>3, <3>2, <3>4 DEF InterfaceInv, Finish
  <2>4. ASSUME NEW e \in Engines, Open(e) PROVE InterfaceInv'
    <3>1. Ordered' /\ engines' \in Seq(Engines)
      BY <2>0, <2>4, OpenKeepsOrder
    <3>2. InterfaceTypeOK'
      BY <2>0, <2>4, <3>1 DEF Open, InterfaceTypeOK
    <3>3. CASE ~forwarding
      <4>1. QuietReportReachesAll' /\ OpensDisturbLittle'
        BY <2>4, <3>3 DEF InterfaceInv, Open, QuietReportReachesAll, OpensDisturbLittle, Times
      <4>2. QED
        BY <2>4, <3>1, <3>2, <3>3, <4>1 DEF InterfaceInv, Open
    <3>4. CASE forwarding
      <4>1. ReportInv
        BY <3>4 DEF InterfaceInv
      <4>2. /\ Len(engines') = Len(engines) + 1
            /\ Members \cup {e} \subseteq Members'
            /\ \A p \in 1..Len(engines) : \E q \in {p, p + 1} : engines'[q] = engines[p]
        BY <2>0, <2>4, OpenShifts
      <4>3. e \notin opened /\ opened' = opened \cup {e}
        BY <2>4, <3>4, <4>1 DEF Open, Admitted, ReportInv
      <4>4. Cardinality(opened') = Cardinality(opened) + 1 /\ Cardinality(opened) \in Nat
        BY <2>0, <4>3, OpenedIsFinite, FS_AddElement
      <4>5. Shifted'
        <5> SUFFICES ASSUME NEW k \in 1..Len(handled)
                     PROVE  \E q \in k..k + Cardinality(opened) + 1 :
                                q <= Len(engines) + 1 /\ engines'[q] = handled[k]
          BY <2>4, <4>2, <4>4 DEF Shifted, Open
        <5>1. PICK p \in k..k + Cardinality(opened) :
                 p <= Len(engines) /\ engines[p] = handled[k]
          BY <4>1 DEF ReportInv, Shifted
        <5>2. k \in Nat /\ p \in 1..Len(engines)
          BY <2>0, <4>4, <5>1
        <5>3. PICK q \in {p, p + 1} : engines'[q] = engines[p]
          BY <4>2, <5>2
        <5>4. q \in k..k + Cardinality(opened) + 1 /\ q <= Len(engines) + 1
          BY <2>0, <4>4, <5>1, <5>2, <5>3
        <5>5. QED
          BY <5>1, <5>3, <5>4
      <4>6. ReportInv'
        <5>1. UNCHANGED <<at, count, handled, broken>>
          BY <2>4 DEF Open
        <5>2. PassedNobody'
          <6>1. ASSUME NEW q \in 1..Len(engines) + 1, q < at
                PROVE  \/ engines'[q] \in opened'
                       \/ \E k \in 1..Len(handled) : handled[k] = engines'[q]
            <7>1. \/ engines'[q] = e
                  \/ \E p \in 1..Len(engines) : p <= q /\ engines'[q] = engines[p]
              BY <2>0, <2>4, OpenPlaces
            <7>2. ASSUME NEW p \in 1..Len(engines), p <= q PROVE p < at
              BY <2>0, <6>1, <7>2 DEF InterfaceTypeOK
            <7>3. QED
              BY <4>1, <4>3, <6>1, <7>1, <7>2 DEF ReportInv, PassedNobody
          <6>2. Len(engines') = count + Cardinality(opened')
            BY <2>0, <4>1, <4>2, <4>4 DEF ReportInv, PassedNobody, InterfaceTypeOK
          <6>3. QED
            BY <4>2, <5>1, <6>1, <6>2 DEF PassedNobody
        <5>3. QED
          BY <2>0, <4>1, <4>2, <4>3, <4>5, <5>1, <5>2 DEF ReportInv, InterfaceTypeOK
      <4>7. Complete'
        BY <2>4, <3>4 DEF Open, Complete
      <4>8. QuietReportReachesAll' /\ OpensDisturbLittle'
        BY <3>1, <3>2, <4>5, <4>6, <4>7, ReportIsGood, PTL
      <4>9. QED
        BY <3>1, <3>2, <4>6, <4>8 DEF InterfaceInv
    <3>5. QED
      BY <3>3, <3>4
  <2>5. CASE UNCHANGED vars
    <3>1. Unreached' = Unreached /\ UNCHANGED More
      BY <2>5 DEF vars, Unreached, Members, Times, More
    <3>2. InterfaceTypeOK' /\ Ordered'
      BY <2>5 DEF InterfaceInv, vars, InterfaceTypeOK, Ordered
    <3>3. forwarding' => ReportInv'
      BY <2>5, <3>1 DEF InterfaceInv, vars, ReportInv, Shifted, PassedNobody, Members
    <3>4. (QuietReportReachesAll /\ OpensDisturbLittle)'
      BY <2>5, <3>1 DEF InterfaceInv, vars, QuietReportReachesAll, OpensDisturbLittle, Members,
                        Times
    <3>5. QED
      BY <3>2, <3>3, <3>4 DEF InterfaceInv
  <2>6. QED
    BY <2>1, <2>2, <2>3, <2>4, <2>5 DEF Next
<1>3. QED
  BY <1>1, <1>2, PTL DEF Spec

\* A report during which no engine opens reaches every engine that was open, once
\* each, the higher score first, down to the one that breaks
\* (handleInterruptReport and orderEngines).
THEOREM QuietReportCorrect == Spec => []QuietReportReachesAll
<1>1. InterfaceInv => QuietReportReachesAll
  BY DEF InterfaceInv
<1>2. QED
  BY <1>1, InterfaceInvCorrect, PTL

\* Engines that open during a report repeat it to an engine at most once for each of
\* them, and a single one does not upset the order.
THEOREM OpensDisturbLittleCorrect == Spec => []OpensDisturbLittle
<1>1. InterfaceInv => OpensDisturbLittle
  BY DEF InterfaceInv
<1>2. QED
  BY <1>1, InterfaceInvCorrect, PTL

-----------------------------------------------------------------------------
(* The report protocol.                                                     *)

\* The lengths told and the bytes written agree, one byte for the ID apart.
LEMMA LengthsAgree ==
    ASSUME NEW r \in Known
    PROVE  /\ Written(r) <= 1 + Announced(r)
           /\ r # "DB" => Written(r) = 1 + Announced(r)
BY DEF Known, Announced, Written, Single, Composite

-----------------------------------------------------------------------------
Answers == [id : Known, length : {Announced(r) : r \in Known}]

ProtocolTypeOK ==
    /\ buffer \in Seq(Answers)
    /\ pc \in [Clients -> {"idle", "append"}]
    /\ asked \in [Clients -> Asked \cup {"none"}]
    /\ alone \subseteq Clients

\* The buffer of a client that is alone holds nothing but its own answer, and not
\* before it is appended.
AloneInv ==
    \A c \in alone :
        buffer = IF pc[c] = "idle" /\ asked[c] \in Known THEN <<Answer(asked[c])>>
                                                         ELSE <<>>

LEMMA ProtocolTypeCorrect == ProtocolSpec => []ProtocolTypeOK
<1>1. ProtocolInit => ProtocolTypeOK
  BY DEF ProtocolInit, ProtocolTypeOK
<1>2. ProtocolTypeOK /\ [ProtocolNext]_protocolVars => ProtocolTypeOK'
  <2> SUFFICES ASSUME ProtocolTypeOK, [ProtocolNext]_protocolVars PROVE ProtocolTypeOK'
    OBVIOUS
  <2>1. ASSUME NEW c \in Clients, NEW r \in Asked, Create(c, r) PROVE ProtocolTypeOK'
    BY <2>1 DEF ProtocolTypeOK, Create
  <2>2. ASSUME NEW c \in Clients, AppendAnswer(c) PROVE ProtocolTypeOK'
    <3>1. asked[c] \in Known => Answer(asked[c]) \in Answers
      BY DEF Answer, Answers
    <3>2. buffer' \in Seq(Answers)
      BY <2>2, <3>1, AppendProperties DEF ProtocolTypeOK, AppendAnswer
    <3>3. QED
      BY <2>2, <3>2 DEF ProtocolTypeOK, AppendAnswer
  <2>3. CASE UNCHANGED protocolVars
    BY <2>3 DEF ProtocolTypeOK, protocolVars
  <2>4. QED
    BY <2>1, <2>2, <2>3 DEF ProtocolNext
<1>3. QED
  BY <1>1, <1>2, PTL DEF ProtocolSpec

-----------------------------------------------------------------------------
LEMMA AloneCorrect == ProtocolSpec => []AloneInv
<1>1. ProtocolInit => AloneInv
  BY DEF ProtocolInit, AloneInv
<1>2. ProtocolTypeOK /\ AloneInv /\ [ProtocolNext]_protocolVars => AloneInv'
  <2> SUFFICES ASSUME ProtocolTypeOK, AloneInv, [ProtocolNext]_protocolVars PROVE AloneInv'
    OBVIOUS
  <2>1. ASSUME NEW c \in Clients, NEW r \in Asked, Create(c, r) PROVE AloneInv'
    BY <2>1 DEF ProtocolTypeOK, AloneInv, Create
  <2>2. ASSUME NEW c \in Clients, AppendAnswer(c) PROVE AloneInv'
    <3>1. SUFFICES ASSUME c \in alone
                   PROVE  buffer' = IF asked[c] \in Known THEN <<Answer(asked[c])>>
                                                          ELSE <<>>
      BY <2>2 DEF ProtocolTypeOK, AloneInv, AppendAnswer
    <3>2. buffer = <<>>
      BY <2>2, <3>1 DEF AloneInv, AppendAnswer
    <3>3. QED
      BY <2>2, <3>2 DEF AppendAnswer
  <2>3. CASE UNCHANGED protocolVars
    BY <2>3 DEF AloneInv, protocolVars
  <2>4. QED
    BY <2>1, <2>2, <2>3 DEF ProtocolNext
<1>3. QED
  BY <1>1, <1>2, ProtocolTypeCorrect, PTL DEF ProtocolSpec

\* A client that met no other setReport reads its own answer, and a report as long
\* as the answer says (setReport and getReport, which take no lock).
THEOREM OwnAnswerCorrect == ProtocolSpec => []OwnAnswer
<1>1. AloneInv => OwnAnswer
  BY LengthsAgree DEF AloneInv, OwnAnswer
<1>2. QED
  BY <1>1, AloneCorrect, PTL

-----------------------------------------------------------------------------
\* Each answer in the buffer is what another client asked last.
THEOREM AnswersOwnedCorrect == ProtocolSpec => []AnswersOwned
<1>1. ASSUME NEW b, b = <<>>
      PROVE  \E owner \in Injection(DOMAIN b, Clients) : TRUE
  <2>1. [k \in {} |-> k] \in Injection({}, Clients)
    BY Fun_IsInj
  <2>2. QED
    BY <1>1, <2>1
<1>2. ProtocolInit => AnswersOwned
  BY <1>1 DEF ProtocolInit, AnswersOwned
<1>3. ProtocolTypeOK /\ AnswersOwned /\ [ProtocolNext]_protocolVars => AnswersOwned'
  <2> SUFFICES ASSUME ProtocolTypeOK, AnswersOwned, [ProtocolNext]_protocolVars PROVE AnswersOwned'
    OBVIOUS
  <2>1. ASSUME NEW c \in Clients, NEW r \in Asked, Create(c, r) PROVE AnswersOwned'
    BY <1>1, <2>1 DEF AnswersOwned, Create
  <2>2. ASSUME NEW c \in Clients, AppendAnswer(c) PROVE AnswersOwned'
    <3> DEFINE Owns(owner, b) == \A k \in DOMAIN b :
                   pc'[owner[k]] = "idle" /\ asked'[owner[k]] = b[k].id
    <3>1. PICK owner \in Injection(DOMAIN buffer, Clients) :
              \A k \in DOMAIN buffer :
                  pc[owner[k]] = "idle" /\ asked[owner[k]] = buffer[k].id
      BY DEF AnswersOwned
    <3>2. /\ owner \in [DOMAIN buffer -> Clients]
          /\ \A j, k \in DOMAIN buffer : owner[j] = owner[k] => j = k
      BY Fun_InjectionProperties
    <3>3. Owns(owner, buffer)
      BY <2>2, <3>1, <3>2 DEF ProtocolTypeOK, AppendAnswer
    <3>4. CASE asked[c] \notin Known
      BY <2>2, <3>3, <3>4 DEF AnswersOwned, AppendAnswer
    <3>5. CASE asked[c] \in Known
      <4> DEFINE n == Len(buffer)
                 grown == [k \in 1..n+1 |-> IF k <= n THEN owner[k] ELSE c]
      <4>1. n \in Nat /\ DOMAIN buffer = 1..n
        BY LenProperties DEF ProtocolTypeOK
      <4>2. /\ DOMAIN buffer' = 1..n+1
            /\ \A k \in 1..n : buffer'[k] = buffer[k]
            /\ buffer'[n+1].id = asked[c]
        BY <2>2, <3>5, <4>1, AppendProperties DEF ProtocolTypeOK, AppendAnswer, Answer, Answers
      <4>3. \A k \in 1..n : owner[k] # c
        BY <2>2, <3>1, <4>1 DEF AppendAnswer
      <4>4. grown \in Injection(1..n+1, Clients)
        BY <3>2, <4>1, <4>3, Fun_IsInj
      <4>5. pc'[c] = "idle" /\ asked'[c] = asked[c]
        BY <2>2 DEF ProtocolTypeOK, AppendAnswer
      <4>6. Owns(grown, buffer')
        BY <3>3, <4>1, <4>2, <4>5
      <4>7. QED
        BY <4>2, <4>4, <4>6 DEF AnswersOwned
    <3>6. QED
      BY <3>4, <3>5
  <2>3. CASE UNCHANGED protocolVars
    BY <2>3 DEF AnswersOwned, protocolVars
  <2>4. QED
    BY <2>1, <2>2, <2>3 DEF ProtocolNext
<1>4. QED
  BY <1>2, <1>3, ProtocolTypeCorrect, PTL DEF ProtocolSpec

=============================================================================
