----------------------- MODULE CSGestureScroll_proofs -----------------------
(***************************************************************************)
(* For any positions, history length, gain and decay: momentum comes from  *)
(* lifts and wears off tick by tick, and rests and samples are never those *)
(* of something else.                                                      *)
(***************************************************************************)
EXTENDS CSGestureScroll, SequenceTheorems, TLAPS

USE ScrollAssumption DEF Axes

-----------------------------------------------------------------------------
(* Division as in C.                                                        *)

LEMMA DivBounds ==
    ASSUME NEW n \in Nat, NEW d \in Nat \ {0}
    PROVE  /\ n \div d \in Nat
           /\ d * (n \div d) <= n
           /\ n < d * (n \div d) + d
OBVIOUS

LEMMA QuotRem ==
    ASSUME NEW n \in Int, NEW d \in Nat \ {0}
    PROVE  /\ Quot(n, d) \in Int /\ Rem(n, d) \in Int
           /\ n >= 0 => Quot(n, d) >= 0 /\ Rem(n, d) >= 0
           /\ n <= 0 => Quot(n, d) <= 0 /\ Rem(n, d) <= 0
           /\ Abs(Rem(n, d)) < d
<1>1. CASE n >= 0
  BY <1>1, DivBounds DEF Quot, Rem, Abs
<1>2. CASE n < 0
  BY <1>2, DivBounds, -n \in Nat DEF Quot, Rem, Abs
<1>3. QED
  BY <1>1, <1>2

\* A natural number divided by d is not above a bound it is below times d.
LEMMA QuotBelow ==
    ASSUME NEW n \in Nat, NEW d \in Nat \ {0}, NEW m \in Nat, n < d * m + d
    PROVE  n \div d <= m
<1> DEFINE q == n \div d
<1>1. q \in Nat /\ d * q <= n
  BY DivBounds
<1> HIDE DEF q
<1>2. SUFFICES ASSUME q >= m + 1 PROVE FALSE
  BY <1>1 DEF q
<1>3. d * q >= d * (m + 1)
  BY <1>1, <1>2
<1>4. d * (m + 1) = d * m + d
  OBVIOUS
<1>5. d * m \in Nat /\ d * q \in Nat
  BY <1>1
<1>6. QED
  BY <1>1, <1>3, <1>4, <1>5

LEMMA QuotAbs ==
    ASSUME NEW n \in Int, NEW d \in Nat \ {0}, NEW m \in Nat,
           Abs(n) < d * m + d
    PROVE  Abs(Quot(n, d)) <= m
<1>1. CASE n >= 0
  <2>1. n \div d \in Nat /\ n \div d <= m
    BY <1>1, DivBounds, QuotBelow DEF Abs
  <2>2. QED
    BY <1>1, <2>1 DEF Quot, Abs
<1>2. CASE n < 0
  <2>1. -n \in Nat /\ -n < d * m + d
    BY <1>2 DEF Abs
  <2>2. (-n) \div d \in Nat /\ (-n) \div d <= m
    BY <2>1, DivBounds, QuotBelow
  <2>3. QED
    BY <1>2, <2>2 DEF Quot, Abs
<1>3. QED
  BY <1>1, <1>2

\* A product by Mul is not above that by Div.
LEMMA MulBelowDiv ==
    ASSUME NEW m \in Nat
    PROVE  m * Mul \in Nat /\ m * Mul <= Div * m
<1>1. Div = Mul + (Div - Mul) /\ Div - Mul \in Nat
  OBVIOUS
<1>2. Div * m = m * Mul + m * (Div - Mul)
  BY <1>1
<1>3. m * (Div - Mul) \in Nat /\ m * Mul \in Nat
  BY <1>1
<1>4. QED
  BY <1>2, <1>3

\* What is divided has the direction of the momentum and is below its next
\* multiple.
LEMMA DividendBounds ==
    ASSUME NEW m \in Int, NEW r \in Int, Abs(r) < Div, SameSign(r, m)
    PROVE  /\ m * Mul + r \in Int
           /\ Abs(m * Mul + r) < Div * Abs(m) + Div
           /\ SameSign(m * Mul + r, m)
<1>1. CASE m = 0
  <2>1. m * Mul + r = r /\ Div * Abs(m) + Div = Div
    BY <1>1 DEF Abs
  <2>2. QED
    BY <1>1, <2>1 DEF SameSign
<1>2. CASE m > 0
  <2>1. r >= 0 /\ r < Div
    BY <1>2 DEF SameSign, Abs
  <2>2. Abs(m) = m /\ m * Mul \in Nat /\ m * Mul <= Div * m
    BY <1>2, MulBelowDiv DEF Abs
  <2>3. Div * m \in Int
    BY <1>2
  <2>4. QED
    BY <1>2, <2>1, <2>2, <2>3 DEF SameSign, Abs
<1>3. CASE m < 0
  <2>1. r <= 0 /\ -r < Div
    BY <1>3 DEF SameSign, Abs
  <2>2. Abs(m) = -m /\ (-m) * Mul \in Nat /\ (-m) * Mul <= Div * (-m)
    BY <1>3, MulBelowDiv, -m \in Nat DEF Abs
  <2>3. Div * (-m) \in Int /\ m * Mul = -((-m) * Mul)
    BY <1>3
  <2>4. QED
    BY <1>3, <2>1, <2>2, <2>3 DEF SameSign, Abs
<1>4. QED
  BY <1>1, <1>2, <1>3

\* Decay shrinks what it decays, and it and its rest keep the direction.
LEMMA DecayShrinks ==
    ASSUME NEW m \in Int, NEW r \in Int, Abs(r) < Div, SameSign(r, m)
    PROVE  /\ Decayed(m, r) \in Int
           /\ Abs(Decayed(m, r)) <= Abs(m)
           /\ SameSign(Decayed(m, r), m)
           /\ Rem(m * Mul + r, Div) \in Int
           /\ Abs(Rem(m * Mul + r, Div)) < Div
           /\ SameSign(Rem(m * Mul + r, Div), Decayed(m, r))
<1> DEFINE n == m * Mul + r
<1>1. n \in Int /\ Abs(n) < Div * Abs(m) + Div /\ SameSign(n, m)
  BY DividendBounds
<1>2. Div \in Nat \ {0} /\ Abs(m) \in Nat
  BY DEF Abs
<1>3. Decayed(m, r) = Quot(n, Div)
  BY DEF Decayed
<1> HIDE DEF n
<1>4. Abs(Quot(n, Div)) <= Abs(m)
  BY <1>1, <1>2, QuotAbs
<1>5. SameSign(Quot(n, Div), m) /\ SameSign(Rem(n, Div), Quot(n, Div))
  <2>1. m = 0 => Quot(n, Div) = 0
    BY <1>1, <1>2, <1>4, QuotRem DEF Abs
  <2>2. QED
    BY <1>1, <1>2, <2>1, QuotRem DEF SameSign
<1>6. QED
  BY <1>1, <1>2, <1>3, <1>4, <1>5, QuotRem DEF n

-----------------------------------------------------------------------------
(* The inductive invariant                                                  *)

ScrollInv == TypeOK /\ NoStaleSamples /\ RestFollowsMomentum

LEMMA DisplacementType ==
    ASSUME TypeOK, NEW p \in Positions, NEW a \in Axes
    PROVE  Displacement(p)[a] \in Int
<1>1. /\ p.x1 \in Int /\ p.y1 \in Int /\ p.x2 \in Int /\ p.y2 \in Int
      /\ last.x1 \in Int /\ last.y1 \in Int /\ last.x2 \in Int /\ last.y2 \in Int
  <2> DEFINE Pair == [x1 : Nat, y1 : Nat, x2 : Nat, y2 : Nat]
  <2>1. NoPosition \in Pair
    BY DEF NoPosition
  <2>2. p \in Pair /\ last \in Pair
    BY <2>1 DEF TypeOK
  <2>3. QED
    BY <2>2
<1> DEFINE dx == (p.x1 - last.x1) + (p.x2 - last.x2)
           dy == (p.y1 - last.y1) + (p.y2 - last.y2)
<1>2. dx \in Int /\ dy \in Int
  BY <1>1
<1>3. Quot(dx, 2) \in Int /\ Quot(dy, 2) \in Int
  BY <1>2, QuotRem, 2 \in Nat \ {0}
<1>4. QED
  BY <1>3 DEF Displacement

HistoryType == [samples : Seq(Int), sum : Int]

LEMMA FilteredType ==
    ASSUME NEW h \in HistoryType, Len(h.samples) <= Samples, NEW n \in Int
    PROVE  Filtered(h, n) \in HistoryType /\ Len(Filtered(h, n).samples) <= Samples
<1>1. CASE Len(h.samples) < Samples
  BY <1>1 DEF Filtered, HistoryType, History!Remember
<1>2. CASE Len(h.samples) = Samples
  BY <1>2 DEF Filtered, HistoryType, History!Remember
<1>3. QED
  BY <1>1, <1>2 DEF HistoryType

LEMMA EmptyType ==
    /\ NoSamples \in HistoryType /\ Len(NoSamples.samples) = 0
    /\ Empty \in [Axes -> HistoryType]
BY DEF NoSamples, HistoryType, Empty

\* Nothing sampled and nothing moving is consistent.
LEMMA StillFields ==
    ASSUME NEW m, NEW r, NEW h, m = Zero, r = Zero, h = Empty
    PROVE  /\ m \in [Axes -> Int] /\ r \in [Axes -> Int]
           /\ \A a \in Axes : Abs(r[a]) < Div /\ SameSign(r[a], m[a])
           /\ h \in [Axes -> [samples : Seq(Int), sum : Int]]
           /\ \A a \in Axes : Len(h[a].samples) <= Samples /\ h[a] = NoSamples
<1>1. /\ m \in [Axes -> Int] /\ r \in [Axes -> Int]
      /\ \A a \in Axes : m[a] = 0 /\ r[a] = 0
  BY DEF Zero
<1>2. \A a \in Axes : Abs(r[a]) < Div /\ SameSign(r[a], m[a])
  BY <1>1 DEF SameSign, Abs
<1>3. /\ h \in [Axes -> [samples : Seq(Int), sum : Int]]
      /\ \A a \in Axes : h[a] = NoSamples
  BY EmptyType DEF Empty, HistoryType
<1>4. QED
  BY <1>1, <1>2, <1>3, EmptyType

LEMMA PlaceStep ==
    ASSUME ScrollInv, NEW p \in Positions, Place(p) \/ Pause(p)
    PROVE  ScrollInv'
<1>1. /\ UNCHANGED <<momentum, rest, history, touching, inertiaActive>>
      /\ last' = p
  BY DEF Place, Pause
<1>2. noScroll' \in 0..3
  <2>1. noScroll \in 0..3
    BY DEF ScrollInv, TypeOK
  <2>2. noScroll' = noScroll \/ (noScroll < 2 /\ noScroll' = noScroll + 1)
    BY DEF Place, Pause
  <2>3. QED
    BY <2>1, <2>2
<1>3. QED
  BY <1>1, <1>2 DEF ScrollInv, TypeOK, NoStaleSamples, RestFollowsMomentum

LEMMA ScrollStep ==
    ASSUME ScrollInv, NEW p \in Positions, Scroll(p)
    PROVE  ScrollInv'
<1> DEFINE n == Displacement(p)
           a == IF Abs(n.y) > Abs(n.x) THEN "y" ELSE "x"
           turned == ~SameSign(momentum[a], n[a])
           h == IF turned THEN NoSamples ELSE history[a]
<1>1. a \in Axes
  OBVIOUS
<1>2. n[a] \in Int
  BY <1>1, DisplacementType DEF ScrollInv
<1>3. history' = [Empty EXCEPT ![a] = Filtered(h, n[a])]
  BY DEF Scroll, Sampled
<1>4. h \in HistoryType /\ Len(h.samples) <= Samples
  BY <1>1, EmptyType DEF ScrollInv, TypeOK, HistoryType
<1>5. momentum' = [momentum EXCEPT ![a] = IF turned THEN 0 ELSE @]
      /\ rest' = [rest EXCEPT ![a] = IF turned THEN 0 ELSE @]
  BY DEF Scroll
<1>6. /\ last' = p /\ touching' = TRUE /\ noScroll' \in 0..3
      /\ inertiaActive' \in BOOLEAN
  BY DEF ScrollInv, TypeOK, Scroll
<1> HIDE DEF n, a, turned, h
<1>7. history' \in [Axes -> HistoryType]
      /\ \A b \in Axes : Len(history'[b].samples) <= Samples
  BY <1>1, <1>2, <1>3, <1>4, FilteredType, EmptyType DEF Empty
<1>8. TypeOK'
  <2>0. momentum \in [Axes -> Int] /\ rest \in [Axes -> Int]
        /\ \A b \in Axes : Abs(rest[b]) < Div
    BY DEF ScrollInv, TypeOK
  <2>1. momentum' \in [Axes -> Int] /\ rest' \in [Axes -> Int]
    BY <1>1, <1>5, <2>0
  <2>2. ASSUME NEW b \in Axes PROVE Abs(rest'[b]) < Div
    <3>1. rest'[b] = rest[b] \/ rest'[b] = 0
      BY <1>5, <2>0
    <3>2. QED
      BY <2>0, <3>1 DEF Abs
  <2>3. QED
    BY <1>6, <1>7, <2>1, <2>2 DEF TypeOK, HistoryType
<1>9. NoStaleSamples'
  BY <1>1, <1>3, <1>6 DEF NoStaleSamples, Empty
<1>10. RestFollowsMomentum'
  BY <1>1, <1>5 DEF ScrollInv, TypeOK, RestFollowsMomentum, SameSign
<1>11. QED
  BY <1>8, <1>9, <1>10 DEF ScrollInv

LEMMA LiftStep ==
    ASSUME ScrollInv, Lift
    PROVE  ScrollInv'
<1>1. \A a \in Axes : Push(a) \in Int
  BY DEF ScrollInv, TypeOK, Push
<1>2. \A a \in Axes : Pushed(momentum[a], Push(a)) \in Int
  BY <1>1 DEF ScrollInv, TypeOK, Pushed
<1>3. TypeOK'
  <2>1. /\ momentum' \in [Axes -> Int] /\ rest' \in [Axes -> Int]
        /\ \A a \in Axes : Abs(rest'[a]) < Div
    BY <1>2 DEF ScrollInv, TypeOK, Lift, LiftedRest, Abs
  <2>2. /\ history' \in [Axes -> HistoryType]
        /\ \A a \in Axes : Len(history'[a].samples) <= Samples
    BY EmptyType DEF ScrollInv, TypeOK, Lift, HistoryType, Empty
  <2>3. /\ last' = NoPosition /\ touching' \in BOOLEAN
        /\ UNCHANGED <<noScroll, inertiaActive>>
    BY DEF Lift
  <2>4. QED
    BY <2>1, <2>2, <2>3 DEF ScrollInv, TypeOK, HistoryType
<1>4. NoStaleSamples'
  BY DEF ScrollInv, TypeOK, NoStaleSamples, Lift, Empty
<1>5. RestFollowsMomentum'
  BY <1>2 DEF ScrollInv, TypeOK, RestFollowsMomentum, Lift, LiftedRest, SameSign
<1>6. QED
  BY <1>3, <1>4, <1>5 DEF ScrollInv

LEMMA StopStep ==
    ASSUME ScrollInv, StopScroll
    PROVE  ScrollInv'
<1>1. /\ momentum' = Zero /\ rest' = Zero /\ history' = Empty
      /\ touching' \in BOOLEAN /\ UNCHANGED <<last, noScroll, inertiaActive>>
  BY DEF StopScroll
<1>2. QED
  BY <1>1, StillFields
     DEF ScrollInv, TypeOK, NoStaleSamples, RestFollowsMomentum

LEMMA TimerStep ==
    ASSUME ScrollInv, ScrollTimer
    PROVE  ScrollInv' /\ \A a \in Axes : /\ Abs(momentum'[a]) <= Abs(momentum[a])
                                         /\ SameSign(momentum'[a], momentum[a])
<1>1. ASSUME NEW a \in Axes
      PROVE  /\ momentum'[a] \in Int /\ rest'[a] \in Int
             /\ Abs(momentum'[a]) <= Abs(momentum[a])
             /\ SameSign(momentum'[a], momentum[a])
             /\ Abs(rest'[a]) < Div
             /\ SameSign(rest'[a], momentum'[a])
  <2>1. /\ momentum[a] \in Int /\ rest[a] \in Int
        /\ Abs(rest[a]) < Div /\ SameSign(rest[a], momentum[a])
    BY DEF ScrollInv, TypeOK, RestFollowsMomentum
  <2>2. CASE Runs(momentum[a])
    BY <2>1, <2>2, DecayShrinks DEF ScrollTimer, Worn
  <2>3. CASE ~Runs(momentum[a])
    BY <2>1, <2>3 DEF ScrollTimer, Worn, SameSign, Abs
  <2>4. QED
    BY <2>2, <2>3
<1>2. momentum' \in [Axes -> Int] /\ rest' \in [Axes -> Int]
  BY <1>1 DEF ScrollTimer
<1>3. TypeOK'
  BY <1>1, <1>2 DEF ScrollInv, TypeOK, ScrollTimer
<1>4. NoStaleSamples' /\ RestFollowsMomentum'
  BY <1>1 DEF ScrollInv, NoStaleSamples, RestFollowsMomentum, ScrollTimer
<1>5. QED
  BY <1>1, <1>3, <1>4 DEF ScrollInv

LEMMA ScrollInvCorrect == Spec => []ScrollInv
<1>1. ASSUME Init PROVE ScrollInv
  <2>1. /\ momentum = Zero /\ rest = Zero /\ history = Empty
        /\ last = NoPosition /\ noScroll = 0
        /\ touching \in BOOLEAN /\ inertiaActive \in BOOLEAN
    BY <1>1 DEF Init
  <2>2. QED
    BY <2>1, StillFields
       DEF ScrollInv, TypeOK, NoStaleSamples, RestFollowsMomentum
<1>2. ScrollInv /\ [Next]_vars => ScrollInv'
  <2> SUFFICES ASSUME ScrollInv, [Next]_vars PROVE ScrollInv'
    OBVIOUS
  <2>1. CASE UNCHANGED vars
    BY <2>1 DEF vars, ScrollInv, TypeOK, NoStaleSamples, RestFollowsMomentum
  <2>2. QED
    BY <2>1, PlaceStep, ScrollStep, LiftStep, StopStep, TimerStep
       DEF Next, Fingers
<1>3. QED
  BY <1>1, <1>2, PTL DEF Spec

-----------------------------------------------------------------------------

\* The fields keep their types and a rest is a remainder.
THEOREM TypeCorrect == Spec => []TypeOK
<1>1. ScrollInv => TypeOK
  BY DEF ScrollInv
<1>2. QED
  BY <1>1, ScrollInvCorrect, PTL

\* Samples are those of the touch that is going on, of one axis.
THEOREM SamplesCorrect == Spec => []NoStaleSamples
<1>1. ScrollInv => NoStaleSamples
  BY DEF ScrollInv
<1>2. QED
  BY <1>1, ScrollInvCorrect, PTL

\* A rest never works against the momentum it is added to.
THEOREM RestCorrect == Spec => []RestFollowsMomentum
<1>1. ScrollInv => RestFollowsMomentum
  BY DEF ScrollInv
<1>2. QED
  BY <1>1, ScrollInvCorrect, PTL

\* Momentum only grows, or turns, in the lift that ends a touch.
THEOREM MomentumFromLiftsCorrect == Spec => MomentumFromLifts
<1> DEFINE Grows == \E a \in Axes : \/ Abs(momentum'[a]) > Abs(momentum[a])
                                    \/ ~SameSign(momentum'[a], momentum[a])
           Worthy == \A a \in Axes :
          (Abs(momentum'[a]) > Abs(momentum[a])
              \/ ~SameSign(momentum'[a], momentum[a]))
            => touching /\ ~touching'
<1>1. ScrollInv /\ [Next]_vars => [Worthy]_vars
  <2> SUFFICES ASSUME ScrollInv, [Next]_vars PROVE [Worthy]_vars
    OBVIOUS
  <2>1. \A a \in Axes : momentum[a] \in Int
    BY DEF ScrollInv, TypeOK
  <2>2. ASSUME momentum' = momentum PROVE ~Grows
    BY <2>1, <2>2 DEF SameSign, Abs
  <2>3. ASSUME NEW p \in Positions, Scroll(p) PROVE ~Grows
    <3>1. \A a \in Axes : momentum'[a] = momentum[a] \/ momentum'[a] = 0
      BY <2>3 DEF Scroll, ScrollInv, TypeOK
    <3>2. QED
      BY <2>1, <3>1 DEF SameSign, Abs
  <2>4. ASSUME StopScroll PROVE ~Grows
    BY <2>1, <2>4 DEF StopScroll, Zero, SameSign, Abs
  <2>5. ASSUME ScrollTimer PROVE ~Grows
    <3>1. \A a \in Axes : momentum'[a] \in Int
      BY <2>5, TimerStep DEF ScrollInv, TypeOK
    <3>2. QED
      BY <2>1, <2>5, <3>1, TimerStep DEF Abs
  <2>6. ASSUME Lift PROVE Grows => touching /\ ~touching'
    <3>1. CASE touching
      BY <2>6, <3>1 DEF Lift
    <3>2. CASE ~touching
      <4>1. \A a \in Axes : momentum'[a] = momentum[a]
        BY <2>6, <3>2 DEF Lift, Pushes
      <4>2. QED
        BY <2>1, <4>1 DEF SameSign, Abs
    <3>3. QED
      BY <3>1, <3>2
  <2>7. CASE UNCHANGED vars
    BY <2>7
  <2>8. CASE Next
    BY <2>2, <2>3, <2>4, <2>5, <2>6, <2>8 DEF Next, Fingers, Place, Pause
  <2>9. QED
    BY <2>7, <2>8
<1>2. QED
  BY <1>1, ScrollInvCorrect, PTL DEF Spec, MomentumFromLifts

-----------------------------------------------------------------------------
(* The momentum wears off.                                                  *)

\* Quotient and remainder together are what has been divided, of one sign.
LEMMA QuotRemTotal ==
    ASSUME NEW n \in Int, NEW d \in Nat \ {0}
    PROVE  d * Abs(Quot(n, d)) + Abs(Rem(n, d)) = Abs(n)
<1> DEFINE q == Quot(n, d)
           p == Rem(n, d)
<1>1. q \in Int /\ p \in Int
  BY QuotRem
<1>2. n = d * q + p
  <2>1. p = n - d * q
    BY DEF Rem
  <2>2. d * q \in Int
    BY <1>1
  <2> HIDE DEF p, q
  <2>3. QED
    BY <2>1, <2>2
<1>3. (n >= 0 => q >= 0 /\ p >= 0) /\ (n <= 0 => q <= 0 /\ p <= 0)
  BY QuotRem
<1> HIDE DEF p, q
<1>4. d * (-q) = -(d * q) /\ d * q \in Int
  BY <1>1
<1>5. CASE n >= 0
  BY <1>1, <1>2, <1>3, <1>5 DEF Abs, p, q
<1>6. CASE n < 0
  <2>1. Abs(n) = -n /\ Abs(q) = -q /\ Abs(p) = -p
    BY <1>1, <1>3, <1>6 DEF Abs
  <2>2. -n = d * (-q) + (-p)
    BY <1>1, <1>2, <1>4
  <2>3. QED
    BY <2>1, <2>2 DEF p, q
<1>7. QED
  BY <1>5, <1>6

\* A product by Mul is below that by Div.
LEMMA MulLessThanDiv ==
    ASSUME NEW m \in Nat \ {0}
    PROVE  m * Mul \in Nat /\ m * Mul < Div * m
<1>1. Div = Mul + (Div - Mul) /\ Div - Mul \in Nat \ {0}
  OBVIOUS
<1>2. Div * m = m * Mul + m * (Div - Mul)
  BY <1>1
<1>3. m * (Div - Mul) \in Nat \ {0} /\ m * Mul \in Nat
  BY <1>1
<1>4. QED
  BY <1>2, <1>3

\* What the decay divides is less than what there was.
LEMMA DividendLess ==
    ASSUME NEW m \in Int, m # 0, NEW r \in Int, SameSign(r, m)
    PROVE  Abs(m * Mul + r) < Div * Abs(m) + Abs(r)
<1>1. CASE m > 0
  <2>1. r >= 0 /\ m * Mul \in Nat /\ m * Mul < Div * m /\ Div * m \in Int
    BY <1>1, MulLessThanDiv DEF SameSign
  <2>2. Abs(m) = m
    BY <1>1 DEF Abs
  <2>3. QED
    BY <2>1, <2>2 DEF Abs
<1>2. CASE m < 0
  <2>1. r <= 0 /\ -m \in Nat \ {0}
    BY <1>2 DEF SameSign
  <2>2. (-m) * Mul \in Nat /\ (-m) * Mul < Div * (-m) /\ Div * (-m) \in Int
    BY <2>1, MulLessThanDiv
  <2>3. Abs(m) = -m /\ m * Mul = -((-m) * Mul)
    BY <1>2 DEF Abs
  <2>4. Abs(m * Mul + r) = (-m) * Mul + (-r) /\ Abs(r) = -r
    BY <2>1, <2>2, <2>3 DEF Abs
  <2>5. QED
    BY <2>1, <2>2, <2>3, <2>4
<1>3. QED
  BY <1>1, <1>2

\* Every tick of the timer leaves less than there was, until the momentum is 0:
\* for any gain, notch and decay below one.
THEOREM InertiaWearsOffCorrect == Spec => InertiaWearsOff
<1>1. ScrollInv /\ [Next]_vars =>
          [ScrollTimer => \A a \in Axes : momentum[a] # 0 => Left(a)' < Left(a)]_vars
  <2> SUFFICES ASSUME ScrollInv, ScrollTimer, NEW a \in Axes, momentum[a] # 0
               PROVE  Left(a)' < Left(a)
    OBVIOUS
  <2> DEFINE m == momentum[a]
             r == rest[a]
  <2>1. m \in Int /\ r \in Int /\ SameSign(r, m) /\ m # 0
    BY DEF ScrollInv, TypeOK, RestFollowsMomentum
  <2>2. CASE Runs(m)
    <3>1. momentum'[a] = Quot(m * Mul + r, Div) /\ rest'[a] = Rem(m * Mul + r, Div)
      BY <2>2 DEF ScrollTimer, Worn, Decayed
    <3> HIDE DEF m, r
    <3>2. m * Mul + r \in Int /\ Div \in Nat \ {0}
      BY <2>1
    <3>3. Div * Abs(Quot(m * Mul + r, Div)) + Abs(Rem(m * Mul + r, Div))
            = Abs(m * Mul + r)
      BY <3>2, QuotRemTotal
    <3>4. Abs(m * Mul + r) < Div * Abs(m) + Abs(r)
      BY <2>1, DividendLess
    <3>5. QED
      BY <3>1, <3>3, <3>4 DEF Left, m, r
  <2>3. CASE ~Runs(m)
    <3>1. momentum'[a] = 0 /\ rest'[a] = r
      BY <2>3 DEF ScrollTimer, Worn
    <3>2. Abs(m) \in Nat \ {0} /\ Abs(r) \in Nat
      BY <2>1 DEF Abs
    <3>3. Div * Abs(m) > 0 /\ Div * Abs(m) \in Int
      BY <3>2
    <3>4. Div * Abs(0) = 0
      BY DEF Abs
    <3>5. QED
      BY <3>1, <3>2, <3>3, <3>4 DEF Left
  <2>4. QED
    BY <2>2, <2>3
<1>2. QED
  BY <1>1, ScrollInvCorrect, PTL DEF Spec, InertiaWearsOff

=============================================================================
