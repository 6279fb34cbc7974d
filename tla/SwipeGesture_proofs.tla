-------------------------- MODULE SwipeGesture_proofs --------------------------
(***************************************************************************)
(* For any contacts, displacements and limits: the fields of a swipe keep  *)
(* their types, the keys it types keep apart, and no tick of a steady      *)
(* swipe is idle.                                                          *)
(***************************************************************************)
EXTENDS SwipeGesture, TLAPS

USE SwipeAssumption DEF vars, swipeVars

LEMMA Bounds ==
    /\ SwipeTicks[3] \in Nat /\ SwipeTicks[4] \in Nat
    /\ RepeatTicks[3] \in Nat /\ RepeatTicks[4] \in Nat
    /\ TickBound \in Nat /\ TickBound > SwipeTicks[4]
    /\ KeyBound \in Nat /\ KeyBound >= 2
    /\ 0 \in -Bound..Bound /\ 0 \in 0..TickBound /\ KeyBound \in 1..KeyBound
BY DEF TickBound, KeyBound

\* UpTo caps a number.
LEMMA Capped ==
    ASSUME NEW limit \in Nat, NEW n \in Nat
    PROVE  /\ UpTo(limit, n) \in Nat
           /\ UpTo(limit, n) <= limit /\ UpTo(limit, n) <= n
           /\ UpTo(limit, n) = limit \/ UpTo(limit, n) = n
BY DEF UpTo

\* Every tick is one of the four.
LEMMA Cases ==
    ASSUME NEW in \in Inputs, Tick(in)
    PROVE  \/ TypeKey(in) \/ Repeat(in) \/ Gather(in) \/ Break(in)
BY DEF Tick

-----------------------------------------------------------------------------
(* The types.                                                               *)

LEMMA TypeInit == Init => TypeOK
BY Bounds DEF Init, TypeOK

LEMMA TypeNext == TypeOK /\ [Next]_vars => TypeOK'
<1> SUFFICES ASSUME TypeOK, [Next]_vars PROVE TypeOK'
  OBVIOUS
<1>1. ASSUME NEW in \in Inputs, Tick(in) PROVE TypeOK'
  <2>1. input' \in Inputs \cup {Still}
    BY <1>1 DEF Tick
  <2>2. sinceKey' \in 1..KeyBound
    BY <1>1, Bounds DEF Tick, TypeOK, UpTo
  <2>3. NextTick \in 0..TickBound
    BY Bounds DEF NextTick, TypeOK, UpTo
  <2>4. /\ x' \in -Bound..Bound /\ y' \in -Bound..Bound
        /\ tick' \in 0..TickBound
        /\ done' \in BOOLEAN
        /\ typed' = <<>> \/ typed'[Len(typed')] = NoKey
    <3>1. CASE TypeKey(in)
      <4>1. typed'[Len(typed')] = NoKey
        BY <3>1 DEF TypeKey, Pressed
      <4>2. QED
        BY <2>3, <3>1, <4>1 DEF TypeKey
    <3>2. CASE Repeat(in) \/ Break(in)
      BY <3>2, Bounds DEF Repeat, Break, Forget
    <3>3. CASE Gather(in)
      <4>1. in.x \in Int /\ in.y \in Int
        BY DEF Inputs
      <4>2. GoneX(in) \in Int /\ GoneY(in) \in Int
        <5>1. x \in Int /\ y \in Int
          BY DEF TypeOK
        <5>2. QED
          BY <4>1, <5>1 DEF GoneX, GoneY
      <4>3. GoneX(in) \in -Bound..Bound /\ GoneY(in) \in -Bound..Bound
        <5>1. Abs(GoneX(in)) <= Bound /\ Abs(GoneY(in)) <= Bound
          BY <3>3 DEF Gather
        <5>2. \A n \in Int : Abs(n) <= Bound => n \in -Bound..Bound
          BY DEF Abs
        <5>3. QED
          BY <4>2, <5>1, <5>2
      <4>4. QED
        BY <2>3, <3>3, <4>3 DEF Gather, TypeOK
    <3>4. QED
      BY <1>1, <3>1, <3>2, <3>3, Cases
  <2>5. QED
    BY <2>1, <2>2, <2>4 DEF TypeOK
<1>2. CASE UNCHANGED vars
  BY <1>2 DEF TypeOK
<1>3. QED
  BY <1>1, <1>2 DEF Next

\* No sum, counter or report leaves its type.
THEOREM TypeCorrect == Spec => []TypeOK
<1>1. TypeOK /\ [Next]_vars => TypeOK'
  BY TypeNext
<1>2. QED
  BY <1>1, TypeInit, PTL DEF Spec

-----------------------------------------------------------------------------
(* Keys keep apart: a swipe that may still type is no older than its last   *)
(* key.                                                                     *)

AgeInv ==
    /\ typed # <<>> => done
    /\ ~done => sinceKey >= UpTo(KeyBound, tick + 1)

LEMMA AgeInit == Init => AgeInv
BY Bounds DEF Init, AgeInv, UpTo

LEMMA AgeNext == TypeOK /\ AgeInv /\ [Next]_vars => AgeInv'
<1> SUFFICES ASSUME TypeOK, AgeInv, [Next]_vars PROVE AgeInv'
  OBVIOUS
<1>1. ASSUME NEW in \in Inputs, Tick(in) PROVE AgeInv'
  <2>1. CASE TypeKey(in)
    BY <2>1 DEF TypeKey, AgeInv
  <2>2. CASE Repeat(in) \/ Break(in)
    <3>1. typed' = <<>> /\ tick' = 0 /\ done' = FALSE
      BY <2>2 DEF Repeat, Break, Forget
    <3>2. sinceKey' >= 1
      BY <1>1, Bounds DEF Tick, TypeOK, UpTo
    <3>3. UpTo(KeyBound, 0 + 1) = 1
      BY Bounds DEF UpTo
    <3>4. sinceKey' >= UpTo(KeyBound, tick' + 1)
      BY <3>1, <3>2, <3>3
    <3>5. QED
      BY <3>1, <3>4 DEF AgeInv
  <2>3. CASE Gather(in)
    <3>1. typed' = <<>> /\ done' = done /\ tick' = NextTick
      BY <2>3 DEF Gather
    <3>2. CASE ~done
      <4>1. sinceKey >= UpTo(KeyBound, tick + 1) /\ typed = <<>>
        BY <3>2 DEF AgeInv
      <4>2. sinceKey' = UpTo(KeyBound, sinceKey + 1)
        BY <1>1, <4>1 DEF Tick
      <4>3. tick' \in Nat /\ tick' <= tick + 1
        BY <3>1, Bounds DEF NextTick, UpTo, TypeOK
      <4>4. tick \in Nat /\ sinceKey \in Nat
        BY Bounds DEF TypeOK
      <4>5. ASSUME NEW k \in Nat, NEW a \in Nat, NEW b \in Nat, NEW c \in Nat,
                   a >= UpTo(k, b + 1), c <= b + 1
            PROVE  UpTo(k, a + 1) >= UpTo(k, c + 1)
        BY <4>5 DEF UpTo
      <4>6. sinceKey' >= UpTo(KeyBound, tick' + 1)
        BY <4>1, <4>2, <4>3, <4>4, <4>5, Bounds
      <4>7. QED
        BY <3>1, <4>6 DEF AgeInv
    <3>3. QED
      BY <3>1, <3>2 DEF AgeInv
  <2>4. QED
    BY <1>1, <2>1, <2>2, <2>3, Cases
<1>2. CASE UNCHANGED vars
  BY <1>2 DEF AgeInv
<1>3. QED
  BY <1>1, <1>2 DEF Next

LEMMA ApartStep ==
    TypeOK /\ AgeInv /\ [Next]_vars
        => [typed' # <<>> => sinceKey' >= SwipeTicks[input'.contacts] + 2]_vars
<1> SUFFICES ASSUME TypeOK, AgeInv, NEW in \in Inputs, Tick(in), typed' # <<>>
             PROVE  sinceKey' >= SwipeTicks[input'.contacts] + 2
  BY DEF Next
<1>1. TypeKey(in)
  BY Cases DEF Repeat, Gather, Break
<1>2. input' = in /\ in.contacts \in {3, 4}
  BY <1>1 DEF Tick, TypeKey, Swiping
<1>3. ~done /\ NextTick > SwipeTicks[in.contacts]
  BY <1>1 DEF TypeKey, Mature
<1>4. sinceKey' = UpTo(KeyBound, sinceKey + 1) /\ sinceKey >= UpTo(KeyBound, tick + 1)
  BY <1>3 DEF AgeInv, Tick
<1>5. SwipeTicks[in.contacts] \in Nat /\ KeyBound >= SwipeTicks[in.contacts] + 2
  BY <1>2 DEF KeyBound
<1>6. tick + 1 > SwipeTicks[in.contacts]
  BY <1>3, <1>5, Bounds DEF NextTick, UpTo, TypeOK
<1>7. sinceKey' >= SwipeTicks[in.contacts] + 2
  BY <1>4, <1>5, <1>6, Bounds DEF UpTo, TypeOK
<1>8. QED
  BY <1>2, <1>7

\* Between a key and the one before are as many ticks as its swipe needs, and
\* one more, whatever the contacts did in between.
THEOREM KeysApartCorrect == Spec => KeysApart
<1>1. TypeOK /\ AgeInv /\ [Next]_vars => AgeInv'
  BY AgeNext
<1>2. TypeOK /\ AgeInv /\ [Next]_vars
          => [typed' # <<>> => sinceKey' >= SwipeTicks[input'.contacts] + 2]_vars
  BY ApartStep
<1>3. QED
  BY <1>1, <1>2, AgeInit, TypeCorrect, PTL DEF Spec, KeysApart

-----------------------------------------------------------------------------
(* What SteadySwipeTypes rests on.                                          *)

\* How far n is from being more than a limit.
Short(limit, n) == IF n > limit THEN 0 ELSE limit + 1 - n

\* Until a key, the distance and the ticks that are missing; of a swipe that is
\* done, first the ticks until it may begin anew.
Missing(n) ==
    IF done
    THEN Short(RepeatTicks[n], tick) + Distance + SwipeTicks[n] + 3
    ELSE Short(Distance, x) + Short(SwipeTicks[n], tick)

\* The contacts of a tick go on in one direction.
GoesOn(n, in) == in.contacts = n /\ in.x > 0 /\ ~in.vertical

\* No tick of a steady swipe is idle: it types the key, or less is missing.
NoIdleSwipe ==
    [][\A n \in {3, 4} :
          GoesOn(n, input') /\ typed' = <<>> => Missing(n)' < Missing(n)]_vars

LEMMA ShortType ==
    ASSUME NEW limit \in Nat, NEW n \in Int
    PROVE  Short(limit, n) \in Nat
BY DEF Short

\* Who gets on is less short, until past the limit.
LEMMA ShortFalls ==
    ASSUME NEW limit \in Nat, NEW n \in Int, NEW m \in Int, n < m
    PROVE  /\ Short(limit, m) <= Short(limit, n)
           /\ n <= limit => Short(limit, m) < Short(limit, n)
BY DEF Short

LEMMA MissingType ==
    ASSUME TypeOK, NEW n \in {3, 4}
    PROVE  Missing(n) \in Nat
<1>1. /\ SwipeTicks[n] \in Nat /\ RepeatTicks[n] \in Nat /\ Distance \in Nat
      /\ x \in Int /\ tick \in Int
  BY Bounds DEF TypeOK
<1>2. /\ Short(RepeatTicks[n], tick) \in Nat
      /\ Short(Distance, x) \in Nat
      /\ Short(SwipeTicks[n], tick) \in Nat
  BY <1>1, ShortType
<1>3. QED
  BY <1>1, <1>2 DEF Missing

\* One tick; a swipe that is not done is not given up before it could type.
LEMMA SteadyTick ==
    ASSUME TypeOK, NEW n \in {3, 4}, SwipeTicks[n] <= RepeatTicks[n],
           NEW in \in Inputs, Tick(in), GoesOn(n, in), typed' = <<>>
    PROVE  Missing(n)' < Missing(n)
<1> DEFINE S == SwipeTicks[n]
           R == RepeatTicks[n]
<1>1. /\ S \in Nat /\ R \in Nat /\ S <= R /\ Distance \in Nat
      /\ x \in Int /\ tick \in Nat /\ tick \in Int /\ tick <= TickBound
      /\ done \in BOOLEAN
  BY Bounds DEF TypeOK
<1>2. TickBound > S /\ TickBound > R /\ TickBound \in Nat
  BY Bounds DEF TickBound
<1>3. in.contacts = n /\ in.x \in Int /\ in.x > 0 /\ Gone(in) = x + in.x
  BY DEF GoesOn, Inputs, Gone, GoneX
<1>4. Repeat(in) \/ Gather(in)
  BY <1>3, Cases DEF TypeKey, Pressed, Break, Swiping
<1>5. NextTick \in Nat /\ (NextTick = tick + 1 \/ NextTick = TickBound) /\ NextTick <= tick + 1
  BY <1>1, <1>2 DEF NextTick, UpTo
<1>6. Mature(in) <=> NextTick > S /\ ~done
  BY <1>3 DEF Mature
<1>7. Expired(in) <=> ~Mature(in) /\ NextTick > R
  BY <1>3 DEF Expired
<1>8. /\ done => Missing(n) = Short(R, tick) + Distance + S + 3
      /\ ~done => Missing(n) = Short(Distance, x) + Short(S, tick)
      /\ done' => Missing(n)' = Short(R, tick') + Distance + S + 3
      /\ ~done' => Missing(n)' = Short(Distance, x') + Short(S, tick')
  BY DEF Missing
<1> HIDE DEF S, R
<1>9. CASE done
  <2>1. CASE Repeat(in)
    <3>1. tick' = 0 /\ x' = 0 /\ ~done'
      BY <2>1 DEF Repeat, Forget
    <3>2. Short(Distance, x') = Distance + 1 /\ Short(S, tick') = S + 1
      BY <1>1, <3>1 DEF Short
    <3>3. Short(R, tick) \in Nat
      BY <1>1, ShortType
    <3>4. /\ Missing(n) = Short(R, tick) + Distance + S + 3
          /\ Missing(n)' = (Distance + 1) + (S + 1)
      BY <1>8, <1>9, <3>1, <3>2
    <3>5. QED
      BY <1>1, <3>3, <3>4
  <2>2. CASE Gather(in)
    <3>1. tick' = NextTick /\ done' = done
      BY <2>2 DEF Gather
    <3>2. NextTick <= R
      BY <1>1, <1>5, <1>6, <1>7, <1>9, <2>2 DEF Gather
    <3>3. tick' \in Int /\ tick < tick' /\ tick <= R
      BY <1>1, <1>2, <1>5, <3>1, <3>2
    <3>4. Short(R, tick') < Short(R, tick)
      BY <1>1, <3>3, ShortFalls
    <3>5. Short(R, tick) \in Nat /\ Short(R, tick') \in Nat
      BY <1>1, <3>3, ShortType
    <3>6. QED
      BY <1>1, <1>8, <1>9, <3>1, <3>4, <3>5
  <2>3. QED
    BY <1>4, <2>1, <2>2
<1>10. CASE ~done
  <2>1. Gather(in)
    BY <1>1, <1>4, <1>5, <1>6, <1>7, <1>10 DEF Repeat
  <2>2. x' = x + in.x /\ tick' = NextTick /\ ~done'
    BY <1>10, <2>1 DEF Gather, GoneX
  <2>3. x' \in Int /\ x < x'
    BY <1>1, <1>3, <2>2
  <2>4. tick' \in Nat /\ tick' \in Int /\ (tick' > S \/ (tick < tick' /\ tick <= S))
    BY <1>1, <1>2, <1>5, <2>2
  <2>5. tick' > S => x <= Distance
    <3>1. tick' > S => ~(Abs(Gone(in)) > Distance)
      BY <1>6, <1>10, <2>1, <2>2 DEF Gather
    <3>2. QED
      BY <1>1, <1>3, <3>1 DEF Abs
  <2>6. /\ Short(Distance, x') <= Short(Distance, x)
        /\ x <= Distance => Short(Distance, x') < Short(Distance, x)
    BY <1>1, <2>3, ShortFalls
  <2>7. /\ Short(S, tick') <= Short(S, tick)
        /\ tick' <= S => Short(S, tick') < Short(S, tick)
    <3>1. CASE tick < tick'
      <4>1. tick' <= S => tick <= S
        BY <1>1, <2>4, <3>1
      <4>2. QED
        BY <1>1, <2>4, <3>1, <4>1, ShortFalls
    <3>2. CASE ~(tick < tick')
      <4>1. tick' > S /\ tick > S
        BY <1>1, <2>4, <3>2
      <4>2. QED
        BY <1>1, <2>4, <4>1 DEF Short
    <3>3. QED
      BY <3>1, <3>2
  <2>8. /\ Short(Distance, x) \in Nat /\ Short(Distance, x') \in Nat
        /\ Short(S, tick) \in Nat /\ Short(S, tick') \in Nat
    BY <1>1, <2>3, <2>4, ShortType
  <2>9. Short(Distance, x') + Short(S, tick') < Short(Distance, x) + Short(S, tick)
    <3>1. tick' > S \/ tick' <= S
      BY <1>1, <2>4
    <3>2. CASE tick' > S
      BY <2>5, <2>6, <2>7, <2>8, <3>2
    <3>3. CASE tick' <= S
      BY <2>6, <2>7, <2>8, <3>3
    <3>4. QED
      BY <3>1, <3>2, <3>3
  <2>10. QED
    BY <1>8, <1>10, <2>2, <2>9
<1>11. QED
  BY <1>1, <1>9, <1>10

\* What is missing is a number that every steady tick makes smaller, until the
\* key is typed: SteadySwipeTypes without the timer's fairness.  A swipe may not
\* be given up before it is old enough, as in the code (5 and 25, 30 and 70).
THEOREM NoIdleSwipeCorrect ==
    ASSUME \A n \in {3, 4} : SwipeTicks[n] <= RepeatTicks[n]
    PROVE  /\ Spec => NoIdleSwipe
           /\ Spec => [](\A n \in {3, 4} : Missing(n) \in Nat)
<1>1. ASSUME TypeOK, [Next]_vars
      PROVE  [\A n \in {3, 4} :
                 GoesOn(n, input') /\ typed' = <<>> => Missing(n)' < Missing(n)]_vars
  <2> SUFFICES ASSUME Next, NEW n \in {3, 4}, GoesOn(n, input'), typed' = <<>>
               PROVE  Missing(n)' < Missing(n)
    BY <1>1
  <2>1. PICK in \in Inputs : Tick(in)
    BY DEF Next
  <2>2. input' = in
    BY <2>1 DEF Tick
  <2>3. QED
    BY <1>1, <2>1, <2>2, SteadyTick
<1>2. TypeOK => \A n \in {3, 4} : Missing(n) \in Nat
  BY MissingType
<1>3. Spec => NoIdleSwipe
  BY <1>1, TypeCorrect, PTL DEF Spec, NoIdleSwipe
<1>4. QED
  BY <1>2, <1>3, TypeCorrect, PTL

=============================================================================
