--------------------------- MODULE CSGestureScroll ---------------------------
(***************************************************************************)
(* CSGestureScrollAS: two fingers scroll, and a lift leaves a momentum     *)
(* that a timer works off.                                                 *)
(*                                                                         *)
(* A history is a window over its last samples, as SimpleAverage           *)
(* implements it, and its running sum.  The rests                          *)
(* momentumscrollrest2x and 2y are only ever 0 or dx % 1, which is 0.  The *)
(* wheel events follow from the momentum and the displacements and are     *)
(* left out.  Nothing calls prepareToSleep and wakeFromSleep, nor what     *)
(* would clear scrollInertiaActive.                                        *)
(***************************************************************************)
EXTENDS Integers, Sequences

CONSTANTS Positions,  \* of two fingers on the pad: x1, y1, x2, y2, above 0
          Samples,    \* the length of the histories, 32
          SamplesMin, \* momentumscrollsamplesmin, 1
          Gain,       \* a lift multiplies the samples by it, 10
          Notch,      \* a smaller step ends the inertia, 7
          Jump,       \* a greater displacement is not believed, 100
          Mul, Div,   \* the inertia's decay, 98 / 100
          Bound       \* bounds the momentum that repeated lifts add up

Axes == {"x", "y"}

VARIABLES momentum,      \* momentumscrollcurrentx, y
          rest,          \* momentumscrollrest1x, y
          history,       \* dx_history, dy_history
          last,          \* lastx1, lasty1, lastx2, lasty2
          touching,      \* isTouchActive
          noScroll,      \* noScrollCounter, which is only compared with 3
          inertiaActive  \* softc->scrollInertiaActive

vars == <<momentum, rest, history, last, touching, noScroll, inertiaActive>>

NoPosition == [x1 |-> 0, y1 |-> 0, x2 |-> 0, y2 |-> 0]

ASSUME ScrollAssumption ==
    /\ Positions \subseteq [x1 : Nat \ {0}, y1 : Nat \ {0}, x2 : Nat \ {0}, y2 : Nat \ {0}]
    /\ Samples \in Nat \ {0} /\ SamplesMin \in Nat
    /\ Gain \in Nat \ {0} /\ Notch \in Nat /\ Jump \in Nat
    /\ Mul \in Nat /\ Div \in Nat /\ Mul < Div
    /\ Bound \in Nat

Zero == [a \in Axes |-> 0]
NoSamples == [samples |-> <<>>, sum |-> 0]
Empty == [a \in Axes |-> NoSamples]

Init ==
    /\ momentum = Zero
    /\ rest = Zero
    /\ history = Empty
    /\ last = NoPosition
    /\ touching = FALSE
    /\ noScroll = 0
    /\ inertiaActive = FALSE

Abs(n) == IF n < 0 THEN -n ELSE n

\* Division and remainder of C: the quotient is truncated.
Quot(n, d) == IF n >= 0 THEN n \div d ELSE -((-n) \div d)
Rem(n, d) == n - d * Quot(n, d)

SameSign(m, n) == (m >= 0 /\ n >= 0) \/ (m <= 0 /\ n <= 0)

History == INSTANCE SampleWindow
             WITH N <- Samples, Values <- Int, window <- history

-----------------------------------------------------------------------------
(* ProcessScroll                                                            *)

\* A displacement too great for x is taken for none; one too great for y clears
\* that of x and is kept.
Displacement(p) ==
    LET dx == Quot((p.x1 - last.x1) + (p.x2 - last.x2), 2)
        dy == Quot((p.y1 - last.y1) + (p.y2 - last.y2), 2)
    IN  [x |-> IF Abs(dx) > Jump \/ Abs(dy) > Jump THEN 0 ELSE -dx,
         y |-> -dy]

Moved(p) == Displacement(p).x # 0 \/ Displacement(p).y # 0

Place(p) ==
    /\ last = NoPosition
    /\ last' = p
    /\ UNCHANGED <<momentum, rest, history, touching, noScroll, inertiaActive>>

Pause(p) ==
    /\ last # NoPosition
    /\ ~Moved(p)
    /\ noScroll < 2
    /\ last' = p
    /\ noScroll' = noScroll + 1
    /\ UNCHANGED <<momentum, rest, history, touching, inertiaActive>>

Filtered(h, n) ==
    [samples |-> History!Remember(h.samples, n),
     sum |-> h.sum + n - IF Len(h.samples) < Samples THEN 0 ELSE Head(h.samples)]

\* Mutant: the samples of the other axis are kept.
SampledKeepsOther(a, n, turned) ==
    [history EXCEPT ![a] = Filtered(IF turned THEN NoSamples ELSE @, n)]

Sampled(a, n, turned) ==
    [Empty EXCEPT ![a] = Filtered(IF turned THEN NoSamples ELSE history[a], n)]

\* The greater displacement is sampled, after a turn from nothing, and the
\* other axis forgets its samples.
Scroll(p) ==
    LET n == Displacement(p)
        a == IF Abs(n.y) > Abs(n.x) THEN "y" ELSE "x"
        turned == ~SameSign(momentum[a], n[a])
    IN  /\ last # NoPosition
        /\ Moved(p) \/ noScroll >= 2
        /\ last' = p
        /\ noScroll' = IF Moved(p) THEN 0 ELSE 3
        /\ momentum' = [momentum EXCEPT ![a] = IF turned THEN 0 ELSE @]
        /\ rest' = [rest EXCEPT ![a] = IF turned THEN 0 ELSE @]
        /\ history' = Sampled(a, n[a], turned)
        /\ touching' = TRUE
        /\ UNCHANGED inertiaActive

\* A momentum of the same direction grows, one of the other is replaced.
Pushed(m, push) == IF SameSign(m, push) THEN m + push ELSE push

Push(a) == Gain * history[a].sum

Pushes(a) == touching /\ Len(history[a].samples) > SamplesMin

\* Mutant: the rest of an earlier inertia is kept.
LiftedRestKept == rest

LiftedRest == [a \in Axes |-> IF Pushes(a) THEN 0 ELSE rest[a]]

\* A finger has left, or is on the edge of the pad, where a coordinate is 0.
Lift ==
    /\ \A a \in Axes : Pushes(a) => Abs(Pushed(momentum[a], Push(a))) <= Bound
    /\ momentum' = [a \in Axes |-> IF Pushes(a) THEN Pushed(momentum[a], Push(a))
                                                ELSE momentum[a]]
    /\ rest' = LiftedRest
    /\ history' = IF touching THEN Empty ELSE history
    /\ touching' = FALSE
    /\ last' = NoPosition
    /\ UNCHANGED <<noScroll, inertiaActive>>

-----------------------------------------------------------------------------
(* stopScroll and the timer                                                 *)

\* A move, a tap, a button or a third finger stops the scroll; the positions of
\* the fingers are kept.
StopScroll ==
    /\ momentum' = Zero
    /\ rest' = Zero
    /\ history' = Empty
    /\ touching' = FALSE
    /\ UNCHANGED <<last, noScroll, inertiaActive>>

Runs(m) == Abs(Quot(m, Gain)) > Notch

\* Mutant: the rest is what has been multiplied and not what is left over.
DecayedUndivided(m, r) == m * Mul + r

\* Mutant: the quotient is rounded up, though the remainder is kept.
DecayedRoundedUp(m, r) ==
    Quot(m * Mul + r, Div) + CASE Rem(m * Mul + r, Div) > 0 -> 1
                               [] Rem(m * Mul + r, Div) < 0 -> -1
                               [] OTHER -> 0

Decayed(m, r) == Quot(m * Mul + r, Div)

\* Mutant: an inertia below the notch is left standing.
WornNotEnded(m, r) == IF Runs(m) THEN Decayed(m, r) ELSE m

Worn(m, r) == IF Runs(m) THEN Decayed(m, r) ELSE 0

\* The timer sets itself again and never ends.
ScrollTimer ==
    /\ momentum' = [a \in Axes |-> Worn(momentum[a], rest[a])]
    /\ rest' = [a \in Axes |->
            IF Runs(momentum[a]) THEN Rem(momentum[a] * Mul + rest[a], Div)
                                 ELSE rest[a]]
    /\ inertiaActive' = (inertiaActive \/ momentum' # Zero)
    /\ UNCHANGED <<history, last, touching, noScroll>>

Fingers == Lift \/ \E p \in Positions : Place(p) \/ Pause(p) \/ Scroll(p)

Next == Fingers \/ StopScroll \/ ScrollTimer

Spec == Init /\ [][Next]_vars

\* The timer fires every 10 ms.
FairSpec == Spec /\ WF_vars(ScrollTimer)

-----------------------------------------------------------------------------
(* Properties                                                               *)

\* The fields keep their types, a rest is a remainder, a history never longer
\* than its ring.
TypeOK ==
    /\ momentum \in [Axes -> Int]
    /\ rest \in [Axes -> Int]
    /\ \A a \in Axes : Abs(rest[a]) < Div
    /\ history \in [Axes -> [samples : Seq(Int), sum : Int]]
    /\ \A a \in Axes : Len(history[a].samples) <= Samples
    /\ last \in Positions \cup {NoPosition}
    /\ touching \in BOOLEAN
    /\ noScroll \in 0..3
    /\ inertiaActive \in BOOLEAN

\* Samples are those of the touch that is going on, of one axis: no lift turns
\* what an earlier touch did, or the other axis, into momentum.
NoStaleSamples ==
    /\ \A a \in Axes : history[a] # NoSamples => touching
    /\ history["x"] = NoSamples \/ history["y"] = NoSamples

\* A rest never works against the momentum it is added to, though it outlives
\* the momentum it was left by.
RestFollowsMomentum == \A a \in Axes : SameSign(rest[a], momentum[a])

\* Momentum only ever grows, or changes its direction, in the lift that ends a
\* touch; between lifts the timer wears it off.
MomentumFromLifts ==
    [][\A a \in Axes :
          (Abs(momentum'[a]) > Abs(momentum[a])
              \/ ~SameSign(momentum'[a], momentum[a]))
            => touching /\ ~touching']_vars

\* What the timer works off: the momentum and the rest below its unit.
Left(a) == Div * Abs(momentum[a]) + Abs(rest[a])

\* No tick of the timer is idle: though the divisions truncate and the rest is
\* added back, each leaves less than there was, until the momentum is 0.
InertiaWearsOff ==
    [][ScrollTimer => \A a \in Axes : momentum[a] # 0 => Left(a)' < Left(a)]_vars

\* Unless fingers come again and again, the page comes to rest.
InertiaDies == []<><<Fingers>>_vars \/ <>[](momentum = Zero)

=============================================================================
