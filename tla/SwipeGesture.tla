----------------------------- MODULE SwipeGesture -----------------------------
(***************************************************************************)
(* The swipes of VoodooI2CCSGestureEngineAS: three or four contacts that   *)
(* move together press a key combination, once.  Both count into the same  *)
(* multitasking fields.                                                    *)
(*                                                                         *)
(* A tick sees how many contacts are above the threshold, the average of   *)
(* their displacements, and which axis has more of them: contacts that     *)
(* move against each other have a sum and no average, so these are         *)
(* independent.                                                            *)
(***************************************************************************)
EXTENDS Integers, Sequences

CONSTANTS Contacts,      \* how many contacts there can be above the threshold
          Averages,      \* average displacements of a tick, on one axis
          SwipeTicks,    \* from 3 and 4: a swipe is older than this, 5 and 30
          RepeatTicks,   \* from 3 and 4: a swipe that is done ends with this, 25 and 70
          Distance,      \* a swipe has gone farther than this, 50
          Bound          \* bounds what the displacements add up to, on one axis

ASSUME SwipeAssumption ==
    /\ Contacts \subseteq Nat /\ Averages \subseteq Int
    /\ SwipeTicks \in [{3, 4} -> Nat] /\ RepeatTicks \in [{3, 4} -> Nat]
    /\ SwipeTicks[3] <= SwipeTicks[4]
    /\ Distance \in Nat /\ Bound \in Nat

VARIABLES x, y,      \* multitaskingx, multitaskingy
          tick,      \* multitaskinggesturetick
          done,      \* multitaskingdone
          input,     \* what the last tick has seen
          typed,     \* the keyboard reports of the last tick
          sinceKey   \* history: ticks since the last key, this one included

swipeVars == <<x, y, tick, done>>
vars == <<swipeVars, input, typed, sinceKey>>

TickBound == 1 + RepeatTicks[3] + RepeatTicks[4] + SwipeTicks[4]
KeyBound == SwipeTicks[4] + 2

Still == [contacts |-> 0, x |-> 0, y |-> 0, vertical |-> FALSE]

Init ==
    /\ x = 0 /\ y = 0 /\ tick = 0 /\ done = FALSE
    /\ input = Still
    /\ typed = <<>>
    /\ sinceKey = KeyBound

Abs(n) == IF n < 0 THEN -n ELSE n
UpTo(limit, n) == IF n > limit THEN limit ELSE n

NoKey == [shift |-> 0, key |-> 0]
Control == 1
Gui == 8

\* Of three contacts control and an arrow, of four control-F11, command-W, F11
\* and command-Q; the sign is that of the distance gone.
KeyOf(n, vertical, gone) ==
    CASE n = 3 /\ vertical  -> [shift |-> Control, key |-> IF gone < 0 THEN 82 ELSE 81]
      [] n = 3 /\ ~vertical -> [shift |-> Control, key |-> IF gone > 0 THEN 80 ELSE 79]
      [] n = 4 /\ vertical  -> IF gone < 0 THEN [shift |-> Control, key |-> 68]
                                           ELSE [shift |-> Gui, key |-> 26]
      [] OTHER              -> IF gone > 0 THEN [shift |-> 0, key |-> 68]
                                           ELSE [shift |-> Gui, key |-> 20]

Pressed(key) == <<key, NoKey>>

-----------------------------------------------------------------------------
(* ProcessThreeFingerSwipe and ProcessFourFingerSwipe                       *)

Inputs == {[contacts |-> n, x |-> dx, y |-> dy, vertical |-> v] :
              n \in Contacts, dx \in Averages, dy \in Averages, v \in BOOLEAN}

Swiping(in) == in.contacts \in {3, 4}
GoneX(in) == x + in.x
GoneY(in) == y + in.y
Gone(in) == IF in.vertical THEN GoneY(in) ELSE GoneX(in)
NextTick == UpTo(TickBound, tick + 1)

\* Mutant: a swipe that is done can type again.
MatureAgain(in) == NextTick > SwipeTicks[in.contacts]

Mature(in) == NextTick > SwipeTicks[in.contacts] /\ ~done

\* Mutant: a swipe ends in time, done or not.
ExpiredAnyway(in) == NextTick > RepeatTicks[in.contacts] /\ Abs(Gone(in)) <= Distance

\* A swipe that has not been done never ends while its contacts stay.
Expired(in) == ~Mature(in) /\ NextTick > RepeatTicks[in.contacts]

Forget == x' = 0 /\ y' = 0 /\ tick' = 0 /\ done' = FALSE

\* The axis is the one that has moved more in this tick, the distance that of
\* the swipe so far.
TypeKey(in) ==
    /\ Swiping(in)
    /\ Mature(in) /\ Abs(Gone(in)) > Distance
    /\ typed' = Pressed(KeyOf(in.contacts, in.vertical, Gone(in)))
    /\ x' = 0 /\ y' = 0 /\ done' = TRUE
    /\ tick' = NextTick

Repeat(in) ==
    /\ Swiping(in)
    /\ Expired(in)
    /\ Forget
    /\ typed' = <<>>

Gather(in) ==
    /\ Swiping(in)
    /\ ~Expired(in) /\ ~(Mature(in) /\ Abs(Gone(in)) > Distance)
    /\ Abs(GoneX(in)) <= Bound /\ Abs(GoneY(in)) <= Bound
    /\ x' = GoneX(in) /\ y' = GoneY(in)
    /\ tick' = NextTick
    /\ typed' = <<>>
    /\ UNCHANGED done

\* Fewer contacts, or more, break a swipe off.
Break(in) ==
    /\ ~Swiping(in)
    /\ Forget
    /\ typed' = <<>>

Tick(in) ==
    /\ TypeKey(in) \/ Repeat(in) \/ Gather(in) \/ Break(in)
    /\ input' = in
    /\ sinceKey' = IF typed # <<>> THEN 1 ELSE UpTo(KeyBound, sinceKey + 1)

Next == \E in \in Inputs : Tick(in)

Spec == Init /\ [][Next]_vars

\* The timer fires every 5 ms.
FairSpec == Spec /\ WF_vars(Next)

-----------------------------------------------------------------------------
(* Properties                                                               *)

\* The fields keep their types; a key goes up in the tick it goes down in.
TypeOK ==
    /\ x \in -Bound..Bound /\ y \in -Bound..Bound
    /\ tick \in 0..TickBound
    /\ done \in BOOLEAN
    /\ input \in Inputs \cup {Still}
    /\ typed = <<>> \/ typed[Len(typed)] = NoKey
    /\ sinceKey \in 1..KeyBound

\* A swipe types one key.  Contacts come and leave one by one, so that three
\* become four and four three within a swipe, which count on together: still
\* there are as many ticks between a key and the one before as a swipe of that
\* many contacts needs, and one more.
KeysApart ==
    [][typed' # <<>> => sinceKey' >= SwipeTicks[input'.contacts] + 2]_vars

\* Contacts that go on in one direction, however slowly, type their key again
\* and again.
SteadySwipeTypes ==
    \A n \in {3, 4} :
        <>[](input.contacts = n /\ input.x > 0 /\ ~input.vertical)
            => []<>(typed # <<>>)

=============================================================================
