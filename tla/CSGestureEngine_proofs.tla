------------------------ MODULE CSGestureEngine_proofs ------------------------
(***************************************************************************)
(* For any set of fingers and any thresholds: a button that is down has a  *)
(* cause that can end it, no button is handed over without having been up, *)
(* no gesture outlives its contacts by more than a tick or, of a scroll,   *)
(* its grace, what ends a scroll is no tap, and once all contacts have     *)
(* left every tick is a step to rest.                                      *)
(*                                                                         *)
(*    Mouse (in MouseNext): what the chain Clicked, Joined, ClearTapDrag,  *)
(*    Tapped makes of the button        ->  ButtonOwned, NoHandOver        *)
(*    GestureInv, AgedWasThere          ->  GestureOwned                   *)
(*    AgedWasThere                      ->  ScrollNeverTaps                *)
(*    all of them                       ->  NoIdleTick                     *)
(***************************************************************************)
EXTENDS CSGestureEngine, FiniteSetTheorems, WellFoundedInduction, TLAPS

USE EngineAssumption DEF vars, inputVars

Mice == [down : BOOLEAN, mask : 0..3, tap : BOOLEAN, finger : Fingers \cup {None},
         since : 0..(TapTicks + 1)]

\* Of a mouse alone: the parts of ButtonOwned that speak of no contact, and
\* that the time since the last click stands still under the clickpad.
Sound(m) ==
    /\ m \in Mice
    /\ m.down <=> m.mask # 0
    /\ m.tap => m.down
    /\ m.down /\ ~m.tap => m.since = 0

Dragging(m) == m.tap /\ m.finger # None

InputInv ==
    /\ down \subseteq Fingers /\ last \subseteq Fingers
    /\ buttondown \in BOOLEAN
    /\ settings \in [tapToClick : BOOLEAN, multiFingerTap : BOOLEAN, tapDrag : BOOLEAN]

MouseInv ==
    /\ Sound(mouse)
    /\ Dragging(mouse) => mouse.finger \in last

GestureInv ==
    /\ panning \in Fingers \cup {None}
    /\ blacklisted \subseteq Fingers
    /\ scrollIds \subseteq Fingers
    /\ GestureOwners

-----------------------------------------------------------------------------
(* Helpers.                                                                 *)

LEMMA LeastIn ==
    ASSUME NEW S \in SUBSET Nat, S # {}
    PROVE  Least(S) \in S /\ \A j \in S : Least(S) <= j
<1>1. \E i \in S : \A j \in S : ~ (<<j, i>> \in OpToRel(<, Nat))
  BY NatLessThanWellFounded, WFMin
<1>2. PICK i \in S : \A j \in S : ~ (<<j, i>> \in OpToRel(<, Nat))
  BY <1>1
<1>3. \A j \in S : ~ (j < i)
  <2>1. ASSUME NEW j \in Nat, NEW k \in Nat, j < k PROVE <<j, k>> \in OpToRel(<, Nat)
    BY <2>1, Zenon DEF OpToRel
  <2>2. QED
    BY <1>2, <2>1
<1>4. \A j \in S : i <= j
  BY <1>3
<1>5. QED
  BY <1>4 DEF Least

LEMMA Counted ==
    ASSUME NEW S \in SUBSET Fingers
    PROVE  Cardinality(S) \in Nat /\ (S # {} => Cardinality(S) >= 1)
<1>1. IsFiniteSet(S)
  BY FS_Subset
<1>2. Cardinality(S) \in Nat
  BY <1>1, FS_CardinalityType
<1>3. S # {} => Cardinality(S) # 0
  BY <1>1, FS_EmptySet
<1>4. QED
  BY <1>2, <1>3

LEMMA TapAndGrace == TapTicks \in Nat /\ GraceTicks \in Nat
OBVIOUS

LEMMA NoneIsNoFinger == None \notin Fingers
BY DEF None

\* A press is of one of the three buttons.
LEMMA ButtonType ==
    ASSUME InputInv, NEW use \in SUBSET Fingers, NEW pan, NEW button \in Buttons(use, pan)
    PROVE  button \in 1..3
<1>1. RecentlyAdded \in Nat
  BY Counted DEF RecentlyAdded
<1>2. Cardinality(use) \in Nat /\ (use # {} => Cardinality(use) >= 1)
  BY Counted
<1>3. Cardinality(down) \in Nat /\ (down # {} => Cardinality(down) >= 1)
  BY Counted DEF InputInv
<1>4. QED
  BY <1>1, <1>2, <1>3 DEF Buttons, UpTo

LEMMA TapMaskType == TapMask \in 0..3
BY DEF TapMask

LEMMA SinceType ==
    ASSUME NEW m \in Mice
    PROVE  /\ SinceClick(m) \in 0..(TapTicks + 1)
           /\ m.since = 0 => SinceClick(m) <= TapTicks
           /\ m.down /\ ~m.tap => SinceClick(m) = 0
BY DEF SinceClick, UpTo, Mice

-----------------------------------------------------------------------------
(* The steps of a tick that touch the mouse.                                *)

\* The clickpad: a press or a release changes nothing under a tap.
LEMMA AfterClicked ==
    ASSUME NEW m, Sound(m), NEW button \in 1..3, buttondown \in BOOLEAN
    PROVE  /\ Sound(Clicked(m, button))
           /\ Clicked(m, button).tap = m.tap
           /\ Clicked(m, button).finger = m.finger
           /\ m.tap => Clicked(m, button) = m
           /\ m.down /\ Clicked(m, button).down => Clicked(m, button) = m
           /\ m.down /\ ~m.tap => Clicked(m, button).since = 0
<1>1. CASE m.tap \/ (buttondown = m.down)
  <2>1. Clicked(m, button) = m
    BY <1>1 DEF Clicked, Sound, Mice
  <2>2. QED
    BY <2>1 DEF Sound
<1>2. CASE ~m.tap /\ buttondown /\ ~m.down
  BY <1>2 DEF Clicked, Press, Sound, Mice
<1>3. CASE ~m.tap /\ ~buttondown /\ m.down
  BY <1>3 DEF Clicked, Raise, Sound, Mice
<1>4. QED
  BY <1>1, <1>2, <1>3 DEF Sound, Mice

\* A contact that joins a tap is down.
LEMMA AfterJoined ==
    ASSUME InputInv, NEW m, Sound(m)
    PROVE  /\ Sound(Joined(m))
           /\ \/ Joined(m) = m
              \/ /\ m.tap /\ m.finger = None
                 /\ Joined(m) = [m EXCEPT !.finger = Joined(m).finger]
                 /\ Joined(m).finger \in down
<1>1. CASE m.tap /\ m.finger = None /\ settings.tapDrag /\ Draggers # {}
  <2>1. Draggers \in SUBSET Nat /\ Draggers \subseteq down
    BY DEF Draggers, InputInv
  <2>2. Least(Draggers) \in down
    BY <1>1, <2>1, LeastIn
  <2>3. Joined(m) = [m EXCEPT !.finger = Least(Draggers)]
    BY <1>1 DEF Joined
  <2>4. Joined(m).finger = Least(Draggers)
    BY <2>3 DEF Sound, Mice
  <2>5. Sound(Joined(m))
    BY <2>2, <2>3 DEF Sound, Mice, InputInv
  <2>6. QED
    BY <1>1, <2>2, <2>3, <2>4, <2>5
<1>2. CASE ~(m.tap /\ m.finger = None /\ settings.tapDrag /\ Draggers # {})
  BY <1>2 DEF Joined
<1>3. QED
  BY <1>1, <1>2

\* A drag whose contact has left is over; one that goes on has its contact.
LEMMA AfterClearTapDrag ==
    ASSUME NEW m, Sound(m)
    PROVE  /\ Sound(ClearTapDrag(m))
           /\ Dragging(ClearTapDrag(m)) => ClearTapDrag(m).finger \in down
           /\ \/ ClearTapDrag(m) = m
              \/ /\ Dragging(m) /\ ~ClearTapDrag(m).down
                 /\ ClearTapDrag(m).since = m.since
<1>1. CASE DragEnds(m)
  <2>1. ClearTapDrag(m) = [Released EXCEPT !.since = m.since]
    BY <1>1 DEF ClearTapDrag
  <2>2. ClearTapDrag(m) = [down |-> FALSE, mask |-> 0, tap |-> FALSE, finger |-> None,
                           since |-> m.since]
    BY <2>1 DEF Released
  <2>3. Sound(ClearTapDrag(m)) /\ ~ClearTapDrag(m).tap /\ ~ClearTapDrag(m).down
    BY <2>2 DEF Sound, Mice
  <2>4. QED
    BY <1>1, <2>2, <2>3 DEF Dragging, DragEnds
<1>2. CASE ~DragEnds(m)
  BY <1>2 DEF ClearTapDrag, DragEnds, Dragging
<1>3. QED
  BY <1>1, <1>2

\* A tap's button that times out is up, a new one is no drag yet, and neither
\* follows a click within the same tick.
LEMMA AfterTapped ==
    ASSUME InputInv, NEW m, Sound(m), NEW handledByScroll \in BOOLEAN,
           NEW gliding \in BOOLEAN
    PROVE  LET n == Tapped(m, handledByScroll, gliding)
           IN  /\ Sound(n)
               /\ Dragging(n) => Dragging(m) /\ n.finger = m.finger
               /\ m.down /\ n.down => n.mask = m.mask /\ n.tap = m.tap /\ n.finger = m.finger
               /\ ~m.down /\ m.since = 0 => ~n.down
<1> DEFINE t == [m EXCEPT !.since = SinceClick(m)]
           n == Tapped(m, handledByScroll, gliding)
<1>1. /\ t.down = m.down /\ t.mask = m.mask /\ t.tap = m.tap /\ t.finger = m.finger
      /\ t.since = SinceClick(m)
      /\ Sound(t)
  BY SinceType DEF Sound, Mice
<1>2. CASE n = m \/ n = t
  BY <1>1, <1>2 DEF Dragging, Sound
<1>3. CASE m.tap /\ m.finger = None /\ n = [Released EXCEPT !.since = t.since]
  <2>1. n = [down |-> FALSE, mask |-> 0, tap |-> FALSE, finger |-> None, since |-> t.since]
    BY <1>3 DEF Released
  <2>2. t.since \in 0..(TapTicks + 1)
    BY <1>1 DEF Sound, Mice
  <2>3. Sound(n) /\ ~n.down /\ ~n.tap
    BY <2>1, <2>2 DEF Sound, Mice
  <2>4. m.down
    BY <1>3 DEF Sound
  <2>5. QED
    BY <2>3, <2>4 DEF Dragging
<1>4. CASE /\ ~m.down /\ TapMask # 0 /\ t.since > TapTicks
           /\ n = [down |-> TRUE, mask |-> TapMask, tap |-> TRUE, finger |-> None, since |-> 0]
  <2>1. TapMask \in 0..3 /\ TapMask # 0
    BY <1>4, TapMaskType
  <2>2. Sound(n) /\ n.down /\ ~Dragging(n)
    BY <1>4, <2>1 DEF Sound, Mice, Dragging
  <2>3. m.since # 0
    BY <1>1, <1>4, SinceType DEF Sound
  <2>4. QED
    BY <1>4, <2>2, <2>3
<1>5. QED
  BY <1>2, <1>3, <1>4 DEF Tapped, TapToClickOrDrag

-----------------------------------------------------------------------------
(* A tick.                                                                  *)

\* How a tick changes the mouse, whatever the gesture.
MouseStep ==
    \E button \in 1..3, handledByScroll \in BOOLEAN, gliding \in BOOLEAN :
        mouse' = Tapped(ClearTapDrag(Joined(Clicked(mouse, button))), handledByScroll, gliding)

LEMMA EndTickMouse ==
    ASSUME InputInv, NEW use \in SUBSET Fingers, NEW pan, NEW palms,
           NEW handledByScroll \in BOOLEAN, NEW scrolls,
           EndTick(use, pan, palms, handledByScroll, scrolls)
    PROVE  /\ MouseStep
           /\ last' = down
           /\ UNCHANGED <<down, buttondown, settings>>
           /\ panning' = IF pan \in down THEN pan ELSE None
           /\ blacklisted' = palms \cap down
<1>1. PICK button \in Buttons(use, pan) :
          LET pressed == Clicked(mouse, button)
              after == IF pressed.down /\ ~mouse.down /\ scrolls = "scrolling"
                       THEN "rest" ELSE scrolls
          IN  mouse' = Tapped(ClearTapDrag(Joined(pressed)), handledByScroll,
                              after = "scrolling")
  BY DEF EndTick
<1>2. button \in 1..3
  BY ButtonType
<1>3. MouseStep
  BY <1>1, <1>2 DEF MouseStep
<1>4. QED
  BY <1>3 DEF EndTick

LEMMA UseType == \A use \in AboveThreshold : use \subseteq Known /\ Known \subseteq Fingers
BY DEF AboveThreshold, Known

\* A tick changes the mouse in this way, and the inputs not at all.
LEMMA TickMouse ==
    ASSUME InputInv, Tick
    PROVE  MouseStep /\ last' = down /\ UNCHANGED <<down, buttondown, settings>>
<1>1. PICK use \in AboveThreshold :
          ProcessScroll(use) \/ ProcessMove(use) \/ SwipeOrRest(use)
  BY DEF Tick
<1>2. use \in SUBSET Fingers
  BY UseType
<1>3. \E pan, palms, scrolls : \E handledByScroll \in BOOLEAN :
          EndTick(use, pan, palms, handledByScroll, scrolls)
  <2>1. CASE ProcessScroll(use)
    BY <2>1 DEF ProcessScroll
  <2>2. CASE ProcessMove(use)
    BY <2>2 DEF ProcessMove
  <2>3. CASE SwipeOrRest(use)
    BY <2>3 DEF SwipeOrRest
  <2>4. QED
    BY <1>1, <2>1, <2>2, <2>3
<1>4. QED
  BY <1>2, <1>3, EndTickMouse

\* What the whole chain makes of a mouse.
LEMMA MouseChain ==
    ASSUME InputInv, MouseInv, MouseStep
    PROVE  /\ Sound(mouse')
           /\ Dragging(mouse') => mouse'.finger \in down
           /\ TapsStayedOn /\ mouse.down /\ mouse'.down =>
                /\ mouse'.mask = mouse.mask /\ mouse'.tap = mouse.tap
                /\ mouse'.finger = mouse.finger \/ mouse.finger = None
<1>1. PICK button \in 1..3, handledByScroll \in BOOLEAN, gliding \in BOOLEAN :
          mouse' = Tapped(ClearTapDrag(Joined(Clicked(mouse, button))), handledByScroll, gliding)
  BY DEF MouseStep
<1> DEFINE pressed == Clicked(mouse, button)
           joined  == Joined(pressed)
           cleared == ClearTapDrag(joined)
<1>2. Sound(mouse) /\ buttondown \in BOOLEAN
  BY DEF MouseInv, InputInv
<1>3. /\ Sound(pressed) /\ pressed.tap = mouse.tap /\ pressed.finger = mouse.finger
      /\ mouse.tap => pressed = mouse
      /\ mouse.down /\ pressed.down => pressed = mouse
      /\ mouse.down /\ ~mouse.tap => pressed.since = 0
  BY <1>2, AfterClicked
<1>4. /\ Sound(joined)
      /\ \/ joined = pressed
         \/ /\ pressed.tap /\ pressed.finger = None
            /\ joined = [pressed EXCEPT !.finger = joined.finger]
            /\ joined.finger \in down
  BY <1>3, AfterJoined
<1>5. /\ Sound(cleared)
      /\ Dragging(cleared) => cleared.finger \in down
      /\ \/ cleared = joined
         \/ Dragging(joined) /\ ~cleared.down /\ cleared.since = joined.since
  BY <1>4, AfterClearTapDrag
<1>6. /\ Sound(mouse')
      /\ Dragging(mouse') => Dragging(cleared) /\ mouse'.finger = cleared.finger
      /\ cleared.down /\ mouse'.down =>
            mouse'.mask = cleared.mask /\ mouse'.tap = cleared.tap
               /\ mouse'.finger = cleared.finger
      /\ ~cleared.down /\ cleared.since = 0 => ~mouse'.down
  BY <1>1, <1>5, AfterTapped
<1>7. ASSUME TapsStayedOn, mouse.down, mouse'.down
      PROVE  /\ mouse'.mask = mouse.mask /\ mouse'.tap = mouse.tap
             /\ mouse'.finger = mouse.finger \/ mouse.finger = None
  <2>1. CASE ~mouse.tap
    <3>1. joined = pressed /\ cleared = pressed
      BY <1>3, <1>4, <1>5, <2>1 DEF Dragging
    <3>2. pressed = mouse
      BY <1>3, <1>6, <1>7, <2>1, <3>1
    <3>3. QED
      BY <1>6, <1>7, <2>1, <3>1, <3>2
  <2>2. CASE mouse.tap /\ mouse.finger = None
    <3>1. pressed = mouse
      BY <1>3, <2>2
    <3>2. /\ joined.mask = mouse.mask /\ joined.tap = mouse.tap /\ joined.down = mouse.down
          /\ Dragging(joined) => joined.finger \in down
      BY <1>2, <1>4, <2>2, <3>1 DEF Sound, Mice, Dragging
    <3>3. cleared = joined
      BY <3>2 DEF ClearTapDrag, DragEnds, Dragging
    <3>4. QED
      BY <1>6, <1>7, <2>2, <3>2, <3>3
  <2>3. CASE mouse.tap /\ mouse.finger # None
    <3>1. joined = mouse /\ mouse.since = 0
      BY <1>3, <1>4, <1>7, <2>3 DEF TapsStayedOn
    <3>2. cleared = mouse
      BY <1>5, <1>6, <1>7, <3>1
    <3>3. QED
      BY <1>6, <1>7, <2>3, <3>2
  <2>4. QED
    BY <2>1, <2>2, <2>3
<1>8. QED
  BY <1>5, <1>6, <1>7

-----------------------------------------------------------------------------
(* The invariants.                                                          *)

MInv == InputInv /\ MouseInv

LEMMA MouseInit == Init => MInv
<1> SUFFICES ASSUME Init PROVE MInv
  OBVIOUS
<1>1. mouse = [down |-> FALSE, mask |-> 0, tap |-> FALSE,
               finger |-> IF 0 \in Fingers THEN 0 ELSE None, since |-> 0]
  BY DEF Init, Released
<1>2. MouseInv
  BY <1>1 DEF MouseInv, Sound, Mice, Dragging
<1>3. QED
  BY <1>2 DEF Init, MInv, InputInv

LEMMA MouseNext == MInv /\ [Next]_vars => MInv'
<1> SUFFICES ASSUME InputInv, MouseInv, [Next]_vars PROVE MInv'
  BY DEF MInv
<1>1. CASE Report
  BY <1>1 DEF Report, MInv, InputInv, MouseInv, Dragging, Sound, Mice
<1>2. CASE SetParamProperties
  BY <1>2 DEF SetParamProperties, MInv, InputInv, MouseInv, Dragging, Sound, Mice
<1>3. CASE ScrollTimer \/ UNCHANGED vars
  BY <1>3 DEF ScrollTimer, MInv, InputInv, MouseInv, Dragging, Sound, Mice
<1>4. CASE Tick
  <2>1. InputInv'
    BY <1>4, TickMouse DEF InputInv
  <2>2. Sound(mouse') /\ (Dragging(mouse') => mouse'.finger \in last')
    BY <1>4, TickMouse, MouseChain
  <2>3. MouseInv'
    BY <2>2 DEF MouseInv, Sound, Dragging, Mice
  <2>4. QED
    BY <2>1, <2>3 DEF MInv
<1>5. QED
  BY <1>1, <1>2, <1>3, <1>4 DEF Next

LEMMA MouseCorrect == Spec => []MInv
BY MouseInit, MouseNext, PTL DEF Spec

\* A button that is down has a cause that can end it.
THEOREM ButtonOwnedCorrect == Spec => []ButtonOwned
<1>1. MInv => ButtonOwned
  BY DEF MInv, MouseInv, Sound, Dragging, ButtonOwned
<1>2. QED
  BY <1>1, MouseCorrect, PTL

\* No button is handed over, or turned into another, without having been up.
THEOREM NoHandOverCorrect == Spec => NoHandOver
<1>1. MInv /\ [Next]_vars =>
          [TapsStayedOn /\ mouse.down /\ mouse'.down =>
              /\ mouse'.mask = mouse.mask /\ mouse'.tap = mouse.tap
              /\ mouse'.finger = mouse.finger \/ mouse.finger = None]_vars
  <2> SUFFICES ASSUME InputInv, MouseInv, Next, TapsStayedOn, mouse.down, mouse'.down
               PROVE  /\ mouse'.mask = mouse.mask /\ mouse'.tap = mouse.tap
                      /\ mouse'.finger = mouse.finger \/ mouse.finger = None
    BY DEF MInv
  <2>1. CASE Tick
    BY <2>1, TickMouse, MouseChain
  <2>2. CASE Report \/ SetParamProperties \/ ScrollTimer
    BY <2>2 DEF Report, SetParamProperties, ScrollTimer
  <2>3. QED
    BY <2>1, <2>2 DEF Next
<1>2. QED
  BY <1>1, MouseCorrect, PTL DEF Spec, NoHandOver

-----------------------------------------------------------------------------
(* Gestures belong to contacts that are there.                              *)

\* What a gesture hands to the end of a tick: a contact that moves the pointer
\* is no palm.
LEMMA EndTickGesture ==
    ASSUME InputInv, NEW use \in SUBSET Fingers, NEW pan \in Fingers \cup {None},
           NEW palms \in SUBSET Fingers, NEW handledByScroll \in BOOLEAN, NEW scrolls,
           EndTick(use, pan, palms, handledByScroll, scrolls), pan # None => pan \notin palms
    PROVE  /\ panning' \in Fingers \cup {None}
           /\ blacklisted' \subseteq Fingers
           /\ panning' # None => panning' \in last' \ blacklisted'
<1>1. /\ last' = down
      /\ panning' = IF pan \in down THEN pan ELSE None
      /\ blacklisted' = palms \cap down
  BY DEF EndTick
<1>2. QED
  BY <1>1

LEMMA GestureInit == Init => GestureInv
BY DEF Init, GestureInv, GestureOwners

LEMMA GestureTick ==
    ASSUME InputInv, GestureInv, Tick
    PROVE  GestureInv'
<1>1. PICK use \in AboveThreshold :
          ProcessScroll(use) \/ ProcessMove(use) \/ SwipeOrRest(use)
  BY DEF Tick
<1>2. use \in SUBSET Fingers /\ use \cap blacklisted = {}
  BY DEF AboveThreshold, Known
<1>3. panning # None => panning \notin blacklisted
  BY DEF GestureInv, GestureOwners
<1>4. CASE SwipeOrRest(use)
  <2>1. \E scrolls : EndTick(use, panning, blacklisted, FALSE, scrolls)
    BY <1>4 DEF SwipeOrRest
  <2>2. UNCHANGED <<scrollIds, sinceScrolling>>
    BY <1>4 DEF SwipeOrRest
  <2>3. QED
    BY <1>2, <1>3, <2>1, <2>2, EndTickGesture DEF GestureInv, GestureOwners
<1>5. CASE ProcessScroll(use)
  <2>1. \E scrolls : EndTick(use, panning, blacklisted, TRUE, scrolls)
    BY <1>5 DEF ProcessScroll
  <2>2. PICK goesOn \in BOOLEAN :
            /\ scrollIds' = NextScrollIds(use, goesOn)
            /\ goesOn => sinceScrolling' <= GraceTicks
    <3>1. 0 <= GraceTicks
      BY TapAndGrace
    <3>2. QED
      BY <1>5, <3>1 DEF ProcessScroll
  <2>3. scrollIds # {} \/ Cardinality(use) = 2
    BY <1>5 DEF ProcessScroll, CanScroll
  <2>4. /\ scrollIds' \subseteq Fingers
        /\ scrollIds' # {} => Cardinality(scrollIds') = 2 /\ sinceScrolling' <= GraceTicks
    BY <1>2, <2>2, <2>3 DEF NextScrollIds, GestureInv, GestureOwners
  <2>5. QED
    BY <1>2, <1>3, <2>1, <2>4, EndTickGesture DEF GestureInv, GestureOwners
<1>6. CASE ProcessMove(use)
  <2> DEFINE i == IF use = {} THEN panning ELSE Least(use)
  <2>1. PICK palms \in SUBSET Older(i) :
            EndTick(use, i, blacklisted \cup palms, FALSE, "rest")
    BY <1>6 DEF ProcessMove
  <2>2. i \in Fingers \cup {None} /\ (i # None => i \notin blacklisted)
    BY <1>2, <1>3, LeastIn DEF GestureInv
  <2>3. palms \subseteq Fingers /\ i \notin palms
    BY DEF Older, InputInv
  <2>4. /\ panning' \in Fingers \cup {None}
        /\ blacklisted' \subseteq Fingers
        /\ panning' # None => panning' \in last' \ blacklisted'
    BY <1>2, <2>1, <2>2, <2>3, EndTickGesture DEF GestureInv
  <2>5. UNCHANGED <<scrollIds, sinceScrolling>>
    BY <1>6 DEF ProcessMove
  <2>6. QED
    BY <2>4, <2>5 DEF GestureInv, GestureOwners
<1>7. QED
  BY <1>1, <1>4, <1>5, <1>6

LEMMA GestureNext == InputInv /\ GestureInv /\ [Next]_vars => GestureInv'
<1>1. Report \/ SetParamProperties \/ ScrollTimer \/ UNCHANGED vars
          => UNCHANGED <<panning, blacklisted, scrollIds, sinceScrolling, last>>
  BY DEF Report, SetParamProperties, ScrollTimer
<1>2. GestureInv /\ UNCHANGED <<panning, blacklisted, scrollIds, sinceScrolling, last>> => GestureInv'
  BY DEF GestureInv, GestureOwners
<1>3. QED
  BY <1>1, <1>2, GestureTick DEF Next

\* The pointer's contact was there at the last tick, a scroll has a pair of
\* indices and is within its grace.
LEMMA GestureOwnersCorrect == Spec => []GestureOwners
<1>1. MInv => InputInv
  BY DEF MInv
<1>2. GestureInv => GestureOwners
  BY DEF GestureInv
<1>3. QED
  BY <1>1, <1>2, GestureInit, GestureNext, MouseCorrect, PTL DEF Spec

-----------------------------------------------------------------------------
(* The other fields.                                                        *)

Scrollers == {"rest", "scrolling", "backwards"}

CountInv ==
    /\ truetick \in [Fingers -> 0..AgeBound]
    /\ sinceScrolling \in 0..(GraceTicks + 1) /\ sinceRelease \in 0..TapTicks
    /\ inertia \in BOOLEAN /\ scroller \in Scrollers
    /\ sent \in Seq(0..3)

LEMMA Capped ==
    ASSUME NEW limit \in Nat, NEW n \in Nat
    PROVE  UpTo(limit, n) \in 0..limit
BY DEF UpTo

LEMMA CountInit == Init => CountInv
<1>1. <<0>> \in Seq(0..3)
  OBVIOUS
<1>2. 0 \in 0..AgeBound /\ 0 \in 0..(GraceTicks + 1) /\ 0 \in 0..TapTicks
  OBVIOUS
<1>3. QED
  BY <1>1, <1>2 DEF Init, CountInv, Scrollers

\* The masks of the drag that ends and of the mouse are masks.
LEMMA SentType ==
    ASSUME InputInv, MouseInv, NEW button \in 1..3, Sound(mouse')
    PROVE  \A told \in BOOLEAN :
               (IF told THEN <<0, Joined(Clicked(mouse, button)).mask>> ELSE <<>>)
                   \o <<mouse'.mask>> \in Seq(0..3)
<1>1. Sound(Joined(Clicked(mouse, button)))
  BY AfterClicked, AfterJoined DEF MouseInv, InputInv
<1>2. Joined(Clicked(mouse, button)).mask \in 0..3 /\ mouse'.mask \in 0..3
  BY <1>1 DEF Sound, Mice
<1>3. \A m, n \in 0..3 : <<0, m>> \o <<n>> \in Seq(0..3) /\ <<>> \o <<n>> \in Seq(0..3)
  OBVIOUS
<1>4. QED
  BY <1>2, <1>3

LEMMA EndTickCount ==
    ASSUME InputInv, MouseInv, CountInv, NEW use \in SUBSET Fingers, NEW pan, NEW palms,
           NEW handledByScroll \in BOOLEAN, NEW scrolls \in Scrollers,
           EndTick(use, pan, palms, handledByScroll, scrolls)
    PROVE  /\ truetick' \in [Fingers -> 0..AgeBound]
           /\ sinceRelease' \in 0..TapTicks
           /\ inertia' = inertia
           /\ scroller' \in Scrollers
           /\ sent' \in Seq(0..3)
<1>1. truetick' = Ticked /\ sinceRelease' = NextSinceRelease /\ inertia' = inertia
  BY DEF EndTick
<1>2. Ticked \in [Fingers -> 0..AgeBound]
  <2>1. \A i \in Fingers : truetick[i] + 1 \in Nat /\ AgeBound \in Nat
    BY DEF CountInv
  <2>2. \A i \in Fingers : UpTo(AgeBound, truetick[i] + 1) \in 0..AgeBound
    BY <2>1, Capped
  <2>3. 0 \in 0..AgeBound
    OBVIOUS
  <2>4. QED
    BY <2>2, <2>3 DEF Ticked
<1>3. NextSinceRelease \in 0..TapTicks
  <2>1. sinceRelease + 1 \in Nat /\ TapTicks \in Nat
    BY DEF CountInv
  <2>2. UpTo(TapTicks, sinceRelease + 1) \in 0..TapTicks
    BY <2>1, Capped
  <2>3. QED
    BY <2>1, <2>2 DEF NextSinceRelease
<1>4. scroller' \in Scrollers
  BY DEF EndTick, Scrollers
<1>5. Sound(mouse')
  BY EndTickMouse, MouseChain
<1>6. \E button \in Buttons(use, pan) : \E told \in BOOLEAN :
          sent' = (IF told THEN <<0, Joined(Clicked(mouse, button)).mask>> ELSE <<>>)
                      \o <<mouse'.mask>>
  BY DEF EndTick
<1>7. sent' \in Seq(0..3)
  BY <1>5, <1>6, ButtonType, SentType
<1>8. QED
  BY <1>1, <1>2, <1>3, <1>4, <1>7

LEMMA CountTick ==
    ASSUME InputInv, MouseInv, CountInv, Tick
    PROVE  CountInv'
<1>1. PICK use \in AboveThreshold :
          ProcessScroll(use) \/ ProcessMove(use) \/ SwipeOrRest(use)
  BY DEF Tick
<1>2. use \in SUBSET Fingers
  BY UseType
<1>3. \E pan, palms : \E handledByScroll \in BOOLEAN, scrolls \in Scrollers :
          EndTick(use, pan, palms, handledByScroll, scrolls)
  <2>1. CASE ProcessScroll(use)
    BY <2>1 DEF ProcessScroll, Scrollers
  <2>2. CASE ProcessMove(use)
    BY <2>2 DEF ProcessMove, Scrollers
  <2>3. CASE SwipeOrRest(use)
    BY <2>3 DEF SwipeOrRest, Scrollers, CountInv
  <2>4. QED
    BY <1>1, <2>1, <2>2, <2>3
<1>4. sinceScrolling' \in 0..(GraceTicks + 1)
  <2>1. CASE ProcessScroll(use)
    <3>1. sinceScrolling + 1 \in Nat /\ GraceTicks + 1 \in Nat
      BY DEF CountInv
    <3>2. UpTo(GraceTicks + 1, sinceScrolling + 1) \in 0..(GraceTicks + 1)
      BY <3>1, Capped
    <3>3. QED
      BY <2>1, <3>1, <3>2 DEF ProcessScroll
  <2>2. CASE ProcessMove(use) \/ SwipeOrRest(use)
    BY <2>2 DEF ProcessMove, SwipeOrRest, CountInv
  <2>3. QED
    BY <1>1, <2>1, <2>2
<1>5. QED
  BY <1>2, <1>3, <1>4, EndTickCount DEF CountInv

LEMMA CountNext == MInv /\ CountInv /\ [Next]_vars => CountInv'
<1> SUFFICES ASSUME InputInv, MouseInv, CountInv, [Next]_vars PROVE CountInv'
  BY DEF MInv
<1>1. CASE Report \/ SetParamProperties \/ UNCHANGED vars
  BY <1>1 DEF Report, SetParamProperties, CountInv
<1>2. CASE ScrollTimer
  BY <1>2 DEF ScrollTimer, CountInv, Scrollers
<1>3. QED
  BY <1>1, <1>2, CountTick DEF Next

\* Counters stay in their bounds, contacts among the fingers, masks among those
\* of three buttons.
THEOREM TypeCorrect == Spec => []TypeOK
<1>1. MInv /\ GestureInv /\ CountInv => TypeOK
  BY DEF MInv, InputInv, MouseInv, Sound, Mice, GestureInv, CountInv, Scrollers, TypeOK
<1>2. MInv => InputInv
  BY DEF MInv
<1>3. QED
  BY <1>1, <1>2, GestureInit, GestureNext, CountInit, CountNext, MouseCorrect, PTL DEF Spec

-----------------------------------------------------------------------------
(* Scrolls and taps.                                                        *)

\* A contact with an age was there at the last tick.
AgedWasThere == \A i \in Fingers : truetick[i] # 0 => i \in last

LEMMA AgedInit == Init => AgedWasThere
BY DEF Init, AgedWasThere

LEMMA AgedNext == AgedWasThere /\ [Next]_vars => AgedWasThere'
<1>1. Report \/ SetParamProperties \/ ScrollTimer \/ UNCHANGED vars
          => UNCHANGED <<truetick, last>>
  BY DEF Report, SetParamProperties, ScrollTimer
<1>2. Tick => truetick' = Ticked /\ last' = down
  BY DEF Tick, ProcessScroll, ProcessMove, SwipeOrRest, EndTick
<1>3. QED
  BY <1>1, <1>2 DEF Next, AgedWasThere, Ticked

\* What swipes has been there: no swipe of fewer than three contacts.
LEMMA SwipersWereThere ==
    ASSUME InputInv, AgedWasThere, Cardinality(last) < 3, NEW use \in AboveThreshold
    PROVE  ~IsSwipe(use)
<1>1. use \subseteq last
  BY DEF AboveThreshold, Known, AgedWasThere
<1>2. IsFiniteSet(last)
  BY FS_Subset DEF InputInv
<1>3. Cardinality(use) <= Cardinality(last)
  BY <1>1, <1>2, FS_Subset
<1>4. Cardinality(use) \in Nat /\ Cardinality(last) \in Nat
  BY <1>1, Counted DEF InputInv
<1>5. QED
  BY <1>3, <1>4 DEF IsSwipe

\* A scroll takes the tick.
LEMMA ScrollTakesTick ==
    ASSUME InputInv, AgedWasThere, Cardinality(last) < 3, NEW use \in AboveThreshold,
           scrollIds # {}, ~buttondown, ~mouse.tap,
           ProcessScroll(use) \/ ProcessMove(use) \/ SwipeOrRest(use)
    PROVE  ProcessScroll(use)
<1>1. MustScroll(use)
  BY SwipersWereThere DEF MustScroll, CanScroll
<1>2. QED
  BY <1>1 DEF ProcessMove, CanMove, SwipeOrRest

\* A tick that a scroll takes starts no tap.
LEMMA ScrolledTickKeepsTap ==
    ASSUME InputInv, MouseInv, NEW use \in SUBSET Fingers, NEW pan, NEW palms, NEW scrolls,
           EndTick(use, pan, palms, TRUE, scrolls), ~mouse.tap
    PROVE  ~mouse'.tap
<1>1. PICK button \in Buttons(use, pan) :
          mouse' = ClearTapDrag(Joined(Clicked(mouse, button)))
  BY DEF EndTick, Tapped
<1>2. button \in 1..3
  BY ButtonType
<1>3. ~Clicked(mouse, button).tap
  BY <1>2, AfterClicked DEF MouseInv, InputInv
<1>4. Joined(Clicked(mouse, button)) = Clicked(mouse, button)
  BY <1>3 DEF Joined
<1>5. ClearTapDrag(Clicked(mouse, button)) = Clicked(mouse, button)
  BY <1>3 DEF ClearTapDrag, DragEnds
<1>6. QED
  BY <1>1, <1>3, <1>4, <1>5

\* While the scroll of two contacts goes on, no lift is a tap.
THEOREM ScrollNeverTapsCorrect == Spec => ScrollNeverTaps
<1>1. MInv /\ AgedWasThere /\ [Next]_vars =>
          [scrollIds # {} /\ Cardinality(last) < 3 /\ mouse'.tap
              => mouse.tap \/ buttondown]_vars
  <2> SUFFICES ASSUME InputInv, MouseInv, AgedWasThere, Next, scrollIds # {},
                      Cardinality(last) < 3, ~mouse.tap, ~buttondown
               PROVE  ~mouse'.tap
    BY DEF MInv
  <2>1. CASE Tick
    <3>1. PICK use \in AboveThreshold :
              ProcessScroll(use) \/ ProcessMove(use) \/ SwipeOrRest(use)
      BY <2>1 DEF Tick
    <3>2. ProcessScroll(use)
      BY <3>1, ScrollTakesTick
    <3>3. QED
      BY <3>2, UseType, ScrolledTickKeepsTap DEF ProcessScroll
  <2>2. CASE Report \/ SetParamProperties \/ ScrollTimer
    BY <2>2 DEF Report, SetParamProperties, ScrollTimer
  <2>3. QED
    BY <2>1, <2>2 DEF Next
<1>2. QED
  BY <1>1, MouseCorrect, AgedInit, AgedNext, PTL DEF Spec, ScrollNeverTaps

-----------------------------------------------------------------------------
(* Scrolls and their contacts.                                              *)

\* Two contacts count as two.
LEMMA TwoCount ==
    ASSUME NEW S \in SUBSET Fingers, NEW i \in S, NEW j \in S, i # j
    PROVE  Cardinality(S) >= 2
<1>1. IsFiniteSet(S) /\ IsFiniteSet(S \ {i}) /\ S \ {i} \in SUBSET Fingers
  BY FS_Subset
<1>2. Cardinality(S \ {i}) = Cardinality(S) - 1
  BY <1>1, FS_RemoveElement
<1>3. Cardinality(S \ {i}) >= 1 /\ Cardinality(S \ {i}) \in Nat
  BY <1>1, Counted
<1>4. Cardinality(S) \in Nat
  BY Counted
<1>5. QED
  BY <1>2, <1>3, <1>4

\* A set of two has a member beside any one.
LEMMA AnotherOfTwo ==
    ASSUME NEW S \in SUBSET Fingers, Cardinality(S) >= 2, NEW i
    PROVE  S \ {i} # {}
<1>1. ASSUME S \ {i} = {} PROVE FALSE
  <2>1. Cardinality({i}) = 1 /\ IsFiniteSet({i})
    BY FS_Singleton
  <2>2. Cardinality(S) <= 1
    BY <1>1, <2>1, FS_Subset
  <2>3. QED
    BY <2>2, Counted
<1>2. QED
  BY <1>1

\* The pair that goes on with a scroll is two contacts.
LEMMA PairOfTwo ==
    ASSUME NEW use \in SUBSET Fingers, scrollIds \in SUBSET Fingers,
           Cardinality(scrollIds) = 2
    PROVE  \E i, j \in Pair(use) \cap Fingers : i # j
<1>1. CASE Cardinality(use) = 0
  <2>1. Pair(use) = scrollIds
    BY <1>1 DEF Pair
  <2>2. \A i : scrollIds \ {i} # {}
    BY AnotherOfTwo
  <2>3. PICK i \in scrollIds : TRUE
    BY <2>2
  <2>4. scrollIds \ {i} # {}
    BY <2>2
  <2>5. PICK j \in scrollIds : j # i
    BY <2>4
  <2>6. QED
    BY <2>1, <2>3, <2>5
<1>2. CASE Cardinality(use) = 1
  <2>1. PICK u : use = {u}
    BY <1>2, FS_Subset, FS_Singleton
  <2>2. scrollIds \ use # {} /\ scrollIds # {}
    BY <2>1, AnotherOfTwo
  <2>3. Least(scrollIds) \in scrollIds /\ Least(scrollIds \ use) \in scrollIds \ use
    BY <2>2, LeastIn
  <2> DEFINE v == IF Least(scrollIds) \notin use THEN Least(scrollIds)
                                                 ELSE Least(scrollIds \ use)
  <2>4. Pair(use) = use \cup {v}
    BY <1>2 DEF Pair
  <2>5. v \in Fingers /\ v # u
    BY <2>1, <2>3
  <2> HIDE DEF v
  <2>6. QED
    BY <2>1, <2>4, <2>5
<1>3. CASE Cardinality(use) \notin {0, 1}
  <2>1. Cardinality(use) >= 2
    BY <1>3, Counted
  <2>2. use # {} /\ use \ {Least(use)} # {}
    BY <2>1, AnotherOfTwo
  <2>3. /\ Least(use) \in use
        /\ Least(use \ {Least(use)}) \in use \ {Least(use)}
    BY <2>2, LeastIn
  <2>4. Pair(use) = {Least(use), Least(use \ {Least(use)})}
    BY <1>3 DEF Pair
  <2>5. QED
    BY <2>3, <2>4
<1>4. QED
  BY <1>1, <1>2, <1>3

\* Without two contacts on the pad a scroll that goes on uses up its grace.
LEMMA GraceRuns ==
    ASSUME InputInv, GestureInv, AgedWasThere, CountInv, Tick,
           scrollIds # {}, scrollIds' # {}, Cardinality(down) < 2,
           ~buttondown, ~mouse.tap, Cardinality(last) < 3
    PROVE  sinceScrolling' > sinceScrolling
<1>1. PICK use \in AboveThreshold : ProcessScroll(use)
  BY ScrollTakesTick DEF Tick
<1>2. ~(Pair(use) \subseteq down)
  <2>1. ASSUME Pair(use) \subseteq down PROVE FALSE
    <3>1. PICK i, j \in down : i # j
      BY <2>1, UseType, PairOfTwo DEF GestureInv, GestureOwners
    <3>2. Cardinality(down) >= 2 /\ Cardinality(down) \in Nat
      BY <3>1, TwoCount, Counted DEF InputInv
    <3>3. QED
      BY <3>2
  <2>2. QED
    BY <2>1
<1>3. sinceScrolling' = UpTo(GraceTicks + 1, sinceScrolling + 1)
  BY <1>1, <1>2 DEF ProcessScroll
<1>4. sinceScrolling <= GraceTicks /\ sinceScrolling \in Nat
  BY DEF GestureInv, GestureOwners, CountInv
<1>5. QED
  BY <1>3, <1>4, TapAndGrace DEF UpTo

\* No gesture outlives its contacts: the pointer's index serves for one more tick,
\* a scroll's pair until its grace is over.
THEOREM GestureOwnedCorrect == Spec => GestureOwned
<1>1. MInv /\ GestureInv /\ AgedWasThere /\ CountInv /\ [Next]_vars =>
          [/\ GestureOwners'
           /\ scrollIds # {} /\ scrollIds' # {} /\ Cardinality(down) < 2
                 /\ ~buttondown /\ ~mouse.tap /\ Cardinality(last) < 3 /\ Tick
                    => sinceScrolling' > sinceScrolling]_vars
  <2> SUFFICES ASSUME MInv, GestureInv, AgedWasThere, CountInv, [Next]_vars
               PROVE  /\ GestureOwners'
                      /\ scrollIds # {} /\ scrollIds' # {} /\ Cardinality(down) < 2
                            /\ ~buttondown /\ ~mouse.tap /\ Cardinality(last) < 3 /\ Tick
                               => sinceScrolling' > sinceScrolling
    OBVIOUS
  <2>1. InputInv
    BY DEF MInv
  <2>2. GestureOwners'
    BY <2>1, GestureNext DEF GestureInv
  <2>3. QED
    BY <2>1, <2>2, GraceRuns
<1>2. MInv => InputInv
  BY DEF MInv
<1>3. Spec => [](MInv /\ GestureInv /\ AgedWasThere /\ CountInv)
  BY <1>2, GestureInit, GestureNext, AgedInit, AgedNext, CountInit, CountNext,
     MouseCorrect, PTL DEF Spec
<1>4. QED
  BY <1>1, <1>3, PTL DEF Spec, GestureOwned

-----------------------------------------------------------------------------
(* What ComesToRest rests on.                                               *)

\* All contacts have left, the clickpad is up and taps are on.
Quiet == down = {} /\ ~buttondown /\ settings.tapToClick

AtRest == ~mouse.down /\ panning = None /\ scrollIds = {}

\* The ticks a button and a scroll still last.
ButtonLeft(m) == IF ~m.down THEN 0 ELSE IF m.tap THEN TapTicks + 2 - m.since ELSE 1
ScrollLeft(ids, since) == IF ids = {} THEN 0 ELSE GraceTicks + 2 - since

\* The tick that sees the last contact leave can begin a tap and a scroll.
SeenLeft(contacts) == IF contacts = {} THEN 0 ELSE TapTicks + GraceTicks + 5

Restless == SeenLeft(last) + ButtonLeft(mouse) + ScrollLeft(scrollIds, sinceScrolling)

\* While all is quiet no tick is idle: every one brings the engine nearer to
\* rest, until it is there, and nothing that happens between two ticks takes it
\* away from rest.
NoIdleTick ==
    [][Quiet => /\ Restless' <= Restless
                /\ Tick => Restless' < Restless \/ Restless' = 0]_vars

LEMMA ButtonLeftType ==
    ASSUME NEW m, m.since \in 0..(TapTicks + 1)
    PROVE  /\ ButtonLeft(m) \in Nat /\ ButtonLeft(m) <= TapTicks + 2
           /\ ButtonLeft(m) = 0 <=> ~m.down
BY TapAndGrace DEF ButtonLeft

LEMMA ScrollLeftType ==
    ASSUME NEW ids, NEW since \in 0..(GraceTicks + 1)
    PROVE  /\ ScrollLeft(ids, since) \in Nat /\ ScrollLeft(ids, since) <= GraceTicks + 2
           /\ ScrollLeft(ids, since) = 0 <=> ids = {}
BY TapAndGrace DEF ScrollLeft

\* Of the types, what the counters need.
CountsOK == mouse.since \in 0..(TapTicks + 1) /\ sinceScrolling \in 0..(GraceTicks + 1)

LEMMA TypeCounts == TypeOK => CountsOK
BY DEF TypeOK, CountsOK

LEMMA RestlessType ==
    ASSUME TypeOK, ButtonOwned, GestureOwners
    PROVE  Restless \in Nat /\ (Restless = 0 => AtRest)
<1>1. SeenLeft(last) \in Nat /\ (SeenLeft(last) = 0 => last = {})
  BY TapAndGrace DEF SeenLeft
<1>2. /\ ButtonLeft(mouse) \in Nat
      /\ ButtonLeft(mouse) = 0 => ~mouse.down
  BY TypeCounts, ButtonLeftType DEF CountsOK
<1>3. /\ ScrollLeft(scrollIds, sinceScrolling) \in Nat
      /\ ScrollLeft(scrollIds, sinceScrolling) = 0 => scrollIds = {}
  BY TypeCounts, ScrollLeftType DEF CountsOK
<1>4. Restless \in Nat
  BY <1>1, <1>2, <1>3 DEF Restless
<1>5. ASSUME Restless = 0 PROVE AtRest
  <2>1. last = {} /\ ~mouse.down /\ scrollIds = {}
    <3>1. /\ SeenLeft(last) = 0 /\ ButtonLeft(mouse) = 0
          /\ ScrollLeft(scrollIds, sinceScrolling) = 0
      <4>1. SeenLeft(last) + ButtonLeft(mouse) + ScrollLeft(scrollIds, sinceScrolling) = 0
        BY <1>5 DEF Restless
      <4>2. ASSUME NEW a \in Nat, NEW b \in Nat, NEW c \in Nat, a + b + c = 0
            PROVE  a = 0 /\ b = 0 /\ c = 0
        BY <4>2
      <4>3. QED
        BY <1>1, <1>2, <1>3, <4>1, <4>2
    <3>2. QED
      BY <1>1, <1>2, <1>3, <3>1
  <2>2. panning = None
    BY <2>1 DEF GestureOwners
  <2>3. QED
    BY <2>1, <2>2 DEF AtRest
<1>6. QED
  BY <1>4, <1>5

\* The tick that sees the last contact leave is the only one to do so.
LEMMA LeavingTick ==
    ASSUME CountsOK, CountsOK', Tick, down = {}, last # {}
    PROVE  Restless' < Restless
<1>1. last' = {}
  BY DEF Tick, ProcessScroll, ProcessMove, SwipeOrRest, EndTick
<1>2. /\ ButtonLeft(mouse) \in Nat /\ ScrollLeft(scrollIds, sinceScrolling) \in Nat
  BY ButtonLeftType, ScrollLeftType DEF CountsOK
<1>3. /\ ButtonLeft(mouse') \in Nat /\ ButtonLeft(mouse') <= TapTicks + 2
      /\ ScrollLeft(scrollIds', sinceScrolling') \in Nat
      /\ ScrollLeft(scrollIds', sinceScrolling') <= GraceTicks + 2
  BY ButtonLeftType, ScrollLeftType DEF CountsOK
<1>4. SeenLeft(last') = 0 /\ SeenLeft(last) = TapTicks + GraceTicks + 5
  BY <1>1 DEF SeenLeft
<1>5. QED
  BY <1>2, <1>3, <1>4, TapAndGrace DEF Restless

\* What a tick makes of the button once no contact is there nor was: a tap runs
\* out, the clickpad's button goes up, and none goes down.
LEMMA QuietMouse ==
    ASSUME MInv, Quiet, last = {}, NEW use, NEW pan, NEW palms, NEW handledByScroll \in BOOLEAN,
           NEW scrolls, EndTick(use, pan, palms, handledByScroll, scrolls),
           handledByScroll => ~mouse.tap
    PROVE  ButtonLeft(mouse') < ButtonLeft(mouse) \/ (~mouse.down /\ ~mouse'.down)
<1>1. PICK button \in Buttons(use, pan) :
          \E gliding \in BOOLEAN :
              mouse' = Tapped(ClearTapDrag(Joined(Clicked(mouse, button))),
                              handledByScroll, gliding)
  <2>1. PICK button \in Buttons(use, pan) :
            LET after == IF Clicked(mouse, button).down /\ ~mouse.down /\ scrolls = "scrolling"
                         THEN "rest" ELSE scrolls
            IN  mouse' = Tapped(ClearTapDrag(Joined(Clicked(mouse, button))),
                                handledByScroll, after = "scrolling")
    BY DEF EndTick
  <2>2. QED
    BY <2>1
<1>2. PICK gliding \in BOOLEAN :
          mouse' = Tapped(ClearTapDrag(Joined(Clicked(mouse, button))),
                          handledByScroll, gliding)
  BY <1>1
<1>3. Draggers = {} /\ ~JustReleased
  BY DEF Draggers, JustReleased, Quiet
<1>4. Sound(mouse) /\ (mouse.tap => mouse.finger = None)
  BY DEF MInv, MouseInv, Dragging
<1>5. CASE mouse.tap
  <2>1. Clicked(mouse, button) = mouse
    BY <1>5 DEF Clicked
  <2>2. ClearTapDrag(Joined(mouse)) = mouse
    BY <1>3, <1>4, <1>5 DEF Joined, ClearTapDrag, DragEnds
  <2>3. mouse' = TapToClickOrDrag(mouse, gliding)
    BY <1>2, <1>5, <2>1, <2>2 DEF Tapped
  <2>4. SinceClick(mouse) = UpTo(TapTicks + 1, mouse.since + 1)
    BY <1>4, <1>5 DEF SinceClick
  <2>5. /\ mouse.down /\ mouse.since \in 0..(TapTicks + 1)
    BY <1>4, <1>5 DEF Sound, Mice
  <2>6. CASE SinceClick(mouse) > TapTicks
    <3>1. mouse' = [Released EXCEPT !.since = SinceClick(mouse)]
      BY <1>4, <1>5, <2>3, <2>6 DEF TapToClickOrDrag, Quiet
    <3>2. ~mouse'.down
      BY <3>1 DEF Released
    <3>3. QED
      BY <1>5, <2>5, <3>2 DEF ButtonLeft
  <2>7. CASE ~(SinceClick(mouse) > TapTicks)
    <3>1. mouse' = [mouse EXCEPT !.since = SinceClick(mouse)]
      BY <1>3, <2>3, <2>7 DEF TapToClickOrDrag, Quiet
    <3>2. mouse'.down /\ mouse'.tap /\ mouse'.since = mouse.since + 1
      BY <1>4, <1>5, <2>4, <2>5, <2>7, <3>1 DEF UpTo, Sound, Mice
    <3>3. QED
      BY <1>5, <2>5, <3>2 DEF ButtonLeft
  <2>8. QED
    BY <2>6, <2>7
<1>6. CASE ~mouse.tap
  <2> DEFINE m == Clicked(mouse, button)
  <2>1. ~m.down /\ ~m.tap
    BY <1>4, <1>6 DEF Clicked, Raise, Quiet, Sound, Mice
  <2> HIDE DEF m
  <2>2. ClearTapDrag(Joined(m)) = m
    BY <2>1 DEF Joined, ClearTapDrag, DragEnds
  <2>3. mouse' = Tapped(m, handledByScroll, gliding)
    BY <1>2, <2>2 DEF m
  <2>4. mouse' = m \/ mouse' = [m EXCEPT !.since = SinceClick(m)]
    BY <1>3, <2>1, <2>3 DEF Tapped, TapToClickOrDrag
  <2>5. ~mouse'.down
    <3>1. m \in Mice
      BY <1>4 DEF m, Clicked, Raise, Quiet, Sound, Mice
    <3>2. QED
      BY <2>1, <2>4, <3>1 DEF Mice
  <2>6. CASE mouse.down
    BY <1>6, <2>5, <2>6 DEF ButtonLeft
  <2>7. QED
    BY <2>5, <2>6
<1>7. QED
  BY <1>5, <1>6

\* A scroll without contacts comes to the end of its grace.
LEMMA QuietScroll ==
    ASSUME CountsOK, Quiet, GestureInv, NEW use, use = {}, ProcessScroll(use), scrollIds # {}
    PROVE  ScrollLeft(scrollIds', sinceScrolling') < ScrollLeft(scrollIds, sinceScrolling)
<1>1. Cardinality(use) = 0
  BY FS_EmptySet
<1>2. ~(Pair(use) \subseteq down)
  BY <1>1 DEF Pair, Quiet
<1>3. /\ sinceScrolling' = UpTo(GraceTicks + 1, sinceScrolling + 1)
      /\ scrollIds' = NextScrollIds(use, sinceScrolling' <= GraceTicks)
  BY <1>2 DEF ProcessScroll
<1>4. CASE sinceScrolling' <= GraceTicks
  <2>1. sinceScrolling' = sinceScrolling + 1
    BY <1>3, <1>4, TapAndGrace DEF UpTo, CountsOK
  <2>2. scrollIds' = scrollIds
    BY <1>1, <1>3, <1>4 DEF NextScrollIds
  <2>3. QED
    BY <2>1, <2>2, TapAndGrace DEF ScrollLeft, CountsOK
<1>5. CASE ~(sinceScrolling' <= GraceTicks)
  <2>1. scrollIds' = {}
    BY <1>3, <1>5 DEF NextScrollIds
  <2>2. QED
    BY <2>1, TapAndGrace DEF ScrollLeft, CountsOK
<1>6. QED
  BY <1>4, <1>5

\* A tick once no contact is there nor was.
LEMMA QuietTick ==
    ASSUME MInv, GestureInv, AgedWasThere, CountsOK, CountsOK', Tick, Quiet, last = {}
    PROVE  Restless' < Restless \/ (Restless' = Restless /\ Restless' = 0)
<1> DEFINE B == ButtonLeft(mouse)
           C == ButtonLeft(mouse')
           S == ScrollLeft(scrollIds, sinceScrolling)
           T == ScrollLeft(scrollIds', sinceScrolling')
<1>1. PICK use \in AboveThreshold :
          ProcessScroll(use) \/ ProcessMove(use) \/ SwipeOrRest(use)
  BY DEF Tick
<1>2. use = {} /\ panning = None
  BY DEF AboveThreshold, Known, AgedWasThere, GestureInv, GestureOwners
<1>3. Cardinality(use) = 0
  BY <1>2, FS_EmptySet
<1>4. ~CanMove(use)
  BY <1>2, <1>3 DEF CanMove
<1>5. SeenLeft(last) = 0 /\ SeenLeft(last') = 0
  BY DEF SeenLeft, Tick, ProcessScroll, ProcessMove, SwipeOrRest, EndTick, Quiet
<1>6. B \in Nat /\ C \in Nat /\ (B = 0 <=> ~mouse.down) /\ (C = 0 <=> ~mouse'.down)
  BY ButtonLeftType DEF CountsOK
<1>7. S \in Nat /\ T \in Nat /\ (S = 0 <=> scrollIds = {})
  BY ScrollLeftType DEF CountsOK
<1>8. Restless = B + S /\ Restless' = C + T
  BY <1>5, <1>6, <1>7 DEF Restless
<1>9. CASE ProcessScroll(use)
  <2>1. ~mouse.tap /\ scrollIds # {}
    BY <1>3, <1>9 DEF ProcessScroll, CanScroll
  <2>2. C < B \/ (~mouse.down /\ ~mouse'.down)
    BY <1>9, <2>1, QuietMouse DEF ProcessScroll
  <2>3. T < S
    BY <1>2, <1>9, <2>1, QuietScroll
  <2> HIDE DEF B, C, S, T
  <2>4. C + T < B + S
    BY <1>6, <1>7, <2>2, <2>3
  <2>5. QED
    BY <1>8, <2>4
<1>10. CASE SwipeOrRest(use)
  <2>1. T = S
    BY <1>10 DEF SwipeOrRest
  <2>2. C < B \/ (~mouse.down /\ ~mouse'.down)
    BY <1>10, QuietMouse DEF SwipeOrRest
  <2>3. CASE C < B
    <3> HIDE DEF B, C, S, T
    <3>1. C + T < B + S
      BY <1>6, <1>7, <2>1, <2>3
    <3>2. QED
      BY <1>8, <3>1
  <2>4. CASE ~mouse.down /\ ~mouse'.down
    <3>1. ~mouse.tap /\ ~MustScroll(use)
      BY <2>4, <1>10 DEF MInv, MouseInv, Sound, SwipeOrRest
    <3>2. scrollIds = {}
      BY <1>3, <3>1 DEF MustScroll, CanScroll, IsSwipe, Quiet
    <3> HIDE DEF B, C, S, T
    <3>3. B = 0 /\ C = 0 /\ S = 0 /\ T = 0
      BY <1>6, <1>7, <2>1, <2>4, <3>2
    <3>4. QED
      BY <1>8, <3>3
  <2>5. QED
    BY <2>2, <2>3, <2>4
<1>11. QED
  BY <1>1, <1>4, <1>9, <1>10 DEF ProcessMove

LEMMA QuietStep ==
    ASSUME MInv, GestureInv, AgedWasThere, ButtonOwned, TypeOK, TypeOK', [Next]_vars, Quiet
    PROVE  /\ Restless' <= Restless
           /\ Tick => Restless' < Restless \/ Restless' = 0
<1>1. CountsOK /\ CountsOK'
  BY TypeCounts DEF TypeOK, CountsOK
<1>2. Restless \in Nat
  BY RestlessType DEF GestureInv
<1>3. CASE Tick
  <2>1. Restless' < Restless \/ (Restless' = Restless /\ Restless' = 0)
    BY <1>1, <1>3, LeavingTick, QuietTick DEF Quiet
  <2>2. CASE Restless' < Restless
    <3>1. Restless' \in Int
      BY <1>1, TapAndGrace, ButtonLeftType, ScrollLeftType DEF CountsOK, Restless, SeenLeft
    <3>2. QED
      BY <1>2, <2>2, <3>1
  <2>3. CASE Restless' = Restless /\ Restless' = 0
    BY <2>3
  <2>4. QED
    BY <2>1, <2>2, <2>3
<1>4. CASE ~Tick
  <2>1. UNCHANGED <<last, mouse, scrollIds, sinceScrolling>>
    BY <1>4 DEF Next, Report, SetParamProperties, ScrollTimer
  <2>2. Restless' = Restless
    BY <2>1 DEF Restless
  <2>3. QED
    BY <1>2, <1>4, <2>2
<1>5. QED
  BY <1>3, <1>4

\* While no contact is there, the clickpad is up and taps are on, every tick
\* brings the engine nearer to rest and nothing takes it away from it: what
\* ComesToRest says, but for the timer's fairness.
THEOREM NoIdleTickCorrect ==
    /\ Spec => [](Restless \in Nat /\ (Restless = 0 => AtRest))
    /\ Spec => NoIdleTick
<1>1. TypeOK /\ ButtonOwned /\ GestureOwners => Restless \in Nat /\ (Restless = 0 => AtRest)
  BY RestlessType
<1>2. MInv /\ GestureInv /\ AgedWasThere /\ ButtonOwned /\ TypeOK /\ TypeOK' /\ [Next]_vars
        => [Quiet => /\ Restless' <= Restless
                     /\ Tick => Restless' < Restless \/ Restless' = 0]_vars
  BY QuietStep
<1>3. MInv => InputInv
  BY DEF MInv
<1>4. Spec => [](MInv /\ GestureInv /\ AgedWasThere /\ ButtonOwned /\ TypeOK)
  BY <1>3, GestureInit, GestureNext, AgedInit, AgedNext, MouseCorrect, ButtonOwnedCorrect,
     TypeCorrect, PTL DEF Spec
<1>5. Spec => NoIdleTick
  BY <1>2, <1>4, PTL DEF Spec, NoIdleTick
<1>6. QED
  BY <1>1, <1>5, TypeCorrect, ButtonOwnedCorrect, GestureOwnersCorrect, PTL

=============================================================================
