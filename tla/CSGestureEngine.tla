--------------------------- MODULE CSGestureEngine ---------------------------
(***************************************************************************)
(* VoodooI2CCSGestureEngineAS: reports leave contacts in softc, and a      *)
(* timer turns them into moves, scrolls, swipes, clicks, taps and drags.   *)
(*                                                                         *)
(* Where the contacts are is left out: every choice that depends on it     *)
(* (which are above the threshold, whether a pair moves enough to scroll,  *)
(* which contact is the lower one, whether a press is in the corner) is    *)
(* made in every way.  The swipes are in SwipeGesture, what the scroll     *)
(* handler does with a scroll in CSGestureScroll; display_integrated is    *)
(* false for this device.  Counters stop where no comparison tells more.   *)
(* panning stands for panningActive and idForPanning, scrollIds for        *)
(* scrollingActive and idsForScrolling: the one is only read with the      *)
(* other.                                                                  *)
(***************************************************************************)
EXTENDS Integers, Sequences, FiniteSets

CONSTANTS Fingers,      \* indices of softc's arrays that a contact can have
          TapTicks,     \* 10 * frequmult: a tap, and what follows one
          MoveTicks,    \* 5 * frequmult: a contact younger than this does not move
          GraceTicks,   \* 5 * frequmult: a scroll outlives its contacts by this
          ScrollTicks,  \* 8 * frequmult: of a pair, one must be older than this
          PalmTicks,    \* 15 * frequmult: a lower contact older by more is a palm
          FreshTicks,   \* 10: a contact younger than this counts for a tap
          RecentTicks,  \* 30 * frequmult: a contact younger than this counts for a click
          AgeBound      \* truetick counts to this, and from there on any age is possible

None == -1

ASSUME EngineAssumption ==
    /\ Fingers \subseteq Nat /\ IsFiniteSet(Fingers)
    /\ TapTicks \in Nat \ {0} /\ MoveTicks \in Nat /\ GraceTicks \in Nat
    /\ ScrollTicks \in Nat /\ PalmTicks \in Nat /\ FreshTicks \in Nat
    /\ RecentTicks \in Nat /\ AgeBound \in Nat
    /\ \A t \in {TapTicks, MoveTicks, ScrollTicks, FreshTicks, RecentTicks} : t <= AgeBound

VARIABLES down,         \* the contacts: x[i] # -1
          buttondown,
          last,         \* the contacts of the last tick: lastx[i] # -1
          truetick,     \* and tick, which is truetick up to TapTicks
          blacklisted,  \* blacklistedids
          panning,      \* the contact that moves the pointer, or None
          scrollIds,    \* the contacts that scroll, or none
          sinceScrolling, sinceRelease, \* ticksSinceScrolling, ticksincelastrelease
          inertia,      \* scrollInertiaActive
          scroller,     \* the scroll handler: at rest, scrolling, or gliding backwards,
                        \* which its isScrolling does not notice
          mouse,        \* mousedown, buttonmask, mouseDownDueToTap, idForMouseDown, tickssinceclick
          settings,     \* of which tapToClickEnabled, multiFingerTap, tapDragEnabled
          sent          \* the button masks sent to the system in the last tick

inputVars == <<down, buttondown>>
vars == <<inputVars, last, truetick, blacklisted, panning, scrollIds, sinceScrolling,
          sinceRelease, inertia, scroller, mouse, settings, sent>>

Released == [down |-> FALSE, mask |-> 0, tap |-> FALSE, finger |-> None, since |-> 0]

\* softc is zeroed, so that a last x of 0 looks like a contact; start() takes
\* the contacts away.
Init ==
    /\ down = {} /\ buttondown = FALSE
    /\ last = Fingers
    /\ truetick = [i \in Fingers |-> 0]
    /\ blacklisted = {}
    /\ panning = None /\ scrollIds = {}
    /\ sinceScrolling = 0 /\ sinceRelease = 0
    /\ inertia = FALSE /\ scroller = "rest"
    /\ mouse = [Released EXCEPT !.finger = IF 0 \in Fingers THEN 0 ELSE None]
    /\ settings = [tapToClick |-> TRUE, multiFingerTap |-> FALSE, tapDrag |-> FALSE]
    /\ sent = <<0>>

Least(S) == CHOOSE i \in S : \A j \in S : i <= j
UpTo(limit, n) == IF n > limit THEN limit ELSE n

-----------------------------------------------------------------------------
(* Reports and settings                                                     *)

\* handleInterruptReport takes all contacts from the event; the button only if
\* it is the event's.  The work loop's gate keeps it out of a tick.
Report ==
    /\ down' \in SUBSET Fingers
    /\ buttondown' \in BOOLEAN
    /\ UNCHANGED <<last, truetick, blacklisted, panning, scrollIds, sinceScrolling,
                   sinceRelease, inertia, scroller, mouse, settings, sent>>

\* A setting that the dictionary does not name is kept, multiFingerTap comes
\* with any.  They are taken to change together and between two ticks, though no
\* lock says so; a tick reads each of them once.
SetParamProperties ==
    /\ settings' \in [tapToClick : BOOLEAN, multiFingerTap : {TRUE}, tapDrag : BOOLEAN]
    /\ UNCHANGED <<inputVars, last, truetick, blacklisted, panning, scrollIds,
                   sinceScrolling, sinceRelease, inertia, scroller, mouse, sent>>

\* The scroll handler's timer: a momentum wears off, and once there was one
\* scrollInertiaActive stays set.
ScrollTimer ==
    /\ scroller # "rest"
    /\ inertia' = TRUE
    /\ scroller' \in {scroller, "rest"}
    /\ UNCHANGED <<inputVars, last, truetick, blacklisted, panning, scrollIds,
                   sinceScrolling, sinceRelease, mouse, settings, sent>>

-----------------------------------------------------------------------------
(* Which contacts are above the threshold                                   *)

Known == {i \in Fingers : truetick[i] # 0} \ blacklisted

\* One contact on the pad: every known one counts, those that have just left
\* too.  Two: the lowest, or a pair on a line.  Else those that have moved.
AboveThreshold ==
    {use \in SUBSET Known :
        /\ Cardinality(down) = 1 => use = Known
        /\ Cardinality(down) = 2 /\ Known # {} => Cardinality(use) \in {1, 2}}

IsSwipe(use) == Cardinality(use) \in {3, 4}

-----------------------------------------------------------------------------
(* The clickpad button, taps and drags                                      *)

RecentlyAdded == Cardinality({i \in Fingers : truetick[i] \in 1..(RecentTicks - 1)})

\* Which button a press is.  In the corner it is the second one; the contact
\* looked at is the first above the threshold, even where there is none.
Buttons(use, pan) ==
    LET n == IF RecentlyAdded # 0 THEN RecentlyAdded
             ELSE IF use # {} THEN Cardinality(use)
             ELSE IF pan # None \/ down = {} THEN 1 ELSE Cardinality(down)
    IN  {UpTo(3, n)} \cup (IF Cardinality(down) = 1 THEN {2} ELSE {})

Press(m, button) ==
    [down |-> TRUE, mask |-> button, tap |-> m.tap, finger |-> m.finger, since |-> 0]
Raise(m) ==
    [down |-> FALSE, mask |-> 0, tap |-> m.tap, finger |-> m.finger, since |-> m.since]

\* Mutant: the clickpad is read during a tap, too.
ClickedDuringTap(m, button) ==
    IF buttondown /\ ~m.down THEN Press(m, button)
    ELSE IF m.down /\ ~buttondown THEN Raise(m) ELSE m

\* The clickpad is not looked at while a tap holds the button.
Clicked(m, button) ==
    IF m.tap THEN m
    ELSE IF buttondown /\ ~m.down THEN Press(m, button)
    ELSE IF m.down /\ ~buttondown THEN Raise(m) ELSE m

\* The contacts that can drag: they come down soon after a release, be it of
\* this tick if the contact that left has a lower index.
Draggers ==
    {i \in down \ last : sinceRelease < TapTicks \/ \E j \in last \ down : j < i}

Joined(m) ==
    IF m.tap /\ m.finger = None /\ settings.tapDrag /\ Draggers # {}
    THEN [m EXCEPT !.finger = Least(Draggers)] ELSE m

DragEnds(m) == m.tap /\ m.finger # None /\ m.finger \notin down

ClearTapDrag(m) ==
    IF DragEnds(m) THEN [Released EXCEPT !.since = m.since] ELSE m

\* A contact that leaves soon after a tap has tapped again.
DoubleTap(m) == DragEnds(m) /\ truetick[m.finger] < TapTicks

Ticked == [i \in Fingers |-> IF i \in down THEN UpTo(AgeBound, truetick[i] + 1) ELSE 0]

\* Contacts that have left so soon that they tap, and new ones that are still
\* there.
TapFingers ==
    Cardinality({i \in Fingers \ down : truetick[i] \in 1..(TapTicks - 1)})
        + Cardinality({i \in Fingers : Ticked[i] \in 1..(FreshTicks - 1)})

TapMask ==
    IF TapFingers \in (IF settings.multiFingerTap THEN 1..3 ELSE {1}) THEN TapFingers ELSE 0

\* Contacts have left in this tick.
JustReleased == last \ down # {}

\* Mutant: the time since the last click runs on while a button is held.
SinceClickRunsOn(m) == UpTo(TapTicks + 1, m.since + 1)

\* Mutant: the button that a tap holds starts the time anew, too.
SinceClickStands(m) == IF m.down THEN 0 ELSE UpTo(TapTicks + 1, m.since + 1)

SinceClick(m) ==
    IF m.down /\ ~(m.tap /\ m.finger = None) THEN 0 ELSE UpTo(TapTicks + 1, m.since + 1)

\* A tap's button is held until it times out; no tap while a button is down,
\* while a scroll goes on, or soon after a click.
TapToClickOrDrag(m, gliding) ==
    LET t == [m EXCEPT !.since = SinceClick(m)]
    IN  IF ~settings.tapToClick THEN m
        ELSE IF m.tap /\ m.finger = None /\ t.since > TapTicks
        THEN [Released EXCEPT !.since = t.since]
        ELSE IF ~m.down /\ TapMask # 0 /\ ~gliding /\ t.since > TapTicks /\ JustReleased
        THEN [down |-> TRUE, mask |-> TapMask, tap |-> TRUE, finger |-> None, since |-> 0]
        ELSE t

\* Mutant: taps are looked for after a scroll, too.
TappedAfterScroll(m, handledByScroll, gliding) == TapToClickOrDrag(m, gliding)

Tapped(m, handledByScroll, gliding) ==
    IF handledByScroll THEN m ELSE TapToClickOrDrag(m, gliding)

NextSinceRelease == IF JustReleased THEN 0 ELSE UpTo(TapTicks, sinceRelease + 1)

-----------------------------------------------------------------------------
(* A tick: ProcessGesture                                                   *)

\* What every tick does after the gesture: the clickpad, then contact by contact
\* what has come and gone, then taps, then the system is told.
EndTick(use, pan, palms, handledByScroll, scrolls) ==
    \E button \in Buttons(use, pan) :
        LET pressed == Clicked(mouse, button)
            joined  == Joined(pressed)
            cleared == ClearTapDrag(joined)
            clicks  == pressed.down /\ ~mouse.down
            after   == IF clicks /\ scrolls = "scrolling" THEN "rest" ELSE scrolls
            gliding == after = "scrolling"
        IN  /\ mouse' = Tapped(cleared, handledByScroll, gliding)
            /\ sent' = (IF DoubleTap(joined) THEN <<0, joined.mask>> ELSE <<>>) \o <<mouse'.mask>>
            /\ scroller' = IF ~handledByScroll /\ gliding /\ settings.tapToClick
                                /\ ~cleared.down /\ TapFingers # 0
                           THEN "rest" ELSE after
            /\ panning' = IF pan \in down THEN pan ELSE None
            /\ blacklisted' = palms \cap down
            /\ last' = down
            /\ truetick' = Ticked
            /\ sinceRelease' = NextSinceRelease
            /\ UNCHANGED <<inputVars, inertia, settings>>

CanScroll(use) ==
    /\ ~IsSwipe(use) /\ ~buttondown /\ ~mouse.tap
    /\ \/ scrollIds # {}
       \/ Cardinality(use) = 2 /\ (inertia \/ \E i \in use : truetick[i] >= ScrollTicks)

\* A scroll that goes on is never asked for displacements.
MustScroll(use) == CanScroll(use) /\ scrollIds # {}

\* The pair that scrolls; of a pair of which one is gone the other is taken, or
\* the first of the pair with a third contact.
Pair(use) ==
    CASE Cardinality(use) = 0 -> scrollIds
      [] Cardinality(use) = 1 ->
            use \cup {IF Least(scrollIds) \notin use THEN Least(scrollIds)
                                                     ELSE Least(scrollIds \ use)}
      [] OTHER -> {Least(use), Least(use \ {Least(use)})}

\* Mutant: the pair is not taken back when the grace is over.
PairKeptPastGrace(use, goesOn) == IF Cardinality(use) = 2 THEN use ELSE scrollIds

NextScrollIds(use, goesOn) ==
    IF ~goesOn THEN {} ELSE IF Cardinality(use) = 2 THEN use ELSE scrollIds

ProcessScroll(use) ==
    /\ CanScroll(use)
    /\ LET both  == Pair(use) \subseteq down
           since == IF both THEN 0 ELSE UpTo(GraceTicks + 1, sinceScrolling + 1)
       IN  /\ sinceScrolling' = since
           /\ scrollIds' = NextScrollIds(use, both \/ since <= GraceTicks)
    /\ \E scrolls \in {"rest", "scrolling", "backwards"} :
            EndTick(use, panning, blacklisted, TRUE, scrolls)

CanMove(use) ==
    /\ ~IsSwipe(use) /\ ~MustScroll(use)
    /\ \/ panning # None
       \/ Cardinality(use) = 1 /\ \A i \in use : UpTo(TapTicks, truetick[i]) >= MoveTicks

\* Contacts that are older than i by so much that they are palms if they lie
\* lower.
Older(i) ==
    {j \in down \ {i} : truetick[j] > truetick[i] + PalmTicks \/ truetick[j] = AgeBound}

ProcessMove(use) ==
    LET i == IF use = {} THEN panning ELSE Least(use)
    IN  /\ CanMove(use)
        /\ UNCHANGED <<scrollIds, sinceScrolling>>
        /\ \E palms \in SUBSET Older(i) :
                EndTick(use, i, blacklisted \cup palms, FALSE, "rest")

\* A swipe, which stops the scroll and whose keys are in SwipeGesture, or nothing.
SwipeOrRest(use) ==
    /\ ~MustScroll(use) /\ ~CanMove(use)
    /\ UNCHANGED <<scrollIds, sinceScrolling>>
    /\ EndTick(use, panning, blacklisted, FALSE, IF IsSwipe(use) THEN "rest" ELSE scroller)

\* timedProcessGesture; the timer is set again after every tick.
Tick == \E use \in AboveThreshold :
            ProcessScroll(use) \/ ProcessMove(use) \/ SwipeOrRest(use)

Next == Report \/ SetParamProperties \/ ScrollTimer \/ Tick

Spec == Init /\ [][Next]_vars

\* The timer fires every 5 ms.
FairSpec == Spec /\ WF_vars(Tick)

-----------------------------------------------------------------------------
(* Properties                                                               *)

TypeOK ==
    /\ down \subseteq Fingers /\ last \subseteq Fingers /\ blacklisted \subseteq Fingers
    /\ buttondown \in BOOLEAN
    /\ truetick \in [Fingers -> 0..AgeBound]
    /\ panning \in Fingers \cup {None}
    /\ scrollIds \subseteq Fingers
    /\ sinceScrolling \in 0..(GraceTicks + 1) /\ sinceRelease \in 0..TapTicks
    /\ inertia \in BOOLEAN /\ scroller \in {"rest", "scrolling", "backwards"}
    /\ mouse \in [down : BOOLEAN, mask : 0..3, tap : BOOLEAN, finger : Fingers \cup {None},
                  since : 0..(TapTicks + 1)]
    /\ settings \in [tapToClick : BOOLEAN, multiFingerTap : BOOLEAN, tapDrag : BOOLEAN]
    /\ sent \in Seq(0..3)

\* A button that is down has a cause that can end it: the clickpad, a tap, or a
\* contact that drags and was there at the last tick.
ButtonOwned ==
    /\ mouse.down <=> mouse.mask # 0
    /\ mouse.tap => mouse.down
    /\ mouse.tap /\ mouse.finger # None => mouse.finger \in last

\* The contact that moves the pointer was there at the last tick and is no palm:
\* once it has left, its index serves for one more tick.  A scroll has a pair of
\* indices, whose contacts may both have left, and is within its grace.
GestureOwners ==
    /\ panning # None => panning \in last \ blacklisted
    /\ scrollIds # {} => Cardinality(scrollIds) = 2 /\ sinceScrolling <= GraceTicks

\* No gesture outlives its contacts by more than that: without two contacts on
\* the pad a scroll ends in a tick or uses up a tick of its grace.  Left out are
\* ticks that do not look at the scroll, which then keeps its indices: a button
\* or a tap holds it up, or three contacts of the last tick make a swipe.
GestureOwned ==
    [][/\ GestureOwners'
       /\ scrollIds # {} /\ scrollIds' # {} /\ Cardinality(down) < 2
             /\ ~buttondown /\ ~mouse.tap /\ Cardinality(last) < 3 /\ Tick
                => sinceScrolling' > sinceScrolling]_vars

\* A drag's button was joined, or kept, while taps were on.
TapsStayedOn == mouse.tap /\ mouse.finger # None => mouse.since = 0

\* No button goes from one cause to another, or becomes another button, without
\* a tick in which the system is told that it is up; what switching taps off and
\* on during a drag does excepted.
NoHandOver ==
    [][TapsStayedOn /\ mouse.down /\ mouse'.down =>
          /\ mouse'.mask = mouse.mask /\ mouse'.tap = mouse.tap
          /\ mouse'.finger = mouse.finger \/ mouse.finger = None]_vars

\* What ends a scroll never clicks: while the scroll of two contacts goes on, not
\* even a lift of contacts that have just come down is a tap.  A third contact
\* can make a swipe of the lift, after which taps are looked for.
ScrollNeverTaps ==
    [][scrollIds # {} /\ Cardinality(last) < 3 /\ mouse'.tap
          => mouse.tap \/ buttondown]_vars

\* When all contacts have left for good and the clickpad is up, the pointer is
\* left alone, nothing scrolls and no button is down, if taps are on.
ComesToRest ==
    <>[](down = {} /\ ~buttondown /\ settings.tapToClick)
        => <>[](~mouse.down /\ panning = None /\ scrollIds = {})

=============================================================================
