---------------------------- MODULE MT2Simulator ----------------------------
(***************************************************************************)
(* VoodooI2CMT2SimulatorDeviceAS as the receiver of multitouch events: it  *)
(* turns each into the HID reports of a Magic Trackpad 2.                  *)
(*                                                                         *)
(* A frame is a HID report: is a touch active, the button, and an entry    *)
(* for each finger its length has room for.  An entry's state is the       *)
(* nibble of AbsY[1] the host reads a touch's progress from; for "hold",   *)
(* which zone of the pad or which earlier nibble (stashed_unknown) it is   *)
(* taken from is left out, and so are the coordinates.                     *)
(***************************************************************************)
EXTENDS Integers, Sequences

CONSTANTS Fingers,   \* ETP_MAX_FINGERS, the length of an event's transducers
          Byte,      \* the values of a UInt8, 2^8
          MaxY       \* logical_max_y of the multitouch interface

VARIABLES ready,       \* ready_for_reports
          touchState,  \* touch_state
          hid          \* the frames the last event that sent any has sent

Slots == 1..Fingers

ZeroEntry == [id |-> 0, size |-> 0, pressure |-> 0, state |-> "none"]

Init ==
    /\ ready = FALSE
    /\ touchState = [i \in Slots |-> 0]
    /\ hid = <<>>

Start ==
    /\ ~ready
    /\ ready' = TRUE
    /\ touchState' = [i \in Slots |-> 0]
    /\ UNCHANGED hid

-----------------------------------------------------------------------------
\* Mutant: the loop stops at the number of contacts.
LookedAtExactly(count) == 1..count

\* The loop looks at one slot more than there are contacts, whichever slots the
\* contacts are in.  There is no transducer past the last slot.
LookedAt(count) == Slots \cap 1..(count + 1)

Down(t) == t.valid /\ t.tip.current

\* The touch phase counts the events that found the contact down, in a UInt8.
Phase(t, old) ==
    IF t.valid THEN IF t.tip.current THEN (old + 1) % Byte ELSE 1 ELSE 0

Phases(transducers, count) ==
    [i \in Slots |-> IF i \in LookedAt(count)
                       THEN Phase(transducers[i], touchState[i])
                       ELSE touchState[i]]

SizeOf(phase) == CASE phase \in {0, 1} -> 0 [] phase = 2 -> 8 [] OTHER -> 10

StateOf(phase) ==
    CASE phase = 1 -> "start" [] phase = 2 -> "touch" [] OTHER -> "hold"

\* A pressed button makes every contact a firm one; a raised tip undoes it.
Entry(i, t, phase, button) ==
    IF t.tip.current
      THEN [id |-> i, size |-> SizeOf(phase), state |-> StateOf(phase),
            pressure |-> IF button THEN 120 ELSE IF phase < 2 THEN 0 ELSE 10]
      ELSE [id |-> i, size |-> 0, state |-> "lift", pressure |-> 0]

\* Mutant: an absent contact's entry is filled in like any other.
FingerDataUnchecked(transducers, count, button) ==
    [i \in Slots |->
        IF i \in LookedAt(count)
          THEN Entry(i, transducers[i], Phase(transducers[i], touchState[i]), button)
          ELSE ZeroEntry]

FingerData(transducers, count, button) ==
    [i \in Slots |->
        IF i \in LookedAt(count) /\ transducers[i].valid
          THEN Entry(i, transducers[i], Phase(transducers[i], touchState[i]), button)
          ELSE ZeroEntry]

\* Mutant: the report is as long as its structure.
FrameUncut(active, button, fingers, count) ==
    [active |-> active, button |-> button, fingers |-> fingers]

\* The length of a report is that of its contacts: an entry past it is cut off.
Frame(active, button, fingers, count) ==
    [active |-> active, button |-> button, fingers |-> SubSeq(fingers, 1, count)]

\* x * 7612 / logical_max_x rounds to 0 for x = 0 alone.
ErrorInput(t) == t.valid /\ t.x.current = 0 /\ t.y.current >= MaxY

Activity(transducers, count, button) ==
    IF \E i \in LookedAt(count) : ErrorInput(transducers[i])
      THEN <<>>
      ELSE <<Frame(\E i \in LookedAt(count) : Down(transducers[i]), button,
                   FingerData(transducers, count, button), count)>>

\* Three more reports when no contact is down: the first entry flattened, then
\* released, and a report with no entry.
Release(fingers, button, count) ==
    LET flat == [fingers EXCEPT ![1].size = 0, ![1].pressure = 0]
    IN  <<Frame(FALSE, button, flat, count),
          Frame(FALSE, button, [flat EXCEPT ![1].state = "released"], count),
          Frame(FALSE, button, flat, 0)>>

\* The button is that of the first slot's transducer.
Frames(transducers, count) ==
    LET button == transducers[1].button.current
        fingers == FingerData(transducers, count, button)
    IN  Activity(transducers, count, button)
        \o IF \E i \in LookedAt(count) : Down(transducers[i])
             THEN <<>>
             ELSE Release(fingers, button, count)

ConstructReport(transducers, count) ==
    /\ ready
    /\ touchState' = Phases(transducers, count)
    /\ hid' = LET sent == Frames(transducers, count)
              IN  IF sent = <<>> THEN hid ELSE sent
    /\ UNCHANGED ready

=============================================================================
