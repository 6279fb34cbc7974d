------------------------------ MODULE InputPath ------------------------------
(***************************************************************************)
(* From a report of the touchpad to the HID reports of the simulated       *)
(* trackpad: the parser hands each event, under the work loop's gate,      *)
(* through the multitouch interface and the native engine to the           *)
(* simulator, which starts at any time, contacts down or not.              *)
(*                                                                         *)
(* Two history variables, read by the properties alone, tell what the user *)
(* has done last: reportData_last cannot, since it may be a foreign report *)
(* or an older one with the bytes the filter compares.                     *)
(***************************************************************************)
EXTENDS ReportParser, Sequences

CONSTANT Byte  \* the values of a UInt8, 2^8

VARIABLES ready, touchState, hid,  \* the simulator
          touched,  \* history: contacts and button of the touch report read last
          masked    \* history: touched was dropped as a duplicate, and
                    \* reportData_last held no touch report

Simulator == INSTANCE MT2Simulator

simVars == <<ready, touchState, hid>>
history == <<touched, masked>>
pathVars == <<vars, simVars, history>>

ASSUME InputPathAssumption == Byte \in Nat /\ Byte >= 2

PathInit ==
    /\ Init
    /\ Simulator!Init
    /\ touched = [touch |-> {}, button |-> FALSE]
    /\ masked = FALSE

\* The parser compares a touch report with whatever reportData_last holds.
Heard(r) ==
    IF r.id = "touch"
      THEN /\ touched' = [touch |-> r.touch, button |-> r.button]
           /\ masked' = (Duplicate(lastReport, r) /\ lastReport.id # "touch")
      ELSE UNCHANGED history

\* The native engine matches, opens the interface and starts its simulator.
StartSimulator == Simulator!Start /\ UNCHANGED <<vars, history>>

\* Neither a duplicate nor a report of another ID gets past the parser.
StopAtParser(r) ==
    /\ DropDuplicate(r) \/ RejectId(r)
    /\ Heard(r)
    /\ UNCHANGED simVars

\* The event carries the transducers themselves, as the parser leaves them.
HandOn(r) ==
    /\ Deliver(r)
    /\ Heard(r)
    /\ \/ Simulator!ConstructReport(transducers', delivered')
       \/ ~ready /\ UNCHANGED simVars   \* dropped before start() is done

PathNext == StartSimulator \/ \E r \in Reports : StopAtParser(r) \/ HandOn(r)

PathSpec == PathInit /\ [][PathNext]_pathVars

-----------------------------------------------------------------------------
(* Properties                                                               *)

Shown == hid[Len(hid)]

\* The simulator has been sent events, and the touch report read last is not
\* masked.  A masked one is lost in the code: a foreign report is stored before
\* its ID is looked at, and a touch report with the same bytes 3 to 10 is then
\* dropped, a lift or a new contact with it.
Current == hid # <<>> /\ ~masked

\* The origin of the touchpad, taken for a bogus contact: nothing is sent.
Suppressed == \E i \in touched.touch :
    /\ i <= Cardinality(touched.touch) + 1
    /\ transducers[i].x.current = 0
    /\ transducers[i].y.current >= MaxY

\* When the last finger has left, the host has been told so: the last HID report
\* is empty and inactive.  Suppressed events before, duplicates of touch reports
\* and any number of foreign reports after do not undo it; the one lift left out
\* is a masked one.
NoStuckTouch ==
    Current /\ touched.touch = {} =>
        ~Shown.active /\ Shown.fingers = <<>> /\ ~Shown.button

\* Contacts that fill the first slots are all shown, each in its own entry, and
\* the button with them, but for masked and suppressed reports.
PackedContactsShown ==
    \A n \in Slots :
        Current /\ ~Suppressed /\ touched.touch = 1..n =>
            /\ Shown.active
            /\ Shown.button <=> touched.button
            /\ Len(Shown.fingers) = n
            /\ \A k \in 1..n : Shown.fingers[k].id = k

\* No HID report shows a contact that is up, wherever the gaps are, but for
\* masked and suppressed reports.
NoGhostContact ==
    Current /\ ~Suppressed =>
        \A k \in DOMAIN Shown.fingers :
            Shown.fingers[k].id # 0 => Shown.fingers[k].id \in touched.touch

\* A contact found up by an event that looked at its slot is forgotten: when it
\* comes down again its touch begins anew.
LiftedContactsForgotten ==
    ready => \A i \in Slots :
        ~transducers[i].valid /\ i <= delivered + 1 => touchState[i] = 0

=============================================================================
