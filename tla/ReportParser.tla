---------------------------- MODULE ReportParser ----------------------------
(***************************************************************************)
(* I2CDevice::parse_ELAN_report once elan_smbus_get_report has answered:   *)
(* the duplicate test, the report ID, and the decoding of the contacts     *)
(* into the transducers the multitouch interface is handed.                *)
(*                                                                         *)
(* A report is a record: its ID, the touch byte (contacts and button), one *)
(* block [x, y] per contact, packed from the front, and the rest: what the *)
(* duplicate test compares and nobody decodes (two bits of the touch byte, *)
(* width and pressure of the first block).  The low byte of a position is  *)
(* its value modulo LowByte.                                               *)
(***************************************************************************)
EXTENDS Integers, FiniteSets

CONSTANTS Fingers,   \* ETP_MAX_FINGERS
          LowByte,   \* the values of a byte, 2^8
          Word,      \* the values of a UInt16, 2^16
          MaxY,      \* logical_max_y of the multitouch interface
          Rest,      \* the values of what is compared and not decoded
          Reports    \* the reports the touchpad may answer

Slots == 1..Fingers
Block == [x : 0..Word-1, y : 0..Word-1]
Report == [id : {"none", "touch", "other"}, touch : SUBSET Slots,
           button : BOOLEAN, blocks : [Slots -> Block], rest : Rest \cup {0}]

NoEvent == -1

ASSUME ReportsAssumption ==
    /\ Fingers \in Nat /\ Fingers >= 2
    /\ LowByte \in Nat \ {0}
    /\ Word \in Nat \ {0}
    /\ MaxY \in 0..Word-1
    /\ Reports \subseteq Report

VARIABLES lastReport,  \* reportData_last
          transducers, \* per slot: validity, and TimeTrackedValues
          input,       \* the report read last, which the properties refer to
          delivered    \* contact_count of the last event, or NoEvent

vars == <<lastReport, transducers, input, delivered>>

-----------------------------------------------------------------------------
(* TimeTrackedValue                                                         *)

Tracked(S) == [current : S, last : S]
Fresh(v) == [current |-> v, last |-> v]
Update(value, v) == [current |-> v, last |-> value.current]

Transducer == [valid : BOOLEAN, x : Tracked(0..Word-1), y : Tracked(0..Word-1),
               button : Tracked(BOOLEAN), tip : Tracked(BOOLEAN)]

ZeroReport == [id |-> "none", touch |-> {}, button |-> FALSE,
               blocks |-> [i \in Slots |-> [x |-> 0, y |-> 0]], rest |-> 0]

Init ==
    /\ lastReport = ZeroReport
    /\ transducers = [i \in Slots |->
           [valid |-> FALSE, x |-> Fresh(0), y |-> Fresh(0),
            button |-> Fresh(FALSE), tip |-> Fresh(FALSE)]]
    /\ input = ZeroReport
    /\ delivered = NoEvent

-----------------------------------------------------------------------------
\* Mutant: the touch byte is left out of the comparison.
DuplicateButTouch(old, new) ==
    /\ old.rest = new.rest
    /\ old.blocks[1] = new.blocks[1]
    /\ old.blocks[2].x = new.blocks[2].x
    /\ old.blocks[2].y \div LowByte = new.blocks[2].y \div LowByte
    /\ old.blocks[2].y % LowByte = 0

\* Bytes 3 to 10: the touch byte, the first block, and of the second block all
\* but the low byte of y.  That byte, 11, is compared with reportData[0 or 1],
\* which is always 0.
Duplicate(old, new) ==
    /\ old.touch = new.touch
    /\ old.button = new.button
    /\ old.rest = new.rest
    /\ old.blocks[1] = new.blocks[1]
    /\ old.blocks[2].x = new.blocks[2].x
    /\ old.blocks[2].y \div LowByte = new.blocks[2].y \div LowByte
    /\ old.blocks[2].y % LowByte = 0

\* Mutant: the block pointer moves on for absent contacts too.
BlockOfEverySlot(r, i) == r.blocks[i]

\* The block pointer has moved past one block for every contact before i.
BlockOf(r, i) == r.blocks[Cardinality({j \in r.touch : j < i}) + 1]

\* Mutant: the difference is stored without the width of the field.
FlipYUnbounded(y) == MaxY - y

\* The y axis is turned over in unsigned arithmetic and stored in a UInt16.
FlipY(y) == (MaxY - y) % Word

Touching(t, r, i) ==
    [valid |-> TRUE,
     x |-> Update(t.x, BlockOf(r, i).x),
     y |-> Update(t.y, FlipY(BlockOf(r, i).y)),
     button |-> Update(t.button, r.button),
     tip |-> Update(t.tip, TRUE)]

\* Mutant: the button of an absent contact keeps its value.
AbsentKeepsButton(t) ==
    [valid |-> FALSE,
     x |-> Update(t.x, t.x.last),
     y |-> Update(t.y, t.y.last),
     button |-> Update(t.button, t.button.current),
     tip |-> Update(t.tip, FALSE)]

\* An absent contact takes the value before its last one for its position.
Absent(t) ==
    [valid |-> FALSE,
     x |-> Update(t.x, t.x.last),
     y |-> Update(t.y, t.y.last),
     button |-> Update(t.button, FALSE),
     tip |-> Update(t.tip, FALSE)]

Decode(r) ==
    [i \in Slots |-> IF i \in r.touch THEN Touching(transducers[i], r, i)
                                      ELSE Absent(transducers[i])]

DropDuplicate(r) ==
    /\ Duplicate(lastReport, r)
    /\ input' = r
    /\ UNCHANGED <<lastReport, transducers, delivered>>

\* The ID is looked at after reportData_last has been overwritten.
RejectId(r) ==
    /\ ~Duplicate(lastReport, r)
    /\ r.id # "touch"
    /\ input' = r
    /\ lastReport' = r
    /\ UNCHANGED <<transducers, delivered>>

Deliver(r) ==
    /\ ~Duplicate(lastReport, r)
    /\ r.id = "touch"
    /\ input' = r
    /\ lastReport' = r
    /\ transducers' = Decode(r)
    /\ delivered' = Cardinality(r.touch)

\* A report that could not be read changes nothing.
Next == \E r \in Reports : DropDuplicate(r) \/ RejectId(r) \/ Deliver(r)

Spec == Init /\ [][Next]_vars

-----------------------------------------------------------------------------
(* Properties                                                               *)

TypeOK ==
    /\ lastReport \in Report
    /\ transducers \in [Slots -> Transducer]
    /\ input \in Report
    /\ delivered \in {NoEvent} \cup 0..Fingers

\* The slots show report r: its contacts down, each at the position of its own
\* block, the button on the contacts that are down, every other contact lifted.
Shows(r) ==
    \A i \in Slots :
        /\ transducers[i].valid <=> i \in r.touch
        /\ transducers[i].tip.current <=> i \in r.touch
        /\ transducers[i].button.current <=> i \in r.touch /\ r.button
        /\ i \in r.touch =>
             LET block == r.blocks[Cardinality(r.touch \cap 1..i)]
             IN  /\ transducers[i].x.current = block.x
                 /\ transducers[i].y.current = (MaxY - block.y) % Word

\* While reportData_last holds a touch report the transducers show it, however
\* many duplicates were dropped and foreign reports rejected before.
ShowsLastReport == lastReport.id = "touch" => Shows(lastReport)

\* No report the filter drops hides a lift, a new contact, a button, or a move
\* of the first contact, unless reportData_last held a foreign report.
NothingHidden ==
    input.id = "touch" /\ lastReport.id = "touch" =>
        \A i \in Slots :
            /\ transducers[i].tip.current <=> i \in input.touch
            /\ transducers[i].button.current <=> i \in input.touch /\ input.button
            /\ (i \in input.touch /\ \A j \in input.touch : i <= j) =>
                 /\ transducers[i].x.current = input.blocks[1].x
                 /\ transducers[i].y.current = (MaxY - input.blocks[1].y) % Word

\* The number of contacts an event announces is the number of valid transducers
\* it carries.
CountMatches ==
    delivered # NoEvent =>
        delivered = Cardinality({i \in Slots : transducers[i].valid})

\* A contact that is up keeps its last two positions, in one order or the
\* other: no later report puts it anywhere it has not been.
Positions(value) == {value.current, value.last}

LiftedContactsStay ==
    [][\A i \in Slots : ~transducers'[i].valid =>
           /\ Positions(transducers'[i].x) = Positions(transducers[i].x)
           /\ Positions(transducers'[i].y) = Positions(transducers[i].y)]_vars

=============================================================================
