-------------------------- MODULE MT2ReportProtocol --------------------------
(***************************************************************************)
(* VoodooI2CMT2SimulatorDeviceAS as a HID device that is asked for its     *)
(* feature reports: setReport 0x01 names a report, getReport 0x01 then     *)
(* tells its length, and getReport writes it.                              *)
(*                                                                         *)
(* The clients are drivers and programs above IOHIDFamily.  Neither        *)
(* function takes the command gate, so nothing in this code separates      *)
(* their calls.  A getReport 0x01 takes the buffer's object before it      *)
(* reads it; an object that has been replaced is never written again, so   *)
(* it reads what a single step before the replacement would.  That a       *)
(* reader may meet an append half done is left out, and so are the bytes   *)
(* of a report past its ID, and the buffers that are never released.       *)
(***************************************************************************)
EXTENDS Integers, Sequences, Functions

CONSTANTS Clients,  \* may call setReport at the same time
          Asked     \* the reports they name, known or not

VARIABLES buffer,   \* new_get_report_buffer: the answers appended to it
          pc,       \* of a client: idle, or in setReport before the append
          asked,    \* raw_buffer[1] of its last setReport
          alone     \* who asked last and has not met another client since

protocolVars == <<buffer, pc, asked, alone>>

-----------------------------------------------------------------------------
(* The reports                                                              *)

Known == {"D1", "D3", "D0", "A1", "D9", "7F", "C8", "DB"}

\* The length that getReport 0x01 tells of a report.
Announced(r) ==
    CASE r = "D1" -> 1  [] r = "D3" -> 12 [] r = "D0" -> 15 [] r = "A1" -> 6
      [] r = "D9" -> 16 [] r = "7F" -> 4  [] r = "C8" -> 1  [] r = "DB" -> 73

Answer(r) == [id |-> r, length |-> Announced(r)]

\* What getReport writes: one byte for the ID and those of the report.
Single(r) ==
    CASE r = "D1" -> 2  [] r = "D3" -> 13 [] r = "D0" -> 16 [] r = "A1" -> 7
      [] r = "D9" -> 17 [] r = "7F" -> 5  [] r = "C8" -> 2

\* 0xDB is the ID, a byte, and six of the others, the last one without the two
\* bytes for its length.
Composite ==
    2 + (2 + Single("D1")) + (2 + Single("D3")) + (2 + Single("D0"))
      + (2 + Single("A1")) + (2 + Single("D9")) + Single("7F")

Written(r) == IF r = "DB" THEN Composite ELSE Single(r)

-----------------------------------------------------------------------------
(* setReport                                                                *)

\* There is no buffer before the first setReport: a getReport 0x01 that comes
\* before it has nothing to write from.
ProtocolInit ==
    /\ buffer = <<>>
    /\ pc = [c \in Clients |-> "idle"]
    /\ asked = [c \in Clients |-> "none"]
    /\ alone = {}

\* Mutant: the answer is appended to the buffer there is.
CreateOnce(c, r) ==
    /\ pc[c] = "idle"
    /\ pc' = [pc EXCEPT ![c] = "append"]
    /\ asked' = [asked EXCEPT ![c] = r]
    /\ alone' = {c}
    /\ UNCHANGED buffer

Create(c, r) ==
    /\ pc[c] = "idle"
    /\ pc' = [pc EXCEPT ![c] = "append"]
    /\ asked' = [asked EXCEPT ![c] = r]
    /\ alone' = {c}
    /\ buffer' = <<>>

\* Mutant: the buffer is created anew when the answer is in it.
AppendBeforeCreate(c) ==
    /\ pc[c] = "append"
    /\ pc' = [pc EXCEPT ![c] = "idle"]
    /\ buffer' = <<>>
    /\ alone' = alone \cap {c}
    /\ UNCHANGED asked

\* The answer goes to the buffer there is by now, whoever created it.  There is
\* none for a report that is not known.
AppendAnswer(c) ==
    /\ pc[c] = "append"
    /\ pc' = [pc EXCEPT ![c] = "idle"]
    /\ buffer' = IF asked[c] \in Known THEN Append(buffer, Answer(asked[c]))
                                       ELSE buffer
    /\ alone' = alone \cap {c}
    /\ UNCHANGED asked

ProtocolNext == \E c \in Clients : AppendAnswer(c) \/ \E r \in Asked : Create(c, r)

ProtocolSpec == ProtocolInit /\ [][ProtocolNext]_protocolVars

-----------------------------------------------------------------------------
(* Properties                                                               *)

\* A client that asked for a known report and met no other setReport since it
\* began gets the answer, once, and no other, and the report it then reads is as
\* long as the answer says, its ID not counted; 0xDB, which lacks a length before
\* its last part, is at least not longer (two tables of bytes written by hand,
\* VoodooI2CMT2SimulatorDeviceAS.cpp:398-436 and 458-535).
OwnAnswer ==
    \A c \in alone :
        pc[c] = "idle" /\ asked[c] \in Known =>
            LET told == Announced(asked[c])
            IN  /\ buffer = <<Answer(asked[c])>>
                /\ Written(asked[c]) <= 1 + told
                /\ asked[c] # "DB" => Written(asked[c]) = 1 + told

\* Calls that meet may leave their answers in one buffer, but each is what a
\* client asked last, and none is there twice: no answer outlives the question.
AnswersOwned ==
    \E owner \in Injection(DOMAIN buffer, Clients) :
        \A k \in DOMAIN buffer :
            pc[owner[k]] = "idle" /\ asked[owner[k]] = buffer[k].id

=============================================================================
