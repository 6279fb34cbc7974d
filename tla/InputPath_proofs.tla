-------------------------- MODULE InputPath_proofs --------------------------
(***************************************************************************)
(* For any number of contacts, any width of the fields and any reports.    *)
(* Of the parser: the types, what the transducers show, and that a dropped *)
(* duplicate hides nothing a user would notice.  Of the whole path: which  *)
(* contacts the host is shown, that it is told the last finger has left,   *)
(* and that a contact that has lifted starts its next touch anew.          *)
(***************************************************************************)
EXTENDS InputPath, FiniteSetTheorems, SequenceTheorems, TLAPS

USE ReportsAssumption, InputPathAssumption DEF vars, pathVars, simVars, history

-----------------------------------------------------------------------------
(* The block of a contact.                                                  *)

\* The block pointer stands, for contact i, at the number of contacts up to i.
LEMMA BlockIndex ==
    ASSUME NEW touch \in SUBSET Slots, NEW i \in touch
    PROVE  /\ Cardinality({j \in touch : j < i}) + 1
                = Cardinality(touch \cap 1..i)
           /\ Cardinality({j \in touch : j < i}) + 1 \in Slots
<1> DEFINE before == {j \in touch : j < i}
<1>0. i \in Int /\ 1 <= i /\ i <= Fingers
  BY DEF Slots
<1>1. /\ IsFiniteSet(1..(i-1))
      /\ Cardinality(1..(i-1)) = i - 1
  <2>1. /\ IsFiniteSet(1..(i-1))
        /\ Cardinality(1..(i-1)) = IF 1 > i-1 THEN 0 ELSE (i-1)-1+1
    BY <1>0, FS_Interval, 1 \in Int, i-1 \in Int
  <2>2. QED
    BY <1>0, <2>1
<1> \A j \in touch : j \in Int /\ 1 <= j
  BY DEF Slots
<1>2. before \in SUBSET (1..(i-1))
  <2> SUFFICES ASSUME NEW j \in before PROVE j \in 1..(i-1)
    OBVIOUS
  <2>1. j \in touch /\ j < i
    OBVIOUS
  <2>2. QED
    BY <1>0, <2>1
<1>3. IsFiniteSet(before) /\ Cardinality(before) <= i - 1
  BY <1>1, <1>2, FS_Subset
<1>4. Cardinality(before) \in Nat
  BY <1>3, FS_CardinalityType
<1>5. touch \cap 1..i = before \cup {i} /\ i \notin before
  <2>1. ASSUME NEW j \in touch
        PROVE  j \in 1..i <=> j < i \/ j = i
    BY <1>0
  <2>2. i \notin before
    BY <1>0
  <2>3. i \in touch /\ before \subseteq touch
    OBVIOUS
  <2>4. touch \cap 1..i = {j \in touch : j < i \/ j = i}
    BY <2>1
  <2>5. QED
    BY <2>2, <2>3, <2>4, Zenon
<1>6. Cardinality(before \cup {i}) = Cardinality(before) + 1
  BY <1>3, <1>5, FS_AddElement
<1>7. Cardinality(before) + 1 \in Slots
  <2> HIDE DEF before
  <2>1. i \in 1..Fingers
    BY DEF Slots
  <2>2. QED
    BY <1>3, <1>4, <2>1 DEF Slots
<1>8. QED
  BY <1>5, <1>6, <1>7

\* The first contact reads the first block.
LEMMA FirstBlock ==
    ASSUME NEW touch \in SUBSET Slots, NEW i \in touch,
           \A j \in touch : i <= j
    PROVE  Cardinality(touch \cap 1..i) = 1
<1>1. touch \cap 1..i = {i}
  BY DEF Slots
<1>2. QED
  BY <1>1, FS_Singleton

\* The turned y axis fits its field.
LEMMA FlipYType ==
    ASSUME NEW y \in 0..Word-1
    PROVE  FlipY(y) \in 0..Word-1
<1>1. MaxY - y \in Int
  OBVIOUS
<1>2. QED
  BY <1>1 DEF FlipY

-----------------------------------------------------------------------------
(* Types.                                                                   *)

LEMMA ZeroReportType == ZeroReport \in Report
BY DEF ZeroReport, Report, Block

LEMMA DecodeType ==
    ASSUME TypeOK, NEW r \in Report
    PROVE  Decode(r) \in [Slots -> Transducer]
<1> SUFFICES ASSUME NEW i \in Slots
             PROVE  /\ i \in r.touch => Touching(transducers[i], r, i) \in Transducer
                    /\ Absent(transducers[i]) \in Transducer
  BY DEF Decode
<1>1. transducers[i] \in Transducer
  BY DEF TypeOK
<1>2. Absent(transducers[i]) \in Transducer
  BY <1>1 DEF Absent, Transducer, Tracked, Update
<1>3. ASSUME i \in r.touch
      PROVE  Touching(transducers[i], r, i) \in Transducer
  <2>1. r.touch \in SUBSET Slots /\ r.button \in BOOLEAN
        /\ r.blocks \in [Slots -> Block]
    BY DEF Report
  <2>2. Cardinality({j \in r.touch : j < i}) + 1 \in Slots
    BY <1>3, <2>1, BlockIndex
  <2>3. BlockOf(r, i) \in Block
    BY <2>1, <2>2 DEF BlockOf
  <2>4. BlockOf(r, i).x \in 0..Word-1 /\ FlipY(BlockOf(r, i).y) \in 0..Word-1
    BY <2>3, FlipYType DEF Block
  <2>5. QED
    BY <1>1, <2>1, <2>4 DEF Touching, Transducer, Tracked, Update
<1>4. QED
  BY <1>2, <1>3

LEMMA TouchCount ==
    ASSUME NEW r \in Report
    PROVE  Cardinality(r.touch) \in 0..Fingers
<1>1. IsFiniteSet(1..Fingers) /\ Cardinality(1..Fingers) = Fingers
  <2>1. Fingers \in Int /\ 1 \in Int /\ Fingers >= 1
    OBVIOUS
  <2>2. QED
    BY <2>1, FS_Interval
<1>2. r.touch \in SUBSET (1..Fingers)
  BY DEF Report, Slots
<1>3. IsFiniteSet(r.touch) /\ Cardinality(r.touch) <= Fingers
  BY <1>1, <1>2, FS_Subset
<1>4. Cardinality(r.touch) \in Nat
  BY <1>3, FS_CardinalityType
<1>5. QED
  BY <1>3, <1>4

\* Every variable keeps its type: in particular a turned y never leaves the
\* sixteen bits it is stored in, and no contact reads a block past the last.
THEOREM TypeCorrect == Spec => []TypeOK
<1>1. Init => TypeOK
  BY ZeroReportType
     DEF Init, TypeOK, Transducer, Tracked, Fresh
<1>2. TypeOK /\ [Next]_vars => TypeOK'
  <2> SUFFICES ASSUME TypeOK, [Next]_vars PROVE TypeOK'
    OBVIOUS
  <2>1. ASSUME NEW r \in Reports, DropDuplicate(r) PROVE TypeOK'
    BY <2>1 DEF TypeOK, DropDuplicate
  <2>2. ASSUME NEW r \in Reports, RejectId(r) PROVE TypeOK'
    BY <2>2 DEF TypeOK, RejectId
  <2>3. ASSUME NEW r \in Reports, Deliver(r) PROVE TypeOK'
    BY <2>3, DecodeType, TouchCount DEF TypeOK, Deliver
  <2>4. CASE UNCHANGED vars
    BY <2>4 DEF TypeOK
  <2>5. QED
    BY <2>1, <2>2, <2>3, <2>4 DEF Next
<1>3. QED
  BY <1>1, <1>2, PTL DEF Spec

-----------------------------------------------------------------------------
(* What the transducers show.                                               *)

\* A decoded report is shown.
LEMMA DecodeShows ==
    ASSUME NEW r \in Report, transducers' = Decode(r)
    PROVE  Shows(r)'
<1> SUFFICES ASSUME NEW i \in Slots
             PROVE  /\ Decode(r)[i].valid <=> i \in r.touch
                    /\ Decode(r)[i].tip.current <=> i \in r.touch
                    /\ Decode(r)[i].button.current <=> i \in r.touch /\ r.button
                    /\ i \in r.touch =>
                         LET block == r.blocks[Cardinality(r.touch \cap 1..i)]
                         IN  /\ Decode(r)[i].x.current = block.x
                             /\ Decode(r)[i].y.current = (MaxY - block.y) % Word
  BY DEF Shows
<1>1. CASE i \notin r.touch
  <2>1. Decode(r)[i] = Absent(transducers[i])
    BY <1>1 DEF Decode
  <2>2. QED
    BY <1>1, <2>1 DEF Absent, Update
<1>2. CASE i \in r.touch
  <2>1. Decode(r)[i] = Touching(transducers[i], r, i)
    BY <1>2 DEF Decode
  <2>2. BlockOf(r, i) = r.blocks[Cardinality(r.touch \cap 1..i)]
    <3>1. r.touch \in SUBSET Slots
      BY DEF Report
    <3>2. QED
      BY <1>2, <3>1, BlockIndex DEF BlockOf
  <2>3. r.button \in BOOLEAN
    BY DEF Report
  <2>4. Decode(r)[i].button.current <=> r.button
    BY <2>1, <2>3 DEF Touching, Update
  <2>5. Decode(r)[i].valid /\ Decode(r)[i].tip.current
    BY <2>1 DEF Touching, Update
  <2>6. /\ Decode(r)[i].x.current = BlockOf(r, i).x
        /\ Decode(r)[i].y.current = (MaxY - BlockOf(r, i).y) % Word
    BY <2>1 DEF Touching, Update, FlipY
  <2>7. QED
    BY <1>2, <2>2, <2>4, <2>5, <2>6
<1>3. QED
  BY <1>1, <1>2

\* While reportData_last holds a touch report the transducers show it.
THEOREM ShowsCorrect == Spec => []ShowsLastReport
<1>1. Init => ShowsLastReport
  BY DEF Init, ShowsLastReport, ZeroReport
<1>2. ShowsLastReport /\ [Next]_vars => ShowsLastReport'
  <2> SUFFICES ASSUME ShowsLastReport, [Next]_vars PROVE ShowsLastReport'
    OBVIOUS
  <2>1. ASSUME UNCHANGED <<lastReport, transducers>> PROVE ShowsLastReport'
    BY <2>1 DEF ShowsLastReport, Shows
  <2>2. ASSUME NEW r \in Reports, RejectId(r) PROVE ShowsLastReport'
    BY <2>2 DEF ShowsLastReport, RejectId
  <2>3. ASSUME NEW r \in Reports, Deliver(r) PROVE ShowsLastReport'
    <3>1. r \in Report /\ transducers' = Decode(r) /\ lastReport' = r
      BY <2>3 DEF Deliver
    <3>2. Shows(r)'
      BY <3>1, DecodeShows
    <3>3. QED
      BY <3>1, <3>2 DEF ShowsLastReport, Shows
  <2>4. QED
    BY <2>1, <2>2, <2>3 DEF Next, DropDuplicate
<1>3. QED
  BY <1>1, <1>2, PTL DEF Spec

\* The report read last is the one kept, or was dropped as its duplicate.
InputKept == input = lastReport \/ Duplicate(lastReport, input)

LEMMA InputKeptCorrect == Spec => []InputKept
<1>1. Init => InputKept
  BY DEF Init, InputKept
<1>2. InputKept /\ [Next]_vars => InputKept'
  BY DEF InputKept, Next, DropDuplicate, RejectId, Deliver, Duplicate
<1>3. QED
  BY <1>1, <1>2, PTL DEF Spec

\* A dropped report hides no lift, no new contact, no button and no move of the
\* first contact, while reportData_last holds a touch report.
THEOREM NothingHiddenCorrect == Spec => []NothingHidden
<1>1. TypeOK /\ ShowsLastReport /\ InputKept => NothingHidden
  <2> SUFFICES ASSUME TypeOK, ShowsLastReport, InputKept,
                      lastReport.id = "touch", NEW i \in Slots
               PROVE  /\ transducers[i].tip.current <=> i \in input.touch
                      /\ transducers[i].button.current
                            <=> i \in input.touch /\ input.button
                      /\ (i \in input.touch /\ \A j \in input.touch : i <= j) =>
                           /\ transducers[i].x.current = input.blocks[1].x
                           /\ transducers[i].y.current
                                 = (MaxY - input.blocks[1].y) % Word
    BY DEF NothingHidden
  <2>1. /\ input.touch = lastReport.touch
        /\ input.button = lastReport.button
        /\ input.blocks[1] = lastReport.blocks[1]
    BY DEF InputKept, Duplicate
  <2>2. Shows(lastReport)
    BY DEF ShowsLastReport
  <2>3. ASSUME i \in input.touch, \A j \in input.touch : i <= j
        PROVE  /\ transducers[i].x.current = input.blocks[1].x
               /\ transducers[i].y.current = (MaxY - input.blocks[1].y) % Word
    <3>1. lastReport.touch \in SUBSET Slots
      BY DEF TypeOK, Report
    <3>2. Cardinality(lastReport.touch \cap 1..i) = 1
      BY <2>1, <2>3, <3>1, FirstBlock
    <3>3. QED
      BY <2>1, <2>2, <2>3, <3>2 DEF Shows
  <2>4. QED
    BY <2>1, <2>2, <2>3 DEF Shows
<1>2. QED
  BY <1>1, TypeCorrect, ShowsCorrect, InputKeptCorrect, PTL

-----------------------------------------------------------------------------
(* The event.                                                               *)

\* An event announces as many contacts as it carries valid transducers.
THEOREM CountCorrect == Spec => []CountMatches
<1>1. Init => CountMatches
  BY DEF Init, CountMatches
<1>2. CountMatches /\ [Next]_vars => CountMatches'
  <2> SUFFICES ASSUME CountMatches, [Next]_vars PROVE CountMatches'
    OBVIOUS
  <2>1. ASSUME UNCHANGED <<transducers, delivered>> PROVE CountMatches'
    BY <2>1 DEF CountMatches
  <2>2. ASSUME NEW r \in Reports, Deliver(r) PROVE CountMatches'
    <3>1. r.touch \in SUBSET Slots /\ r \in Report
      BY DEF Report
    <3>2. {i \in Slots : Decode(r)[i].valid} = r.touch
      BY <3>1 DEF Decode, Touching, Absent
    <3>3. QED
      BY <2>2, <3>2 DEF CountMatches, Deliver
  <2>3. QED
    BY <2>1, <2>2 DEF Next, DropDuplicate, RejectId
<1>3. QED
  BY <1>1, <1>2, PTL DEF Spec

\* A lifted contact keeps its last two positions, in one order or the other.
THEOREM LiftedContactsStayCorrect == Spec => LiftedContactsStay
<1> DEFINE Stays == \A i \in Slots : ~transducers'[i].valid =>
           /\ Positions(transducers'[i].x) = Positions(transducers[i].x)
           /\ Positions(transducers'[i].y) = Positions(transducers[i].y)
<1>1. Next => [Stays]_vars
  <2>1. ASSUME UNCHANGED transducers PROVE Stays
    BY <2>1
  <2>2. ASSUME NEW r \in Reports, Deliver(r), NEW i \in Slots,
               ~transducers'[i].valid
        PROVE  /\ Positions(transducers'[i].x) = Positions(transducers[i].x)
               /\ Positions(transducers'[i].y) = Positions(transducers[i].y)
    <3>1. transducers'[i] = Absent(transducers[i])
      BY <2>2 DEF Deliver, Decode, Touching
    <3>2. QED
      BY <3>1 DEF Absent, Positions, Update
  <2>3. QED
    BY <2>1, <2>2 DEF Next, DropDuplicate, RejectId
<1>2. QED
  BY <1>1, PTL DEF Spec, LiftedContactsStay

-----------------------------------------------------------------------------
(* The frames of an event without contacts.                                 *)

LEMMA FourFrames ==
    ASSUME NEW a, NEW b, NEW c, NEW d, NEW s, s = <<a>> \o <<b, c, d>>
    PROVE  Len(s) = 4 /\ s[4] = d /\ s # <<>>
<1>1. <<a>> \in Seq({a, b, c, d}) /\ <<b, c, d>> \in Seq({a, b, c, d})
  OBVIOUS
<1>2. QED
  BY <1>1

\* A report without contacts lifts every transducer.
LEMMA EmptyDecode ==
    ASSUME NEW r \in Reports, r.touch = {}, Deliver(r)
    PROVE  /\ delivered' = 0
           /\ \A i \in Slots : ~transducers'[i].valid
           /\ transducers'[1].button.current = FALSE
<1>1. delivered' = 0
  BY FS_EmptySet DEF Deliver
<1>2. ASSUME NEW i \in Slots
      PROVE  ~transducers'[i].valid /\ transducers'[i].button.current = FALSE
  BY DEF Deliver, Decode, Absent, Update, Slots
<1>3. 1 \in Slots
  BY DEF Slots
<1>4. QED
  BY <1>1, <1>2, <1>3

LEMMA EmptyFrame ==
    ASSUME NEW fingers
    PROVE  Simulator!Frame(FALSE, FALSE, fingers, 0)
             = [active |-> FALSE, button |-> FALSE, fingers |-> <<>>]
<1>1. SubSeq(fingers, 1, 0) = <<>>
  BY SubSeqEmpty, 1 \in Int, 0 \in Int
<1>2. QED
  BY <1>1 DEF Simulator!Frame

\* The last frame of an event without contacts is empty and inactive.
LEMMA EmptyFrames ==
    ASSUME NEW T, \A i \in Slots : ~T[i].valid, T[1].button.current = FALSE
    PROVE  /\ Simulator!Frames(T, 0) # <<>>
           /\ Simulator!Frames(T, 0)[Len(Simulator!Frames(T, 0))]
                = [active |-> FALSE, button |-> FALSE, fingers |-> <<>>]
<1> DEFINE fingers == Simulator!FingerData(T, 0, FALSE)
           flat == [fingers EXCEPT ![1].size = 0, ![1].pressure = 0]
           raised == [flat EXCEPT ![1].state = "released"]
           F(x, n) == Simulator!Frame(FALSE, FALSE, x, n)
<1>1. \A i \in Simulator!LookedAt(0) :
        ~Simulator!Down(T[i]) /\ ~Simulator!ErrorInput(T[i])
  BY DEF Simulator!LookedAt, Simulator!Down, Simulator!ErrorInput,
         Simulator!Slots, Slots
<1>2. Simulator!Activity(T, 0, FALSE) = <<F(fingers, 0)>>
  BY <1>1 DEF Simulator!Activity
<1>3. Simulator!Release(fingers, FALSE, 0)
        = <<F(flat, 0), F(raised, 0), F(flat, 0)>>
  BY DEF Simulator!Release
<1>4. Simulator!Frames(T, 0) = Simulator!Activity(T, 0, FALSE)
                                 \o Simulator!Release(fingers, FALSE, 0)
  BY <1>1 DEF Simulator!Frames
<1>5. F(flat, 0) = [active |-> FALSE, button |-> FALSE, fingers |-> <<>>]
  BY EmptyFrame
<1> HIDE DEF fingers, flat, raised, F
<1>6. Simulator!Frames(T, 0)
        = <<F(fingers, 0)>> \o <<F(flat, 0), F(raised, 0), F(flat, 0)>>
  BY <1>2, <1>3, <1>4
<1>7. /\ Len(Simulator!Frames(T, 0)) = 4
      /\ Simulator!Frames(T, 0)[4] = F(flat, 0)
      /\ Simulator!Frames(T, 0) # <<>>
  BY <1>6, FourFrames
<1>8. QED
  BY <1>5, <1>7

-----------------------------------------------------------------------------
(* The frames of an event with contacts.                                    *)

LEMMA FramesOfTwo ==
    ASSUME NEW a, NEW b, NEW c, NEW d
    PROVE  /\ <<a>> \o <<b, c, d>> # <<>>
           /\ (<<a>> \o <<b, c, d>>)[Len(<<a>> \o <<b, c, d>>)] = d
           /\ <<a>> \o <<>> = <<a>>
           /\ <<a>>[Len(<<a>>)] = a
<1>1. <<a>> \o <<b, c, d>> # <<>> /\ (<<a>> \o <<b, c, d>>)[Len(<<a>> \o <<b, c, d>>)] = d
  BY FourFrames
<1>2. <<a>> \in Seq({a}) /\ <<a>> \o <<>> = <<a>>
  BY ConcatEmptySeq
<1>3. QED
  BY <1>1, <1>2

\* The entries a frame has room for.
Cut(T, n, b) == SubSeq(Simulator!FingerData(T, n, b), 1, n)

LEMMA CutEntries ==
    ASSUME NEW T, NEW n \in 0..Fingers, NEW b
    PROVE  /\ Len(Cut(T, n, b)) = n
           /\ DOMAIN Cut(T, n, b) = 1..n
           /\ \A k \in 1..n : Cut(T, n, b)[k].id = IF T[k].valid THEN k ELSE 0
<1> DEFINE data == Simulator!FingerData(T, n, b)
           cut == Cut(T, n, b)
<1>1. \A k \in 1..n : k \in Slots /\ k \in Simulator!LookedAt(n)
  BY DEF Simulator!LookedAt, Simulator!Slots, Slots
<1>2. \A k \in 1..n : data[k].id = IF T[k].valid THEN k ELSE 0
  <2> SUFFICES ASSUME NEW k \in 1..n
               PROVE  data[k].id = IF T[k].valid THEN k ELSE 0
    OBVIOUS
  <2>1. data[k] = IF T[k].valid
                    THEN Simulator!Entry(k, T[k],
                             Simulator!Phase(T[k], touchState[k]), b)
                    ELSE Simulator!ZeroEntry
    BY <1>1 DEF Simulator!FingerData, Simulator!Slots, Slots
  <2>2. QED
    BY <2>1 DEF Simulator!Entry, Simulator!ZeroEntry
<1>3. DOMAIN data = 1..Fingers
  BY DEF Simulator!FingerData, Simulator!Slots
<1>4. data \in [1..Fingers -> {data[k] : k \in 1..Fingers}]
  BY DEF Simulator!FingerData, Simulator!Slots
<1>0. cut = SubSeq(data, 1, n)
  BY DEF Cut
<1> HIDE DEF data, cut
<1>5. data \in Seq({data[k] : k \in 1..Fingers}) /\ Len(data) = Fingers
  <2>1. data \in Seq({data[k] : k \in 1..Fingers})
    BY <1>4, SeqDef, Fingers \in Nat
  <2>2. QED
    BY <1>3, <2>1, LenProperties, Fingers \in Nat
<1>6. Len(cut) = n /\ DOMAIN cut = 1..n /\ \A k \in 1..n : cut[k] = data[k]
  BY <1>0, <1>5, Fingers \in Nat
<1>7. QED
  BY <1>2, <1>6 DEF cut

\* A delivered report is the one read last, and is not masked.
LEMMA DeliveredIsHeard ==
    ASSUME NEW r \in Reports, Deliver(r), Heard(r)
    PROVE  touched' = [touch |-> r.touch, button |-> r.button] /\ ~masked'
BY DEF Deliver, Heard

\* What the host is shown by an event that is not suppressed: an inactive frame
\* without entries when no contact was found down, and else every contact found
\* down whose entry the frame has room for.
LEMMA ShownByEvent ==
    ASSUME NEW r \in Reports, Deliver(r), Heard(r), ~Suppressed',
           Simulator!ConstructReport(transducers', delivered')
    PROVE  \/ /\ \A i \in r.touch : i > Cardinality(r.touch) + 1
              /\ Shown'.fingers = <<>>
           \/ Shown' = [active |-> TRUE, button |-> transducers'[1].button.current,
                        fingers |-> Cut(transducers', delivered',
                                        transducers'[1].button.current)]
<1> DEFINE T == transducers'
           n == Cardinality(r.touch)
           b == T[1].button.current
           data == Simulator!FingerData(T, n, b)
           looked == Simulator!LookedAt(n)
<1>1. /\ lastReport' = r /\ delivered' = n /\ n \in 0..Fingers
      /\ \A i \in Slots : /\ T[i].valid <=> i \in r.touch
                          /\ T[i].tip.current <=> i \in r.touch
  BY DecodeShows, TouchCount DEF Deliver, Shows
<1>2. \A i \in Slots : i \in looked <=> i <= n + 1
  BY <1>1 DEF Simulator!LookedAt, Simulator!Slots, Slots
<1>3. looked \subseteq Slots /\ r.touch \subseteq Slots
  BY DEF Simulator!LookedAt, Simulator!Slots, Slots, Report
<1>4. \A i \in looked : ~Simulator!ErrorInput(T[i])
  <2>1. touched'.touch = r.touch
    BY DeliveredIsHeard
  <2>2. QED
    BY <1>1, <1>2, <1>3, <2>1 DEF Suppressed, Simulator!ErrorInput
<1>5. \A i \in looked : Simulator!Down(T[i]) <=> i \in r.touch
  BY <1>1, <1>3 DEF Simulator!Down
<1>6. hid' = LET sent == Simulator!Frames(T, n)
             IN  IF sent = <<>> THEN hid ELSE sent
  BY <1>1 DEF Simulator!ConstructReport
<1>7. CASE \E i \in looked : i \in r.touch
  <2> DEFINE frame == Simulator!Frame(TRUE, b, data, n)
  <2>1. \E i \in looked : Simulator!Down(T[i])
    BY <1>5, <1>7
  <2>2. Simulator!Activity(T, n, b) = <<frame>>
    <3>1. (\E i \in looked : Simulator!Down(T[i])) = TRUE
      BY <2>1
    <3>2. QED
      BY <1>4, <3>1, Zenon DEF Simulator!Activity
  <2>3. Simulator!Frames(T, n) = <<frame>> \o <<>>
    BY <2>1, <2>2 DEF Simulator!Frames
  <2> HIDE DEF frame
  <2>4. hid' = <<frame>>
    BY <1>6, <2>3, FramesOfTwo
  <2>5. Shown' = frame
    BY <2>4, FramesOfTwo DEF Shown
  <2>6. QED
    BY <1>1, <2>5 DEF frame, Simulator!Frame, Cut
<1>8. CASE \A i \in looked : i \notin r.touch
  <2> DEFINE flat == [data EXCEPT ![1].size = 0, ![1].pressure = 0]
             raised == [flat EXCEPT ![1].state = "released"]
             F(x, m) == Simulator!Frame(FALSE, b, x, m)
             first == Simulator!Frame(
                 \E i \in looked : Simulator!Down(T[i]), b, data, n)
  <2>1. ~\E i \in looked : Simulator!Down(T[i])
    BY <1>5, <1>8
  <2>2. Simulator!Activity(T, n, b) = <<first>>
    BY <1>4, Zenon DEF Simulator!Activity
  <2>3. Simulator!Release(data, b, n) = <<F(flat, n), F(raised, n), F(flat, 0)>>
    BY DEF Simulator!Release
  <2>4. Simulator!Frames(T, n)
          = Simulator!Activity(T, n, b) \o Simulator!Release(data, b, n)
    BY <2>1 DEF Simulator!Frames
  <2>5. F(flat, 0).fingers = <<>>
    BY SubSeqEmpty, 1 \in Int, 0 \in Int DEF Simulator!Frame
  <2> HIDE DEF first, F, flat, raised
  <2>6. hid' # <<>> /\ hid'[Len(hid')] = F(flat, 0)
    BY <1>6, <2>2, <2>3, <2>4, FramesOfTwo
  <2>7. \A i \in r.touch : i > n + 1
    BY <1>1, <1>2, <1>3, <1>8 DEF Slots
  <2>8. QED
    BY <2>5, <2>6, <2>7 DEF Shown
<1>9. QED
  BY <1>7, <1>8

-----------------------------------------------------------------------------
\* No HID report is sent before the simulator has started.
SilentBeforeReady == ~ready => hid = <<>>

LEMMA SilentBeforeReadyCorrect == PathSpec => []SilentBeforeReady
<1>1. PathInit => SilentBeforeReady
  BY DEF PathInit, Simulator!Init, SilentBeforeReady
<1>2. SilentBeforeReady /\ [PathNext]_pathVars => SilentBeforeReady'
  BY DEF SilentBeforeReady, PathNext, StartSimulator, Simulator!Start,
         StopAtParser, DropDuplicate, RejectId, HandOn, Simulator!ConstructReport
<1>3. QED
  BY <1>1, <1>2, PTL DEF PathSpec

\* While reportData_last is a touch report, the one read last has its contacts and
\* its button, and is not masked.
TouchedMatches ==
    lastReport.id = "touch" =>
        /\ touched = [touch |-> lastReport.touch, button |-> lastReport.button]
        /\ masked = FALSE

LEMMA TouchedMatchesCorrect == PathSpec => []TouchedMatches
<1>1. PathInit => TouchedMatches
  BY DEF PathInit, Init, ZeroReport, TouchedMatches
<1>2. TouchedMatches /\ [PathNext]_pathVars => TouchedMatches'
  <2> SUFFICES ASSUME TouchedMatches, [PathNext]_pathVars
               PROVE  TouchedMatches'
    OBVIOUS
  <2>1. ASSUME UNCHANGED <<lastReport, touched, masked>> PROVE TouchedMatches'
    BY <2>1 DEF TouchedMatches
  <2>2. ASSUME NEW r \in Reports, StopAtParser(r) PROVE TouchedMatches'
    <3>1. CASE DropDuplicate(r) /\ r.id = "touch"
      <4>1. /\ lastReport' = lastReport
            /\ touched' = [touch |-> r.touch, button |-> r.button]
            /\ masked' = (lastReport.id # "touch")
            /\ r.touch = lastReport.touch /\ r.button = lastReport.button
        BY <2>2, <3>1 DEF StopAtParser, DropDuplicate, Heard, Duplicate
      <4>2. QED
        BY <4>1 DEF TouchedMatches
    <3>2. CASE DropDuplicate(r) /\ r.id # "touch"
      BY <2>1, <2>2, <3>2 DEF StopAtParser, DropDuplicate, Heard
    <3>3. CASE RejectId(r)
      BY <3>3 DEF RejectId, TouchedMatches
    <3>4. QED
      BY <2>2, <3>1, <3>2, <3>3 DEF StopAtParser
  <2>3. ASSUME NEW r \in Reports, HandOn(r) PROVE TouchedMatches'
    BY <2>3 DEF HandOn, Deliver, Heard, TouchedMatches
  <2>4. QED
    BY <2>1, <2>2, <2>3 DEF PathNext, StartSimulator
<1>3. QED
  BY <1>1, <1>2, PTL DEF PathSpec

\* The invariant of the path: what no step but a delivery disturbs.
PathInv == SilentBeforeReady /\ TouchedMatches

LEMMA PathInvCorrect == PathSpec => []PathInv
BY SilentBeforeReadyCorrect, TouchedMatchesCorrect, PTL DEF PathInv

\* A step that hands the simulator nothing leaves what the host was shown and the
\* contacts it stands for, unless it masks a touch report.
LEMMA ShownContactsKept ==
    ASSUME PathInv, [PathNext]_pathVars,
           ~\E r \in Reports : Deliver(r) /\ Heard(r)
              /\ Simulator!ConstructReport(transducers', delivered')
    PROVE  \/ UNCHANGED <<touched, masked, transducers, hid>>
           \/ ~Current'
<1>1. ASSUME NEW r \in Reports, StopAtParser(r)
      PROVE  UNCHANGED <<touched, masked, transducers, hid>> \/ ~Current'
  <2>1. UNCHANGED <<transducers, hid>> /\ Heard(r)
    BY <1>1 DEF StopAtParser, DropDuplicate, RejectId
  <2>2. CASE r.id # "touch"
    BY <2>1, <2>2 DEF Heard
  <2>3. CASE r.id = "touch" /\ lastReport.id = "touch"
    <3>1. /\ touched' = [touch |-> r.touch, button |-> r.button]
          /\ masked' = FALSE
      BY <2>1, <2>3 DEF Heard
    <3>2. r.touch = lastReport.touch /\ r.button = lastReport.button
      BY <1>1, <2>3 DEF StopAtParser, DropDuplicate, RejectId, Duplicate
    <3>3. UNCHANGED <<touched, masked>>
      BY <2>3, <3>1, <3>2 DEF PathInv, TouchedMatches
    <3>4. QED
      BY <2>1, <3>3
  <2>4. CASE r.id = "touch" /\ lastReport.id # "touch"
    BY <1>1, <2>1, <2>4
       DEF StopAtParser, DropDuplicate, RejectId, Heard, Current
  <2>5. QED
    BY <2>2, <2>3, <2>4
<1>2. ASSUME NEW r \in Reports, HandOn(r) PROVE ~Current'
  <2>1. ~ready /\ UNCHANGED hid
    BY <1>2 DEF HandOn
  <2>2. QED
    BY <2>1 DEF PathInv, SilentBeforeReady, Current
<1>3. QED
  BY <1>1, <1>2 DEF PathNext, StartSimulator, Simulator!Start

\* After the report of a lift the last frame is empty and inactive.
LEMMA LiftByEvent ==
    ASSUME NEW r \in Reports, Deliver(r), Heard(r),
           Simulator!ConstructReport(transducers', delivered')
    PROVE  NoStuckTouch'
<1>1. CASE r.touch = {} /\ ready
  <2>1. hid' = LET sent == Simulator!Frames(transducers', delivered')
               IN  IF sent = <<>> THEN hid ELSE sent
    BY <1>1 DEF Simulator!ConstructReport
  <2>2. hid' # <<>> /\ hid'[Len(hid')]
           = [active |-> FALSE, button |-> FALSE, fingers |-> <<>>]
    BY <1>1, <2>1, EmptyDecode, EmptyFrames
  <2>3. QED
    BY <2>2 DEF NoStuckTouch, Shown
<1>2. CASE r.touch # {}
  BY <1>2, DeliveredIsHeard DEF NoStuckTouch
<1>3. QED
  BY <1>1, <1>2 DEF Simulator!ConstructReport

\* When the last finger has left, the last HID report is empty and inactive,
\* unless the lift was dropped as a duplicate of what is no touch report.
THEOREM NoStuckTouchCorrect == PathSpec => []NoStuckTouch
<1>1. PathInit => NoStuckTouch
  BY DEF PathInit, Simulator!Init, NoStuckTouch, Current
<1>2. PathInv /\ NoStuckTouch /\ [PathNext]_pathVars => NoStuckTouch'
  <2> SUFFICES ASSUME PathInv, NoStuckTouch, [PathNext]_pathVars
               PROVE  NoStuckTouch'
    OBVIOUS
  <2>1. CASE UNCHANGED <<touched, masked, transducers, hid>>
    BY <2>1 DEF NoStuckTouch, Current, Shown
  <2>2. CASE ~Current'
    BY <2>2 DEF NoStuckTouch
  <2>3. QED
    BY <2>1, <2>2, ShownContactsKept, LiftByEvent
<1>3. QED
  BY <1>1, <1>2, PathInvCorrect, PTL DEF PathSpec

-----------------------------------------------------------------------------
(* The contacts the host is shown.                                          *)

\* Contacts that fill the first slots are all shown, each in its own entry, and
\* the button with them, by every event that is not suppressed.
LEMMA PackedContactsByEvent ==
    ASSUME NEW r \in Reports, Deliver(r), Heard(r),
           Simulator!ConstructReport(transducers', delivered')
    PROVE  PackedContactsShown'
<1> SUFFICES ASSUME NEW n \in Slots, ~Suppressed', r.touch = 1..n
             PROVE  /\ Shown'.active
                    /\ Shown'.button <=> r.button
                    /\ Len(Shown'.fingers) = n
                    /\ \A k \in 1..n : Shown'.fingers[k].id = k
  BY DeliveredIsHeard DEF PackedContactsShown, Shown, Slots
<1>1. n \in 1..Fingers /\ 1 \in r.touch
  BY DEF Slots
<1>2. Cardinality(r.touch) = n
  BY <1>1, FS_Interval, 1 \in Int, n \in Int
<1>3. /\ delivered' = n
      /\ \A i \in Slots : /\ transducers'[i].valid <=> i \in r.touch
                          /\ transducers'[i].button.current <=> i \in r.touch /\ r.button
  BY <1>2, DecodeShows DEF Deliver, Shows
<1> DEFINE b == transducers'[1].button.current
           cut == Cut(transducers', n, b)
<1>4. Shown' = [active |-> TRUE, button |-> b, fingers |-> cut]
  <2>1. ~(1 > Cardinality(r.touch) + 1)
    <3>1. n \in Nat /\ 1 <= n
      BY <1>1
    <3>2. QED
      BY <1>2, <3>1
  <2>2. ~\A i \in r.touch : i > Cardinality(r.touch) + 1
    BY <1>1, <2>1
  <2>3. QED
    BY <1>3, <2>2, ShownByEvent
<1>5. /\ Len(cut) = n
      /\ \A k \in 1..n : cut[k].id = IF transducers'[k].valid THEN k ELSE 0
  <2>1. n \in 0..Fingers
    BY <1>1
  <2> HIDE DEF b
  <2>2. Len(Cut(transducers', n, b)) = n
    BY <2>1, CutEntries
  <2>3. \A k \in 1..n :
          Cut(transducers', n, b)[k].id = IF transducers'[k].valid THEN k ELSE 0
    BY <2>1, CutEntries
  <2>4. QED
    BY <2>2, <2>3
<1> HIDE DEF cut
<1>6. \A k \in 1..n : transducers'[k].valid
  BY <1>1, <1>3 DEF Slots
<1>7. b <=> r.button
  BY <1>1, <1>3 DEF Slots
<1>8. QED
  BY <1>4, <1>5, <1>6, <1>7 DEF cut

\* No frame of an event that is not suppressed shows a contact that is up.
LEMMA NoGhostByEvent ==
    ASSUME NEW r \in Reports, Deliver(r), Heard(r),
           Simulator!ConstructReport(transducers', delivered')
    PROVE  NoGhostContact'
<1> SUFFICES ASSUME ~Suppressed', NEW k \in DOMAIN Shown'.fingers,
                    Shown'.fingers[k].id # 0
             PROVE  Shown'.fingers[k].id \in r.touch
  BY DeliveredIsHeard DEF NoGhostContact, Shown
<1>1. delivered' \in 0..Fingers
  BY TouchCount DEF Deliver
<1>2. \A i \in Slots : transducers'[i].valid <=> i \in r.touch
  BY DecodeShows DEF Deliver, Shows
<1> DEFINE n == delivered'
           b == transducers'[1].button.current
           cut == Cut(transducers', n, b)
<1>3. CASE Shown'.fingers = <<>>
  BY <1>3
<1>4. CASE Shown'.fingers = cut
  <2>1. /\ DOMAIN cut = 1..n
        /\ \A j \in 1..n : cut[j].id = IF transducers'[j].valid THEN j ELSE 0
    <3>1. n \in 0..Fingers
      BY <1>1
    <3>2. QED
      BY <3>1, CutEntries
  <2> HIDE DEF cut
  <2>2. k \in 1..n /\ k \in Slots /\ transducers'[k].valid /\ cut[k].id = k
    BY <1>1, <1>4, <2>1 DEF Slots
  <2>3. QED
    BY <1>2, <1>4, <2>2
<1>5. QED
  BY <1>3, <1>4, ShownByEvent

\* Contacts that fill the first slots are all shown, and the button with them.
THEOREM PackedContactsShownCorrect == PathSpec => []PackedContactsShown
<1>1. PathInit => PackedContactsShown
  BY DEF PathInit, Simulator!Init, PackedContactsShown, Current
<1>2. PathInv /\ PackedContactsShown /\ [PathNext]_pathVars
        => PackedContactsShown'
  <2> SUFFICES ASSUME PathInv, PackedContactsShown, [PathNext]_pathVars
               PROVE  PackedContactsShown'
    OBVIOUS
  <2>1. CASE UNCHANGED <<touched, masked, transducers, hid>>
    BY <2>1 DEF PackedContactsShown, Current, Suppressed, Shown
  <2>2. CASE ~Current'
    BY <2>2 DEF PackedContactsShown
  <2>3. QED
    BY <2>1, <2>2, ShownContactsKept, PackedContactsByEvent
<1>3. QED
  BY <1>1, <1>2, PathInvCorrect, PTL DEF PathSpec

\* No HID report shows a contact that is up, wherever the gaps are.
THEOREM NoGhostContactCorrect == PathSpec => []NoGhostContact
<1>1. PathInit => NoGhostContact
  BY DEF PathInit, Simulator!Init, NoGhostContact, Current
<1>2. PathInv /\ NoGhostContact /\ [PathNext]_pathVars => NoGhostContact'
  <2> SUFFICES ASSUME PathInv, NoGhostContact, [PathNext]_pathVars
               PROVE  NoGhostContact'
    OBVIOUS
  <2>1. CASE UNCHANGED <<touched, masked, transducers, hid>>
    BY <2>1 DEF NoGhostContact, Current, Suppressed, Shown
  <2>2. CASE ~Current'
    BY <2>2 DEF NoGhostContact
  <2>3. QED
    BY <2>1, <2>2, ShownContactsKept, NoGhostByEvent
<1>3. QED
  BY <1>1, <1>2, PathInvCorrect, PTL DEF PathSpec

-----------------------------------------------------------------------------
(* Touch phases.                                                            *)

LEMMA SlotLookedAt ==
    ASSUME NEW i \in Slots, NEW n \in Int, i <= n + 1
    PROVE  i \in Simulator!LookedAt(n)
BY DEF Simulator!LookedAt, Simulator!Slots, Slots

LEMMA CountIsNatural ==
    ASSUME NEW r \in Reports, Deliver(r)
    PROVE  delivered' \in Nat
<1>1. r.touch \in SUBSET (1..Fingers)
  BY DEF Report, Slots
<1>2. IsFiniteSet(1..Fingers)
  BY FS_Interval, 1 \in Int, Fingers \in Int
<1>3. Cardinality(r.touch) \in Nat
  BY <1>1, <1>2, FS_Subset, FS_CardinalityType
<1>4. QED
  BY <1>3 DEF Deliver

\* A contact found up by an event that looked at its slot is forgotten.
THEOREM LiftedContactsForgottenCorrect == PathSpec => []LiftedContactsForgotten
<1>1. PathInit => LiftedContactsForgotten
  BY DEF PathInit, Simulator!Init, LiftedContactsForgotten
<1>2. LiftedContactsForgotten /\ [PathNext]_pathVars => LiftedContactsForgotten'
  <2> SUFFICES ASSUME LiftedContactsForgotten, [PathNext]_pathVars
               PROVE  LiftedContactsForgotten'
    OBVIOUS
  <2>1. ASSUME UNCHANGED <<ready, touchState, transducers, delivered>>
        PROVE  LiftedContactsForgotten'
    BY <2>1 DEF LiftedContactsForgotten
  <2>2. CASE StartSimulator
    BY <2>2 DEF LiftedContactsForgotten, StartSimulator, Simulator!Start,
                Simulator!Slots, Slots
  <2>3. ASSUME NEW r \in Reports, HandOn(r) PROVE LiftedContactsForgotten'
    <3>1. CASE ~ready
      BY <2>3, <3>1 DEF LiftedContactsForgotten, HandOn,
                        Simulator!ConstructReport
    <3>2. ASSUME ready, NEW i \in Slots, ~transducers'[i].valid,
                 i <= delivered' + 1
          PROVE  touchState'[i] = 0
      <4>1. touchState' = Simulator!Phases(transducers', delivered')
        BY <2>3, <3>2 DEF HandOn, Simulator!ConstructReport
      <4>2. delivered' \in Int
        BY <2>3, CountIsNatural DEF HandOn
      <4>3. i \in Simulator!LookedAt(delivered')
        BY <3>2, <4>2, SlotLookedAt
      <4>4. QED
        BY <3>2, <4>1, <4>3 DEF Simulator!Phases, Simulator!Phase,
                                Simulator!Slots, Slots
    <3>3. QED
      BY <3>1, <3>2 DEF LiftedContactsForgotten
  <2>4. QED
    BY <2>1, <2>2, <2>3
       DEF PathNext, StopAtParser, DropDuplicate, RejectId
<1>3. QED
  BY <1>1, <1>2, PTL DEF PathSpec

=============================================================================
