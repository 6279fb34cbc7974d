------------------------ MODULE MultitouchInterface ------------------------
(***************************************************************************)
(* VoodooI2CMultitouchInterfaceAS: engines open it, each on the thread     *)
(* that matched it, while a report may be on its way through them under    *)
(* the work loop's gate.                                                   *)
(*                                                                         *)
(* An engine that stops is not taken out of the ordered set: close is that *)
(* of IOService.  That a reader may meet the set in the middle of an       *)
(* insertion is left out.                                                  *)
(***************************************************************************)
EXTENDS Integers, Sequences, FiniteSets

CONSTANTS Engines,  \* the engines that may be matched
          Score     \* getScore of each

ASSUME EnginesAssumption ==
    /\ IsFiniteSet(Engines)
    /\ Score \in [Engines -> Nat]

VARIABLES engines,     \* the ordered set
          forwarding,  \* handleInterruptReport is in its loop
          at,          \* i, counted from 1
          count,       \* the number of engines when the loop began
          handled,     \* the engines that had this report, in order
          opened,      \* the engines that opened during it
          broken       \* an engine answered Break

vars == <<engines, forwarding, at, count, handled, opened, broken>>

Init ==
    /\ engines = <<>>
    /\ forwarding = FALSE
    /\ at = 1
    /\ count = 0
    /\ handled = <<>>
    /\ opened = {}
    /\ broken = FALSE

Members == {engines[k] : k \in DOMAIN engines}

\* Mutant: the lower score comes first.
BeforeReversed(e, f) == Score[e] <= Score[f]

\* orderEngines: e stays before the newcomer f.
Before(e, f) == Score[e] >= Score[f]

\* Mutant: engines stay in the order they opened in.
QueuedLast(f) == Append(engines, f)

\* OSOrderedSet queues an object behind those of the same order.
Queued(f) ==
    LET n == Cardinality({k \in DOMAIN engines : Before(engines[k], f)})
    IN  SubSeq(engines, 1, n) \o <<f>> \o SubSeq(engines, n + 1, Len(engines))

Admitted(e) == e \notin Members

Open(e) ==
    /\ Admitted(e)
    /\ engines' = Queued(e)
    /\ opened' = IF forwarding THEN opened \cup {e} ELSE opened
    /\ UNCHANGED <<forwarding, at, count, handled, broken>>

Begin ==
    /\ ~forwarding
    /\ forwarding' = TRUE
    /\ at' = 1
    /\ count' = Len(engines)
    /\ handled' = <<>>
    /\ opened' = {}
    /\ broken' = FALSE
    /\ UNCHANGED engines

More == at <= count

\* The engine at i answers Continue or Break.
Handle ==
    /\ forwarding
    /\ More
    /\ handled' = Append(handled, engines[at])
    /\ \/ at' = at + 1 /\ UNCHANGED <<forwarding, broken>>
       \/ forwarding' = FALSE /\ broken' = TRUE /\ UNCHANGED at
    /\ UNCHANGED <<engines, count, opened>>

Finish ==
    /\ forwarding
    /\ ~More
    /\ forwarding' = FALSE
    /\ UNCHANGED <<engines, at, count, handled, opened, broken>>

Next == Begin \/ Handle \/ Finish \/ \E e \in Engines : Open(e)

Spec == Init /\ [][Next]_vars

-----------------------------------------------------------------------------
(* Properties                                                               *)

Times(e) == Cardinality({k \in DOMAIN handled : handled[k] = e})

\* A report during which no engine opens reaches every engine that was open,
\* once each, the higher score first, down to the one that breaks.
QuietReportReachesAll ==
    opened = {} /\ ~forwarding /\ handled # <<>> =>
        /\ \A j, k \in DOMAIN handled :
              j < k => handled[j] # handled[k]
                       /\ Score[handled[j]] >= Score[handled[k]]
        /\ ~broken => Len(handled) = count

\* The engines that were open when the report came and have not had it.
Unreached == {e \in Members \ opened : Times(e) = 0}

\* Engines that open during a report disturb it little: an engine sees the report
\* again only once for each of them, a single one does not upset the order, and at
\* the end of the loop no more engines than opened have been left out for them.
OpensDisturbLittle ==
    /\ \A e \in Engines : Times(e) <= 1 + Cardinality(opened)
    /\ Cardinality(opened) <= 1 =>
          \A j, k \in DOMAIN handled : j < k => Score[handled[j]] >= Score[handled[k]]
    /\ forwarding /\ ~More => Cardinality(Unreached) <= Cardinality(opened)

\* "Forwards a multitouch event to the attached multitouch engines": at the end
\* of the loop every engine that was open when it began has had the report.
AttachedEnginesReached ==
    forwarding /\ ~More => Unreached = {}

=============================================================================
