--------------------------- MODULE I2CDevice_proofs ---------------------------
(***************************************************************************)
(* For any number of report threads: the safety properties of I2CDevice,   *)
(* each layer of the inductive invariant resting on the ones before it.    *)
(*                                                                         *)
(*    TypeOK  ->  LockInv  ->  BusInv   ->  SerialisesBus                  *)
(*                         ->  PhaseInv                                    *)
(*                         ->  TransferOwned                               *)
(*                         ->  RunsDown, NeverStuck, NotifyClearedFirst    *)
(***************************************************************************)
EXTENDS I2CDevice, TLAPS

\* The vocabulary of every step: the threads and the tuples of variables.
USE ConstantsAssumption
    DEF Threads, Goto, vars, threadVars, transferVars, interruptVars

-----------------------------------------------------------------------------
(* Layer 1: the types.                                                      *)

LEMMA TypeInit == Init => TypeOK
<1>1. Init => ControlTypeOK
  BY DEF Init, ControlTypeOK, MainLabels, ReaderLabels, TransferLabels,
         Stages, MainStages
<1>2. Init => DataTypeOK
  BY DEF Init, DataTypeOK, Flags
<1>3. QED
  BY <1>1, <1>2 DEF TypeOK

\* Reading or writing the status register leaves a set of flags.
LEMMA StatusType ==
    ASSUME NEW S \in SUBSET Flags, NEW T
    PROVE  AfterRead(S) \subseteq Flags /\ AfterWrite(S, T) \subseteq Flags
BY DEF AfterRead, AfterWrite, Flags

\* A transaction's return leaves its thread on a label of its own kind.
LEMMA ReturnType ==
    ASSUME TypeOK, NEW t \in Threads, NEW r, Return(t, r)
    PROVE  /\ ControlTypeOK'
           /\ r \in {"ok", "error"}
                => result' \in [Threads -> {"none", "ok", "error"}]
<1>1. ControlTypeOK'
  BY DEF TypeOK, ControlTypeOK, MainLabels, ReaderLabels, TransferLabels,
       Return, Stages, MainStages
<1>2. ASSUME r \in {"ok", "error"}
      PROVE  result' \in [Threads -> {"none", "ok", "error"}]
  BY <1>2 DEF TypeOK, DataTypeOK, Return
<1>3. QED
  BY <1>1, <1>2

LEMMA TransferControlType ==
    ASSUME TypeOK, NEW t \in Threads, Transfer(t)
    PROVE  ControlTypeOK'
<1>1. CASE Prepare(t) \/ LockI2CBus(t) \/ CheckPreIdle(t) \/ PollIdle(t)
  BY <1>1 DEF TypeOK, ControlTypeOK, MainLabels, ReaderLabels, TransferLabels,
       Prepare, LockI2CBus, CheckPreIdle, PollIdle
<1>2. CASE \/ Start(t) \/ ConsumeEvent(t) \/ Sleep(t) \/ Timeout(t)
           \/ ResumeAwakened(t)
  BY <1>2 DEF TypeOK, ControlTypeOK, MainLabels, ReaderLabels, TransferLabels,
       Start, ConsumeEvent, Sleep, Timeout,
              ResumeAwakened
<1>3. ASSUME NEW r, Return(t, r) PROVE ControlTypeOK'
  BY <1>3, ReturnType
<1>4. CASE BlockBufferRefused(t) \/ CheckPreBusy(t) \/ PollGivesUp(t)
  BY <1>3, <1>4 DEF BlockBufferRefused, CheckPreBusy, PollGivesUp
<1>5. CASE ResumeTimedOut(t) \/ Finish(t)
  BY <1>3, <1>5 DEF ResumeTimedOut, Finish
<1>6. QED
  BY <1>1, <1>2, <1>4, <1>5 DEF Transfer

LEMMA TransferDataType ==
    ASSUME TypeOK, NEW t \in Threads, Transfer(t)
    PROVE  DataTypeOK'
<1> USE DEF TypeOK, DataTypeOK
<1>1. CASE Prepare(t)
  BY <1>1, ZenonT(30) DEF Prepare, OpOf
<1>2. CASE LockI2CBus(t)
  BY <1>2 DEF LockI2CBus
<1>3. ASSUME NEW r \in {"ok", "error"}, Return(t, r)
      PROVE  result' \in [Threads -> {"none", "ok", "error"}]
  BY <1>3, ReturnType
<1>4. CASE BlockBufferRefused(t)
  BY <1>3, <1>4 DEF BlockBufferRefused
<1>5. CASE CheckPreBusy(t) \/ PollGivesUp(t)
  <2>1. CASE CheckPreBusy(t)
    <3>1. hsts' \subseteq Flags
      BY <2>1, StatusType DEF CheckPreBusy
    <3>2. QED
      BY <1>3, <2>1, <3>1 DEF CheckPreBusy
  <2>2. CASE PollGivesUp(t)
    <3>1. hsts' \subseteq Flags
      BY <2>2, StatusType DEF PollGivesUp
    <3>2. QED
      BY <1>3, <2>2, <3>1 DEF PollGivesUp
  <2>3. QED
    BY <1>5, <2>1, <2>2
<1>6. CASE CheckPreIdle(t) \/ PollIdle(t)
  <2>1. CASE CheckPreIdle(t)
    <3>1. hsts' \subseteq Flags
      BY <2>1, StatusType DEF CheckPreIdle
    <3>2. QED
      BY <2>1, <3>1 DEF CheckPreIdle
  <2>2. CASE PollIdle(t)
    <3>1. hsts' \subseteq Flags
      BY <2>2, StatusType DEF PollIdle
    <3>2. QED
      BY <2>2, <3>1, ZenonT(30) DEF PollIdle
  <2>3. QED
    BY <1>6, <2>1, <2>2
<1>7. CASE Start(t)
  BY <1>7 DEF Start, Flags
<1>8. CASE Sleep(t) \/ Timeout(t)
  BY <1>8 DEF Sleep, Timeout
<1>9. CASE ConsumeEvent(t) \/ ResumeAwakened(t) \/ ResumeTimedOut(t)
  <2>1. event' \in BOOLEAN
    BY <1>9 DEF ConsumeEvent, ResumeAwakened, ResumeTimedOut
  <2>2. CASE ConsumeEvent(t)
    BY <2>1, <2>2 DEF ConsumeEvent
  <2>3. CASE ResumeAwakened(t)
    BY <2>1, <2>3 DEF ResumeAwakened
  <2>4. CASE ResumeTimedOut(t)
    BY <1>3, <2>1, <2>4 DEF ResumeTimedOut
  <2>5. QED
    BY <1>9, <2>2, <2>3, <2>4
<1>10. CASE Finish(t)
  BY <1>3, <1>10 DEF Finish
<1>11. QED
  BY <1>1, <1>2, <1>4, <1>5, <1>6, <1>7, <1>8, <1>9, <1>10
     DEF Transfer

LEMMA TypeNext == TypeOK /\ [Next]_vars => TypeOK'
<1> SUFFICES ASSUME TypeOK, [Next]_vars PROVE TypeOK'
  OBVIOUS
<1> USE DEF TypeOK
<1>1. CASE Setup \/ EnableInterrupts \/ Settle
  <2>1. ControlTypeOK'
    BY <1>1 DEF ControlTypeOK, MainLabels, ReaderLabels, TransferLabels,
       Setup, EnableInterrupts, Settle, Stages, MainStages
  <2>2. CASE Setup
    BY <2>1, <2>2 DEF DataTypeOK, Setup
  <2>3. CASE EnableInterrupts
    BY <2>1, <2>3 DEF DataTypeOK, EnableInterrupts
  <2>4. CASE Settle
    BY <2>1, <2>4 DEF DataTypeOK, Settle
  <2>5. QED
    BY <1>1, <2>2, <2>3, <2>4
<1>2. CASE UnlockInStart
  <2>1. ControlTypeOK'
    BY <1>2 DEF ControlTypeOK, MainLabels, ReaderLabels, TransferLabels,
       UnlockInStart, Stages, MainStages
  <2>2. DataTypeOK'
    <3>1. retried' \in BOOLEAN
      BY <1>2 DEF DataTypeOK, UnlockInStart
    <3>2. QED
      BY <1>2, <3>1 DEF DataTypeOK, UnlockInStart
  <2>3. QED
    BY <2>1, <2>2
<1>3. ASSUME NEW t \in Threads, Transfer(t) PROVE TypeOK'
  BY <1>3, TransferControlType, TransferDataType
<1>4. ASSUME NEW r \in Readers, CheckReady(r) \/ AttemptAction(r)
      PROVE  TypeOK'
  <2>1. ControlTypeOK'
    BY <1>4 DEF ControlTypeOK, MainLabels, ReaderLabels, TransferLabels,
       CheckReady, AttemptAction
  <2>2. DataTypeOK'
    BY <1>4 DEF DataTypeOK, CheckReady, AttemptAction
  <2>3. QED
    BY <2>1, <2>2
<1>5. ASSUME NEW r \in Readers,
             ClearNotify(r) \/ UnlockAfterReport(r) \/ LeaveGate(r)
      PROVE  TypeOK'
  <2>1. ControlTypeOK'
    BY <1>5 DEF ControlTypeOK, MainLabels, ReaderLabels, TransferLabels,
       ClearNotify, UnlockAfterReport, LeaveGate
  <2>2. CASE ClearNotify(r)
    <3>1. ntfy' \in BOOLEAN
      BY <2>2 DEF ClearNotify
    <3>2. QED
      BY <2>1, <2>2, <3>1 DEF DataTypeOK, ClearNotify
  <2>3. CASE UnlockAfterReport(r)
    BY <2>1, <2>3 DEF DataTypeOK, UnlockAfterReport
  <2>4. CASE LeaveGate(r)
    BY <2>1, <2>4 DEF DataTypeOK, LeaveGate
  <2>5. QED
    BY <1>5, <2>2, <2>3, <2>4
<1>6. CASE EnterHandler \/ Signal
  <2>1. ControlTypeOK'
    BY <1>6 DEF ControlTypeOK, MainLabels, ReaderLabels, TransferLabels,
       EnterHandler, Signal
  <2>2. CASE EnterHandler
    BY <2>1, <2>2 DEF DataTypeOK, EnterHandler
  <2>3. CASE Signal
    BY <2>1, <2>3 DEF DataTypeOK, Signal
  <2>4. QED
    BY <1>6, <2>2, <2>3
<1>7. CASE Classify \/ HostNotify
  <2>1. errorMarker' \in BOOLEAN /\ ntfy' \in BOOLEAN
    BY <1>7 DEF DataTypeOK, Classify, HostNotify
  <2>2. QED
    BY <1>7, <2>1
       DEF ControlTypeOK, DataTypeOK, Classify, LeaveHandler, HostNotify
<1>8. CASE InterruptFilter \/ WriteBack \/ HostCompletes
  <2>1. hsts' \subseteq Flags
    <3>1. CASE InterruptFilter
      BY <3>1, StatusType DEF DataTypeOK, InterruptFilter
    <3>2. CASE WriteBack
      BY <3>2, StatusType DEF DataTypeOK, WriteBack
    <3>3. CASE HostCompletes
      BY <3>3 DEF DataTypeOK, HostCompletes, StatusFlags, Flags
    <3>4. QED
      BY <1>8, <3>1, <3>2, <3>3
  <2>2. QED
    BY <1>8, <2>1
       DEF ControlTypeOK, DataTypeOK, InterruptFilter, WriteBack, LeaveHandler,
           HostCompletes
<1>9. CASE UNCHANGED vars
  BY <1>9 DEF ControlTypeOK, DataTypeOK
<1>10. QED
  BY <1>1, <1>2, <1>3, <1>4, <1>5, <1>6, <1>7, <1>8, <1>9
     DEF Next, MainStep, ReaderStep, HandlerStep

\* Every variable keeps its type.
THEOREM TypeCorrect == Spec => []TypeOK
BY TypeInit, TypeNext, PTL DEF Spec

-----------------------------------------------------------------------------
(* Layer 2: the gate, I2C_Lock and ready_for_input.                         *)

LockInv == GateExclusion /\ BusExclusion /\ ReadyGuardsStart

LEMMA LockInit == Init => LockInv
BY DEF Init, LockInv, GateExclusion, BusExclusion, ReadyGuardsStart, Admitted,
       InTransfer, HoldsBus, TransferLabels

\* A thread that holds the bus and moves on inside its transaction keeps what
\* it holds.
LEMMA MoveHoldingBus ==
    ASSUME TypeOK, LockInv, NEW t \in Threads, NEW l \in HoldsBus,
           pc[t] \in HoldsBus, Goto(t, l),
           UNCHANGED <<ready, gate, busLock, handler>>
    PROVE  LockInv'
<1> USE DEF TypeOK, ControlTypeOK, LockInv
<1>1. HoldsBus \subseteq Admitted /\ "done" \notin HoldsBus
  BY DEF HoldsBus, InTransfer, Admitted, TransferLabels
<1>2. GateExclusion'
  BY <1>1 DEF GateExclusion
<1>3. BusExclusion'
  BY DEF BusExclusion
<1>4. ReadyGuardsStart'
  BY <1>1 DEF ReadyGuardsStart
<1>5. QED
  BY <1>2, <1>3, <1>4

LEMMA ReturnHoldsBus ==
    ASSUME NEW t \in Threads, NEW r, Return(t, r)
    PROVE  \E l \in HoldsBus : Goto(t, l)
<1>1. {"pre", "ack", "unlock"} \subseteq HoldsBus
  BY DEF HoldsBus, InTransfer, TransferLabels
<1>2. QED
  BY <1>1 DEF Return

LEMMA TransferLocks ==
    ASSUME TypeOK, LockInv, NEW t \in Threads, Transfer(t)
    PROVE  LockInv'
<1>1. CASE Prepare(t)
  <2> USE <1>1 DEF Prepare, TypeOK, ControlTypeOK, LockInv, Admitted,
                   InTransfer, HoldsBus, TransferLabels
  <2>1. GateExclusion'
    BY DEF GateExclusion
  <2>2. BusExclusion'
    BY DEF BusExclusion
  <2>3. ReadyGuardsStart'
    BY DEF ReadyGuardsStart
  <2>4. QED
    BY <2>1, <2>2, <2>3
<1>2. CASE LockI2CBus(t)
  <2> USE <1>2 DEF LockI2CBus, TypeOK, ControlTypeOK, LockInv, Admitted,
                   InTransfer, HoldsBus, TransferLabels
  <2>1. GateExclusion'
    BY DEF GateExclusion
  <2>2. BusExclusion'
    BY DEF BusExclusion
  <2>3. ReadyGuardsStart'
    BY DEF ReadyGuardsStart
  <2>4. QED
    BY <2>1, <2>2, <2>3
<1>3. ASSUME NEW l \in HoldsBus, pc[t] \in HoldsBus, Goto(t, l),
             UNCHANGED <<ready, gate, busLock, handler>>
      PROVE  LockInv'
  BY <1>3, MoveHoldingBus
<1>4. TransferLabels \ {"prepare", "lock"} \subseteq HoldsBus
  BY DEF HoldsBus, InTransfer
<1>5. CASE BlockBufferRefused(t) \/ CheckPreBusy(t) \/ PollGivesUp(t)
  <2>1. pc[t] \in HoldsBus
    BY <1>4, <1>5 DEF BlockBufferRefused, CheckPreBusy, PollGivesUp, TransferLabels
  <2>2. \E l \in HoldsBus : Goto(t, l)
    BY <1>5, ReturnHoldsBus DEF BlockBufferRefused, CheckPreBusy, PollGivesUp
  <2>3. QED
    BY <1>3, <1>5, <2>1, <2>2 DEF BlockBufferRefused, CheckPreBusy, PollGivesUp
<1>6. CASE ResumeTimedOut(t) \/ Finish(t)
  <2>1. pc[t] \in HoldsBus
    BY <1>4, <1>6 DEF ResumeTimedOut, Finish, TransferLabels
  <2>2. \E l \in HoldsBus : Goto(t, l)
    BY <1>6, ReturnHoldsBus DEF ResumeTimedOut, Finish
  <2>3. QED
    BY <1>3, <1>6, <2>1, <2>2 DEF ResumeTimedOut, Finish
<1>7. CASE CheckPreIdle(t) \/ PollIdle(t) \/ Start(t)
  BY <1>3, <1>4, <1>7 DEF CheckPreIdle, PollIdle, Start, TransferLabels
<1>8. CASE ConsumeEvent(t) \/ Sleep(t) \/ Timeout(t) \/ ResumeAwakened(t)
  BY <1>3, <1>4, <1>8
     DEF ConsumeEvent, Sleep, Timeout, ResumeAwakened, TransferLabels
<1>9. QED
  BY <1>1, <1>2, <1>5, <1>6, <1>7, <1>8 DEF Transfer

LEMMA LockNext == TypeOK /\ LockInv /\ [Next]_vars => LockInv'
<1> SUFFICES ASSUME TypeOK, LockInv, [Next]_vars PROVE LockInv'
  OBVIOUS
<1> USE DEF TypeOK, ControlTypeOK, LockInv
<1>1. CASE Setup \/ EnableInterrupts \/ Settle \/ UnlockInStart
  <2> USE <1>1 DEF Setup, EnableInterrupts, Settle, UnlockInStart, Admitted,
                   InTransfer, HoldsBus, TransferLabels
  <2>1. GateExclusion'
    BY DEF GateExclusion
  <2>2. BusExclusion'
    BY DEF BusExclusion
  <2>3. ReadyGuardsStart'
    BY DEF ReadyGuardsStart
  <2>4. QED
    BY <2>1, <2>2, <2>3
<1>2. ASSUME NEW t \in Threads, Transfer(t) PROVE LockInv'
  BY <1>2, TransferLocks
<1>3. ASSUME NEW r \in Readers, CheckReady(r) \/ AttemptAction(r)
      PROVE  LockInv'
  <2> USE <1>3 DEF CheckReady, AttemptAction, Admitted, InTransfer, HoldsBus,
                   TransferLabels
  <2>1. GateExclusion'
    BY DEF GateExclusion
  <2>2. BusExclusion'
    BY DEF BusExclusion
  <2>3. ReadyGuardsStart'
    BY DEF ReadyGuardsStart
  <2>4. QED
    BY <2>1, <2>2, <2>3
<1>4. ASSUME NEW r \in Readers,
             ClearNotify(r) \/ UnlockAfterReport(r) \/ LeaveGate(r)
      PROVE  LockInv'
  <2> USE <1>4 DEF ClearNotify, UnlockAfterReport, LeaveGate, Admitted,
                   InTransfer, HoldsBus, TransferLabels
  <2>1. GateExclusion'
    BY DEF GateExclusion
  <2>2. BusExclusion'
    BY DEF BusExclusion
  <2>3. ReadyGuardsStart'
    BY DEF ReadyGuardsStart
  <2>4. QED
    BY <2>1, <2>2, <2>3
<1>5. CASE EnterHandler \/ Signal
  <2> USE <1>5 DEF EnterHandler, Signal, Admitted, InTransfer, HoldsBus,
                   TransferLabels
  <2>1. GateExclusion'
    BY DEF GateExclusion
  <2>2. BusExclusion'
    BY DEF BusExclusion
  <2>3. ReadyGuardsStart'
    BY DEF ReadyGuardsStart
  <2>4. QED
    BY <2>1, <2>2, <2>3
<1>6. CASE Classify \/ WriteBack
  BY <1>6 DEF Classify, WriteBack, LeaveHandler, GateExclusion, BusExclusion,
              ReadyGuardsStart
<1>7. CASE InterruptFilter \/ HostCompletes \/ HostNotify \/ UNCHANGED vars
  BY <1>7 DEF InterruptFilter, HostCompletes, HostNotify, GateExclusion,
              BusExclusion, ReadyGuardsStart
<1>8. QED
  BY <1>1, <1>2, <1>3, <1>4, <1>5, <1>6, <1>7
     DEF Next, MainStep, ReaderStep, HandlerStep

\* The handler and the report threads exclude each other, I2C_Lock excludes
\* transactions, and no report is read before start() is done.
THEOREM LocksCorrect == Spec => []LockInv
<1>1. TypeOK /\ LockInv /\ [Next]_vars => LockInv'
  BY LockNext
<1>2. QED
  BY <1>1, LockInit, TypeCorrect, PTL DEF Spec

\* ready_for_input and the gate leave one thread at a time inside a transaction.
LEMMA OneTransfer == TypeOK /\ LockInv => OneTransferAtATime
<1> SUFFICES ASSUME TypeOK, LockInv, NEW t \in Threads, NEW u \in Threads,
                    pc[t] \in InTransfer, pc[u] \in InTransfer
             PROVE  t = u
  BY DEF OneTransferAtATime
<1>1. InTransfer \subseteq Admitted /\ "done" \notin InTransfer
  BY DEF InTransfer, Admitted, TransferLabels
<1>2. CASE t \in Readers /\ u \in Readers
  BY <1>1, <1>2 DEF LockInv, GateExclusion
<1>3. CASE Main \in {t, u}
  BY <1>1, <1>3 DEF LockInv, ReadyGuardsStart
<1>4. QED
  BY <1>2, <1>3

\* I2C_Lock is never contended, for any number of report threads.
THEOREM OneTransferCorrect == Spec => []OneTransferAtATime
BY OneTransfer, TypeCorrect, LocksCorrect, PTL

\* The gate keeps interruptHandler and the reading of reports apart.
THEOREM GateCorrect == Spec => []GateExclusion
<1>1. LockInv => GateExclusion
  BY DEF LockInv
<1>2. QED
  BY <1>1, LocksCorrect, PTL

\* I2C_Lock is held exactly inside a transaction.
THEOREM BusCorrect == Spec => []BusExclusion
<1>1. LockInv => BusExclusion
  BY DEF LockInv
<1>2. QED
  BY <1>1, LocksCorrect, PTL

-----------------------------------------------------------------------------
(* Sleeping report threads.                                                 *)

\* Only Signal puts a thread on "awakened", with the gate in the work loop's
\* hands: the thread is not a report thread.
LEMMA SleepingReaderNext ==
    TypeOK /\ LockInv /\ SleepingReaderNeverWoken /\ [Next]_vars
      => SleepingReaderNeverWoken'
<1> SUFFICES ASSUME TypeOK, LockInv, SleepingReaderNeverWoken, [Next]_vars,
                    NEW r \in Readers
             PROVE  pc'[r] # "awakened"
  BY DEF SleepingReaderNeverWoken
<1> USE DEF TypeOK, ControlTypeOK, SleepingReaderNeverWoken
<1>1. CASE Setup \/ EnableInterrupts \/ Settle \/ UnlockInStart
  BY <1>1 DEF Setup, EnableInterrupts, Settle, UnlockInStart
<1>2. ASSUME NEW t \in Threads, Transfer(t) PROVE pc'[r] # "awakened"
  <2>1. CASE \/ Prepare(t) \/ LockI2CBus(t) \/ CheckPreIdle(t) \/ PollIdle(t)
             \/ Start(t) \/ ConsumeEvent(t) \/ Sleep(t) \/ Timeout(t)
             \/ ResumeAwakened(t)
    BY <2>1 DEF Prepare, LockI2CBus, CheckPreIdle, PollIdle, Start,
                ConsumeEvent, Sleep, Timeout, ResumeAwakened
  <2>2. ASSUME NEW x, Return(t, x) PROVE pc'[r] # "awakened"
    BY <2>2 DEF Return
  <2>3. CASE \/ BlockBufferRefused(t) \/ CheckPreBusy(t) \/ PollGivesUp(t)
             \/ ResumeTimedOut(t) \/ Finish(t)
    BY <2>2, <2>3 DEF BlockBufferRefused, CheckPreBusy, PollGivesUp,
                      ResumeTimedOut, Finish
  <2>4. QED
    BY <1>2, <2>1, <2>3 DEF Transfer
<1>3. ASSUME NEW u \in Readers,
             \/ CheckReady(u) \/ AttemptAction(u) \/ LeaveGate(u)
             \/ ClearNotify(u) \/ UnlockAfterReport(u)
      PROVE  pc'[r] # "awakened"
  BY <1>3 DEF CheckReady, AttemptAction, LeaveGate, ClearNotify,
              UnlockAfterReport
<1>4. CASE Signal
  <2>1. gate = WorkLoop
    BY <1>4 DEF Signal, LockInv, GateExclusion
  <2>2. pc[r] # "sleep"
    BY <2>1 DEF LockInv, GateExclusion, Admitted, TransferLabels
  <2>3. QED
    BY <1>4, <2>2 DEF Signal
<1>5. CASE EnterHandler
  BY <1>5 DEF EnterHandler
<1>6. CASE \/ Classify \/ WriteBack \/ InterruptFilter \/ HostCompletes
           \/ HostNotify \/ UNCHANGED vars
  BY <1>6 DEF Classify, WriteBack, InterruptFilter, HostCompletes, HostNotify
<1>7. QED
  BY <1>1, <1>2, <1>3, <1>4, <1>5, <1>6
     DEF Next, MainStep, ReaderStep, HandlerStep

\* However many report threads there are, none is ever woken by the handler.
THEOREM SleepingReaderCorrect == Spec => []SleepingReaderNeverWoken
<1>1. Init => SleepingReaderNeverWoken
  BY DEF Init, SleepingReaderNeverWoken
<1>2. QED
  BY <1>1, SleepingReaderNext, TypeCorrect, LocksCorrect, PTL DEF Spec

-----------------------------------------------------------------------------
(* I2C_Transfer.                                                            *)

\* Only Prepare and PollIdle reset the record once start() is under way, and
\* their thread is the one inside a transaction.
LEMMA TransferOwnedStep ==
    ASSUME TypeOK, LockInv, Next,
           op' # op \/ (errorMarker /\ ~errorMarker'),
           NEW t \in Threads, pc[t] \in InTransfer
    PROVE  pc'[t] # pc[t]
<1> USE DEF TypeOK, ControlTypeOK
<1>1. CASE Setup
  <2>1. t = Main
    BY <1>1 DEF Setup, LockInv, ReadyGuardsStart, InTransfer, Admitted,
                TransferLabels
  <2>2. QED
    BY <1>1, <2>1 DEF Setup, InTransfer, TransferLabels
<1>2. ASSUME NEW u \in Threads, Prepare(u) PROVE pc'[t] # pc[t]
  <2>1. pc[u] \in Admitted /\ "prepare" # "done"
    BY <1>2 DEF Prepare, Admitted, TransferLabels
  <2>2. InTransfer \subseteq Admitted /\ "done" \notin InTransfer
    BY DEF InTransfer, Admitted, TransferLabels
  <2>3. t = u
    <3>1. CASE t \in Readers /\ u \in Readers
      BY <2>1, <2>2, <3>1 DEF LockInv, GateExclusion
    <3>2. CASE Main \in {t, u}
      BY <1>2, <2>1, <2>2, <3>2 DEF Prepare, LockInv, ReadyGuardsStart
    <3>3. QED
      BY <3>1, <3>2
  <2>4. QED
    BY <1>2, <2>3 DEF Prepare
<1>3. ASSUME NEW u \in Threads, PollIdle(u) PROVE pc'[t] # pc[t]
  <2>1. pc[u] \in InTransfer
    BY <1>3 DEF PollIdle, InTransfer, TransferLabels
  <2>2. t = u
    BY <2>1, OneTransfer DEF OneTransferAtATime
  <2>3. QED
    BY <1>3, <2>2 DEF PollIdle
<1>4. ASSUME NEW u \in Threads, Transfer(u), ~Prepare(u), ~PollIdle(u)
      PROVE  UNCHANGED <<op, errorMarker>>
  BY <1>4 DEF Transfer, LockI2CBus, BlockBufferRefused, CheckPreBusy,
              CheckPreIdle, PollGivesUp, Start, ConsumeEvent, Sleep, Timeout,
              ResumeAwakened, ResumeTimedOut, Finish
<1>5. ASSUME NEW r \in Readers,
             \/ CheckReady(r) \/ AttemptAction(r) \/ LeaveGate(r)
             \/ ClearNotify(r) \/ UnlockAfterReport(r)
      PROVE  UNCHANGED <<op, errorMarker>>
  BY <1>5 DEF CheckReady, AttemptAction, LeaveGate, ClearNotify,
              UnlockAfterReport
<1>6. CASE EnableInterrupts \/ Settle \/ UnlockInStart
  BY <1>6 DEF EnableInterrupts, Settle, UnlockInStart
<1>7. CASE HandlerStep \/ InterruptFilter \/ HostCompletes \/ HostNotify
  <2>1. op' = op /\ (errorMarker => errorMarker')
    BY <1>7 DEF HandlerStep, EnterHandler, Classify, Signal, WriteBack,
                InterruptFilter, HostCompletes, HostNotify
  <2>2. QED
    BY <2>1
<1>8. QED
  BY <1>1, <1>2, <1>3, <1>4, <1>5, <1>6, <1>7 DEF Next, MainStep, ReaderStep

\* op and error_marker are never reset under another thread's transaction.
THEOREM TransferOwnedCorrect == Spec => TransferOwned
<1> DEFINE Owned == op' # op \/ (errorMarker /\ ~errorMarker')
                      => \A t \in Threads : pc[t] \in InTransfer => pc'[t] # pc[t]
<1>1. TypeOK /\ LockInv /\ [Next]_vars => [Owned]_vars
  BY TransferOwnedStep
<1>2. Spec => [][Owned]_vars
  BY <1>1, TypeCorrect, LocksCorrect, PTL DEF Spec
<1>3. QED
  BY <1>2 DEF TransferOwned

-----------------------------------------------------------------------------
(* Before the interrupt is enabled.                                         *)

\* start() has enabled the interrupt exactly when it is past set_mode, and the
\* line is masked while the handler runs.
PhaseInv ==
    /\ irq = "off" <=> stage[Main] \in {"reset", "set_mode"}
    /\ pc[Main] = "setup" => stage[Main] = "reset"
    /\ pc[Main] = "enable" => stage[Main] = "set_mode"
    /\ handler # "idle" => irq = "masked"

NoEventWhileOff ==
    irq = "off" =>
        /\ ~event
        /\ \A t \in Threads : pc[t] \notin {"awakened", "finish"}

LEMMA PhaseInit == Init => PhaseInv /\ NoEventWhileOff
BY DEF Init, PhaseInv, NoEventWhileOff

LEMMA TransferPhase ==
    ASSUME TypeOK, PhaseInv, NEW t \in Threads, Transfer(t)
    PROVE  PhaseInv'
<1> USE DEF TypeOK, ControlTypeOK, PhaseInv
<1>1. CASE \/ Prepare(t) \/ LockI2CBus(t) \/ CheckPreIdle(t) \/ PollIdle(t)
           \/ Start(t)
  BY <1>1 DEF Prepare, LockI2CBus, CheckPreIdle, PollIdle, Start
<1>2. CASE ConsumeEvent(t) \/ Sleep(t) \/ Timeout(t) \/ ResumeAwakened(t)
  BY <1>2 DEF ConsumeEvent, Sleep, Timeout, ResumeAwakened
<1>3. ASSUME NEW x, Return(t, x), irq' = irq, handler' = handler
      PROVE  PhaseInv'
  BY <1>3 DEF Return
<1>4. CASE \/ BlockBufferRefused(t) \/ CheckPreBusy(t) \/ PollGivesUp(t)
           \/ ResumeTimedOut(t) \/ Finish(t)
  BY <1>3, <1>4 DEF BlockBufferRefused, CheckPreBusy, PollGivesUp,
                    ResumeTimedOut, Finish
<1>5. QED
  BY <1>1, <1>2, <1>4 DEF Transfer

LEMMA PhaseNext == TypeOK /\ PhaseInv /\ [Next]_vars => PhaseInv'
<1> SUFFICES ASSUME TypeOK, PhaseInv, [Next]_vars PROVE PhaseInv'
  OBVIOUS
<1> USE DEF TypeOK, ControlTypeOK, PhaseInv
<1>1. CASE Setup \/ EnableInterrupts \/ Settle \/ UnlockInStart
  BY <1>1 DEF Setup, EnableInterrupts, Settle, UnlockInStart
<1>2. ASSUME NEW t \in Threads, Transfer(t) PROVE PhaseInv'
  BY <1>2, TransferPhase
<1>3. ASSUME NEW r \in Readers,
             \/ CheckReady(r) \/ AttemptAction(r) \/ LeaveGate(r)
             \/ ClearNotify(r) \/ UnlockAfterReport(r)
      PROVE  PhaseInv'
  BY <1>3 DEF CheckReady, AttemptAction, LeaveGate, ClearNotify,
              UnlockAfterReport
<1>4. CASE EnterHandler \/ Signal
  BY <1>4 DEF EnterHandler, Signal
<1>5. CASE Classify \/ WriteBack
  BY <1>5 DEF Classify, WriteBack, LeaveHandler
<1>6. CASE InterruptFilter \/ HostCompletes \/ HostNotify \/ UNCHANGED vars
  BY <1>6 DEF InterruptFilter, HostCompletes, HostNotify
<1>7. QED
  BY <1>1, <1>2, <1>3, <1>4, <1>5, <1>6
     DEF Next, MainStep, ReaderStep, HandlerStep

LEMMA TransferBeforeEnable ==
    ASSUME TypeOK, NoEventWhileOff, NEW t \in Threads, Transfer(t)
    PROVE  NoEventWhileOff'
<1> USE DEF TypeOK, ControlTypeOK, NoEventWhileOff
<1>1. CASE \/ Prepare(t) \/ LockI2CBus(t) \/ CheckPreIdle(t) \/ PollIdle(t)
           \/ Start(t)
  BY <1>1 DEF Prepare, LockI2CBus, CheckPreIdle, PollIdle, Start
<1>2. CASE ConsumeEvent(t) \/ Sleep(t) \/ Timeout(t) \/ ResumeAwakened(t)
  BY <1>2 DEF ConsumeEvent, Sleep, Timeout, ResumeAwakened
<1>3. ASSUME NEW x, Return(t, x), irq' = irq, event' => event
      PROVE  NoEventWhileOff'
  BY <1>3 DEF Return
<1>4. CASE \/ BlockBufferRefused(t) \/ CheckPreBusy(t) \/ PollGivesUp(t)
           \/ Finish(t)
  BY <1>3, <1>4 DEF BlockBufferRefused, CheckPreBusy, PollGivesUp, Finish
<1>5. CASE ResumeTimedOut(t)
  BY <1>3, <1>5 DEF ResumeTimedOut
<1>6. QED
  BY <1>1, <1>2, <1>4, <1>5 DEF Transfer

LEMMA BeforeEnableNext ==
    TypeOK /\ PhaseInv /\ NoEventWhileOff /\ [Next]_vars
      => NoEventWhileOff'
<1> SUFFICES ASSUME TypeOK, PhaseInv, NoEventWhileOff, [Next]_vars
             PROVE  NoEventWhileOff'
  OBVIOUS
<1> USE DEF TypeOK, ControlTypeOK, NoEventWhileOff
<1>1. CASE Setup \/ EnableInterrupts \/ Settle \/ UnlockInStart
  BY <1>1 DEF Setup, EnableInterrupts, Settle, UnlockInStart
<1>2. ASSUME NEW t \in Threads, Transfer(t) PROVE NoEventWhileOff'
  BY <1>2, TransferBeforeEnable
<1>3. ASSUME NEW r \in Readers,
             \/ CheckReady(r) \/ AttemptAction(r) \/ LeaveGate(r)
             \/ ClearNotify(r) \/ UnlockAfterReport(r)
      PROVE  NoEventWhileOff'
  BY <1>3 DEF CheckReady, AttemptAction, LeaveGate, ClearNotify,
              UnlockAfterReport
<1>4. CASE HandlerStep
  <2>1. irq = "masked"
    BY <1>4 DEF HandlerStep, EnterHandler, Classify, Signal, WriteBack, PhaseInv
  <2>2. irq' # "off"
    BY <1>4, <2>1 DEF HandlerStep, EnterHandler, Classify, Signal, WriteBack,
                      LeaveHandler
  <2>3. QED
    BY <2>2
<1>5. CASE InterruptFilter \/ HostCompletes \/ HostNotify \/ UNCHANGED vars
  BY <1>5 DEF InterruptFilter, HostCompletes, HostNotify
<1>6. QED
  BY <1>1, <1>2, <1>3, <1>4, <1>5 DEF Next, MainStep, ReaderStep

\* The transactions of init_device are never ended by an event.
THEOREM BeforeEnableCorrect == Spec => []NoEventBeforeEnable
<1>1. TypeOK /\ PhaseInv /\ [Next]_vars => PhaseInv'
  BY PhaseNext
<1>2. TypeOK /\ PhaseInv /\ NoEventWhileOff /\ [Next]_vars
        => NoEventWhileOff'
  BY BeforeEnableNext
<1>3. PhaseInv /\ NoEventWhileOff => NoEventBeforeEnable
  BY DEF PhaseInv, NoEventWhileOff, NoEventBeforeEnable
<1>4. QED
  BY <1>1, <1>2, <1>3, PhaseInit, TypeCorrect, PTL DEF Spec

-----------------------------------------------------------------------------
(* START and sleep.                                                         *)

BusInv == StartOnlyWhenIdle /\ NoLostWakeup

\* At most one thread is at a label that needs the bus.
LEMMA OneHolder ==
    ASSUME LockInv, NEW t \in Threads, NEW u \in Threads,
           pc[t] \in HoldsBus, pc[u] \in HoldsBus
    PROVE  t = u
BY DEF LockInv, BusExclusion

\* A step that starts nothing, raises no event and puts no thread on "start"
\* or "sleep" keeps BusInv.
LEMMA QuietStep ==
    ASSUME BusInv, Busy' => Busy, event' => event,
           \A t \in Threads : pc'[t] \in {"start", "sleep"} => pc'[t] = pc[t]
    PROVE  BusInv'
BY DEF BusInv, StartOnlyWhenIdle, NoLostWakeup

LEMMA TransferBus ==
    ASSUME TypeOK, LockInv, BusInv, NEW t \in Threads, Transfer(t)
    PROVE  BusInv'
<1> USE DEF TypeOK, ControlTypeOK
<1>1. CASE CheckPreIdle(t) \/ PollIdle(t)
  <2>1. ~Busy' /\ event' = event
    BY <1>1 DEF CheckPreIdle, PollIdle, Busy, AfterRead, AfterWrite
  <2>2. \A u \in Threads : pc'[u] = "sleep" => pc[u] = "sleep"
    BY <1>1 DEF CheckPreIdle, PollIdle
  <2>3. QED
    BY <2>1, <2>2 DEF BusInv, StartOnlyWhenIdle, NoLostWakeup
<1>2. CASE Start(t)
  <2>1. \A u \in Threads : pc'[u] # "start"
    BY <1>2, OneHolder DEF Start, HoldsBus, InTransfer, TransferLabels
  <2>2. event' = event /\ \A u \in Threads : pc'[u] = "sleep" => pc[u] = "sleep"
    BY <1>2 DEF Start
  <2>3. QED
    BY <2>1, <2>2 DEF BusInv, StartOnlyWhenIdle, NoLostWakeup
<1>3. CASE Sleep(t)
  <2>1. \A u \in Threads : pc'[u] = "sleep" => u = t
    BY <1>3, OneHolder DEF Sleep, HoldsBus, InTransfer, TransferLabels
  <2>2. ~event' /\ Busy' = Busy
    BY <1>3 DEF Sleep, Busy
  <2>3. \A u \in Threads : pc'[u] = "start" => pc[u] = "start"
    BY <1>3 DEF Sleep
  <2>4. QED
    BY <2>1, <2>2, <2>3 DEF BusInv, StartOnlyWhenIdle, NoLostWakeup
<1>4. CASE \/ Prepare(t) \/ LockI2CBus(t) \/ ConsumeEvent(t) \/ Timeout(t)
           \/ ResumeAwakened(t)
  <2>1. Busy' = Busy /\ (event' => event)
    BY <1>4 DEF Prepare, LockI2CBus, ConsumeEvent, Timeout, ResumeAwakened, Busy
  <2>2. \A u \in Threads : pc'[u] \in {"start", "sleep"} => pc'[u] = pc[u]
    BY <1>4 DEF Prepare, LockI2CBus, ConsumeEvent, Timeout, ResumeAwakened
  <2>3. QED
    BY <2>1, <2>2, QuietStep
<1>5. CASE \/ BlockBufferRefused(t) \/ CheckPreBusy(t) \/ PollGivesUp(t)
           \/ ResumeTimedOut(t) \/ Finish(t)
  <2>1. (Busy' => Busy) /\ (event' => event)
    BY <1>5 DEF BlockBufferRefused, CheckPreBusy, PollGivesUp, ResumeTimedOut,
                Finish, Busy, AfterRead
  <2>2. \E x : Return(t, x)
    BY <1>5 DEF BlockBufferRefused, CheckPreBusy, PollGivesUp, ResumeTimedOut,
                Finish
  <2>3. \A u \in Threads : pc'[u] \in {"start", "sleep"} => pc'[u] = pc[u]
    BY <2>2 DEF Return
  <2>4. QED
    BY <2>1, <2>3, QuietStep
<1>6. QED
  BY <1>1, <1>2, <1>3, <1>4, <1>5 DEF Transfer

LEMMA BusNext == TypeOK /\ LockInv /\ BusInv /\ [Next]_vars => BusInv'
<1> SUFFICES ASSUME TypeOK, LockInv, BusInv, [Next]_vars PROVE BusInv'
  OBVIOUS
<1> USE DEF TypeOK, ControlTypeOK
<1>1. CASE Setup \/ EnableInterrupts \/ Settle \/ UnlockInStart
  <2>1. Busy' = Busy /\ (event' => event)
    BY <1>1 DEF Setup, EnableInterrupts, Settle, UnlockInStart, Busy
  <2>2. \A u \in Threads : pc'[u] \in {"start", "sleep"} => pc'[u] = pc[u]
    BY <1>1 DEF Setup, EnableInterrupts, Settle, UnlockInStart
  <2>3. QED
    BY <2>1, <2>2, QuietStep
<1>2. ASSUME NEW t \in Threads, Transfer(t) PROVE BusInv'
  BY <1>2, TransferBus
<1>3. ASSUME NEW r \in Readers,
             \/ CheckReady(r) \/ AttemptAction(r) \/ LeaveGate(r)
             \/ ClearNotify(r) \/ UnlockAfterReport(r)
      PROVE  BusInv'
  <2>1. Busy' = Busy /\ (event' => event)
    BY <1>3 DEF CheckReady, AttemptAction, LeaveGate, ClearNotify,
                UnlockAfterReport, Busy
  <2>2. \A u \in Threads : pc'[u] \in {"start", "sleep"} => pc'[u] = pc[u]
    BY <1>3 DEF CheckReady, AttemptAction, LeaveGate, ClearNotify,
                UnlockAfterReport
  <2>3. QED
    BY <2>1, <2>2, QuietStep
<1>4. CASE EnterHandler
  <2>1. Busy' = Busy /\ event' = event
    BY <1>4 DEF EnterHandler, Busy
  <2>2. \A u \in Threads : pc'[u] \in {"start", "sleep"} => pc'[u] = pc[u]
    BY <1>4 DEF EnterHandler
  <2>3. QED
    BY <2>1, <2>2, QuietStep
<1>5. CASE Signal
  <2>1. Busy' = Busy
    BY <1>5 DEF Signal, Busy
  <2>2. \A u \in Threads : pc'[u] = "start" => pc[u] = "start"
    BY <1>5 DEF Signal
  <2>3. \A u \in Threads : pc'[u] # "sleep"
    BY <1>5 DEF Signal, BusInv, NoLostWakeup
  <2>4. QED
    BY <2>1, <2>2, <2>3 DEF BusInv, StartOnlyWhenIdle, NoLostWakeup
<1>6. CASE \/ Classify \/ WriteBack \/ InterruptFilter \/ HostCompletes
           \/ HostNotify \/ UNCHANGED vars
  <2>1. (Busy' => Busy) /\ event' = event /\ pc' = pc
    BY <1>6 DEF Classify, WriteBack, InterruptFilter, HostCompletes, HostNotify,
                Busy, AfterRead, AfterWrite, StatusFlags
  <2>2. QED
    BY <2>1, QuietStep
<1>7. QED
  BY <1>1, <1>2, <1>3, <1>4, <1>5, <1>6
     DEF Next, MainStep, ReaderStep, HandlerStep

LEMMA BusAlways == Spec => []BusInv
<1>1. Init => BusInv
  BY DEF Init, BusInv, StartOnlyWhenIdle, NoLostWakeup
<1>2. QED
  BY <1>1, BusNext, TypeCorrect, LocksCorrect, PTL DEF Spec

\* START is written to an idle host only.
THEOREM StartCorrect == Spec => []StartOnlyWhenIdle
<1>1. BusInv => StartOnlyWhenIdle
  BY DEF BusInv
<1>2. QED
  BY <1>1, BusAlways, PTL

\* No wakeup is lost.
THEOREM WakeupCorrect == Spec => []NoLostWakeup
<1>1. BusInv => NoLostWakeup
  BY DEF BusInv
<1>2. QED
  BY <1>1, BusAlways, PTL

-----------------------------------------------------------------------------
(* The driver implements SerialBus.                                         *)

LEMMA BusInit == Init => Bus!Init
BY DEF Init, Bus!Init, Busy

LEMMA TransferImplements ==
    ASSUME TypeOK, LockInv, BusInv, NEW t \in Threads, Transfer(t)
    PROVE  [Bus!Next]_<<busLock, Busy>>
<1>1. CASE LockI2CBus(t)
  BY <1>1 DEF LockI2CBus, Bus!Next, Bus!Acquire, Busy
<1>2. CASE Start(t)
  <2>1. busLock = t /\ ~Busy
    BY <1>2 DEF Start, LockInv, BusExclusion, BusInv, StartOnlyWhenIdle,
                HoldsBus, InTransfer, TransferLabels
  <2>2. Busy' = TRUE /\ busLock' = busLock
    BY <1>2 DEF Start, Busy
  <2>3. Bus!Begin(t)
    BY <2>1, <2>2 DEF Bus!Begin
  <2>4. QED
    BY <2>3 DEF Bus!Next
<1>3. CASE \/ Prepare(t) \/ ConsumeEvent(t) \/ Sleep(t) \/ Timeout(t)
           \/ ResumeAwakened(t) \/ ResumeTimedOut(t) \/ Finish(t)
           \/ BlockBufferRefused(t)
  BY <1>3 DEF Prepare, ConsumeEvent, Sleep, Timeout, ResumeAwakened,
              ResumeTimedOut, Finish, BlockBufferRefused, Busy
<1>4. CASE CheckPreBusy(t) \/ CheckPreIdle(t) \/ PollIdle(t) \/ PollGivesUp(t)
  BY <1>4 DEF CheckPreBusy, CheckPreIdle, PollIdle, PollGivesUp, Busy,
              AfterRead, AfterWrite
<1>5. QED
  BY <1>1, <1>2, <1>3, <1>4 DEF Transfer

LEMMA StepImplements ==
    TypeOK /\ LockInv /\ BusInv /\ [Next]_vars => [Bus!Next]_<<busLock, Busy>>
<1> SUFFICES ASSUME TypeOK, LockInv, BusInv, [Next]_vars
             PROVE  [Bus!Next]_<<busLock, Busy>>
  OBVIOUS
<1>1. CASE Setup \/ EnableInterrupts \/ Settle
  BY <1>1 DEF Setup, EnableInterrupts, Settle, Busy
<1>2. CASE UnlockInStart
  <2>1. busLock = Main
    BY <1>2 DEF UnlockInStart, LockInv, BusExclusion, HoldsBus, InTransfer,
                TransferLabels
  <2>2. Bus!Release(Main)
    BY <1>2, <2>1 DEF UnlockInStart, Bus!Release, Busy
  <2>3. QED
    BY <2>2 DEF Bus!Next
<1>3. ASSUME NEW t \in Threads, Transfer(t) PROVE [Bus!Next]_<<busLock, Busy>>
  BY <1>3, TransferImplements
<1>4. ASSUME NEW r \in Readers, UnlockAfterReport(r)
      PROVE  [Bus!Next]_<<busLock, Busy>>
  <2>1. busLock = r
    BY <1>4 DEF UnlockAfterReport, LockInv, BusExclusion, HoldsBus, InTransfer,
                TransferLabels
  <2>2. Bus!Release(r)
    BY <1>4, <2>1 DEF UnlockAfterReport, Bus!Release, Busy
  <2>3. QED
    BY <2>2 DEF Bus!Next
<1>5. ASSUME NEW r \in Readers,
             CheckReady(r) \/ AttemptAction(r) \/ LeaveGate(r) \/ ClearNotify(r)
      PROVE  [Bus!Next]_<<busLock, Busy>>
  BY <1>5 DEF CheckReady, AttemptAction, LeaveGate, ClearNotify, Busy
<1>6. CASE HandlerStep \/ InterruptFilter \/ HostNotify \/ UNCHANGED vars
  BY <1>6 DEF HandlerStep, EnterHandler, Classify, Signal, WriteBack,
              InterruptFilter, HostNotify, Busy, AfterRead, AfterWrite
<1>7. CASE HostCompletes
  <2>1. Busy = TRUE /\ Busy' = FALSE /\ busLock' = busLock
    BY <1>7 DEF HostCompletes, Busy, StatusFlags
  <2>2. QED
    BY <2>1 DEF Bus!Next, Bus!End
<1>8. QED
  BY <1>1, <1>2, <1>3, <1>4, <1>5, <1>6, <1>7 DEF Next, MainStep, ReaderStep

\* Every behaviour of the driver is one of the abstract bus.
THEOREM ImplementsSerialBus == Spec => SerialisesBus
<1>1. TypeOK /\ LockInv /\ BusInv /\ [Next]_vars => [Bus!Next]_<<busLock, Busy>>
  BY StepImplements
<1>2. QED
  BY <1>1, BusInit, BusAlways, TypeCorrect, LocksCorrect, PTL
     DEF Spec, SerialisesBus, Bus!Spec, Bus!vars

-----------------------------------------------------------------------------
(* What StartReturns, ReleasesBus and AdmittedReportClearsNotify rest on,   *)
(* beside fairness: a thread that moves comes nearer to its end, and none   *)
(* has to wait for another.                                                 *)

\* How many labels of its code a thread has before it at most.
Place ==
    [spawned |-> 15, attempt |-> 14, setup |-> 13, prepare |-> 12, lock |-> 11,
     pre |-> 10, poll |-> 10, start |-> 9, wait |-> 8, sleep |-> 7, awakened |-> 6,
     timedout |-> 6, finish |-> 5, ack |-> 4, unlock |-> 3, parse |-> 2,
     enable |-> 1, settle |-> 1, idle |-> 0, done |-> 0]

\* How many transactions start() has before it at most; I2CExec and the hello
\* packet are tried twice.
Turns(t) ==
    IF retried
    THEN [reset |-> 6, set_mode |-> 5, exec |-> 2, hello |-> 1, enable_tp |-> 0,
          report |-> 0][stage[t]]
    ELSE [reset |-> 6, set_mode |-> 5, exec |-> 4, hello |-> 3, enable_tp |-> 0,
          report |-> 0][stage[t]]

Left(t) == 16 * Turns(t) + Place[pc[t]]

Falls(t) ==
    pc[t] # "idle" /\ (pc'[t] # pc[t] \/ stage'[t] # stage[t]) => Left(t)' < Left(t)

\* Neither start() nor a report thread that has been spawned ever comes back to
\* where it was, whatever its transactions return and however often the
\* initialization is tried.
RunsDown == [][\A t \in Threads : Falls(t)]_vars

\* Who comes to I2C_Lock finds it free, and start() knows where to go on after
\* each unlock; no other step of a thread has to wait for anything but a deadline.
NeverStuck ==
    \A t \in Threads :
        /\ pc[t] = "lock" => busLock = Nobody
        /\ pc[t] = "unlock" => stage[t] # "exec"

Reading == Admitted \ {"unlock", "parse"}

\* A report thread that has the gate cannot get on to unlock but with HST_NTFY
\* cleared, and has no other way out.
ClearsFirst(r) ==
    pc[r] \in Reading => pc'[r] \in Reading \/ (pc'[r] = "unlock" /\ ~ntfy')

NotifyClearedFirst == [][\A r \in Readers : ClearsFirst(r)]_vars

Labels == MainLabels \cup ReaderLabels

LEMMA Numbers ==
    /\ \A label \in Labels : Place[label] \in 0..15
    /\ TypeOK => \A t \in Threads : Turns(t) \in 0..6
    /\ TypeOK' => \A t \in Threads : Turns(t)' \in 0..6
BY DEF Place, Turns, Labels, MainLabels, ReaderLabels, TransferLabels, TypeOK, ControlTypeOK,
       Stages, MainStages

\* A thread that moves on within a transaction.
LEMMA MoveFalls ==
    ASSUME TypeOK, NEW t \in Threads, NEW l \in Labels,
           Goto(t, l), UNCHANGED <<stage, retried>>, Place[l] < Place[pc[t]]
    PROVE  \A u \in Threads : Falls(u)
<1> SUFFICES ASSUME NEW u \in Threads, pc'[u] # pc[u] PROVE Left(u)' < Left(u)
  BY DEF Falls
<1>1. u = t /\ pc'[u] = l
  BY DEF TypeOK, ControlTypeOK
<1>2. Turns(u)' = Turns(u)
  BY DEF Turns
<1>3. Turns(u) \in Nat /\ Place[l] \in Nat /\ Place[pc[t]] \in Nat
  BY Numbers DEF TypeOK, ControlTypeOK, Labels
<1>4. Left(u)' = 16 * Turns(u) + Place[l]
  BY <1>1, <1>2 DEF Left
<1>5. QED
  BY <1>1, <1>3, <1>4 DEF Left

\* A thread that goes on with its next transaction.
LEMMA TurnFalls ==
    ASSUME TypeOK, TypeOK', NEW t \in Threads, NEW l \in Labels,
           Goto(t, l), Turns(t)' < Turns(t),
           \A u \in Threads \ {t} : stage'[u] = stage[u],
           Place[l] <= 12, Place[pc[t]] >= 1
    PROVE  \A u \in Threads : Falls(u)
<1> SUFFICES ASSUME NEW u \in Threads, pc'[u] # pc[u] \/ stage'[u] # stage[u]
             PROVE  Left(u)' < Left(u)
  BY DEF Falls
<1>1. u = t /\ pc'[t] = l
  BY DEF TypeOK, ControlTypeOK
<1>2. Turns(t) \in Nat /\ Turns(t)' \in Nat /\ Place[l] \in Nat /\ Place[pc[t]] \in Nat
  BY Numbers DEF TypeOK, ControlTypeOK, Labels
<1>3. 16 * Turns(t)' + Place[l] < 16 * Turns(t) + Place[pc[t]]
  BY <1>2
<1>4. QED
  BY <1>1, <1>3 DEF Left

LEMMA ReturnFalls ==
    ASSUME TypeOK, TypeOK', NEW t \in Threads, NEW r, Return(t, r), UNCHANGED retried,
           pc[t] \in {"pre", "poll", "timedout", "finish"}
    PROVE  \A u \in Threads : Falls(u)
<1> USE DEF TypeOK, ControlTypeOK
<1>0. {"pre", "ack", "unlock"} \subseteq Labels
  BY DEF Labels, MainLabels, ReaderLabels, TransferLabels
<1>1. CASE stage[t] = "exec"
  <2>1. Goto(t, "pre") /\ stage' = [stage EXCEPT ![t] = "hello"]
    BY <1>1 DEF Return
  <2>2. Turns(t)' < Turns(t)
    BY <1>1, <2>1 DEF Turns
  <2>3. Place["pre"] <= 12 /\ Place[pc[t]] >= 1
    BY DEF Place
  <2>4. QED
    BY <1>0, <2>1, <2>2, <2>3, TurnFalls
<1>2. CASE stage[t] # "exec"
  <2>1. PICK l \in {"ack", "unlock"} : Goto(t, l) /\ UNCHANGED stage
    BY <1>2 DEF Return
  <2>2. Place[l] < Place[pc[t]]
    BY DEF Place
  <2>3. QED
    BY <1>0, <2>1, <2>2, MoveFalls
<1>3. QED
  BY <1>1, <1>2

LEMMA TransferFalls ==
    ASSUME TypeOK, TypeOK', NEW t \in Threads, Transfer(t)
    PROVE  \A u \in Threads : Falls(u)
<1>1. CASE \/ Prepare(t) \/ LockI2CBus(t) \/ CheckPreIdle(t) \/ PollIdle(t) \/ Start(t)
           \/ ConsumeEvent(t) \/ Sleep(t) \/ Timeout(t) \/ ResumeAwakened(t)
  <2>1. PICK l \in Labels : Goto(t, l) /\ UNCHANGED <<stage, retried>> /\ Place[l] < Place[pc[t]]
    BY <1>1 DEF Prepare, LockI2CBus, CheckPreIdle, PollIdle, Start, ConsumeEvent, Sleep,
                Timeout, ResumeAwakened, Place, Labels, MainLabels, TransferLabels
  <2>2. QED
    BY <2>1, MoveFalls
<1>2. CASE \/ BlockBufferRefused(t) \/ CheckPreBusy(t) \/ PollGivesUp(t)
           \/ ResumeTimedOut(t) \/ Finish(t)
  <2>1. PICK r : Return(t, r)
    BY <1>2 DEF BlockBufferRefused, CheckPreBusy, PollGivesUp, ResumeTimedOut, Finish
  <2>2. UNCHANGED retried /\ pc[t] \in {"pre", "poll", "timedout", "finish"}
    BY <1>2 DEF BlockBufferRefused, CheckPreBusy, PollGivesUp, ResumeTimedOut, Finish
  <2>3. QED
    BY <2>1, <2>2, ReturnFalls
<1>3. QED
  BY <1>1, <1>2 DEF Transfer

LEMMA StartFalls ==
    ASSUME TypeOK, TypeOK', PhaseInv, Setup \/ EnableInterrupts \/ Settle \/ UnlockInStart
    PROVE  \A u \in Threads : Falls(u)
<1>0. {"prepare", "lock", "enable", "settle", "done"} \subseteq Labels
  BY DEF Labels, MainLabels, TransferLabels
<1>1. CASE Setup
  <2>1. Goto(Main, "prepare") /\ UNCHANGED <<stage, retried>>
    BY <1>1 DEF Setup
  <2>2. Place["prepare"] < Place[pc[Main]]
    BY <1>1 DEF Setup, Place
  <2>3. QED
    BY <1>0, <2>1, <2>2, MoveFalls
<1>2. CASE Settle
  <2>1. Goto(Main, "done") /\ UNCHANGED <<stage, retried>>
    BY <1>2 DEF Settle
  <2>2. Place["done"] < Place[pc[Main]]
    BY <1>2 DEF Settle, Place
  <2>3. QED
    BY <1>0, <2>1, <2>2, MoveFalls
<1>3. CASE EnableInterrupts
  <2>1. Turns(Main)' < Turns(Main)
    BY <1>3 DEF EnableInterrupts, PhaseInv, Turns, TypeOK, ControlTypeOK
  <2>2. Place["prepare"] <= 12 /\ Place[pc[Main]] >= 1
    BY <1>3 DEF EnableInterrupts, Place
  <2>3. QED
    BY <1>0, <1>3, <2>1, <2>2, TurnFalls DEF EnableInterrupts, TypeOK, ControlTypeOK
<1>4. CASE UnlockInStart
  <2>1. Place[pc[Main]] = 3
    BY <1>4 DEF UnlockInStart, Place
  <2>2. ASSUME UNCHANGED <<stage, retried>> PROVE \A u \in Threads : Falls(u)
    <3>1. PICK l \in {"enable", "settle"} : Goto(Main, l)
      BY <1>4, <2>2 DEF UnlockInStart, TypeOK, ControlTypeOK, DataTypeOK
    <3>2. l \in Labels /\ Place[l] < Place[pc[Main]]
      BY <1>0, <2>1 DEF Place
    <3>3. QED
      BY <2>2, <3>1, <3>2, MoveFalls
  <2>3. ASSUME ~UNCHANGED <<stage, retried>> PROVE \A u \in Threads : Falls(u)
    <3>1. PICK l \in {"prepare", "lock"} : Goto(Main, l)
      BY <1>4, <2>3 DEF UnlockInStart
    <3>2. l \in Labels /\ Place[l] <= 12 /\ Place[pc[Main]] >= 1
      BY <1>0, <2>1 DEF Place
    <3>3. Turns(Main)' < Turns(Main)
      BY <1>4, <2>3 DEF UnlockInStart, Turns, TypeOK, ControlTypeOK,
                            DataTypeOK
    <3>4. \A u \in Threads \ {Main} : stage'[u] = stage[u]
      BY <1>4 DEF UnlockInStart, TypeOK, ControlTypeOK
    <3>5. QED
      BY <3>1, <3>2, <3>3, <3>4, TurnFalls
  <2>4. QED
    BY <2>2, <2>3
<1>5. QED
  BY <1>1, <1>2, <1>3, <1>4

LEMMA StepFalls ==
    ASSUME TypeOK, PhaseInv, [Next]_vars
    PROVE  \A u \in Threads : Falls(u)
<1>0. TypeOK'
  BY TypeNext
<1> USE DEF TypeOK, ControlTypeOK
<1>1. CASE Setup \/ EnableInterrupts \/ Settle \/ UnlockInStart
  BY <1>0, <1>1, StartFalls
<1>2. ASSUME NEW t \in Threads, Transfer(t) PROVE \A u \in Threads : Falls(u)
  BY <1>0, <1>2, TransferFalls
<1>3. ASSUME NEW r \in Readers,
             \/ CheckReady(r) \/ AttemptAction(r) \/ LeaveGate(r)
             \/ ClearNotify(r) \/ UnlockAfterReport(r)
      PROVE  \A u \in Threads : Falls(u)
  <2>1. PICK l \in Labels : Goto(r, l) /\ UNCHANGED <<stage, retried>> /\ Place[l] < Place[pc[r]]
    BY <1>3 DEF CheckReady, AttemptAction, LeaveGate, ClearNotify, UnlockAfterReport, Place,
                Labels, ReaderLabels, TransferLabels
  <2>2. QED
    BY <2>1, MoveFalls
<1>4. CASE EnterHandler
  BY <1>4 DEF EnterHandler, Falls
<1>5. CASE Signal
  <2>1. CASE UNCHANGED pc
    BY <1>5, <2>1 DEF Signal, Falls
  <2>2. ASSUME NEW t \in Threads, pc[t] = "sleep", Goto(t, "awakened")
        PROVE  \A u \in Threads : Falls(u)
    <3>1. "awakened" \in Labels /\ Place["awakened"] < Place[pc[t]]
      BY <2>2 DEF Place, Labels, MainLabels, TransferLabels
    <3>2. QED
      BY <1>5, <2>2, <3>1, MoveFalls DEF Signal
  <2>3. QED
    BY <1>5, <2>1, <2>2 DEF Signal
<1>6. CASE \/ Classify \/ WriteBack \/ InterruptFilter \/ HostCompletes
           \/ HostNotify \/ UNCHANGED vars
  BY <1>6 DEF Classify, WriteBack, InterruptFilter, HostCompletes, HostNotify, Falls
<1>7. QED
  BY <1>1, <1>2, <1>3, <1>4, <1>5, <1>6 DEF Next, MainStep, ReaderStep, HandlerStep

\* start() and the report threads only ever go forward.
THEOREM RunsDownCorrect == Spec => RunsDown
<1> DEFINE AllFall == \A t \in Threads : Falls(t)
<1>1. TypeOK /\ PhaseInv /\ [Next]_vars => [AllFall]_vars
  BY StepFalls
<1>2. Spec => [][AllFall]_vars
  BY <1>1, PhaseInit, PhaseNext, TypeCorrect, PTL DEF Spec
<1>3. QED
  BY <1>2 DEF RunsDown

\* The stage a transaction of start() returns in is not that of I2CExec.
UnlockStage == pc[Main] = "unlock" => stage[Main] # "exec"

LEMMA UnlockStageNext == TypeOK /\ UnlockStage /\ [Next]_vars => UnlockStage'
<1> SUFFICES ASSUME TypeOK, UnlockStage, [Next]_vars PROVE UnlockStage'
  OBVIOUS
<1> USE DEF TypeOK, ControlTypeOK, UnlockStage
<1>1. CASE Setup \/ EnableInterrupts \/ Settle \/ UnlockInStart
  BY <1>1 DEF Setup, EnableInterrupts, Settle, UnlockInStart
<1>2. ASSUME NEW t \in Threads, Transfer(t) PROVE UnlockStage'
  <2>1. CASE \/ Prepare(t) \/ LockI2CBus(t) \/ CheckPreIdle(t) \/ PollIdle(t) \/ Start(t)
             \/ ConsumeEvent(t) \/ Sleep(t) \/ Timeout(t) \/ ResumeAwakened(t)
    BY <2>1 DEF Prepare, LockI2CBus, CheckPreIdle, PollIdle, Start, ConsumeEvent, Sleep,
                Timeout, ResumeAwakened
  <2>2. ASSUME NEW x, Return(t, x) PROVE UnlockStage'
    BY <2>2 DEF Return
  <2>3. QED
    BY <1>2, <2>1, <2>2 DEF Transfer, BlockBufferRefused, CheckPreBusy, PollGivesUp,
                            ResumeTimedOut, Finish
<1>3. ASSUME NEW r \in Readers,
             \/ CheckReady(r) \/ AttemptAction(r) \/ LeaveGate(r)
             \/ ClearNotify(r) \/ UnlockAfterReport(r)
      PROVE  UnlockStage'
  BY <1>3 DEF CheckReady, AttemptAction, LeaveGate, ClearNotify, UnlockAfterReport
<1>4. CASE EnterHandler \/ Signal
  BY <1>4 DEF EnterHandler, Signal
<1>5. CASE \/ Classify \/ WriteBack \/ InterruptFilter \/ HostCompletes
           \/ HostNotify \/ UNCHANGED vars
  BY <1>5 DEF Classify, WriteBack, InterruptFilter, HostCompletes, HostNotify
<1>6. QED
  BY <1>1, <1>2, <1>3, <1>4, <1>5 DEF Next, MainStep, ReaderStep, HandlerStep

\* No thread is ever held up by another one: I2C_Lock is free for whoever comes.
THEOREM NeverStuckCorrect == Spec => []NeverStuck
<1>1. TypeOK /\ LockInv /\ UnlockStage => NeverStuck
  <2> SUFFICES ASSUME TypeOK, LockInv, UnlockStage, NEW t \in Threads
               PROVE  /\ pc[t] = "lock" => busLock = Nobody
                      /\ pc[t] = "unlock" => stage[t] # "exec"
    BY DEF NeverStuck
  <2>1. ASSUME pc[t] = "lock", busLock # Nobody PROVE FALSE
    <3>1. busLock \in Threads /\ pc[busLock] \in HoldsBus
      BY <2>1 DEF TypeOK, DataTypeOK, LockInv, BusExclusion
    <3>2. pc[t] \in InTransfer /\ pc[busLock] \in InTransfer /\ pc[t] \notin HoldsBus
      BY <2>1, <3>1 DEF HoldsBus, InTransfer, TransferLabels
    <3>3. QED
      BY <3>1, <3>2, OneTransfer DEF OneTransferAtATime
  <2>2. pc[t] = "unlock" => stage[t] # "exec"
    BY DEF TypeOK, ControlTypeOK, UnlockStage
  <2>3. QED
    BY <2>1, <2>2
<1>2. Init => UnlockStage
  BY DEF Init, UnlockStage
<1>3. QED
  BY <1>1, <1>2, UnlockStageNext, TypeCorrect, LocksCorrect, PTL DEF Spec

LEMMA ReadingLabels ==
    Reading = {"prepare", "lock", "pre", "poll", "start", "wait", "sleep", "awakened",
               "timedout", "finish", "ack"}
BY DEF Reading, Admitted, TransferLabels

LEMMA StepClears ==
    ASSUME TypeOK, [Next]_vars
    PROVE  \A r \in Readers : ClearsFirst(r)
<1> SUFFICES ASSUME NEW r \in Readers, pc[r] \in Reading
             PROVE  pc'[r] \in Reading \/ (pc'[r] = "unlock" /\ ~ntfy')
  BY DEF ClearsFirst
<1> USE ReadingLabels DEF TypeOK, ControlTypeOK
<1>1. CASE Setup \/ EnableInterrupts \/ Settle \/ UnlockInStart
  BY <1>1 DEF Setup, EnableInterrupts, Settle, UnlockInStart
<1>2. ASSUME NEW t \in Threads, Transfer(t) PROVE pc'[r] \in Reading
  <2>1. CASE \/ Prepare(t) \/ LockI2CBus(t) \/ CheckPreIdle(t) \/ PollIdle(t) \/ Start(t)
             \/ ConsumeEvent(t) \/ Sleep(t) \/ Timeout(t) \/ ResumeAwakened(t)
    BY <2>1 DEF Prepare, LockI2CBus, CheckPreIdle, PollIdle, Start, ConsumeEvent, Sleep,
                Timeout, ResumeAwakened
  <2>2. ASSUME NEW x, Return(t, x) PROVE pc'[r] \in Reading
    BY <2>2 DEF Return
  <2>3. QED
    BY <1>2, <2>1, <2>2 DEF Transfer, BlockBufferRefused, CheckPreBusy, PollGivesUp,
                            ResumeTimedOut, Finish
<1>3. ASSUME NEW u \in Readers,
             \/ CheckReady(u) \/ AttemptAction(u) \/ LeaveGate(u)
             \/ ClearNotify(u) \/ UnlockAfterReport(u)
      PROVE  pc'[r] \in Reading \/ (pc'[r] = "unlock" /\ ~ntfy')
  BY <1>3 DEF CheckReady, AttemptAction, LeaveGate, ClearNotify, UnlockAfterReport
<1>4. CASE EnterHandler \/ Signal
  BY <1>4 DEF EnterHandler, Signal
<1>5. CASE \/ Classify \/ WriteBack \/ InterruptFilter \/ HostCompletes
           \/ HostNotify \/ UNCHANGED vars
  BY <1>5 DEF Classify, WriteBack, InterruptFilter, HostCompletes, HostNotify
<1>6. QED
  BY <1>1, <1>2, <1>3, <1>4, <1>5 DEF Next, MainStep, ReaderStep, HandlerStep

\* However a report ends, its thread clears HST_NTFY before it lets go of the bus.
THEOREM NotifyClearedCorrect == Spec => NotifyClearedFirst
<1> DEFINE AllClear == \A r \in Readers : ClearsFirst(r)
<1>1. TypeOK /\ [Next]_vars => [AllClear]_vars
  BY StepClears
<1>2. Spec => [][AllClear]_vars
  BY <1>1, TypeCorrect, PTL DEF Spec
<1>3. QED
  BY <1>2 DEF NotifyClearedFirst

=============================================================================
