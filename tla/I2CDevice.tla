------------------------------ MODULE I2CDevice ------------------------------
(***************************************************************************)
(* The transport of class I2CDevice (ELANSMBus.cpp): the thread that runs  *)
(* start(), the report threads the interrupt handler spawns, the work loop *)
(* that runs that handler, the interrupt filter, and, from the driver's    *)
(* use of their registers, the SMBus host controller and the touchpad.     *)
(*                                                                         *)
(* A thread's position in the code is pc[t]; stage[t] says which SMBus     *)
(* transaction of its caller the shared transaction code is running.       *)
(*                                                                         *)
(*   handle_input_threaded   spawned -> attempt -> (gate)                  *)
(*   elan_smbus_*            prepare -> lock -> ... -> unlock              *)
(*   i801_transaction        pre  -> start -> wait -> sleep -> finish      *)
(*   I2CExec                 poll -> start -> wait -> sleep -> finish      *)
(*                                                                         *)
(* A report thread holds the work loop's gate from "prepare" to "parse";   *)
(* the work loop holds it while interruptHandler runs.                     *)
(***************************************************************************)
EXTENDS Naturals, FiniteSets

CONSTANTS Readers,      \* the report threads that may exist at one time
          Main,         \* the thread that runs start()
          WorkLoop,     \* the work loop's thread
          Nobody,       \* the owner of a free lock
          SharedLine,   \* may another device raise the interrupt line?
          BufferFaulty  \* may the host refuse its 32-byte block buffer?

ASSUME ConstantsAssumption ==
    /\ IsFiniteSet(Readers)
    /\ Main \notin Readers
    /\ WorkLoop \notin Readers \cup {Main}
    /\ Nobody \notin Readers \cup {Main, WorkLoop}
    /\ SharedLine \in BOOLEAN
    /\ BufferFaulty \in BOOLEAN

Threads == Readers \cup {Main}

VARIABLES pc,           \* where each thread is
          stage,        \* which transaction each thread is running
          result,       \* what that transaction returned
          retried,      \* has start() called elan_smbus_initialize again?
          ready,        \* ready_for_input
          gate,         \* owner of the work loop's gate
          busLock,      \* owner of I2C_Lock
          event,        \* Lock.event
          op,           \* I2C_Transfer.op
          errorMarker,  \* I2C_Transfer.error_marker
          hsts,         \* the host status register, HSTSTS
          ntfy,         \* HST_NTFY of the slave status register, SLVSTS
          fSt,          \* HSTSTS as the filter last read it
          irq,          \* the interrupt source: "off", "armed" or "masked"
          handler       \* where the work loop is in interruptHandler

threadVars == <<pc, stage, result, retried, ready>>
transferVars == <<event, op, errorMarker>>
interruptVars == <<fSt, irq, handler>>
vars == <<threadVars, gate, busLock, transferVars, hsts, ntfy, interruptVars>>

-----------------------------------------------------------------------------
(* HSTSTS: "ERR" stands for FAILED, BUS_ERR and DEV_ERR, which the driver   *)
(* never tells apart.  A 1 written to a flag clears it, BUSY excepted, and  *)
(* a read sets INUSE, the bus semaphore.                                    *)

Flags == {"BUSY", "INTR", "ERR", "INUSE"}
StatusFlags == {"INTR", "ERR"}

Busy == "BUSY" \in hsts
AfterRead(status) == status \cup {"INUSE"}
AfterWrite(status, ones) == status \ (ones \ {"BUSY"})

(* The stages of start(), in order, and the one of a report thread.         *)
MainStages == {"reset", "set_mode", "exec", "hello", "enable_tp"}
Stages == MainStages \cup {"report"}
BlockStages == {"set_mode", "hello", "report"}
ReadStages == {"hello", "report"}

OpOf(s) == IF s \in {"exec", "hello", "report"} THEN "read" ELSE "write"

TransferLabels == {"prepare", "lock", "pre", "poll", "start", "wait", "sleep",
                   "awakened", "timedout", "finish", "unlock"}
MainLabels == TransferLabels \cup {"setup", "enable", "settle", "done"}
ReaderLabels == TransferLabels \cup {"idle", "spawned", "attempt", "ack", "parse"}

Goto(t, label) == pc' = [pc EXCEPT ![t] = label]

-----------------------------------------------------------------------------
Init ==
    /\ pc = [t \in Threads |-> IF t = Main THEN "setup" ELSE "idle"]
    /\ stage = [t \in Threads |-> IF t = Main THEN "reset" ELSE "report"]
    /\ result = [t \in Threads |-> "none"]
    /\ retried = FALSE
    /\ ready = FALSE
    /\ gate = Nobody
    /\ busLock = Nobody
    /\ event = FALSE
    /\ op = "none"
    /\ errorMarker = FALSE
    /\ hsts \in {{}, {"ERR", "INUSE"}}   \* as the firmware leaves it
    /\ ntfy \in BOOLEAN
    /\ fSt = {}
    /\ irq = "off"
    /\ handler = "idle"

-----------------------------------------------------------------------------
(* start()                                                                  *)

\* The transfer record, HOST_NOTIFY and the interrupt source, not yet enabled.
Setup ==
    /\ pc[Main] = "setup"
    /\ op' = "none"
    /\ event' = FALSE
    /\ ntfy' = FALSE
    /\ Goto(Main, "prepare")
    /\ UNCHANGED <<stage, result, retried, ready, gate, busLock, errorMarker,
                   hsts, interruptVars>>

\* addEventSource and enable, after init_device has run its transactions.
EnableInterrupts ==
    /\ pc[Main] = "enable"
    /\ irq' = "armed"
    /\ stage' = [stage EXCEPT ![Main] = "exec"]
    /\ Goto(Main, "prepare")
    /\ UNCHANGED <<result, retried, ready, gate, busLock, transferVars, hsts,
                   ntfy, fSt, handler>>

Settle ==
    /\ pc[Main] = "settle"
    /\ ready' = TRUE
    /\ Goto(Main, "done")
    /\ UNCHANGED <<stage, result, retried, gate, busLock, transferVars, hsts,
                   ntfy, interruptVars>>

-----------------------------------------------------------------------------
(* handle_input_threaded                                                    *)

\* Mutant: the thread does not look at ready_for_input.
CheckReadySkipped(r) ==
    /\ pc[r] = "spawned"
    /\ Goto(r, "attempt")
    /\ UNCHANGED <<stage, result, retried, ready, gate, busLock, transferVars,
                   hsts, ntfy, interruptVars>>

CheckReady(r) ==
    /\ pc[r] = "spawned"
    /\ Goto(r, IF ready THEN "attempt" ELSE "idle")
    /\ UNCHANGED <<stage, result, retried, ready, gate, busLock, transferVars,
                   hsts, ntfy, interruptVars>>

\* Mutant: the report is read outside the work loop's gate.
AttemptActionUngated(r) ==
    /\ pc[r] = "attempt"
    /\ Goto(r, "prepare")
    /\ UNCHANGED <<stage, result, retried, ready, gate, busLock, transferVars,
                   hsts, ntfy, interruptVars>>

\* attemptAction gives up when the gate is taken: the report is dropped and
\* HST_NTFY stays set.
AttemptAction(r) ==
    /\ pc[r] = "attempt"
    /\ \/ /\ gate = Nobody
          /\ gate' = r
          /\ Goto(r, "prepare")
       \/ /\ gate # Nobody
          /\ Goto(r, "idle")
          /\ UNCHANGED gate
    /\ UNCHANGED <<stage, result, retried, ready, busLock, transferVars, hsts,
                   ntfy, interruptVars>>

\* parse_ELAN_report returns and the command gate opens.
LeaveGate(r) ==
    /\ pc[r] = "parse"
    /\ gate' = Nobody
    /\ result' = [result EXCEPT ![r] = "none"]
    /\ Goto(r, "idle")
    /\ UNCHANGED <<stage, retried, ready, busLock, transferVars, hsts, ntfy,
                   interruptVars>>

-----------------------------------------------------------------------------
(* elan_smbus_*: what surrounds a transaction                               *)

\* op and error_marker are written before I2C_Lock is taken; set_mode skips it.
Prepare(t) ==
    /\ pc[t] = "prepare"
    /\ op' = OpOf(stage[t])
    /\ errorMarker' = FALSE
    /\ Goto(t, "lock")
    /\ UNCHANGED <<stage, result, retried, ready, gate, busLock, event, hsts,
                   ntfy, interruptVars>>

\* Mutant: a report is read without I2C_Lock.
LockSkippedForReport(t) ==
    /\ pc[t] = "lock"
    /\ busLock = Nobody
    /\ busLock' = IF stage[t] = "report" THEN Nobody ELSE t
    /\ Goto(t, IF stage[t] = "exec" THEN "poll" ELSE "pre")
    /\ UNCHANGED <<stage, result, retried, ready, gate, transferVars, hsts,
                   ntfy, interruptVars>>

LockI2CBus(t) ==
    /\ pc[t] = "lock"
    /\ busLock = Nobody
    /\ busLock' = t
    /\ Goto(t, IF stage[t] = "exec" THEN "poll" ELSE "pre")
    /\ UNCHANGED <<stage, result, retried, ready, gate, transferVars, hsts,
                   ntfy, interruptVars>>

\* Mutant: a failed report leaves HST_NTFY set.
ClearNotifyOnSuccess(r) ==
    /\ pc[r] = "ack"
    /\ ntfy' = (ntfy /\ result[r] # "ok")
    /\ Goto(r, "unlock")
    /\ UNCHANGED <<stage, result, retried, ready, gate, busLock, transferVars,
                   hsts, interruptVars>>

\* Every return of elan_smbus_get_report clears HST_NTFY first.
ClearNotify(r) ==
    /\ pc[r] = "ack"
    /\ ntfy' = FALSE
    /\ Goto(r, "unlock")
    /\ UNCHANGED <<stage, result, retried, ready, gate, busLock, transferVars,
                   hsts, interruptVars>>

\* Mutant: a failed report returns without UnlockI2CBus.
UnlockOnSuccess(r) ==
    /\ pc[r] = "unlock"
    /\ busLock' = IF result[r] = "ok" THEN Nobody ELSE busLock
    /\ Goto(r, "parse")
    /\ UNCHANGED <<stage, result, retried, ready, gate, transferVars, hsts,
                   ntfy, interruptVars>>

UnlockAfterReport(r) ==
    /\ pc[r] = "unlock"
    /\ busLock' = Nobody
    /\ Goto(r, "parse")
    /\ UNCHANGED <<stage, result, retried, ready, gate, transferVars, hsts,
                   ntfy, interruptVars>>

\* start() goes to its next transaction; elan_smbus_initialize is tried twice.
UnlockInStart ==
    /\ pc[Main] = "unlock"
    /\ busLock' = Nobody
    /\ \/ /\ stage[Main] = "reset"
          /\ stage' = [stage EXCEPT ![Main] = "set_mode"]
          /\ Goto(Main, "lock")
          /\ UNCHANGED retried
       \/ /\ stage[Main] = "set_mode"
          /\ Goto(Main, "enable")
          /\ UNCHANGED <<stage, retried>>
       \/ /\ stage[Main] = "hello" /\ result[Main] = "ok"
          /\ stage' = [stage EXCEPT ![Main] = "enable_tp"]
          /\ Goto(Main, "prepare")
          /\ UNCHANGED retried
       \/ /\ stage[Main] = "hello" /\ result[Main] # "ok" /\ ~retried
          /\ stage' = [stage EXCEPT ![Main] = "exec"]
          /\ retried' = TRUE
          /\ Goto(Main, "prepare")
       \/ /\ \/ stage[Main] = "enable_tp"
             \/ stage[Main] = "hello" /\ result[Main] # "ok" /\ retried
          /\ Goto(Main, "settle")
          /\ UNCHANGED <<stage, retried>>
    /\ UNCHANGED <<result, ready, gate, transferVars, hsts, ntfy,
                   interruptVars>>

-----------------------------------------------------------------------------
(* i801_transaction and I2CExec: one transaction                            *)

\* The transaction of thread t returns r to its caller.  I2CExec is followed
\* by the hello packet under the same lock, whatever it returned.
Return(t, r) ==
    /\ result' = [result EXCEPT ![t] = r]
    /\ IF stage[t] = "exec"
         THEN /\ stage' = [stage EXCEPT ![t] = "hello"]
              /\ Goto(t, "pre")
         ELSE /\ Goto(t, IF stage[t] = "report" THEN "ack" ELSE "unlock")
              /\ UNCHANGED stage

\* i801_set_block_buffer_mode fails and i801_block_transaction returns 0: the
\* caller sees 32 bytes nobody read, a full report but not a hello packet.
BlockBufferRefused(t) ==
    /\ BufferFaulty
    /\ pc[t] = "pre"
    /\ stage[t] \in BlockStages
    /\ Return(t, IF stage[t] = "hello" THEN "error" ELSE "ok")
    /\ UNCHANGED <<retried, ready, gate, busLock, transferVars, hsts, ntfy,
                   interruptVars>>

CheckPreBusy(t) ==
    /\ pc[t] = "pre"
    /\ Busy
    /\ hsts' = AfterRead(hsts)
    /\ Return(t, "error")
    /\ UNCHANGED <<retried, ready, gate, busLock, transferVars, ntfy,
                   interruptVars>>

\* Mutant: a busy host is taken for an idle one.
CheckPreIgnoresBusy(t) ==
    /\ pc[t] = "pre"
    /\ hsts' = AfterRead(AfterWrite(hsts, StatusFlags))
    /\ Goto(t, "start")
    /\ UNCHANGED <<stage, result, retried, ready, gate, busLock, transferVars,
                   ntfy, interruptVars>>

CheckPreIdle(t) ==
    /\ pc[t] = "pre"
    /\ ~Busy
    /\ hsts' = AfterRead(AfterWrite(hsts, StatusFlags))
    /\ Goto(t, "start")
    /\ UNCHANGED <<stage, result, retried, ready, gate, busLock, transferVars,
                   ntfy, interruptVars>>

\* I2CExec polls, then sets op and error_marker itself, clearing no flag.
PollIdle(t) ==
    /\ pc[t] = "poll"
    /\ ~Busy
    /\ hsts' = AfterRead(hsts)
    /\ op' = "read"
    /\ errorMarker' = FALSE
    /\ Goto(t, "start")
    /\ UNCHANGED <<stage, result, retried, ready, gate, busLock, event, ntfy,
                   interruptVars>>

PollGivesUp(t) ==
    /\ pc[t] = "poll"
    /\ Busy
    /\ hsts' = AfterRead(hsts)
    /\ Return(t, "error")
    /\ UNCHANGED <<retried, ready, gate, busLock, transferVars, ntfy,
                   interruptVars>>

\* HSTCNT := command | INTREN | START.
Start(t) ==
    /\ pc[t] = "start"
    /\ hsts' = hsts \cup {"BUSY"}
    /\ Goto(t, "wait")
    /\ UNCHANGED <<stage, result, retried, ready, gate, busLock, transferVars,
                   ntfy, interruptVars>>

\* Under Lock.holder: an event that is already there is consumed.
ConsumeEvent(t) ==
    /\ pc[t] = "wait"
    /\ event
    /\ event' = FALSE
    /\ Goto(t, "finish")
    /\ UNCHANGED <<stage, result, retried, ready, gate, busLock, op,
                   errorMarker, hsts, ntfy, interruptVars>>

Sleep(t) ==
    /\ pc[t] = "wait"
    /\ ~event
    /\ Goto(t, "sleep")
    /\ UNCHANGED <<stage, result, retried, ready, gate, busLock, transferVars,
                   hsts, ntfy, interruptVars>>

\* Mutant: no deadline while the host is busy.
TimeoutWhenIdle(t) ==
    /\ pc[t] = "sleep"
    /\ ~Busy
    /\ Goto(t, "timedout")
    /\ UNCHANGED <<stage, result, retried, ready, gate, busLock, transferVars,
                   hsts, ntfy, interruptVars>>

\* The deadline of IOLockSleepDeadline, one second away, passes.
Timeout(t) ==
    /\ pc[t] = "sleep"
    /\ Goto(t, "timedout")
    /\ UNCHANGED <<stage, result, retried, ready, gate, busLock, transferVars,
                   hsts, ntfy, interruptVars>>

\* The sleeper has the lock again: it clears the event however it woke.
ResumeAwakened(t) ==
    /\ pc[t] = "awakened"
    /\ event' = FALSE
    /\ Goto(t, "finish")
    /\ UNCHANGED <<stage, result, retried, ready, gate, busLock, op,
                   errorMarker, hsts, ntfy, interruptVars>>

ResumeTimedOut(t) ==
    /\ pc[t] = "timedout"
    /\ event' = FALSE
    /\ Return(t, "error")
    /\ UNCHANGED <<retried, ready, gate, busLock, op, errorMarker, hsts, ntfy,
                   interruptVars>>

\* error_marker fails the transaction; i801_check_post is handed the constant
\* 0 and never does.  A block that was read may have the wrong length or bytes.
Finish(t) ==
    /\ pc[t] = "finish"
    /\ \/ /\ errorMarker
          /\ Return(t, "error")
       \/ /\ ~errorMarker
          /\ Return(t, "ok")
       \/ /\ ~errorMarker
          /\ stage[t] \in ReadStages
          /\ Return(t, "error")
    /\ UNCHANGED <<retried, ready, gate, busLock, transferVars, hsts, ntfy,
                   interruptVars>>

-----------------------------------------------------------------------------
(* The interrupt                                                            *)

Asserted == ntfy \/ hsts \cap StatusFlags # {}

\* The filter reads HSTSTS and always asks for the handler; the level-triggered
\* line stays masked until the handler has run.
InterruptFilter ==
    /\ irq = "armed"
    /\ Asserted \/ SharedLine
    /\ fSt' = hsts
    /\ hsts' = AfterRead(hsts)
    /\ irq' = "masked"
    /\ UNCHANGED <<threadVars, gate, busLock, transferVars, ntfy, handler>>

(* interruptHandler, on the work loop with its gate closed.                 *)

\* Mutant: the work loop does not close its gate.
EnterHandlerUngated ==
    /\ handler = "idle"
    /\ irq = "masked"
    /\ handler' = "classify"
    /\ IF "INUSE" \notin fSt /\ \E r \in Readers : pc[r] = "idle"
         THEN \E r \in Readers : pc[r] = "idle" /\ Goto(r, "spawned")
         ELSE UNCHANGED pc
    /\ UNCHANGED <<stage, result, retried, ready, gate, busLock, transferVars,
                   hsts, ntfy, fSt, irq>>

\* The gate closes; without INUSE the handler spawns a report thread, which
\* fails when no thread is left.
EnterHandler ==
    /\ handler = "idle"
    /\ irq = "masked"
    /\ gate = Nobody
    /\ gate' = WorkLoop
    /\ handler' = "classify"
    /\ IF "INUSE" \notin fSt /\ \E r \in Readers : pc[r] = "idle"
         THEN \E r \in Readers : pc[r] = "idle" /\ Goto(r, "spawned")
         ELSE UNCHANGED pc
    /\ UNCHANGED <<stage, result, retried, ready, busLock, transferVars, hsts,
                   ntfy, fSt, irq>>

\* The handler returns: the gate opens and IOKit unmasks the line.
LeaveHandler ==
    /\ handler' = "idle"
    /\ gate' = Nobody
    /\ irq' = "armed"

\* The cold-start return on I2CNoOp, or a latched error marks the transfer.
Classify ==
    /\ handler = "classify"
    /\ IF op = "none"
         THEN /\ LeaveHandler
              /\ UNCHANGED errorMarker
         ELSE /\ errorMarker' = (errorMarker \/ "ERR" \in fSt)
              /\ handler' = "signal"
              /\ UNCHANGED <<gate, irq>>
    /\ UNCHANGED <<threadVars, busLock, event, op, hsts, ntfy, fSt>>

\* Mutant: the event is set but nobody is woken.
SignalWithoutWakeup ==
    /\ handler = "signal"
    /\ event' = TRUE
    /\ handler' = "writeback"
    /\ UNCHANGED <<threadVars, gate, busLock, op, errorMarker, hsts, ntfy,
                   fSt, irq>>

\* Lock.event := true and IOLockWakeup of one sleeper, under Lock.holder.
Signal ==
    /\ handler = "signal"
    /\ event' = TRUE
    /\ IF \E t \in Threads : pc[t] = "sleep"
         THEN \E t \in Threads : pc[t] = "sleep" /\ Goto(t, "awakened")
         ELSE UNCHANGED pc
    /\ handler' = "writeback"
    /\ UNCHANGED <<stage, result, retried, ready, gate, busLock, op,
                   errorMarker, hsts, ntfy, fSt, irq>>

\* Mutant: the bus semaphore is left out of the status written back.
WriteBackKeepsInuse ==
    /\ handler = "writeback"
    /\ hsts' = AfterWrite(hsts, fSt \ {"INUSE"})
    /\ LeaveHandler
    /\ UNCHANGED <<threadVars, busLock, transferVars, ntfy, fSt>>

\* HSTSTS := fSt, the status as it was when the filter ran.
WriteBack ==
    /\ handler = "writeback"
    /\ hsts' = AfterWrite(hsts, fSt)
    /\ LeaveHandler
    /\ UNCHANGED <<threadVars, busLock, transferVars, ntfy, fSt>>

-----------------------------------------------------------------------------
(* External: the host controller and the touchpad.                          *)

HostCompletes ==
    /\ Busy
    /\ \E flag \in StatusFlags : hsts' = (hsts \ {"BUSY"}) \cup {flag}
    /\ UNCHANGED <<threadVars, gate, busLock, transferVars, ntfy,
                   interruptVars>>

HostNotify ==
    /\ ~ntfy
    /\ ntfy' = TRUE
    /\ UNCHANGED <<threadVars, gate, busLock, transferVars, hsts,
                   interruptVars>>

-----------------------------------------------------------------------------
Transfer(t) ==
    \/ Prepare(t) \/ LockI2CBus(t)
    \/ BlockBufferRefused(t) \/ CheckPreBusy(t) \/ CheckPreIdle(t)
    \/ PollIdle(t) \/ PollGivesUp(t)
    \/ Start(t) \/ ConsumeEvent(t) \/ Sleep(t) \/ Timeout(t)
    \/ ResumeAwakened(t) \/ ResumeTimedOut(t) \/ Finish(t)

MainStep ==
    \/ Setup \/ EnableInterrupts \/ Settle \/ UnlockInStart
    \/ Transfer(Main)

ReaderStep(r) ==
    \/ CheckReady(r) \/ AttemptAction(r) \/ LeaveGate(r)
    \/ ClearNotify(r) \/ UnlockAfterReport(r)
    \/ Transfer(r)

HandlerStep == EnterHandler \/ Classify \/ Signal \/ WriteBack

Next ==
    \/ MainStep
    \/ \E r \in Readers : ReaderStep(r)
    \/ InterruptFilter
    \/ HandlerStep
    \/ HostCompletes
    \/ HostNotify

Spec == Init /\ [][Next]_vars

\* Runnable threads run, a deadline passes, an asserted and unmasked line
\* interrupts.  Neither the host nor the touchpad owes the driver an answer.
Fairness ==
    /\ WF_vars(MainStep)
    /\ \A r \in Readers : WF_vars(ReaderStep(r))
    /\ WF_vars(HandlerStep)
    /\ WF_vars(InterruptFilter /\ Asserted)

FairSpec == Spec /\ Fairness

-----------------------------------------------------------------------------
(* Properties                                                               *)

\* Where a thread is inside a transaction, holds the bus, holds the gate.
InTransfer == (TransferLabels \ {"prepare"}) \cup {"ack"}
HoldsBus == InTransfer \ {"lock"}
Admitted == TransferLabels \cup {"ack", "parse"}

\* Where the threads are: start() and the report threads have labels and
\* stages of their own.
ControlTypeOK ==
    /\ pc \in [Threads -> MainLabels \cup ReaderLabels]
    /\ pc[Main] \in MainLabels
    /\ \A r \in Readers : pc[r] \in ReaderLabels
    /\ stage \in [Threads -> Stages]
    /\ stage[Main] \in MainStages
    /\ \A r \in Readers : stage[r] = "report"

DataTypeOK ==
    /\ result \in [Threads -> {"none", "ok", "error"}]
    /\ retried \in BOOLEAN
    /\ ready \in BOOLEAN
    /\ gate \in Readers \cup {WorkLoop, Nobody}
    /\ busLock \in Threads \cup {Nobody}
    /\ event \in BOOLEAN
    /\ op \in {"none", "read", "write"}
    /\ errorMarker \in BOOLEAN
    /\ hsts \subseteq Flags
    /\ ntfy \in BOOLEAN
    /\ fSt \subseteq Flags
    /\ irq \in {"off", "armed", "masked"}
    /\ handler \in {"idle", "classify", "signal", "writeback"}

\* Every variable has a value of its type: each thread is at a label of its own
\* part of the driver, running a transaction of its own (start() and its callees
\* for Main, handle_input_threaded for the others).
TypeOK == ControlTypeOK /\ DataTypeOK

\* A report thread works on a report exactly while it holds the work loop's
\* gate, and the work loop runs interruptHandler exactly while it does: the
\* handler never runs while a report is read, even one asleep for its answer.
GateExclusion ==
    /\ \A r \in Readers : pc[r] \in Admitted <=> gate = r
    /\ handler # "idle" <=> gate = WorkLoop

\* I2C_Lock: one thread at a time is between LockI2CBus and UnlockI2CBus.
BusExclusion == \A t \in Threads : pc[t] \in HoldsBus <=> busLock = t

\* No report is read before start() has finished with the bus, and
\* ready_for_input is what keeps them apart.
ReadyGuardsStart ==
    /\ ready <=> pc[Main] = "done"
    /\ \A r \in Readers : pc[r] \in Admitted \cup {"attempt"} => ready

\* No two threads are inside transactions, not even one of them waiting for
\* I2C_Lock: ready_for_input and the gate serialise them before the lock does.
OneTransferAtATime ==
    \A t, u \in Threads :
        pc[t] \in InTransfer /\ pc[u] \in InTransfer => t = u

\* START is never written while the host runs an earlier transaction, although
\* a timed-out transaction is abandoned and never killed.
StartOnlyWhenIdle == \A t \in Threads : pc[t] = "start" => ~Busy

\* A thread never sleeps beside an event that is already there: one wakeup is
\* enough, because at most one thread ever sleeps.
NoLostWakeup ==
    /\ \A t \in Threads : pc[t] = "sleep" => ~event
    /\ \A t, u \in Threads : pc[t] = "sleep" /\ pc[u] = "sleep" => t = u

\* A report thread that has to sleep in i801_transaction is never woken: the
\* handler that would wake it needs the gate the sleeper holds, so the second
\* always runs out and only an event left over beforehand lets a report in.
SleepingReaderNeverWoken == \A r \in Readers : pc[r] # "awakened"

\* The transactions of init_device run before the interrupt is enabled: no
\* event can end them, so both run into their deadline and fail.
NoEventBeforeEnable ==
    stage[Main] \in {"reset", "set_mode"} =>
        /\ ~event
        /\ \A t \in Threads : pc[t] \notin {"awakened", "finish"}

\* I2C_Transfer is written outside I2C_Lock, yet op and error_marker are never
\* reset under a thread that is inside a transaction.
TransferOwned ==
    [][op' # op \/ (errorMarker /\ ~errorMarker')
         => \A t \in Threads : pc[t] \in InTransfer => pc'[t] # pc[t]]_vars

\* The comment of i801_check_post, "If the SMBus is still busy, we give up":
\* no transaction reports success while the host is still running.
StillBusyGivesUp ==
    [][\A t \in Threads :
         pc[t] = "finish" /\ stage[t] # "exec" /\ pc'[t] \in {"unlock", "ack"}
           /\ result'[t] = "ok" => ~Busy]_vars

\* The driver's use of the bus is the abstract one, step for step.
Bus == INSTANCE SerialBus WITH
           Clients <- Threads, holder <- busLock, running <- Busy
SerialisesBus == Bus!Spec
ReleasesBus == Bus!FairSpec

\* start() returns, with or without a touchpad that answers.
StartReturns == <>(pc[Main] = "done")

\* A report thread that has the gate clears HST_NTFY, whatever goes wrong.
AdmittedReportClearsNotify ==
    \A r \in Readers : pc[r] = "prepare" ~> ~ntfy

\* A notification dropped at the gate, or passed over because the semaphore
\* bit was set, is not forgotten: until it is cleared a report thread tries again.
NotifyRetried ==
    ntfy /\ ready ~> ~ntfy \/ \E r \in Readers : pc[r] = "attempt"

=============================================================================
