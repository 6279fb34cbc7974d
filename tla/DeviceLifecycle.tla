--------------------------- MODULE DeviceLifecycle ---------------------------
(***************************************************************************)
(* I2CDevice from init() to free(): what it creates and releases, and who  *)
(* uses it meanwhile.  IOKit calls init, start, stop and free one after    *)
(* the other, stop only after a start that succeeded; the work loop runs   *)
(* the interrupt handler; the handler spawns report threads, which hold no *)
(* reference to the device.                                                *)
(*                                                                         *)
(* What goes over the bus is in I2CDevice; here a transaction is a use of  *)
(* what it needs.  A use of something that is not there, a crash in the    *)
(* kernel, is noted in faults and the model goes on.                       *)
(***************************************************************************)
EXTENDS Integers, FiniteSets

CONSTANT Threads    \* report threads

\* command_gate, fInterruptSrc, MyWorkLoop, transducers, Lock.holder, I2C_Lock,
\* fPCIDevice (retained and open), the interface and its set of engines.
\* "device" is the I2CDevice object itself.
Resources == {"gate", "source", "workLoop", "transducers", "lock", "busLock", "pci",
              "interface", "engines", "device"}

Bus == {"device", "pci", "lock", "busLock"}

VARIABLES stage,     \* how far init, start, stop and free have come
          has,       \* resource -> "never", "live" or "released"
          ready,     \* ready_for_input
          handler,   \* the interrupt handler is running
          thread,    \* report thread -> where it is
          faults     \* history: [by, of] for each use of what is not live

vars == <<stage, has, ready, handler, thread, faults>>

Init ==
    /\ stage = "new"
    /\ has = [r \in Resources |-> "never"]
    /\ ready = FALSE
    /\ handler = FALSE
    /\ thread = [t \in Threads |-> "none"]
    /\ faults = {}

Live(r) == has[r] = "live"

Misused(by, used) == {[by |-> by, of |-> r] : r \in {u \in used : ~Live(u)}}

\* The resources are created, or released; a pointer that is NULL is not.
Created(rs) == [r \in Resources |-> IF r \in rs THEN "live" ELSE has[r]]
Released(rs) == [r \in Resources |-> IF r \in rs /\ Live(r) THEN "released" ELSE has[r]]

\* The work loop's gate is closed while the handler, or a report thread in
\* attemptAction, is at work.
GateClosed == handler \/ \E t \in Threads : thread[t] \in {"reading", "delivering"}

Step(from, to) == stage = from /\ stage' = to
Others == UNCHANGED <<ready, handler, thread>>

-----------------------------------------------------------------------------
(* init and start                                                           *)

InitDevice ==
    /\ Step("new", "made")
    /\ has' = Created({"device", "transducers"})
    /\ UNCHANGED faults /\ Others

\* No PCI device: start() returns at once.
NoProvider ==
    /\ Step("made", "failed")
    /\ UNCHANGED <<has, faults>> /\ Others

OpenProvider ==
    /\ Step("made", "opened")
    /\ has' = Created({"pci"})
    /\ UNCHANGED faults /\ Others

\* The host is disabled, or has no interrupt, or there is no work loop.
GiveUp ==
    /\ stage \in {"opened", "locked"}
    /\ stage' = "failed"
    /\ UNCHANGED <<has, faults>> /\ Others

\* Mutant: I2C_Lock is not allocated.
AllocEventLock ==
    /\ Step("opened", "locked")
    /\ has' = Created({"lock"})
    /\ faults' = faults \cup Misused("start", {"pci"})
    /\ Others

AllocLocks ==
    /\ Step("opened", "locked")
    /\ has' = Created({"lock", "busLock"})
    /\ faults' = faults \cup Misused("start", {"pci"})
    /\ Others

CreateWorkLoop ==
    /\ Step("locked", "looped")
    /\ has' = Created({"workLoop"})
    /\ UNCHANGED faults /\ Others

\* The result is not looked at.
CreateDeviceInterrupt ==
    /\ Step("looped", "sourced")
    /\ \E made \in {{}, {"source"}} : has' = Created(made)
    /\ UNCHANGED faults /\ Others

CreateGate ==
    /\ Step("sourced", "gated")
    /\ has' = Created({"gate"})
    /\ faults' = faults \cup Misused("start", {"workLoop"})
    /\ Others

\* The one failure that releases what there is.
NoGate ==
    /\ Step("sourced", "failed")
    /\ has' = Released({"source", "transducers", "workLoop"})
    /\ UNCHANGED faults /\ Others

\* publish_multitouch_interface: the result is not looked at.  Without memory
\* there is no interface, with one that does not start no engines.
Publish ==
    /\ Step("gated", "published")
    /\ \E made \in {{}, {"interface"}, {"interface", "engines"}} : has' = Created(made)
    /\ UNCHANGED faults /\ Others

\* init_device, then the source is added and enabled.
EnableSource ==
    /\ Step("published", "enabled")
    /\ faults' = faults \cup Misused("start", Bus \cup {"workLoop", "source"})
    /\ UNCHANGED has /\ Others

Initialize ==
    /\ Step("enabled", "initialized")
    /\ faults' = faults \cup Misused("start", Bus)
    /\ UNCHANGED has /\ Others

SetReady ==
    /\ Step("initialized", "registering")
    /\ ready' = TRUE
    /\ UNCHANGED <<has, handler, thread, faults>>

Register ==
    /\ Step("registering", "started")
    /\ faults' = faults \cup Misused("start", {"interface"})
    /\ UNCHANGED has /\ Others

-----------------------------------------------------------------------------
(* stop and free                                                            *)

\* IOKit stops the clients of a device before the device: the interface drops
\* its engines while reports still come.
StopInterface ==
    /\ Step("started", "terminating")
    /\ has' = Released({"engines"})
    /\ UNCHANGED faults /\ Others

\* stop() does not clear ready_for_input, and nobody waits for report threads.
BeginStop ==
    /\ Step("terminating", "stopping")
    /\ UNCHANGED <<has, faults>> /\ Others

\* Mutant: the gate is released though someone works inside it.
ReleaseGateAnyway ==
    /\ Step("stopping", "gateless")
    /\ has' = Released({"gate"})
    /\ faults' = faults \cup Misused("stop", {"workLoop"})
    /\ Others

\* removeEventSource waits for the work loop's gate.
ReleaseGate ==
    /\ Step("stopping", "gateless")
    /\ ~GateClosed
    /\ has' = Released({"gate"})
    /\ faults' = faults \cup Misused("stop", {"workLoop"})
    /\ Others

ReleaseSource ==
    /\ Step("gateless", "quiet")
    /\ ~GateClosed
    /\ has' = Released({"source"})
    /\ faults' = faults \cup Misused("stop", {"workLoop"})
    /\ Others

ReleaseWorkLoop ==
    /\ Step("quiet", "loopless")
    /\ has' = Released({"workLoop"})
    /\ UNCHANGED faults /\ Others

ReleaseTransducers ==
    /\ Step("loopless", "emptied")
    /\ has' = Released({"transducers"})
    /\ UNCHANGED faults /\ Others

\* unpublish_multitouch_interface stops the interface again, and keeps it for
\* good.
Unpublish ==
    /\ Step("emptied", "stopped")
    /\ has' = Released({"engines"})
    /\ UNCHANGED faults /\ Others

FreeLocks ==
    /\ stage \in {"made", "failed", "stopped"}
    /\ stage' = "unlocked"
    /\ has' = Released({"lock", "busLock"})
    /\ UNCHANGED faults /\ Others

\* What is left of the source, then the PCI device, be there one or not.
FreeDevice ==
    /\ Step("unlocked", "freed")
    /\ has' = Released({"source", "pci", "device"})
    /\ faults' = faults \cup Misused("free", {"pci"})
    /\ Others

-----------------------------------------------------------------------------
(* The interrupt handler and the report threads                             *)

\* The source delivers from when it is enabled until it is removed.
Delivering ==
    /\ Live("source")
    /\ stage \in {"enabled", "initialized", "registering", "started", "terminating", "stopping",
                  "gateless"}

\* The filter reads the host's status, the handler spawns a thread.
Interrupt(t) ==
    /\ Delivering /\ ~GateClosed
    /\ handler' = TRUE
    /\ \/ thread[t] = "none" /\ thread' = [thread EXCEPT ![t] = "spawned"]
       \/ UNCHANGED thread
    /\ faults' = faults \cup Misused("handler", {"pci", "source"})
    /\ UNCHANGED <<stage, has, ready>>

\* It wakes who waits, and writes the status back.
HandlerReturns ==
    /\ handler
    /\ handler' = FALSE
    /\ faults' = faults \cup Misused("handler", {"lock", "pci", "workLoop"})
    /\ UNCHANGED <<stage, has, ready, thread>>

CheckReady(t) ==
    /\ thread[t] = "spawned"
    /\ thread' = [thread EXCEPT ![t] = IF ready THEN "ready" ELSE "none"]
    /\ faults' = faults \cup Misused("thread", {"device"})
    /\ UNCHANGED <<stage, has, ready, handler>>

\* attemptAction on a gate that is closed gives up.
AttemptAction(t) ==
    /\ thread[t] = "ready"
    /\ thread' = [thread EXCEPT ![t] = IF Live("gate") /\ ~GateClosed THEN "reading" ELSE "none"]
    /\ faults' = faults \cup Misused("thread", {"device", "gate"})
    /\ UNCHANGED <<stage, has, ready, handler>>

\* parse_ELAN_report, inside the gate: a transaction, then the contacts.
ReadReport(t) ==
    /\ thread[t] = "reading"
    /\ thread' = [thread EXCEPT ![t] = "delivering"]
    /\ faults' = faults \cup Misused("report", Bus \cup {"gate", "workLoop"})
    /\ UNCHANGED <<stage, has, ready, handler>>

\* Without an interface nobody is told, an interface without engines falls over
\* them.
DeliverReport(t) ==
    /\ thread[t] = "delivering"
    /\ thread' = [thread EXCEPT ![t] = "none"]
    /\ faults' = faults \cup
            Misused("report", {"transducers"} \cup (IF Live("interface") THEN {"engines"} ELSE {}))
    /\ UNCHANGED <<stage, has, ready, handler>>

Starts == \/ InitDevice \/ NoProvider \/ OpenProvider \/ GiveUp \/ AllocLocks
          \/ CreateWorkLoop \/ CreateDeviceInterrupt \/ CreateGate \/ NoGate \/ Publish
          \/ EnableSource \/ Initialize \/ SetReady \/ Register

Stops == \/ StopInterface \/ BeginStop \/ ReleaseGate \/ ReleaseSource \/ ReleaseWorkLoop
         \/ ReleaseTransducers \/ Unpublish \/ FreeLocks \/ FreeDevice

Reports == \/ HandlerReturns
           \/ \E t \in Threads : \/ Interrupt(t) \/ CheckReady(t) \/ AttemptAction(t)
                                 \/ ReadReport(t) \/ DeliverReport(t)

Next == Starts \/ Stops \/ Reports

Spec == Init /\ [][Next]_vars

-----------------------------------------------------------------------------
(* Properties                                                               *)

\* Everything start() does not look at came about: the interface with its
\* engines, and the interrupt source.
CameUp == has["source"] # "never" /\ has["engines"] # "never"

\* A device that came up uses nothing that is not there before it is
\* terminated: not start() itself, not the interrupts that come while it is
\* still initializing, nor the report threads they spawn (ELANSMBus.cpp:428-461).
QuietUntilTerminated ==
    CameUp /\ stage \in {"published", "enabled", "initialized", "registering", "started"} =>
        faults = {}

\* Once it is terminated, what runs inside the work loop's gate still finds all
\* it needs, but for the engines: stop() takes the gate and the source away
\* before the work loop, the transducers and the locks (ELANSMBus.cpp:255-280),
\* and removing them waits for the gate.
GateProtects ==
    CameUp => \A f \in faults : f.by \in {"handler", "report"} => f.of = "engines"

=============================================================================
