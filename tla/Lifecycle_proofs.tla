-------------------------- MODULE Lifecycle_proofs --------------------------
(***************************************************************************)
(* The device, for any number of report threads: once it came up it uses   *)
(* nothing that is not there until it is terminated, and what runs in the  *)
(* gate misses nothing but the engines for as long as it may run at all.   *)
(*                                                                         *)
(*    HasInv: what is live at which stage                                  *)
(*    RunInv: when the handler and the gate may be busy                    *)
(*      ->  QuietInv  ->  GateProtects                                     *)
(*                                                                         *)
(* The engines: until it is stopped, the native engine gets by with what   *)
(* its start left (NativeInv), and a timer of the gesture engine finds all *)
(* it uses (TimerInv, which rests on GestureParts being there in order).   *)
(***************************************************************************)
EXTENDS DeviceLifecycle, EngineLifecycle, TLAPS

\* How far the device can have come.
Stages == {"new", "made", "opened", "locked", "looped", "sourced", "gated", "published",
           "enabled", "initialized", "registering", "started", "terminating", "stopping",
           "gateless", "quiet", "loopless", "emptied", "stopped", "failed", "unlocked", "freed"}

\* The stages of a start that succeeds, before the device is terminated.
Early == {"new", "made", "opened", "locked", "looped", "sourced", "gated"}
Up == {"published", "enabled", "initialized", "registering", "started"}
GateStages == {"gated"} \cup Up \cup {"terminating", "stopping"}

\* What is live from where to where; a device whose start failed holds on to
\* less, and none of what follows needs it.
HasInv ==
    /\ stage \in Stages
    /\ has \in [Resources -> {"never", "live", "released"}]
    /\ Live("gate") <=> stage \in GateStages
    /\ stage \in (Early \ {"new"}) \cup GateStages => Live("device") /\ Live("transducers")
    /\ stage \in (GateStages \cup {"opened", "locked", "looped", "sourced", "gateless"})
          => Live("pci")
    /\ stage \in (GateStages \cup {"locked", "looped", "sourced", "gateless"})
          => Live("lock") /\ Live("busLock")
    /\ stage \in (GateStages \cup {"looped", "sourced", "gateless", "quiet"})
          => Live("workLoop")
    /\ stage \in {"gateless"} => Live("device")
    /\ stage \in (GateStages \cup {"sourced", "gateless"}) /\ has["source"] # "never"
          => Live("source")
    /\ stage \in {"new", "made", "opened", "locked", "looped"} => has["source"] = "never"
    /\ stage \in Early => has["engines"] = "never"
    /\ stage \in Up /\ has["engines"] # "never" => Live("engines") /\ Live("interface")

\* Nothing runs before the source is enabled, the handler only while there is
\* one, a report only while there is a gate.
RunInv ==
    /\ thread \in [Threads -> {"none", "spawned", "ready", "reading", "delivering"}]
    /\ handler => Live("source") /\ stage \in (GateStages \cup {"gateless"}) \ {"gated", "published"}
    /\ \A t \in Threads :
          /\ stage \in Early \cup {"published"} => thread[t] = "none"
          /\ thread[t] \in {"reading", "delivering"} => stage \in GateStages

QuietInv == stage \in Early \/ (stage \in Up /\ CameUp) => faults = {}

IInv == HasInv /\ RunInv /\ QuietInv /\ GateProtects

USE DEF vars, Live, Others, Step, Created, Released

-----------------------------------------------------------------------------
(* What is misused.                                                         *)

LEMMA NothingMisused ==
    ASSUME NEW by, NEW used, \A u \in used : Live(u)
    PROVE  Misused(by, used) = {}
BY DEF Misused

LEMMA MisusedShape ==
    ASSUME NEW by, NEW used, NEW f \in Misused(by, used)
    PROVE  f.by = by /\ f.of \in used
BY DEF Misused

-----------------------------------------------------------------------------
(* Lifetimes.                                                               *)

LEMMA Initial == Init => IInv
BY DEF Init, IInv, HasInv, RunInv, QuietInv, GateProtects, CameUp, Stages, Resources,
       Early, Up, GateStages

LEMMA HasNext == HasInv /\ [Next]_vars => HasInv'
<1> SUFFICES ASSUME HasInv, [Next]_vars PROVE HasInv'
  OBVIOUS
<1> USE DEF HasInv, Stages, Resources, Early, Up, GateStages
<1>1. CASE InitDevice \/ NoProvider \/ OpenProvider \/ GiveUp \/ AllocLocks
  BY <1>1 DEF InitDevice, NoProvider, OpenProvider, GiveUp, AllocLocks
<1>2. CASE CreateWorkLoop \/ CreateDeviceInterrupt \/ CreateGate \/ NoGate
  BY <1>2 DEF CreateWorkLoop, CreateDeviceInterrupt, CreateGate, NoGate
<1>3. CASE Publish
  BY <1>3 DEF Publish
<1>4. CASE EnableSource \/ Initialize \/ SetReady \/ Register
  BY <1>4 DEF EnableSource, Initialize, SetReady, Register
<1>5. CASE StopInterface \/ BeginStop \/ ReleaseGate \/ ReleaseSource \/ ReleaseWorkLoop
  BY <1>5 DEF StopInterface, BeginStop, ReleaseGate, ReleaseSource, ReleaseWorkLoop
<1>6. CASE ReleaseTransducers \/ Unpublish \/ FreeLocks \/ FreeDevice
  BY <1>6 DEF ReleaseTransducers, Unpublish, FreeLocks, FreeDevice
<1>7. CASE UNCHANGED <<stage, has>>
  BY <1>7
<1>8. CASE Reports \/ UNCHANGED vars
  BY <1>7, <1>8 DEF Reports, HandlerReturns, Interrupt, CheckReady, AttemptAction,
                    ReadReport, DeliverReport
<1>9. QED
  BY <1>1, <1>2, <1>3, <1>4, <1>5, <1>6, <1>8 DEF Next, Starts, Stops

LEMMA RunNext == HasInv /\ RunInv /\ [Next]_vars => RunInv'
<1> SUFFICES ASSUME HasInv, RunInv, [Next]_vars PROVE RunInv'
  OBVIOUS
<1> USE DEF RunInv, HasInv, Stages, Resources, Early, Up, GateStages
<1>1. CASE InitDevice \/ NoProvider \/ OpenProvider \/ GiveUp \/ AllocLocks
  BY <1>1 DEF InitDevice, NoProvider, OpenProvider, GiveUp, AllocLocks
<1>2. CASE CreateWorkLoop \/ CreateDeviceInterrupt \/ CreateGate \/ NoGate
  BY <1>2 DEF CreateWorkLoop, CreateDeviceInterrupt, CreateGate, NoGate
<1>3. CASE Publish
  BY <1>3 DEF Publish
<1>4. CASE EnableSource \/ Initialize \/ SetReady \/ Register
  BY <1>4 DEF EnableSource, Initialize, SetReady, Register
<1>5. CASE StopInterface \/ BeginStop
  BY <1>5 DEF StopInterface, BeginStop
<1>6. CASE ReleaseGate \/ ReleaseSource
  BY <1>6 DEF ReleaseGate, ReleaseSource, GateClosed
<1>7. CASE ReleaseWorkLoop \/ ReleaseTransducers \/ Unpublish \/ FreeLocks \/ FreeDevice
  BY <1>7 DEF ReleaseWorkLoop, ReleaseTransducers, Unpublish, FreeLocks, FreeDevice
<1>8. ASSUME NEW t \in Threads, Interrupt(t) PROVE RunInv'
  BY <1>8 DEF Interrupt, Delivering
<1>9. ASSUME NEW t \in Threads, CheckReady(t) \/ AttemptAction(t) PROVE RunInv'
  BY <1>9 DEF CheckReady, AttemptAction
<1>10. ASSUME NEW t \in Threads, ReadReport(t) \/ DeliverReport(t) PROVE RunInv'
  BY <1>10 DEF ReadReport, DeliverReport
<1>11. CASE HandlerReturns \/ UNCHANGED vars
  BY <1>11 DEF HandlerReturns
<1>12. QED
  BY <1>1, <1>2, <1>3, <1>4, <1>5, <1>6, <1>7, <1>8, <1>9, <1>10, <1>11
     DEF Next, Starts, Stops, Reports

-----------------------------------------------------------------------------
(* Faults.                                                                  *)

\* A device that came up and is terminated did so while it was quiet.
LEMMA CameUpStays ==
    HasInv /\ [Next]_vars /\ CameUp' => \/ CameUp
                                        \/ Publish
<1> SUFFICES ASSUME HasInv, [Next]_vars, CameUp', ~Publish PROVE CameUp
  OBVIOUS
<1> USE DEF HasInv, CameUp, Stages, Resources, Early, Up, GateStages
<1>1. CASE InitDevice \/ NoProvider \/ OpenProvider \/ GiveUp \/ AllocLocks
  BY <1>1 DEF InitDevice, NoProvider, OpenProvider, GiveUp, AllocLocks
<1>2. CASE CreateWorkLoop \/ CreateDeviceInterrupt \/ CreateGate \/ NoGate
  BY <1>2 DEF CreateWorkLoop, CreateDeviceInterrupt, CreateGate, NoGate
<1>3. CASE EnableSource \/ Initialize \/ SetReady \/ Register
  BY <1>3 DEF EnableSource, Initialize, SetReady, Register
<1>4. CASE Stops
  BY <1>4 DEF Stops, StopInterface, BeginStop, ReleaseGate, ReleaseSource, ReleaseWorkLoop,
              ReleaseTransducers, Unpublish, FreeLocks, FreeDevice
<1>5. CASE Reports \/ UNCHANGED vars
  BY <1>5 DEF Reports, HandlerReturns, Interrupt, CheckReady, AttemptAction, ReadReport,
              DeliverReport
<1>6. QED
  BY <1>1, <1>2, <1>3, <1>4, <1>5 DEF Next, Starts

\* What start() uses is there when it uses it.
LEMMA StartsQuiet ==
    ASSUME HasInv, QuietInv, Starts, CameUp' \/ stage' \in Early
    PROVE  faults' = faults
<1> USE DEF HasInv, CameUp, Stages, Resources, Early, Up, GateStages, Bus
<1>1. CASE AllocLocks
  BY <1>1, NothingMisused DEF AllocLocks
<1>2. CASE CreateGate
  BY <1>2, NothingMisused DEF CreateGate
<1>3. CASE EnableSource
  BY <1>3, NothingMisused DEF EnableSource
<1>4. CASE Initialize
  BY <1>4, NothingMisused DEF Initialize
<1>5. CASE Register
  BY <1>5, NothingMisused DEF Register
<1>6. CASE \/ InitDevice \/ NoProvider \/ OpenProvider \/ GiveUp \/ CreateWorkLoop
           \/ CreateDeviceInterrupt \/ NoGate \/ Publish \/ SetReady
  BY <1>6 DEF InitDevice, NoProvider, OpenProvider, GiveUp, CreateWorkLoop,
              CreateDeviceInterrupt, NoGate, Publish, SetReady
<1>7. QED
  BY <1>1, <1>2, <1>3, <1>4, <1>5, <1>6 DEF Starts

\* The handler finds all it uses, whenever it runs; so does a thread that reads.
LEMMA HandlerFinds ==
    ASSUME HasInv, RunInv
    PROVE  /\ Delivering => Misused("handler", {"pci", "source"}) = {}
           /\ handler => Misused("handler", {"lock", "pci", "workLoop"}) = {}
<1> USE DEF HasInv, RunInv, Early, Up, GateStages, Delivering
<1>1. Delivering => \A u \in {"pci", "source"} : Live(u)
  OBVIOUS
<1>2. handler => \A u \in {"lock", "pci", "workLoop"} : Live(u)
  OBVIOUS
<1>3. QED
  BY <1>1, <1>2, NothingMisused

LEMMA ReportFinds ==
    ASSUME HasInv, RunInv, NEW t \in Threads, thread[t] \in {"reading", "delivering"}
    PROVE  /\ Misused("report", Bus \cup {"gate", "workLoop"}) = {}
           /\ Misused("report", {"transducers"}) = {}
<1> USE DEF HasInv, RunInv, Early, Up, GateStages, Bus
<1>1. \A u \in Bus \cup {"gate", "workLoop", "transducers"} : Live(u)
  OBVIOUS
<1>2. QED
  BY <1>1, NothingMisused

\* A delivery may miss the engines, and nothing else.
LEMMA DeliveryMisses ==
    ASSUME HasInv, RunInv, NEW t \in Threads, DeliverReport(t)
    PROVE  /\ \A f \in faults' \ faults : f.of = "engines"
           /\ stage \in Up /\ CameUp => faults' = faults
<1> DEFINE engine == IF Live("interface") THEN {"engines"} ELSE {}
<1>1. \A f \in faults' \ faults : f \in Misused("report", {"transducers"} \cup engine)
  BY DEF DeliverReport
<1>2. Live("transducers")
  BY DEF DeliverReport, HasInv, RunInv, Early, Up, GateStages
<1>3. ASSUME NEW f \in Misused("report", {"transducers"} \cup engine)
      PROVE  f.of = "engines"
  BY <1>2, <1>3 DEF Misused
<1>4. ASSUME stage \in Up, CameUp PROVE faults' = faults
  <2>1. \A u \in {"transducers"} \cup engine : Live(u)
    BY <1>2, <1>4 DEF HasInv, CameUp, Up
  <2>2. QED
    BY <2>1, NothingMisused DEF DeliverReport
<1>5. QED
  BY <1>1, <1>3, <1>4

LEMMA QuietNext == HasInv /\ RunInv /\ QuietInv /\ [Next]_vars => QuietInv'
<1> SUFFICES ASSUME HasInv, RunInv, QuietInv, [Next]_vars,
                    stage' \in Early \/ (stage' \in Up /\ CameUp')
             PROVE  faults' = {}
  BY DEF QuietInv
<1>1. CASE Starts
  <2>1. stage \in Early \/ (stage \in Up /\ CameUp)
    <3>1. CASE stage \in Early
      BY <3>1
    <3>2. CASE stage \notin Early
      <4>1. ~Publish /\ stage \in Up
        BY <1>1, <3>2 DEF Starts, InitDevice, NoProvider, OpenProvider, GiveUp, AllocLocks,
               CreateWorkLoop, CreateDeviceInterrupt, CreateGate, NoGate, Publish,
               EnableSource, Initialize, SetReady, Register, Early, Up
      <4>2. stage' \notin Early
        BY <1>1, <4>1 DEF Starts, InitDevice, NoProvider, OpenProvider, GiveUp, AllocLocks,
               CreateWorkLoop, CreateDeviceInterrupt, CreateGate, NoGate, Publish,
               EnableSource, Initialize, SetReady, Register, Early, Up
      <4>3. QED
        BY <4>1, <4>2, CameUpStays
    <3>3. QED
      BY <3>1, <3>2
  <2>2. QED
    BY <1>1, <2>1, StartsQuiet DEF QuietInv
<1>2. CASE Stops
  BY <1>2 DEF Stops, StopInterface, BeginStop, ReleaseGate, ReleaseSource, ReleaseWorkLoop,
              ReleaseTransducers, Unpublish, FreeLocks, FreeDevice, Early, Up, QuietInv, CameUp
<1>3. CASE Reports \/ UNCHANGED vars
  <2>1. UNCHANGED <<stage, has>>
    BY <1>3 DEF Reports, HandlerReturns, Interrupt, CheckReady, AttemptAction, ReadReport,
                DeliverReport
  <2>2. faults = {} /\ (stage \in Early \/ (stage \in Up /\ CameUp))
    BY <2>1 DEF QuietInv, CameUp
  <2>3. CASE HandlerReturns \/ UNCHANGED vars
    BY <2>2, <2>3, HandlerFinds DEF HandlerReturns
  <2>4. ASSUME NEW t \in Threads, Interrupt(t) PROVE faults' = {}
    BY <2>2, <2>4, HandlerFinds DEF Interrupt
  <2>5. ASSUME NEW t \in Threads, CheckReady(t) \/ AttemptAction(t) PROVE faults' = {}
    <3>1. stage \notin Early
      BY <2>5 DEF CheckReady, AttemptAction, RunInv
    <3>2. \A u \in {"device", "gate"} : Live(u)
      BY <2>2, <3>1 DEF HasInv, GateStages, Up
    <3>3. Misused("thread", {"device"}) = {} /\ Misused("thread", {"device", "gate"}) = {}
      BY <3>2, NothingMisused
    <3>4. QED
      BY <2>2, <2>5, <3>3 DEF CheckReady, AttemptAction
  <2>6. ASSUME NEW t \in Threads, ReadReport(t) PROVE faults' = {}
    BY <2>2, <2>6, ReportFinds DEF ReadReport
  <2>7. ASSUME NEW t \in Threads, DeliverReport(t) PROVE faults' = {}
    <3>1. stage \in Up /\ CameUp
      BY <2>2, <2>7 DEF DeliverReport, RunInv
    <3>2. QED
      BY <2>2, <2>7, <3>1, DeliveryMisses
  <2>8. QED
    BY <1>3, <2>3, <2>4, <2>5, <2>6, <2>7 DEF Reports
<1>4. QED
  BY <1>1, <1>2, <1>3 DEF Next

-----------------------------------------------------------------------------
(* The gate.                                                                *)

LEMMA GateNext ==
    HasInv /\ RunInv /\ QuietInv /\ GateProtects /\ [Next]_vars => GateProtects'
<1> SUFFICES ASSUME HasInv, RunInv, QuietInv, GateProtects, [Next]_vars, CameUp',
                    NEW f \in faults', f.by \in {"handler", "report"}
             PROVE  f.of = "engines"
  BY DEF GateProtects
<1>1. CASE Publish
  BY <1>1 DEF Publish, QuietInv, Early
<1>2. CASE ~Publish
  <2>1. CASE f \in faults
    BY <1>2, <2>1, CameUpStays DEF GateProtects
  <2>2. CASE f \notin faults
    <3>1. CASE Starts \/ Stops
      <4>1. \E used : \/ f \in Misused("start", used)
                      \/ f \in Misused("stop", used)
                      \/ f \in Misused("free", used)
        BY <2>2, <3>1 DEF Starts, InitDevice, NoProvider, OpenProvider, GiveUp, AllocLocks,
               CreateWorkLoop, CreateDeviceInterrupt, CreateGate, NoGate, Publish,
               EnableSource, Initialize, SetReady, Register, Stops, StopInterface,
               BeginStop, ReleaseGate, ReleaseSource, ReleaseWorkLoop,
               ReleaseTransducers, Unpublish, FreeLocks, FreeDevice
      <4>2. QED
        BY <4>1, MisusedShape
    <3>2. CASE HandlerReturns
      BY <2>2, <3>2, HandlerFinds DEF HandlerReturns
    <3>3. ASSUME NEW t \in Threads, Interrupt(t) PROVE FALSE
      BY <2>2, <3>3, HandlerFinds DEF Interrupt
    <3>4. ASSUME NEW t \in Threads, CheckReady(t) \/ AttemptAction(t) PROVE FALSE
      BY <2>2, <3>4, MisusedShape DEF CheckReady, AttemptAction
    <3>5. ASSUME NEW t \in Threads, ReadReport(t) PROVE FALSE
      BY <2>2, <3>5, ReportFinds DEF ReadReport
    <3>6. ASSUME NEW t \in Threads, DeliverReport(t) PROVE f.of = "engines"
      BY <2>2, <3>6, DeliveryMisses
    <3>7. CASE UNCHANGED vars
      BY <2>2, <3>7
    <3>8. QED
      BY <3>1, <3>2, <3>3, <3>4, <3>5, <3>6, <3>7 DEF Next, Reports
  <2>3. QED
    BY <2>1, <2>2
<1>3. QED
  BY <1>1, <1>2

-----------------------------------------------------------------------------

LEMMA IInvCorrect == Spec => []IInv
<1>1. IInv /\ [Next]_vars => IInv'
  BY HasNext, RunNext, QuietNext, GateNext DEF IInv
<1>2. QED
  BY <1>1, Initial, PTL DEF Spec

\* Until it is terminated a device that came up uses nothing that is not there,
\* however many report threads its interrupts spawn.
THEOREM QuietCorrect == Spec => []QuietUntilTerminated
<1>1. IInv => QuietUntilTerminated
  BY DEF IInv, QuietInv, QuietUntilTerminated, Up
<1>2. QED
  BY <1>1, IInvCorrect, PTL

\* The handler and the reports miss nothing but the engines, to the end.
THEOREM GateProtectsCorrect == Spec => []GateProtects
<1>1. IInv => GateProtects
  BY DEF IInv
<1>2. QED
  BY <1>1, IInvCorrect, PTL

-----------------------------------------------------------------------------
(* The engines.                                                             *)

\* What the simulator uses is there whenever a report may get past
\* ready_for_reports.
NativeInv ==
    /\ phase["native"] \notin {"absent", "stopped"} => "interface" \in parts
    /\ phase["native"] = "gated" => "simulatorGate" \in parts
    /\ readyForReports /\ phase["native"] \notin {"simulatorStopped", "stopped"} =>
            phase["native"] # "absent" /\ "simulatorGate" \in parts

\* How far start of the gesture engine has come, and what must be there from then.
Scrolling == {"scrolling", "factored", "started"}
Pointed == {"pointed"} \cup Scrolling
Wrapped == {"wrapped"} \cup Pointed
Timed == {"timed"} \cup Wrapped
Idle == {"absent", "opened", "timed", "wrapped", "pointed", "failed"}

NativePhases == {"absent", "opened", "allocated", "gated", "simulating", "started", "failed",
                 "simulatorStopped", "stopped"}

PhasesOK ==
    /\ phase \in [Engines -> NativePhases \cup Idle \cup Scrolling \cup StoppingGesture]
    /\ phase["gesture"] \in Idle \cup Scrolling \cup StoppingGesture

\* The parts come one after another, the scroll handler whole or in part.
PartsInv ==
    /\ phase["gesture"] \in Timed => "timer" \in parts
    /\ phase["gesture"] \in Wrapped => "wrapper" \in parts
    /\ phase["gesture"] \in Pointed => "pointing" \in parts
    /\ phase["gesture"] \in Scrolling => "scroll" \in parts
    /\ phase["gesture"] \in Idle => "scroll" \notin parts /\ "scrollTimer" \notin parts
    /\ phase["gesture"] \in Scrolling /\ "scrollTimer" \in parts => "scrollPointing" \in parts

\* A timer runs only from when all it uses is there.
TimerInv ==
    /\ phase["gesture"] \in Idle \cup {"scrolling", "factored"} =>
            "timer" \notin armed /\ inGate # "tick"
    /\ phase["gesture"] \in Idle => "scrollTimer" \notin armed /\ inGate # "scrollTimer"
    /\ phase["gesture"] \in Scrolling /\ ("scrollTimer" \in armed \/ inGate = "scrollTimer") =>
            "scrollTimer" \in parts
    /\ phase["gesture"] = "started" /\ inGate = "tick" =>
            seen \subseteq {"scroll", "pointing", "wrapper"}
    /\ phase["gesture"] \in Idle => \A f \in missed : f.by \notin {"tick", "scrollTimer"}

EngineInv ==
    /\ PhasesOK
    /\ NativeInv /\ NativeWholeUntilStopped
    /\ PartsInv /\ TimerInv /\ TimersWaitForStart

LEMMA MissingShape ==
    ASSUME NEW by, NEW used
    PROVE  /\ \A f \in Missing(by, used) : f.by = by
           /\ used \subseteq parts => Missing(by, used) = {}
BY DEF Missing

LEMMA EnginesInitial == EngineInit => EngineInv
BY DEF EngineInit, EngineInv, Engines, PhasesOK, NativeInv, NativeWholeUntilStopped, PartsInv,
       TimerInv, TimersWaitForStart, Scrolling, Pointed, Wrapped, Timed, Idle, StoppingGesture

LEMMA PhasesNext == PhasesOK /\ [EngineNext]_engineVars => PhasesOK'
<1> SUFFICES ASSUME PhasesOK, [EngineNext]_engineVars PROVE PhasesOK'
  OBVIOUS
<1> USE DEF PhasesOK, Goes, Engines, NativePhases, Idle, Scrolling, StoppingGesture, Open,
            Makes, Drops
<1>1. CASE StartNative
  BY <1>1 DEF StartNative, Allocate, AddSimulatorGate, NoSimulator, SimulatorReady,
              StartActuator
<1>2. CASE StopSimulator \/ StopNative
  BY <1>2 DEF StopSimulator, StopNative
<1>3. CASE StartGesture
  BY <1>3 DEF StartGesture, AddTimer, NoTimer, StartWrapper, StartPointingWrapper, NoWrapper,
              StartScrollHandler, SetFactors, ArmTimer
<1>4. CASE StopGesture
  BY <1>4 DEF StopGesture, StopScrollHandler, Dismantle, CancelTimer, ReleaseTimer
<1>5. CASE Called \/ UNCHANGED engineVars
  BY <1>5 DEF engineVars, Called, BeginReport, Deliver, EndReport, BeginTick, EndTick,
              BeginScrollTimer, EndScrollTimer
<1>6. QED
  BY <1>1, <1>2, <1>3, <1>4, <1>5 DEF EngineNext

\* What runs in the gate takes nothing away.
LEMMA CalledKeeps ==
    Called \/ UNCHANGED engineVars => UNCHANGED <<phase, parts, readyForReports>>
BY DEF engineVars, Called, BeginReport, Deliver, EndReport, BeginTick, EndTick,
       BeginScrollTimer, EndScrollTimer

LEMMA NativeNext ==
    PhasesOK /\ NativeInv /\ [EngineNext]_engineVars => NativeInv'
<1> SUFFICES ASSUME PhasesOK, NativeInv, [EngineNext]_engineVars
             PROVE  NativeInv'
  OBVIOUS
<1> USE DEF NativeInv, PhasesOK, Engines, Goes, Open, Makes, Drops
<1>1. CASE StartNative
  BY <1>1 DEF StartNative, Allocate, AddSimulatorGate, NoSimulator, SimulatorReady,
              StartActuator
<1>2. CASE StopSimulator \/ StopNative
  BY <1>2 DEF StopSimulator, StopNative
<1>3. CASE StartGesture
  BY <1>3 DEF StartGesture, AddTimer, NoTimer, StartWrapper, StartPointingWrapper, NoWrapper,
              StartScrollHandler, SetFactors, ArmTimer
<1>4. CASE StopGesture
  BY <1>4 DEF StopGesture, StopScrollHandler, Dismantle, CancelTimer, ReleaseTimer
<1>5. CASE Called \/ UNCHANGED engineVars
  BY <1>5, CalledKeeps
<1>6. QED
  BY <1>1, <1>2, <1>3, <1>4, <1>5 DEF EngineNext

LEMMA PartsNext ==
    PhasesOK /\ PartsInv /\ [EngineNext]_engineVars => PartsInv'
<1> SUFFICES ASSUME PhasesOK, PartsInv, [EngineNext]_engineVars
             PROVE  PartsInv'
  OBVIOUS
<1> USE DEF PartsInv, PhasesOK, Engines, Goes, Open, Makes, Drops, Scrolling, Pointed, Wrapped, Timed,
            Idle
<1>1. CASE StartNative
  BY <1>1 DEF StartNative, Allocate, AddSimulatorGate, NoSimulator, SimulatorReady,
              StartActuator
<1>2. CASE StopSimulator \/ StopNative
  BY <1>2 DEF StopSimulator, StopNative
<1>3. CASE Open("gesture", {}) \/ AddTimer \/ NoTimer \/ StartWrapper
  BY <1>3 DEF AddTimer, NoTimer, StartWrapper
<1>4. CASE StartPointingWrapper \/ NoWrapper \/ SetFactors \/ ArmTimer
  BY <1>4 DEF StartPointingWrapper, NoWrapper, SetFactors, ArmTimer
<1>5. CASE StartScrollHandler
  BY <1>5 DEF StartScrollHandler
<1>6. CASE StopGesture
  BY <1>6 DEF StopGesture, StopScrollHandler, Dismantle, CancelTimer, ReleaseTimer
<1>7. CASE Called \/ UNCHANGED engineVars
  BY <1>7, CalledKeeps
<1>8. QED
  BY <1>1, <1>2, <1>3, <1>4, <1>5, <1>6, <1>7 DEF EngineNext, StartGesture

\* Only the native engine's own steps, and its share of a report, are blamed on it.
LEMMA NativeWholeNext ==
    ASSUME PhasesOK, NativeInv, NativeWholeUntilStopped,
           [EngineNext]_engineVars
    PROVE  NativeWholeUntilStopped'
<1> DEFINE others == {"gesture", "tick", "scrollTimer"}
<1>1. ASSUME NEW by \in others, NEW used, missed' = missed \cup Missing(by, used),
             UNCHANGED phase
      PROVE  NativeWholeUntilStopped'
  BY <1>1, MissingShape DEF NativeWholeUntilStopped
<1>2. ASSUME UNCHANGED missed,
             phase'["native"] \in {"simulatorStopped", "stopped"}
                 \/ phase["native"] \notin {"simulatorStopped", "stopped"}
      PROVE  NativeWholeUntilStopped'
  BY <1>2 DEF NativeWholeUntilStopped
<1> USE DEF PhasesOK, Engines, Goes, Open, Makes, Drops
<1>3. CASE SimulatorReady
  <2>1. Missing("native", {"interface"}) = {}
    BY <1>3, MissingShape DEF SimulatorReady, NativeInv
  <2>2. QED
    BY <1>3, <2>1, <1>2 DEF SimulatorReady
<1>4. CASE Open("native", {"interface"}) \/ Allocate \/ AddSimulatorGate \/ NoSimulator
           \/ StartActuator
  BY <1>4, <1>2 DEF Allocate, AddSimulatorGate, NoSimulator, StartActuator
<1>5. CASE StopSimulator \/ StopNative
  BY <1>5, <1>2 DEF StopSimulator, StopNative
<1>6. CASE StartGesture
  <2>1. UNCHANGED missed /\ phase'["native"] = phase["native"]
    BY <1>6 DEF StartGesture, AddTimer, NoTimer, StartWrapper, StartPointingWrapper,
                NoWrapper, StartScrollHandler, SetFactors, ArmTimer
  <2>2. QED
    BY <2>1 DEF NativeWholeUntilStopped
<1>7. CASE StopGesture
  <2>1. UNCHANGED missed /\ phase'["native"] = phase["native"]
    BY <1>7 DEF StopGesture, StopScrollHandler, Dismantle, CancelTimer, ReleaseTimer
  <2>2. QED
    BY <2>1 DEF NativeWholeUntilStopped
<1>8. CASE Deliver("native")
  <2>1. CASE phase["native"] \in {"simulatorStopped", "stopped"}
    BY <1>8, <2>1 DEF Deliver, NativeWholeUntilStopped
  <2>2. CASE phase["native"] \notin {"simulatorStopped", "stopped"}
    <3>1. Missing("native", NativeUses) = {}
      BY <2>2, MissingShape DEF NativeInv, NativeUses
    <3>2. QED
      BY <1>8, <3>1 DEF Deliver, NativeWholeUntilStopped
  <2>3. QED
    BY <2>1, <2>2
<1>9. CASE Deliver("gesture")
  BY <1>9, <1>1 DEF Deliver
<1>10. CASE EndTick
  BY <1>10, <1>1 DEF EndTick
<1>11. CASE EndScrollTimer
  BY <1>11, <1>1 DEF EndScrollTimer
<1>12. CASE BeginReport \/ EndReport \/ BeginTick \/ BeginScrollTimer \/ UNCHANGED engineVars
  BY <1>12 DEF BeginReport, EndReport, BeginTick, BeginScrollTimer, engineVars,
               NativeWholeUntilStopped
<1>13. QED
  BY <1>3, <1>4, <1>5, <1>6, <1>7, <1>8, <1>9, <1>10, <1>11, <1>12
     DEF EngineNext, StartNative, Called

LEMMA TimerNext ==
    ASSUME PhasesOK, PartsInv, TimerInv, [EngineNext]_engineVars
    PROVE  TimerInv'
<1> USE DEF PhasesOK, TimerInv, Engines, Goes, Open, Makes, Drops, Gate, Scrolling, Idle
<1>1. CASE StartNative
  <2>1. /\ UNCHANGED <<armed, inGate, seen>> /\ phase'["gesture"] = phase["gesture"]
        /\ "scrollTimer" \in parts => "scrollTimer" \in parts'
        /\ \/ UNCHANGED missed
           \/ missed' = missed \cup Missing("native", {"interface"})
    BY <1>1 DEF StartNative, Allocate, AddSimulatorGate, NoSimulator, SimulatorReady,
                StartActuator
  <2>2. QED
    BY <2>1, MissingShape
<1>2. CASE StopSimulator \/ StopNative
  BY <1>2 DEF StopSimulator, StopNative
<1>3. CASE Open("gesture", {}) \/ AddTimer \/ NoTimer \/ StartWrapper
  BY <1>3 DEF AddTimer, NoTimer, StartWrapper
<1>4. CASE StartPointingWrapper \/ NoWrapper \/ SetFactors \/ ArmTimer
  BY <1>4 DEF StartPointingWrapper, NoWrapper, SetFactors, ArmTimer
<1>5. CASE StartScrollHandler
  BY <1>5 DEF StartScrollHandler, GateFree
<1>6. CASE StopGesture
  BY <1>6 DEF StopGesture, StopScrollHandler, Dismantle, CancelTimer, ReleaseTimer
<1>7. CASE BeginReport \/ EndReport \/ UNCHANGED engineVars
  BY <1>7 DEF BeginReport, EndReport, engineVars, GateFree
<1>8. ASSUME NEW e \in Engines, Deliver(e) PROVE TimerInv'
  BY <1>8, MissingShape DEF Deliver
<1>9. CASE BeginTick
  <2>1. seen' \subseteq {"scroll", "pointing", "wrapper"}
    BY <1>9 DEF BeginTick
  <2>2. QED
    BY <1>9, <2>1 DEF BeginTick, GateFree
<1>10. CASE EndTick
  BY <1>10 DEF EndTick, Rearmed
<1>11. CASE BeginScrollTimer
  BY <1>11 DEF BeginScrollTimer, GateFree
<1>12. CASE EndScrollTimer
  BY <1>12 DEF EndScrollTimer, Rearmed
<1>13. QED
  BY <1>1, <1>2, <1>3, <1>4, <1>5, <1>6, <1>7, <1>8, <1>9, <1>10, <1>11, <1>12
     DEF EngineNext, StartGesture, Called

\* A timer that fires while the engine has not been stopped finds all its parts.
LEMMA TimersFind ==
    ASSUME PartsInv, TimerInv, PhasesOK, phase["gesture"] \notin StoppingGesture,
           phase["gesture"] \in Scrolling => "scrollPointing" \in parts
    PROVE  /\ inGate = "tick" =>
                  seen \cup {"timer", "scrollPointing"} \subseteq parts
           /\ inGate = "scrollTimer" =>
                  {"scroll", "scrollTimer", "scrollPointing"} \subseteq parts
BY DEF PartsInv, TimerInv, PhasesOK, Timed, Wrapped, Pointed, Scrolling, Idle, StoppingGesture

LEMMA TimersWaitNext ==
    ASSUME PhasesOK, PartsInv, TimerInv, TimersWaitForStart, [EngineNext]_engineVars
    PROVE  TimersWaitForStart'
<1> DEFINE blameless(by) == by \notin {"tick", "scrollTimer"}
           stands == phase["gesture"] \notin StoppingGesture
           wired == phase["gesture"] \in Scrolling => "scrollPointing" \in parts
<1>1. TimersWaitForStart <=> (stands /\ wired => \A f \in missed : blameless(f.by))
  BY DEF TimersWaitForStart, Scrolling
<1>2. TimersWaitForStart' <=> (stands /\ wired => \A f \in missed : blameless(f.by))'
  BY DEF TimersWaitForStart, Scrolling
<1>3. ASSUME stands' /\ wired' => stands /\ wired,
             NEW by, blameless(by), NEW used,
             UNCHANGED missed \/ missed' = missed \cup Missing(by, used)
      PROVE  TimersWaitForStart'
  BY <1>1, <1>2, <1>3, MissingShape
<1>4. ASSUME stands' /\ wired' => stands /\ wired, UNCHANGED missed
      PROVE  TimersWaitForStart'
  BY <1>1, <1>2, <1>4
<1>5. CASE StartNative
  <2>1. /\ UNCHANGED missed \/ missed' = missed \cup Missing("native", {"interface"})
        /\ phase'["gesture"] = phase["gesture"]
        /\ "scrollPointing" \in parts <=> "scrollPointing" \in parts'
    BY <1>5 DEF PhasesOK, Engines, StartNative, Open, Makes, Drops, Goes, Allocate,
                AddSimulatorGate, NoSimulator, SimulatorReady, StartActuator
  <2>2. QED
    BY <2>1, <1>3
<1>6. CASE StopSimulator \/ StopNative
  <2>1. /\ UNCHANGED missed /\ phase'["gesture"] = phase["gesture"]
        /\ "scrollPointing" \in parts <=> "scrollPointing" \in parts'
    BY <1>6 DEF PhasesOK, Engines, StopSimulator, StopNative, Drops, Goes
  <2>2. QED
    BY <2>1, <1>4
<1>7. CASE StartScrollHandler
  <2>1. phase["gesture"] = "pointed" /\ UNCHANGED missed
    BY <1>7 DEF StartScrollHandler, Goes
  <2>2. QED
    BY <2>1, <1>2 DEF TimerInv, Idle
<1>8. CASE Open("gesture", {}) \/ AddTimer \/ NoTimer \/ StartWrapper \/ StartPointingWrapper
           \/ NoWrapper \/ SetFactors \/ ArmTimer
  <2>1. /\ UNCHANGED missed /\ stands
        /\ phase["gesture"] \in Scrolling => phase'["gesture"] \in Scrolling
        /\ "scrollPointing" \in parts <=> "scrollPointing" \in parts'
    BY <1>8 DEF PhasesOK, Engines, Open, Makes, Goes, AddTimer, NoTimer, StartWrapper,
                StartPointingWrapper, NoWrapper, SetFactors, ArmTimer, Scrolling,
                StoppingGesture
  <2>2. QED
    BY <2>1, <1>4
<1>9. CASE StopGesture
  <2>1. ~stands'
    BY <1>9 DEF PhasesOK, Engines, StopGesture, StopScrollHandler, Dismantle, CancelTimer,
                ReleaseTimer, Drops, Goes, StoppingGesture
  <2>2. QED
    BY <2>1, <1>2
<1>10. ASSUME NEW e \in Engines, Deliver(e) PROVE TimersWaitForStart'
  <2>1. UNCHANGED <<phase, parts>>
    BY <1>10 DEF Deliver
  <2>2. PICK used : missed' = missed \cup Missing(e, used)
    BY <1>10 DEF Deliver
  <2>3. QED
    BY <2>1, <2>2, <1>3 DEF Engines
<1>11. CASE EndTick
  <2> SUFFICES ASSUME stands, wired PROVE UNCHANGED missed
    BY <1>1, <1>2, <1>11 DEF EndTick
  <2>1. PICK scrolls \in {{}, {"scrollPointing"}} :
            missed' = missed \cup Missing("tick", seen \cup {"timer"} \cup
                                              (IF "scroll" \in seen THEN scrolls ELSE {}))
    BY <1>11 DEF EndTick
  <2>2. seen \cup {"timer", "scrollPointing"} \subseteq parts
    BY <1>11, TimersFind DEF EndTick
  <2>3. QED
    BY <2>1, <2>2, MissingShape
<1>12. CASE EndScrollTimer
  <2> SUFFICES ASSUME stands, wired PROVE UNCHANGED missed
    BY <1>1, <1>2, <1>12 DEF EndScrollTimer
  <2>1. PICK scrolls \in {{}, {"scrollPointing"}} :
            missed' = missed \cup Missing("scrollTimer", {"scroll", "scrollTimer"} \cup scrolls)
    BY <1>12 DEF EndScrollTimer
  <2>2. {"scroll", "scrollTimer", "scrollPointing"} \subseteq parts
    BY <1>12, TimersFind DEF EndScrollTimer
  <2>3. QED
    BY <2>1, <2>2, MissingShape
<1>13. CASE BeginReport \/ EndReport \/ BeginTick \/ BeginScrollTimer \/ UNCHANGED engineVars
  <2>1. UNCHANGED <<phase, parts, missed>>
    BY <1>13 DEF BeginReport, EndReport, BeginTick, BeginScrollTimer, engineVars
  <2>2. QED
    BY <2>1, <1>4
<1>14. QED
  BY <1>5, <1>6, <1>7, <1>8, <1>9, <1>10, <1>11, <1>12, <1>13
     DEF EngineNext, StartGesture, Called

LEMMA EngineInvCorrect == EngineSpec => []EngineInv
<1>1. EngineInv /\ [EngineNext]_engineVars => EngineInv'
  BY PhasesNext, NativeNext, NativeWholeNext, PartsNext, TimerNext, TimersWaitNext
     DEF EngineInv
<1>2. QED
  BY EnginesInitial, <1>1, PTL DEF EngineSpec

\* Whatever the native engine's start does and wherever it fails, a report misses
\* nothing of its simulator until the engine is stopped.
THEOREM NativeWholeCorrect == EngineSpec => []NativeWholeUntilStopped
<1>1. EngineInv => NativeWholeUntilStopped
  BY DEF EngineInv
<1>2. QED
  BY <1>1, EngineInvCorrect, PTL

\* No timer of the gesture engine misses what it uses before the engine is stopped,
\* unless its scroll handler did not come up.
THEOREM TimersWaitCorrect == EngineSpec => []TimersWaitForStart
<1>1. EngineInv => TimersWaitForStart
  BY DEF EngineInv
<1>2. QED
  BY <1>1, EngineInvCorrect, PTL

=============================================================================
