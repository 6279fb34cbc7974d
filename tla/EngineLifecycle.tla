--------------------------- MODULE EngineLifecycle ---------------------------
(***************************************************************************)
(* The native engine and the gesture engine start and stop, each on a      *)
(* thread of IOKit's, while reports and timers call them under the gate of *)
(* the device's work loop.  Adding a source to the work loop, or removing  *)
(* one, waits for that gate; nothing else in start and stop does.          *)
(*                                                                         *)
(* What the engines do with a report is in InputPath and CSGestureEngine.  *)
(* A use of what is not there (a pointer that is NULL or released, factors *)
(* that are 0) crashes the kernel; it is noted in missed and the model     *)
(* goes on.                                                                *)
(***************************************************************************)
EXTENDS Integers, FiniteSets

Engines == {"native", "gesture"}

\* Of the native engine: simulator, its command_gate, actuator, interface.
NativeParts == {"simulator", "simulatorGate", "actuator", "interface"}

\* Of the gesture engine: timer_event_source, _wrapper, _pointingWrapper,
\* _scrollHandler, the latter's _scrollTimer and its pointer to the pointing
\* wrapper, and factors of softc that are not 0.
GestureParts == {"timer", "wrapper", "pointing", "scroll", "scrollTimer", "scrollPointing",
                 "factors"}

VARIABLES phase,            \* engine -> how far its start and stop have come
          parts,            \* the parts that are there
          readyForReports,  \* ready_for_reports
          engines,          \* the engines in the interface's set
          inGate,           \* who works inside the gate
          todo,             \* engines the report has still to reach
          armed,            \* the timers that will fire
          seen,             \* parts a tick found there when it looked
          missed            \* history: [by, of] for each use of what is not there

engineVars == <<phase, parts, readyForReports, engines, inGate, todo, armed, seen, missed>>

EngineInit ==
    /\ phase = [e \in Engines |-> "absent"]
    /\ parts = {}
    /\ readyForReports = FALSE
    /\ engines = {}
    /\ inGate = "nobody"
    /\ todo = {}
    /\ armed = {}
    /\ seen = {}
    /\ missed = {}

Missing(by, used) == {[by |-> by, of |-> p] : p \in used \ parts}

GateFree == inGate = "nobody"

Goes(e, from, to) == phase[e] = from /\ phase' = [phase EXCEPT ![e] = to]
Gate == <<inGate, todo, seen>>

\* Engines open before they have anything, and are not taken out again: close
\* is that of IOService.
Open(e, own) ==
    /\ Goes(e, "absent", "opened")
    /\ engines' = engines \cup {e}
    /\ parts' = parts \cup own
    /\ UNCHANGED <<readyForReports, armed, missed, Gate>>

\* start goes on with what is made, or without what could not be made.
Makes(e, from, to, made) ==
    /\ Goes(e, from, to)
    /\ parts' = parts \cup made
    /\ UNCHANGED <<readyForReports, engines, armed, missed, Gate>>

\* stop, or a start that fails, lets go of what is there.
Drops(e, from, to, dropped) ==
    /\ Goes(e, from, to)
    /\ parts' = parts \ dropped
    /\ UNCHANGED <<readyForReports, engines, armed, missed, Gate>>

-----------------------------------------------------------------------------
(* The native engine and its simulator                                      *)

\* Mutant: reports are let in as soon as the simulator is allocated.
AllocateReady ==
    /\ Goes("native", "opened", "allocated")
    /\ parts' = parts \cup {"simulator", "actuator"}
    /\ readyForReports' = TRUE
    /\ UNCHANGED <<engines, armed, missed, Gate>>

Allocate == Makes("native", "opened", "allocated", {"simulator", "actuator"})

AddSimulatorGate == GateFree /\ Makes("native", "allocated", "gated", {"simulatorGate"})

\* Without a work loop or a gate the simulator is let go.
NoSimulator == Drops("native", "allocated", "simulating", {"simulator"})

SimulatorReady ==
    /\ Goes("native", "gated", "simulating")
    /\ readyForReports' = TRUE
    /\ missed' = missed \cup Missing("native", {"interface"})
    /\ UNCHANGED <<parts, engines, armed, Gate>>

\* start succeeds if both devices are there; the simulator of a start that
\* failed for its actuator stays ready.
StartActuator ==
    \E dropped \in {{}, {"actuator"}} :
        Drops("native", "simulating",
              IF {"simulator", "actuator"} \subseteq parts \ dropped THEN "started" ELSE "failed",
              dropped)

\* ready_for_reports stays set.
StopSimulator ==
    GateFree /\ Drops("native", "started", "simulatorStopped", {"simulatorGate"})

\* The interface is let go, though it was never retained.
StopNative == Drops("native", "simulatorStopped", "stopped", {"interface"})

StartNative == \/ Open("native", {"interface"}) \/ Allocate \/ AddSimulatorGate
               \/ NoSimulator \/ SimulatorReady \/ StartActuator

-----------------------------------------------------------------------------
(* The gesture engine, its wrappers and its scroll handler                  *)

\* Mutant: the timer runs as soon as it is there.
AddTimerArmed ==
    /\ GateFree
    /\ Goes("gesture", "opened", "timed")
    /\ parts' = parts \cup {"timer"}
    /\ armed' = armed \cup {"timer"}
    /\ UNCHANGED <<readyForReports, engines, missed, Gate>>

AddTimer == GateFree /\ Makes("gesture", "opened", "timed", {"timer"})

\* Without a work loop or a timer start calls stop, without a wrapper it does not.
NoTimer == Makes("gesture", "opened", "failed", {})

StartWrapper == Makes("gesture", "timed", "wrapped", {"wrapper"})

StartPointingWrapper == Makes("gesture", "wrapped", "pointed", {"pointing"})

NoWrapper == \E from \in {"timed", "wrapped"} : Makes("gesture", from, "failed", {})

\* Whether the scroll handler comes up is not looked at: without init it has no
\* pointing wrapper, without a start no timer.
StartScrollHandler ==
    /\ GateFree
    /\ Goes("gesture", "pointed", "scrolling")
    /\ \E made \in {{"scroll"}, {"scroll", "scrollPointing"},
                    {"scroll", "scrollPointing", "scrollTimer"}} :
          /\ parts' = parts \cup made
          /\ armed' = armed \cup (made \cap {"scrollTimer"})
    /\ UNCHANGED <<readyForReports, engines, missed, Gate>>

SetFactors == Makes("gesture", "scrolling", "factored", {"factors"})

ArmTimer ==
    /\ Goes("gesture", "factored", "started")
    /\ armed' = armed \cup {"timer"}
    /\ UNCHANGED <<parts, readyForReports, engines, missed, Gate>>

\* stop() of the scroll handler: its timer is cancelled and let go.
StopScrollHandler ==
    /\ Goes("gesture", "started", "scrollStopped")
    /\ parts' = parts \ {"scrollTimer"}
    /\ armed' = armed \ {"scrollTimer"}
    /\ UNCHANGED <<readyForReports, engines, missed, Gate>>

\* The gesture timer is still running when the rest is dismantled.
Dismantle ==
    \/ Drops("gesture", "scrollStopped", "scrollCut", {"scrollPointing"})
    \/ Drops("gesture", "scrollCut", "scrollGone", {"scroll"})
    \/ Drops("gesture", "scrollGone", "wrapperGone", {"wrapper"})
    \/ Drops("gesture", "wrapperGone", "pointingGone", {"pointing"})

CancelTimer ==
    /\ Goes("gesture", "pointingGone", "cancelled")
    /\ armed' = armed \ {"timer"}
    /\ UNCHANGED <<parts, readyForReports, engines, missed, Gate>>

\* The base class's stop() is not called.
ReleaseTimer == Drops("gesture", "cancelled", "stopped", {"timer"})

StartGesture == \/ Open("gesture", {}) \/ AddTimer \/ NoTimer \/ StartWrapper
                \/ StartPointingWrapper \/ NoWrapper \/ StartScrollHandler
                \/ SetFactors \/ ArmTimer

StopGesture == StopScrollHandler \/ Dismantle \/ CancelTimer \/ ReleaseTimer

-----------------------------------------------------------------------------
(* Under the gate: reports and timers                                       *)

BeginReport ==
    /\ GateFree
    /\ engines # {}
    /\ inGate' = "report"
    /\ todo' = engines
    /\ UNCHANGED <<phase, parts, readyForReports, engines, armed, seen, missed>>

\* The native engine's pointer may be NULL; constructReport looks at
\* ready_for_reports alone.  The gesture engine scales the position of a
\* contact that touches.
NativeUses == IF "simulator" \in parts /\ readyForReports THEN {"simulatorGate", "interface"} ELSE {}

Deliver(e) ==
    /\ e \in todo
    /\ todo' = todo \ {e}
    /\ \E used \in IF e = "native" THEN {NativeUses} ELSE {{}, {"factors"}} :
          missed' = missed \cup Missing(e, used)
    /\ UNCHANGED <<phase, parts, readyForReports, engines, inGate, armed, seen>>

EndReport ==
    /\ inGate = "report" /\ todo = {}
    /\ inGate' = "nobody"
    /\ UNCHANGED <<phase, parts, readyForReports, engines, todo, armed, seen, missed>>

\* timedProcessGesture looks for each part before it uses it, but for the scroll
\* handler in a swipe of three or four fingers.
BeginTick ==
    /\ GateFree /\ "timer" \in armed
    /\ inGate' = "tick"
    /\ armed' = armed \ {"timer"}
    /\ \E unchecked \in {{}, {"scroll"}} :
          seen' = (parts \cap {"scroll", "pointing", "wrapper"}) \cup unchecked
    /\ UNCHANGED <<phase, parts, readyForReports, engines, todo, missed>>

Rearmed(timer) == armed \cup (parts \cap {timer})

\* The scroll handler scrolls through its own pointer to the pointing wrapper.
EndTick ==
    /\ inGate = "tick"
    /\ inGate' = "nobody"
    /\ \E scrolls \in {{}, {"scrollPointing"}} :
          missed' = missed \cup
              Missing("tick", seen \cup {"timer"} \cup (IF "scroll" \in seen THEN scrolls ELSE {}))
    /\ armed' = Rearmed("timer")
    /\ seen' = {}
    /\ UNCHANGED <<phase, parts, readyForReports, engines, todo>>

BeginScrollTimer ==
    /\ GateFree /\ "scrollTimer" \in armed
    /\ inGate' = "scrollTimer"
    /\ armed' = armed \ {"scrollTimer"}
    /\ UNCHANGED <<phase, parts, readyForReports, engines, todo, seen, missed>>

\* With momentum it scrolls.
EndScrollTimer ==
    /\ inGate = "scrollTimer"
    /\ inGate' = "nobody"
    /\ \E scrolls \in {{}, {"scrollPointing"}} :
          missed' = missed \cup Missing("scrollTimer", {"scroll", "scrollTimer"} \cup scrolls)
    /\ armed' = Rearmed("scrollTimer")
    /\ UNCHANGED <<phase, parts, readyForReports, engines, todo, seen>>

Called == \/ BeginReport \/ EndReport \/ \E e \in Engines : Deliver(e)
          \/ BeginTick \/ EndTick \/ BeginScrollTimer \/ EndScrollTimer

EngineNext == StartNative \/ StopSimulator \/ StopNative \/ StartGesture \/ StopGesture \/ Called

EngineSpec == EngineInit /\ [][EngineNext]_engineVars

-----------------------------------------------------------------------------
(* Properties                                                               *)

\* The simulator of an engine that has not been stopped may be reached from the
\* moment the engine opens: whatever its start does and wherever it fails, a
\* report finds it whole or does not get past ready_for_reports
\* (VoodooI2CNativeEngineAS.cpp:45-69, VoodooI2CMT2SimulatorDeviceAS.cpp:301-349).
NativeWholeUntilStopped ==
    phase["native"] \notin {"simulatorStopped", "stopped"} =>
        \A f \in missed : f.by # "native"

StoppingGesture == {"scrollStopped", "scrollCut", "scrollGone", "wrapperGone", "pointingGone",
                    "cancelled", "stopped"}

\* No timer of the gesture engine fires before all it uses is there, or after a
\* start that failed, unless its scroll handler did not come up
\* (VoodooI2CCSGestureEngineAS.cpp:857-951).
TimersWaitForStart ==
    /\ phase["gesture"] \notin StoppingGesture
    /\ phase["gesture"] \in {"scrolling", "factored", "started"} => "scrollPointing" \in parts
    => \A f \in missed : f.by \notin {"tick", "scrollTimer"}

=============================================================================
