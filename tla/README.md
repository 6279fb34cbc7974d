# ELANSMBus in TLA+

A verification development of the ELANSMBus kernel extension (`src/ELANSMBus`):
a macOS driver for ELAN touchpads behind an Intel (i801) SMBus host. It holds
TLA+ modules, the TLC configurations that check them on small instances, and
theorems that TLAPS proves for every value of the constants. `PROJECT.json`
lists the components, runs, mutants, hazards, findings and theorems, and maps
each definition to the source lines it stands for.

Paths below are relative to `src/ELANSMBus/`; `MT/` is `Multitouch Support/`.

## 1. The system

```
touchpad --Host Notify--> SMBus host --interrupt line--> interruptFilter
                             ^                                |
                             | i801_*, I2CExec                v  (work loop, gate)
  start() ---elan_smbus_*----+                          interruptHandler
  report thread --attemptAction--> parse_ELAN_report        |        |
        ^                            |                      |        +-- Lock.event, IOLockWakeup
        +---- kernel_thread_start ---|----------------------+
                                     v
                 VoodooI2CMultitouchInterfaceAS::handleInterruptReport
                     |  (engines in score order, until one answers Break)
                     v
       VoodooI2CNativeEngineAS -> VoodooI2CMT2SimulatorDeviceAS -> IOHIDFamily
       VoodooI2CCSGestureEngineAS -> CSGestureScroll, HID wrappers -> IOHIDFamily
```

| component | state | operations | interacts with |
|---|---|---|---|
| SMBus transport, `ELANSMBus.cpp`, `I2CCommon.h` | `I2C_Transfer`, `Lock` (holder, event), `I2C_Lock`, `ready_for_input`, `fSt`, the host's registers | `elan_smbus_*`, `i801_*`, `I2CExec`, `interruptFilter`, `interruptHandler`, `handle_input_threaded` | host controller, work loop, report parser |
| Device lifecycle, `ELANSMBus.cpp` | the command gate, work loop, interrupt source, PCI device, multitouch interface, transducers | `init`, `probe`, `start`, `stop`, `free`, `release_resources` | IOKit, every other part |
| Report parser, `ELANSMBus.cpp`, `MT/VoodooI2CDigitiserTransducerAS.hpp` | `reportData_last`, one transducer per contact with current and last values | `parse_ELAN_report`, `TimeTrackedValue::update` | transport, multitouch interface |
| Multitouch interface and engines, `MT/VoodooI2CMultitouchInterfaceAS.cpp`, `MT/VoodooI2CMultitouchEngineAS.cpp` | the ordered set of engines | `open`, `close`, `orderEngines`, `handleInterruptReport`, `start`, `stop` | parser, engines |
| Magic Trackpad 2 simulator, `MT/Native/` | `touch_state`, `new_touch_state`, `stashed_unknown`, `input_report`, the get/set report buffers | `constructReport`, `setReport`, `getReport`, `start`, `stop` | native engine, IOHIDFamily |
| CSGesture engine, `MT/CSGesture/VoodooI2CCSGestureEngineAS.cpp` | `CSGestureSoftc`: per-contact histories, tick counters, tap and drag flags, settings | `handleInterruptReport`, `ProcessGesture` and its parts, `setParamProperties`, sleep and wake | wrappers, scroll |
| Scroll momentum, `MT/CSGesture/csgesturescroll.cpp`, `AverageClasses.h` | averages, momentum, timer | `ProcessScroll`, `stopScroll`, `scrollTimer` | gesture engine |
| HID wrappers, `MT/CSGesture/VoodooCSGestureH*` | none beyond links | event posting | IOHIDFamily |

The engine the property list of the kext matches to the interface is the native
one (`ELANSMBus-Info.plist:444`); nothing matches the gesture engine.

### What is hard, and what makes each part correct

* **Transport.** Three kinds of threads (the one that runs `start()`, the work
  loop, one kernel thread per notification) share two locks, a gate, a
  condition flag and hardware registers that change on read and on write. An
  event can be left over from before, the handler writes back a status read
  earlier, a deadline abandons a transaction the host is still running, and the
  thread that waits for the handler holds the gate the handler needs. Correct
  means: one transaction at a time, never started on a running host; no
  wakeup lost; the bus and the gate always given back; HST_NTFY always cleared
  in the end, so that the touchpad keeps notifying; `start()` returns.
* **Lifecycle.** `start()` may return in many places and looks at few of its
  results; `stop()` frees what report threads may be using; engines start and
  stop on threads of their own, and their timers and reports under the work
  loop's gate. Correct means: nothing is used before it is there or after its
  release.
* **Parser.** A filter with a subscript that is a logical expression, contacts
  packed differently from the slots they fill, unsigned arithmetic. Correct
  means: what the transducers show is the last report, whatever was dropped.
* **Multitouch interface.** Engines open while reports are delivered; the loop
  captures a count and indexes an ordered set. Correct means: each report
  reaches every open engine once, in score order, up to the first Break.
* **Simulator.** A touch phase counted in a `UInt8`, a loop over the number of
  contacts and not over their slots, several reports per release. Correct means:
  a touch begins anew after a lift, no contact that is up is shown, and when the
  last finger has left the host knows.
* **Gesture engine and scroll.** Long sequences of contacts, timers and settings;
  indices of contacts kept from one tick to the next. Correct means: what is
  pressed is released, by the one that pressed it; momentum ends; a scroll, a
  swipe and a tap are not taken for one another.

## 2. Modules

| module | models |
|---|---|
| `SerialBus` | abstract: clients that share one bus |
| `I2CDevice` | transport: `start()`, report threads, filter, handler, host, touchpad |
| `I2CDevice_proofs` | theorems about `I2CDevice` |
| `ReportParser` | `parse_ELAN_report` after its report has been read, transducers |
| `MT2Simulator` | the simulator's `constructReport`: touch phases, HID reports |
| `InputPath` | composes `ReportParser` (EXTENDS) and `MT2Simulator` (INSTANCE): a touchpad report to HID reports |
| `InputPath_proofs` | theorems about `ReportParser` and `InputPath` |
| `MT2ReportProtocol` | the simulator's `setReport` and `getReport`, called by several clients |
| `MultitouchInterface` | engines opening while a report goes through the others |
| `Multitouch_proofs` | theorems about `MultitouchInterface` and `MT2ReportProtocol` |
| `DeviceLifecycle` | `init`, every return of `start()`, `stop()`, `free()`, against the handler and the report threads |
| `EngineLifecycle` | start and stop of the native engine with its simulator and of the gesture engine with its wrappers and its scroll handler, against reports and timers |
| `Lifecycle_proofs` | theorems about `DeviceLifecycle` and `EngineLifecycle` |
| `CSGestureEngine` | the gesture engine's ticks: moves, palms, scrolls, clicks, taps, drags |
| `CSGestureEngine_proofs` | theorems about `CSGestureEngine` |
| `SwipeGesture` | swipes of three and four fingers, and the keys they type |
| `SwipeGesture_proofs` | theorems about `SwipeGesture` |
| `CSGestureScroll` | two-finger scrolling, momentum and its timer |
| `CSGestureScroll_proofs` | theorems about `CSGestureScroll` |
| `SampleWindow` | abstract: what an average over the last values remembers |
| `SimpleAverage` | the ring buffer of `AverageClasses.h` |
| `SimpleAverage_proofs` | theorems about `SimpleAverage` |

The modules `MC...` give the constants of a module their values for TLC. The
modules meet where one's assumption is another's property: the parser's steps
are atomic because `I2CDevice` holds the gate around them (`GateExclusion`), the
transducers reach the simulator in `InputPath`, the gesture engine sees of the
scroll handler whether it scrolls (`scroller`) and hands three or four contacts
to `SwipeGesture`, and the lifecycle modules take a transaction, a report or a
tick as a use of what it needs.

### I2CDevice

`pc[t]` is a thread's place in the code, `stage[t]` the SMBus transaction it is
running. `Main` runs `start()` from the transfer record on; its stages are, in
order, `elan_smbus_reset` and `elan_smbus_set_mode` (from `init_device`, before
the interrupt source is enabled), `I2CExec` and the hello packet and
`elan_smbus_enable_tp` (all in `elan_smbus_initialize`, tried twice). A report
thread runs `handle_input_threaded` and one transaction, `elan_smbus_get_report`.

| action | code |
|---|---|
| `Setup`, `EnableInterrupts`, `Settle` | the parts of `start()` between transactions |
| `CheckReady`, `AttemptAction`, `LeaveGate` | `handle_input_threaded`, the command gate, the return of `parse_ELAN_report` |
| `Prepare`, `LockI2CBus`, `ClearNotify`, `UnlockAfterReport`, `UnlockInStart` | what `elan_smbus_*` do around a transaction |
| `BlockBufferRefused`, `CheckPreBusy`, `CheckPreIdle`, `PollIdle`, `PollGivesUp`, `Start` | `i801_block_transaction`, `i801_check_pre`, the first half of `I2CExec` and `i801_transaction` |
| `ConsumeEvent`, `Sleep`, `Timeout`, `ResumeAwakened`, `ResumeTimedOut`, `Finish` | the wait under `Lock.holder` and what follows it |
| `InterruptFilter`, `EnterHandler`, `Classify`, `Signal`, `WriteBack` | `interruptFilter`, `interruptHandler` |
| `HostCompletes`, `HostNotify`, `Asserted`, `AfterRead`, `AfterWrite`, `LeaveHandler` | external: host controller, touchpad, line, registers, IOKit |

One step is one access to something another thread can touch: a register, a
lock, a shared field. `Lock.holder` is folded into the steps it protects, which
touch `event` and the sleep queue only. The status register keeps BUSY, INTR,
INUSE and one flag for the three error bits, which the driver never tells apart.
A read sets INUSE; a written 1 clears a flag, BUSY excepted.

What reading the code for the model showed, and the model keeps:

* The handler spawns a report thread when the latched status lacks INUSE
  (line 329): the filter's own read sets INUSE, the handler's write-back clears
  it, and a transaction's reads set it again.
* The handler runs on the work loop with its gate closed, and a report thread
  holds that gate from `attemptAction` until `parse_ELAN_report` returns. A
  report thread that has to sleep can therefore only time out
  (`SleepingReaderNeverWoken`); reports come through when `Lock.event` was
  already set, usually by the notification itself. That stale event is also what
  lets a transaction return before the host has finished it (run `still_busy`).
* `ready_for_input` and the gate alone keep transactions apart
  (`OneTransferAtATime`): `I2C_Lock` is never contended.
* `i801_check_post` is handed a constant 0 and never fails anything; the retry
  loop of `i2c_smbus_xfer` runs once, because nothing returns `-EAGAIN`; after
  `Setup` the handler's return on `I2CNoOp` is only taken before the first
  transaction.
* A refused block buffer mode (line 781) reads as success with 32 bytes nobody
  read. `BufferFaulty` switches it on.

### SerialBus

Clients acquire the bus, begin transactions when none is running, may leave one
running, and release it. `I2CDevice` implements it with `holder <- busLock` and
`running <- Busy`, although the lock, the checks before START and the host are
three different things in the code.

### ReportParser

State: `reportData_last`, the transducers (validity and the current and last
value of x, y, button and tip), and, for the properties, the report read last
and the number of contacts announced last. One action per way
`parse_ELAN_report` can return once the report was read: `DropDuplicate`,
`RejectId`, `Deliver`. A report that could not be read returns before the state
is touched. A report is a record: its ID, the contacts of the touch byte, its
button, one block per contact packed from the front, and `rest`, the bits the
duplicate test compares and nobody decodes. The test itself
(lines 153-154) compares bytes 3 to 10, and `reportData_last[11]` with
`reportData[1]`, since the subscript is the logical expression
`11 && (...)`; `reportData[1]` is never written and is 0. `Duplicate` says so:
touch byte, first block, and of the second block x and the high bits of y; the
low byte of the old y must be 0. The two modules meet at the label "parse" of
`I2CDevice`, where a report thread that holds the gate hands its bytes on: the
gate makes the parser's steps atomic, which `GateExclusion` justifies.

### MT2Simulator and InputPath

`touchState` is `touch_state`; `new_touch_state` is overwritten on every use and
`input_report` is zeroed at the end of each event, so neither is state. `hid` is
what the last event that sent anything has sent: one frame, and three more when
no contact is down (258-293). `ConstructReport` is the whole of
`constructReport`, in the pieces its code has: the slots the loop looks at
(`LookedAt`), the phase of each (`Phase`), its entry (`Entry`), the suppression
of an event with a contact at the origin (`ErrorInput`), the cut to the announced
number of contacts (`Frame`), and the release sequence (`Release`).

`InputPath` has the actions of the parser, each with what it causes in the
simulator (`StopAtParser`, `HandOn`): an event is handed on within `parse_ELAN_report`, under the work
loop's gate, so both happen in one step. `StartSimulator` may come at any time;
until then events are dropped. The interface in between hands every event to the
one engine the property list matches. The transducers are handed on by
reference, so the simulator reads what the parser has just written.

What the model keeps: the loop looks at `contact_count + 1` slots, whichever
slots the contacts are in. A lone contact in the third slot is past its end, and
the host is told that no finger is down. `PackedContactsShown` is therefore
stated for contacts that fill the first slots, and `LiftedContactsForgotten` for
the slots an event looked at.

Two history variables serve the properties and are read by no action. `touched` is
the contacts and the button of the touch report read last, whatever the parser did
with it: `reportData_last` does not tell, since it may be a foreign report or an
older one with the bytes the filter compares. `masked` says that this report was
dropped while `reportData_last` was a foreign report with its bytes 3 to 10: the
parser overwrites `reportData_last` before it looks at the ID (155-171). The code
loses such a report, so a touch whose lift is masked stays down until a report with
other bytes comes. The run reaches these states; its foreign reports have the bytes
of a lift and of a touch.

### MT2ReportProtocol

A client asks the simulated trackpad for the length of a feature report
(`setReport` 0x01), reads it (`getReport` 0x01) and then the report. `buffer` is
`new_get_report_buffer`. `setReport` is two steps, since nothing in this code
keeps two calls apart: `Create` puts an empty buffer in the field (394),
`AppendAnswer` appends to the one that is there by then (398-436). `getReport`
changes nothing; `Written` is how much it writes. A `setReport` of another ID
does nothing. The lengths are those of the code: 0xDB is told to have 73 bytes
after its ID (399) and has 71, because the two bytes for the length of its last
part, 0x7F, are missing (533).

### MultitouchInterface

`engines` is the ordered set. An engine opens on the thread that matched it,
which follows `registerService` (`ELANSMBus.cpp:455`) and takes no lock; reports
come through the loop of `handleInterruptReport` under the work loop's gate, one
at a time (`GateExclusion`). One step is the taking of the count (`Begin`), one
turn of the loop (`Handle`, in which the engine answers Continue or Break), its
end (`Finish`), or an `Open`. `Before`, `Queued` and `Admitted` are
`orderEngines` and what `OSOrderedSet` does with it: a new object goes behind
those that are not below it, an object already there is refused. `handled` and
`opened` record what happened to the report on its way. The cast of `getObject`
never fails, since `open` refuses what is no engine. Every engine of the
repository answers Continue; the interface provides for Break.

### DeviceLifecycle

`stage` is how far `init`, `start`, `stop` and `free` have come, `has` says of
each resource whether it was never made, is live or was released, `thread` where
a report thread is. A use of something that is not live is a record in `faults`,
and the model goes on: what the code protects and what it does not can be told
apart.

| action | code |
|---|---|
| `InitDevice`, `NoProvider`, `OpenProvider`, `GiveUp`, `AllocLocks`, `CreateWorkLoop`, `CreateDeviceInterrupt`, `CreateGate`, `NoGate`, `Publish`, `EnableSource`, `Initialize`, `SetReady`, `Register` | `init` and `start`, with each of its returns |
| `StopInterface`, `BeginStop`, `ReleaseGate`, `ReleaseSource`, `ReleaseWorkLoop`, `ReleaseTransducers`, `Unpublish` | the interface's `stop`, then the device's with `release_resources` |
| `FreeLocks`, `FreeDevice` | `free` |
| `Interrupt`, `HandlerReturns` | `interruptFilter` and `interruptHandler` |
| `CheckReady`, `AttemptAction`, `ReadReport`, `DeliverReport` | `handle_input_threaded`, the gate, `parse_ELAN_report` in its two halves |

What reading the code showed, and the model keeps:

* Of the returns of a failing `start()` only the one for the command gate
  (`NoGate`) releases anything. The others leave the transducers, and the last
  one the gate and the work loop, to `free()`, which does not know them. The
  interface is never released.
* The results of the interrupt source, the interface and `init_device` are not
  looked at, and an interface whose `start` fails has no set of engines. Both
  properties are about a device that came up (`CameUp`).
* `free()` closes the PCI device whether there was one or not.
* `stop()` releases the command gate first and never clears `ready_for_input`: a
  report thread that has seen the gate there may use it, and the device, after
  its release. The model records such a use; nothing in the code excludes it.
* The interface drops its engines when it is terminated, before the device's
  `stop`, while reports still come.

### EngineLifecycle

The two engines start and stop each on a thread of IOKit's. `parts` is what is
there, `engines` the interface's set, `inGate` who works under the gate; a tick
looks for its parts (`seen`) at its beginning and uses them until its end.

| action | code |
|---|---|
| `Open`, `Allocate`, `AddSimulatorGate`, `NoSimulator`, `SimulatorReady`, `StartActuator` | `VoodooI2CNativeEngineAS::start`, `VoodooI2CMT2SimulatorDeviceAS::start` |
| `StopSimulator`, `StopNative` | their `stop` |
| `AddTimer`, `NoTimer`, `StartWrapper`, `StartPointingWrapper`, `NoWrapper`, `StartScrollHandler`, `SetFactors`, `ArmTimer` | `VoodooI2CCSGestureEngineAS::start`, the wrappers' and the scroll handler's |
| `StopScrollHandler`, `Dismantle`, `CancelTimer`, `ReleaseTimer` | its `stop` |
| `BeginReport`, `Deliver`, `EndReport` | the interface's loop and the engines' `handleInterruptReport` |
| `BeginTick`, `EndTick`, `BeginScrollTimer`, `EndScrollTimer` | `timedProcessGesture`, `scrollTimer` |

Only adding a source to the work loop and removing one wait for the gate. What
the model keeps: an engine opens before it has anything and is never taken out
of the set (`close` is that of `IOService`), so that a stopped engine is handed
the next report; the simulator of an engine that stopped stays
`ready_for_reports` without a gate; an engine lets go of an interface it never
retained; a `start` that fails for its actuator leaves a working simulator; a
report before `factors` are set divides by 0; the gesture engine's timer is
cancelled after the parts its tick uses were released.

### CSGestureEngine and SwipeGesture

`down` and `last` are the contacts of this tick and of the one before, `truetick`
their ages; `panning`, `scrollIds` and `mouse.finger` are the indices the engine
keeps from tick to tick. `mouse` holds the button: its mask, whether a tap holds
it (`tap`), the contact that drags (`finger`), and the ticks since the last
click. `sent` is what the system is told in a tick.

| action or operator | code |
|---|---|
| `Report` | `handleInterruptReport` |
| `SetParamProperties` | the pointing wrapper's `setParamProperties` |
| `ScrollTimer` | what the scroll handler's timer does to `scrollInertiaActive` |
| `AboveThreshold` | the contacts above the threshold in `ProcessGesture` |
| `ProcessScroll`, `ProcessMove`, `SwipeOrRest` | a tick whose gesture is that of `ProcessScroll`, of `ProcessMove`, a swipe, or none |
| `EndTick` | the rest of `ProcessGesture`, which every tick runs |
| `Clicked`, `Buttons` | the clickpad button |
| `Joined`, `ClearTapDrag`, `DoubleTap` | contact by contact: a drag joined and ended |
| `Tapped`, `TapToClickOrDrag`, `TapMask`, `SinceClick` | `TapToClickOrDrag` |

Positions are left out of `CSGestureEngine`: which contacts have moved enough,
whether a pair lies on a line, which contact is lower, are every choice the code
could make. One step is a report or a tick: both run under the work loop's gate.
The settings come on another thread without it; they change between two ticks
(a tick reads each once).

What reading the code showed, and the model keeps:

* The histories are zeroed, so that before the first tick every contact looks as
  if it had been there (`Init`), and `start` takes the contacts away but not
  their last positions.
* The contact whose place decides the second button is the first above the
  threshold even when there is none (line 725 reads `x[-1]`): `Buttons` then has
  both answers.
* While taps are switched off `TapToClickOrDrag` returns at once: a tap's button
  then stays down until taps are on again, and its clock stands. Switched off and
  on during a drag, the button passes to a second contact without having been up
  (`TapsStayedOn` excludes that, and nothing else).
* A scroll whose contacts have left outlives them by `GraceTicks`; while the
  clickpad is pressed the indices of the scroll stay as they were.
* `isScrolling` compares the momentum with 0 and so does not notice one that
  glides backwards: the tap that should stop it clicks.

`SwipeGesture` is `ProcessThreeFingerSwipe` and `ProcessFourFingerSwipe`: `x`,
`y`, `tick` and `done` are the `multitasking` fields, which both share. `TypeKey`
presses a key and raises it, `Repeat` is the end of a swipe that is done,
`Gather` adds a tick's displacement, `Break` is a tick with any other number of
contacts. `sinceKey` is a history variable. What the model keeps: the axis is
that of the last displacement, the distance that of the whole swipe; only a
swipe that is done ever expires; a swipe of three goes on as one of four.

### SampleWindow, SimpleAverage and CSGestureScroll

`SampleWindow` is what an average over the last `N` values remembers: a
sequence, from which the oldest drops out. `SimpleAverage` is the ring with its
count, sum and next slot; it implements the window with `window <- Contents`,
its slots read in the order they were written. The scroll then keeps windows,
with their running sums, in place of rings.

`CSGestureScroll` has one action per way through `ProcessScroll`, for two
valid positions: `Place` (the first of a touch), `Pause` (no displacement, for
the first two times) and `Scroll`; for any other, `Lift`. `StopScroll` is
`stopScroll`, which the gesture engine calls on a move, a tap, a button or a
third finger, and `ScrollTimer` one tick. All run on one work loop, so a step is a
whole call. Two per-axis copies of the code are one formula over `Axes`.
`momentumscrollrest2x` and `rest2y` are left out: they are only ever set to 0 or
to `dx % 1`. What the model keeps: a displacement that is too great in y clears
that of x and is itself kept (175), `stopScroll` keeps the last positions, the
end of an inertia keeps its rest (112), division truncates toward zero.

## 3. Runs

| run | instance | shows |
|---|---|---|
| `transport` | two report threads, faulty block buffer; 404,780 states | the safety properties, `SerialisesBus`, and the liveness properties under `FairSpec` |
| `input_path` | three contacts, 14 reports, a touch phase of two bits; 711,267 states | the properties of `ReportParser` and of `InputPath` |
| `still_busy` | one report thread | the finding below |
| `report_protocol` | three clients, every known report and an unknown one; symmetric clients; 6,454 states | the properties of `MT2ReportProtocol` |
| `multitouch_interface` | four engines, two of one score; 967 states | the properties of `MultitouchInterface` that hold |
| `attached_engines` | the same | the second finding below |
| `device_lifecycle` | two report threads; 949 states | the properties of `DeviceLifecycle` |
| `engine_lifecycle` | both engines; 98,555 states | the properties of `EngineLifecycle` |
| `gesture_engine` | two contacts, all settings; 339,728 states | the properties of `CSGestureEngine`, under `FairSpec` |
| `swipes` | two, three or four contacts, displacements of both signs; 19,529 states | the properties of `SwipeGesture`, under `FairSpec` |
| `scroll` | five places for the fingers, histories of two samples, momentum up to 16; 88,826 states | the properties of `CSGestureScroll`, under `FairSpec` |
| `simple_average` | three slots, values of both signs; 384 states | the properties of `SimpleAverage`, and that it implements `SampleWindow` |

Finding (`still_busy`): the comment of `i801_check_post` says "If the SMBus is
still busy, we give up" (`ELANSMBus.cpp:597-599`). `i801_transaction` never reads
the status after its wait and passes the constant 0 (829, 856). With an event
left over from before, the wait ends at once and the transaction returns success
while HOST_BUSY is set; the report is then read out of the host's buffer before
the host has filled it.

Finding (`attached_engines`): the interface "Forwards a multitouch event to the
attached multitouch engines" (`MT/VoodooI2CMultitouchInterfaceAS.hpp:52`). Its
loop counts the engines once and then asks for the one at each index, while
`open` inserts by score on another thread. An engine that opens before the index
shifts the rest: the one just served is served again, and the last one of the
count, attached all along, never has the report.

### Properties of the transport

`GateExclusion` and `OneTransferAtATime` are two exclusions and who enforces
each; a third, `BusExclusion`, is proved, and so is `TypeOK`. `StartOnlyWhenIdle` holds across abandoned
transactions. `NoLostWakeup` says the handshake between `i801_transaction` and
the handler loses nothing, and that the single `IOLockWakeup` of one thread is
enough. `TransferOwned` shows that writing `I2C_Transfer` outside `I2C_Lock` is
harmless. `SleepingReaderNeverWoken`, and `NoEventBeforeEnable`, which is proved,
state the two places where a wait is known to end with its deadline.

`StartReturns`, `AdmittedReportClearsNotify`, `NotifyRetried` and `ReleasesBus`
are checked without any fairness of the host or the touchpad: they hold even if
no transaction ever completes.

### Properties of the parser

`ShowsLastReport` relates what is shown to what was kept, through any number of
drops and rejects. `NothingHidden` says what a dropped duplicate can never hide;
it does not hold while `reportData_last` is a foreign report (which overwrites
it before its ID is looked at, 155-171), and says so in its hypothesis.
`CountMatches`, what the consumers of an event rely on, and `LiftedContactsStay`
are proved and not checked; the latter covers `update(last.value)` (229-230): the
two values swap, and never become anything else.

### Properties of the input path

They relate the last HID reports to the touch report read last, through the
parser, the gate and the simulator. All three leave out a masked report (`Current`),
which the code does lose, and no other state: they hold through duplicates of touch
reports and through foreign reports before and after. Without `~masked`,
`NoStuckTouch` fails in the run: a contact comes down, a foreign report with the
bytes of its lift is stored, and the lift is dropped. `NoStuckTouch` need not leave
out suppressed events: an empty report has no contact at the origin.
`PackedContactsShown` and `NoGhostContact` leave out suppressed events, whose
reports the host does not see. `LiftedContactsForgotten` is about the touch
phase, the only memory of the simulator: no touch inherits the phase of an
earlier one in its slot.

### Properties of the report protocol

`OwnAnswer` is what a client may rely on when no other `setReport` meets its own.
`AnswersOwned` says what remains when calls meet: answers may be mixed or
replaced, but no answer outlives its question and none is there twice. `OwnAnswer`
also relates two tables of bytes written by hand: the length told and the bytes
written, which agree for every report but 0xDB.

### Properties of the interface

`QuietReportReachesAll` is what holds when no engine opens during a report, in
whatever order they opened before. The other one says how far the harm of the
second finding goes (`OpensDisturbLittle`): a repetition for each engine that
opened, no more engines left out at the end than opened (`Unreached`), and, with
one of them, never a lower score before a higher one (with two, the order breaks
too).

### Properties of the lifecycles

`QuietUntilTerminated` covers `start()` from the publication of the interface on:
interrupts are enabled, and spawn threads, while it is still initializing.
`GateProtects` says what `stop()` gets right: the order in which it takes the
gate, the source, the work loop, the transducers and the locks away, and the wait
for the gate in each removal, leave everything in place for who works inside the
gate, but the engines. It says nothing of a report thread on its way to the gate.
`NativeWholeUntilStopped` covers reports at any moment of a start, and every way
it can fail; `TimersWaitForStart` the timers of the gesture engine. Neither holds
once a stop has begun, for the reasons above.

### Properties of the gestures

`ButtonOwned` ties the five fields of the button together, over clicks, taps,
drags and settings, so that something can always release it; `NoHandOver` is the
action property with it. `ComesToRest` is the liveness of the timer: it needs the
time out of a tap, the end of a drag, and the grace of a scroll. `GestureOwned` bounds
how long `ProcessMove` and `ProcessScroll` go on with indices whose contacts have
left. The pointer's contact was there at the last tick, so that its index serves for
one tick more (213-217). A scroll keeps a pair of indices of which neither contact
need be there (268-286); without two contacts on the pad, each tick that looks at the
scroll ends it or uses up its grace (367-382). Ticks that do not look at it are left
out: with the clickpad or a tap's button down, or when three contacts of the last
tick make a swipe, it keeps its indices and its count. `ScrollNeverTaps` is about the grace: the pair that ends a scroll
lifts while the scroll still goes on, and would be a tap otherwise.
`KeysApart` and `SteadySwipeTypes` bound the keys of a swipe from both sides: never
two at once, also when three fingers become four, and not none for ever.

### Properties of the averages and the scroll

`RemembersLast` is the refinement. `SumMatches` is the one on which the momentum
rests: `ProcessScroll` multiplies the sum. `NoStaleSamples` relates the histories
to the touch, over turns, pauses, changes of axis, stops and lifts.
`RestFollowsMomentum` needs all of them: a rest outlives its momentum, and only
because a turn and a lift clear it does it never pull the other way.
`MomentumFromLifts` follows: a tick of the timer, which adds the rest back, never
enlarges or turns the momentum. `InertiaWearsOff` is the measure behind the end of
an inertia: each tick leaves less of `Div * |momentum| + |rest|`, although the
divisions truncate and the rest is added back (105-109), so that no tick stands
still. `InertiaDies` is the liveness of the timer, which `InertiaWearsOff` and the
fairness of the tick give.

## 4. Bounds, and why they are enough

* Two report threads: every pairwise interleaving of report threads, and of a
  report thread with `start()` and with the handler. With both in use the
  handler finds none to spawn, which stands for a failing `kernel_thread_start`.
  The proofs cover any number.
* No clock: a deadline may pass at any time while a thread sleeps.
* No counter is unbounded; nothing is cut off by a state constraint.
* `SharedLine` lets another device raise the level-triggered line at any time. It
  is off in the run and free in the theorems, which cover all its safety
  properties.
* Input path: three contacts are the fewest that let the loop end before a
  contact (a gap below it); a phase of two bits wraps after four events, as eight
  bits do after 256. Contacts packed and not, with and without the button, a block
  at the origin, and foreign reports with the bytes of a touch and of a lift are
  among the reports. For the parser,
  a "byte" of two values and a "word" of four with a maximum y of 2 exercise the
  comparison of high and low bytes, byte 11, and the wrap. The proofs cover any
  sizes.

* Report protocol: three clients may leave three answers in one buffer, replace a
  buffer under two others, and meet after a quiet call. The theorems hold for any
  number.
* Interface: two engines open and two to come are the fewest that break the
  order of a report as well as its completeness; two of one score exercise ties.
  The theorems hold for any engines and scores.
* Device: two report threads, one inside the gate and one that comes late. Engines:
  nothing is bounded.
* Gestures: the ticks are scaled down and kept in an order that lets every
  comparison go either way (a tap of 2, a move after 1, a scroll after 2, a grace
  of 1, a fresh contact below 2; the code has 10, 5, 8, 5 and 10, times
  `frequmult` but for the last). An age counts to `AgeBound`, from where it counts
  as any greater one: `Older` may then hold of any two. Two contacts do
  everything but swipe, and a swipe is for the rest of the engine a tick that
  stops the scroll; the four safety properties are proved for any number of
  contacts.
* Swipes: limits 1 and 3 to begin, 2 and 5 to repeat, for 5, 30, 25 and 70; a
  distance of 3, and displacements that add up to 4 at most: a swipe takes
  several ticks, and three fingers become four within it. The theorem holds for
  any limits.
* Averages: three slots and four values wrap in either direction; the theorems
  cover rings of any size.
* Scroll: `Gain`, `Notch`, `Jump` and the decay are scaled down (2, 1, 5, 3/4 for
  10, 7, 100, 98/100) so that a momentum passes through growth, decay with a
  rest and the notch within small numbers; two samples are one more than
  `momentumscrollsamplesmin` and fill the history. `Bound` bounds the momentum
  that lifts may add up: a lift that would exceed it does not happen, which
  removes behaviours and no fairness. The theorems hold for the code's numbers
  and any bound. Overflow of the `int` is not modelled.

## 5. Fairness

`FairSpec` assumes weak fairness of each thread's steps (the kernel schedules
runnable threads; a sleep with a deadline ends), of the handler (the work loop's
thread), and of the filter while the line is asserted and unmasked (the line is
level-triggered). Nothing is assumed of the host or the touchpad, and nothing of
an interrupt raised by another device. `SerialBus!FairSpec` asks that a client
that holds the bus releases it.

`CSGestureScroll!FairSpec` assumes weak fairness of the timer's tick, which sets
itself again every 10 ms for as long as the driver runs; fingers owe nothing.
`CSGestureEngine!FairSpec` and `SwipeGesture!FairSpec` assume the same of the
gesture timer, which `timedProcessGesture` sets again as its first action, 5 ms
later. Nothing is assumed of contacts, the clickpad and the settings, nor of the
scroll handler's momentum.

## 6. Proofs

All by TLAPS, for every value of the constants that satisfies the named
assumptions: `ConstantsAssumption` (the threads are distinct and finite in
number), `ReportsAssumption` (at least two contacts, positive sizes, reports
of the right shape), `InputPathAssumption` (a touch phase of at least two
values), `EnginesAssumption` (finitely many engines, natural scores),
`SizeAssumption` (a ring of at least one slot, integers),
`ScrollAssumption` (positions above 0, a decay below one), `EngineAssumption`
(finitely many contacts, natural limits, ages that reach all of them) and
`SwipeAssumption` (integers, and a swipe of three matures no later than one of
four). The theorems about `DeviceLifecycle`, `EngineLifecycle` and
`MT2ReportProtocol` assume nothing.

`I2CDevice_proofs` builds an inductive invariant in layers, each resting on the
ones before it: `TypeOK`; `LockInv`, which ties the owners of the gate and of
`I2C_Lock` and `ready_for_input` to the places of the threads, and is inductive
where the exclusions alone are not, since the gate only excludes `Main` through
`ready_for_input`; then `BusInv` (START, sleepers and events) and `PhaseInv` (what
cannot have happened while the interrupt is off), which need `LockInv` to know
that the thread that moves is alone. From them follow `OneTransferAtATime`,
`SleepingReaderNeverWoken`, `StartOnlyWhenIdle`, `NoLostWakeup`, `TransferOwned`,
`NoEventBeforeEnable`, and that every step of the driver is a step of `SerialBus`
or leaves it alone (`ImplementsSerialBus`).

The last part is the safety half of the liveness properties `StartReturns`,
`ReleasesBus` and `AdmittedReportClearsNotify`. `RunsDown`: the steps a thread can
still take are a number (`Left`, from its place in the transaction, `Place`, and the
transactions it has ahead, `Turns`, the second round of initialization included),
and every step of the thread makes it smaller; a late answer, a timeout and a lost
arbitration all count. `NeverStuck`: who comes to `I2C_Lock` finds it free, and who
unlocks knows where to go on. `NotifyClearedFirst`: a report thread inside the gate
has no way to its unlock but with HST_NTFY cleared. What the three leave to
TLC is that a step that can be taken is taken.

`InputPath_proofs` begins with the parser: its four invariants and the action
property. The lemma everything rests on is `BlockIndex`: the block a contact reads
is the one at the number of contacts up to it, and never past the last.
`NothingHidden` needs one more invariant, `InputKept`: the report read last is the
one kept or its duplicate. A step of the composition is one of the parser, so its
theorems hold of the whole path. Of its own there are `NoStuckTouch`,
`PackedContactsShown`, `NoGhostContact` and `LiftedContactsForgotten`.

* The first three need the invariant `PathInv`: nothing is sent before the simulator is
  ready (`SilentBeforeReady`), and while `reportData_last` is a touch report it has
  the contacts and the button of the touch report read last, which is not masked
  (`TouchedMatches`). With it `ShownContactsKept` says that a step that hands the
  simulator nothing changes nothing the properties read, or masks a report, or comes
  before anything was sent.
* `NoStuckTouch` needs the lemmas that an empty report lifts every transducer
  (`EmptyDecode`) and that the last of its four frames is empty (`EmptyFrames`).
* `PackedContactsShown` and `NoGhostContact` rest on one lemma, `ShownByEvent`: what
  the host is shown by an event that is not suppressed is an inactive frame without
  entries, when the loop found no contact down, or else the entries of the slots up
  to the announced number, each with its contact's identifier or 0 (`CutEntries`).
  For packed contacts the first case is impossible unless there is none, and the
  slots up to the number are those of the contacts.
* `LiftedContactsForgotten` holds slot by slot, for those an event looked at.

`Multitouch_proofs` holds two independent arguments. For the interface, an
engine goes in behind those of its score or a higher one (`QueuedElements`,
from what a prefix of an ordered sequence is); so the set stays ordered and
without repetition (`Ordered`), and each insertion moves an engine by at most
one place (`OpenShifts`). The invariant of a report on its way is `Shifted`: an
engine that had the report at turn k now stands at k or as many places further
as engines opened since. An engine stands at one place only, so it had the
report at no more turns than one and the number that opened (`ShiftedTimes`),
and with one shift at most a later turn is not at an earlier place
(`ShiftedOrder`). For the engines left out, `PassedNobody` counts: whoever
stands before the loop's turn has had the report or opened since
(`OpenPlaces`), and only those beyond the old number of engines are still to
come, one for each that opened (`LoopLeavesFew`). The properties alone are not
inductive: they say nothing of where the engines stand. For the protocol,
`AloneInv` ties the client that has met no other to the buffer, empty or with
its answer; `AnswersOwned` is inductive with the types, an answer's owner being
the client that appended it, until its next `setReport` takes the whole buffer
away.

`SimpleAverage_proofs` proves `TypeOK`, the refinement and `SumMatches`. The
invariant beside the types is that a ring which is not full has never wrapped
(`index = count`); the step lemma shows that a write appends to `Contents`, or
drops its head when the ring is full. `SumMatches` says that the running sum is
the last of the partial sums of `Contents`, which are a recursive function
(`PartialSums`). That this function exists is an induction
(`PartialSumsSum`), and so are `SumOfAppend` and `SumOfTail`; since the
library's induction theorems take an operator, they are done with a set of
numbers, whose least missing element is ruled out (`NaturalsByInduction`, from
the well-foundedness of `<`).

`CSGestureScroll_proofs` proves the three invariants together, since a tick
preserves `RestFollowsMomentum` only with the bound on the rest from `TypeOK`,
and then `MomentumFromLifts` from them. The arithmetic is in lemmas about
truncated division: what a quotient and a remainder of the decayed momentum are
bounded by, and that they keep its sign. `InertiaWearsOff` uses that quotient and
remainder make up the dividend again (`QuotRemTotal`) and that the dividend, `Mul`
times the momentum and the rest, is less than `Div` times the momentum and the rest
(`DividendLess`): a momentum and its rest never pull apart, which is
`RestFollowsMomentum`.

`Lifecycle_proofs` has for the device an invariant in three layers: `HasInv`, what is there
at each stage; `RunInv`, that nothing runs before the source is enabled, the
handler only while there is a source, and a report only while there is a gate;
and `QuietInv`, that nothing was missed so far, which spans
stages where `QuietUntilTerminated` says nothing. Given these, each use inside
the gate finds what it needs (`HandlerFinds`, `ReportFinds`), and
`GateProtects` is inductive.

For the engines, `NativeInv` says what the native engine's phase, readiness and
simulator have to do with each other: until it is stopped, a simulator that is
ready for reports has its gate, and the engine the interface. `PartsInv` says
which parts of the gesture engine each of its phases has, and `TimerInv` that
its timers run only from the phase on in which all they use is there, until it
is stopped; `NativeWholeUntilStopped` and `TimersWaitForStart` follow
(`NativeWholeCorrect`, `TimersWaitCorrect`). Neither property is inductive:
each says what was missed and nothing of why.

`CSGestureEngine_proofs` follows the button through a tick: `AfterClicked`,
`AfterJoined`, `AfterClearTapDrag` and `AfterTapped` say what each part of a tick
leaves, `MouseChain` puts them together. The invariant `MouseInv` adds to
`ButtonOwned` that the clock stands at 0 under the clickpad, so that no tap can
take its button over; for a drag, `TapsStayedOn` says the same. For
`GestureOwned` the lemmas that matter are that a contact is never a palm beside
itself (`GestureTick`), and that the pair a scroll goes on with is two contacts
(`PairOfTwo`), which a pad with fewer than two cannot have, so that the count runs
and stays below the grace while the scroll is on (`GraceRuns`). `ScrollNeverTaps` needs `AgedWasThere`: a contact with an age was there at
the last tick, so that fewer than three of them are no swipe, the tick must go on
with the scroll, and a tick that does so looks for no tap (`ScrolledTickKeepsTap`).
`TypeOK` has its own part, with the counters.

`NoIdleTick` is `ComesToRest` without the timer's fairness. `Restless` adds up what a
held tap, the clickpad's button and a scroll's grace still last, and more than
these can be while a contact has been there at the last tick. While no contact is
there, the clickpad is up and taps are on, each tick makes it smaller or finds it 0,
which is rest, and reports, settings and the scroll timer do not enlarge it. The
lemmas follow the tick: `QuietMouse` for the button, `QuietScroll` for the grace; a
held tap keeps the scroll from going on, so that the two take turns, the tap first.

`SwipeGesture_proofs` proves `KeysApart` with the invariant `AgeInv`: a swipe that
may still type is no older than the last key. `NoIdleSwipe` is `SteadySwipeTypes`
without fairness: the ticks and the distance that are missing (`Missing`), after a
swipe that is done the ticks until it may begin anew too, grow less with every
steady tick that types nothing. It assumes that a swipe is old enough to type no
later than it is given up, as in the code (5 and 25, 30 and 70); `SwipeAssumption`,
which the others use, does not.

Model-checked only: the liveness properties (`StartReturns`, `ReleasesBus`,
`AdmittedReportClearsNotify`, `NotifyRetried`, `InertiaDies`, `ComesToRest`,
`SteadySwipeTypes`), since fairness and ENABLED are out of the prover's reach; what
each rests on, a measure that falls and a place no thread can be stuck at, is proved
for all but `NotifyRetried`, which also needs the line to be asserted again and the
handler to find a thread. `StillBusyGivesUp` and `AttachedEnginesReached` are
refuted. Every other property of a run, all invariants among them, is a theorem.

## 7. Not modelled, and why

* `elan_smbus_get_max`, `_get_num_traces`, `_get_resolution`: nothing calls them.
  The last two would keep `I2C_Lock` on a bad length (929, 948). `probe` changes no
  state.
* What the lifecycle modules record as a fault and the code does nothing to
  exclude has no property: the uses of a released gate or device by a late report
  thread, of the dismantled gesture engine by its timer, of a stopped simulator by
  the next report. The steps inside an insertion into `OSOrderedSet`, which a
  reader may meet: the set's code is not in the repository.
* Timestamps, pressure and contact area in the parser: no property is about them.
* The simulator's descriptor and names, which are constants, and its power states,
  which change nothing. In `getReport`, the bytes of a report, and the buffers it
  never releases. The coordinates, timestamps and pad zones of a HID report. The
  actuator, but for whether it starts: it answers every `setReport` with success.
* Of the gesture engine: the positions of the contacts and their histories (the
  shift over twenty ticks, the running sums, the angle of a pair), whose results are
  every choice in `AboveThreshold`, `Buttons` and `ProcessMove`; absolute positions;
  `prepareToSleep` and `wakeFromSleep`, which nothing calls.
* Of the scroll: what nothing calls (`prepareToSleep`, `wakeFromSleep`,
  `disableScrollingDelayLaunch` and its timer, the ends and the value of an
  average, the decaying averages), and the wheel events, which follow from the
  displacements and the momentum. Overflow of its `int`.
* HID wrappers: they pass events on to IOHIDFamily and keep no state.
* `Dependencies/Headers`, plists, `patches`, the SSDT, the built kext: vendored
  code, data and build products.
