# TLA+ verification of hil_lab

hil_lab is a hardware-in-the-loop laboratory: FPGA logic that plays timestamped
digital events against a device under test, BeagleBone PRU firmware that captures
PWM edges and generates encoder signals, and Python hosts that control both. This
directory models the parts where several clocks, processors or processes meet,
checks them with TLC on small instances and proves the central invariants with
TLAPS for every value of the constants.

`tlc -config <run>.cfg <module>` repeats a run, `tlapm <module>.tla` a proof;
`PROJECT.json` lists the runs, the code lines behind every definition, the hazards
and the theorems.

## Inventory of the system

| component (source) | state | operations and interactions | what makes it hard | correctness |
|---|---|---|---|---|
| event queue (`rtl/scenario/hil_event_queue.v`, `rtl/control/hil_axi_event_fifo.v`) | ring memories, two pointers, a counter, order reference, two latches | push, pop, clear, error clear, reset, all possible in one clock | simultaneous push and pop at full and empty, wrap at a depth that is no power of two, reference forgotten on drain | bounded ordered FIFO; every refusal explained |
| DIO scenario engine (`rtl/scenario/dio_scenario_engine.v`, `hil_timebase.v`) | outputs, evidence registers, its queue, the timestamp | apply the due head, safe, clear, status clear | FORCE_SAFE, push and due event in one clock; late and out-of-order events | never early, bounded lateness, nothing survives FORCE_SAFE, truthful evidence |
| AXI event path (`hil_axi_control_plane.v`, `dio_event_scheduler.v`, `hil_axi_digital_core.v`, `host/hil/transports/uio.py`) | CONTROL, staged event, FIFO, dispatch registers, armed event | host MMIO writes, dispatcher, scheduler, external safe pin | registered pop and arm are one or two clocks old when looked at; read-modify-write of CONTROL | exactly-once in-order application, no event overwritten or left behind, dispatch never stalls |
| PRU1 stimulus (`firmware/pru1_b2/main.c`) | ABZ and Hall generators, armed start, scheduled update, pins | ten RPMsg requests, four deadlines on a wrapping counter, drain loop | deadlines across the wrap, requests between arm and deadline, interrupt cleared before the drain | one owner of the pins, Gray motion, on-time start, no lost request, stop means silence |
| PWM shared block (`firmware/common/pwm_capture_core.c`, `pru0_b1/main.c`, `host/hil_pwm_shared.py`) | seqlock, counters, ring | PRU stores and Linux copies word by word | no mutual exclusion; ring window validated by a counter inequality | a returned summary is one instant; a returned window is whole |
| raw edge capture (`firmware/pru0_b1_raw/main.c`, `host/hil_raw_shared.py`, `host/hil_raw_cli.py`) | header, ring, window, vring, command-line session | window, six requests, capture and dump | the reader has no lock; timed-out requests stay queued; stale baseline | a successful capture is its own window |
| BeagleBone backend, RPMsg client and command-line tools (`host/hil/backends/beaglebone_pru.py`, `boards/beaglebone_black/host/*_cli.py`, `hil_pru_protocol.py`, `scripts/pruN_ctl.py`) | connections with sequence numbers, the queues of two devices, loaded firmware | open with HELLO, backend methods, commands of one to four requests, firmware stop, start, deploy | timeouts with late answers, programs that number their requests from 1 on a device nobody empties, failure between two requests, a device that goes away | what is reported as done was done; deadlines and samples come from their own answers; every call returns |
| CANopen master (`fieldbus/canopen`) | SDO request under way, drive state, PDO objects of the drive | enable, quick stop, disable voltage, NMT, PDO configuration | answers identified by object only, bus traffic, faults and reboots between a read and the write that follows | enable and stop report what the drive did; a PDO is never on half mapped |
| lab sessions and Zynq backend (`lab/session.py`, `lab/resources`, `lab/labgrid`, `host/hil/core.py`, `scenario.py`, `backends/zynq.py`, `transports/uio.py`) | file lock, labgrid place, CONTROL and event registers, counter words, PWM registers | enter, leave, every backend method down to its register accesses, scenario loading | two processes, failing tools and transports, interrupts, dying processes, reads of several words, read-modify-write | a test has a safe bench to itself, leaves nothing running, gives lock and place back; a timestamp is of the call that reads it, and no word of a PWM is older than its sequence number |
| B0 loopback firmware, sensor frame state machine, RTL generators and captures, trigger engine and fault injector, DAC streamer, EtherCAT | see `PROJECT.json` | see plan | watchdogs, frame state machines | not modelled yet, see plan |
| PMSM plant, board tops, MCU references | Q16 arithmetic, wiring, vendor registers | | value spaces or hardware outside TLC's reach | not modelled |

## Modules and how they correspond to the code

* **TimedEventFifo** (abstract) is a bounded sequence with non-decreasing timestamps and
  latched refusals. **HilEventQueue** is the ring of `hil_event_queue.v`: the registers
  keep their names, `QueueClock` is one rising edge with its input wires as parameters;
  `FifoClock` is the AXI variant, whose clear also clears the latches.
  **HilEventQueueProofs** holds its theorems.
* **DioEventService** (abstract) is what any timestamped DIO pipeline promises: apply in
  order of acceptance, once, never early, drop only in the safe state or on an explicit
  discard. **DioScenarioEngine** extends HilEventQueue with the engine and the timebase;
  `EngineClock` is the `always` block. **MCDioScenarioEngine** adds history (when and behind
  how many events each slot was filled, the last FORCE_SAFE).
* **HilAxiEventPath** composes host, control plane, FIFO (HilEventQueue again), dispatcher
  and `dio_event_scheduler.v`. `Clock(commit)` is one edge for all of them; `commit` says
  whether the write under way on the bus lands in this clock, so AXI latency is arbitrary.
  Host operations are the methods of `uio.py`, one MMIO access at a time; CONTROL reads
  return the *combined* FORCE_SAFE as the code does.
* **Pru1Stimulus** is the main loop of `pru1_b2/main.c`: each disjunct of `Loop` is one
  early-`continue` of the loop, `Receive` one iteration of the drain, `StartPending` the code
  behind the acknowledgement. Every step costs 1..MaxStep ticks of the wrapping counter.
  `Effect` has one disjunct per request. **MCPru1Stimulus** adds the real time left to the
  armed deadline and whether a start was accepted since the last stop;
  **BeagleBoneProofs** holds the theorems, and those about PruRpc.
* **PwmSharedSnapshot** has the PRU's stores and the reader's copies as single-word
  steps in the order of the code; channel and pair statistics are one word that counts
  the events it accounts for. **MCPwmSharedSnapshot** adds the block as it was at `seq0`.
* **RawCapture** has the same granularity for the raw block: `stores` is the list of stores
  the firmware still has to make, `Layout` the address order in which Linux copies. The
  tool runs one command at a time; a request it gave up on stays in the vring. `base`,
  `seen` and `owner` record what was really on the pins and whose START opened the window.
* **PruRpc** has one queue per direction and PRU. `ses` is the program that has the devices
  open: the backend (`OpenBackend`, `Call`, `Close`) or one command of a tool
  (`RunCommand`; `pru_cli`, `pwm_cli`, `stim_cli`, `hall_cli` and `sensor_cli` list the
  requests of each). `Write`, `Timeout`, `NotWritten` and `Read` are the system calls of
  `HilPru.request`. A timeout may happen whenever a request is outstanding; the answer then
  stays in the device and meets the next request, of this program or of a later one, unless
  the driver drops it (both are modelled). `stop`, `start` and `install_and_start` are
  `pruN_ctl.py`; they remove the device under an open program. Requests that do the same to
  the tracked state share a name: STATUS, CAPTURE, STIM_CONFIG, STIM_START, SERIAL_SETUP.
* **CanopenDrive** is one method of `Cia402Node` or one `configure_pdo_mapping` at a time,
  one SDO request after the other, against a drive (external) with the CiA 402 states, NMT
  state and PDO objects, which may fault, abort, reboot or answer after the timeout. Its PDO
  is on after power-up and maps the controlword alone. The socket may refuse a frame or raise
  in `recv` at any time (`SocketFails`), but that it does so while the drive is silent
  (`RecvTimesOut`) is only certain if `SocketCanBus.open` was given a timeout: `Timeout`.
  `next_controlword`, `decode_state`, `encode` and `decode` are the functions of the code on
  the masks and offsets the code uses.
* **LabBench** has one session per process. `Enter`, `LeaseAcquire`, `Leave`, `LeaseRelease`
  and `Unlock` are the steps of `ServoHilSession`; between them the test calls backend
  methods, each a list of register accesses (`Accesses`) carried out one at a time against
  the control plane and a TimedEventFifo. Tools fail or time out, transports fail, tests
  raise, KeyboardInterrupt arrives in any step, and a process may die. While a method reads
  the counter or a PWM capture, both run on (`Tick`, `PwmEdge`): in each PWM cycle the falling
  edge stores HIGH, the rising edge PERIOD and LOW, and the sequence number follows a clock
  later. A word is the number of the cycle it was measured in. One channel is modelled; the
  board's three share the sequence number.

Refinements: HilEventQueue implements TimedEventFifo (`contents` maps the ring to a
sequence); DioScenarioEngine and HilAxiEventPath both implement DioEventService (the
latter with the armed event in front of the FIFO contents).

Abstractions: event masks and values are sets of lines; the 64-bit timestamp is bounded
(scenario engine) or saturates at the last event (AXI path, where only comparisons read
it); statistics counters and response fields that no code reads back are left out; RPMsg
payload encoding is left out; the IEP counter of RawCapture counts input changes.
Outside `src/`: the vring and the kick (`HostSend`, `HostKick`), the PWM source
(`InputMoves`), the drive and the other nodes of the CAN bus, the labgrid coordinator, and the
end of a process (the kernel frees its `flock`).

## Runs

| run | checks | shows |
|---|---|---|
| `scenario_engine` | QueueInv, ImplementsFifo, ServesItsInputs; TimelineSound (EvidenceSound, LatenessBounded), SafeIsFinal (NothingSurvivesSafe, SafeUntilNewEvent), ReorderIsReported, EngineImplementsService | the queue stays one ordered history under every input of every clock; events are never early and only as late as the queue in front of them explains; FORCE_SAFE is final; the evidence registers tell the truth |
| `axi_event_path` | HandoverSound (PopMatchesDispatch, ArmOnlyIdle, InflightAccounted), SafeEmptiesPipeline, ImplementsService, QueuedIsDispatched | the two-clock dispatch loses, repeats and overwrites nothing, one clock of FORCE_SAFE empties all stages, and queued events are dispatched, for hosts that enable the HIL before releasing FORCE_SAFE (with every host the type invariant, PopMatchesDispatch, ArmOnlyIdle and SafeEmptiesPipeline still hold; the next run shows what does not) |
| `axi_dispatch_wedge` | ActiveQueueMoves is **violated** | released FORCE_SAFE with HIL disabled: the dispatched event dies in the inactive scheduler and `dispatch_inflight` stays set |
| `stim_safety` | OneOwner, OutputsMatchState, ArmedOnTime, GrayMotion, NoBurst | every order of the requests against the deadlines |
| `stim_service` | NoLostWakeup, StoppedStaysSilent, RequestServed, ArmedFires | requests are read even while transitions keep coming due (with a period of three steps of the loop); FORCE_SAFE and ABZ_STOP cancel an armed start; otherwise it fires |
| `stim_stop` | StoppedStaysSilent is **violated** with HALL_STOP as a stop | HALL_STOP leaves an armed ABZ start alive |
| `pwm_snapshot` | BlockSound (BlockConsistent), SummaryAtomic, WindowFaithful | no torn summary and no overwritten record is returned outside CAPTURE_CLEAR |
| `pwm_snapshot_clear` | SummaryConsistent is **violated** | CAPTURE_CLEAR resets the seqlock without taking it |
| `raw_capture` | BlockSound (FrozenIsWindow), CaptureFaithful, DumpFaithful | a published block shows what was on the pins; a capture reports its own whole window in spite of queued requests of earlier commands; an undisturbed dump is whole |
| `pru_rpc` | SuccessIsReal, AnswersAreCurrent (DeadlineIsFresh, SampleIsOwn), MethodReturns | type and sequence checks keep late answers from being taken for success, for a deadline or for a loopback sample; a silent or removed PRU never blocks a call |
| `canopen_drive` | ReportIsReal (EnableIsReal, StopIsReal), EnableFromAnywhere, PdoNeverTorn, PdoDecodesAsConfigured, CanMethodReturns | on a socket opened with a timeout: what the master reports is what the drive did, except behind an older answer for the same object; a resting drive is enabled from every state, except from Fault with bit 7 still set by a refused reset; a configuration abandoned anywhere leaves the PDO off, as it was at power-up, or whole; a call returns however silent the drive is |
| `lab_bench` | BenchIsExclusive (OwnBench), SafeUntilReleased, LeavesBenchSafe (SafeUnlessRaised, NothingLeftRunning, LeaseReturned), SessionMovesOn; ReadsAreCurrent (TimestampInCall, PwmNotStale), ScheduledIsQueued | two processes share a bench through the lock whatever fails, and what fails is reported; the read-modify-writes of CONTROL do not undo each other; a timestamp is of the call that read it, and no word of a PWM is of a cycle before the one its sequence number counts |

Names in brackets are the parts of an invariant, each stated and explained in its module. The
type invariant of a module is part of its first compound invariant (QueueInv, TimelineSound,
HandoverSound, BlockSound, ReportIsReal, BenchIsExclusive); that of the stimulus firmware is
proved below.

### Bounds

* `scenario_engine`: depth 3 (not a power of two), timestamps 1, 2 and 4, six clocks after
  each reset: enough to fill the queue before the head is due, to refuse for either reason,
  to wrap both pointers and to be late. Two lines with different masks.
* `axi_event_path`: depth 2 and two events at ticks 8 and 12, the time then stands: one event
  armed, one in flight and two queued are possible, before and after their tick. The slots
  of the memory are never read before they are written, so one initial content is used.
* `stim_safety`: a counter of 8 ticks, so that it wraps several times in every behaviour, with
  period 3; everything compares differences, so one armed instant just before the wrap and
  one update just behind it show all distances. One outstanding request: the host waits for
  its answers. `stim_service`: counter of 16, two requests, so that a stop can be served
  between ARM and its deadline. The drain is bounded by MaxRx: the vring is finite. Every period is
  longer than the longest step of the loop: the overload in which a transition is due at every
  step, and no request would ever be read, is not explored.
* `pwm_snapshot`: ring of 2, five operations of the PRU, one attempt per call (attempts are
  independent; the retry path is the same code), ring limits 0, 1 and 2.
* `raw_capture`: ring of 2, two input levels, three commands: an open window, a timed-out
  command and the one under observation. A counter range of 3, with which the
  stamps are independent of the levels, was also checked, with two commands.
* `pru_rpc`: three requests per backend connection and PRU, at most one entry of earlier programs
  in the queues when one opens (it may be dropped or stay, and a program may leave several).
  SuccessIsReal and SampleIsOwn claim nothing for a program that opens behind two or more
  left-over answers: if a `safe` and then a `start` timed out, a second `safe` is answered
  by the first one and reports success before the start has been served. With
  `MaxStale = 2` (three million states, three minutes without MethodReturns) all safety
  properties hold as stated, and fail without that condition.
* `canopen_drive`: five steps of the enable loop (the code's default is 16; EnableFromAnywhere
  shows that five are enough for a resting drive), two frames looked at per answer, one frame of
  other traffic queued, one PDO mapping next to the drive's own. `Timeout = TRUE`; the
  safety properties do not depend on it, as the socket may raise in either case.
* `lab_bench`: two processes, a FIFO of two, scenarios of up to three steps, a low counter word of
  two values, so that every second tick carries; two attempts and four counter values per
  timestamp read. One PWM cycle per `read_pwm`: its three events fall before, between or after
  any two of the reads; two cycles were checked too. ReadsAreCurrent does
  not say that the words are of one cycle, and they need not be: see "Not modelled, and why". LeavesBenchSafe excuses what labgrid, a
  killed `acquire` or an interrupt in `__enter__` keeps (`leaked`), and a failed last
  `force_safe` (`failed`): that these leave the place taken or the bench on is a fact, not an
  error the run would find.

No symmetry is used. Deadlock is checked except in `canopen_drive` and `lab_bench`, where
bounds end the behaviour.

### Fairness

`axi_event_path`: the clock runs, and a bus write lands after finitely many clocks. Host and
safe pin owe nothing. `stim_service`: the PRU loop never stops, and a queued request is kicked
(virtio notifies after queueing). `pru_rpc`: `poll` has a timeout, so a method under way
takes its next step; the PRUs need not answer. `canopen_drive`: if the socket has a
timeout, a call takes its next step, and the drive need not answer. That is a condition on the
caller: `SocketCanBus.open` sets a timeout only if it is given one (`socketcan.py:47`, default
None), and nothing in the repository gives it one. Without, `recv` under `sdo.py:63` waits for a
silent drive for ever; with `Timeout = FALSE` and CanMethodReturns without its condition TLC
finds that call. `lab_bench`: each process that is not
killed runs on, tools run under a timeout, and a process interrupted in `__enter__`, which
keeps the lock, ends some time; the test body may last for ever. All of it is weak fairness.

## Proofs

**HilEventQueueProofs**, from DEPTH a positive natural, below 2^16 because `count` is a 16-bit
register, and events with natural timestamps. The inductive invariant `QueueInv` is the
type invariant together with: the write pointer is `count` slots ahead of the read pointer
(else the contents are not a sequence), the order reference is the timestamp of the youngest
queued event (else the comparison of a push says nothing about the queue), and the contents
are ordered. `ServeContents` computes the contents after one clock with any combination of
push and pop; `ServeOrder` and `ServeRefines` follow from it. Results:
`QueueCorrect` (`[]QueueInv`), `QueueTimestampOrdered`, `QueueImplementsFifo` (the ring
implements TimedEventFifo) and `QueueServesItsInputs` (each clock does what its own inputs
ask, so every refusal is latched).

**BeagleBoneProofs**, on the stimulus, from a half range larger than the shortest period, a valid power-up
period, and requests typed as the masks of the handler leave them; the counter width, the length
of steps, the number of queued requests and the set of requests are arbitrary. The inductive
invariant `StimInv` joins types, `OneOwner`, `OutputsMatchState` and `NoLostWakeup`. They need one
another: the armed start takes over the pins without looking at `running`, so the pins match the
state only because of `OneOwner`, and a scheduled period stays in range only because of the check
at its acceptance, which the type invariant carries. One lemma per kind of step (`Loop_Inv`,
`Work_Inv`, `Serve_Inv`, `Host_Inv`) gives `StimCorrect`; `StimOneOwner`, `StimOutputs`,
`StimNoLostWakeup` and the action property `StimGrayMotion` follow. `StimNoBurst` needs the
arithmetic of the wrapping counter: `WrapOnce`, `AfterIs` and `DiffIs` replace remainders by one
subtraction, and `DeadlineAhead` shows that an accumulated or rebased deadline lies ahead. The
history properties of MCPru1Stimulus rest on two further invariants. `Authorised` (whoever owns
the pins, is armed or is about to start was authorised since the last stop) gives
`StimStoppedStaysSilent`, for stops among FORCE_SAFE and ABZ_STOP; with HALL_STOP it is false
(`stim_stop`). `ArmedInv` says that the counter shows the real distance to the armed deadline, and
bounds the lateness by the steps made since the deadlines were last looked at (`StepsMade`: two
per request of the drain). It gives `StimArmedOnTime` if `(2 * MaxRx + 2) * MaxStep <= Half`: a
drain of the whole vring takes less than half a counter range. In the code half a range of the 200
MHz counter is ten seconds; a drain of a full vring is far below one. TLC checked `ArmedInv` on
the bounds of `stim_safety`, where the condition holds with equality.

On PruRpc, from `RpcAssumption` alone: any number of requests per session and any bound on what
earlier programs leave. Answers carry sequence numbers, but the client looks only at the type, so
the argument is one of counting. `Connected` places every entry of a connection: the i-th is
request `Written - Entries + i` of this program, or it was left by an earlier one and then stands
in front (`old` of them). The host never gets ahead of its leftovers, because it reads at most one
answer per request it writes. `CommandSound` and `BackendSound` say how far the program that has
the devices is, by the turn of its request (a deadline is computed after at least one answered
TIME, a sample counts from the third request on): a leftover entry has then been read before.
`LastHolds` says that the youngest answer of PRU1 still describes the stimulus, because the
firmware has served no other request since; `FirstHolds` the same of the only leftover when a command
accepts it for its first request. The two theorems `RpcSuccessIsReal` and `RpcAnswersAreCurrent`
follow from `RpcInvariant` at the one step that reads an answer. Their bounds on leftovers (`lag`
at most 1, at most 2 for deadlines) are part of the properties: TLC shows that they fail beyond.
TLC checked `RpcInv` on the bounds of `pru_rpc` before the proof.

**DioScenarioEngineProofs**, from the assumptions of HilEventQueueProofs
and any finite run length. `EngineInv`
is `QueueInv` with the types, `EvidenceSound` and `actual_timestamp <= timestamp`, which says
that an applied event lies in the past. It gives `EngineQueueCorrect`, `EngineReportsReordering`
and, with `ServeContents`, `EngineImplementsDioService`: the events left in the ring are the
untouched tail of what was accepted, so each clock is a step of
DioEventService or a stutter. `EngineTimelineSound` and `EngineSafeIsFinal` speak of histories: `HistoryInv`
adds what each queued event may rely on (`Waits`): its stamp is younger than the last
FORCE_SAFE, at least as many events were ahead of it when it was accepted as are now, and
the delay it can still suffer is one clock for each of them. `StampsFollow` carries the stamps
through the ring while it pops and pushes in one clock.

**HilAxiEventPathProofs**, from any depth, event set and host. `PathInv` is `QueueInv`, the types,
`PopMatchesDispatch`, `ArmOnlyIdle` and `StagedFirst` (a push is preceded by the staging of its event,
so no reset value enters the FIFO). It gives `PathHandsOverOnce` and `PathSafeEmptiesPipeline` for every
host. `PathHandoverSound` and `PathImplementsService` assume `"force_safe_off" \notin HostOps`, that is a
host that releases FORCE_SAFE only through `start_abz`, which enables the HIL in the same write:
`EnabledWhenReleased` then holds in every state, so an event is in flight only while the scheduler
is active. Without the assumption both are false, and `axi_dispatch_wedge` is the counterexample.

**PwmSharedSnapshotProofs**, from positive capacity and retries and any ring limits. `WriterInv` says
how far the update under way has come: between updates the block accounts for one number of
events in every word and in the ring; inside `hil_pwm_capture_process` the words and the records
are those of the old or the new number, store by store (`EdgeAt`); a clear is followed by
itself (`ClearAt`), because it resets the lock without taking it. `ReaderInv` is about the
reader: as long as `seq_lock` shows the value it read, the block is the frozen one
(`Watching`) and the words copied so far are its words (`Copying`); a record copied into the
window is the event it should be or `event_seq` has already moved so far that the last
comparison sees it (`Reading`). The wrap of head and window needs the lemma `ModDistinct`
(two numbers closer than the capacity with one remainder are equal). Results: `SnapshotBlockSound`,
`InstanceBlockSound`, `SnapshotSummaryAtomic`, `SnapshotWindowFaithful`. As in the run, the last two
claim nothing for a read during which CAPTURE_CLEAR ran.

**LabBenchProofs**, for any set of processes, any FIFO depth, low word width, number of attempts
and length of scenarios. `BenchInv` has one conjunct per concern of a process: `SessionOf` (phase,
lock and method under way agree), `LeaseOf` and `Leased` (who has the lease can still give it
back), `AccessOf` (the value about to be written back to CONTROL has every bit that is set: nobody else
writes CONTROL, because nobody else has a method under way), `OutcomeOf` (on the way out an
error is known or the bench is safe), `EventsOf`; and `Attended` for the bench itself: a place that
labgrid did not lose belongs to the holder of the lock, outputs run only under a session or
after one that failed. One lemma per action, with `Moves` for what an action of one process
leaves alone of the others. It gives `LabBenchIsExclusive`, `LabLeavesBenchSafe` and
`LabSafeUntilReleased`. Two layers rest on it. `ReadInv` describes the words read so far by
instants of the counter (`Stamped`: the high word is that of some time t, the low word of some
u >= t): equal high words then leave no carry between t and u, which is the
first half of `LabReadsAreCurrent`. The second is that the capture only moves on: a word read after the
sequence number is of its cycle or a later one, HIGH included.
`PlanInv` says that what is left of a scenario is in order and no older than the youngest
event queued, and that room found by EVT_STATUS is still there at EVT_PUSH, since only the
session pushes; so no push is refused, `LabScheduledIsQueued`.

**RawCaptureProofs**, from positive capacity and counter range and any set of input levels that
contains 0. A word of the block is judged by what it will be when the stores under way are done
(`Ends`): a store of the firmware then changes nothing, and a fresh list of stores decides just
the words it names. `FirmwareInv` says so of the window: while it is open the records are what was
seen on the pins and `running` is 1 (`Capturing`, `Gate`); a block whose reason is the event limit
holds one whole window (`Published`), any other shows no records (`Empty`); an armed start and an
open window exclude each other (`Flow`). `CaptureInv` says how far a capture command has come: its
configuration is in force, its START was the last, its window is over, the firmware is at rest and the
words copied are those of the block. It holds because of `Asked`: the request the tool waits for is the
youngest, so its answer proves that every older one was served. `DumpInv` says that a dump begun
in calm that copied `running = 0` finds the firmware at rest. Results: `RawBlockSound`,
`RawCaptureFaithful`, `RawDumpFaithful`.

**CanopenDriveProofs**, from `CanAssumption`: any bound on the steps of the enable loop, on the
frames looked at per answer and on the frames under way, any choice of the mappings, and a socket
with or without a timeout. SDO
answers carry no number, so everything rests on `InOrder`: a fresh frame, one of the call under way,
stands behind all older ones (`InStep` adds that a configuration has only one such frame, that of
the request the host waits for). `AnswersTruthful` says what a fresh answer tells about the drive, `TodoByMethod` that what
is left to send is the tail of the method's plan. `EnableHonest` and `StopHonest` carry the report
from the drive's answer to the return. `QuietEnable` is the argument for the enable loop: every
turn raises the state of a drive left alone by at least one `Rank`, so five turns reach Operation
Enabled from every state; `CanEnablesFromAnywhere` therefore assumes `MaxSteps >= 5` (the code's
default is 16, `cia402.py:78`), and with four it is false. The PDO part has `Progress` (the
drive's PDO shows the requests of the configuration under way that are done) and `Leftovers`: a
request of an abandoned configuration that is still under way is followed, for the objects of the
PDO, by requests to switch it off only, so it cannot spoil a mapping that is on. Results:
`CanInvariant`, `CanReportsAreReal`, `CanEnablesFromAnywhere`, `CanPdoNeverTorn`,
`CanMappingInForce` (a configuration that returned, not excused and clean, left exactly its
mapping in the drive). `CanCodecRoundTrip` is about pdo.py's codec: for any three entries of
one, two or four bytes with different names, signed or not, and any values in their range, decode
gives back what encode packed. The recursions are unrolled (`OffsetFacts`, `EncodeFacts`, `PartFacts`:
the function the recursion chooses exists, so it satisfies its equation), `BytesBack` is the
arithmetic of one number, and `PartsOfJoined` finds each entry in the payload. With the mapping in
force it gives `CanPdoDecodesAsConfigured`. The attempt to prove PdoNeverTorn found an error in the history of the
model: `excused` was cleared by any request to switch off, also by one that a timed-out
configuration had left behind; with longer queues than the run's (a bound of six) the PDO could
then be torn, and a power-up mapping of three entries hid it elsewhere. It is now cleared only by
the request the host waits for, and the power-up PDO maps the controlword alone. TLC found no
violation of `CanInv` on the bounds of the run or larger ones.

Only model-checked: liveness (QueuedIsDispatched, RequestServed, ArmedFires, MethodReturns,
CanMethodReturns, SessionMovesOn), which needs fairness and ENABLED. The codec is proved for
mappings of three entries, the length of both mappings of the model: for every length it would
take an induction.

## Not modelled, and why

* The PMSM plant: 32- and 64-bit fixed-point arithmetic, out of TLC's reach.
* Board tops, pin wiring, MCU references: configuration of hardware, no logic of their own.
* Argument parsing, printing, conversions of floating-point rates and times, the statistics
  of the offline analysis (`analyze_raw_capture`).
* The reset of the shared IEP counter by a PRU0 firmware load; listed as a hazard.
* `force_safe` of the BeagleBone backend asks PRU0 first and raises if that fails, so PRU1,
  which drives the outputs, is not told. The model has it (`Raised`); only the claim
  that a `force_safe` that returns was carried out is checked.
* That `read_pwm` returns one measurement, as one reads `docs/backend-contract.md:63` and
  `docs/zynq-axi-control-plane.md:35`. It does not, so no run claims it: `uio.py:193` reads
  sequence, PERIOD, HIGH and LOW one by one while the capture runs, without the second look that
  `read_timestamp` takes. With `{returned.period, returned.high, returned.low} =
  {returned.sequence}` as an invariant of `lab_bench` TLC shows it in 11 states: an edge between two reads,
  or a call between the falling and the rising edge of a cycle, when HIGH is already the next one's, gives
  words of two cycles under one sequence number.
* EtherCAT: the Python side starts an executable and parses its report, the C loops keep no
  state beyond one cycle and the vendor master's.
* Heartbeat waiting and EMCY decoding, the probes of `boards/raspberry_pi`, `clear_faults`.
* A watchdog of PRU1: there is none, although `docs/architecture.md:99` asks for one.

## Plan

Still to be modelled: the B0 loopback firmware with its watchdog and the IEP reset under a
running PRU1; the frame state machine of the sensor emulator with its master; the PWM, ABZ and
SSI generators looped back into their captures; trigger engine and fault injector; the DAC
streamer's state machine.
