------------------------ MODULE HilAxiEventPathProofs ------------------------
(***************************************************************************)
(* The scheduled-DIO path of the Zynq backends (host, AXI control plane,    *)
(* event FIFO, dispatcher and scheduler), for every FIFO depth, event       *)
(* alphabet and set of host operations: the two-clock handover of an event  *)
(* and the effect of FORCE_SAFE; and, for hosts that never release          *)
(* FORCE_SAFE on its own, that no event in flight is lost and that the path *)
(* implements DioEventService.                                              *)
(***************************************************************************)
EXTENDS HilAxiEventPath, HilEventQueueProofs, SequenceTheorems

(* EVT_PUSH follows EVT_STAGE: the push pulse never finds the reset value of *)
(* the stage registers.                                                      *)
StagedFirst ==
    /\ event_push_pulse \/ bus.reg = "EVT_PUSH" \/ (host = "push" /\ bus = NoWrite)
         => event_stage \in Event
    /\ host = "push" => bus = NoWrite \/ bus.reg = "EVT_STAGE"

(* The inductive invariant for any host. *)
PathInv == QueueInv /\ PathTypeOK /\ PopMatchesDispatch /\ ArmOnlyIdle /\ StagedFirst

(* The one-bit registers and wires of the path. *)
Bits == /\ cfg_hil_enable \in BOOLEAN /\ cfg_force_safe_sw \in BOOLEAN
        /\ cfg_abz_enable \in BOOLEAN /\ external_force_safe \in BOOLEAN
        /\ event_push_pulse \in BOOLEAN /\ dio_event_arm_pulse \in BOOLEAN
        /\ fifo_pop \in BOOLEAN /\ dispatch_inflight \in BOOLEAN
        /\ armed \in BOOLEAN /\ event_done_pulse \in BOOLEAN

(* PathTypeOK, register by register. *)
LEMMA TypeParts ==
    ASSUME PathTypeOK
    PROVE  /\ QueueTypeOK /\ Bits /\ timestamp \in 0..MaxTime
           /\ event_stage \in Event \cup {ZeroEvent} /\ dio_event \in Event \cup {ZeroEvent}
           /\ pending \in Event \cup {ZeroEvent}
           /\ dio_out \subseteq Line /\ host \in {"idle", "push"} /\ bus \in Writes
<1>1. Bits
  BY DEF PathTypeOK, Bits
<1> QED BY <1>1 DEF PathTypeOK

(* The events of the path, the reset value included. *)
LEMMA EventFields ==
    \A e \in Event \cup {ZeroEvent} :
       e.ts \in Nat /\ e.mask \subseteq Line /\ e.value \subseteq Line
BY EventAssumption DEF ZeroEvent

(* A write under way is one of four. *)
LEMMA WriteCases ==
    ASSUME NEW w \in Writes
    PROVE  \/ w = NoWrite /\ w.reg = "none"
           \/ /\ w.reg = "CONTROL" /\ w.hil \in BOOLEAN /\ w.safe \in BOOLEAN
              /\ w.abz \in BOOLEAN /\ w # NoWrite
           \/ w.reg = "EVT_STAGE" /\ w.e \in Event /\ w # NoWrite
           \/ w.reg = "EVT_PUSH" /\ w # NoWrite
BY DEF Writes, NoWrite, Control

(* What a clock serves to the FIFO: a clear during FORCE_SAFE, else the staged *)
(* event of a push pulse and the registered pop.                               *)
LEMMA ClockQueue ==
    ASSUME PathInv, NEW commit \in BOOLEAN, Clock(commit)
    PROVE  /\ cfg_force_safe => QueueClear(TRUE)
           /\ ~cfg_force_safe =>
                \E e \in Event : QueueServe(FALSE, event_push_pulse, e, fifo_pop)
           /\ QueueNext
<1>1. Bits /\ QueueTypeOK
  BY TypeParts DEF PathInv
<1>2. cfg_force_safe \in BOOLEAN /\ event_push_pulse \in BOOLEAN /\ fifo_pop \in BOOLEAN
  BY <1>1 DEF Bits, cfg_force_safe
<1>3. QueueClock(cfg_force_safe, cfg_force_safe, event_push_pulse, event_stage, fifo_pop)
  BY DEF Clock, FifoClock
<1>4. CASE cfg_force_safe
  <2>1. QueueClear(TRUE)
    BY <1>3, <1>4, <1>2 DEF QueueClock, QueueClear, LatchClock
  <2>2. QueueNext
    BY <2>1 DEF QueueNext, QueueReset
  <2> QED BY <1>4, <2>1, <2>2
<1>5. CASE ~cfg_force_safe
  <2>1. QueueServe(FALSE, event_push_pulse, event_stage, fifo_pop)
    BY <1>2, <1>3, <1>5 DEF QueueClock, QueueServe, LatchClock
  <2>2. PICK e \in Event : event_push_pulse => e = event_stage
    <3>1. CASE event_push_pulse
      BY <3>1 DEF PathInv, StagedFirst
    <3>2. CASE ~event_push_pulse
      <4>1. mem[read_ptr] \in Event
        BY <1>1 DEF QueueTypeOK
      <4> QED BY <3>2, <4>1
    <3> QED BY <3>1, <3>2
  <2>3. QueueServe(FALSE, event_push_pulse, e, fifo_pop)
    BY <2>1, <2>2 DEF QueueServe, WriteSide, NextCount, NextLast, accept_push,
                      LatchClock
  <2>4. QueueNext
    BY <1>2, <2>3 DEF QueueNext, QueueClock
  <2> QED BY <1>5, <2>3, <2>4
<1> QED BY <1>4, <1>5

(* A clock leaves the host alone and delivers the write under way or not.     *)
LEMMA ClockWrite ==
    ASSUME PathInv, NEW commit \in BOOLEAN, Clock(commit)
    PROVE  /\ host' = host /\ external_force_safe' = external_force_safe
           /\ StagedFirst'
           /\ bus' \in Writes /\ event_stage' \in Event \cup {ZeroEvent}
           /\ event_push_pulse' \in BOOLEAN /\ cfg_hil_enable' \in BOOLEAN
           /\ cfg_force_safe_sw' \in BOOLEAN /\ cfg_abz_enable' \in BOOLEAN
<1>1. /\ Bits /\ bus \in Writes /\ event_stage \in Event \cup {ZeroEvent}
      /\ host \in {"idle", "push"}
  BY TypeParts DEF PathInv
<1>2. PICK w : w = IF commit THEN bus ELSE NoWrite
  OBVIOUS
<1>3. /\ RegisterClock(w) /\ bus' = (IF commit THEN NoWrite ELSE bus)
      /\ host' = host /\ external_force_safe' = external_force_safe
      /\ commit => bus # NoWrite
  BY <1>2 DEF Clock
<1>4. w \in Writes /\ NoWrite \in Writes
  BY <1>1, <1>2 DEF Writes
<1>5. CASE w.reg = "CONTROL"
  <2>1. w.hil \in BOOLEAN /\ w.safe \in BOOLEAN /\ w.abz \in BOOLEAN /\ w = bus /\ commit
    BY <1>2, <1>4, <1>5, WriteCases DEF NoWrite
  <2>2. /\ cfg_hil_enable' = w.hil /\ cfg_force_safe_sw' = w.safe /\ cfg_abz_enable' = w.abz
        /\ event_stage' = event_stage /\ event_push_pulse' = FALSE
    BY <1>3, <1>5 DEF RegisterClock
  <2>3. bus' = NoWrite /\ bus'.reg = "none" /\ host = "idle"
    BY <1>1, <1>3, <1>4, <1>5, <2>1, WriteCases DEF PathInv, StagedFirst, NoWrite
  <2> QED BY <1>1, <1>3, <1>4, <2>1, <2>2, <2>3 DEF StagedFirst
<1>6. CASE w.reg # "CONTROL"
  <2>1. UNCHANGED <<cfg_hil_enable, cfg_force_safe_sw, cfg_abz_enable>>
    BY <1>3, <1>6 DEF RegisterClock
  <2>2. CASE w.reg = "EVT_STAGE"
    <3>1. event_stage' \in Event /\ event_push_pulse' = FALSE
      BY <1>3, <1>4, <2>2, WriteCases DEF RegisterClock, NoWrite
    <3>2. bus' = NoWrite /\ bus'.reg = "none"
      BY <1>2, <1>3, <2>2 DEF NoWrite
    <3> QED BY <1>1, <1>3, <1>4, <2>1, <3>1, <3>2 DEF StagedFirst, Bits
  <2>3. CASE w.reg = "EVT_PUSH"
    <3>1. event_stage' = event_stage /\ event_push_pulse' = TRUE /\ w = bus /\ commit
      BY <1>2, <1>3, <2>3 DEF RegisterClock, NoWrite
    <3>2. bus' = NoWrite /\ bus'.reg = "none" /\ event_stage \in Event
      BY <1>3, <2>3, <3>1 DEF NoWrite, PathInv, StagedFirst
    <3> QED BY <1>1, <1>3, <1>4, <2>1, <3>1, <3>2 DEF StagedFirst, Bits
  <2>4. CASE w = NoWrite
    <3>1. event_stage' = event_stage /\ event_push_pulse' = FALSE /\ bus' = bus
      <4>1. ~commit
        BY <1>2, <1>3, <2>4
      <4> QED BY <1>3, <2>4, <4>1 DEF RegisterClock, NoWrite
    <3> QED BY <1>1, <1>3, <2>1, <3>1 DEF PathInv, StagedFirst, Bits
  <2> QED BY <1>4, <1>6, <2>2, <2>3, <2>4, WriteCases
<1> QED BY <1>5, <1>6

(* A clock that pops nothing keeps the head of a FIFO that is not empty.       *)
LEMMA HeadStays ==
    ASSUME QueueTypeOK, PointersAgree, ~empty,
           NEW clear_errors \in BOOLEAN, NEW push \in BOOLEAN, NEW pop \in BOOLEAN,
           NEW e \in Event, QueueServe(clear_errors, push, e, pop), ~pop
    PROVE  ~empty' /\ head' = head
<1>1. PICK put : put = IF accept_push(push, e) THEN 1 ELSE 0
  OBVIOUS
<1>2. PICK get : get = IF accept_pop(pop) THEN 1 ELSE 0
  OBVIOUS
<1>3. get = 0
  BY <1>2 DEF accept_pop
<1>4. /\ put \in 0..1 /\ count' = count - get + put
      /\ read_ptr' = After(read_ptr, get)
      /\ \A i \in 1..(count - get) :
            mem'[After(read_ptr', i - 1)] = mem[After(read_ptr, i + get - 1)]
  BY <1>1, <1>2, ServeContents
<1>5. count \in 1..DEPTH /\ read_ptr \in Slots /\ After(read_ptr, 0) = read_ptr
  BY DepthAssumption DEF QueueTypeOK, empty, After, Slots
<1>6. 1 \in 1..(count - get) /\ 1 - 1 = 0 /\ 1 + get - 1 = 0 /\ read_ptr' = read_ptr
  BY <1>3, <1>4, <1>5, DepthAssumption
<1>7. mem'[After(read_ptr', 1 - 1)] = mem[After(read_ptr, 1 + get - 1)]
  BY <1>4, <1>6
<1>8. mem'[read_ptr'] = mem[read_ptr]
  BY <1>5, <1>6, <1>7
<1>9. count' # 0
  BY <1>3, <1>4, <1>5
<1> QED BY <1>8, <1>9 DEF empty, head

(* The dispatcher and the scheduler over one clock.                           *)
LEMMA ClockHandover ==
    ASSUME PathInv, NEW commit \in BOOLEAN, Clock(commit)
    PROVE  /\ PopMatchesDispatch' /\ ArmOnlyIdle'
           /\ dio_event' \in Event \cup {ZeroEvent} /\ pending' \in Event \cup {ZeroEvent}
           /\ dio_out' \subseteq Line
           /\ dio_event_arm_pulse' \in BOOLEAN /\ fifo_pop' \in BOOLEAN
           /\ dispatch_inflight' \in BOOLEAN /\ armed' \in BOOLEAN
           /\ event_done_pulse' \in BOOLEAN
<1>1. /\ Bits /\ QueueTypeOK /\ dio_event \in Event \cup {ZeroEvent}
      /\ pending \in Event \cup {ZeroEvent} /\ dio_out \subseteq Line
  BY TypeParts DEF PathInv
<1>2. DispatchClock /\ SchedulerClock
  BY DEF Clock
<1>3. /\ fifo_pop' = can_dispatch /\ dio_event_arm_pulse' = can_dispatch
      /\ dispatch_inflight' = next_inflight
      /\ dio_event' = IF can_dispatch THEN head ELSE dio_event
  BY <1>2 DEF DispatchClock
<1>4. can_dispatch \in BOOLEAN /\ next_inflight \in BOOLEAN /\ event_due \in BOOLEAN
  BY DEF can_dispatch, next_inflight, event_due
<1>5. /\ armed' \in BOOLEAN /\ event_done_pulse' \in BOOLEAN
      /\ dio_out' \subseteq Line /\ pending' \in Event \cup {ZeroEvent}
  <2>1. CASE SchedulerSafe
    BY <1>1, <2>1 DEF SchedulerSafe
  <2>2. CASE SchedulerRun
    <3>1. armed' \in BOOLEAN /\ event_done_pulse' \in BOOLEAN
      BY <1>4, <2>2 DEF SchedulerRun
    <3>2. pending.mask \subseteq Line /\ pending.value \subseteq Line
      BY <1>1, EventFields
    <3> QED BY <1>1, <2>2, <3>1, <3>2 DEF SchedulerRun
  <2> QED BY <1>2, <2>1, <2>2 DEF SchedulerClock
<1>6. head \in Event
  BY <1>1 DEF head, QueueTypeOK
<1>7. PopMatchesDispatch'
  <2>1. CASE ~can_dispatch
    BY <1>3, <2>1 DEF PopMatchesDispatch
  <2>2. CASE can_dispatch
    <3>1. ~cfg_force_safe /\ ~dispatch_inflight /\ ~empty /\ ~fifo_pop
      BY <2>2 DEF can_dispatch, PathInv, PopMatchesDispatch, ArmOnlyIdle
    <3>2. PICK e \in Event : QueueServe(FALSE, event_push_pulse, e, fifo_pop)
      BY <3>1, ClockQueue
    <3>3. QueueTypeOK /\ PointersAgree /\ event_push_pulse \in BOOLEAN /\ fifo_pop \in BOOLEAN
      BY <1>1, <3>1 DEF PathInv, QueueInv, Bits
    <3>4. ~empty' /\ head' = head
      BY <3>1, <3>2, <3>3, HeadStays
    <3> QED BY <1>3, <2>2, <3>4 DEF PopMatchesDispatch
  <2> QED BY <2>1, <2>2
<1>8. ArmOnlyIdle'
  <2> SUFFICES ASSUME can_dispatch
               PROVE  ~armed' /\ ~event_done_pulse' /\ dispatch_inflight'
    BY <1>3 DEF ArmOnlyIdle
  <2>1. ~cfg_force_safe /\ ~dispatch_inflight /\ ~armed /\ ~dio_event_arm_pulse
    BY DEF can_dispatch, PathInv, ArmOnlyIdle
  <2>2. dispatch_inflight'
    BY <1>3, <2>1 DEF next_inflight
  <2>3. ~armed' /\ ~event_done_pulse'
    BY <1>2, <2>1 DEF SchedulerClock, SchedulerSafe, SchedulerRun, event_due
  <2> QED BY <2>2, <2>3
<1>9. dio_event' \in Event \cup {ZeroEvent}
  BY <1>1, <1>3, <1>6
<1> QED BY <1>3, <1>4, <1>5, <1>7, <1>8, <1>9

(* The writes a host may have under way are writes of the control plane.      *)
LEMMA ControlWriteType ==
    ASSUME PathInv, NEW op \in AllHostOps \ {"schedule_dio"}
    PROVE  ControlWrite(op) \in Control
<1>1. ControlRead \in Control
  BY TypeParts DEF PathInv, Bits, ControlRead, Control, cfg_force_safe
<1>2. ForceSafeWrite(TRUE) \in Control /\ ForceSafeWrite(FALSE) \in Control
  BY <1>1 DEF ForceSafeWrite, Control
<1>3. StartAbzWrite \in Control /\ StopAbzWrite \in Control
  BY <1>1 DEF StartAbzWrite, StopAbzWrite, Control
<1> QED BY <1>1, <1>2, <1>3 DEF ControlWrite, AllHostOps

(* PathInv is inductive, whatever the host does.                              *)
LEMMA PathInvInductive == PathInv /\ [PathNext]_pvars => PathInv'
<1> SUFFICES ASSUME PathInv, [PathNext]_pvars PROVE PathInv'
  OBVIOUS
<1>0. /\ QueueInv /\ QueueTypeOK /\ Bits /\ timestamp \in 0..MaxTime
      /\ event_stage \in Event \cup {ZeroEvent} /\ dio_event \in Event \cup {ZeroEvent}
      /\ pending \in Event \cup {ZeroEvent}
      /\ dio_out \subseteq Line /\ host \in {"idle", "push"} /\ bus \in Writes
  BY TypeParts DEF PathInv
<1>1. ASSUME NEW commit \in BOOLEAN, Clock(commit) PROVE PathInv'
  <2>1. QueueInv' /\ QueueTypeOK'
    <3>1. QueueInv'
      BY <1>0, <1>1, ClockQueue, QueueInvInductive
    <3> QED BY <3>1 DEF QueueInv
  <2>2. timestamp' \in 0..MaxTime
    BY <1>0, <1>1, PathAssumption DEF Clock, TimeClock
  <2>3. /\ PopMatchesDispatch' /\ ArmOnlyIdle'
        /\ dio_event' \in Event \cup {ZeroEvent} /\ pending' \in Event \cup {ZeroEvent}
        /\ dio_out' \subseteq Line
        /\ dio_event_arm_pulse' \in BOOLEAN /\ fifo_pop' \in BOOLEAN
        /\ dispatch_inflight' \in BOOLEAN /\ armed' \in BOOLEAN
        /\ event_done_pulse' \in BOOLEAN
    BY <1>1, ClockHandover
  <2>4. /\ host' = host /\ external_force_safe' = external_force_safe
        /\ StagedFirst'
        /\ bus' \in Writes /\ event_stage' \in Event \cup {ZeroEvent}
        /\ event_push_pulse' \in BOOLEAN /\ cfg_hil_enable' \in BOOLEAN
        /\ cfg_force_safe_sw' \in BOOLEAN /\ cfg_abz_enable' \in BOOLEAN
    BY <1>1, ClockWrite
  <2>5. host' \in {"idle", "push"} /\ external_force_safe' \in BOOLEAN
    BY <1>0, <2>4 DEF Bits
  <2>6. PathTypeOK'
    BY <2>1, <2>2, <2>3, <2>4, <2>5 DEF PathTypeOK
  <2> QED BY <2>1, <2>3, <2>4, <2>6 DEF PathInv
<1>2. ASSUME UNCHANGED <<qvars, timestamp, ctrlvars, dispvars, schedvars>>,
             external_force_safe' \in BOOLEAN, host' \in {"idle", "push"},
             bus' \in Writes, StagedFirst'
      PROVE  PathInv'
  <2>1. QueueInv'
    BY <1>0, <1>2, QueueInvInductive
  <2>2. QueueTypeOK' /\ PopMatchesDispatch' /\ ArmOnlyIdle'
    BY <1>2, <2>1 DEF QueueInv, PathInv, PopMatchesDispatch, ArmOnlyIdle, empty, head,
       qvars, ringvars, dispvars, schedvars
  <2>3. UNCHANGED <<timestamp, cfg_hil_enable, cfg_force_safe_sw, cfg_abz_enable,
                    event_stage, event_push_pulse, dio_event, dio_event_arm_pulse,
                    fifo_pop, dispatch_inflight, armed, pending, dio_out,
                    event_done_pulse>>
    BY <1>2 DEF ctrlvars, dispvars, schedvars
  <2>4. PathTypeOK'
    BY <1>0, <1>2, <2>2, <2>3 DEF PathTypeOK, Bits
  <2> QED BY <1>2, <2>1, <2>2, <2>4 DEF PathInv
<1>3. ASSUME NEW op \in AllHostOps \ {"schedule_dio"}, HostControl(op) PROVE PathInv'
  <2>1. bus' \in Control /\ host' = host /\ host = "idle"
           /\ UNCHANGED <<qvars, timestamp, ctrlvars, external_force_safe, dispvars, schedvars>>
    BY <1>3, ControlWriteType DEF HostControl
  <2>2. bus' \in Writes /\ bus'.reg = "CONTROL"
    BY <2>1 DEF Writes, Control
  <2>3. StagedFirst'
    BY <2>1, <2>2 DEF PathInv, StagedFirst, ctrlvars
  <2> QED BY <1>0, <1>2, <2>1, <2>2, <2>3 DEF Bits
<1>4. ASSUME NEW e \in Event, HostStage(e) PROVE PathInv'
  <2>1. /\ bus' = [reg |-> "EVT_STAGE", e |-> e] /\ host' = "push"
        /\ UNCHANGED <<qvars, timestamp, ctrlvars, external_force_safe, dispvars, schedvars>>
    BY <1>4 DEF HostStage
  <2>2. bus' \in Writes /\ bus'.reg = "EVT_STAGE" /\ bus' # NoWrite
    BY <2>1 DEF Writes, NoWrite
  <2>3. StagedFirst'
    BY <2>1, <2>2 DEF PathInv, StagedFirst, ctrlvars
  <2> QED BY <1>0, <1>2, <2>1, <2>2, <2>3 DEF Bits
<1>5. CASE HostPush
  <2>1. /\ host = "push" /\ bus = NoWrite
        /\ bus' = [reg |-> "EVT_PUSH"] /\ host' = "idle"
        /\ UNCHANGED <<qvars, timestamp, ctrlvars, external_force_safe, dispvars, schedvars>>
    BY <1>5 DEF HostPush
  <2>2. bus' \in Writes
    BY <2>1 DEF Writes
  <2>3. StagedFirst'
    BY <2>1 DEF PathInv, StagedFirst, ctrlvars
  <2> QED BY <1>0, <1>2, <2>1, <2>2, <2>3 DEF Bits
<1>6. CASE ExternalSafe
  BY <1>0, <1>2, <1>6 DEF ExternalSafe, hostvars, ctrlvars, Bits, PathInv, StagedFirst
<1>7. CASE UNCHANGED pvars
  BY <1>0, <1>2, <1>7 DEF pvars, hostvars, ctrlvars, Bits, PathInv, StagedFirst
<1>8. \A op \in HostOps \ {"schedule_dio"} : op \in AllHostOps \ {"schedule_dio"}
  BY PathAssumption
<1> QED BY <1>1, <1>3, <1>4, <1>5, <1>6, <1>7, <1>8 DEF PathNext

(* The path starts in PathInv: nothing staged, queued, in flight or armed.    *)
LEMMA PathInitInv == PathInit => PathInv
<1> SUFFICES ASSUME PathInit PROVE PathInv
  OBVIOUS
<1>1. QueueInv /\ QueueTypeOK
  BY QueueInitInv DEF PathInit, QueueInv
<1>2. NoWrite \in Writes /\ NoWrite.reg = "none"
  BY DEF Writes, NoWrite
<1>3. Bits
  BY DEF PathInit, Bits
<1>4. PathTypeOK
  BY <1>1, <1>2, <1>3, PathAssumption DEF PathInit, PathTypeOK, Bits
<1>5. PopMatchesDispatch /\ ArmOnlyIdle /\ StagedFirst
  BY <1>2 DEF PathInit, PopMatchesDispatch, ArmOnlyIdle, StagedFirst
<1> QED BY <1>1, <1>4, <1>5 DEF PathInv

LEMMA PathAlways == PathSpec => []PathInv
BY PathInitInv, PathInvInductive, PTL DEF PathSpec

(* For any host, whatever it writes and whenever the writes commit: the head  *)
(* that the registered pop removes is the event handed to the scheduler one   *)
(* clock earlier, and an event is handed over only to an idle scheduler. So   *)
(* no event is skipped, dispatched twice or overwritten.                      *)
THEOREM PathHandsOverOnce ==
    PathSpec => [](QueueInv /\ PathTypeOK /\ PopMatchesDispatch /\ ArmOnlyIdle)
<1>1. PathInv => QueueInv /\ PathTypeOK /\ PopMatchesDispatch /\ ArmOnlyIdle
  BY DEF PathInv
<1> QED BY <1>1, PathAlways, PTL

(* One clock of FORCE_SAFE, software or external, empties FIFO, dispatcher    *)
(* and scheduler and drives every line low, for any host.                     *)
THEOREM PathSafeEmptiesPipeline == PathSpec => SafeEmptiesPipeline
<1> DEFINE Emptied == /\ count' = 0 /\ ~dispatch_inflight' /\ ~armed'
                      /\ ~dio_event_arm_pulse' /\ dio_out' = {}
           Step == Clock(TRUE) \/ Clock(FALSE) => (cfg_force_safe => Emptied)
<1>1. PathInv => Step
  <2> SUFFICES ASSUME PathInv, NEW commit \in BOOLEAN, Clock(commit), cfg_force_safe
               PROVE  Emptied
    OBVIOUS
  <2>1. count' = 0
    BY ClockQueue DEF QueueClear
  <2>2. ~dispatch_inflight' /\ ~dio_event_arm_pulse'
    BY DEF Clock, DispatchClock, next_inflight, can_dispatch
  <2>3. ~armed' /\ dio_out' = {}
    BY DEF Clock, SchedulerClock, SchedulerSafe, hil_active
  <2> QED BY <2>1, <2>2, <2>3
<1>2. PathInv => [Step]_pvars
  BY <1>1
<1> QED BY <1>2, PathAlways, PTL DEF SafeEmptiesPipeline
------------------------------------------------------------------------------
(* A host that never calls force_safe(False) releases FORCE_SAFE only in the  *)
(* write that sets CONTROL.HIL_ENABLE (start_abz): with FORCE_SAFE released,  *)
(* the HIL is enabled, in the register and in any write under way.            *)
EnabledWhenReleased ==
    /\ ~cfg_force_safe_sw => cfg_hil_enable
    /\ bus.reg = "CONTROL" => bus.safe \/ bus.hil

(* Without such a call no CONTROL write releases FORCE_SAFE alone.            *)
LEMMA ControlWriteEnables ==
    ASSUME PathInv, EnabledWhenReleased,
           NEW op \in AllHostOps \ {"schedule_dio", "force_safe_off"}
    PROVE  ControlWrite(op).safe \/ ControlWrite(op).hil
<1>1. ControlRead.safe \/ ControlRead.hil
  BY DEF EnabledWhenReleased, ControlRead, cfg_force_safe
<1>2. ForceSafeWrite(TRUE).safe
  BY DEF ForceSafeWrite, ControlRead
<1>3. StartAbzWrite.hil /\ (StopAbzWrite.safe \/ StopAbzWrite.hil)
  BY <1>1 DEF StartAbzWrite, StopAbzWrite, ControlRead
<1> QED BY <1>1, <1>2, <1>3 DEF ControlWrite, AllHostOps

(* The inductive invariant for such a host.                                   *)
EnabledInv == EnabledWhenReleased /\ InflightAccounted

LEMMA EnabledInvInductive ==
    ASSUME "force_safe_off" \notin HostOps
    PROVE  PathInv /\ EnabledInv /\ [PathNext]_pvars => EnabledInv'
<1> SUFFICES ASSUME PathInv, EnabledInv, [PathNext]_pvars PROVE EnabledInv'
  OBVIOUS
<1>1. ASSUME NEW commit \in BOOLEAN, Clock(commit) PROVE EnabledInv'
  <2>1. Bits /\ bus \in Writes
    BY TypeParts DEF PathInv
  <2>2. PICK w : w = IF commit THEN bus ELSE NoWrite
    OBVIOUS
  <2>3. /\ RegisterClock(w) /\ bus' = (IF commit THEN NoWrite ELSE bus)
        /\ dispatch_inflight' = next_inflight /\ dio_event_arm_pulse' = can_dispatch
        /\ SchedulerClock
    BY <1>1, <2>2 DEF Clock, DispatchClock
  <2>4. w.reg = "CONTROL" => w.safe \/ w.hil
    BY <2>2 DEF NoWrite, EnabledInv, EnabledWhenReleased
  <2>5. ~cfg_force_safe_sw' => cfg_hil_enable'
    BY <2>3, <2>4 DEF RegisterClock, EnabledInv, EnabledWhenReleased
  <2>6. bus'.reg = "CONTROL" => bus'.safe \/ bus'.hil
    BY <2>3 DEF NoWrite, EnabledInv, EnabledWhenReleased
  <2>7. InflightAccounted'
    <3> SUFFICES ASSUME next_inflight, ~can_dispatch PROVE armed'
      BY <2>3 DEF InflightAccounted
    <3>1. ~cfg_force_safe /\ dispatch_inflight /\ ~armed /\ ~event_done_pulse
      BY DEF next_inflight
    <3>2. dio_event_arm_pulse /\ hil_active
      BY <3>1 DEF EnabledInv, InflightAccounted, EnabledWhenReleased, cfg_force_safe, hil_active
    <3> QED BY <2>3, <3>1, <3>2 DEF SchedulerClock, SchedulerRun, event_due
  <2> QED BY <2>5, <2>6, <2>7 DEF EnabledInv, EnabledWhenReleased
<1>2. ASSUME UNCHANGED <<ctrlvars, dispvars, schedvars>>,
             bus'.reg = "CONTROL" => bus'.safe \/ bus'.hil
      PROVE  EnabledInv'
  BY <1>2 DEF ctrlvars, dispvars, schedvars, EnabledInv, EnabledWhenReleased, InflightAccounted
<1>3. ASSUME NEW op \in HostOps \ {"schedule_dio"}, HostControl(op) PROVE EnabledInv'
  <2>1. op \in AllHostOps \ {"schedule_dio", "force_safe_off"}
    BY PathAssumption
  <2>2. bus'.safe \/ bus'.hil
    BY <1>3, <2>1, ControlWriteEnables DEF HostControl, EnabledInv
  <2> QED BY <1>2, <1>3, <2>2 DEF HostControl
<1>4. ASSUME NEW e \in Event, HostStage(e) PROVE EnabledInv'
  BY <1>2, <1>4 DEF HostStage
<1>5. CASE HostPush
  BY <1>2, <1>5 DEF HostPush
<1>6. CASE ExternalSafe
  BY <1>2, <1>6 DEF ExternalSafe, hostvars, EnabledInv, EnabledWhenReleased
<1>7. CASE UNCHANGED pvars
  BY <1>2, <1>7 DEF pvars, hostvars, EnabledInv, EnabledWhenReleased
<1> QED BY <1>1, <1>3, <1>4, <1>5, <1>6, <1>7 DEF PathNext

LEMMA EnabledAlways ==
    ASSUME "force_safe_off" \notin HostOps
    PROVE  PathSpec => []EnabledInv
<1>1. PathInit => EnabledInv
  BY DEF PathInit, NoWrite, EnabledInv, EnabledWhenReleased, InflightAccounted
<1>2. PathInv /\ EnabledInv /\ [PathNext]_pvars => EnabledInv'
  BY EnabledInvInductive
<1> QED BY <1>1, <1>2, PathAlways, PTL DEF PathSpec

(* With a host that enables the HIL when it releases FORCE_SAFE, the whole    *)
(* handover is sound: besides, no event in flight is lost, so the dispatcher  *)
(* never waits for one that is gone.                                          *)
THEOREM PathHandoverSound ==
    ASSUME "force_safe_off" \notin HostOps
    PROVE  PathSpec => []HandoverSound
<1>1. PathInv /\ EnabledInv => HandoverSound
  BY DEF PathInv, EnabledInv, HandoverSound
<1> QED BY <1>1, PathAlways, EnabledAlways, PTL
------------------------------------------------------------------------------
(* A sequence with one element in front, as armed event and FIFO are.         *)
LEMMA InFront ==
    ASSUME NEW S, NEW x \in S, NEW c \in Seq(S), NEW a \in Seq(S)
    PROVE  /\ <<x>> \o c # <<>> /\ Head(<<x>> \o c) = x /\ Tail(<<x>> \o c) = c
           /\ (<<x>> \o c) \o a = <<x>> \o (c \o a)
           /\ <<>> \o c = c
<1>1. <<x>> \in Seq(S)
  OBVIOUS
<1>2. (<<x>> \o c) \o a = <<x>> \o (c \o a)
  BY <1>1, ConcatAssociative
<1>3. <<>> \o c = c
  BY ConcatEmptySeq
<1>4. <<x>> \o c # <<>> /\ Head(<<x>> \o c) = x
  BY <1>1
<1>5. Tail(<<x>> \o c) = c
  BY <1>1
<1> QED BY <1>2, <1>3, <1>4, <1>5

(* A sequence is its head in front of its tail. *)
LEMMA HeadInFront ==
    ASSUME NEW S, NEW c \in Seq(S), c # <<>>
    PROVE  <<Head(c)>> \o Tail(c) = c
OBVIOUS

(* The clocks of the path, as steps of the service of DioEventService.        *)
LEMMA PathStepServes ==
    PathInv /\ EnabledInv /\ [PathNext]_pvars => [Service!ServiceNext]_(Service!svars)
<1> SUFFICES ASSUME PathInv, EnabledInv, [PathNext]_pvars
             PROVE  [Service!ServiceNext]_(Service!svars)
  OBVIOUS
<1>1. ASSUME NEW commit \in BOOLEAN, Clock(commit) PROVE Service!ServiceNext
  <2>1. /\ Bits /\ QueueInv /\ QueueTypeOK /\ timestamp \in 0..MaxTime
        /\ pending \in Event \cup {ZeroEvent}
    BY TypeParts DEF PathInv
  <2>2. timestamp' >= timestamp
    BY <1>1, <2>1, PathAssumption DEF Clock, TimeClock
  <2>3. CASE cfg_force_safe
    <3>1. contents' = <<>>
      <4>1. QueueClear(TRUE)
        BY <1>1, <2>3, ClockQueue
      <4> QED BY <4>1 DEF QueueClear, contents
    <3>2. armed' = FALSE /\ dio_out' = {}
      BY <1>1, <2>3 DEF Clock, SchedulerClock, SchedulerSafe, hil_active
    <3>3. outstanding' = <<>>
      BY <3>1, <3>2 DEF outstanding
    <3>4. Service!GoSafe
      BY <2>2, <3>2, <3>3 DEF Service!GoSafe
    <3> QED BY <3>4 DEF Service!ServiceNext
  <2>4. CASE ~cfg_force_safe
    <3> DEFINE All == Event \cup {ZeroEvent}
    <3>1. SchedulerRun
      <4>1. hil_active
        BY <2>4 DEF EnabledInv, EnabledWhenReleased, cfg_force_safe, hil_active
      <4> QED BY <1>1, <4>1 DEF Clock, SchedulerClock
    <3>2. PICK a \in Service!Arrivals :
             contents' = (IF accept_pop(fifo_pop) THEN Tail(contents) ELSE contents) \o a
      <4>1. event_push_pulse \in BOOLEAN /\ fifo_pop \in BOOLEAN
        BY <2>1 DEF Bits
      <4>2. PICK e \in Event : QueueServe(FALSE, event_push_pulse, e, fifo_pop)
        BY <1>1, <2>4, ClockQueue
      <4> QED BY <2>1, <4>1, <4>2, ServeAppends DEF Service!Arrivals
    <3>3. contents \in Seq(All) /\ a \in Seq(All)
      <4>1. contents \in Seq(Event)
        BY <2>1, ContentsFacts
      <4>2. a \in Seq(Event)
        <5>1. a = <<>> \/ \E e \in Event : a = <<e>>
          BY DEF Service!Arrivals
        <5>2. CASE a = <<>>
          BY <5>2
        <5>3. CASE \E e \in Event : a = <<e>>
          BY <5>3
        <5> QED BY <5>1, <5>2, <5>3
      <4> QED BY <4>1, <4>2, SeqMonotonic
    <3>4. CASE fifo_pop
      <4>1. ~empty /\ head = dio_event /\ dio_event_arm_pulse /\ ~armed
        BY <3>4 DEF PathInv, PopMatchesDispatch, ArmOnlyIdle
      <4>2. armed' /\ pending' = head /\ dio_out' = dio_out
        BY <3>1, <4>1 DEF SchedulerRun, event_due
      <4>3. contents # <<>> /\ Head(contents) = head
        <5>1. contents \in Seq(Event) /\ Len(contents) = count /\ \A i \in 1..count : contents[i] = Nth(i)
          BY <2>1, ContentsFacts
        <5>2. count >= 1 /\ Nth(1) = head
          <6>1. count >= 1 /\ After(read_ptr, 1 - 1) = read_ptr
            BY <2>1, <4>1, DepthAssumption DEF QueueTypeOK, empty, After, Slots
          <6> QED BY <6>1 DEF Nth, head
        <5> QED BY <2>1, <5>1, <5>2 DEF QueueTypeOK
      <4>4. outstanding = contents
        BY <3>3, <4>1, ConcatEmptySeq DEF outstanding
      <4>5. outstanding' = <<head>> \o (Tail(contents) \o a)
        BY <3>2, <3>4, <4>1, <4>2 DEF outstanding, accept_pop
      <4>6. outstanding' = contents \o a
        <5>1. Tail(contents) \in Seq(All) /\ head \in All
          BY <3>3, <4>3, ElementOfSeq
        <5>2. <<head>> \o (Tail(contents) \o a) = (<<head>> \o Tail(contents)) \o a
          BY <3>3, <5>1, InFront
        <5>3. <<head>> \o Tail(contents) = contents
          BY <3>3, <4>3, HeadInFront
        <5> QED BY <4>5, <5>2, <5>3
      <4>7. Service!Accept
        BY <2>2, <4>2, <4>4, <4>6 DEF Service!Accept
      <4> QED BY <4>7 DEF Service!ServiceNext
    <3>5. CASE ~fifo_pop
      <4>1. contents' = contents \o a /\ contents \in Seq(All) /\ a \in Seq(All)
        BY <3>2, <3>3, <3>5 DEF accept_pop
      <4>2. ~dio_event_arm_pulse
        BY <3>5 DEF PathInv, PopMatchesDispatch
      <4>3. contents \o a \in Seq(All)
        BY <4>1
      <4>4. CASE event_due
        <5>1. /\ armed /\ ~armed' /\ pending.ts <= timestamp
              /\ dio_out' = (dio_out \ pending.mask) \cup (pending.value \cap pending.mask)
          <6>1. armed /\ timestamp >= pending.ts
            BY <4>4 DEF event_due
          <6>2. pending.ts \in Nat /\ timestamp \in Nat
            BY <2>1, EventFields, PathAssumption
          <6> QED BY <3>1, <4>4, <6>1, <6>2 DEF SchedulerRun
        <5>2. outstanding = <<pending>> \o contents /\ outstanding' = <<>> \o (contents \o a)
          BY <4>1, <5>1 DEF outstanding
        <5>3. /\ outstanding # <<>> /\ Head(outstanding) = pending
              /\ Tail(outstanding) = contents /\ outstanding' = contents \o a
          BY <2>1, <4>1, <4>3, <5>2, InFront, ConcatEmptySeq
        <5>4. Service!Apply
          BY <2>2, <5>1, <5>3 DEF Service!Apply
        <5> QED BY <5>4 DEF Service!ServiceNext
      <4>5. CASE ~event_due
        <5>1. (armed' <=> armed) /\ pending' = pending /\ dio_out' = dio_out
          BY <3>1, <4>2, <4>5 DEF SchedulerRun
        <5>2. outstanding' = outstanding \o a
          <6>1. CASE armed
            <7>1. outstanding = <<pending>> \o contents
                  /\ outstanding' = <<pending>> \o (contents \o a)
              BY <4>1, <5>1, <6>1 DEF outstanding
            <7>2. (<<pending>> \o contents) \o a = <<pending>> \o (contents \o a)
              BY <2>1, <3>3, InFront
            <7> QED BY <7>1, <7>2
          <6>2. CASE ~armed
            <7>1. outstanding = <<>> \o contents /\ outstanding' = <<>> \o (contents \o a)
              BY <4>1, <5>1, <6>2 DEF outstanding
            <7> QED BY <4>1, <4>3, <7>1, ConcatEmptySeq
          <6> QED BY <6>1, <6>2
        <5>3. Service!Accept
          BY <2>2, <5>1, <5>2 DEF Service!Accept
        <5> QED BY <5>3 DEF Service!ServiceNext
      <4> QED BY <4>4, <4>5
    <3> QED BY <3>4, <3>5
  <2> QED BY <2>3, <2>4
<1>2. ASSUME UNCHANGED <<qvars, timestamp, schedvars>> PROVE UNCHANGED Service!svars
  BY <1>2 DEF qvars, ringvars, schedvars, Service!svars, outstanding, contents, Nth
<1>3. CASE UNCHANGED pvars
  BY <1>2, <1>3 DEF pvars
<1>4. ASSUME HostPush \/ ExternalSafe \/ (\E op : HostControl(op)) \/ (\E e : HostStage(e))
      PROVE  UNCHANGED Service!svars
  BY <1>2, <1>4 DEF HostPush, ExternalSafe, HostControl, HostStage
<1> QED BY <1>1, <1>3, <1>4 DEF PathNext

(* With such a host the path implements DioEventService: every event the FIFO *)
(* accepts changes exactly its masked lines, once, in order of acceptance and *)
(* never early, and only FORCE_SAFE drops one, for every FIFO depth.          *)
THEOREM PathImplementsService ==
    ASSUME "force_safe_off" \notin HostOps
    PROVE  PathSpec => ImplementsService
<1>1. PathInit => Service!ServiceInit
  BY DEF PathInit, QueueInit, outstanding, contents, Service!ServiceInit
<1> QED BY <1>1, PathStepServes, PathAlways, EnabledAlways, PTL
        DEF PathSpec, ImplementsService, Service!ServiceSpec
==============================================================================
