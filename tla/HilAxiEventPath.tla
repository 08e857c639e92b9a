--------------------------- MODULE HilAxiEventPath ---------------------------
(***************************************************************************)
(* The scheduled-DIO path of the Zynq backends, composed:                   *)
(*   host/hil/transports/uio.py       the Linux host, one MMIO at a time    *)
(*   rtl/control/hil_axi_control_plane.v   registers and event dispatcher   *)
(*   rtl/control/hil_axi_event_fifo.v      the ring (HilEventQueue)         *)
(*   rtl/scenario/dio_event_scheduler.v    one armed event                  *)
(*   rtl/top/hil_axi_digital_core.v        the wiring of enable and safe    *)
(* Every register changes on Clock, from the values before the edge.  The   *)
(* host acts between clocks; its register writes reach the control plane    *)
(* with any latency.                                                        *)
(***************************************************************************)
EXTENDS HilEventQueue

CONSTANTS MaxTime,   \* latest event timestamp: beyond it the time saturates
          HostOps    \* the transport operations the host may call

AllHostOps == {"force_safe_on", "force_safe_off", "start_abz", "stop_abz",
               "write_back", "schedule_dio"}

ASSUME PathAssumption ==
    MaxTime \in Nat /\ HostOps \subseteq AllHostOps /\ \A e \in Event : e.ts <= MaxTime

VARIABLES
    timestamp,
    cfg_hil_enable, cfg_force_safe_sw, cfg_abz_enable,   \* CONTROL register
    external_force_safe,                                 \* input pin
    event_stage, event_push_pulse,                       \* EVT_* registers
    dio_event, dio_event_arm_pulse, fifo_pop, dispatch_inflight,
    armed, pending, dio_out, event_done_pulse,           \* dio_event_scheduler
    host, bus                    \* host program counter, write under way

ctrlvars == <<cfg_hil_enable, cfg_force_safe_sw, cfg_abz_enable, event_stage,
              event_push_pulse>>
dispvars == <<dio_event, dio_event_arm_pulse, fifo_pop, dispatch_inflight>>
schedvars == <<armed, pending, dio_out, event_done_pulse>>
hostvars == <<host, bus>>
pvars == <<qvars, timestamp, ctrlvars, external_force_safe, dispvars, schedvars,
           hostvars>>

NoWrite == [reg |-> "none"]
Control == [reg : {"CONTROL"}, hil : BOOLEAN, safe : BOOLEAN, abz : BOOLEAN]
Writes  == {NoWrite} \cup Control \cup [reg : {"EVT_STAGE"}, e : Event]
             \cup {[reg |-> "EVT_PUSH"]}

ZeroEvent == [ts |-> 0, mask |-> {}, value |-> {}, id |-> 0]   \* reset value

cfg_force_safe == cfg_force_safe_sw \/ external_force_safe
hil_active     == cfg_hil_enable /\ ~cfg_force_safe
encoder_enable == hil_active /\ cfg_abz_enable
-------------------------------------------------------------------------------
(* The host. REG_CONTROL reads back the combined FORCE_SAFE, not the software *)
(* bit, so every read-modify-write sees the external input too.              *)
ControlRead == [reg |-> "CONTROL", hil |-> cfg_hil_enable, safe |-> cfg_force_safe,
                abz |-> cfg_abz_enable]

ForceSafeWrite(asserted) == [ControlRead EXCEPT !.safe = asserted]
StartAbzWrite == [ControlRead EXCEPT !.hil = TRUE, !.abz = TRUE, !.safe = FALSE]
StopAbzWrite  == [ControlRead EXCEPT !.abz = FALSE]

(* write_back: configure_abz and clear_faults change bits that are not        *)
(* modelled and write the rest of CONTROL back as read.                      *)
ControlWrite(op) ==
    CASE op = "force_safe_on"  -> ForceSafeWrite(TRUE)
      [] op = "force_safe_off" -> ForceSafeWrite(FALSE)
      [] op = "start_abz"      -> StartAbzWrite
      [] op = "stop_abz"       -> StopAbzWrite
      [] op = "write_back"     -> ControlRead

HostControl(op) ==
    /\ host = "idle" /\ bus = NoWrite
    /\ bus' = ControlWrite(op)
    /\ UNCHANGED <<qvars, timestamp, ctrlvars, external_force_safe, dispvars,
                   schedvars, host>>

(* schedule_dio: refuse when EVT_STATUS says full, else stage the event ...   *)
HostStage(e) ==
    /\ host = "idle" /\ bus = NoWrite
    /\ ~full
    /\ bus' = [reg |-> "EVT_STAGE", e |-> e]
    /\ host' = "push"
    /\ UNCHANGED <<qvars, timestamp, ctrlvars, external_force_safe, dispvars, schedvars>>

(* ... and push it, without looking at the status again.                     *)
HostPush ==
    /\ host = "push" /\ bus = NoWrite
    /\ bus' = [reg |-> "EVT_PUSH"]
    /\ host' = "idle"
    /\ UNCHANGED <<qvars, timestamp, ctrlvars, external_force_safe, dispvars, schedvars>>

ExternalSafe ==
    /\ external_force_safe' = ~external_force_safe
    /\ UNCHANGED <<qvars, timestamp, ctrlvars, dispvars, schedvars, hostvars>>
-------------------------------------------------------------------------------
(* The register writes of the control plane; w is NoWrite when no write      *)
(* commits in this clock.                                                    *)
RegisterClock(w) ==
    /\ IF w.reg = "CONTROL"
       THEN cfg_hil_enable' = w.hil /\ cfg_force_safe_sw' = w.safe /\ cfg_abz_enable' = w.abz
       ELSE UNCHANGED <<cfg_hil_enable, cfg_force_safe_sw, cfg_abz_enable>>
    /\ event_stage' = IF w.reg = "EVT_STAGE" THEN w.e ELSE event_stage
    /\ event_push_pulse' = (w.reg = "EVT_PUSH")

(* Mutation: the dispatcher forgets the dispatch that is still in flight. *)
can_dispatch_NoInflight == ~cfg_force_safe /\ ~armed /\ ~empty
can_dispatch == ~cfg_force_safe /\ ~dispatch_inflight /\ ~armed /\ ~empty

(* Mutation: an in-flight mark is dropped only while the event is armed, so   *)
(* FORCE_SAFE between dispatch and arming leaves it set.                      *)
next_inflight_NoSafe == can_dispatch \/ (dispatch_inflight /\ ~armed /\ ~event_done_pulse)
next_inflight ==
    /\ ~cfg_force_safe
    /\ can_dispatch \/ (dispatch_inflight /\ ~armed /\ ~event_done_pulse)

DispatchClock ==
    /\ dio_event' = IF can_dispatch THEN head ELSE dio_event
    /\ dio_event_arm_pulse' = can_dispatch
    /\ fifo_pop' = can_dispatch
    /\ dispatch_inflight' = next_inflight

event_due_Early == armed /\ timestamp + 1 >= pending.ts      \* Mutation: one tick early
event_due == armed /\ timestamp >= pending.ts

(* Mutation: the safe state stops the outputs but leaves the event armed. *)
SchedulerSafe_KeepArmed ==
    dio_out' = {} /\ armed' = armed /\ event_done_pulse' = FALSE /\ UNCHANGED pending
SchedulerSafe ==
    dio_out' = {} /\ armed' = FALSE /\ event_done_pulse' = FALSE /\ UNCHANGED pending

(* Firing clears armed even when another event arrives in the same clock.    *)
SchedulerRun ==
    /\ pending' = IF dio_event_arm_pulse THEN dio_event ELSE pending
    /\ armed' = (~event_due /\ (armed \/ dio_event_arm_pulse))
    /\ dio_out' = IF event_due
                  THEN (dio_out \ pending.mask) \cup (pending.value \cap pending.mask)
                  ELSE dio_out
    /\ event_done_pulse' = event_due

SchedulerClock ==
    \/ ~hil_active /\ SchedulerSafe
    \/ hil_active /\ SchedulerRun

(* Only comparisons with event timestamps read the time, so it may stop at    *)
(* the largest one.                                                          *)
TimeClock == timestamp' = IF timestamp < MaxTime THEN timestamp + 1 ELSE timestamp

Clock(commit) ==
    LET w == IF commit THEN bus ELSE NoWrite IN
    /\ commit => bus # NoWrite
    /\ TimeClock
    /\ RegisterClock(w)
    /\ FifoClock(cfg_force_safe, event_push_pulse, event_stage, fifo_pop)
    /\ DispatchClock
    /\ SchedulerClock
    /\ bus' = IF commit THEN NoWrite ELSE bus
    /\ UNCHANGED <<external_force_safe, host>>

PathInit ==
    /\ QueueInit
    /\ timestamp = 0
    /\ cfg_hil_enable = FALSE /\ cfg_force_safe_sw = TRUE /\ cfg_abz_enable = FALSE
    /\ external_force_safe \in BOOLEAN
    /\ event_stage = ZeroEvent /\ event_push_pulse = FALSE
    /\ dio_event = ZeroEvent /\ dio_event_arm_pulse = FALSE
    /\ fifo_pop = FALSE /\ dispatch_inflight = FALSE
    /\ armed = FALSE /\ pending = ZeroEvent /\ dio_out = {} /\ event_done_pulse = FALSE
    /\ host = "idle" /\ bus = NoWrite

PathNext ==
    \/ \E op \in HostOps \ {"schedule_dio"} : HostControl(op)
    \/ "schedule_dio" \in HostOps /\ \E e \in Event : HostStage(e)
    \/ HostPush
    \/ ExternalSafe
    \/ Clock(TRUE)
    \/ Clock(FALSE)

(* The clock runs, and the interconnect delivers a write after finitely many  *)
(* clocks. The host and the input pin owe nothing.                           *)
PathSpec == PathInit /\ [][PathNext]_pvars
FairPathSpec == PathSpec /\ WF_pvars(Clock(TRUE)) /\ WF_pvars(Clock(FALSE))
-------------------------------------------------------------------------------
PathTypeOK ==
    /\ QueueTypeOK
    /\ timestamp \in 0..MaxTime
    /\ \A b \in {cfg_hil_enable, cfg_force_safe_sw, cfg_abz_enable, external_force_safe,
                 event_push_pulse, dio_event_arm_pulse, fifo_pop, dispatch_inflight,
                 armed, event_done_pulse} : b \in BOOLEAN
    /\ {event_stage, dio_event, pending} \subseteq Event \cup {ZeroEvent}
    /\ dio_out \subseteq Line
    /\ host \in {"idle", "push"} /\ bus \in Writes

(* The head that the registered pop removes is the event that was handed to   *)
(* the scheduler one clock earlier: the two-clock dispatch neither skips nor  *)
(* repeats an event, whatever is pushed in between.                          *)
PopMatchesDispatch ==
    /\ fifo_pop = dio_event_arm_pulse
    /\ fifo_pop => ~empty /\ head = dio_event

(* The dispatcher hands an event over only to a scheduler that is not armed,  *)
(* so no armed event is ever overwritten.                                    *)
ArmOnlyIdle == dio_event_arm_pulse => ~armed /\ ~event_done_pulse /\ dispatch_inflight

(* An event in flight is somewhere: on its way to the scheduler, armed there, *)
(* or just applied. The dispatcher never waits for an event that is gone.    *)
InflightAccounted ==
    dispatch_inflight => dio_event_arm_pulse \/ armed \/ event_done_pulse

(* The handover between FIFO, dispatcher and scheduler over its two clocks: no  *)
(* event is skipped, sent twice or overwritten, and none in flight is lost.    *)
HandoverSound == PathTypeOK /\ PopMatchesDispatch /\ ArmOnlyIdle /\ InflightAccounted

(* One clock of FORCE_SAFE (software or external) empties the whole pipeline  *)
(* and drives every line low: nothing that was queued, in flight or armed     *)
(* before it can still act afterwards, however short the assertion.          *)
SafeEmptiesPipeline ==
    [][Clock(TRUE) \/ Clock(FALSE) =>
         (cfg_force_safe => /\ count' = 0 /\ ~dispatch_inflight' /\ ~armed'
                            /\ ~dio_event_arm_pulse' /\ dio_out' = {})]_pvars

(* Accepted and not yet applied events, oldest first. *)
outstanding == (IF armed THEN <<pending>> ELSE <<>>) \o contents

Service == INSTANCE DioEventService WITH
               q <- outstanding, dio <- dio_out, now <- timestamp,
               SafeValue <- {}, CanDiscard <- FALSE

(* The path implements the event service: applied in order of acceptance,     *)
(* exactly once, never early, dropped only by the safe state.                *)
ImplementsService == Service!ServiceSpec

(* A queued event is eventually dispatched unless FORCE_SAFE drops it.        *)
QueuedIsDispatched == ~empty ~> (fifo_pop \/ cfg_force_safe)

(* docs/zynq-axi-control-plane.md:39, the FIFO "dispatches only when the       *)
(* deterministic DIO scheduler is idle": once the HIL stays enabled and safe   *)
(* stays released, a waiting event is dispatched.                             *)
ActiveQueueMoves == [](~empty /\ []hil_active => <>fifo_pop)
===============================================================================
