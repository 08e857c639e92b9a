-------------------------- MODULE DioScenarioEngine --------------------------
(***************************************************************************)
(* rtl/scenario/dio_scenario_engine.v over its hil_event_queue, driven by   *)
(* rtl/common/timebase/hil_timebase.v.  One EngineClock is one rising edge: *)
(* every register takes its next value from the values before the edge.     *)
(***************************************************************************)
EXTENDS HilEventQueue

CONSTANTS MaxTime,     \* bound on the 64-bit free-running timestamp
          SafeValue    \* safe_value: the lines high in the safe state

ASSUME EngineAssumption == MaxTime \in Nat /\ SafeValue \subseteq Line

VARIABLES timestamp,            \* hil_timebase
          dio_out,              \* the set of lines driven high
          event_applied_pulse, applied_event_id,
          requested_timestamp, actual_timestamp, late_ticks,
          late_event_latched

statusvars == <<event_applied_pulse, applied_event_id, requested_timestamp,
                actual_timestamp, late_ticks, late_event_latched>>
evars == <<qvars, timestamp, dio_out, statusvars>>

EngineInit ==
    /\ QueueInit
    /\ timestamp = 0
    /\ dio_out = {}
    /\ event_applied_pulse = FALSE /\ applied_event_id = 0
    /\ requested_timestamp = 0 /\ actual_timestamp = 0 /\ late_ticks = 0
    /\ late_event_latched = FALSE

EngineReset ==
    /\ QueueReset
    /\ timestamp' = 0
    /\ dio_out' = {}
    /\ event_applied_pulse' = FALSE /\ applied_event_id' = 0
    /\ requested_timestamp' = 0 /\ actual_timestamp' = 0 /\ late_ticks' = 0
    /\ late_event_latched' = FALSE

(* Mutation: a head is due only after its tick. *)
event_due_Strict(clear_queue, force_safe) ==
    ~empty /\ ~clear_queue /\ ~force_safe /\ timestamp > head.ts
event_due(clear_queue, force_safe) ==
    ~empty /\ ~clear_queue /\ ~force_safe /\ timestamp >= head.ts

(* Mutation: FORCE_SAFE does not flush the queue. *)
queue_clear_NoSafe(clear_queue, force_safe) == clear_queue
queue_clear(clear_queue, force_safe) == clear_queue \/ force_safe

(* Mutation: an event overwrites the lines outside its mask. *)
Masked_NoMask(out, e) == e.value
Masked(out, e) == (out \ e.mask) \cup (e.value \cap e.mask)

(* Mutation: clear_status beats the lateness of the same clock. *)
LateClock_ClearWins(clear_status, late) ==
    late_event_latched' = ((late \/ late_event_latched) /\ ~clear_status)
LateClock(clear_status, late) ==
    late_event_latched' = (late \/ (late_event_latched /\ ~clear_status))

(* force_safe: the outputs and the latch move, the evidence registers stay. *)
HoldSafe(clear_status) ==
    /\ dio_out' = SafeValue
    /\ event_applied_pulse' = FALSE
    /\ LateClock(clear_status, FALSE)
    /\ UNCHANGED <<applied_event_id, requested_timestamp, actual_timestamp, late_ticks>>

ApplyHead(clear_status) ==
    /\ dio_out' = Masked(dio_out, head)
    /\ event_applied_pulse' = TRUE
    /\ applied_event_id' = head.id
    /\ requested_timestamp' = head.ts
    /\ actual_timestamp' = timestamp
    /\ late_ticks' = timestamp - head.ts
    /\ LateClock(clear_status, timestamp > head.ts)

Idle(clear_status) ==
    /\ event_applied_pulse' = FALSE
    /\ LateClock(clear_status, FALSE)
    /\ UNCHANGED <<dio_out, applied_event_id, requested_timestamp,
                   actual_timestamp, late_ticks>>

EngineClock(clear_queue, clear_status, force_safe, enqueue, e) ==
    LET due == event_due(clear_queue, force_safe) IN
    /\ timestamp < MaxTime
    /\ timestamp' = timestamp + 1
    /\ QueueClock(queue_clear(clear_queue, force_safe), clear_status, enqueue, e, due)
    /\ \/ force_safe /\ HoldSafe(clear_status)
       \/ due /\ ApplyHead(clear_status)
       \/ ~force_safe /\ ~due /\ Idle(clear_status)

EngineNext ==
    \/ EngineReset
    \/ \E clear_queue, clear_status, force_safe, enqueue \in BOOLEAN, e \in Event :
          EngineClock(clear_queue, clear_status, force_safe, enqueue, e)

EngineSpec == EngineInit /\ [][EngineNext]_evars
-------------------------------------------------------------------------------
EngineTypeOK ==
    /\ QueueTypeOK
    /\ timestamp \in 0..MaxTime
    /\ dio_out \subseteq Line
    /\ event_applied_pulse \in BOOLEAN /\ late_event_latched \in BOOLEAN
    /\ applied_event_id \in Nat /\ requested_timestamp \in Nat
    /\ actual_timestamp \in 0..MaxTime /\ late_ticks \in 0..MaxTime

(* The evidence registers describe the last application: it was never early, *)
(* late_ticks is its lateness, and a late one is latched in the clock that   *)
(* applies it even if clear_status is asserted in that clock.                *)
EvidenceSound ==
    /\ requested_timestamp <= actual_timestamp
    /\ late_ticks = actual_timestamp - requested_timestamp
    /\ event_applied_pulse => (late_ticks > 0 => late_event_latched)

(* The queue forgets its order reference when it drains, so an event older    *)
(* than the one applied before it can still be accepted; it is then always    *)
(* reported late, never passed off as on time.                                *)
ReorderIsReported ==
    [][event_applied_pulse' /\ requested_timestamp' < requested_timestamp
         => late_ticks' > 0 /\ late_event_latched']_evars

Service == INSTANCE DioEventService WITH
               q <- contents, dio <- dio_out, now <- timestamp, CanDiscard <- TRUE

(* The engine and its queue implement the event service: every accepted       *)
(* event changes exactly its masked lines, once, in order of acceptance and   *)
(* never early, and only FORCE_SAFE, clear_queue or a reset drops one.        *)
EngineImplementsService == Service!ServiceSpec
===============================================================================
