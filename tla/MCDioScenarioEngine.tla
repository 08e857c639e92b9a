------------------------- MODULE MCDioScenarioEngine -------------------------
(***************************************************************************)
(* TLC instance of the scenario engine, with history variables that stamp   *)
(* each ring slot with the time its event was accepted and the number of    *)
(* events queued before it, and remember the last FORCE_SAFE.               *)
(***************************************************************************)
EXTENDS DioScenarioEngine

VARIABLES tag,        \* per slot: [at |-> clock of acceptance, ahead |-> level then]
          applied,    \* tag of the last applied event
          lastSafe    \* timestamp of the last clock with force_safe, -1 if none

MCEvent == {[ts |-> 1, mask |-> {"a", "b"}, value |-> {"a"}, id |-> 1],
            [ts |-> 2, mask |-> {"b"}, value |-> {"b"}, id |-> 2],
            [ts |-> 4, mask |-> {"a"}, value |-> {}, id |-> 3]}
NoTag == [at |-> 0, ahead |-> 0]

MCInit == /\ EngineInit
          /\ tag = [s \in Slots |-> NoTag]
          /\ applied = NoTag
          /\ lastSafe = -1

MCReset == EngineReset /\ tag' = [s \in Slots |-> NoTag] /\ applied' = NoTag /\ lastSafe' = -1

MCClock(clear_queue, clear_status, force_safe, enqueue, e) ==
    /\ EngineClock(clear_queue, clear_status, force_safe, enqueue, e)
    /\ tag' = IF ~queue_clear(clear_queue, force_safe) /\ accept_push(enqueue, e)
              THEN [tag EXCEPT ![write_ptr] = [at |-> timestamp, ahead |-> count]]
              ELSE tag
    /\ applied' = IF event_applied_pulse' THEN tag[read_ptr] ELSE applied
    /\ lastSafe' = IF force_safe THEN timestamp ELSE lastSafe

MCNext ==
    \/ MCReset
    \/ \E clear_queue, clear_status, force_safe, enqueue \in BOOLEAN, e \in Event :
          MCClock(clear_queue, clear_status, force_safe, enqueue, e)

MCSpec == MCInit /\ [][MCNext]_<<evars, tag, applied, lastSafe>>

BiggerOf(a, b) == IF a > b THEN a ELSE b

(* Determinism of the timeline: an event is applied no later than its tick   *)
(* or the clock after its acceptance, whichever is later, plus one clock for *)
(* each event that was queued before it. An event pushed ahead of time into  *)
(* an empty queue is therefore applied exactly on its tick.                  *)
LatenessBounded ==
    event_applied_pulse =>
        actual_timestamp <= BiggerOf(requested_timestamp, applied.at + 1) + applied.ahead

(* The evidence a host reads after an application (types included) is that of *)
(* an event applied never early, within this bound, and latched if late.      *)
TimelineSound == EngineTypeOK /\ EvidenceSound /\ LatenessBounded

(* FORCE_SAFE wins for good: no event accepted before or during FORCE_SAFE   *)
(* ever reaches the outputs afterwards.                                      *)
NothingSurvivesSafe == event_applied_pulse => applied.at > lastSafe

(* Between FORCE_SAFE and the first event applied after it the outputs are   *)
(* the safe value, also after force_safe is released.                        *)
SafeUntilNewEvent ==
    lastSafe >= 0 /\ actual_timestamp <= lastSafe => dio_out = SafeValue

(* FORCE_SAFE is final: what was accepted before it is gone, and the outputs   *)
(* stay safe until an event accepted after it is applied.                     *)
SafeIsFinal == NothingSurvivesSafe /\ SafeUntilNewEvent
===============================================================================
