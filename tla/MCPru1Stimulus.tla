--------------------------- MODULE MCPru1Stimulus ---------------------------
(* TLC instances of the stimulus firmware, with two history variables:       *)
(*   remain      real ticks left to the armed deadline, measured without the *)
(*               wrapping counter (0 when nothing is armed)                  *)
(*   authorised  a START or ARM was accepted since the last stop             *)
EXTENDS Pru1Stimulus

CONSTANT Stops        \* the requests that count as a stop

VARIABLES remain, authorised

mcvars == <<stimvars, remain, authorised>>

Plain(types) == {[type |-> t] : t \in types}
(* The counter takes every value, so a few instants show every distance.     *)
Arms == {[type |-> "ABZ_ARM", at |-> t] : t \in {0, 7}}
Schedules == {[type |-> "ABZ_SCHEDULE", at |-> t, ticks |-> Half - 1, direction |-> 1,
               set_ticks |-> TRUE, set_direction |-> TRUE] : t \in {2}}
AbzConfigs == {[type |-> "ABZ_CONFIG", ticks |-> t, period |-> 2, width |-> 1, direction |-> 0,
                phase |-> 0] : t \in {MinTransition, Half}}
HallConfigs == {[type |-> "HALL_CONFIG", ticks |-> t, direction |-> 1, step |-> 0] :
                   t \in {MinTransition, Half}}

SafetyRequests ==
    Plain({"FORCE_SAFE", "ABZ_STOP", "HALL_STOP", "ABZ_START", "HALL_START", "PING"})
      \cup Arms \cup Schedules \cup AbzConfigs \cup HallConfigs
      \cup {[type |-> "ABZ_DIRECTION", direction |-> 1]}
ServeRequests == Plain({"FORCE_SAFE", "ABZ_STOP", "ABZ_START"})
                   \cup {[type |-> "ABZ_ARM", at |-> Half]}
StopRequests == Plain({"FORCE_SAFE", "ABZ_STOP", "HALL_STOP"}) \cup Arms

Measure ==
    LET spent == Diff(now', now)
        Down(left) == IF left - spent > -Half THEN left - spent ELSE -Half IN
    remain' = IF armed_mode' = "none" THEN 0
              ELSE Down(IF armed_mode = "none" THEN Diff(armed_apply_ticks', now) ELSE remain)

MCServe(r) ==
    /\ Serve(r) /\ Measure
    /\ authorised' = IF r.type \in Stops THEN FALSE
                     ELSE \/ authorised
                          \/ r.type \in {"ABZ_START", "HALL_START", "ABZ_ARM"} /\ Admitted(r)

MCFirmware == (Work /\ Measure /\ UNCHANGED authorised) \/ \E r \in Requests : MCServe(r)
MCHostKick == HostKick /\ UNCHANGED <<remain, authorised>>
MCNext == MCFirmware \/ MCHostKick \/ (HostSend /\ UNCHANGED <<remain, authorised>>)

MCInit == StimInit /\ remain = 0 /\ authorised = FALSE
MCSpec == MCInit /\ [][MCNext]_mcvars
MCFairSpec == MCSpec /\ WF_mcvars(MCFirmware) /\ WF_mcvars(MCHostKick)

(* The armed start fires at its instant and not before, and is never missed   *)
(* by half a counter range, although the counter wraps between ARM and the    *)
(* deadline and the loop may be busy with requests when it comes.            *)
ArmedOnTime ==
    /\ remain > -Half
    /\ armed_mode = "abz" /\ time_due(now, armed_apply_ticks) => remain <= 0

(* A stop request silences the pins until a later START or ARM is accepted.  *)
StoppedStaysSilent == running \/ R30 # {} => authorised
===============================================================================
