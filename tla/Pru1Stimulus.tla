---------------------------- MODULE Pru1Stimulus ----------------------------
(***************************************************************************)
(* PRU1 ABZ/Hall stimulus firmware (boards/beaglebone_black/firmware/       *)
(* pru1_b2/main.c): one endless loop that serves deadlines first and the    *)
(* RPMsg queue only when none is due.  The IEP counter wraps; a deadline is *)
(* compared as a signed difference.  Every step of the loop reads the       *)
(* counter and then takes between 1 and MaxStep ticks.                      *)
(* Left out: the statistics counters and the fields of the responses, which *)
(* no step of the firmware reads back.                                      *)
(***************************************************************************)
EXTENDS Integers

CONSTANTS Half,            \* half the counter range (2^31)
          MinTransition,   \* ABZ_MIN_TRANSITION_TICKS, HALL_MIN_TRANSITION_TICKS
          MaxStep,         \* longest step of the loop, in ticks
          MaxRx,           \* requests one drain may find: the host's outstanding calls
          Default,         \* power-up transition_ticks
          Requests         \* the requests the host may send

(* What the wire format and the masks of handle_request make of the arguments. *)
RequestTyped(r) ==
    /\ r.type = "ABZ_CONFIG" => /\ r.ticks \in Nat /\ r.period \in Nat /\ r.width \in Nat
                               /\ r.direction \in 0..1 /\ r.phase \in 0..3
    /\ r.type = "ABZ_ARM" => r.at \in Nat /\ r.at < 2 * Half
    /\ r.type = "ABZ_SCHEDULE" => /\ r.at \in Nat /\ r.at < 2 * Half
                                 /\ r.ticks \in Nat /\ r.direction \in Nat
                                 /\ r.set_ticks \in BOOLEAN /\ r.set_direction \in BOOLEAN
    /\ r.type = "ABZ_DIRECTION" => r.direction \in Nat
    /\ r.type = "HALL_CONFIG" => r.ticks \in Nat /\ r.direction \in Nat /\ r.step \in Nat

ASSUME RequestAssumption == \A r \in Requests : RequestTyped(r)

ASSUME StimAssumption ==
    /\ Half \in Nat \ {0} /\ MinTransition \in 1..(Half - 1)
    /\ Default \in MinTransition..(Half - 1)
    /\ MaxStep \in Nat \ {0} /\ MaxRx \in Nat \ {0}

Wrap == 2 * Half
Tick == 0..(Wrap - 1)
Mode == {"none", "abz", "hall"}

VARIABLES
    now,                                     \* IEP counter (CT_IEP.TMR_CNT)
    pc,                                      \* "loop", "drain", "acked"
    rx, kick, host_int,                      \* queued requests, host's kick, R31 bit
    served,                                  \* requests read in this drain
    running, active_mode, start_pending_mode,
    armed_mode, armed_apply_ticks,
    update,                                  \* update_* locals; pending flag inside
    abz,                                     \* ABZ locals
    hall,                                    \* Hall locals
    R30                                      \* output bits that are high

rpmsg  == <<rx, kick, host_int, served>>
modes  == <<running, active_mode, start_pending_mode, armed_mode>>
stimvars == <<now, pc, rpmsg, modes, armed_apply_ticks, update, abz, hall, R30>>
-------------------------------------------------------------------------------
Diff(a, b) == (a - b) % Wrap

(* (int32_t)(now - deadline) >= 0 *)
time_due(t, deadline) == Diff(t, deadline) < Half

(* (int32_t)(deadline - now) > 0 *)
time_is_future_Unsigned(t, deadline) == deadline > t   \* Mutation: plain unsigned
time_is_future(t, deadline) == Diff(deadline, t) \in 1..(Half - 1)

(* The tables, read by column: the phases and steps in which an output is     *)
(* high. A, B, Z and U, V, W are the bits 0, 1, 2.                            *)
phase_to_ab(phase) ==
    {b \in {0, 1} : (b = 0 /\ phase \in {1, 2}) \/ (b = 1 /\ phase \in {2, 3})}

hall_step_to_bits_Swapped(step) ==    \* Mutation: steps 1 and 3 exchanged
    {b \in {0, 1, 2} : \/ b = 0 /\ step \in {0, 3, 5}
                       \/ b = 1 /\ step \in {1, 4, 5}
                       \/ b = 2 /\ step \in {1, 2, 3}}
hall_step_to_bits(step) ==
    {b \in {0, 1, 2} : \/ b = 0 /\ step \in {0, 1, 5}
                       \/ b = 1 /\ step \in {3, 4, 5}
                       \/ b = 2 /\ step \in {1, 2, 3}}

index_is_active(a) == a.period # 0 /\ a.width # 0 /\ a.index_phase < a.width

abz_bits(a) == phase_to_ab(a.phase) \cup (IF index_is_active(a) THEN {2} ELSE {})

(* The first deadline after a start, and the next one after a transition:    *)
(* a transition that is a whole period late rebases the schedule.            *)
After(t, ticks) == (t + ticks) % Wrap
NextDeadline_Accumulate(t, next, ticks) == After(next, ticks)   \* Mutation: no rebase
NextDeadline(t, next, ticks) ==
    IF Diff(t, next) >= ticks THEN After(t, ticks) ELSE After(next, ticks)
-------------------------------------------------------------------------------
valid_ticks(t) == t >= MinTransition /\ t < Half

busy_NotRunning == armed_mode # "none" \/ start_pending_mode # "none"   \* Mutation
busy == running \/ armed_mode # "none" \/ start_pending_mode # "none"

(* The checks that precede the effect of each request. Anything else (a bad  *)
(* header, an unknown command, the read-only commands) changes nothing.      *)
Admitted(r) ==
    \/ r.type \in {"FORCE_SAFE", "ABZ_STOP", "HALL_STOP"}
    \/ r.type \in {"ABZ_START", "HALL_START"} /\ ~busy
    \/ /\ r.type = "ABZ_CONFIG"
       /\ ~busy /\ valid_ticks(r.ticks)
       /\ IF r.period = 0 THEN r.width = 0 ELSE r.width <= r.period
    \/ /\ r.type = "HALL_CONFIG"
       /\ ~busy /\ valid_ticks(r.ticks) /\ r.direction \in 0..1 /\ r.step \in 0..5
    \/ /\ r.type = "ABZ_ARM"
       /\ ~busy /\ r.at # 0 /\ time_is_future(now, r.at)
    \/ /\ r.type = "ABZ_SCHEDULE"
       /\ ~running /\ armed_mode = "abz" /\ ~update.pending
       /\ r.at # 0 /\ time_is_future(now, r.at) /\ time_is_future(armed_apply_ticks, r.at)
       /\ r.set_ticks => valid_ticks(r.ticks)
       /\ r.set_direction => r.direction \in 0..1
    \/ r.type = "ABZ_DIRECTION" /\ r.direction \in 0..1

NoUpdate == [update EXCEPT !.pending = FALSE]

(* The effects. FORCE_SAFE and ABZ_STOP do the same to this state.           *)
ForceSafe_KeepArmed ==
    /\ running' = FALSE /\ active_mode' = "none" /\ start_pending_mode' = "none"
    /\ update' = NoUpdate /\ R30' = {}
    /\ UNCHANGED <<armed_mode, armed_apply_ticks, abz, hall>>
ForceSafe ==
    /\ running' = FALSE /\ active_mode' = "none" /\ start_pending_mode' = "none"
    /\ armed_mode' = "none" /\ update' = NoUpdate /\ R30' = {}
    /\ UNCHANGED <<armed_apply_ticks, abz, hall>>

HallStop_KeepOutputs ==               \* Mutation: the pins keep their last state
    /\ running' = FALSE /\ active_mode' = "none" /\ start_pending_mode' = "none"
    /\ UNCHANGED <<armed_mode, armed_apply_ticks, update, abz, hall, R30>>
HallStop ==
    /\ running' = FALSE /\ active_mode' = "none" /\ start_pending_mode' = "none"
    /\ R30' = {}
    /\ UNCHANGED <<armed_mode, armed_apply_ticks, update, abz, hall>>

AbzConfig(r) ==
    /\ abz' = [abz EXCEPT !.ticks = r.ticks, !.period = r.period, !.width = r.width,
                          !.direction = r.direction, !.initial_phase = r.phase,
                          !.phase = r.phase, !.index_phase = 0]
    /\ update' = NoUpdate
    /\ R30' = {}
    /\ UNCHANGED <<modes, armed_apply_ticks, hall>>

HallConfig(r) ==
    /\ hall' = [hall EXCEPT !.ticks = r.ticks, !.direction = r.direction,
                            !.initial_step = r.step, !.step = r.step]
    /\ R30' = {}
    /\ UNCHANGED <<modes, armed_apply_ticks, update, abz>>

Start(mode) ==
    /\ start_pending_mode' = mode
    /\ UNCHANGED <<running, active_mode, armed_mode, armed_apply_ticks, update, abz, hall, R30>>

AbzArm(r) ==
    /\ armed_mode' = "abz" /\ armed_apply_ticks' = r.at
    /\ UNCHANGED <<running, active_mode, start_pending_mode, update, abz, hall, R30>>

AbzSchedule(r) ==
    /\ update' = [pending |-> TRUE, at |-> r.at, ticks |-> r.ticks, direction |-> r.direction,
                  set_ticks |-> r.set_ticks, set_direction |-> r.set_direction]
    /\ UNCHANGED <<modes, armed_apply_ticks, abz, hall, R30>>

AbzDirection(r) ==
    /\ abz' = [abz EXCEPT !.direction = r.direction]
    /\ UNCHANGED <<modes, armed_apply_ticks, update, hall, R30>>

Effect(r) ==
    \/ r.type \in {"FORCE_SAFE", "ABZ_STOP"} /\ ForceSafe
    \/ r.type = "HALL_STOP"     /\ HallStop
    \/ r.type = "ABZ_CONFIG"    /\ AbzConfig(r)
    \/ r.type = "HALL_CONFIG"   /\ HallConfig(r)
    \/ r.type = "ABZ_START"     /\ Start("abz")
    \/ r.type = "HALL_START"    /\ Start("hall")
    \/ r.type = "ABZ_ARM"       /\ AbzArm(r)
    \/ r.type = "ABZ_SCHEDULE"  /\ AbzSchedule(r)
    \/ r.type = "ABZ_DIRECTION" /\ AbzDirection(r)

handle_request(r) ==
    \/ Admitted(r) /\ Effect(r)
    \/ ~Admitted(r) /\ UNCHANGED <<modes, armed_apply_ticks, update, abz, hall, R30>>
-------------------------------------------------------------------------------
(* Entering ABZ or Hall mode at the current time, from the armed deadline or  *)
(* behind the acknowledgement of a START.                                    *)
RunAbz ==
    LET a == [abz EXCEPT !.phase = abz.initial_phase, !.index_phase = 0,
                         !.next = After(now, abz.ticks)] IN
    /\ abz' = a
    /\ R30' = abz_bits(a)
    /\ active_mode' = "abz" /\ running' = TRUE
    /\ UNCHANGED hall

RunHall ==
    /\ hall' = [hall EXCEPT !.step = hall.initial_step, !.next = After(now, hall.ticks)]
    /\ R30' = hall_step_to_bits(hall.initial_step)
    /\ active_mode' = "hall" /\ running' = TRUE
    /\ UNCHANGED abz

armed_due_Exact == armed_mode = "abz" /\ now = armed_apply_ticks     \* Mutation
armed_due  == armed_mode = "abz" /\ time_due(now, armed_apply_ticks)
update_due == running /\ active_mode = "abz" /\ update.pending /\ time_due(now, update.at)
abz_due    == running /\ active_mode = "abz" /\ time_due(now, abz.next)
hall_due   == running /\ active_mode = "hall" /\ time_due(now, hall.next)

ArmedStart ==
    /\ armed_due
    /\ RunAbz
    /\ armed_mode' = "none"
    /\ UNCHANGED <<pc, rpmsg, start_pending_mode, armed_apply_ticks, update>>

ScheduledUpdate ==
    LET ticks == IF update.set_ticks THEN update.ticks ELSE abz.ticks IN
    /\ ~armed_due /\ update_due
    /\ abz' = [abz EXCEPT !.ticks = ticks, !.next = After(now, ticks),
                          !.direction = IF update.set_direction THEN update.direction ELSE @]
    /\ update' = NoUpdate
    /\ UNCHANGED <<pc, rpmsg, modes, armed_apply_ticks, hall, R30>>

AbzTransition ==
    LET a == [abz EXCEPT
                !.phase = (@ + IF abz.direction = 0 THEN 1 ELSE 3) % 4,
                !.index_phase = IF @ + 1 < abz.period THEN @ + 1 ELSE 0,
                !.next = NextDeadline(now, @, abz.ticks)] IN
    /\ ~armed_due /\ ~update_due /\ abz_due
    /\ abz' = a
    /\ R30' = abz_bits(a)
    /\ UNCHANGED <<pc, rpmsg, modes, armed_apply_ticks, update, hall>>

HallTransition ==
    LET step == (hall.step + IF hall.direction = 0 THEN 1 ELSE 5) % 6 IN
    /\ ~armed_due /\ hall_due
    /\ hall' = [hall EXCEPT !.step = step, !.next = NextDeadline(now, @, hall.ticks)]
    /\ R30' = hall_step_to_bits(step)
    /\ UNCHANGED <<pc, rpmsg, modes, armed_apply_ticks, update, abz>>

Quiet == ~armed_due /\ ~update_due /\ ~abz_due /\ ~hall_due

(* Nothing is due: acknowledge the interrupt, then drain the queue.          *)
PollHost ==
    /\ Quiet
    /\ pc' = IF host_int THEN "drain" ELSE "loop"
    /\ host_int' = FALSE /\ served' = 0
    /\ UNCHANGED <<rx, kick, modes, armed_apply_ticks, update, abz, hall, R30>>

Loop == pc = "loop" /\ (ArmedStart \/ ScheduledUpdate \/ AbzTransition \/ HallTransition \/ PollHost)

(* Receive one request, handle it and send the response.                     *)
Receive(r) ==
    /\ pc = "drain" /\ rx > 0
    /\ rx' = rx - 1 /\ served' = served + 1
    /\ handle_request(r)
    /\ pc' = "acked"
    /\ UNCHANGED <<kick, host_int>>

(* A START takes effect behind its acknowledgement, at a fresh timestamp.    *)
StartPending_OnePerInt ==        \* Mutation: one request per interrupt
    /\ pc = "acked"
    /\ \/ start_pending_mode = "abz" /\ RunAbz
       \/ start_pending_mode = "hall" /\ RunHall
       \/ start_pending_mode = "none" /\ UNCHANGED <<running, active_mode, abz, hall, R30>>
    /\ start_pending_mode' = "none"
    /\ pc' = "loop"
    /\ UNCHANGED <<rpmsg, armed_mode, armed_apply_ticks, update>>
StartPending ==
    /\ pc = "acked"
    /\ \/ start_pending_mode = "abz" /\ RunAbz
       \/ start_pending_mode = "hall" /\ RunHall
       \/ start_pending_mode = "none" /\ UNCHANGED <<running, active_mode, abz, hall, R30>>
    /\ start_pending_mode' = "none"
    /\ pc' = "drain"
    /\ UNCHANGED <<rpmsg, armed_mode, armed_apply_ticks, update>>

DrainEnd ==
    /\ pc = "drain" /\ rx = 0
    /\ pc' = "loop"
    /\ UNCHANGED <<rpmsg, modes, armed_apply_ticks, update, abz, hall, R30>>

(* Every step takes its time.                                                *)
TimePasses == \E d \in 1..MaxStep : now' = After(now, d)

Work == (Loop \/ StartPending \/ DrainEnd) /\ TimePasses
Serve(r) == Receive(r) /\ TimePasses
Firmware == Work \/ \E r \in Requests : Serve(r)
-------------------------------------------------------------------------------
fwvars == <<now, pc, modes, armed_apply_ticks, update, abz, hall, R30>>

(* The host queues a request in the vring (its content is chosen when the     *)
(* firmware reads it) and then kicks the PRU.                                *)
HostSend ==
    /\ rx < MaxRx /\ (pc # "loop" => rx + served < MaxRx)
    /\ rx' = rx + 1 /\ kick' = TRUE
    /\ UNCHANGED <<fwvars, host_int, served>>

HostKick ==
    /\ kick
    /\ kick' = FALSE /\ host_int' = TRUE
    /\ UNCHANGED <<fwvars, rx, served>>

StimInit ==
    /\ now \in Tick
    /\ pc = "loop" /\ rx = 0 /\ kick = FALSE /\ host_int = FALSE /\ served = 0
    /\ running = FALSE /\ active_mode = "none" /\ start_pending_mode = "none"
    /\ armed_mode = "none" /\ armed_apply_ticks = 0
    /\ update = [pending |-> FALSE, at |-> 0, ticks |-> 0, direction |-> 0,
                 set_ticks |-> FALSE, set_direction |-> FALSE]
    /\ abz = [ticks |-> Default, period |-> 0, width |-> 0, initial_phase |-> 0, phase |-> 0,
              direction |-> 0, index_phase |-> 0, next |-> 0]
    /\ hall = [ticks |-> Default, initial_step |-> 0, step |-> 0, direction |-> 0, next |-> 0]
    /\ R30 = {}

StimNext == Firmware \/ HostSend \/ HostKick

StimSpec == StimInit /\ [][StimNext]_stimvars

(* The PRU never stops; a queued request is kicked.                          *)
FairStimSpec == StimSpec /\ WF_stimvars(Firmware) /\ WF_stimvars(HostKick)
-------------------------------------------------------------------------------
Period == MinTransition..(Half - 1)

AbzState == [ticks : Period, period : Nat, width : Nat, initial_phase : 0..3, phase : 0..3,
             direction : 0..1, index_phase : Nat, next : Tick]
HallState == [ticks : Period, initial_step : 0..5, step : 0..5, direction : 0..1, next : Tick]
Update == [pending : BOOLEAN, at : Tick, ticks : Nat, direction : Nat,
           set_ticks : BOOLEAN, set_direction : BOOLEAN]

(* Every register keeps its range; the periods stay below half the counter     *)
(* range, also the one a scheduled update brings, or signed deadlines break.   *)
StimTypeOK ==
    /\ now \in Tick /\ armed_apply_ticks \in Tick
    /\ pc \in {"loop", "drain", "acked"}
    /\ rx \in 0..MaxRx /\ kick \in BOOLEAN /\ host_int \in BOOLEAN
    /\ served \in 0..MaxRx /\ (pc # "loop" => rx + served <= MaxRx)
    /\ running \in BOOLEAN
    /\ active_mode \in Mode /\ start_pending_mode \in Mode /\ armed_mode \in {"none", "abz"}
    /\ abz \in AbzState /\ hall \in HallState /\ update \in Update
    /\ update.pending => /\ update.set_ticks => update.ticks \in Period
                         /\ update.set_direction => update.direction \in 0..1
    /\ R30 \subseteq {0, 1, 2}

(* The outputs have one owner: running, armed and about to start exclude each *)
(* other. The armed deadline in the main loop relies on it, for it does not   *)
(* look at running before it takes the outputs over.                         *)
OneOwner ==
    /\ running <=> active_mode # "none"
    /\ running => armed_mode = "none" /\ start_pending_mode = "none"
    /\ armed_mode # "none" => start_pending_mode = "none"
    /\ start_pending_mode # "none" => pc = "acked"

(* The pins show the state of the running generator, and are low when nothing *)
(* runs, whatever STOP, reconfiguration or restart came before.              *)
OutputsMatchState ==
    /\ active_mode = "abz"  => R30 = abz_bits(abz)
    /\ active_mode = "hall" => R30 = hall_step_to_bits(hall.step)
    /\ active_mode = "none" => R30 = {}

(* A request in the vring is never forgotten: its kick is still to come, its  *)
(* interrupt is latched, or the firmware is draining.                        *)
NoLostWakeup == rx > 0 => kick \/ host_int \/ pc # "loop"

Moved(bits) == {b \in bits : (b \in R30) # (b \in R30')}
AtMostOne(S) == \A x, y \in S : x = y
GrayStep ==
    running /\ running' => AtMostOne(Moved(IF active_mode = "abz" THEN {0, 1} ELSE {0, 1, 2}))

(* While a generator runs, its pins move like an encoder's: at most one of A   *)
(* and B, and at most one of U, V and W, changes in a step, also across a     *)
(* scheduled speed or direction change.                                      *)
GrayMotion == [][GrayStep]_stimvars

(* After a transition the next deadline lies ahead: a late generator does not *)
(* catch up with a burst of edges and does not fall half a range behind.     *)
NoBurst ==
    [][/\ abz.phase # abz'.phase /\ running /\ running' => time_is_future(now, abz'.next)
       /\ hall.step # hall'.step /\ running /\ running' => time_is_future(now, hall'.next)]_stimvars

(* A request is read even while transitions keep coming due.                 *)
RequestServed == rx > 0 ~> pc = "drain"

(* An armed start fires or is cancelled.                                     *)
ArmedFires == armed_mode = "abz" ~> armed_mode = "none"
===============================================================================
