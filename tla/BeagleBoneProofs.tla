-------------------------- MODULE BeagleBoneProofs --------------------------
(***************************************************************************)
(* The two ends of a BeagleBone bench.  The PRU1 stimulus firmware: type     *)
(* correctness, single ownership of the outputs, agreement of the pins with  *)
(* the generator, Gray-code motion without bursts, silence after a stop and  *)
(* punctual armed starts, for every counter range, step time and set of      *)
(* requests.  The host programs: what they report has been done, and the     *)
(* answers they build on are their own, for every number of requests.        *)
(***************************************************************************)
EXTENDS MCPru1Stimulus, PruRpc, TLAPS

(* The parts of the state that handle_request and the loop change.            *)
DataOK ==
    /\ armed_apply_ticks \in Tick
    /\ running \in BOOLEAN
    /\ active_mode \in Mode /\ start_pending_mode \in Mode /\ armed_mode \in {"none", "abz"}
    /\ abz \in AbzState /\ hall \in HallState /\ update \in Update
    /\ update.pending => /\ update.set_ticks => update.ticks \in Period
                         /\ update.set_direction => update.direction \in 0..1
    /\ R30 \subseteq {0, 1, 2}

QueueOK ==
    /\ pc \in {"loop", "drain", "acked"}
    /\ rx \in 0..MaxRx /\ kick \in BOOLEAN /\ host_int \in BOOLEAN
    /\ served \in 0..MaxRx /\ (pc # "loop" => rx + served <= MaxRx)

(* OneOwner without its clause about the program counter.                     *)
OwnersExclude ==
    /\ running <=> active_mode # "none"
    /\ running => armed_mode = "none" /\ start_pending_mode = "none"
    /\ armed_mode # "none" => start_pending_mode = "none"

StimInv == StimTypeOK /\ OneOwner /\ OutputsMatchState /\ NoLostWakeup

(* Ticks of the wrapping counter.                                             *)
LEMMA ModTick == ASSUME NEW a \in Int PROVE a % Wrap \in Tick
BY StimAssumption DEF Wrap, Tick

LEMMA AfterTick == ASSUME NEW t \in Tick, NEW d \in Nat PROVE After(t, d) \in Tick
<1>1. t + d \in Int BY StimAssumption DEF Tick, Wrap
<1> QED BY <1>1, ModTick DEF After

LEMMA PeriodFacts == Period \subseteq Nat
BY StimAssumption DEF Period

LEMMA NextDeadlineTick ==
    ASSUME NEW t \in Tick, NEW n \in Tick, NEW p \in Period PROVE NextDeadline(t, n, p) \in Tick
BY AfterTick, PeriodFacts DEF NextDeadline

LEMMA AbzBitsRange == \A a : abz_bits(a) \subseteq {0, 1, 2}
BY DEF abz_bits, phase_to_ab

LEMMA HallBitsRange == \A s : hall_step_to_bits(s) \subseteq {0, 1, 2}
BY DEF hall_step_to_bits
-------------------------------------------------------------------------------
(* What a request does to the data, and to the agreement of pins and state.   *)
LEMMA HandleKeeps ==
    ASSUME DataOK, now \in Tick, OwnersExclude, OutputsMatchState,
           NEW r \in Requests, handle_request(r)
    PROVE  DataOK' /\ OwnersExclude' /\ OutputsMatchState'
<1>t. RequestTyped(r) BY RequestAssumption
<1>1. CASE ~Admitted(r)
  <2>1. UNCHANGED <<modes, armed_apply_ticks, update, abz, hall, R30>> BY <1>1 DEF handle_request
  <2> QED BY <2>1 DEF modes, DataOK, OwnersExclude, OutputsMatchState
<1>2. CASE Admitted(r)
  <2>e. Effect(r) BY <1>2 DEF handle_request
  <2>1. CASE r.type \in {"FORCE_SAFE", "ABZ_STOP"} /\ ForceSafe
    BY <2>1 DEF ForceSafe, NoUpdate, DataOK, OwnersExclude, OutputsMatchState, Mode, Update
  <2>2. CASE r.type = "HALL_STOP" /\ HallStop
    BY <2>2 DEF HallStop, DataOK, OwnersExclude, OutputsMatchState, Mode
  <2>3. CASE r.type = "ABZ_CONFIG" /\ AbzConfig(r)
    <3>1. ~busy /\ valid_ticks(r.ticks) BY <1>2, <2>3 DEF Admitted
    <3>2. r.ticks \in Period BY <3>1, <1>t, <2>3, StimAssumption DEF valid_ticks, Period, RequestTyped
    <3>3. abz' \in AbzState
      BY <3>2, <2>3, <1>t DEF AbzConfig, AbzState, DataOK, RequestTyped
    <3>4. update' \in Update /\ ~update'.pending
      BY <2>3 DEF AbzConfig, NoUpdate, Update, DataOK
    <3> QED BY <3>1, <3>3, <3>4, <2>3 DEF AbzConfig, DataOK, OwnersExclude, OutputsMatchState, modes, busy
  <2>4. CASE r.type = "HALL_CONFIG" /\ HallConfig(r)
    <3>1. ~busy /\ valid_ticks(r.ticks) /\ r.direction \in 0..1 /\ r.step \in 0..5
      BY <1>2, <2>4 DEF Admitted
    <3>2. r.ticks \in Period BY <3>1, <1>t, <2>4, StimAssumption DEF valid_ticks, Period, RequestTyped
    <3>3. hall' \in HallState BY <3>1, <3>2, <2>4 DEF HallConfig, HallState, DataOK
    <3> QED BY <3>1, <3>3, <2>4 DEF HallConfig, DataOK, OwnersExclude, OutputsMatchState, modes, busy
  <2>5. CASE r.type = "ABZ_START" /\ Start("abz")
    <3>1. ~busy BY <1>2, <2>5 DEF Admitted
    <3> QED BY <3>1, <2>5 DEF Start, busy, DataOK, OwnersExclude, OutputsMatchState, Mode
  <2>6. CASE r.type = "HALL_START" /\ Start("hall")
    <3>1. ~busy BY <1>2, <2>6 DEF Admitted
    <3> QED BY <3>1, <2>6 DEF Start, busy, DataOK, OwnersExclude, OutputsMatchState, Mode
  <2>7. CASE r.type = "ABZ_ARM" /\ AbzArm(r)
    <3>1. ~busy BY <1>2, <2>7 DEF Admitted
    <3>2. r.at \in Tick BY <1>t, <2>7, StimAssumption DEF RequestTyped, Tick, Wrap
    <3> QED BY <3>1, <3>2, <2>7 DEF AbzArm, busy, DataOK, OwnersExclude, OutputsMatchState, Mode
  <2>8. CASE r.type = "ABZ_SCHEDULE" /\ AbzSchedule(r)
    <3>1. /\ r.set_ticks => valid_ticks(r.ticks)
          /\ r.set_direction => r.direction \in 0..1
      BY <1>2, <2>8 DEF Admitted
    <3>2. r.at \in Tick BY <1>t, <2>8, StimAssumption DEF RequestTyped, Tick, Wrap
    <3>3. r.set_ticks => r.ticks \in Period
      BY <3>1, <1>t, <2>8, StimAssumption DEF valid_ticks, Period, RequestTyped
    <3>4. /\ update' \in Update
          /\ update'.set_ticks => update'.ticks \in Period
          /\ update'.set_direction => update'.direction \in 0..1
      BY <3>1, <3>2, <3>3, <1>t, <2>8 DEF AbzSchedule, Update, RequestTyped
    <3> QED BY <3>4, <2>8 DEF AbzSchedule, DataOK, OwnersExclude, OutputsMatchState, modes
  <2>9. CASE r.type = "ABZ_DIRECTION" /\ AbzDirection(r)
    <3>1. r.direction \in 0..1 BY <1>2, <2>9 DEF Admitted
    <3>2. abz' \in AbzState /\ abz_bits(abz') = abz_bits(abz)
      BY <3>1, <2>9 DEF AbzDirection, AbzState, DataOK, abz_bits, index_is_active
    <3> QED BY <3>2, <2>9 DEF AbzDirection, DataOK, OwnersExclude, OutputsMatchState, modes
  <2> QED BY <2>e, <2>1, <2>2, <2>3, <2>4, <2>5, <2>6, <2>7, <2>8, <2>9 DEF Effect
<1> QED BY <1>1, <1>2

(* Entering a mode leaves the generator typed and shown on the pins.          *)
LEMMA RunKeeps ==
    ASSUME DataOK, now \in Tick
    PROVE  /\ RunAbz => /\ abz' \in AbzState /\ R30' = abz_bits(abz') /\ R30' \subseteq {0, 1, 2}
                        /\ running' = TRUE /\ active_mode' = "abz" /\ hall' = hall
           /\ RunHall => /\ hall' \in HallState /\ R30' = hall_step_to_bits(hall'.step)
                         /\ R30' \subseteq {0, 1, 2}
                         /\ running' = TRUE /\ active_mode' = "hall" /\ abz' = abz
<1>1. ASSUME RunAbz PROVE abz' \in AbzState
  <2>1. After(now, abz.ticks) \in Tick BY AfterTick, PeriodFacts DEF DataOK, AbzState
  <2> QED BY <2>1, <1>1 DEF RunAbz, AbzState, DataOK
<1>2. ASSUME RunHall PROVE hall' \in HallState /\ hall'.step = hall.initial_step
  <2>1. After(now, hall.ticks) \in Tick BY AfterTick, PeriodFacts DEF DataOK, HallState
  <2> QED BY <2>1, <1>2 DEF RunHall, HallState, DataOK
<1> QED BY <1>1, <1>2, AbzBitsRange, HallBitsRange DEF RunAbz, RunHall

(* A transition of the ABZ generator: typed, shown, and one pin at a time.    *)
LEMMA AbzTransitionKeeps ==
    ASSUME DataOK, now \in Tick, AbzTransition
    PROVE  /\ abz' \in AbzState /\ R30' = abz_bits(abz') /\ R30' \subseteq {0, 1, 2}
           /\ abz'.phase = (abz.phase + IF abz.direction = 0 THEN 1 ELSE 3) % 4
<1>1. NextDeadline(now, abz.next, abz.ticks) \in Tick
  BY NextDeadlineTick DEF DataOK, AbzState
<1>2. (abz.phase + IF abz.direction = 0 THEN 1 ELSE 3) % 4 \in 0..3
  BY DEF DataOK, AbzState
<1>3. (IF abz.index_phase + 1 < abz.period THEN abz.index_phase + 1 ELSE 0) \in Nat
  BY DEF DataOK, AbzState
<1> QED BY <1>1, <1>2, <1>3, AbzBitsRange DEF AbzTransition, DataOK, AbzState

LEMMA HallTransitionKeeps ==
    ASSUME DataOK, now \in Tick, HallTransition
    PROVE  /\ hall' \in HallState /\ R30' = hall_step_to_bits(hall'.step) /\ R30' \subseteq {0, 1, 2}
           /\ hall'.step = (hall.step + IF hall.direction = 0 THEN 1 ELSE 5) % 6
<1>1. NextDeadline(now, hall.next, hall.ticks) \in Tick
  BY NextDeadlineTick DEF DataOK, HallState
<1>2. (hall.step + IF hall.direction = 0 THEN 1 ELSE 5) % 6 \in 0..5
  BY DEF DataOK, HallState
<1> QED BY <1>1, <1>2, HallBitsRange DEF HallTransition, DataOK, HallState

LEMMA UpdateKeeps ==
    ASSUME DataOK, now \in Tick, ScheduledUpdate
    PROVE  abz' \in AbzState /\ abz_bits(abz') = abz_bits(abz) /\ update' \in Update /\ ~update'.pending
<1> DEFINE ticks == IF update.set_ticks THEN update.ticks ELSE abz.ticks
<1>0. update.pending BY DEF ScheduledUpdate, update_due
<1>1. ticks \in Period BY <1>0 DEF DataOK, AbzState, Update
<1>2. After(now, ticks) \in Tick BY <1>1, AfterTick, PeriodFacts
<1>3. (IF update.set_direction THEN update.direction ELSE abz.direction) \in 0..1
  BY <1>0 DEF DataOK, AbzState
<1>4. abz' = [abz EXCEPT !.ticks = ticks, !.next = After(now, ticks),
                         !.direction = IF update.set_direction THEN update.direction ELSE abz.direction]
  BY DEF ScheduledUpdate, DataOK, AbzState
<1> HIDE DEF ticks
<1>5. abz' \in AbzState BY <1>1, <1>2, <1>3, <1>4 DEF DataOK, AbzState
<1>6. abz_bits(abz') = abz_bits(abz)
  BY <1>4 DEF DataOK, AbzState, abz_bits, index_is_active
<1>7. update' \in Update /\ ~update'.pending BY DEF ScheduledUpdate, NoUpdate, DataOK, Update
<1> QED BY <1>5, <1>6, <1>7
-------------------------------------------------------------------------------
LEMMA Init_Inv == StimInit => StimInv
<1> SUFFICES ASSUME StimInit PROVE StimInv OBVIOUS
<1>1. 0 \in Tick /\ Default \in Period BY StimAssumption DEF Tick, Wrap, Period
<1>2. abz \in AbzState /\ hall \in HallState /\ update \in Update
  BY <1>1 DEF StimInit, AbzState, HallState, Update
<1>3. StimTypeOK
  <2>1. kick \in BOOLEAN /\ host_int \in BOOLEAN /\ running \in BOOLEAN BY DEF StimInit
  <2>2. rx \in 0..MaxRx /\ served \in 0..MaxRx BY StimAssumption DEF StimInit
  <2>3. ~update.pending /\ R30 \subseteq {0, 1, 2} BY DEF StimInit
  <2> QED BY <1>1, <1>2, <2>1, <2>2, <2>3 DEF StimInit, StimTypeOK, Mode
<1> QED BY <1>3 DEF StimInit, StimInv, OneOwner, OutputsMatchState, NoLostWakeup

(* How StimInv decomposes into the parts the lemmas speak of.                 *)
LEMMA Split ==
    /\ StimInv => DataOK /\ QueueOK /\ now \in Tick /\ OwnersExclude /\ OutputsMatchState
                  /\ NoLostWakeup /\ (start_pending_mode # "none" => pc = "acked")
    /\ (DataOK /\ QueueOK /\ now \in Tick /\ OwnersExclude /\ OutputsMatchState
        /\ NoLostWakeup /\ (start_pending_mode # "none" => pc = "acked"))' => StimInv'
BY DEF StimInv, StimTypeOK, OneOwner, DataOK, QueueOK, OwnersExclude

LEMMA Time_Tick == ASSUME now \in Tick, TimePasses PROVE now' \in Tick
BY AfterTick, StimAssumption DEF TimePasses

LEMMA Loop_Inv == ASSUME StimInv, Loop, TimePasses PROVE StimInv'
<1>i. /\ DataOK /\ QueueOK /\ now \in Tick /\ OwnersExclude /\ OutputsMatchState
      /\ NoLostWakeup /\ (start_pending_mode # "none" => pc = "acked")
  BY Split
<1>n. now' \in Tick BY <1>i, Time_Tick
<1>p. pc = "loop" /\ start_pending_mode = "none" BY <1>i DEF Loop
<1>q. SUFFICES /\ DataOK' /\ QueueOK' /\ OwnersExclude' /\ OutputsMatchState'
               /\ NoLostWakeup' /\ start_pending_mode' = "none"
  BY <1>n, Split
<1>1. CASE ArmedStart
  <2>1. /\ abz' \in AbzState /\ R30' = abz_bits(abz') /\ R30' \subseteq {0, 1, 2}
        /\ running' = TRUE /\ active_mode' = "abz" /\ hall' = hall
    BY <1>1, <1>i, RunKeeps DEF ArmedStart
  <2> QED BY <2>1, <1>1, <1>i, <1>p DEF ArmedStart, rpmsg, DataOK, QueueOK, OwnersExclude,
             OutputsMatchState, NoLostWakeup, Mode
<1>2. CASE ScheduledUpdate
  <2>1. abz' \in AbzState /\ abz_bits(abz') = abz_bits(abz) /\ update' \in Update /\ ~update'.pending
    BY <1>2, <1>i, UpdateKeeps
  <2> QED BY <2>1, <1>2, <1>i, <1>p DEF ScheduledUpdate, rpmsg, modes, DataOK, QueueOK, OwnersExclude,
             OutputsMatchState, NoLostWakeup
<1>3. CASE AbzTransition
  <2>1. abz' \in AbzState /\ R30' = abz_bits(abz') /\ R30' \subseteq {0, 1, 2}
    BY <1>3, <1>i, AbzTransitionKeeps
  <2>2. active_mode = "abz" BY <1>3 DEF AbzTransition, abz_due
  <2> QED BY <2>1, <2>2, <1>3, <1>i, <1>p DEF AbzTransition, rpmsg, modes, DataOK, QueueOK, OwnersExclude,
             OutputsMatchState, NoLostWakeup
<1>4. CASE HallTransition
  <2>1. hall' \in HallState /\ R30' = hall_step_to_bits(hall'.step) /\ R30' \subseteq {0, 1, 2}
    BY <1>4, <1>i, HallTransitionKeeps
  <2>2. active_mode = "hall" BY <1>4 DEF HallTransition, hall_due
  <2> QED BY <2>1, <2>2, <1>4, <1>i, <1>p DEF HallTransition, rpmsg, modes, DataOK, QueueOK, OwnersExclude,
             OutputsMatchState, NoLostWakeup
<1>5. CASE PollHost
  <2>1. DataOK' /\ OwnersExclude' /\ OutputsMatchState' /\ start_pending_mode' = "none"
    BY <1>5, <1>i, <1>p DEF PollHost, modes, DataOK, OwnersExclude, OutputsMatchState
  <2>2. kick' \in BOOLEAN /\ host_int' \in BOOLEAN BY <1>5, <1>i DEF PollHost, QueueOK
  <2>3. /\ pc' \in {"loop", "drain"} /\ rx' \in 0..MaxRx
        /\ served' \in 0..MaxRx /\ rx' + served' <= MaxRx
    BY <1>5, <1>i, StimAssumption DEF PollHost, QueueOK
  <2>4. NoLostWakeup' BY <1>5, <1>i, <1>p DEF PollHost, NoLostWakeup
  <2> QED BY <2>1, <2>2, <2>3, <2>4 DEF QueueOK
<1> QED BY <1>1, <1>2, <1>3, <1>4, <1>5 DEF Loop

LEMMA Work_Inv == ASSUME StimInv, Work PROVE StimInv'
<1>i. /\ DataOK /\ QueueOK /\ now \in Tick /\ OwnersExclude /\ OutputsMatchState
      /\ NoLostWakeup /\ (start_pending_mode # "none" => pc = "acked")
  BY Split
<1>n. now' \in Tick BY <1>i, Time_Tick DEF Work
<1>1. CASE Loop BY <1>1, Loop_Inv DEF Work
<1>2. CASE StartPending
  <2>1. QueueOK' /\ NoLostWakeup' /\ start_pending_mode' = "none"
    BY <1>2, <1>i DEF StartPending, rpmsg, QueueOK, NoLostWakeup
  <2>2. DataOK' /\ OwnersExclude' /\ OutputsMatchState'
    <3>1. CASE start_pending_mode = "abz" /\ RunAbz
      <4>1. /\ abz' \in AbzState /\ R30' = abz_bits(abz') /\ R30' \subseteq {0, 1, 2}
            /\ running' = TRUE /\ active_mode' = "abz" /\ hall' = hall
        BY <3>1, <1>i, RunKeeps
      <4> QED BY <4>1, <3>1, <1>2, <1>i DEF StartPending, DataOK, OwnersExclude, OutputsMatchState, Mode
    <3>2. CASE start_pending_mode = "hall" /\ RunHall
      <4>1. /\ hall' \in HallState /\ R30' = hall_step_to_bits(hall'.step)
            /\ R30' \subseteq {0, 1, 2}
            /\ running' = TRUE /\ active_mode' = "hall" /\ abz' = abz
        BY <3>2, <1>i, RunKeeps
      <4> QED BY <4>1, <3>2, <1>2, <1>i DEF StartPending, DataOK, OwnersExclude, OutputsMatchState, Mode
    <3>3. CASE start_pending_mode = "none" /\ UNCHANGED <<running, active_mode, abz, hall, R30>>
      BY <3>3, <1>2, <1>i DEF StartPending, DataOK, OwnersExclude, OutputsMatchState, Mode
    <3> QED BY <3>1, <3>2, <3>3, <1>2 DEF StartPending
  <2> QED BY <2>1, <2>2, <1>n, Split
<1>3. CASE DrainEnd
  <2>1. DataOK' /\ OwnersExclude' /\ OutputsMatchState' /\ start_pending_mode' = "none"
    BY <1>3, <1>i DEF DrainEnd, modes, DataOK, OwnersExclude, OutputsMatchState
  <2>2. QueueOK' /\ NoLostWakeup'
    BY <1>3, <1>i, StimAssumption DEF DrainEnd, rpmsg, QueueOK, NoLostWakeup
  <2> QED BY <2>1, <2>2, <1>n, Split
<1> QED BY <1>1, <1>2, <1>3 DEF Work

LEMMA Serve_Inv == ASSUME StimInv, NEW r \in Requests, Serve(r) PROVE StimInv'
<1>i. /\ DataOK /\ QueueOK /\ now \in Tick /\ OwnersExclude /\ OutputsMatchState /\ NoLostWakeup
  BY Split
<1>n. now' \in Tick BY <1>i, Time_Tick DEF Serve
<1>1. DataOK' /\ OwnersExclude' /\ OutputsMatchState' BY <1>i, HandleKeeps DEF Serve, Receive
<1>2. QueueOK' /\ NoLostWakeup' /\ pc' = "acked"
  BY <1>i, StimAssumption DEF Serve, Receive, QueueOK, NoLostWakeup
<1> QED BY <1>n, <1>1, <1>2, Split

LEMMA Host_Inv == ASSUME StimInv, HostSend \/ HostKick PROVE StimInv'
<1>i. /\ DataOK /\ QueueOK /\ now \in Tick /\ OwnersExclude /\ OutputsMatchState
      /\ NoLostWakeup /\ (start_pending_mode # "none" => pc = "acked")
  BY Split
<1>1. UNCHANGED fwvars BY DEF HostSend, HostKick
<1>2. DataOK' /\ OwnersExclude' /\ OutputsMatchState' /\ now' \in Tick
      /\ (start_pending_mode' # "none" => pc' = "acked")
  BY <1>1, <1>i DEF fwvars, modes, DataOK, OwnersExclude, OutputsMatchState
<1>3. CASE HostSend
  <2>1. kick' \in BOOLEAN /\ host_int' \in BOOLEAN BY <1>3, <1>i DEF HostSend, QueueOK
  <2>2. /\ pc' \in {"loop", "drain", "acked"} /\ rx' \in 0..MaxRx
        /\ served' \in 0..MaxRx /\ (pc' # "loop" => rx' + served' <= MaxRx)
    BY <1>3, <1>i, StimAssumption DEF HostSend, fwvars, QueueOK
  <2>3. NoLostWakeup' BY <1>3 DEF HostSend, NoLostWakeup
  <2> QED BY <1>2, <2>1, <2>2, <2>3, Split DEF QueueOK
<1>4. CASE HostKick
  <2>1. QueueOK' /\ NoLostWakeup' BY <1>4, <1>1, <1>i DEF HostKick, fwvars, QueueOK, NoLostWakeup
  <2> QED BY <1>2, <2>1, Split
<1> QED BY <1>3, <1>4

LEMMA Next_Inv == StimInv /\ [StimNext]_stimvars => StimInv'
<1> SUFFICES ASSUME StimInv, [StimNext]_stimvars PROVE StimInv' OBVIOUS
<1>1. CASE Work BY <1>1, Work_Inv
<1>2. ASSUME NEW r \in Requests, Serve(r) PROVE StimInv' BY <1>2, Serve_Inv
<1>3. CASE HostSend \/ HostKick BY <1>3, Host_Inv
<1>4. CASE UNCHANGED stimvars
  BY <1>4 DEF stimvars, rpmsg, modes, StimInv, StimTypeOK, OneOwner, OutputsMatchState, NoLostWakeup
<1> QED BY <1>1, <1>2, <1>3, <1>4 DEF StimNext, Firmware

(* The inductive invariant of the firmware: types, one owner of the outputs,   *)
(* pins that show the owner, no request left behind.                         *)
THEOREM StimCorrect == StimSpec => []StimInv
<1> QED BY Init_Inv, Next_Inv, PTL DEF StimSpec

(* Running, armed and about to start exclude each other in main.c, so that    *)
(* the armed deadline, which does not look at running, cannot take over a      *)
(* running generator.                                                        *)
THEOREM StimOneOwner == StimSpec => []OneOwner
<1>1. StimInv => OneOwner BY DEF StimInv
<1> QED BY <1>1, StimCorrect, PTL

(* The pins of R30 always show the generator's state and are low when          *)
(* nothing runs.                                                             *)
THEOREM StimOutputs == StimSpec => []OutputsMatchState
<1>1. StimInv => OutputsMatchState BY DEF StimInv
<1> QED BY <1>1, StimCorrect, PTL

(* Clearing the interrupt before draining the vring loses no request.         *)
THEOREM StimNoLostWakeup == StimSpec => []NoLostWakeup
<1>1. StimInv => NoLostWakeup BY DEF StimInv
<1> QED BY <1>1, StimCorrect, PTL
-------------------------------------------------------------------------------
LEMMA Still == ASSUME UNCHANGED R30 PROVE GrayStep
BY DEF GrayStep, AtMostOne, Moved

(* The two tables are Gray sequences.                                         *)
LEMMA PhaseGray ==
    ASSUME NEW p \in 0..3, NEW q \in {(p + 1) % 4, (p + 3) % 4}
    PROVE  (0 \in phase_to_ab(p) <=> 0 \in phase_to_ab(q)) \/ (1 \in phase_to_ab(p) <=> 1 \in phase_to_ab(q))
<1>1. \/ p \in {0, 2} /\ q \in {1, 3}
      \/ p \in {1, 3} /\ q \in {0, 2}
  <2>1. 4 % 4 = 0 /\ 5 % 4 = 1 /\ 6 % 4 = 2 /\ 1 % 4 = 1 /\ 2 % 4 = 2 /\ 3 % 4 = 3 OBVIOUS
  <2>2. p = 0 \/ p = 1 \/ p = 2 \/ p = 3 OBVIOUS
  <2>3. CASE p = 0 BY <2>1, <2>3
  <2>4. CASE p = 1 BY <2>1, <2>4
  <2>5. CASE p = 2 BY <2>1, <2>5
  <2>6. CASE p = 3 BY <2>1, <2>6
  <2> QED BY <2>2, <2>3, <2>4, <2>5, <2>6
<1> QED BY <1>1 DEF phase_to_ab

LEMMA HallGray ==
    ASSUME NEW s \in 0..5, NEW t \in {(s + 1) % 6, (s + 5) % 6},
           NEW x \in {0, 1, 2}, NEW y \in {0, 1, 2},
           (x \in hall_step_to_bits(s)) # (x \in hall_step_to_bits(t)),
           (y \in hall_step_to_bits(s)) # (y \in hall_step_to_bits(t))
    PROVE  x = y
<1>1. \/ s = 0 /\ t \in {1, 5}
      \/ s = 1 /\ t \in {0, 2}
      \/ s = 2 /\ t \in {1, 3}
      \/ s = 3 /\ t \in {2, 4}
      \/ s = 4 /\ t \in {3, 5}
      \/ s = 5 /\ t \in {4, 0}
  <2>1. /\ 1 % 6 = 1 /\ 2 % 6 = 2 /\ 3 % 6 = 3 /\ 4 % 6 = 4 /\ 5 % 6 = 5
        /\ 6 % 6 = 0 /\ 7 % 6 = 1 /\ 8 % 6 = 2 /\ 9 % 6 = 3 /\ 10 % 6 = 4
    OBVIOUS
  <2>2. s = 0 \/ s = 1 \/ s = 2 \/ s = 3 \/ s = 4 \/ s = 5 OBVIOUS
  <2>3. CASE s = 0 BY <2>1, <2>3
  <2>4. CASE s = 1 BY <2>1, <2>4
  <2>5. CASE s = 2 BY <2>1, <2>5
  <2>6. CASE s = 3 BY <2>1, <2>6
  <2>7. CASE s = 4 BY <2>1, <2>7
  <2>8. CASE s = 5 BY <2>1, <2>8
  <2> QED BY <2>2, <2>3, <2>4, <2>5, <2>6, <2>7, <2>8
<1> QED BY <1>1 DEF hall_step_to_bits

LEMMA AbzMotion ==
    ASSUME StimInv, AbzTransition, now \in Tick PROVE AtMostOne(Moved({0, 1}))
<1>i. DataOK /\ OutputsMatchState BY Split
<1>1. /\ R30' = abz_bits(abz')
      /\ abz'.phase = (abz.phase + IF abz.direction = 0 THEN 1 ELSE 3) % 4
  BY <1>i, AbzTransitionKeeps
<1>2. R30 = abz_bits(abz) BY <1>i DEF AbzTransition, abz_due, OutputsMatchState
<1>3. abz.phase \in 0..3 /\ abz'.phase \in {(abz.phase + 1) % 4, (abz.phase + 3) % 4}
  BY <1>1, <1>i DEF DataOK, AbzState
<1>4. \A a : /\ 0 \in abz_bits(a) <=> 0 \in phase_to_ab(a.phase)
             /\ 1 \in abz_bits(a) <=> 1 \in phase_to_ab(a.phase)
  BY DEF abz_bits
<1>5. (0 \in R30 <=> 0 \in R30') \/ (1 \in R30 <=> 1 \in R30')
  BY <1>1, <1>2, <1>3, <1>4, PhaseGray
<1> QED BY <1>5 DEF AtMostOne, Moved

LEMMA HallMotion ==
    ASSUME StimInv, HallTransition, now \in Tick PROVE AtMostOne(Moved({0, 1, 2}))
<1>i. DataOK /\ OutputsMatchState BY Split
<1>1. /\ R30' = hall_step_to_bits(hall'.step)
      /\ hall'.step = (hall.step + IF hall.direction = 0 THEN 1 ELSE 5) % 6
  BY <1>i, HallTransitionKeeps
<1>2. R30 = hall_step_to_bits(hall.step) BY <1>i DEF HallTransition, hall_due, OutputsMatchState
<1>3. /\ hall.step \in 0..5
      /\ hall'.step \in {(hall.step + 1) % 6, (hall.step + 5) % 6}
  BY <1>1, <1>i DEF DataOK, HallState
<1> QED BY <1>1, <1>2, <1>3, HallGray DEF AtMostOne, Moved

LEMMA Next_Gray == StimInv /\ [StimNext]_stimvars => GrayStep
<1> SUFFICES ASSUME StimInv, [StimNext]_stimvars PROVE GrayStep OBVIOUS
<1>i. DataOK /\ OwnersExclude /\ now \in Tick /\ OutputsMatchState BY Split
<1>1. CASE Work
  <2>1. CASE Loop
    <3>1. CASE ArmedStart
      BY <3>1, <1>i DEF ArmedStart, armed_due, OwnersExclude, GrayStep
    <3>2. CASE ScheduledUpdate BY <3>2, Still DEF ScheduledUpdate
    <3>3. CASE AbzTransition
      BY <3>3, <1>i, AbzMotion DEF GrayStep, AbzTransition, abz_due
    <3>4. CASE HallTransition
      BY <3>4, <1>i, HallMotion DEF GrayStep, HallTransition, hall_due
    <3>5. CASE PollHost BY <3>5, Still DEF PollHost
    <3> QED BY <2>1, <3>1, <3>2, <3>3, <3>4, <3>5 DEF Loop
  <2>2. CASE StartPending
    BY <2>2, <1>i, Still DEF StartPending, OwnersExclude, GrayStep
  <2>3. CASE DrainEnd BY <2>3, Still DEF DrainEnd
  <2> QED BY <1>1, <2>1, <2>2, <2>3 DEF Work
<1>2. ASSUME NEW r \in Requests, Serve(r) PROVE GrayStep
  <2>1. handle_request(r) BY <1>2 DEF Serve, Receive
  <2>2. CASE ~Admitted(r) BY <2>1, <2>2, Still DEF handle_request
  <2>3. CASE Admitted(r)
    <3>1. Effect(r) BY <2>1, <2>3 DEF handle_request
    <3>2. \/ ForceSafe \/ HallStop \/ UNCHANGED R30
          \/ r.type \in {"ABZ_CONFIG", "HALL_CONFIG"}
      BY <3>1 DEF Effect, Start, AbzArm, AbzSchedule, AbzDirection
    <3>3. CASE r.type \in {"ABZ_CONFIG", "HALL_CONFIG"}
      BY <3>3, <2>3 DEF Admitted, busy, GrayStep
    <3> QED BY <3>2, <3>3, Still DEF ForceSafe, HallStop, GrayStep
  <2> QED BY <2>2, <2>3
<1>3. CASE HostSend \/ HostKick BY <1>3, Still DEF HostSend, HostKick, fwvars
<1>4. CASE UNCHANGED stimvars BY <1>4, Still DEF stimvars
<1> QED BY <1>1, <1>2, <1>3, <1>4 DEF StimNext, Firmware

(* While a generator runs, at most one of A and B, or of U, V and W, changes   *)
(* in a step of the firmware.                                                *)
THEOREM StimGrayMotion == StimSpec => GrayMotion
<1>1. StimInv /\ [StimNext]_stimvars => [GrayStep]_stimvars BY Next_Gray
<1> QED BY <1>1, StimCorrect, PTL DEF StimSpec, GrayMotion
-------------------------------------------------------------------------------
(* Arithmetic of the wrapping counter, without remainders: what After and Diff  *)
(* are on ticks.                                                                *)
LEMMA WrapOnce ==
    ASSUME NEW a \in Int, -Wrap <= a, a < 2 * Wrap
    PROVE  a % Wrap = IF a < 0 THEN a + Wrap ELSE IF a < Wrap THEN a ELSE a - Wrap
<1>0. Wrap \in Nat \ {0} BY StimAssumption DEF Wrap
<1>1. /\ a % Wrap \in 0..(Wrap - 1) /\ a \div Wrap \in Int
      /\ a = Wrap * (a \div Wrap) + (a % Wrap)
  BY <1>0
<1>2. PICK p, m : p = a \div Wrap /\ m = a % Wrap OBVIOUS
<1>3. p \in Int /\ m \in 0..(Wrap - 1) /\ a = Wrap * p + m BY <1>1, <1>2
<1>4. PICK w : w = Wrap * p OBVIOUS
<1>5. w \in Int /\ a = w + m BY <1>0, <1>3, <1>4
<1>6. CASE p >= 2
  <2>1. Wrap * p >= Wrap * 2 BY <1>0, <1>3, <1>6, Z3
  <2> QED BY <2>1, <1>0, <1>3, <1>4, <1>5
<1>7. CASE p <= -2
  <2>1. Wrap * p <= Wrap * (-2) BY <1>0, <1>3, <1>7, Z3
  <2> QED BY <2>1, <1>0, <1>3, <1>4, <1>5
<1>8. CASE p \in {-1, 0, 1}
  <2>1. w = IF p = -1 THEN -Wrap ELSE IF p = 0 THEN 0 ELSE Wrap BY <1>0, <1>4, <1>8
  <2> QED BY <2>1, <1>0, <1>2, <1>3, <1>5, <1>8
<1> QED BY <1>3, <1>6, <1>7, <1>8

LEMMA AfterIs ==
    ASSUME NEW t \in Tick, NEW d \in 0..Wrap
    PROVE  After(t, d) = IF t + d < Wrap THEN t + d ELSE t + d - Wrap
<1>0. Wrap \in Nat \ {0} BY StimAssumption DEF Wrap
<1>1. PICK a : a = t + d OBVIOUS
<1>2. a \in Int /\ -Wrap <= a /\ 0 <= a /\ a < 2 * Wrap BY <1>0, <1>1 DEF Tick
<1>3. a % Wrap = IF a < Wrap THEN a ELSE a - Wrap BY <1>2, WrapOnce
<1>4. t \in Int /\ d \in Int BY <1>0 DEF Tick
<1> QED BY <1>0, <1>1, <1>3, <1>4 DEF After

LEMMA DiffIs ==
    ASSUME NEW a \in Tick, NEW b \in Tick
    PROVE  Diff(a, b) = IF b <= a THEN a - b ELSE a - b + Wrap
<1>0. Wrap \in Nat \ {0} BY StimAssumption DEF Wrap
<1>1. PICK c : c = a - b OBVIOUS
<1>2. c \in Int /\ -Wrap <= c /\ c < Wrap /\ c < 2 * Wrap BY <1>0, <1>1 DEF Tick
<1>3. c % Wrap = IF c < 0 THEN c + Wrap ELSE c BY <1>2, WrapOnce
<1>4. a \in Int /\ b \in Int /\ (b <= a <=> ~(c < 0)) BY <1>0, <1>1 DEF Tick
<1> QED BY <1>1, <1>3, <1>4 DEF Diff

(* A deadline one period ahead, or accumulated by less than one, is ahead.      *)
LEMMA DeadlineAhead ==
    ASSUME NEW t \in Tick, NEW n \in Tick, NEW p \in Period
    PROVE  time_is_future(t, NextDeadline(t, n, p))
<1>0. /\ Half \in Nat \ {0} /\ Wrap = 2 * Half /\ p \in 1..(Half - 1) /\ p \in 0..Wrap
      /\ t \in 0..(Wrap - 1) /\ n \in 0..(Wrap - 1)
  BY StimAssumption DEF Wrap, Period, Tick
<1>1. CASE Diff(t, n) >= p
  <2>1. NextDeadline(t, n, p) = After(t, p) BY <1>1 DEF NextDeadline
  <2>2. After(t, p) \in Tick BY <1>0, AfterTick
  <2>3. Diff(After(t, p), t) = p BY <1>0, <2>2, AfterIs, DiffIs
  <2> QED BY <1>0, <2>1, <2>3 DEF time_is_future
<1>2. CASE ~(Diff(t, n) >= p)
  <2>1. NextDeadline(t, n, p) = After(n, p) BY <1>2 DEF NextDeadline
  <2>2. After(n, p) \in Tick BY <1>0, AfterTick
  <2>3. Diff(t, n) \in 0..(p - 1) BY <1>0, <1>2, DiffIs
  <2>4. Diff(After(n, p), t) = p - Diff(t, n) BY <1>0, <2>2, <2>3, AfterIs, DiffIs
  <2> QED BY <1>0, <2>1, <2>3, <2>4 DEF time_is_future
<1> QED BY <1>1, <1>2
-------------------------------------------------------------------------------
(* The action under the box of NoBurst.                                         *)
NoBurstStep ==
    /\ abz.phase # abz'.phase /\ running /\ running' => time_is_future(now, abz'.next)
    /\ hall.step # hall'.step /\ running /\ running' => time_is_future(now, hall'.next)

LEMMA Next_NoBurst == StimInv /\ [StimNext]_stimvars => NoBurstStep
<1> SUFFICES ASSUME StimInv, [StimNext]_stimvars PROVE NoBurstStep OBVIOUS
<1>i. DataOK /\ OwnersExclude /\ now \in Tick BY Split
<1>0. ASSUME abz'.phase = abz.phase, hall'.step = hall.step PROVE NoBurstStep
  BY <1>0 DEF NoBurstStep
<1>1. CASE Work
  <2>1. CASE Loop
    <3>1. CASE ArmedStart BY <3>1, <1>i DEF ArmedStart, armed_due, OwnersExclude, NoBurstStep
    <3>2. CASE ScheduledUpdate
      <4>1. abz'.phase = abz.phase BY <3>2, <1>i DEF ScheduledUpdate, DataOK, AbzState
      <4> QED BY <4>1, <3>2, <1>0 DEF ScheduledUpdate
    <3>3. CASE AbzTransition
      <4>1. abz'.next = NextDeadline(now, abz.next, abz.ticks) /\ hall' = hall
        BY <3>3, <1>i DEF AbzTransition, DataOK, AbzState
      <4>2. time_is_future(now, abz'.next) BY <4>1, <1>i, DeadlineAhead DEF DataOK, AbzState
      <4> QED BY <4>1, <4>2 DEF NoBurstStep
    <3>4. CASE HallTransition
      <4>1. hall'.next = NextDeadline(now, hall.next, hall.ticks) /\ abz' = abz
        BY <3>4, <1>i DEF HallTransition, DataOK, HallState
      <4>2. time_is_future(now, hall'.next) BY <4>1, <1>i, DeadlineAhead DEF DataOK, HallState
      <4> QED BY <4>1, <4>2 DEF NoBurstStep
    <3>5. CASE PollHost BY <3>5, <1>0 DEF PollHost
    <3> QED BY <2>1, <3>1, <3>2, <3>3, <3>4, <3>5 DEF Loop
  <2>2. CASE StartPending BY <2>2, <1>i, <1>0 DEF StartPending, OwnersExclude, NoBurstStep
  <2>3. CASE DrainEnd BY <2>3, <1>0 DEF DrainEnd
  <2> QED BY <1>1, <2>1, <2>2, <2>3 DEF Work
<1>2. ASSUME NEW r \in Requests, Serve(r) PROVE NoBurstStep
  <2>1. handle_request(r) BY <1>2 DEF Serve, Receive
  <2>2. CASE ~Admitted(r) BY <2>1, <2>2, <1>0 DEF handle_request
  <2>3. CASE Admitted(r)
    <3>1. Effect(r) BY <2>1, <2>3 DEF handle_request
    <3>2. CASE r.type \in {"ABZ_CONFIG", "HALL_CONFIG"}
      BY <3>2, <2>3 DEF Admitted, busy, NoBurstStep
    <3>3. CASE r.type = "ABZ_DIRECTION" /\ AbzDirection(r)
      <4>1. abz'.phase = abz.phase BY <3>3, <1>i DEF AbzDirection, DataOK, AbzState
      <4> QED BY <4>1, <3>3, <1>0 DEF AbzDirection
    <3>4. CASE UNCHANGED <<abz, hall>> BY <3>4, <1>0
    <3> QED BY <3>1, <3>2, <3>3, <3>4 DEF Effect, ForceSafe, HallStop, Start, AbzArm, AbzSchedule
  <2> QED BY <2>2, <2>3
<1>3. CASE HostSend \/ HostKick BY <1>3, <1>0 DEF HostSend, HostKick, fwvars
<1>4. CASE UNCHANGED stimvars BY <1>4, <1>0 DEF stimvars
<1> QED BY <1>1, <1>2, <1>3, <1>4 DEF StimNext, Firmware

(* After a transition the next deadline lies ahead of the counter, however     *)
(* late the transition was: no burst of edges, and no generator that falls      *)
(* silent for half a counter range.                                            *)
THEOREM StimNoBurst == StimSpec => NoBurst
<1>1. StimInv /\ [StimNext]_stimvars => [NoBurstStep]_stimvars BY Next_NoBurst
<1> QED BY <1>1, StimCorrect, PTL DEF StimSpec, NoBurst, NoBurstStep
-------------------------------------------------------------------------------
(* The specification with history is the firmware's.                            *)
LEMMA MC_Step ==
    /\ MCInit => StimInit
    /\ [MCNext]_mcvars => [StimNext]_stimvars
BY DEF MCInit, MCNext, MCFirmware, MCServe, MCHostKick, mcvars, StimNext, Firmware

LEMMA MC_Inv == MCSpec => []StimInv
<1>1. MCInit => StimInv BY MC_Step, Init_Inv
<1>2. StimInv /\ [MCNext]_mcvars => StimInv' BY MC_Step, Next_Inv
<1> QED BY <1>1, <1>2, PTL DEF MCSpec

(* Whoever owns the pins, or will, was authorised since the last stop.          *)
Authorised == busy => authorised

LEMMA Authorised_Step ==
    ASSUME Stops \subseteq {"FORCE_SAFE", "ABZ_STOP"}, StimInv, Authorised, [MCNext]_mcvars
    PROVE  Authorised'
<1>i. OwnersExclude BY Split
<1>1. CASE Work /\ UNCHANGED authorised
  <2>1. busy' => busy
    <3>1. CASE Loop
      BY <3>1 DEF Loop, ArmedStart, armed_due, ScheduledUpdate, AbzTransition, HallTransition,
                  PollHost, modes, busy
    <3>2. CASE StartPending BY <3>2 DEF StartPending, busy
    <3>3. CASE DrainEnd BY <3>3 DEF DrainEnd, modes, busy
    <3> QED BY <1>1, <3>1, <3>2, <3>3 DEF Work
  <2> QED BY <1>1, <2>1 DEF Authorised
<1>2. ASSUME NEW r \in Requests, MCServe(r) PROVE Authorised'
  <2>0. handle_request(r) BY <1>2 DEF MCServe, Serve, Receive
  <2>1. CASE r.type \in Stops
    <3>1. r.type \in {"FORCE_SAFE", "ABZ_STOP"} BY <2>1
    <3>2. ForceSafe BY <3>1, <2>0 DEF handle_request, Admitted, Effect
    <3> QED BY <3>2 DEF ForceSafe, Authorised, busy
  <2>2. CASE r.type \notin Stops
    <3>0. authorised' = \/ authorised
                        \/ r.type \in {"ABZ_START", "HALL_START", "ABZ_ARM"} /\ Admitted(r)
      BY <1>2, <2>2 DEF MCServe
    <3>1. CASE ~Admitted(r)
      BY <3>0, <3>1, <2>0 DEF handle_request, modes, Authorised, busy
    <3>2. CASE Admitted(r)
      <4>1. Effect(r) BY <3>2, <2>0 DEF handle_request
      <4>2. CASE r.type \in {"ABZ_START", "HALL_START", "ABZ_ARM"}
        BY <4>2, <3>0, <3>2 DEF Authorised
      <4>3. CASE r.type \notin {"ABZ_START", "HALL_START", "ABZ_ARM"}
        <5>1. busy' => busy
          BY <4>1, <4>3 DEF Effect, ForceSafe, HallStop, AbzConfig, HallConfig, AbzSchedule,
                            AbzDirection, modes, busy
        <5> QED BY <5>1, <3>0 DEF Authorised
      <4> QED BY <4>2, <4>3
    <3> QED BY <3>1, <3>2
  <2> QED BY <2>1, <2>2
<1>3. CASE UNCHANGED <<modes, authorised>> BY <1>3 DEF modes, Authorised, busy
<1>4. \/ Work /\ UNCHANGED authorised
      \/ \E r \in Requests : MCServe(r)
      \/ UNCHANGED <<modes, authorised>>
  BY DEF MCNext, MCFirmware, MCHostKick, HostKick, HostSend, fwvars, mcvars, stimvars
<1> QED BY <1>1, <1>2, <1>3, <1>4

(* FORCE_SAFE and ABZ_STOP keep the pins silent until a later START or ARM is   *)
(* accepted, whatever else is requested or comes due in between. (HALL_STOP     *)
(* does not: it leaves an armed start alive.)                                  *)
THEOREM StimStoppedStaysSilent ==
    ASSUME Stops \subseteq {"FORCE_SAFE", "ABZ_STOP"}
    PROVE  MCSpec => []StoppedStaysSilent
<1>1. MCInit => Authorised BY DEF MCInit, StimInit, Authorised, busy
<1>2. StimInv /\ Authorised /\ [MCNext]_mcvars => Authorised' BY Authorised_Step
<1>3. StimInv /\ Authorised => StoppedStaysSilent
  BY DEF StimInv, OneOwner, OutputsMatchState, StimTypeOK, Mode, Authorised, busy, StoppedStaysSilent
<1> QED BY <1>1, <1>2, <1>3, MC_Inv, PTL DEF MCSpec
-------------------------------------------------------------------------------
(* The real distance x to an instant, as the wrapping counter shows it.         *)
Shows(x, at, t) ==
    /\ x >= 0 => Diff(at, t) = x
    /\ x < 0  => Diff(t, at) = -x

(* The longest that n steps of the loop take, and the steps made since the      *)
(* deadlines were last looked at: two for each request of the drain.            *)
Longest(n) == n * MaxStep
StepsMade == CASE pc = "drain" -> 2 * served + 1
               [] pc = "acked" -> 2 * served
               [] OTHER        -> 2 * MaxRx + 2
(* How far an armed start is from its deadline, and how late it can be at this   *)
(* point of the loop.                                                          *)
ArmedInv ==
    /\ armed_mode = "none" => remain = 0
    /\ armed_mode = "abz"  => /\ remain \in Int /\ remain < Half
                              /\ remain >= 1 - Longest(StepsMade)
                              /\ Shows(remain, armed_apply_ticks, now)

(* The loop serves all requests it can find within half a counter range.        *)
Roomy == Longest(2 * MaxRx + 2) <= Half

LEMMA LongestFacts ==
    ASSUME NEW n \in Nat
    PROVE  /\ Longest(n) \in Nat /\ Longest(n + 1) = Longest(n) + MaxStep
           /\ \A m \in Nat : n <= m => Longest(n) <= Longest(m)
           /\ Longest(1) = MaxStep
<1>0. MaxStep \in Nat \ {0} BY StimAssumption
<1>1. Longest(n) \in Nat BY <1>0, Z3 DEF Longest
<1>2. Longest(n + 1) = Longest(n) + MaxStep BY <1>0, Z3 DEF Longest
<1>3. ASSUME NEW m \in Nat, n <= m PROVE Longest(n) <= Longest(m) BY <1>0, <1>3, Z3 DEF Longest
<1>4. Longest(1) = MaxStep BY <1>0 DEF Longest
<1> QED BY <1>1, <1>2, <1>3, <1>4

LEMMA StepTime ==
    ASSUME Roomy, now \in Tick, TimePasses
    PROVE  \E d \in 1..MaxStep : now' = After(now, d) /\ Diff(now', now) = d
<1>0. MaxRx \in Nat /\ 2 * MaxRx + 2 \in Nat /\ 1 <= 2 * MaxRx + 2 BY StimAssumption
<1>1. MaxStep <= Half
  <2>1. Longest(1) = MaxStep /\ Longest(1) <= Longest(2 * MaxRx + 2) BY <1>0, LongestFacts
  <2>2. Longest(2 * MaxRx + 2) \in Nat BY <1>0, LongestFacts
  <2> QED BY <2>1, <2>2, StimAssumption DEF Roomy
<1>2. PICK d \in 1..MaxStep : now' = After(now, d) BY DEF TimePasses
<1>3. Wrap = 2 * Half /\ Half \in Nat \ {0} /\ MaxStep \in Nat BY StimAssumption DEF Wrap
<1>4. d \in 0..Wrap /\ d \in Nat /\ d < Wrap BY <1>1, <1>3
<1>5. now' \in Tick BY <1>2, <1>4, AfterTick
<1>6. now' = IF now + d < Wrap THEN now + d ELSE now + d - Wrap BY <1>2, <1>4, AfterIs
<1>7. Diff(now', now) = IF now <= now' THEN now' - now ELSE now' - now + Wrap BY <1>5, DiffIs
<1>8. Diff(now', now) = d BY <1>3, <1>4, <1>6, <1>7 DEF Tick
<1> QED BY <1>2, <1>8

LEMMA ShowsLater ==
    ASSUME NEW at \in Tick, NEW t \in Tick, NEW d \in 1..(Half - 1), NEW x \in Int,
           x < Half, -Half < x - d, Shows(x, at, t)
    PROVE  Shows(x - d, at, After(t, d))
<1>0. Wrap = 2 * Half /\ Half \in Nat \ {0} /\ d \in 0..Wrap /\ d \in Nat
  BY StimAssumption DEF Wrap
<1>1. PICK u : u = After(t, d) OBVIOUS
<1>2. u \in Tick BY <1>0, <1>1, AfterTick
<1>3. u = IF t + d < Wrap THEN t + d ELSE t + d - Wrap BY <1>0, <1>1, AfterIs
<1>4. /\ Diff(at, t) = IF t <= at THEN at - t ELSE at - t + Wrap
      /\ Diff(t, at) = IF at <= t THEN t - at ELSE t - at + Wrap
      /\ Diff(at, u) = IF u <= at THEN at - u ELSE at - u + Wrap
      /\ Diff(u, at) = IF at <= u THEN u - at ELSE u - at + Wrap
  BY <1>2, DiffIs
<1>5. Shows(x - d, at, u) BY <1>0, <1>2, <1>3, <1>4 DEF Shows, Tick
<1> QED BY <1>1, <1>5

(* When the counter shows the distance, due means none is left.                 *)
LEMMA DueIs ==
    ASSUME NEW at \in Tick, NEW t \in Tick, NEW x \in Int, -Half < x, x < Half, Shows(x, at, t)
    PROVE  time_due(t, at) <=> x <= 0
<1>0. Wrap = 2 * Half /\ Half \in Nat \ {0} BY StimAssumption DEF Wrap
<1>1. /\ Diff(at, t) = IF t <= at THEN at - t ELSE at - t + Wrap
      /\ Diff(t, at) = IF at <= t THEN t - at ELSE t - at + Wrap
  BY DiffIs
<1> QED BY <1>0, <1>1 DEF Shows, Tick, time_due

(* One more step of the loop while a start is armed.                            *)
LEMMA MeasureKeeps ==
    ASSUME StimInv, StimInv', Roomy, TimePasses, Measure, armed_mode' = "abz",
           NEW x \in Int, x < Half, Shows(x, armed_apply_ticks', now),
           x = IF armed_mode = "none" THEN Diff(armed_apply_ticks', now) ELSE remain,
           NEW n \in Nat, x >= 1 - Longest(n), n + 1 <= StepsMade', StepsMade' <= 2 * MaxRx + 2,
           StepsMade' \in Nat
    PROVE  ArmedInv'
<1>0. /\ now \in Tick /\ now' \in Tick /\ armed_apply_ticks' \in Tick
      /\ Half \in Nat \ {0} /\ MaxStep \in Nat \ {0} /\ MaxRx \in Nat \ {0}
  BY StimAssumption DEF StimInv, StimTypeOK
<1>1. PICK d \in 1..MaxStep : now' = After(now, d) /\ Diff(now', now) = d BY <1>0, StepTime
<1>2. /\ Longest(n) \in Nat /\ Longest(n + 1) = Longest(n) + MaxStep
      /\ Longest(n + 1) <= Longest(StepsMade') /\ Longest(StepsMade') <= Longest(2 * MaxRx + 2)
      /\ Longest(StepsMade') \in Nat /\ Longest(2 * MaxRx + 2) \in Nat
      /\ Longest(2 * MaxRx + 2) <= Half
  <2>1. n + 1 \in Nat /\ 2 * MaxRx + 2 \in Nat BY <1>0
  <2> QED BY <2>1, LongestFacts DEF Roomy
<1>3. MaxStep < Half
  <2>1. Longest(1) = MaxStep /\ Longest(1 + 1) = Longest(1) + MaxStep BY LongestFacts
  <2>2. 1 + 1 \in Nat /\ 1 + 1 <= 2 * MaxRx + 2 /\ 2 * MaxRx + 2 \in Nat BY <1>0
  <2>3. Longest(1 + 1) <= Longest(2 * MaxRx + 2) BY <2>2, LongestFacts
  <2> QED BY <1>0, <1>2, <2>1, <2>3
<1>4. -Half < x - d /\ x - d >= 1 - Longest(StepsMade') /\ x - d < Half /\ x - d \in Int
  BY <1>0, <1>1, <1>2
<1>5. remain' = x - d
  BY <1>0, <1>1, <1>4 DEF Measure
<1>6. Shows(x - d, armed_apply_ticks', now')
  BY <1>0, <1>1, <1>3, <1>4, ShowsLater
<1> QED BY <1>4, <1>5, <1>6 DEF ArmedInv

LEMMA StepsMadeRange ==
    StimInv => StepsMade \in Nat /\ StepsMade <= 2 * MaxRx + 2
BY StimAssumption DEF StimInv, StimTypeOK, StepsMade

LEMMA ArmedRange ==
    ASSUME StimInv, Roomy, ArmedInv, armed_mode = "abz"
    PROVE  remain \in Int /\ remain > -Half /\ (armed_due <=> remain <= 0)
<1>1. /\ remain \in Int /\ remain < Half /\ remain >= 1 - Longest(StepsMade)
      /\ Shows(remain, armed_apply_ticks, now)
  BY DEF ArmedInv
<1>2. 2 * MaxRx + 2 \in Nat /\ Half \in Nat BY StimAssumption
<1>3. StepsMade \in Nat /\ StepsMade <= 2 * MaxRx + 2 BY StepsMadeRange
<1>4. /\ Longest(StepsMade) <= Longest(2 * MaxRx + 2)
      /\ Longest(StepsMade) \in Nat /\ Longest(2 * MaxRx + 2) \in Nat
  BY <1>2, <1>3, LongestFacts
<1>5. remain > -Half BY <1>1, <1>2, <1>4 DEF Roomy
<1>6. time_due(now, armed_apply_ticks) <=> remain <= 0
  BY <1>1, <1>5, DueIs DEF StimInv, StimTypeOK
<1> QED BY <1>1, <1>5, <1>6 DEF armed_due

(* Steps of the loop itself: either the deadline was looked at and lies ahead,  *)
(* or the drain has gone one step further.                                      *)
LEMMA Armed_Work ==
    ASSUME StimInv, StimInv', Roomy, ArmedInv, Work, Measure PROVE ArmedInv'
<1>t. TimePasses BY DEF Work
<1>m. /\ armed_mode \in {"none", "abz"} /\ armed_mode' \in {"none", "abz"}
      /\ served \in 0..MaxRx /\ MaxRx \in Nat \ {0}
  BY StimAssumption DEF StimInv, StimTypeOK
<1>1. CASE armed_mode' = "none" BY <1>1 DEF Measure, ArmedInv
<1>2. CASE armed_mode' = "abz"
  <2>1. armed_mode = "abz" /\ armed_apply_ticks' = armed_apply_ticks
    BY <1>m, <1>2 DEF Work, Loop, ArmedStart, ScheduledUpdate, AbzTransition, HallTransition, PollHost,
                 StartPending, DrainEnd, modes
  <2>2. /\ remain \in Int /\ remain < Half /\ remain >= 1 - Longest(StepsMade)
        /\ Shows(remain, armed_apply_ticks', now)
    BY <2>1 DEF ArmedInv
  <2>3. StepsMade' \in Nat /\ StepsMade' <= 2 * MaxRx + 2
    <3>1. /\ pc' \in {"loop", "drain", "acked"} /\ served' \in 0..MaxRx
      BY DEF StimInv, StimTypeOK
    <3> QED BY <3>1, <1>m DEF StepsMade
  <2>4. \E n \in Nat : remain >= 1 - Longest(n) /\ n + 1 <= StepsMade'
    <3>1. CASE Loop
      <4>1. ~armed_due /\ (pc' = "loop" \/ (pc' = "drain" /\ served' = 0))
        <5>1. pc = "loop" /\ ~ArmedStart BY <3>1, <1>2 DEF Loop, ArmedStart
        <5>2. CASE ScheduledUpdate BY <5>1, <5>2 DEF ScheduledUpdate
        <5>3. CASE AbzTransition BY <5>1, <5>3 DEF AbzTransition
        <5>4. CASE HallTransition BY <5>1, <5>4 DEF HallTransition
        <5>5. CASE PollHost BY <5>5 DEF PollHost, Quiet
        <5> QED BY <3>1, <5>1, <5>2, <5>3, <5>4, <5>5 DEF Loop
      <4>2. remain >= 1 BY <4>1, <2>1, ArmedRange
      <4>3. Longest(0) \in Nat BY LongestFacts
      <4>4. 0 + 1 <= StepsMade' BY <4>1, <1>m DEF StepsMade
      <4> QED BY <2>2, <4>2, <4>3, <4>4
    <3>2. CASE StartPending
      <4>1. pc = "acked" /\ pc' = "drain" /\ served' = served BY <3>2 DEF StartPending, rpmsg
      <4>2. StepsMade = 2 * served /\ StepsMade' = 2 * served + 1 BY <4>1 DEF StepsMade
      <4>3. 2 * served \in Nat /\ (2 * served) + 1 <= StepsMade' BY <4>2, <1>m
      <4> QED BY <2>2, <4>2, <4>3
    <3>3. CASE DrainEnd
      <4>1. pc = "drain" /\ pc' = "loop" BY <3>3 DEF DrainEnd
      <4>2. StepsMade = 2 * served + 1 /\ StepsMade' = 2 * MaxRx + 2 BY <4>1 DEF StepsMade
      <4>3. 2 * served + 1 \in Nat /\ (2 * served + 1) + 1 <= StepsMade' BY <4>2, <1>m
      <4> QED BY <2>2, <4>2, <4>3
    <3> QED BY <3>1, <3>2, <3>3 DEF Work
  <2>5. PICK n \in Nat : remain >= 1 - Longest(n) /\ n + 1 <= StepsMade' BY <2>4
  <2>6. remain = IF armed_mode = "none" THEN Diff(armed_apply_ticks', now) ELSE remain BY <2>1
  <2> QED BY <1>t, <1>2, <2>2, <2>3, <2>5, <2>6, MeasureKeeps
<1> QED BY <1>m, <1>1, <1>2

(* A request arms a start ahead of the counter, or leaves the armed one alone.  *)
LEMMA Armed_Serve ==
    ASSUME StimInv, StimInv', Roomy, ArmedInv, NEW r \in Requests, Serve(r), Measure PROVE ArmedInv'
<1>t. TimePasses BY DEF Serve
<1>m. /\ armed_mode \in {"none", "abz"} /\ armed_mode' \in {"none", "abz"}
      /\ served \in 0..MaxRx /\ MaxRx \in Nat \ {0}
  BY StimAssumption DEF StimInv, StimTypeOK
<1>h. handle_request(r) BY DEF Serve, Receive
<1>p. /\ pc = "drain" /\ pc' = "acked" /\ served' = served + 1 /\ served' \in 0..MaxRx
  BY DEF Serve, Receive, StimInv, StimTypeOK
<1>s. /\ StepsMade = 2 * served + 1 /\ StepsMade' = (2 * served + 1) + 1
      /\ StepsMade' \in Nat /\ StepsMade' <= 2 * MaxRx + 2 /\ 2 * served + 1 \in Nat
  BY <1>m, <1>p DEF StepsMade
<1>1. CASE armed_mode' = "none" BY <1>1 DEF Measure, ArmedInv
<1>2. CASE armed_mode' = "abz" /\ armed_mode = "abz"
  <2>1. armed_apply_ticks' = armed_apply_ticks
    <3>1. CASE ~Admitted(r) BY <3>1, <1>h DEF handle_request
    <3>2. CASE Admitted(r)
      <4>1. r.type # "ABZ_ARM" BY <3>2, <1>2 DEF Admitted, busy
      <4> QED BY <4>1, <3>2, <1>h DEF handle_request, Effect, ForceSafe, HallStop, AbzConfig, HallConfig,
                 Start, AbzSchedule, AbzDirection
    <3> QED BY <3>1, <3>2
  <2>2. /\ remain \in Int /\ remain < Half /\ remain >= 1 - Longest(2 * served + 1)
        /\ Shows(remain, armed_apply_ticks', now)
        /\ remain = IF armed_mode = "none" THEN Diff(armed_apply_ticks', now) ELSE remain
    BY <1>2, <1>s, <2>1 DEF ArmedInv
  <2>3. (2 * served + 1) + 1 <= StepsMade' BY <1>s
  <2> QED BY <1>t, <1>2, <1>s, <2>2, <2>3, MeasureKeeps
<1>3. CASE armed_mode' = "abz" /\ armed_mode = "none"
  <2>1. Admitted(r) /\ Effect(r) BY <1>3, <1>h DEF handle_request, modes
  <2>2. r.type = "ABZ_ARM" /\ AbzArm(r)
    BY <2>1, <1>3 DEF Effect, ForceSafe, HallStop, AbzConfig, HallConfig, Start, AbzSchedule,
                      AbzDirection, modes
  <2>3. Diff(armed_apply_ticks', now) \in 1..(Half - 1)
    BY <2>1, <2>2 DEF AbzArm, Admitted, time_is_future
  <2>4. PICK x : x = Diff(armed_apply_ticks', now) OBVIOUS
  <2>5. /\ x \in Int /\ x < Half /\ x >= 1 /\ Shows(x, armed_apply_ticks', now)
        /\ x = IF armed_mode = "none" THEN Diff(armed_apply_ticks', now) ELSE remain
    BY <1>3, <2>3, <2>4, StimAssumption DEF Shows
  <2>6. Longest(0) \in Nat /\ 0 + 1 <= StepsMade' BY <1>m, <1>s, LongestFacts
  <2>7. x >= 1 - Longest(0) BY <2>5, <2>6
  <2> QED BY <1>t, <1>3, <1>s, <2>5, <2>6, <2>7, MeasureKeeps
<1> QED BY <1>m, <1>1, <1>2, <1>3

LEMMA Armed_Step ==
    ASSUME StimInv, Roomy, ArmedInv, [MCNext]_mcvars PROVE ArmedInv'
<1>i. StimInv' BY MC_Step, Next_Inv
<1>1. CASE Work /\ Measure BY <1>1, <1>i, Armed_Work
<1>2. ASSUME NEW r \in Requests, MCServe(r) PROVE ArmedInv'
  BY <1>2, <1>i, Armed_Serve DEF MCServe
<1>3. CASE UNCHANGED <<now, pc, served, armed_mode, armed_apply_ticks, remain>>
  BY <1>3 DEF ArmedInv, StepsMade, Shows
<1>4. \/ Work /\ Measure
      \/ \E r \in Requests : MCServe(r)
      \/ UNCHANGED <<now, pc, served, armed_mode, armed_apply_ticks, remain>>
  BY DEF MCNext, MCFirmware, MCHostKick, HostKick, HostSend, fwvars, modes, rpmsg, mcvars, stimvars
<1> QED BY <1>1, <1>2, <1>3, <1>4

(* The armed start fires at its instant and not before, and is never missed by *)
(* half a counter range although the counter wraps, as long as a drain of the   *)
(* whole vring takes less than half a counter range.                           *)
THEOREM StimArmedOnTime ==
    ASSUME (2 * MaxRx + 2) * MaxStep <= Half
    PROVE  MCSpec => []ArmedOnTime
<1>0. Roomy BY DEF Roomy, Longest
<1>1. MCInit => ArmedInv BY DEF MCInit, StimInit, ArmedInv
<1>2. StimInv /\ ArmedInv /\ [MCNext]_mcvars => ArmedInv' BY <1>0, Armed_Step
<1>3. StimInv /\ ArmedInv => ArmedOnTime
  <2> SUFFICES ASSUME StimInv, ArmedInv PROVE ArmedOnTime OBVIOUS
  <2>1. CASE armed_mode = "abz" BY <1>0, <2>1, ArmedRange DEF armed_due, ArmedOnTime
  <2>2. CASE armed_mode = "none" BY <2>2, StimAssumption DEF ArmedInv, ArmedOnTime
  <2> QED BY <2>1, <2>2 DEF StimInv, StimTypeOK
<1> QED BY <1>1, <1>2, <1>3, MC_Inv, PTL DEF MCSpec
-------------------------------------------------------------------------------
(* PruRpc: the queues of a connection.                                           *)
(* Requests and answers in the queues; a refused request answers Refusal.       *)
Messages == [type : Types, seq : Nat \ {0}]
Answerable == Messages \cup {Refusal}
Askings == [pru : Pru, type : Types, sample : BOOLEAN]
Firmwares == {"off", "b0", "b1", "b2", "b2_serial"}
Sessions == [tool : {"none", "cli", "opening", "backend"}, todo : Seq(Askings), waiting : BOOLEAN,
             seq : [Pru -> Nat \ {0}], dead : SUBSET Pru, known : [Pru -> Firmwares],
             basis : {"user", "fresh", "stale"}, lag : [Pru -> Nat], old : [Pru -> Nat]]
RpcTypes ==
    /\ prog \in [Pru -> Firmwares] /\ stim \in {"idle", "armed", "running", "held"}
    /\ toPru \in [Pru -> Seq(Messages)] /\ toHost \in [Pru -> Seq(Answerable)]
    /\ ses \in Sessions
    /\ \A p \in Pru : prog[p] \in Images(p) \cup {"off"} /\ ses.known[p] \in Images(p) \cup {"off"}
    /\ tool = "none" => ses = NoSession
    /\ todo = <<>> => ~ses.waiting

(* One connection: the requests written, the entries that are under way,        *)
(* answered or not, and whether the host waits for an answer.                   *)
Written(p) == seq[p] - 1
Entries(p) == Len(toHost[p]) + Len(toPru[p])
Waits(p) == IF ses.waiting /\ todo[1].pru = p THEN 1 ELSE 0

(* Answers come in order: entry i of a queue is request Written - Entries + i,  *)
(* what is left of earlier programs stands in front, and since at most one      *)
(* answer is read for every request written, the host never gets ahead.        *)
Connected(p) ==
    /\ ses.lag[p] + Waits(p) <= Entries(p) /\ Entries(p) <= Written(p) + ses.lag[p]
    /\ ses.old[p] = IF Entries(p) > Written(p) THEN Entries(p) - Written(p) ELSE 0
    /\ \A i \in 1..Len(toHost[p]) :
          i > ses.old[p] => toHost[p][i] = Refusal \/ toHost[p][i].seq = Written(p) - Entries(p) + i
    /\ \A i \in 1..Len(toPru[p]) :
          i + Len(toHost[p]) > ses.old[p] =>
             toPru[p][i].seq = Written(p) - Entries(p) + Len(toHost[p]) + i
    /\ ses.waiting /\ todo[1].pru = p /\ toPru[p] # <<>> => toPru[p][Len(toPru[p])].type = todo[1].type
Removed(p) == toPru[p] = <<>> /\ toHost[p] = <<>>
InStep == tool # "none" => \A p \in Pru : IF p \in ses.dead THEN Removed(p) ELSE Connected(p)

(* A command: its requests go to one PRU, and each was answered before the next *)
(* is written, samples of the benchmark excepted.                              *)
Turn(p) == Written(p) - Waits(p)
CommandSound ==
    tool = "cli" /\ todo # <<>> =>
        LET p == todo[1].pru IN
        /\ \A i \in 1..Len(todo) : todo[i].pru = p
        /\ p \notin ses.dead /\ Turn(p) >= 1 /\ ses.lag[p] <= 1 => ses.old[p] = 0
        /\ \A i \in 1..Len(todo) : todo[i].sample => p = "PRU0" /\ Turn(p) + i >= 3
        /\ p = "PRU1" /\ p \notin ses.dead => Entries(p) = ses.lag[p] + Waits(p)
        /\ \A i \in 1..Len(todo) :
              /\ todo[i].type = "TIME" /\ i < Len(todo) => Turn(p) + i >= 2
              /\ todo[i].type \in {"ABZ_ARM", "ABZ_SCHEDULE"} => p = "PRU1"
        /\ ses.basis = "stale" => Turn(p) >= 2 /\ ses.lag[p] >= 1

(* The backend: it is as far as the HELLOs of its opening.                      *)
BackendSound ==
    tool \in {"opening", "backend"} =>
        /\ ses.basis = "user"
        /\ \A i \in 1..Len(todo) : ~todo[i].sample /\ todo[i].type \notin {"ABZ_ARM", "ABZ_SCHEDULE"}
        /\ tool = "opening" => \A i \in 1..Len(todo) : todo[i].type = "HELLO"
        /\ tool = "backend" => \A i \in 1..Len(todo) :
              todo[i].pru = "PRU1" => ses.known["PRU1"] # "off"
        /\ \A p \in Pru : p \notin ses.dead /\ ses.known[p] # "off" /\ ses.lag[p] <= 1 => ses.old[p] = 0

(* What the last answer says of the stimulus is still so; so is what the first  *)
(* one says to a command that opened behind a single entry.                     *)
Holds(type) ==
    /\ type \in {"FORCE_SAFE", "ABZ_STOP", "SERIAL_STOP"} => stim = "idle"
    /\ type \in {"STIM_START", "SERIAL_START"} => stim = "running"
    /\ type = "ABZ_ARM" => stim \in {"armed", "running"}
LastHolds == toHost["PRU1"] # <<>> => Holds(toHost["PRU1"][Len(toHost["PRU1"])].type)
FirstHolds ==
    tool = "cli" /\ ses.waiting /\ todo[1].pru = "PRU1" /\ ses.lag["PRU1"] = 1 /\ ses.old["PRU1"] = 1
      /\ toHost["PRU1"] # <<>> /\ toHost["PRU1"][1].type = todo[1].type => Holds(todo[1].type)

RpcInv == RpcTypes /\ InStep /\ CommandSound /\ BackendSound /\ LastHolds /\ FirstHolds
-------------------------------------------------------------------------------
USE DEF tool, todo, seq

(* Queues, one entry at a time.                                                 *)
LEMMA QueueAppend ==
    ASSUME NEW S, NEW q \in Seq(S), NEW e \in S
    PROVE  /\ Append(q, e) \in Seq(S) /\ Len(Append(q, e)) = Len(q) + 1 /\ Append(q, e) # <<>>
           /\ \A i \in 1..Len(q) : Append(q, e)[i] = q[i]
           /\ Append(q, e)[Len(q) + 1] = e
OBVIOUS

LEMMA QueueTail ==
    ASSUME NEW S, NEW q \in Seq(S), q # <<>>
    PROVE  /\ Head(q) = q[1] /\ q[1] \in S /\ Len(q) \in Nat \ {0}
           /\ Tail(q) \in Seq(S) /\ Len(Tail(q)) = Len(q) - 1
           /\ \A i \in 1..(Len(q) - 1) : Tail(q)[i] = q[i + 1] /\ i + 1 \in 1..Len(q)
OBVIOUS

LEMMA QueueConcat ==
    ASSUME NEW S, NEW q \in Seq(S), NEW t \in Seq(S)
    PROVE  /\ q \o t \in Seq(S) /\ Len(q \o t) = Len(q) + Len(t)
           /\ \A i \in 1..Len(q) : (q \o t)[i] = q[i]
           /\ \A i \in 1..Len(t) : (q \o t)[Len(q) + i] = t[i]
OBVIOUS

LEMMA QueueAt ==
    ASSUME NEW S, NEW q \in Seq(S)
    PROVE  /\ Len(q) \in Nat /\ \A i \in 1..Len(q) : q[i] \in S
           /\ q = <<>> <=> Len(q) = 0
OBVIOUS

(* The requests and what they are not.                                          *)
LEMMA TypeFacts ==
    /\ Types = {"HELLO", "TIME", "STATUS", "FORCE_SAFE", "GPIO_LOOPBACK", "CAPTURE", "STIM_CONFIG",
                "STIM_START", "ABZ_STOP", "HALL_STOP", "ABZ_ARM", "ABZ_SCHEDULE", "SERIAL_SETUP",
                "SERIAL_START", "SERIAL_STOP"}
    /\ \A m \in Messages : m.type \in Types /\ m.seq \in Nat \ {0} /\ m # Refusal
    /\ Refusal.type \notin Types
<1>1. UNION {Images(p) : p \in Pru} = {"b0", "b1", "b2", "b2_serial"}
  <2>1. Images("PRU0") = {"b0", "b1"} /\ Images("PRU1") = {"b2", "b2_serial"} BY DEF Images
  <2> QED BY <2>1 DEF Pru
<1>2. Types = Supported("b0") \cup Supported("b1") \cup Supported("b2") \cup Supported("b2_serial")
  BY <1>1 DEF Types
<1>3. /\ Supported("b0") = {"HELLO", "TIME", "STATUS", "FORCE_SAFE", "GPIO_LOOPBACK"}
      /\ Supported("b1") = {"HELLO", "TIME", "STATUS", "FORCE_SAFE", "CAPTURE"}
      /\ Supported("b2") = {"HELLO", "TIME", "STATUS", "FORCE_SAFE", "STIM_CONFIG", "STIM_START",
                            "ABZ_STOP", "HALL_STOP", "ABZ_ARM", "ABZ_SCHEDULE"}
      /\ Supported("b2_serial") = {"HELLO", "TIME", "STATUS", "FORCE_SAFE", "SERIAL_SETUP",
                                   "SERIAL_START", "SERIAL_STOP"}
  BY DEF Supported
<1>4. Types = {"HELLO", "TIME", "STATUS", "FORCE_SAFE", "GPIO_LOOPBACK", "CAPTURE", "STIM_CONFIG",
               "STIM_START", "ABZ_STOP", "HALL_STOP", "ABZ_ARM", "ABZ_SCHEDULE", "SERIAL_SETUP",
               "SERIAL_START", "SERIAL_STOP"}
  BY <1>2, <1>3
<1>5. Refusal.type = "REFUSED" BY DEF Refusal
<1>6. Refusal.type \notin Types BY <1>4, <1>5
<1>7. \A m \in Messages : m.type \in Types /\ m.seq \in Nat \ {0} BY DEF Messages
<1> QED BY <1>4, <1>6, <1>7

LEMMA AsksFacts ==
    ASSUME NEW p \in Pru, NEW s \in Seq(Types)
    PROVE  /\ Asks(p, s) \in Seq(Askings) /\ Len(Asks(p, s)) = Len(s)
           /\ \A i \in 1..Len(s) : /\ Asks(p, s)[i].pru = p /\ Asks(p, s)[i].type = s[i]
                                   /\ ~Asks(p, s)[i].sample
<1>0. Len(s) \in Nat /\ \A i \in 1..Len(s) : s[i] \in Types BY QueueAt
<1>1. \A i \in 1..Len(s) : Ask(p, s[i]) \in Askings BY <1>0 DEF Ask, Askings
<1>2. Asks(p, s) = [i \in 1..Len(s) |-> Ask(p, s[i])] BY DEF Asks
<1>3. Asks(p, s) \in Seq(Askings) /\ Len(Asks(p, s)) = Len(s) BY <1>0, <1>1, <1>2
<1> QED BY <1>2, <1>3 DEF Ask

(* What CommandSound asks of a command that opens the device.                   *)
Opens(c) ==
    /\ c \in Seq(Askings) /\ c # <<>>
    /\ \A i \in 1..Len(c) : /\ c[i].pru = c[1].pru
                            /\ c[i].sample => c[1].pru = "PRU0" /\ i >= 3
                            /\ c[i].type = "TIME" /\ i < Len(c) => i >= 2
                            /\ c[i].type \in {"ABZ_ARM", "ABZ_SCHEDULE"} => c[1].pru = "PRU1"

LEMMA AsksOpen ==
    ASSUME NEW p \in Pru, NEW s \in Seq(Types), s # <<>>,
           \A i \in 1..Len(s) : /\ s[i] = "TIME" /\ i < Len(s) => i >= 2
                                /\ s[i] \in {"ABZ_ARM", "ABZ_SCHEDULE"} => p = "PRU1"
    PROVE  Opens(Asks(p, s))
<1>1. Len(s) \in Nat \ {0} BY QueueAt
<1>2. 1 \in 1..Len(s) BY <1>1
<1>3. PICK a : a = Asks(p, s) OBVIOUS
<1>4. /\ a \in Seq(Askings) /\ Len(a) = Len(s)
      /\ \A i \in 1..Len(s) : a[i].pru = p /\ a[i].type = s[i] /\ ~a[i].sample
  BY <1>3, AsksFacts
<1>5. a # <<>> /\ a[1].pru = p BY <1>1, <1>2, <1>4
<1>6. Opens(a) BY <1>4, <1>5 DEF Opens
<1> QED BY <1>3, <1>6

LEMMA OneOpens ==
    \A p \in Pru, b \in Types : (b \in {"ABZ_ARM", "ABZ_SCHEDULE"} => p = "PRU1") => Opens(Asks(p, <<b>>))
<1>1. ASSUME NEW p \in Pru, NEW b \in Types, b \in {"ABZ_ARM", "ABZ_SCHEDULE"} => p = "PRU1"
      PROVE  Opens(Asks(p, <<b>>))
  <2>1. PICK s : s = <<b>> OBVIOUS
  <2>2. s \in Seq(Types) /\ Len(s) = 1 /\ s[1] = b BY <2>1
  <2>3. PICK c : c = Asks(p, s) OBVIOUS
  <2>4. /\ c \in Seq(Askings) /\ Len(c) = 1
        /\ c[1].pru = p /\ c[1].type = b /\ ~c[1].sample
    BY <2>2, <2>3, AsksFacts
  <2>5. c # <<>> /\ \A i \in 1..Len(c) : i = 1
    <3>1. c \in Seq(Askings) /\ Len(c) = 1 BY <2>4
    <3>2. c # <<>> BY <3>1, QueueAt
    <3> QED BY <3>1, <3>2
  <2>6. Opens(c) BY <1>1, <2>4, <2>5 DEF Opens
  <2> QED BY <2>1, <2>3, <2>6
<1> QED BY <1>1

LEMMA TwoOpen ==
    ASSUME NEW p \in Pru, NEW b \in Types, b \in {"ABZ_ARM", "ABZ_SCHEDULE"} => p = "PRU1"
    PROVE  Opens(Asks(p, <<"HELLO", b>>))
<1>1. PICK s : s = <<"HELLO", b>> OBVIOUS
<1>2. s \in Seq(Types) /\ Len(s) = 2 /\ s[1] = "HELLO" /\ s[2] = b /\ s # <<>>
  BY <1>1, TypeFacts
<1>4. \A i \in 1..Len(s) : i = 1 \/ i = 2 BY <1>2
<1>5. \A i \in 1..Len(s) : /\ s[i] = "TIME" /\ i < Len(s) => i >= 2
                          /\ s[i] \in {"ABZ_ARM", "ABZ_SCHEDULE"} => p = "PRU1"
  BY <1>2, <1>4
<1>6. Opens(Asks(p, s)) BY <1>2, <1>5, AsksOpen
<1> QED BY <1>1, <1>6

LEMMA ThreeOpen ==
    ASSUME NEW b \in Types, b # "TIME" PROVE Opens(Asks("PRU1", <<"HELLO", "TIME", b>>))
<1>1. PICK s : s = <<"HELLO", "TIME", b>> OBVIOUS
<1>2. s \in Seq(Types) /\ Len(s) = 3 /\ s[1] = "HELLO" /\ s[2] = "TIME" /\ s[3] = b /\ s # <<>>
  BY <1>1, TypeFacts
<1>3. "PRU1" \in Pru BY DEF Pru
<1>4. \A i \in 1..Len(s) : i = 1 \/ i = 2 \/ i = 3 BY <1>2
<1>5. \A i \in 1..Len(s) : s[i] = "TIME" /\ i < Len(s) => i >= 2
  BY <1>2, <1>4
<1>6. Opens(Asks("PRU1", s)) BY <1>2, <1>3, <1>5, AsksOpen
<1> QED BY <1>1, <1>6

LEMMA BenchmarkOpens == Opens(run_loopback_benchmark)
<1>0. "PRU0" \in Pru /\ "HELLO" \in Types /\ "GPIO_LOOPBACK" \in Types BY TypeFacts DEF Pru
<1>1. PICK s : s = <<"HELLO", "GPIO_LOOPBACK">> OBVIOUS
<1>2. s \in Seq(Types) /\ Len(s) = 2 /\ s[1] = "HELLO" /\ s[2] = "GPIO_LOOPBACK" BY <1>0, <1>1
<1>3. PICK a : a = Asks("PRU0", s) OBVIOUS
<1>4. /\ a \in Seq(Askings) /\ Len(a) = 2
      /\ \A i \in 1..2 : a[i].pru = "PRU0" /\ a[i].type = s[i] /\ ~a[i].sample
  <2>1. PICK p : p = "PRU0" OBVIOUS
  <2>2. /\ Asks(p, s) \in Seq(Askings) /\ Len(Asks(p, s)) = Len(s)
        /\ \A i \in 1..Len(s) : /\ Asks(p, s)[i].pru = p /\ Asks(p, s)[i].type = s[i]
                                /\ ~Asks(p, s)[i].sample
    BY <1>0, <1>2, <2>1, AsksFacts
  <2> QED BY <1>2, <1>3, <2>1, <2>2
<1>5. PICK x : x = Sample OBVIOUS
<1>6. x \in Askings /\ x.pru = "PRU0" /\ x.type = "GPIO_LOOPBACK" BY <1>0, <1>5 DEF Sample, Ask, Askings
<1>7. PICK c : c = a \o <<x, x>> OBVIOUS
<1>8. /\ c \in Seq(Askings) /\ Len(c) = 4 /\ c[1] = a[1] /\ c[2] = a[2] /\ c[3] = x /\ c[4] = x
  <2>1. PICK y : y = <<x, x>> OBVIOUS
  <2>2. y \in Seq(Askings) /\ Len(y) = 2 /\ y[1] = x /\ y[2] = x BY <1>6, <2>1
  <2>3. c = a \o y BY <1>7, <2>1
  <2>4. /\ c \in Seq(Askings) /\ Len(c) = Len(a) + Len(y)
        /\ \A i \in 1..Len(a) : c[i] = a[i]
        /\ \A i \in 1..Len(y) : c[Len(a) + i] = y[i]
    <3>1. a \in Seq(Askings) /\ y \in Seq(Askings) BY <1>4, <2>2
    <3> QED BY <3>1, <2>3, QueueConcat
  <2>7. c[1] = a[1] /\ c[2] = a[2] BY <1>4, <2>4
  <2>8. c[2 + 1] = x /\ c[2 + 2] = x BY <1>4, <2>2, <2>4
  <2> QED BY <1>4, <2>2, <2>4, <2>7, <2>8
<1>9. c = run_loopback_benchmark BY <1>1, <1>3, <1>5, <1>7 DEF run_loopback_benchmark
<1>10. \A i \in 1..4 : i = 1 \/ i = 2 \/ i = 3 \/ i = 4 OBVIOUS
<1>11. \A i \in 1..4 : c[i].pru = "PRU0" /\ c[i].type \in {"HELLO", "GPIO_LOOPBACK"}
  BY <1>2, <1>4, <1>6, <1>8, <1>10
<1>12. ~a[1].sample /\ ~a[2].sample BY <1>4
<1>13. \A i \in 1..4 : c[i].sample => i >= 3
  <2>1. SUFFICES ASSUME NEW i \in 1..4, c[i].sample PROVE i # 1 /\ i # 2
    BY <1>10
  <2> QED BY <1>8, <1>12, <2>1
<1>14. c # <<>> /\ c[1].pru = "PRU0"
  <2>1. c \in Seq(Askings) /\ Len(c) = 4 BY <1>8
  <2>2. c # <<>> BY <2>1, QueueAt
  <2> QED BY <1>11, <2>2
<1>15. Opens(c) BY <1>8, <1>11, <1>13, <1>14 DEF Opens
<1> QED BY <1>9, <1>15

LEMMA CommandsOpen ==
    \A c \in pru_cli \cup pwm_cli \cup stim_cli \cup hall_cli \cup sensor_cli : Opens(c)
<1>0. "PRU0" \in Pru /\ "PRU1" \in Pru BY DEF Pru
<1>1. ASSUME NEW c \in pru_cli PROVE Opens(c)
  BY <1>0, <1>1, TypeFacts, BenchmarkOpens, OneOpens, TwoOpen DEF pru_cli
<1>2. ASSUME NEW c \in pwm_cli PROVE Opens(c)
  BY <1>0, <1>2, TypeFacts, TwoOpen DEF pwm_cli
<1>3. ASSUME NEW c \in stim_cli PROVE Opens(c)
  BY <1>0, <1>3, TypeFacts, OneOpens, TwoOpen, ThreeOpen DEF stim_cli, resolve_future_ticks
<1>4. ASSUME NEW c \in hall_cli PROVE Opens(c)
  BY <1>0, <1>4, TypeFacts, OneOpens, TwoOpen DEF hall_cli
<1>5. ASSUME NEW c \in sensor_cli PROVE Opens(c)
  BY <1>0, <1>5, TypeFacts, OneOpens, TwoOpen DEF sensor_cli
<1> QED BY <1>1, <1>2, <1>3, <1>4, <1>5

(* The parts of a session that is well typed, and of the one that is closed.     *)
LEMMA SesFacts ==
    ASSUME ses \in Sessions
    PROVE  /\ ses.tool \in {"none", "cli", "opening", "backend"} /\ ses.todo \in Seq(Askings)
           /\ ses.waiting \in BOOLEAN /\ ses.seq \in [Pru -> Nat \ {0}] /\ ses.dead \subseteq Pru
           /\ ses.known \in [Pru -> Firmwares] /\ ses.basis \in {"user", "fresh", "stale"}
           /\ ses.lag \in [Pru -> Nat] /\ ses.old \in [Pru -> Nat]
           /\ \A p \in Pru : Written(p) \in Nat /\ ses.lag[p] \in Nat /\ ses.old[p] \in Nat
BY DEF Sessions, Written

LEMMA Closed ==
    /\ NoSession \in Sessions
    /\ NoSession.tool = "none" /\ NoSession.todo = <<>> /\ ~NoSession.waiting
    /\ \A p \in Pru : NoSession.known[p] = "off"
<1>1. ForAll(1) \in [Pru -> Nat \ {0}] /\ ForAll(0) \in [Pru -> Nat] BY DEF ForAll
<1>2. ForAll("off") \in [Pru -> Firmwares] BY DEF ForAll, Firmwares
<1>3. <<>> \in Seq(Askings) OBVIOUS
<1> QED BY <1>1, <1>2, <1>3 DEF NoSession, Sessions, ForAll

LEMMA QueueFacts ==
    ASSUME RpcTypes
    PROVE  \A p \in Pru : /\ toPru[p] \in Seq(Messages) /\ Len(toPru[p]) \in Nat
                          /\ toHost[p] \in Seq(Answerable) /\ Len(toHost[p]) \in Nat
                          /\ Entries(p) \in Nat /\ Entries(p) = Len(toHost[p]) + Len(toPru[p])
<1>1. toPru \in [Pru -> Seq(Messages)] /\ toHost \in [Pru -> Seq(Answerable)] BY DEF RpcTypes
<1>2. \A p \in Pru : toPru[p] \in Seq(Messages) /\ toHost[p] \in Seq(Answerable) BY <1>1
<1>3. ASSUME NEW p \in Pru
      PROVE  /\ toPru[p] \in Seq(Messages) /\ Len(toPru[p]) \in Nat
             /\ toHost[p] \in Seq(Answerable) /\ Len(toHost[p]) \in Nat
  BY <1>2, QueueAt
<1>4. ASSUME NEW p \in Pru
      PROVE  Entries(p) = Len(toHost[p]) + Len(toPru[p]) /\ Entries(p) \in Nat
  <2>1. Len(toPru[p]) \in Nat /\ Len(toHost[p]) \in Nat BY <1>3
  <2>2. Entries(p) = Len(toHost[p]) + Len(toPru[p]) BY DEF Entries
  <2>3. \A a, b \in Nat : a + b \in Nat OBVIOUS
  <2>4. Len(toHost[p]) + Len(toPru[p]) \in Nat BY <2>1, <2>3, Zenon
  <2> QED BY <2>2, <2>4, Zenon
<1> QED BY <1>3, <1>4

LEMMA TodoFacts ==
    ASSUME RpcTypes, todo # <<>>
    PROVE  /\ Head(todo) = todo[1] /\ todo[1] \in Askings /\ todo[1].pru \in Pru
           /\ todo[1].type \in Types /\ todo[1].sample \in BOOLEAN
           /\ Len(todo) \in Nat \ {0} /\ 1 \in 1..Len(todo) /\ tool # "none"
           /\ Tail(todo) \in Seq(Askings) /\ Len(Tail(todo)) = Len(todo) - 1
           /\ \A i \in 1..(Len(todo) - 1) : Tail(todo)[i] = todo[i + 1] /\ i + 1 \in 1..Len(todo)
<1>1. todo \in Seq(Askings) BY SesFacts DEF RpcTypes
<1>2. /\ Head(todo) = todo[1] /\ todo[1] \in Askings /\ Len(todo) \in Nat \ {0}
      /\ Tail(todo) \in Seq(Askings) /\ Len(Tail(todo)) = Len(todo) - 1
      /\ \A i \in 1..(Len(todo) - 1) : Tail(todo)[i] = todo[i + 1] /\ i + 1 \in 1..Len(todo)
  BY <1>1, QueueTail
<1>3. todo[1].pru \in Pru /\ todo[1].type \in Types /\ todo[1].sample \in BOOLEAN
  BY <1>2 DEF Askings
<1>4. tool # "none" BY Closed DEF RpcTypes
<1>5. 1 \in 1..Len(todo) BY <1>2
<1> QED BY <1>2, <1>3, <1>4, <1>5

(* A program that ends takes nothing with it but the answer it just read.        *)
LEMMA Ended ==
    ASSUME RpcInv, ses' = NoSession, UNCHANGED <<prog, stim, toPru>>,
           toHost' \in [Pru -> Seq(Answerable)], LastHolds'
    PROVE  RpcInv'
<1>1. ses' \in Sessions /\ ses'.tool = "none" /\ ses'.todo = <<>> /\ ~ses'.waiting
      /\ \A p \in Pru : ses'.known[p] = "off"
  BY Closed
<1>2. RpcTypes' BY <1>1 DEF RpcInv, RpcTypes
<1>3. InStep' /\ CommandSound' /\ BackendSound' BY <1>1 DEF InStep, CommandSound, BackendSound
<1>4. FirstHolds' BY <1>1 DEF FirstHolds
<1> QED BY <1>2, <1>3, <1>4 DEF RpcInv

(* Reading takes the first answer, so the last one stays or the queue is empty.  *)
LEMMA ReadKeepsLast ==
    ASSUME RpcTypes, LastHolds, stim' = stim, NEW p \in Pru, toHost[p] # <<>>,
           toHost' = [toHost EXCEPT ![p] = Tail(@)]
    PROVE  LastHolds' /\ toHost' \in [Pru -> Seq(Answerable)]
<1>1. toHost \in [Pru -> Seq(Answerable)] /\ toHost[p] \in Seq(Answerable) BY DEF RpcTypes
<1>2. PICK q : q = toHost[p] OBVIOUS
<1>3. /\ q \in Seq(Answerable) /\ Len(q) \in Nat \ {0} /\ Tail(q) \in Seq(Answerable)
      /\ Len(Tail(q)) = Len(q) - 1
      /\ \A i \in 1..(Len(q) - 1) : Tail(q)[i] = q[i + 1]
  BY <1>1, <1>2, QueueTail
<1>4. toHost' = [toHost EXCEPT ![p] = Tail(q)] BY <1>2
<1>5. toHost' \in [Pru -> Seq(Answerable)] BY <1>1, <1>3, <1>4
<1>6. CASE p = "PRU1"
  <2>1. toHost'["PRU1"] = Tail(q) BY <1>1, <1>4, <1>6
  <2>2. ASSUME Tail(q) # <<>> PROVE Tail(q)[Len(Tail(q))] = q[Len(q)]
    <3>1. Len(Tail(q)) # 0 BY <1>3, <2>2, QueueAt
    <3>2. Len(q) - 1 \in 1..(Len(q) - 1) BY <1>3, <3>1
    <3>3. Tail(q)[Len(q) - 1] = q[Len(q) - 1 + 1] BY <1>3, <3>2
    <3>4. Len(q) - 1 + 1 = Len(q) /\ Len(Tail(q)) = Len(q) - 1 BY <1>3
    <3> QED BY <3>3, <3>4
  <2>3. q # <<>> BY <1>2
  <2>4. Holds(q[Len(q)].type) BY <1>2, <1>6, <2>3 DEF LastHolds
  <2>5. Holds(q[Len(q)].type)' BY <2>4, <1>2 DEF Holds
  <2>6. Tail(q) # <<>> => Holds(Tail(q)[Len(Tail(q))].type)' BY <2>2, <2>5 DEF Holds
  <2> QED BY <1>5, <2>1, <2>6 DEF LastHolds, Holds
<1>7. CASE p # "PRU1"
  <2>1. toHost'["PRU1"] = toHost["PRU1"] BY <1>1, <1>4, <1>7
  <2> QED BY <1>5, <2>1 DEF LastHolds, Holds
<1> QED BY <1>6, <1>7

(* A connection that a step leaves alone, but that the host may stop waiting on. *)
LEMMA Untouched ==
    ASSUME RpcTypes, NEW p \in Pru, Connected(p), toHost'[p] = toHost[p], toPru'[p] = toPru[p],
           ses'.seq[p] = ses.seq[p], ses'.lag[p] = ses.lag[p], ses'.old[p] = ses.old[p],
           ses'.waiting /\ ses'.todo[1].pru = p => ses.waiting /\ ses'.todo[1] = ses.todo[1]
    PROVE  Connected(p)'
<1>0. Entries(p) \in Nat /\ ses.lag[p] \in Nat BY QueueFacts, SesFacts DEF RpcTypes
<1>1. Entries(p)' = Entries(p) /\ Written(p)' = Written(p) BY DEF Entries, Written
<1>2. (Waits(p) = 0 \/ Waits(p) = 1) /\ (Waits(p)' = Waits(p) \/ Waits(p)' = 0) BY DEF Waits
<1>3. ses.lag[p] + Waits(p)' <= Entries(p) BY <1>0, <1>2 DEF Connected
<1>4. ses'.lag[p] + Waits(p)' <= Entries(p)' /\ Entries(p)' <= Written(p)' + ses'.lag[p]
  BY <1>1, <1>3 DEF Connected
<1>5. ses'.old[p] = IF Entries(p)' > Written(p)' THEN Entries(p)' - Written(p)' ELSE 0
  BY <1>1 DEF Connected
<1>6. \A i \in 1..Len(toHost'[p]) :
          i > ses'.old[p] => toHost'[p][i] = Refusal \/ toHost'[p][i].seq = Written(p)' - Entries(p)' + i
  BY <1>1 DEF Connected
<1>7. \A i \in 1..Len(toPru'[p]) :
          i + Len(toHost'[p]) > ses'.old[p] =>
             toPru'[p][i].seq = Written(p)' - Entries(p)' + Len(toHost'[p]) + i
  BY <1>1 DEF Connected
<1>8. ses'.waiting /\ ses'.todo[1].pru = p /\ toPru'[p] # <<>> =>
          toPru'[p][Len(toPru'[p])].type = ses'.todo[1].type
  BY DEF Connected
<1> QED BY <1>4, <1>5, <1>6, <1>7, <1>8 DEF Connected

(* What was left at the open bounds what is old of it.                          *)
LEMMA OldIsLeft ==
    ASSUME RpcTypes, NEW p \in Pru, Connected(p)
    PROVE  ses.old[p] <= ses.lag[p] /\ (Entries(p) <= Written(p) => ses.old[p] = 0)
           /\ (ses.old[p] # 0 => Entries(p) = Written(p) + ses.old[p])
<1>1. Entries(p) \in Nat /\ ses.lag[p] \in Nat /\ Written(p) \in Nat
  BY QueueFacts, SesFacts DEF RpcTypes
<1>2. Entries(p) <= Written(p) + ses.lag[p]
      /\ ses.old[p] = IF Entries(p) > Written(p) THEN Entries(p) - Written(p) ELSE 0
  BY DEF Connected
<1> QED BY <1>1, <1>2

LEMMA RpcStarts == ASSUME RpcInit PROVE RpcInv
<1>1. RpcTypes BY Closed DEF RpcInit, RpcTypes, ForAll, Firmwares
<1>2. tool = "none" /\ toHost["PRU1"] = <<>> BY Closed DEF RpcInit, ForAll, Pru
<1>3. InStep /\ CommandSound /\ BackendSound /\ LastHolds /\ FirstHolds
  BY <1>2 DEF InStep, CommandSound, BackendSound, LastHolds, FirstHolds
<1> QED BY <1>1, <1>3 DEF RpcInv

(* Opening a device: all there is was left by earlier programs.                 *)
LEMMA OpenedFacts ==
    ASSUME RpcInv, NEW ps, NEW kind \in {"cli", "opening"}, NEW c \in Seq(Askings), c # <<>>,
           HilPru(ps, kind, c)
    PROVE  /\ RpcTypes' /\ LastHolds' /\ InStep' /\ FirstHolds'
           /\ ses'.tool = kind /\ ses'.todo = c /\ ~ses'.waiting /\ ses'.dead = {} /\ ses'.basis = "user"
           /\ \A p \in Pru : /\ ses'.known[p] = "off" /\ Written(p)' = 0 /\ Waits(p)' = 0
                             /\ Entries(p)' = ses'.lag[p] /\ ses'.lag[p] \in Nat
<1>1. RpcTypes BY DEF RpcInv
<1>2. PICK keep \in BOOLEAN : toHost' = [p \in Pru |-> IF keep THEN toHost[p] ELSE <<>>]
  BY DEF HilPru
<1>3. PICK left : /\ left = [p \in Pru |-> Len(toPru[p]) + Len(toHost'[p])]
                  /\ ses' = [NoSession EXCEPT !.tool = kind, !.todo = c, !.lag = left, !.old = left]
  BY DEF HilPru
<1>4. UNCHANGED <<toPru, prog, stim>> BY DEF HilPru
<1>5. \A p \in Pru : toHost'[p] = toHost[p] \/ toHost'[p] = <<>> BY <1>2
<1>6. toHost' \in [Pru -> Seq(Answerable)]
  <2>1. <<>> \in Seq(Answerable) OBVIOUS
  <2>2. \A p \in Pru : toHost[p] \in Seq(Answerable) BY <1>1, QueueFacts
  <2> QED BY <1>2, <2>1, <2>2
<1>7. /\ ses'.tool = kind /\ ses'.todo = c /\ ~ses'.waiting /\ ses'.dead = {} /\ ses'.basis = "user"
      /\ ses'.lag = left /\ ses'.old = left /\ ses'.seq = ForAll(1) /\ ses'.known = ForAll("off")
  BY <1>3 DEF NoSession
<1>8. \A p \in Pru : ses'.seq[p] = 1 /\ ses'.known[p] = "off" BY <1>7 DEF ForAll
<1>9. \A p \in Pru : Len(toPru[p]) \in Nat /\ Len(toHost'[p]) \in Nat
  <2>1. ASSUME NEW p \in Pru PROVE Len(toPru[p]) \in Nat /\ Len(toHost'[p]) \in Nat
    <3>1. toHost'[p] \in Seq(Answerable) BY <1>6
    <3> QED BY <3>1, <1>1, QueueFacts, QueueAt
  <2> QED BY <2>1
<1>10. \A p \in Pru : left[p] = Len(toHost'[p]) + Len(toPru[p]) /\ left[p] \in Nat
  <2>1. ASSUME NEW p \in Pru PROVE left[p] = Len(toHost'[p]) + Len(toPru[p]) /\ left[p] \in Nat
    <3>1. PICK h \in Nat : h = Len(toHost'[p]) BY <1>9
    <3>2. PICK t \in Nat : t = Len(toPru[p]) BY <1>9
    <3>3. left[p] = t + h BY <1>3, <3>1, <3>2
    <3>4. left[p] = h + t /\ left[p] \in Nat BY <3>3
    <3> QED BY <3>1, <3>2, <3>4
  <2> QED BY <2>1
<1>11. ses' \in Sessions
  <2>1. left \in [Pru -> Nat]
    <3>1. left = [p \in Pru |-> left[p]] BY <1>3
    <3> QED BY <1>10, <3>1
  <2>2. NoSession \in Sessions BY Closed
  <2> QED BY <1>3, <2>1, <2>2 DEF Sessions
<1>12. RpcTypes'
  BY <1>1, <1>4, <1>6, <1>7, <1>8, <1>11 DEF RpcTypes
<1>13. LastHolds'
  <2>1. "PRU1" \in Pru BY DEF Pru
  <2>2. LastHolds BY DEF RpcInv
  <2> QED BY <1>4, <1>5, <2>1, <2>2 DEF LastHolds, Holds
<1>14. FirstHolds' BY <1>7 DEF FirstHolds
<1>15. ASSUME NEW p \in Pru
       PROVE  /\ Written(p)' = 0 /\ Waits(p)' = 0 /\ Entries(p)' = left[p] /\ left[p] \in Nat
              /\ Connected(p)'
  <2>1. Written(p)' = 0 BY <1>8 DEF Written
  <2>2. Waits(p)' = 0 BY <1>7 DEF Waits
  <2>3. Entries(p)' = left[p] /\ left[p] \in Nat BY <1>4, <1>10 DEF Entries
  <2>4. ses'.lag[p] + Waits(p)' <= Entries(p)' /\ Entries(p)' <= Written(p)' + ses'.lag[p]
    BY <1>7, <2>1, <2>2, <2>3
  <2>5. ses'.old[p] = IF Entries(p)' > Written(p)' THEN Entries(p)' - Written(p)' ELSE 0
    BY <1>7, <2>1, <2>3
  <2>6. left[p] = Len(toHost'[p]) + Len(toPru'[p]) /\ Len(toHost'[p]) \in Nat /\ Len(toPru'[p]) \in Nat
    BY <1>4, <1>9, <1>10
  <2>7. PICK h \in Nat : h = Len(toHost'[p]) BY <2>6
  <2>8. PICK t \in Nat : t = Len(toPru'[p]) BY <2>6
  <2>9. ses'.old[p] = h + t BY <1>7, <2>6, <2>7, <2>8
  <2>10. (\A i \in 1..h : ~(i > h + t)) /\ (\A i \in 1..t : ~(i + h > h + t)) OBVIOUS
  <2>11. /\ \A i \in 1..Len(toHost'[p]) : ~(i > ses'.old[p])
         /\ \A i \in 1..Len(toPru'[p]) : ~(i + Len(toHost'[p]) > ses'.old[p])
    BY <2>7, <2>8, <2>9, <2>10
  <2> QED BY <1>7, <2>1, <2>2, <2>3, <2>4, <2>5, <2>11 DEF Connected
<1>16. InStep' BY <1>7, <1>15 DEF InStep
<1> QED BY <1>7, <1>8, <1>12, <1>13, <1>14, <1>15, <1>16

LEMMA CommandOpens == ASSUME RpcInv, NEW c, Opens(c), RunCommand(c) PROVE RpcInv'
<1>1. c \in Seq(Askings) /\ c # <<>> BY DEF Opens
<1>2. PICK ps : HilPru(ps, "cli", c) BY DEF RunCommand
<1>3. /\ RpcTypes' /\ LastHolds' /\ InStep' /\ FirstHolds'
      /\ ses'.tool = "cli" /\ ses'.todo = c /\ ses'.basis = "user"
      /\ \A p \in Pru : /\ Written(p)' = 0 /\ Waits(p)' = 0
                        /\ Entries(p)' = ses'.lag[p] /\ ses'.lag[p] \in Nat
  BY <1>1, <1>2, OpenedFacts
<1>4. BackendSound' BY <1>3 DEF BackendSound
<1>5. PICK p : p = c[1].pru /\ p \in Pru
  <2>1. c[1] \in Askings BY <1>1, QueueTail
  <2> QED BY <2>1 DEF Askings
<1>6. Turn(p)' = 0 /\ Entries(p)' = ses'.lag[p] + Waits(p)' /\ Len(c) \in Nat
  BY <1>1, <1>3, <1>5, QueueAt DEF Turn
<1>7. \A i \in 1..Len(c) : /\ c[i].pru = p
                           /\ c[i].sample => p = "PRU0" /\ Turn(p)' + i >= 3
                           /\ c[i].type = "TIME" /\ i < Len(c) => Turn(p)' + i >= 2
                           /\ c[i].type \in {"ABZ_ARM", "ABZ_SCHEDULE"} => p = "PRU1"
  BY <1>5, <1>6 DEF Opens
<1>8. CommandSound' BY <1>3, <1>5, <1>6, <1>7 DEF CommandSound
<1> QED BY <1>3, <1>4, <1>8 DEF RpcInv

LEMMA BothFacts ==
    ASSUME NEW k, NEW t \in Types
    PROVE  /\ Both(k, t) \in Seq(Askings) /\ Both(k, t) # <<>>
           /\ \A i \in 1..Len(Both(k, t)) : /\ Both(k, t)[i].type = t /\ ~Both(k, t)[i].sample
                                            /\ Both(k, t)[i].pru = "PRU1" => k["PRU1"] # "off"
<1>0. "PRU0" \in Pru /\ "PRU1" \in Pru BY DEF Pru
<1>1. PICK s : s = <<t>> OBVIOUS
<1>2. s \in Seq(Types) /\ Len(s) = 1 /\ s[1] = t BY <1>1
<1>3. PICK a : a = Asks("PRU0", s) OBVIOUS
<1>4. PICK b : b = Asks("PRU1", s) OBVIOUS
<1>5. \A p \in Pru : /\ Asks(p, s) \in Seq(Askings) /\ Len(Asks(p, s)) = Len(s)
                     /\ \A i \in 1..Len(s) : /\ Asks(p, s)[i].pru = p /\ Asks(p, s)[i].type = s[i]
                                             /\ ~Asks(p, s)[i].sample
  BY <1>2, AsksFacts
<1>6. a \in Seq(Askings) /\ Len(a) = 1 /\ a[1].pru = "PRU0" /\ a[1].type = t /\ ~a[1].sample
  BY <1>0, <1>2, <1>3, <1>5
<1>7. b \in Seq(Askings) /\ Len(b) = 1 /\ b[1].type = t /\ ~b[1].sample
  BY <1>0, <1>2, <1>4, <1>5
<1>8. PICK e : e = IF k["PRU1"] = "off" THEN <<>> ELSE b OBVIOUS
<1>9. PICK c : c = a \o e OBVIOUS
<1>10. c = Both(k, t) BY <1>1, <1>3, <1>4, <1>8, <1>9 DEF Both
<1>11. e \in Seq(Askings)
  <2>1. <<>> \in Seq(Askings) /\ b \in Seq(Askings) BY <1>7
  <2> QED BY <1>8, <2>1
<1>12. /\ c \in Seq(Askings) /\ Len(c) = Len(a) + Len(e)
       /\ \A i \in 1..Len(a) : c[i] = a[i]
       /\ \A i \in 1..Len(e) : c[Len(a) + i] = e[i]
  <2>1. a \in Seq(Askings) BY <1>6
  <2> QED BY <1>9, <1>11, <2>1, QueueConcat
<1>13. c[1] = a[1] BY <1>6, <1>12
<1>14. CASE k["PRU1"] = "off"
  <2>1. Len(e) = 0 BY <1>8, <1>14
  <2>2. Len(c) = 1 BY <1>6, <1>12, <2>1
  <2>3. \A i \in 1..Len(c) : i = 1 BY <2>2
  <2>4. c # <<>>
    <3>1. c \in Seq(Askings) BY <1>12
    <3> QED BY <2>2, <3>1, QueueAt
  <2>5. \A i \in 1..Len(c) : c[i].type = t /\ ~c[i].sample /\ c[i].pru # "PRU1" BY <1>6, <1>13, <2>3
  <2> QED BY <1>10, <1>12, <2>4, <2>5
<1>15. CASE k["PRU1"] # "off"
  <2>1. e = b /\ Len(e) = 1 BY <1>7, <1>8, <1>15
  <2>2. Len(c) = 2 BY <1>6, <1>12, <2>1
  <2>3. \A i \in 1..Len(c) : i = 1 \/ i = 2 BY <2>2
  <2>4. c # <<>>
    <3>1. c \in Seq(Askings) BY <1>12
    <3> QED BY <2>2, <3>1, QueueAt
  <2>5. c[1 + 1] = b[1] BY <1>6, <1>12, <2>1
  <2>6. \A i \in 1..Len(c) : c[i].type = t /\ ~c[i].sample BY <1>6, <1>7, <1>13, <2>3, <2>5
  <2> QED BY <1>10, <1>12, <1>15, <2>4, <2>6
<1> QED BY <1>14, <1>15

LEMMA BackendOpens == ASSUME RpcInv, OpenBackend PROVE RpcInv'
<1>1. "HELLO" \in Types BY TypeFacts
<1>2. PICK c : c = Both(prog, "HELLO") OBVIOUS
<1>3. /\ c \in Seq(Askings) /\ c # <<>>
      /\ \A i \in 1..Len(c) : c[i].type = "HELLO" /\ ~c[i].sample
  BY <1>1, <1>2, BothFacts
<1>4. PICK ps : HilPru(ps, "opening", c) BY <1>2 DEF OpenBackend
<1>5. /\ RpcTypes' /\ LastHolds' /\ InStep' /\ FirstHolds'
      /\ ses'.tool = "opening" /\ ses'.todo = c /\ ses'.basis = "user"
      /\ \A p \in Pru : ses'.known[p] = "off"
  BY <1>3, <1>4, OpenedFacts
<1>6. CommandSound' BY <1>5 DEF CommandSound
<1>7. BackendSound' BY <1>3, <1>5 DEF BackendSound
<1> QED BY <1>5, <1>6, <1>7 DEF RpcInv

(* What a method of the backend asks for, of the PRUs that were there at the open. *)
LEMMA MethodFacts ==
    ASSUME NEW k \in [Pru -> Firmwares], k["PRU0"] \in Images("PRU0") \cup {"off"},
           NEW m \in Methods(k), m[1] \in map_capabilities(k)
    PROVE  /\ m[2] \in Seq(Askings) /\ m[2] # <<>>
           /\ \A i \in 1..Len(m[2]) : /\ ~m[2][i].sample /\ m[2][i].type \notin {"ABZ_ARM", "ABZ_SCHEDULE"}
                                      /\ m[2][i].pru = "PRU1" => k["PRU1"] # "off"
<1>0. "PRU0" \in Pru /\ "PRU1" \in Pru /\ \A p \in Pru : p = "PRU0" \/ p = "PRU1" BY DEF Pru
<1> DEFINE Right(c) == /\ c \in Seq(Askings) /\ c # <<>>
                       /\ \A i \in 1..Len(c) : /\ ~c[i].sample /\ c[i].type \notin {"ABZ_ARM", "ABZ_SCHEDULE"}
                                               /\ c[i].pru = "PRU1" => k["PRU1"] # "off"
<1>1. ASSUME NEW p \in Pru, NEW t \in Types, t \notin {"ABZ_ARM", "ABZ_SCHEDULE"},
             p = "PRU1" => k["PRU1"] # "off"
      PROVE  Right(Asks(p, <<t>>))
  <2>1. PICK s : s = <<t>> OBVIOUS
  <2>2. s \in Seq(Types) /\ Len(s) = 1 /\ s[1] = t BY <2>1
  <2>3. PICK a : a = Asks(p, s) OBVIOUS
  <2>4. a \in Seq(Askings) /\ Len(a) = 1 /\ a[1].pru = p /\ a[1].type = t /\ ~a[1].sample
    BY <2>2, <2>3, AsksFacts
  <2>5. a # <<>>
    <3>1. a \in Seq(Askings) /\ Len(a) = 1 BY <2>4
    <3>2. a = <<>> <=> Len(a) = 0 BY <3>1, QueueAt, Zenon
    <3> QED BY <3>1, <3>2
  <2>6. \A i \in 1..Len(a) : i = 1 BY <2>4
  <2>7. Right(a) BY <1>1, <2>4, <2>5, <2>6
  <2> QED BY <2>1, <2>3, <2>7
<1>2. ASSUME NEW t \in {"FORCE_SAFE", "TIME"} PROVE Right(Both(k, t))
  <2>1. t \in Types /\ t \notin {"ABZ_ARM", "ABZ_SCHEDULE"} BY TypeFacts
  <2> QED BY <2>1, BothFacts
<1>3. CASE m \in {<<"FORCE_SAFE", Both(k, "FORCE_SAFE")>>, <<"TIMEBASE", Asks("PRU0", <<"TIME">>)>>,
                  <<"TIMEBASE", Both(k, "TIME")>>}
  <2>1. m[2] = Both(k, "FORCE_SAFE") \/ m[2] = Both(k, "TIME") \/ m[2] = Asks("PRU0", <<"TIME">>)
    BY <1>3
  <2>2. Right(Asks("PRU0", <<"TIME">>)) BY <1>0, <1>1, TypeFacts
  <2>3. Right(Both(k, "FORCE_SAFE")) /\ Right(Both(k, "TIME")) BY <1>2
  <2>4. Right(m[2]) BY <2>1, <2>2, <2>3
  <2> QED BY <2>4
<1>4. CASE m \in {<<"ABZ_EMULATOR", Asks("PRU1", <<t>>)>> : t \in {"STIM_CONFIG", "STIM_START", "ABZ_STOP"}}
  <2>1. PICK t \in {"STIM_CONFIG", "STIM_START", "ABZ_STOP"} : m = <<"ABZ_EMULATOR", Asks("PRU1", <<t>>)>>
    BY <1>4
  <2>2. m[1] = "ABZ_EMULATOR" /\ m[2] = Asks("PRU1", <<t>>) BY <2>1
  <2>3. PICK p \in Pru : "ABZ_EMULATOR" \in Capabilities(k[p]) BY <2>2 DEF map_capabilities
  <2>4. "ABZ_EMULATOR" \notin Capabilities("off") /\ "ABZ_EMULATOR" \notin Capabilities("b0")
        /\ "ABZ_EMULATOR" \notin Capabilities("b1")
    BY DEF Capabilities
  <2>5. k["PRU0"] \in {"off", "b0", "b1"} BY DEF Images
  <2>6. k["PRU1"] # "off" BY <1>0, <2>3, <2>4, <2>5
  <2>7. t \in Types /\ t \notin {"ABZ_ARM", "ABZ_SCHEDULE"} BY TypeFacts
  <2>8. Right(Asks("PRU1", <<t>>)) BY <1>0, <1>1, <2>6, <2>7
  <2>9. Right(m[2]) BY <2>2, <2>8
  <2> QED BY <2>9
<1> QED BY <1>3, <1>4 DEF Methods

LEMMA MethodCalled == ASSUME RpcInv, Call PROVE RpcInv'
<1>1. /\ RpcTypes /\ InStep /\ BackendSound /\ LastHolds /\ tool = "backend" /\ todo = <<>>
      /\ UNCHANGED <<toPru, toHost, prog, stim>>
  BY DEF RpcInv, Call
<1>2. ~ses.waiting BY <1>1 DEF RpcTypes
<1>3. PICK m \in Methods(ses.known) :
         m[1] \in map_capabilities(ses.known) /\ ses' = [ses EXCEPT !.todo = m[2]]
  BY DEF Call
<1>4. PICK k : k = ses.known OBVIOUS
<1>5. k \in [Pru -> Firmwares] /\ k["PRU0"] \in Images("PRU0") \cup {"off"}
  <2>1. "PRU0" \in Pru BY DEF Pru
  <2>2. \A p \in Pru : ses.known[p] \in Images(p) \cup {"off"} BY <1>1 DEF RpcTypes
  <2> QED BY <1>1, <1>4, <2>1, <2>2, SesFacts DEF RpcTypes
<1>6. PICK c : c = m[2] OBVIOUS
<1>7. /\ c \in Seq(Askings) /\ c # <<>>
      /\ \A i \in 1..Len(c) : /\ ~c[i].sample /\ c[i].type \notin {"ABZ_ARM", "ABZ_SCHEDULE"}
                              /\ c[i].pru = "PRU1" => k["PRU1"] # "off"
  BY <1>3, <1>4, <1>5, <1>6, MethodFacts
<1>8. ses \in Sessions /\ ses' = [ses EXCEPT !.todo = c] BY <1>1, <1>3, <1>6 DEF RpcTypes
<1>9. /\ ses'.tool = "backend" /\ ses'.todo = c /\ ~ses'.waiting /\ ses'.seq = ses.seq
      /\ ses'.dead = ses.dead /\ ses'.known = ses.known /\ ses'.basis = ses.basis
      /\ ses'.lag = ses.lag /\ ses'.old = ses.old
  BY <1>1, <1>2, <1>8 DEF Sessions
<1>10. ses' \in Sessions BY <1>7, <1>8 DEF Sessions
<1>11. RpcTypes' BY <1>1, <1>7, <1>9, <1>10 DEF RpcTypes
<1>12. InStep'
  <2>1. ASSUME NEW p \in Pru, p \notin ses.dead PROVE Connected(p)'
    <3>1. Connected(p) BY <1>1, <2>1 DEF InStep
    <3> QED BY <1>1, <1>9, <3>1, Untouched
  <2>2. ASSUME NEW p \in Pru, p \in ses.dead PROVE Removed(p)'
    BY <1>1, <2>2 DEF InStep, Removed
  <2> QED BY <1>9, <2>1, <2>2 DEF InStep
<1>13. CommandSound' BY <1>9 DEF CommandSound
<1>14. BackendSound' BY <1>1, <1>4, <1>7, <1>9 DEF BackendSound
<1>15. LastHolds' /\ FirstHolds' BY <1>1, <1>9 DEF LastHolds, Holds, FirstHolds
<1> QED BY <1>11, <1>12, <1>13, <1>14, <1>15 DEF RpcInv

LEMMA SessionCloses == ASSUME RpcInv, Close PROVE RpcInv'
<1>1. ses' = NoSession /\ UNCHANGED <<toPru, toHost, prog, stim>> BY DEF Close
<1>2. LastHolds' BY <1>1 DEF RpcInv, LastHolds, Holds
<1>3. toHost' \in [Pru -> Seq(Answerable)] BY <1>1 DEF RpcInv, RpcTypes
<1> QED BY <1>1, <1>2, <1>3, Ended

LEMMA RequestWritten == ASSUME RpcInv, Write PROVE RpcInv'
<1>1. /\ RpcTypes /\ InStep /\ CommandSound /\ BackendSound /\ LastHolds /\ todo # <<>> /\ ~ses.waiting
      /\ UNCHANGED <<toHost, prog, stim>>
  BY DEF RpcInv, Write
<1>2. PICK r : r = Head(todo) OBVIOUS
<1>3. PICK p : p = r.pru OBVIOUS
<1>4. r = todo[1] /\ p \in Pru /\ r.type \in Types /\ tool # "none" BY <1>1, <1>2, <1>3, TodoFacts
<1>5. PICK e : e = [type |-> r.type, seq |-> seq[p]] OBVIOUS
<1>6. /\ p \notin ses.dead /\ toPru' = [toPru EXCEPT ![p] = Append(@, e)]
      /\ ses' = [ses EXCEPT !.seq[p] = @ + 1, !.waiting = TRUE]
  BY <1>2, <1>3, <1>5 DEF Write
<1>7. ses \in Sessions /\ ses.seq \in [Pru -> Nat \ {0}] /\ ses.seq[p] \in Nat \ {0}
  BY <1>1, <1>4, SesFacts DEF RpcTypes
<1>8. e \in Messages /\ e.type = r.type /\ e.seq = ses.seq[p] BY <1>4, <1>5, <1>7 DEF Messages
<1>9. /\ ses'.tool = ses.tool /\ ses'.todo = ses.todo /\ ses'.waiting
      /\ ses'.seq = [ses.seq EXCEPT ![p] = @ + 1]
      /\ ses'.dead = ses.dead /\ ses'.known = ses.known /\ ses'.basis = ses.basis
      /\ ses'.lag = ses.lag /\ ses'.old = ses.old
  BY <1>6, <1>7 DEF Sessions
<1>10. ses'.seq \in [Pru -> Nat \ {0}] /\ ses'.seq[p] = ses.seq[p] + 1
       /\ \A q \in Pru : q # p => ses'.seq[q] = ses.seq[q]
  BY <1>4, <1>7, <1>9
<1>11. ses' \in Sessions BY <1>6, <1>7, <1>10 DEF Sessions
<1>12. PICK x : x = toPru[p] OBVIOUS
<1>13. x \in Seq(Messages) /\ Len(x) \in Nat BY <1>1, <1>4, <1>12, QueueFacts
<1>14. /\ Append(x, e) \in Seq(Messages) /\ Len(Append(x, e)) = Len(x) + 1 /\ Append(x, e) # <<>>
       /\ \A i \in 1..Len(x) : Append(x, e)[i] = x[i]
       /\ Append(x, e)[Len(x) + 1] = e
  BY <1>8, <1>13, QueueAppend
<1>15. toPru \in [Pru -> Seq(Messages)] BY <1>1 DEF RpcTypes
<1>16. /\ toPru' \in [Pru -> Seq(Messages)] /\ toPru'[p] = Append(x, e)
       /\ \A q \in Pru : q # p => toPru'[q] = toPru[q]
  BY <1>4, <1>6, <1>12, <1>14, <1>15
<1>17. RpcTypes'
  <2>1. /\ prog' \in [Pru -> Firmwares] /\ stim' \in {"idle", "armed", "running", "held"}
        /\ toPru' \in [Pru -> Seq(Messages)] /\ toHost' \in [Pru -> Seq(Answerable)]
    BY <1>1, <1>16 DEF RpcTypes
  <2>2. \A q \in Pru : prog'[q] \in Images(q) \cup {"off"} /\ ses'.known[q] \in Images(q) \cup {"off"}
    BY <1>1, <1>9 DEF RpcTypes
  <2>3. ses'.tool # "none" /\ ses'.todo # <<>> BY <1>1, <1>4, <1>9
  <2> QED BY <1>11, <2>1, <2>2, <2>3 DEF RpcTypes
<1>18. Connected(p) BY <1>1, <1>4, <1>6 DEF InStep
<1>19. PICK h \in Nat : h = Len(toHost[p]) BY <1>1, <1>4, QueueFacts
<1>20. PICK t \in Nat : t = Len(toPru[p]) BY <1>1, <1>4, QueueFacts
<1>21. Entries(p) = h + t BY <1>19, <1>20 DEF Entries
<1>22. Len(toPru'[p]) = t + 1 /\ Entries(p)' = h + t + 1
  <2>1. Len(toPru'[p]) = t + 1 BY <1>12, <1>14, <1>16, <1>20
  <2>2. Entries(p)' = h + (t + 1) BY <1>1, <1>19, <2>1 DEF Entries
  <2>3. h + (t + 1) = h + t + 1 OBVIOUS
  <2> QED BY <2>1, <2>2, <2>3
<1>23. PICK w \in Nat : w = Written(p) BY <1>1, <1>4, SesFacts DEF RpcTypes
<1>24. Written(p)' = w + 1 /\ ses.seq[p] = w + 1 BY <1>7, <1>10, <1>23 DEF Written
<1>25. Waits(p) = 0 /\ Waits(p)' = 1 BY <1>1, <1>3, <1>4, <1>9 DEF Waits
<1>26. PICK l \in Nat : l = ses.lag[p] BY <1>1, <1>4, SesFacts DEF RpcTypes
<1>27. PICK o \in Nat : o = ses.old[p] BY <1>1, <1>4, SesFacts DEF RpcTypes
<1>28. l <= h + t /\ h + t <= w + l /\ o = IF h + t > w THEN h + t - w ELSE 0
  BY <1>18, <1>21, <1>23, <1>25, <1>26, <1>27 DEF Connected
<1>29. Connected(p)'
  <2>1. ses'.lag[p] + Waits(p)' <= Entries(p)' /\ Entries(p)' <= Written(p)' + ses'.lag[p]
    BY <1>9, <1>22, <1>24, <1>25, <1>26, <1>28
  <2>2. ses'.old[p] = IF Entries(p)' > Written(p)' THEN Entries(p)' - Written(p)' ELSE 0
    BY <1>9, <1>22, <1>24, <1>27, <1>28
  <2>3. Written(p)' - Entries(p)' = w - (h + t) BY <1>22, <1>24
  <2>4. \A i \in 1..Len(toHost'[p]) :
          i > ses'.old[p] => toHost'[p][i] = Refusal \/ toHost'[p][i].seq = Written(p)' - Entries(p)' + i
    <3>1. \A i \in 1..Len(toHost[p]) :
          i > ses.old[p] => toHost[p][i] = Refusal \/ toHost[p][i].seq = w - (h + t) + i
      BY <1>18, <1>21, <1>23 DEF Connected
    <3> QED BY <1>1, <1>9, <2>3, <3>1
  <2>5. ASSUME NEW i \in 1..Len(toPru'[p]), i + Len(toHost'[p]) > ses'.old[p]
        PROVE  toPru'[p][i].seq = Written(p)' - Entries(p)' + Len(toHost'[p]) + i
    <3>1. i \in 1..(t + 1) /\ i + h > o /\ Len(toHost'[p]) = h BY <1>1, <1>9, <1>19, <1>22, <1>27, <2>5
    <3>2. CASE i = t + 1
      <4>1. toPru'[p][i] = e BY <1>12, <1>14, <1>16, <1>20, <3>2
      <4>2. toPru'[p][i].seq = w + 1 BY <1>8, <1>24, <4>1
      <4>3. w - (h + t) + h + i = w + 1 BY <3>2
      <4> QED BY <2>3, <3>1, <4>2, <4>3
    <3>3. CASE i # t + 1
      <4>1. i \in 1..t BY <3>1, <3>3
      <4>2. toPru'[p][i] = toPru[p][i] BY <1>12, <1>14, <1>16, <1>20, <4>1
      <4>3. \A j \in 1..t : j + h > o => toPru[p][j].seq = w - (h + t) + h + j
        BY <1>18, <1>19, <1>20, <1>21, <1>23, <1>27 DEF Connected
      <4>4. toPru[p][i].seq = w - (h + t) + h + i BY <3>1, <4>1, <4>3
      <4> QED BY <2>3, <3>1, <4>2, <4>4
    <3> QED BY <3>2, <3>3
  <2>6. toPru'[p][Len(toPru'[p])].type = ses'.todo[1].type
    BY <1>4, <1>8, <1>9, <1>12, <1>14, <1>16
  <2> QED BY <2>1, <2>2, <2>4, <2>5, <2>6 DEF Connected
<1>30. ASSUME NEW q \in Pru, q # p, q \notin ses.dead PROVE Connected(q)'
  <2>1. Connected(q) BY <1>1, <1>4, <1>30 DEF InStep
  <2>2. ~(ses'.todo[1].pru = q) BY <1>3, <1>4, <1>9, <1>30
  <2>3. toHost'[q] = toHost[q] /\ toPru'[q] = toPru[q] /\ ses'.seq[q] = ses.seq[q]
        /\ ses'.lag[q] = ses.lag[q] /\ ses'.old[q] = ses.old[q]
    BY <1>1, <1>9, <1>10, <1>16, <1>30
  <2> QED BY <1>1, <2>1, <2>2, <2>3, Untouched
<1>31. InStep'
  <2>1. ASSUME NEW q \in Pru, q \in ses.dead PROVE Removed(q)'
    <3>1. Removed(q) /\ q # p BY <1>1, <1>4, <1>6, <2>1 DEF InStep
    <3> QED BY <1>1, <1>16, <3>1 DEF Removed
  <2> QED BY <1>9, <1>29, <1>30, <2>1 DEF InStep
<1>32. Turn(p) = w /\ Turn(p)' = w BY <1>23, <1>24, <1>25 DEF Turn
<1>33. CommandSound'
  <2>1. ASSUME ses.tool = "cli"
        PROVE  /\ \A i \in 1..Len(todo) : todo[i].pru = p
               /\ p \notin ses.dead /\ w >= 1 /\ ses.lag[p] <= 1 => ses.old[p] = 0
               /\ \A i \in 1..Len(todo) : todo[i].sample => p = "PRU0" /\ w + i >= 3
               /\ p = "PRU1" => Entries(p)' = ses'.lag[p] + Waits(p)'
               /\ \A i \in 1..Len(todo) :
                     /\ todo[i].type = "TIME" /\ i < Len(todo) => w + i >= 2
                     /\ todo[i].type \in {"ABZ_ARM", "ABZ_SCHEDULE"} => p = "PRU1"
               /\ ses.basis = "stale" => w >= 2 /\ ses.lag[p] >= 1
    <3>1. /\ \A i \in 1..Len(todo) : todo[i].pru = p
          /\ p \notin ses.dead /\ w >= 1 /\ ses.lag[p] <= 1 => ses.old[p] = 0
          /\ \A i \in 1..Len(todo) : todo[i].sample => p = "PRU0" /\ w + i >= 3
          /\ p = "PRU1" => Entries(p) = ses.lag[p] + Waits(p)
          /\ \A i \in 1..Len(todo) :
                /\ todo[i].type = "TIME" /\ i < Len(todo) => w + i >= 2
                /\ todo[i].type \in {"ABZ_ARM", "ABZ_SCHEDULE"} => p = "PRU1"
          /\ ses.basis = "stale" => w >= 2 /\ ses.lag[p] >= 1
      BY <1>1, <1>3, <1>4, <1>6, <1>32, <2>1 DEF CommandSound
    <3>2. p = "PRU1" => Entries(p)' = ses'.lag[p] + Waits(p)'
      BY <1>9, <1>21, <1>22, <1>25, <1>26, <3>1
    <3> QED BY <3>1, <3>2
  <2>2. ses'.todo[1].pru = p BY <1>3, <1>4, <1>9
  <2> QED BY <1>9, <1>32, <2>1, <2>2 DEF CommandSound
<1>34. BackendSound' BY <1>1, <1>9 DEF BackendSound
<1>35. LastHolds' BY <1>1 DEF LastHolds, Holds
<1>36. FirstHolds'
  <2>1. SUFFICES ASSUME ses.tool = "cli", p = "PRU1", l = 1, toHost[p] # <<>>, toHost[p][1].type = r.type
                 PROVE  Holds(r.type)
    BY <1>1, <1>3, <1>4, <1>9, <1>26 DEF FirstHolds, Holds
  <2>2. Entries(p) = ses.lag[p] + Waits(p) BY <1>1, <1>3, <1>4, <1>6, <2>1 DEF CommandSound
  <2>3. h + t = 1 BY <1>21, <1>25, <1>26, <2>1, <2>2
  <2>4. h # 0
    <3>1. toHost[p] \in Seq(Answerable) BY <1>1, <1>4, QueueFacts
    <3>2. toHost[p] = <<>> <=> Len(toHost[p]) = 0 BY <3>1, QueueAt, Zenon
    <3> QED BY <1>19, <2>1, <3>2
  <2>5. h = 1 BY <2>3, <2>4
  <2>6. Holds(toHost[p][Len(toHost[p])].type) BY <1>1, <2>1 DEF LastHolds
  <2> QED BY <1>19, <2>1, <2>5, <2>6
<1> QED BY <1>17, <1>31, <1>33, <1>34, <1>35, <1>36 DEF RpcInv

(* A command goes on to its next request, after an answer or a failed sample.    *)
LEMMA CommandGoesOn ==
    ASSUME RpcInv, tool = "cli", todo # <<>>, Len(todo) > 1, NEW p, p = todo[1].pru,
           ses'.todo = Tail(todo), ~ses'.waiting, ses'.seq = ses.seq, ses'.dead = ses.dead,
           ses'.lag = ses.lag, ses.waiting \/ todo[1].sample,
           p \notin ses.dead /\ Written(p) >= 1 /\ ses.lag[p] <= 1 => ses'.old[p] = 0,
           p = "PRU1" /\ p \notin ses.dead => Entries(p)' = ses.lag[p],
           ses'.basis = "stale" => Written(p) >= 2 /\ ses.lag[p] >= 1
    PROVE  CommandSound'
<1>1. RpcTypes /\ CommandSound BY DEF RpcInv
<1>2. PICK n \in Nat : n = Len(todo) /\ n > 1 BY <1>1, TodoFacts
<1>3. PICK c : c = Tail(todo) OBVIOUS
<1>4. c \in Seq(Askings) /\ Len(c) = n - 1 /\ \A i \in 1..(n - 1) : c[i] = todo[i + 1]
  BY <1>1, <1>2, <1>3, TodoFacts
<1>5. p \in Pru BY <1>1, TodoFacts
<1>6. PICK w \in Nat : w = Written(p) BY <1>1, <1>5, SesFacts DEF RpcTypes
<1>7. PICK u : u = Turn(p) OBVIOUS
<1>8. u = (IF ses.waiting THEN w - 1 ELSE w) BY <1>6, <1>7 DEF Turn, Waits
<1>9. /\ \A i \in 1..n : todo[i].pru = p
      /\ \A i \in 1..n : todo[i].sample => p = "PRU0" /\ u + i >= 3
      /\ \A i \in 1..n :
            /\ todo[i].type = "TIME" /\ i < n => u + i >= 2
            /\ todo[i].type \in {"ABZ_ARM", "ABZ_SCHEDULE"} => p = "PRU1"
  BY <1>1, <1>2, <1>7 DEF CommandSound
<1>10. 1 \in 1..n /\ \A i \in 1..(n - 1) : i \in Nat /\ i >= 1 /\ i + 1 \in 1..n BY <1>2
<1>11. w >= 2 \/ ses.waiting
  <2>1. todo[1].sample => u + 1 >= 3 BY <1>9, <1>10
  <2> QED BY <1>6, <1>8, <2>1
<1>12. Written(p)' = w /\ Waits(p)' = 0 /\ Turn(p)' = w
  <2>1. Written(p)' = w /\ Waits(p)' = 0 BY <1>6 DEF Written, Waits
  <2>2. w - 0 = w BY <1>6
  <2> QED BY <2>1, <2>2 DEF Turn
<1>13. ASSUME NEW i \in 1..(n - 1)
       PROVE  /\ c[i].pru = p
              /\ c[i].sample => p = "PRU0" /\ w + i >= 3
              /\ c[i].type = "TIME" /\ i < n - 1 => w + i >= 2
              /\ c[i].type \in {"ABZ_ARM", "ABZ_SCHEDULE"} => p = "PRU1"
  <2>1. c[i] = todo[i + 1] /\ i \in Nat /\ i >= 1 /\ i + 1 \in 1..n BY <1>4, <1>10
  <2>2. PICK j : j = i + 1 OBVIOUS
  <2>3. /\ c[i].pru = p
        /\ c[i].sample => p = "PRU0" /\ u + j >= 3
        /\ c[i].type = "TIME" /\ j < n => u + j >= 2
        /\ c[i].type \in {"ABZ_ARM", "ABZ_SCHEDULE"} => p = "PRU1"
    BY <1>9, <2>1, <2>2
  <2>4. u + j >= 3 => w + i >= 3 BY <1>6, <1>8, <1>11, <2>1, <2>2
  <2>5. u + j >= 2 => w + i >= 2 BY <1>6, <1>8, <1>11, <2>1, <2>2
  <2>6. i < n - 1 => j < n BY <1>2, <2>1, <2>2
  <2> QED BY <2>3, <2>4, <2>5, <2>6
<1>14. c[1].pru = p
  <2>1. 1 \in 1..(n - 1) BY <1>2
  <2> QED BY <1>13, <2>1
<1>15. /\ \A i \in 1..Len(c) : c[i].pru = p
       /\ \A i \in 1..Len(c) : c[i].sample => p = "PRU0" /\ w + i >= 3
       /\ \A i \in 1..Len(c) :
             /\ c[i].type = "TIME" /\ i < Len(c) => w + i >= 2
             /\ c[i].type \in {"ABZ_ARM", "ABZ_SCHEDULE"} => p = "PRU1"
  BY <1>4, <1>13
<1>16. p \notin ses'.dead /\ w >= 1 /\ ses'.lag[p] <= 1 => ses'.old[p] = 0 BY <1>6
<1>17. p = "PRU1" /\ p \notin ses'.dead => Entries(p)' = ses'.lag[p] + 0
  <2>1. ses.lag[p] \in Nat BY <1>1, <1>5, SesFacts DEF RpcTypes
  <2> QED BY <2>1
<1>18. ses'.basis = "stale" => w >= 2 /\ ses'.lag[p] >= 1 BY <1>6
<1>19. ses'.todo = c BY <1>3
<1> QED BY <1>12, <1>14, <1>15, <1>16, <1>17, <1>18, <1>19 DEF CommandSound

(* A request fails: the sample after it, the next call of the backend, or the end. *)
LEMMA NotAnswered ==
    ASSUME RpcInv, todo # <<>>, ses' = Raised(ses), UNCHANGED <<toPru, toHost, prog, stim>>
    PROVE  RpcInv'
<1>1. /\ RpcTypes /\ InStep /\ CommandSound /\ BackendSound /\ LastHolds /\ ses \in Sessions
      /\ tool # "none"
  BY TodoFacts DEF RpcInv, RpcTypes
<1>2. LastHolds' BY <1>1 DEF LastHolds, Holds
<1>3. ASSUME NEW c \in Seq(Askings), ses' = [ses EXCEPT !.todo = c, !.waiting = FALSE]
      PROVE  /\ RpcTypes' /\ InStep' /\ FirstHolds'
             /\ ses'.tool = ses.tool /\ ses'.todo = c /\ ~ses'.waiting /\ ses'.seq = ses.seq
             /\ ses'.dead = ses.dead /\ ses'.known = ses.known /\ ses'.basis = ses.basis
             /\ ses'.lag = ses.lag /\ ses'.old = ses.old
  <2>1. /\ ses'.tool = ses.tool /\ ses'.todo = c /\ ~ses'.waiting /\ ses'.seq = ses.seq
        /\ ses'.dead = ses.dead /\ ses'.known = ses.known /\ ses'.basis = ses.basis
        /\ ses'.lag = ses.lag /\ ses'.old = ses.old
    BY <1>1, <1>3 DEF Sessions
  <2>2. ses' \in Sessions BY <1>1, <1>3 DEF Sessions
  <2>3. RpcTypes' BY <1>1, <2>1, <2>2 DEF RpcTypes
  <2>4. ASSUME NEW p \in Pru, p \notin ses.dead PROVE Connected(p)'
    <3>1. Connected(p) BY <1>1, <2>4 DEF InStep
    <3> QED BY <1>1, <2>1, <3>1, Untouched
  <2>5. ASSUME NEW p \in Pru, p \in ses.dead PROVE Removed(p)'
    BY <1>1, <2>5 DEF InStep, Removed
  <2>6. InStep' BY <2>1, <2>4, <2>5 DEF InStep
  <2>7. FirstHolds' BY <2>1 DEF FirstHolds
  <2> QED BY <2>1, <2>3, <2>6, <2>7
<1>4. CASE Head(todo).sample /\ Len(todo) > 1
  <2>1. PICK c : c = Tail(todo) OBVIOUS
  <2>2. c \in Seq(Askings) /\ todo[1].sample /\ 1 \in 1..Len(todo)
    BY <1>1, <1>4, <2>1, TodoFacts
  <2>3. ses' = [ses EXCEPT !.todo = c, !.waiting = FALSE] BY <1>4, <2>1 DEF Raised
  <2>4. /\ RpcTypes' /\ InStep' /\ FirstHolds'
        /\ ses'.tool = ses.tool /\ ses'.todo = c /\ ~ses'.waiting /\ ses'.seq = ses.seq
        /\ ses'.dead = ses.dead /\ ses'.known = ses.known /\ ses'.basis = ses.basis
        /\ ses'.lag = ses.lag /\ ses'.old = ses.old
    BY <1>3, <2>2, <2>3
  <2>5. tool = "cli"
    <3>1. tool \notin {"opening", "backend"} BY <1>1, <2>2 DEF BackendSound
    <3>2. tool \in {"none", "cli", "opening", "backend"} BY <1>1, SesFacts
    <3> QED BY <1>1, <3>1, <3>2
  <2>6. PICK p : p = todo[1].pru OBVIOUS
  <2>7. p \in Pru BY <1>1, <2>6, TodoFacts
  <2>8. PICK w \in Nat : w = Written(p) BY <1>1, <2>7, SesFacts DEF RpcTypes
  <2>9. Turn(p) = w \/ Turn(p) = w - 1 BY <2>8 DEF Turn, Waits
  <2>10. /\ p = "PRU0" /\ Turn(p) + 1 >= 3
         /\ p \notin ses.dead /\ Turn(p) >= 1 /\ ses.lag[p] <= 1 => ses.old[p] = 0
         /\ ses.basis = "stale" => ses.lag[p] >= 1
    BY <1>1, <2>2, <2>5, <2>6 DEF CommandSound
  <2>11. w >= 2 /\ Turn(p) >= 1 BY <2>8, <2>9, <2>10
  <2>12. p \notin ses.dead /\ Written(p) >= 1 /\ ses.lag[p] <= 1 => ses'.old[p] = 0
    BY <2>4, <2>10, <2>11
  <2>13. ses'.basis = "stale" => Written(p) >= 2 /\ ses.lag[p] >= 1 BY <2>4, <2>8, <2>10, <2>11
  <2>14. p # "PRU1" BY <2>10
  <2>15. CommandSound'
    BY <1>4, <2>1, <2>2, <2>4, <2>5, <2>6, <2>12, <2>13, <2>14, CommandGoesOn
  <2>16. BackendSound' BY <2>4, <2>5 DEF BackendSound
  <2> QED BY <1>2, <2>4, <2>15, <2>16 DEF RpcInv
<1>5. CASE ~(Head(todo).sample /\ Len(todo) > 1) /\ tool = "backend"
  <2>1. ses' = [ses EXCEPT !.todo = <<>>, !.waiting = FALSE] BY <1>5 DEF Raised
  <2>2. <<>> \in Seq(Askings) OBVIOUS
  <2>3. /\ RpcTypes' /\ InStep' /\ FirstHolds'
        /\ ses'.tool = ses.tool /\ ses'.todo = <<>> /\ ses'.dead = ses.dead
        /\ ses'.known = ses.known /\ ses'.basis = ses.basis /\ ses'.lag = ses.lag /\ ses'.old = ses.old
    BY <1>3, <2>1, <2>2
  <2>4. CommandSound' BY <1>5, <2>3 DEF CommandSound
  <2>5. BackendSound' BY <1>1, <1>5, <2>3 DEF BackendSound
  <2> QED BY <1>2, <2>3, <2>4, <2>5 DEF RpcInv
<1>6. CASE ~(Head(todo).sample /\ Len(todo) > 1) /\ tool # "backend"
  <2>1. ses' = NoSession BY <1>6 DEF Raised
  <2>2. toHost' \in [Pru -> Seq(Answerable)] BY <1>1 DEF RpcTypes
  <2> QED BY <1>2, <2>1, <2>2, Ended
<1> QED BY <1>4, <1>5, <1>6

(* An answer is taken from the queue, whatever becomes of it.                    *)
ReadOld(p) == [ses.old EXCEPT ![p] = IF @ = 0 THEN 0 ELSE @ - 1]
LEMMA TakenFacts ==
    ASSUME RpcInv, todo # <<>>, ses.waiting, NEW p, p = todo[1].pru, toHost[p] # <<>>,
           toHost' = [toHost EXCEPT ![p] = Tail(@)], UNCHANGED <<toPru, prog, stim>>
    PROVE  /\ p \in Pru /\ p \notin ses.dead /\ Connected(p) /\ LastHolds'
           /\ toHost' \in [Pru -> Seq(Answerable)]
           /\ ReadOld(p) \in [Pru -> Nat] /\ (ses.lag[p] <= 1 => ReadOld(p)[p] = 0)
           /\ Waits(p) = 1 /\ Entries(p)' = Entries(p) - 1
           /\ (~ses'.waiting /\ ses'.seq = ses.seq /\ ses'.dead = ses.dead /\ ses'.lag = ses.lag
               /\ ses'.old = ReadOld(p) => InStep' /\ FirstHolds')
<1>1. /\ RpcTypes /\ InStep /\ LastHolds /\ tool # "none" /\ p \in Pru
  BY TodoFacts DEF RpcInv
<1>2. p \notin ses.dead BY <1>1 DEF InStep, Removed
<1>3. Connected(p) BY <1>1, <1>2 DEF InStep
<1>4. LastHolds' /\ toHost' \in [Pru -> Seq(Answerable)] BY <1>1, ReadKeepsLast
<1>5. ses.old \in [Pru -> Nat] BY <1>1, SesFacts DEF RpcTypes
<1>6. PICK o \in Nat : o = ses.old[p] BY <1>1, <1>5
<1>7. PICK m \in Nat : m = IF o = 0 THEN 0 ELSE o - 1
  <2>1. (IF o = 0 THEN 0 ELSE o - 1) \in Nat BY <1>6
  <2> QED BY <2>1
<1>8. ReadOld(p) = [ses.old EXCEPT ![p] = m] BY <1>6, <1>7 DEF ReadOld
<1>9. /\ ReadOld(p) \in [Pru -> Nat] /\ ReadOld(p)[p] = m
      /\ \A q \in Pru : q # p => ReadOld(p)[q] = ses.old[q]
  BY <1>1, <1>5, <1>7, <1>8
<1>10. PICK l \in Nat : l = ses.lag[p] BY <1>1, SesFacts DEF RpcTypes
<1>11. o <= l BY <1>1, <1>3, <1>6, <1>10, OldIsLeft
<1>12. ses.lag[p] <= 1 => ReadOld(p)[p] = 0 BY <1>6, <1>7, <1>9, <1>10, <1>11
<1>13. Waits(p) = 1 BY DEF Waits
<1>14. PICK x : x = toHost[p] OBVIOUS
<1>15. x \in Seq(Answerable) /\ x # <<>> BY <1>1, <1>14, QueueFacts
<1>16. /\ Len(x) \in Nat \ {0} /\ Len(Tail(x)) = Len(x) - 1
       /\ \A i \in 1..(Len(x) - 1) : Tail(x)[i] = x[i + 1]
  BY <1>15, QueueTail
<1>17. PICK h \in Nat \ {0} : h = Len(x) BY <1>16
<1>18. PICK t \in Nat : t = Len(toPru[p]) BY <1>1, QueueFacts
<1>19. toHost \in [Pru -> Seq(Answerable)] BY <1>1 DEF RpcTypes
<1>20. toHost'[p] = Tail(x) /\ \A q \in Pru : q # p => toHost'[q] = toHost[q] BY <1>1, <1>14, <1>19
<1>21. Len(toHost'[p]) = h - 1 /\ Len(toHost[p]) = h /\ toPru' = toPru BY <1>14, <1>16, <1>17, <1>20
<1>22. Entries(p) = h + t /\ Entries(p)' = h + t - 1
  <2>1. Entries(p) = h + t BY <1>18, <1>21 DEF Entries
  <2>2. Entries(p)' = (h - 1) + t BY <1>18, <1>21 DEF Entries
  <2>3. (h - 1) + t = h + t - 1 OBVIOUS
  <2> QED BY <2>1, <2>2, <2>3
<1>23. PICK w \in Nat : w = Written(p) BY <1>1, SesFacts DEF RpcTypes
<1>24. l + 1 <= h + t /\ h + t <= w + l /\ o = IF h + t > w THEN h + t - w ELSE 0
  BY <1>3, <1>6, <1>10, <1>13, <1>22, <1>23 DEF Connected
<1>25. ASSUME ~ses'.waiting, ses'.seq = ses.seq, ses'.dead = ses.dead, ses'.lag = ses.lag,
              ses'.old = ReadOld(p)
       PROVE  InStep' /\ FirstHolds'
  <2>0. Written(p)' = w /\ Waits(p)' = 0 /\ ses'.lag[p] = l /\ ses'.old[p] = m
    BY <1>9, <1>10, <1>23, <1>25 DEF Written, Waits
  <2>1. ses'.lag[p] + Waits(p)' <= Entries(p)' /\ Entries(p)' <= Written(p)' + ses'.lag[p]
    BY <1>22, <1>24, <2>0
  <2>2. ses'.old[p] = IF Entries(p)' > Written(p)' THEN Entries(p)' - Written(p)' ELSE 0
    BY <1>7, <1>22, <1>24, <2>0
  <2>3. Written(p)' - Entries(p)' = w - (h + t) + 1 BY <1>22, <2>0
  <2>4. ASSUME NEW i \in 1..Len(toHost'[p]), i > ses'.old[p]
        PROVE  toHost'[p][i] = Refusal \/ toHost'[p][i].seq = Written(p)' - Entries(p)' + i
    <3>1. i \in 1..(h - 1) /\ i > m BY <1>21, <2>0, <2>4
    <3>2. PICK j : j = i + 1 OBVIOUS
    <3>3. j \in 1..h /\ j > o BY <1>7, <3>1, <3>2
    <3>4. \A k \in 1..h : k > o => toHost[p][k] = Refusal \/ toHost[p][k].seq = w - (h + t) + k
      BY <1>3, <1>6, <1>21, <1>22, <1>23 DEF Connected
    <3>5. toHost[p][j] = Refusal \/ toHost[p][j].seq = w - (h + t) + j BY <3>3, <3>4
    <3>6. toHost'[p][i] = toHost[p][j] BY <1>14, <1>16, <1>17, <1>20, <3>1, <3>2
    <3>7. w - (h + t) + j = w - (h + t) + 1 + i BY <3>1, <3>2
    <3> QED BY <2>3, <3>5, <3>6, <3>7
  <2>5. ASSUME NEW i \in 1..Len(toPru'[p]), i + Len(toHost'[p]) > ses'.old[p]
        PROVE  toPru'[p][i].seq = Written(p)' - Entries(p)' + Len(toHost'[p]) + i
    <3>1. i \in 1..t /\ i + (h - 1) > m BY <1>18, <1>21, <2>0, <2>5
    <3>2. i + h > o BY <1>7, <3>1
    <3>3. \A j \in 1..t : j + h > o => toPru[p][j].seq = w - (h + t) + h + j
      <4>1. \A j \in 1..Len(toPru[p]) :
               j + Len(toHost[p]) > ses.old[p] =>
                  toPru[p][j].seq = Written(p) - Entries(p) + Len(toHost[p]) + j
        BY <1>3 DEF Connected
      <4> QED BY <1>6, <1>18, <1>21, <1>22, <1>23, <4>1
    <3>4. toPru'[p][i].seq = w - (h + t) + h + i BY <1>21, <3>1, <3>2, <3>3
    <3>5. w - (h + t) + h + i = w - (h + t) + 1 + (h - 1) + i BY <3>1
    <3> QED BY <1>21, <2>3, <3>4, <3>5
  <2>6. Connected(p)' BY <1>25, <2>1, <2>2, <2>4, <2>5 DEF Connected
  <2>7. ASSUME NEW q \in Pru, q # p, q \notin ses.dead PROVE Connected(q)'
    <3>1. Connected(q) BY <1>1, <2>7 DEF InStep
    <3>2. /\ toHost'[q] = toHost[q] /\ toPru'[q] = toPru[q] /\ ses'.seq[q] = ses.seq[q]
          /\ ses'.lag[q] = ses.lag[q] /\ ses'.old[q] = ses.old[q]
      BY <1>9, <1>20, <1>21, <1>25, <2>7
    <3> QED BY <1>1, <1>25, <3>1, <3>2, Untouched
  <2>8. ASSUME NEW q \in Pru, q \in ses.dead PROVE Removed(q)'
    <3>1. Removed(q) /\ q # p BY <1>1, <1>2, <2>8 DEF InStep
    <3> QED BY <1>20, <1>21, <3>1 DEF Removed
  <2>9. InStep' BY <1>25, <2>6, <2>7, <2>8 DEF InStep
  <2>10. FirstHolds' BY <1>25 DEF FirstHolds
  <2> QED BY <2>9, <2>10
<1> QED BY <1>1, <1>2, <1>3, <1>4, <1>9, <1>12, <1>13, <1>22, <1>25

(* What the program does with it, n being its state with what it noted of it.    *)
Taken(p) ==
    /\ todo # <<>> /\ ses.waiting /\ p = todo[1].pru /\ toHost[p] # <<>>
    /\ toHost' = [toHost EXCEPT ![p] = Tail(@)] /\ UNCHANGED <<toPru, prog, stim>>
GoesOn(n, p) ==
    /\ n \in Sessions /\ n.tool = ses.tool /\ n.todo = ses.todo /\ n.seq = ses.seq
    /\ n.dead = ses.dead /\ n.lag = ses.lag /\ n.old = ReadOld(p)
    /\ \A q \in Pru : n.known[q] \in Images(q) \cup {"off"} /\ (q # p => n.known[q] = ses.known[q])
    /\ tool = "backend" => n.known = ses.known
    /\ tool \in {"opening", "backend"} => n.basis = ses.basis
    /\ tool = "cli" /\ Len(todo) > 1 /\ n.basis = "stale" => Written(p) >= 2 /\ ses.lag[p] >= 1
    /\ \/ ses' = NoSession
       \/ Len(todo) > 1 /\ ses' = [n EXCEPT !.todo = Tail(@), !.waiting = FALSE]
       \/ /\ tool \in {"opening", "backend"}
          /\ ses' = [n EXCEPT !.tool = "backend", !.todo = <<>>, !.waiting = FALSE]

LEMMA ReadGoesOn == ASSUME RpcInv, NEW p, Taken(p), NEW n, GoesOn(n, p) PROVE RpcInv'
<1> /\ todo # <<>> /\ ses.waiting /\ p = todo[1].pru /\ toHost[p] # <<>>
    /\ toHost' = [toHost EXCEPT ![p] = Tail(@)] /\ UNCHANGED <<toPru, prog, stim>>
  BY DEF Taken
<1> /\ n \in Sessions /\ n.tool = ses.tool /\ n.todo = ses.todo /\ n.seq = ses.seq
    /\ n.dead = ses.dead /\ n.lag = ses.lag /\ n.old = ReadOld(p)
    /\ \A q \in Pru : n.known[q] \in Images(q) \cup {"off"} /\ (q # p => n.known[q] = ses.known[q])
    /\ tool = "backend" => n.known = ses.known
    /\ tool \in {"opening", "backend"} => n.basis = ses.basis
    /\ tool = "cli" /\ Len(todo) > 1 /\ n.basis = "stale" => Written(p) >= 2 /\ ses.lag[p] >= 1
    /\ \/ ses' = NoSession
       \/ Len(todo) > 1 /\ ses' = [n EXCEPT !.todo = Tail(@), !.waiting = FALSE]
       \/ /\ tool \in {"opening", "backend"}
          /\ ses' = [n EXCEPT !.tool = "backend", !.todo = <<>>, !.waiting = FALSE]
  BY DEF GoesOn
<1>1. /\ RpcTypes /\ InStep /\ CommandSound /\ BackendSound /\ LastHolds /\ tool # "none"
  BY TodoFacts DEF RpcInv
<1>2. /\ p \in Pru /\ p \notin ses.dead /\ Connected(p) /\ LastHolds'
      /\ toHost' \in [Pru -> Seq(Answerable)]
      /\ (ses.lag[p] <= 1 => ReadOld(p)[p] = 0)
      /\ Waits(p) = 1 /\ Entries(p)' = Entries(p) - 1
      /\ (~ses'.waiting /\ ses'.seq = ses.seq /\ ses'.dead = ses.dead /\ ses'.lag = ses.lag
          /\ ses'.old = ReadOld(p) => InStep' /\ FirstHolds')
  BY TakenFacts
<1>3. CASE ses' = NoSession BY <1>2, <1>3, Ended
<1>4. ASSUME NEW c \in Seq(Askings), NEW k \in {"cli", "opening", "backend"},
             ses' = [n EXCEPT !.tool = k, !.todo = c, !.waiting = FALSE]
      PROVE  /\ RpcTypes' /\ InStep' /\ FirstHolds'
             /\ ses'.tool = k /\ ses'.todo = c /\ ~ses'.waiting /\ ses'.seq = ses.seq
             /\ ses'.dead = ses.dead /\ ses'.known = n.known /\ ses'.basis = n.basis
             /\ ses'.lag = ses.lag /\ ses'.old = ReadOld(p)
  <2>1. /\ ses'.tool = k /\ ses'.todo = c /\ ~ses'.waiting /\ ses'.seq = ses.seq
        /\ ses'.dead = ses.dead /\ ses'.known = n.known /\ ses'.basis = n.basis
        /\ ses'.lag = ses.lag /\ ses'.old = ReadOld(p)
    BY <1>4 DEF Sessions
  <2>2. ses' \in Sessions BY <1>4 DEF Sessions
  <2>3. RpcTypes'
    <3>1. /\ prog' \in [Pru -> Firmwares] /\ stim' \in {"idle", "armed", "running", "held"}
          /\ toPru' \in [Pru -> Seq(Messages)]
      BY <1>1 DEF RpcTypes
    <3>2. \A q \in Pru : prog'[q] \in Images(q) \cup {"off"} /\ ses'.known[q] \in Images(q) \cup {"off"}
      BY <1>1, <2>1 DEF RpcTypes
    <3>3. ses'.tool # "none" /\ ~ses'.waiting BY <1>4, <2>1
    <3> QED BY <1>2, <2>2, <3>1, <3>2, <3>3 DEF RpcTypes
  <2> QED BY <1>2, <2>1, <2>3
<1>5. ASSUME NEW q \in Pru, ses'.old = ReadOld(p), ses'.lag = ses.lag, ses'.dead = ses.dead,
             ses'.known = n.known, tool \in {"opening", "backend"}
      PROVE  q \notin ses'.dead /\ ses'.known[q] # "off" /\ ses'.lag[q] <= 1 => ses'.old[q] = 0
  <2>1. CASE q = p BY <1>2, <1>5, <2>1
  <2>2. CASE q # p
    <3>1. ses.old \in [Pru -> Nat] BY <1>1, SesFacts DEF RpcTypes
    <3>2. ReadOld(p)[q] = ses.old[q] BY <1>2, <2>2, <3>1 DEF ReadOld
    <3>3. n.known[q] = ses.known[q] BY <2>2
    <3> QED BY <1>1, <1>5, <3>2, <3>3 DEF BackendSound
  <2> QED BY <2>1, <2>2
<1>6. CASE Len(todo) > 1 /\ ses' = [n EXCEPT !.todo = Tail(@), !.waiting = FALSE]
  <2>1. PICK c : c = Tail(todo) OBVIOUS
  <2>2. /\ c \in Seq(Askings) /\ Len(c) = Len(todo) - 1 /\ Len(todo) \in Nat
        /\ \A i \in 1..(Len(todo) - 1) : c[i] = todo[i + 1] /\ i + 1 \in 1..Len(todo)
    BY <1>1, <2>1, TodoFacts
  <2>3. ses.tool \in {"cli", "opening", "backend"}
    <3>1. ses.tool \in {"none", "cli", "opening", "backend"} BY <1>1, SesFacts DEF RpcTypes
    <3> QED BY <1>1, <3>1
  <2>4. ses' = [n EXCEPT !.tool = ses.tool, !.todo = c, !.waiting = FALSE]
    <3>1. ses' = [n EXCEPT !.todo = c, !.waiting = FALSE] BY <1>6, <2>1
    <3>2. [n EXCEPT !.todo = c, !.waiting = FALSE] = [n EXCEPT !.tool = n.tool, !.todo = c, !.waiting = FALSE]
      BY DEF Sessions
    <3> QED BY <3>1, <3>2
  <2>5. /\ RpcTypes' /\ InStep' /\ FirstHolds'
        /\ ses'.tool = ses.tool /\ ses'.todo = c /\ ~ses'.waiting /\ ses'.seq = ses.seq
        /\ ses'.dead = ses.dead /\ ses'.known = n.known /\ ses'.basis = n.basis
        /\ ses'.lag = ses.lag /\ ses'.old = ReadOld(p)
    BY <1>4, <2>2, <2>3, <2>4
  <2>6. CommandSound'
    <3>1. CASE ses.tool = "cli"
      <4>1. p \notin ses.dead /\ Written(p) >= 1 /\ ses.lag[p] <= 1 => ses'.old[p] = 0 BY <1>2, <2>5
      <4>2. p = "PRU1" /\ p \notin ses.dead => Entries(p)' = ses.lag[p]
        <5>1. p = "PRU1" /\ p \notin ses.dead => Entries(p) = ses.lag[p] + Waits(p)
          BY <1>1, <3>1 DEF CommandSound
        <5>2. Entries(p) \in Nat /\ ses.lag[p] \in Nat BY <1>1, <1>2, QueueFacts, SesFacts DEF RpcTypes
        <5> QED BY <1>2, <5>1, <5>2
      <4>3. ses'.basis = "stale" => Written(p) >= 2 /\ ses.lag[p] >= 1 BY <1>6, <2>5, <3>1
      <4> QED BY <1>6, <2>1, <2>5, <3>1, <4>1, <4>2, <4>3, CommandGoesOn
    <3>2. CASE ses.tool # "cli" BY <2>5, <3>2 DEF CommandSound
    <3> QED BY <3>1, <3>2
  <2>7. BackendSound'
    <3>1. SUFFICES ASSUME tool \in {"opening", "backend"} PROVE BackendSound'
      BY <2>5 DEF BackendSound
    <3>2. ses'.basis = "user" BY <1>1, <2>5, <3>1 DEF BackendSound
    <3>3. \A i \in 1..Len(todo) : ~todo[i].sample /\ todo[i].type \notin {"ABZ_ARM", "ABZ_SCHEDULE"}
      BY <1>1, <3>1 DEF BackendSound
    <3>4. \A i \in 1..Len(c) : ~c[i].sample /\ c[i].type \notin {"ABZ_ARM", "ABZ_SCHEDULE"}
      BY <2>2, <3>3
    <3>5. tool = "opening" => \A i \in 1..Len(todo) : todo[i].type = "HELLO"
      BY <1>1, <3>1 DEF BackendSound
    <3>6. tool = "opening" => \A i \in 1..Len(c) : c[i].type = "HELLO" BY <2>2, <3>5
    <3>7. tool = "backend" => \A i \in 1..Len(todo) : todo[i].pru = "PRU1" => n.known["PRU1"] # "off"
      BY <1>1, <3>1 DEF BackendSound
    <3>8. tool = "backend" => \A i \in 1..Len(c) : c[i].pru = "PRU1" => n.known["PRU1"] # "off"
      <4>1. ASSUME tool = "backend", NEW i \in 1..Len(c), c[i].pru = "PRU1"
            PROVE  n.known["PRU1"] # "off"
        <5>1. i \in 1..(Len(todo) - 1) BY <2>2
        <5>2. c[i] = todo[i + 1] /\ i + 1 \in 1..Len(todo) BY <2>2, <5>1
        <5>3. todo[i + 1].pru = "PRU1" BY <4>1, <5>2
        <5> QED BY <3>7, <4>1, <5>2, <5>3
      <4> QED BY <4>1
    <3>9. \A q \in Pru : q \notin ses'.dead /\ ses'.known[q] # "off" /\ ses'.lag[q] <= 1 => ses'.old[q] = 0
      BY <1>5, <2>5, <3>1
    <3> QED BY <2>5, <3>2, <3>4, <3>6, <3>8, <3>9 DEF BackendSound
  <2> QED BY <1>2, <2>5, <2>6, <2>7 DEF RpcInv
<1>7. CASE tool \in {"opening", "backend"}
           /\ ses' = [n EXCEPT !.tool = "backend", !.todo = <<>>, !.waiting = FALSE]
  <2>1. <<>> \in Seq(Askings) OBVIOUS
  <2>2. /\ RpcTypes' /\ InStep' /\ FirstHolds'
        /\ ses'.tool = "backend" /\ ses'.todo = <<>>
        /\ ses'.dead = ses.dead /\ ses'.known = n.known /\ ses'.basis = n.basis
        /\ ses'.lag = ses.lag /\ ses'.old = ReadOld(p)
    BY <1>4, <1>7, <2>1
  <2>3. CommandSound' BY <2>2 DEF CommandSound
  <2>4. ses'.basis = "user" BY <1>1, <1>7, <2>2 DEF BackendSound
  <2>5. \A q \in Pru : q \notin ses'.dead /\ ses'.known[q] # "off" /\ ses'.lag[q] <= 1 => ses'.old[q] = 0
    BY <1>5, <1>7, <2>2
  <2>6. BackendSound' BY <2>2, <2>4, <2>5 DEF BackendSound
  <2> QED BY <1>2, <2>2, <2>3, <2>6 DEF RpcInv
<1> QED BY <1>3, <1>6, <1>7

(* An answer that passes the check and that no earlier program was sent is the    *)
(* only one under way, and it is the one to the request just written.             *)
LEMMA AcceptedFacts ==
    ASSUME RpcInv, todo # <<>>, ses.waiting, NEW p, p = todo[1].pru, toHost[p] # <<>>,
           Answers(todo[1], Head(toHost[p]))
    PROVE  /\ Own(todo[1], Head(toHost[p])) <=> ses.old[p] = 0
           /\ ses.old[p] = 0 => /\ ses.lag[p] = 0 /\ Len(toHost[p]) = 1 /\ toPru[p] = <<>>
           /\ ses.lag[p] = 0 => ses.old[p] = 0
           /\ Head(toHost[p]) = toHost[p][1] /\ toHost[p][1].type = todo[1].type
<1>1. /\ RpcTypes /\ InStep /\ tool # "none" /\ p \in Pru /\ todo[1].type \in Types
  BY TodoFacts DEF RpcInv
<1>2. Connected(p) BY <1>1 DEF InStep, Removed
<1>3. PICK x : x = toHost[p] OBVIOUS
<1>4. x \in Seq(Answerable) /\ x # <<>> BY <1>1, <1>3, QueueFacts
<1>5. Head(x) = x[1] /\ x[1] \in Answerable /\ Len(x) \in Nat \ {0} BY <1>4, QueueTail
<1>6. PICK e : e = x[1] OBVIOUS
<1>7. e.type = todo[1].type /\ e.seq + 1 = ses.seq[p] BY <1>3, <1>5, <1>6 DEF Answers
<1>8. e # Refusal BY <1>1, <1>7, TypeFacts
<1>9. e \in Messages /\ e.seq \in Nat BY <1>5, <1>6, <1>8, TypeFacts DEF Answerable
<1>10. PICK w \in Nat : w = Written(p) BY <1>1, SesFacts DEF RpcTypes
<1>11. ses.seq[p] = w + 1
  <2>1. ses.seq[p] \in Nat \ {0} BY <1>1, SesFacts DEF RpcTypes
  <2> QED BY <1>10, <2>1 DEF Written
<1>12. e.seq = w /\ e.seq = ses.seq[p] - 1 BY <1>7, <1>9, <1>10, <1>11
<1>13. e = [type |-> todo[1].type, seq |-> ses.seq[p] - 1] BY <1>7, <1>9, <1>12 DEF Messages
<1>14. PICK h \in Nat : h = Len(toHost[p]) BY <1>1, QueueFacts
<1>15. PICK t \in Nat : t = Len(toPru[p]) BY <1>1, QueueFacts
<1>17. PICK l \in Nat : l = ses.lag[p] BY <1>1, SesFacts DEF RpcTypes
<1>18. PICK o \in Nat : o = ses.old[p] BY <1>1, SesFacts DEF RpcTypes
<1>16. Entries(p) = h + t BY <1>14, <1>15 DEF Entries
<1>19. Waits(p) = 1 BY DEF Waits
<1>20. l + 1 <= h + t BY <1>2, <1>17, <1>16, <1>19 DEF Connected
<1>21. h >= 1 /\ 1 \in 1..Len(toHost[p]) BY <1>3, <1>5, <1>14
<1>22. ASSUME ses.old[p] = 0 PROVE ses.lag[p] = 0 /\ Len(toHost[p]) = 1 /\ toPru[p] = <<>>
  <2>1. toHost[p][1] = Refusal \/ toHost[p][1].seq = Written(p) - Entries(p) + 1
    BY <1>2, <1>21, <1>22 DEF Connected
  <2>2. w = w - (h + t) + 1 BY <1>3, <1>6, <1>8, <1>10, <1>12, <1>16, <2>1
  <2>3. h = 1 /\ t = 0 /\ l = 0 BY <1>20, <1>21, <2>2
  <2>4. toPru[p] \in Seq(Messages) BY <1>1, QueueFacts
  <2>5. toPru[p] = <<>> <=> Len(toPru[p]) = 0 BY <2>4, QueueAt, Zenon
  <2> QED BY <1>14, <1>15, <1>17, <2>3, <2>5
<1>23. ses.lag[p] = 0 => ses.old[p] = 0 BY <1>1, <1>2, <1>17, <1>18, OldIsLeft
<1>24. Own(todo[1], e) <=> ses.old[p] = 0 BY <1>13 DEF Own
<1> QED BY <1>3, <1>5, <1>6, <1>7, <1>22, <1>23, <1>24

LEMMA AnswerRead == ASSUME RpcInv, Read PROVE RpcInv'
<1>1. /\ RpcTypes /\ CommandSound /\ BackendSound /\ todo # <<>> /\ ses.waiting
      /\ UNCHANGED <<toPru, prog, stim>>
  BY DEF RpcInv, Read
<1>2. PICK r : r = Head(todo) OBVIOUS
<1>3. PICK p : p = r.pru OBVIOUS
<1>4. /\ r = todo[1] /\ p = todo[1].pru /\ p \in Pru /\ tool # "none" /\ Len(todo) \in Nat \ {0}
      /\ 1 \in 1..Len(todo)
  BY <1>1, <1>2, <1>3, TodoFacts
<1>5. PICK s : s = [ses EXCEPT !.old = ReadOld(p)] OBVIOUS
<1>6. ses \in Sessions BY <1>1 DEF RpcTypes
<1>7. s = [ses EXCEPT !.old[p] = IF @ = 0 THEN 0 ELSE @ - 1] BY <1>5, <1>6 DEF ReadOld, Sessions
<1>8. /\ toHost[p] # <<>> /\ toHost' = [toHost EXCEPT ![p] = Tail(@)]
      /\ ses' = IF Answers(r, Head(toHost[p])) THEN Proceed(Noted(s, r, Head(toHost[p]))) ELSE Raised(s)
  BY <1>2, <1>3, <1>7 DEF Read
<1>9. Waits(p) = 1 /\ ReadOld(p) \in [Pru -> Nat] /\ Connected(p) BY <1>1, <1>4, <1>8, TakenFacts
<1>10. /\ s \in Sessions /\ s.tool = ses.tool /\ s.todo = ses.todo /\ s.seq = ses.seq
       /\ s.dead = ses.dead /\ s.lag = ses.lag /\ s.old = ReadOld(p) /\ s.known = ses.known
       /\ s.basis = ses.basis
  BY <1>5, <1>6, <1>9 DEF Sessions
<1>11. /\ ses.known \in [Pru -> Firmwares] /\ prog \in [Pru -> Firmwares]
       /\ \A q \in Pru : ses.known[q] \in Images(q) \cup {"off"} /\ prog[q] \in Images(q) \cup {"off"}
  BY <1>1, <1>6, SesFacts DEF RpcTypes
<1>12. tool \in {"cli", "opening", "backend"}
  <2>1. tool \in {"none", "cli", "opening", "backend"} BY <1>6, SesFacts
  <2> QED BY <1>4, <2>1
<1>13. PICK w \in Nat : w = Written(p) BY <1>4, <1>6, SesFacts
<1>14. Turn(p) = w - 1 BY <1>9, <1>13 DEF Turn
<1>15. ASSUME tool = "cli", ses.basis = "stale" PROVE Written(p) >= 2 /\ ses.lag[p] >= 1
  <2>1. Turn(p) >= 2 /\ ses.lag[p] >= 1 BY <1>1, <1>4, <1>15 DEF CommandSound
  <2> QED BY <1>13, <1>14, <2>1
<1>16. Taken(p) BY <1>1, <1>4, <1>8 DEF Taken
<1>17. CASE ~Answers(r, Head(toHost[p]))
  <2>1. ses' = Raised(s) BY <1>8, <1>17
  <2>2. \/ ses' = NoSession
        \/ Len(todo) > 1 /\ ses' = [s EXCEPT !.todo = Tail(@), !.waiting = FALSE]
        \/ tool \in {"opening", "backend"}
           /\ ses' = [s EXCEPT !.tool = "backend", !.todo = <<>>, !.waiting = FALSE]
    <3>1. CASE Head(s.todo).sample /\ Len(s.todo) > 1 BY <1>10, <2>1, <3>1 DEF Raised
    <3>2. CASE ~(Head(s.todo).sample /\ Len(s.todo) > 1) /\ s.tool = "backend"
      <4>1. ses' = [s EXCEPT !.todo = <<>>, !.waiting = FALSE] BY <2>1, <3>2 DEF Raised
      <4>2. [s EXCEPT !.todo = <<>>, !.waiting = FALSE] = [s EXCEPT !.tool = s.tool, !.todo = <<>>, !.waiting = FALSE]
        BY <1>10 DEF Sessions
      <4> QED BY <1>10, <3>2, <4>1, <4>2
    <3>3. CASE ~(Head(s.todo).sample /\ Len(s.todo) > 1) /\ s.tool # "backend" BY <2>1, <3>3 DEF Raised
    <3> QED BY <3>1, <3>2, <3>3
  <2>3. \A q \in Pru : s.known[q] \in Images(q) \cup {"off"} /\ (q # p => s.known[q] = ses.known[q])
    BY <1>10, <1>11
  <2>4. tool = "cli" /\ Len(todo) > 1 /\ s.basis = "stale" => Written(p) >= 2 /\ ses.lag[p] >= 1
    BY <1>10, <1>15
  <2>5. (tool = "backend" => s.known = ses.known)
        /\ (tool \in {"opening", "backend"} => s.basis = ses.basis)
    BY <1>10
  <2>6. GoesOn(s, p) BY <1>10, <2>2, <2>3, <2>4, <2>5 DEF GoesOn
  <2> QED BY <1>16, <2>6, ReadGoesOn
<1>18. CASE Answers(r, Head(toHost[p]))
  <2>1. PICK n : n = Noted(s, r, Head(toHost[p])) OBVIOUS
  <2>2. /\ n \in Sessions /\ n.tool = ses.tool /\ n.todo = ses.todo /\ n.seq = ses.seq
        /\ n.dead = ses.dead /\ n.lag = ses.lag /\ n.old = ReadOld(p)
        /\ \A q \in Pru : n.known[q] \in Images(q) \cup {"off"} /\ (q # p => n.known[q] = ses.known[q])
        /\ tool = "backend" => n.known = ses.known
        /\ tool \in {"opening", "backend"} => n.basis = ses.basis
        /\ tool = "cli" /\ Len(todo) > 1 /\ n.basis = "stale" => Written(p) >= 2 /\ ses.lag[p] >= 1
    <3>1. CASE tool = "opening"
      <4>1. n = [s EXCEPT !.known[p] = prog[p]] BY <1>3, <2>1, <3>1 DEF Noted
      <4>2. PICK k : k = [ses.known EXCEPT ![p] = prog[p]] OBVIOUS
      <4>3. k \in [Pru -> Firmwares] /\ \A q \in Pru : k[q] = IF q = p THEN prog[q] ELSE ses.known[q]
        BY <1>4, <1>11, <4>2
      <4>4. n = [s EXCEPT !.known = k] BY <1>10, <4>1, <4>2 DEF Sessions
      <4>5. /\ n \in Sessions /\ n.tool = ses.tool /\ n.todo = ses.todo /\ n.seq = ses.seq
            /\ n.dead = ses.dead /\ n.lag = ses.lag /\ n.old = ReadOld(p) /\ n.known = k
            /\ n.basis = ses.basis
        BY <1>10, <4>3, <4>4 DEF Sessions
      <4>6. \A q \in Pru : n.known[q] \in Images(q) \cup {"off"} /\ (q # p => n.known[q] = ses.known[q])
        BY <1>11, <4>3, <4>5
      <4> QED BY <3>1, <4>5, <4>6
    <3>2. CASE tool = "cli" /\ r.type = "TIME"
      <4>1. PICK b : b = IF Own(r, Head(toHost[p])) THEN "fresh" ELSE "stale" OBVIOUS
      <4>2. n = [s EXCEPT !.basis = b] BY <2>1, <3>2, <4>1 DEF Noted
      <4>3. /\ n \in Sessions /\ n.tool = ses.tool /\ n.todo = ses.todo /\ n.seq = ses.seq
            /\ n.dead = ses.dead /\ n.lag = ses.lag /\ n.old = ReadOld(p) /\ n.known = ses.known
            /\ n.basis = b
        BY <1>10, <4>1, <4>2 DEF Sessions
      <4>4. ASSUME Len(todo) > 1, b = "stale" PROVE Written(p) >= 2 /\ ses.lag[p] >= 1
        <5>1. ~Own(todo[1], Head(toHost[p])) BY <1>4, <4>1, <4>4
        <5>2. ses.lag[p] # 0 BY <1>1, <1>4, <1>8, <1>18, <5>1, AcceptedFacts
        <5>3. ses.lag[p] \in Nat BY <1>4, <1>6, SesFacts
        <5>4. Turn(p) + 1 >= 2 BY <1>1, <1>4, <3>2, <4>4 DEF CommandSound
        <5> QED BY <1>13, <1>14, <5>2, <5>3, <5>4
      <4>5. \A q \in Pru : n.known[q] \in Images(q) \cup {"off"} /\ (q # p => n.known[q] = ses.known[q])
        BY <1>11, <4>3
      <4> QED BY <3>2, <4>3, <4>4, <4>5
    <3>3. CASE tool # "opening" /\ ~(tool = "cli" /\ r.type = "TIME")
      <4>1. n = s BY <2>1, <3>3 DEF Noted
      <4>2. \A q \in Pru : n.known[q] \in Images(q) \cup {"off"} /\ (q # p => n.known[q] = ses.known[q])
        BY <1>10, <1>11, <4>1
      <4> QED BY <1>10, <1>15, <4>1, <4>2
    <3> QED BY <3>1, <3>2, <3>3
  <2>3. ses' = Proceed(n) BY <1>8, <1>18, <2>1
  <2>4. \/ ses' = NoSession
        \/ Len(todo) > 1 /\ ses' = [n EXCEPT !.todo = Tail(@), !.waiting = FALSE]
        \/ tool \in {"opening", "backend"}
           /\ ses' = [n EXCEPT !.tool = "backend", !.todo = <<>>, !.waiting = FALSE]
    <3>1. CASE Len(n.todo) > 1 BY <2>2, <2>3, <3>1 DEF Proceed
    <3>2. CASE ~(Len(n.todo) > 1) /\ (n.tool = "cli" \/ ~Checked(n.known)) BY <2>3, <3>2 DEF Proceed
    <3>3. CASE ~(Len(n.todo) > 1) /\ ~(n.tool = "cli" \/ ~Checked(n.known))
      <4>1. ses' = [n EXCEPT !.tool = "backend", !.todo = <<>>, !.waiting = FALSE]
        BY <2>3, <3>3 DEF Proceed
      <4> QED BY <1>12, <2>2, <3>3, <4>1
    <3> QED BY <3>1, <3>2, <3>3
  <2>5. GoesOn(n, p) BY <2>2, <2>4 DEF GoesOn
  <2> QED BY <1>16, <2>5, ReadGoesOn
<1> QED BY <1>17, <1>18

(* A request that the firmware accepts does what it says.                        *)
LEMMA StimHolds == ASSUME NEW t \in Types, stim' = StimAfter(t) PROVE Holds(t)'
<1>1. t \in {"FORCE_SAFE", "ABZ_STOP", "SERIAL_STOP"} => stim' = "idle" BY DEF StimAfter
<1>2. t \in {"STIM_START", "SERIAL_START"} => stim' = "running" BY DEF StimAfter
<1>3. t = "ABZ_ARM" => stim' = "armed" BY DEF StimAfter
<1> QED BY <1>1, <1>2, <1>3 DEF Holds

LEMMA RequestHandled == ASSUME RpcInv, NEW p \in Pru, Handle(p) PROVE RpcInv'
<1>1. /\ RpcTypes /\ InStep /\ CommandSound /\ BackendSound /\ LastHolds /\ FirstHolds
      /\ toPru[p] # <<>> /\ UNCHANGED <<ses, prog>>
  BY DEF RpcInv, Handle
<1>2. PICK x : x = toPru[p] OBVIOUS
<1>3. x \in Seq(Messages) /\ x # <<>> BY <1>1, <1>2, QueueFacts
<1>4. /\ Head(x) = x[1] /\ x[1] \in Messages /\ Len(x) \in Nat \ {0}
      /\ Tail(x) \in Seq(Messages) /\ Len(Tail(x)) = Len(x) - 1
      /\ \A i \in 1..(Len(x) - 1) : Tail(x)[i] = x[i + 1]
  BY <1>3, QueueTail
<1>5. PICK m : m = Head(x) OBVIOUS
<1>6. m \in Messages /\ m.type \in Types BY <1>4, <1>5, TypeFacts
<1>7. PICK ok \in BOOLEAN :
         /\ ok => CanAccept(p, m.type)
         /\ toPru' = [toPru EXCEPT ![p] = Tail(@)]
         /\ toHost' = [toHost EXCEPT ![p] = Append(@, IF ok THEN m ELSE Refusal)]
         /\ stim' = IF p = "PRU1" /\ ok THEN StimAfter(m.type) ELSE stim
  BY <1>2, <1>5 DEF Handle
<1>8. PICK a : a = IF ok THEN m ELSE Refusal OBVIOUS
<1>9. a \in Answerable BY <1>6, <1>8 DEF Answerable
<1>10. PICK y : y = toHost[p] OBVIOUS
<1>11. y \in Seq(Answerable) /\ Len(y) \in Nat BY <1>1, <1>10, QueueFacts
<1>12. /\ Append(y, a) \in Seq(Answerable) /\ Len(Append(y, a)) = Len(y) + 1 /\ Append(y, a) # <<>>
       /\ \A i \in 1..Len(y) : Append(y, a)[i] = y[i]
       /\ Append(y, a)[Len(y) + 1] = a
  BY <1>9, <1>11, QueueAppend
<1>13. toPru \in [Pru -> Seq(Messages)] /\ toHost \in [Pru -> Seq(Answerable)] BY <1>1 DEF RpcTypes
<1>14. /\ toPru' \in [Pru -> Seq(Messages)] /\ toPru'[p] = Tail(x)
       /\ \A q \in Pru : q # p => toPru'[q] = toPru[q]
  BY <1>2, <1>4, <1>7, <1>13
<1>15. /\ toHost' \in [Pru -> Seq(Answerable)] /\ toHost'[p] = Append(y, a)
       /\ \A q \in Pru : q # p => toHost'[q] = toHost[q]
  <2>1. toHost' = [toHost EXCEPT ![p] = Append(y, a)] BY <1>7, <1>8, <1>10
  <2> QED BY <1>12, <1>13, <2>1
<1>16. stim' \in {"idle", "armed", "running", "held"}
  BY <1>1, <1>7 DEF StimAfter, RpcTypes
<1>17. RpcTypes' BY <1>1, <1>14, <1>15, <1>16 DEF RpcTypes
<1>18. PICK h \in Nat : h = Len(y) BY <1>11
<1>19. PICK t \in Nat \ {0} : t = Len(x) BY <1>4
<1>20. Len(toHost[p]) = h /\ Len(toPru[p]) = t BY <1>2, <1>10, <1>18, <1>19
<1>21. Len(toHost'[p]) = h + 1 /\ Len(toPru'[p]) = t - 1 BY <1>4, <1>12, <1>14, <1>15, <1>18, <1>19
<1>22. Entries(p) = h + t /\ Entries(p)' = h + t
  <2>1. Entries(p) = h + t BY <1>20 DEF Entries
  <2>2. Entries(p)' = (h + 1) + (t - 1) BY <1>21 DEF Entries
  <2>3. (h + 1) + (t - 1) = h + t OBVIOUS
  <2> QED BY <2>1, <2>2, <2>3
<1>23. \A q \in Pru : Written(q)' = Written(q) /\ Waits(q)' = Waits(q) /\ Turn(q)' = Turn(q)
  BY <1>1 DEF Written, Waits, Turn
<1>24. \A q \in Pru : Entries(q)' = Entries(q)
  <2>1. ASSUME NEW q \in Pru, q # p PROVE Entries(q)' = Entries(q)
    BY <1>14, <1>15, <2>1 DEF Entries
  <2> QED BY <1>22, <2>1
<1>25. ASSUME Connected(p) PROVE Connected(p)'
  <2>1. PICK w \in Nat : w = Written(p) BY <1>1, SesFacts DEF RpcTypes
  <2>2. PICK o \in Nat : o = ses.old[p] BY <1>1, SesFacts DEF RpcTypes
  <2>3. Written(p)' = w /\ Waits(p)' = Waits(p) /\ ses' = ses BY <1>1, <1>23, <2>1
  <2>4. \A i \in 1..t : i + h > o => toPru[p][i].seq = w - (h + t) + h + i
    <3>1. \A i \in 1..Len(toPru[p]) :
             i + Len(toHost[p]) > ses.old[p] =>
                toPru[p][i].seq = Written(p) - Entries(p) + Len(toHost[p]) + i
      BY <1>25 DEF Connected
    <3> QED BY <1>20, <1>22, <2>1, <2>2, <3>1
  <2>5. \A i \in 1..h : i > o => toHost[p][i] = Refusal \/ toHost[p][i].seq = w - (h + t) + i
    <3>1. \A i \in 1..Len(toHost[p]) :
             i > ses.old[p] => toHost[p][i] = Refusal \/ toHost[p][i].seq = Written(p) - Entries(p) + i
      BY <1>25 DEF Connected
    <3> QED BY <1>20, <1>22, <2>1, <2>2, <3>1
  <2>6. ASSUME NEW i \in 1..Len(toHost'[p]), i > ses'.old[p]
        PROVE  toHost'[p][i] = Refusal \/ toHost'[p][i].seq = Written(p)' - Entries(p)' + i
    <3>1. i \in 1..(h + 1) /\ i > o BY <1>21, <2>2, <2>3, <2>6
    <3>2. CASE i = h + 1
      <4>1. toHost'[p][i] = a BY <1>12, <1>15, <1>18, <3>2
      <4>2. toPru[p][1].seq = w - (h + t) + h + 1
        <5>1. 1 \in 1..t /\ 1 + h > o BY <3>1, <3>2
        <5> QED BY <2>4, <5>1
      <4>3. m = toPru[p][1] BY <1>2, <1>4, <1>5
      <4>4. w - (h + t) + h + 1 = w - (h + t) + i BY <3>2
      <4>5. a = Refusal \/ a = m BY <1>8
      <4> QED BY <1>22, <2>3, <4>1, <4>2, <4>3, <4>4, <4>5
    <3>3. CASE i # h + 1
      <4>1. i \in 1..h BY <3>1, <3>3
      <4>2. toHost'[p][i] = toHost[p][i] BY <1>10, <1>12, <1>15, <1>18, <4>1
      <4> QED BY <1>22, <2>3, <2>5, <3>1, <4>1, <4>2
    <3> QED BY <3>2, <3>3
  <2>7. ASSUME NEW i \in 1..Len(toPru'[p]), i + Len(toHost'[p]) > ses'.old[p]
        PROVE  toPru'[p][i].seq = Written(p)' - Entries(p)' + Len(toHost'[p]) + i
    <3>1. i \in 1..(t - 1) /\ i + (h + 1) > o BY <1>21, <2>2, <2>3, <2>7
    <3>2. PICK j : j = i + 1 OBVIOUS
    <3>3. j \in 1..t /\ j + h > o BY <3>1, <3>2
    <3>4. toPru[p][j].seq = w - (h + t) + h + j BY <2>4, <3>3
    <3>5. toPru'[p][i] = toPru[p][j] BY <1>2, <1>4, <1>14, <1>19, <3>1, <3>2
    <3>6. w - (h + t) + h + j = w - (h + t) + (h + 1) + i BY <3>1, <3>2
    <3> QED BY <1>21, <1>22, <2>3, <3>4, <3>5, <3>6
  <2>8. ses'.waiting /\ ses'.todo[1].pru = p /\ toPru'[p] # <<>> =>
            toPru'[p][Len(toPru'[p])].type = ses'.todo[1].type
    <3>1. SUFFICES ASSUME ses.waiting, ses.todo[1].pru = p, Tail(x) # <<>>
                   PROVE  Tail(x)[Len(Tail(x))].type = ses.todo[1].type
      BY <1>14, <2>3
    <3>2. Tail(x) = <<>> <=> Len(Tail(x)) = 0
      <4>1. Tail(x) \in Seq(Messages) BY <1>4
      <4> QED BY <4>1, QueueAt, Zenon
    <3>3. t - 1 \in 1..(t - 1) BY <1>4, <1>19, <3>1, <3>2
    <3>4. Tail(x)[t - 1] = x[t - 1 + 1] BY <1>4, <1>19, <3>3
    <3>5. t - 1 + 1 = t /\ Len(Tail(x)) = t - 1 BY <1>4, <1>19
    <3>6. x[t].type = ses.todo[1].type BY <1>1, <1>2, <1>20, <1>25, <3>1 DEF Connected
    <3> QED BY <3>4, <3>5, <3>6
  <2>9. /\ ses'.lag[p] + Waits(p)' <= Entries(p)' /\ Entries(p)' <= Written(p)' + ses'.lag[p]
        /\ ses'.old[p] = IF Entries(p)' > Written(p)' THEN Entries(p)' - Written(p)' ELSE 0
    BY <1>22, <1>25, <2>1, <2>3 DEF Connected
  <2> QED BY <2>6, <2>7, <2>8, <2>9 DEF Connected
<1>26. InStep'
  <2>1. SUFFICES ASSUME tool # "none", NEW q \in Pru
                 PROVE  IF q \in ses.dead THEN Removed(q)' ELSE Connected(q)'
    BY <1>1 DEF InStep
  <2>2. IF q \in ses.dead THEN Removed(q) ELSE Connected(q) BY <1>1, <2>1 DEF InStep
  <2>3. CASE q = p
    <3>1. ~Removed(p) BY <1>1 DEF Removed
    <3> QED BY <1>25, <2>2, <2>3, <3>1
  <2>4. CASE q # p
    <3>1. toHost'[q] = toHost[q] /\ toPru'[q] = toPru[q] /\ ses' = ses BY <1>1, <1>14, <1>15, <2>4
    <3>2. Removed(q) => Removed(q)' BY <3>1 DEF Removed
    <3>3. Connected(q) => Connected(q)' BY <1>1, <3>1, Untouched
    <3> QED BY <2>2, <3>2, <3>3
  <2> QED BY <2>3, <2>4
<1>27. CommandSound'
  <2>1. SUFFICES ASSUME tool = "cli", todo # <<>> PROVE CommandSound' BY <1>1 DEF CommandSound
  <2>2. PICK q : q = todo[1].pru OBVIOUS
  <2>3. q \in Pru BY <1>1, <2>1, <2>2, TodoFacts
  <2>4. Entries(q)' = Entries(q) /\ Waits(q)' = Waits(q) /\ Turn(q)' = Turn(q) BY <1>23, <1>24, <2>3
  <2> QED BY <1>1, <2>1, <2>2, <2>4 DEF CommandSound
<1>28. BackendSound' BY <1>1 DEF BackendSound
<1>29. p = "PRU1" => Holds(a.type)'
  <2>1. CASE ok
    <3>1. p = "PRU1" => stim' = StimAfter(m.type) BY <1>7, <2>1
    <3> QED BY <1>6, <1>8, <2>1, <3>1, StimHolds
  <2>2. CASE ~ok
    <3>1. a.type = "REFUSED" BY <1>8, <2>2 DEF Refusal
    <3> QED BY <3>1 DEF Holds
  <2> QED BY <2>1, <2>2
<1>30. LastHolds'
  <2>1. CASE p = "PRU1"
    <3>1. toHost'["PRU1"][Len(toHost'["PRU1"])] = a BY <1>12, <1>15, <2>1
    <3> QED BY <1>29, <2>1, <3>1 DEF LastHolds, Holds
  <2>2. CASE p # "PRU1"
    <3>1. "PRU1" \in Pru BY DEF Pru
    <3>2. toHost'["PRU1"] = toHost["PRU1"] /\ stim' = stim BY <1>7, <1>15, <2>2, <3>1
    <3> QED BY <1>1, <3>2 DEF LastHolds, Holds
  <2> QED BY <2>1, <2>2
<1>31. FirstHolds'
  <2>1. CASE p # "PRU1"
    <3>1. "PRU1" \in Pru BY DEF Pru
    <3>2. toHost'["PRU1"] = toHost["PRU1"] /\ stim' = stim /\ ses' = ses BY <1>1, <1>7, <1>15, <2>1, <3>1
    <3> QED BY <1>1, <3>2 DEF FirstHolds, Holds
  <2>2. CASE p = "PRU1"
    <3>1. SUFFICES ASSUME tool = "cli", ses.waiting, todo[1].pru = p, ses.lag[p] = 1, ses.old[p] = 1,
                          toHost'[p][1].type = todo[1].type
                   PROVE  Holds(todo[1].type)'
      BY <1>1, <2>2 DEF FirstHolds, Holds
    <3>2. ~Removed(p) BY <1>1 DEF Removed
    <3>3. Connected(p) /\ p \notin ses.dead /\ todo # <<>>
      <4>1. todo # <<>> BY <1>1, <3>1 DEF RpcTypes
      <4> QED BY <1>1, <3>1, <3>2, <4>1 DEF InStep
    <3>4. Waits(p) = 1 BY <3>1 DEF Waits
    <3>5. Entries(p) = ses.lag[p] + Waits(p) BY <1>1, <2>2, <3>1, <3>3 DEF CommandSound
    <3>6. h + t = 2 BY <1>22, <3>1, <3>4, <3>5
    <3>7. CASE h = 0
      <4>1. toHost'[p][1] = a BY <1>12, <1>15, <1>18, <3>7
      <4>2. Holds(todo[1].type)' <=> Holds(a.type)' BY <1>1, <3>1, <4>1 DEF Holds
      <4> QED BY <1>29, <2>2, <4>2
    <3>8. CASE h # 0
      <4>1. h = 1 /\ t = 1 BY <3>6, <3>8
      <4>2. toPru[p][Len(toPru[p])].type = todo[1].type BY <1>1, <3>1, <3>3 DEF Connected
      <4>3. m.type = todo[1].type BY <1>2, <1>4, <1>5, <1>20, <4>1, <4>2
      <4>4. toHost'[p][1] = toHost[p][1]
        <5>1. 1 \in 1..Len(y) BY <1>18, <4>1
        <5> QED BY <1>10, <1>12, <1>15, <5>1
      <4>5. toHost[p] # <<>> BY <1>20, <4>1
      <4>6. Holds(todo[1].type) BY <1>1, <2>2, <3>1, <4>4, <4>5 DEF FirstHolds
      <4>7. CASE ok
        <5>1. a = m BY <1>8, <4>7
        <5>2. Holds(todo[1].type)' <=> Holds(a.type)' BY <1>1, <4>3, <5>1 DEF Holds
        <5> QED BY <1>29, <2>2, <5>2
      <4>8. CASE ~ok
        <5>1. stim' = stim BY <1>7, <4>8
        <5> QED BY <1>1, <4>6, <5>1 DEF Holds
      <4> QED BY <4>7, <4>8
    <3> QED BY <3>7, <3>8
  <2> QED BY <2>1, <2>2
<1> QED BY <1>17, <1>26, <1>27, <1>28, <1>30, <1>31 DEF RpcInv

LEMMA InstantArrives == ASSUME RpcInv, Fire PROVE RpcInv'
<1>1. stim = "armed" /\ stim' = "running" /\ UNCHANGED <<ses, toPru, toHost, prog>> BY DEF Fire
<1>2. \A t : Holds(t) => t \notin {"FORCE_SAFE", "ABZ_STOP", "SERIAL_STOP"} /\ t \notin {"STIM_START", "SERIAL_START"}
  BY <1>1 DEF Holds
<1>3. ASSUME NEW t, Holds(t) PROVE Holds(t)' BY <1>1, <1>2, <1>3 DEF Holds
<1>4. RpcTypes' BY <1>1 DEF RpcInv, RpcTypes
<1>5. InStep'
  <2>1. \A q : /\ Removed(q)' <=> Removed(q)
               /\ Connected(q)' <=> Connected(q)
    BY <1>1 DEF Removed, Connected, Entries, Written, Waits
  <2> QED BY <1>1, <2>1 DEF RpcInv, InStep
<1>6. CommandSound' /\ BackendSound'
  BY <1>1 DEF RpcInv, CommandSound, BackendSound, Turn, Written, Waits, Entries
<1>7. LastHolds'
  <2>1. PICK t : t = toHost["PRU1"][Len(toHost["PRU1"])].type OBVIOUS
  <2>2. toHost["PRU1"] # <<>> => Holds(t) BY <2>1 DEF RpcInv, LastHolds
  <2>3. toHost["PRU1"] # <<>> => Holds(t)' BY <1>3, <2>2
  <2> QED BY <1>1, <2>1, <2>3 DEF LastHolds, Holds
<1>8. FirstHolds'
  <2>1. PICK t : t = todo[1].type OBVIOUS
  <2>2. Holds(t) => Holds(t)' BY <1>3
  <2> QED BY <1>1, <2>1, <2>2 DEF RpcInv, FirstHolds, Holds
<1> QED BY <1>4, <1>5, <1>6, <1>7, <1>8 DEF RpcInv

LEMMA FirmwareLoaded ==
    ASSUME RpcInv, NEW p \in Pru, NEW f \in Images(p) \cup {"off"}, Load(p, f)
    PROVE  RpcInv'
<1>1. /\ RpcTypes /\ InStep /\ CommandSound /\ BackendSound /\ LastHolds /\ FirstHolds
      /\ ses \in Sessions
  BY DEF RpcInv, RpcTypes
<1>2. /\ prog' = [prog EXCEPT ![p] = f]
      /\ stim' = IF p # "PRU1" THEN stim ELSE IF f = "off" /\ stim \in {"running", "held"} THEN "held" ELSE "idle"
      /\ toPru' = [toPru EXCEPT ![p] = <<>>] /\ toHost' = [toHost EXCEPT ![p] = <<>>]
      /\ ses' = IF tool = "none" THEN ses ELSE [ses EXCEPT !.dead = @ \cup {p}]
  BY DEF Load
<1>3. /\ ses' \in Sessions
      /\ ses'.tool = ses.tool /\ ses'.todo = ses.todo /\ ses'.waiting = ses.waiting
      /\ ses'.seq = ses.seq /\ ses'.known = ses.known /\ ses'.basis = ses.basis
      /\ ses'.lag = ses.lag /\ ses'.old = ses.old
  <2>1. CASE tool = "none" BY <1>1, <1>2, <2>1
  <2>2. CASE tool # "none"
    <3>1. PICK d : d = ses.dead \cup {p} OBVIOUS
    <3>2. d \in SUBSET Pru BY <1>1, <3>1, SesFacts
    <3>3. ses' = [ses EXCEPT !.dead = d] BY <1>2, <2>2, <3>1
    <3> QED BY <1>1, <3>2, <3>3 DEF Sessions
  <2> QED BY <2>1, <2>2
<1>4. tool # "none" => ses'.dead = ses.dead \cup {p} BY <1>1, <1>2 DEF Sessions
<1>5. /\ prog \in [Pru -> Firmwares] /\ toPru \in [Pru -> Seq(Messages)]
      /\ toHost \in [Pru -> Seq(Answerable)] /\ stim \in {"idle", "armed", "running", "held"}
  BY <1>1 DEF RpcTypes
<1>6. f \in Firmwares
  <2>1. Images(p) \subseteq {"b0", "b1", "b2", "b2_serial"} BY DEF Images
  <2> QED BY <2>1 DEF Firmwares
<1>7. /\ prog' \in [Pru -> Firmwares] /\ prog'[p] = f /\ \A q \in Pru : q # p => prog'[q] = prog[q]
  BY <1>2, <1>5, <1>6
<1>8. /\ toPru' \in [Pru -> Seq(Messages)] /\ toPru'[p] = <<>>
      /\ \A q \in Pru : q # p => toPru'[q] = toPru[q]
  <2>1. <<>> \in Seq(Messages) OBVIOUS
  <2> QED BY <1>2, <1>5, <2>1
<1>9. /\ toHost' \in [Pru -> Seq(Answerable)] /\ toHost'[p] = <<>>
      /\ \A q \in Pru : q # p => toHost'[q] = toHost[q]
  <2>1. <<>> \in Seq(Answerable) OBVIOUS
  <2> QED BY <1>2, <1>5, <2>1
<1>10. RpcTypes'
  <2>1. stim' \in {"idle", "armed", "running", "held"} BY <1>2, <1>5
  <2>2. ASSUME NEW q \in Pru PROVE prog'[q] \in Images(q) \cup {"off"} /\ ses'.known[q] \in Images(q) \cup {"off"}
    <3>1. prog[q] \in Images(q) \cup {"off"} /\ ses.known[q] \in Images(q) \cup {"off"} BY <1>1 DEF RpcTypes
    <3>2. (prog'[q] = f /\ q = p) \/ prog'[q] = prog[q] BY <1>7
    <3> QED BY <1>3, <3>1, <3>2
  <2>3. ses'.tool = "none" => ses' = NoSession BY <1>1, <1>2, <1>3 DEF RpcTypes
  <2>4. ses'.todo = <<>> => ~ses'.waiting BY <1>1, <1>3 DEF RpcTypes
  <2> QED BY <1>3, <1>7, <1>8, <1>9, <2>1, <2>2, <2>3, <2>4 DEF RpcTypes
<1>11. InStep'
  <2>1. SUFFICES ASSUME tool # "none", NEW q \in Pru
                 PROVE  IF q \in ses'.dead THEN Removed(q)' ELSE Connected(q)'
    BY <1>3 DEF InStep
  <2>2. CASE q = p
    <3>1. Removed(q)' BY <1>8, <1>9, <2>2 DEF Removed
    <3>2. q \in ses'.dead BY <1>4, <2>1, <2>2
    <3> QED BY <3>1, <3>2
  <2>3. CASE q # p
    <3>1. toHost'[q] = toHost[q] /\ toPru'[q] = toPru[q] BY <1>8, <1>9, <2>3
    <3>2. q \in ses'.dead <=> q \in ses.dead BY <1>4, <2>1, <2>3
    <3>3. IF q \in ses.dead THEN Removed(q) ELSE Connected(q) BY <1>1, <2>1 DEF InStep
    <3>4. Removed(q) => Removed(q)' BY <3>1 DEF Removed
    <3>5. Connected(q) => Connected(q)' BY <1>1, <1>3, <3>1, Untouched
    <3> QED BY <3>2, <3>3, <3>4, <3>5
  <2> QED BY <2>2, <2>3
<1>12. CommandSound'
  <2>1. SUFFICES ASSUME tool = "cli", todo # <<>> PROVE CommandSound' BY <1>3 DEF CommandSound
  <2>2. PICK q : q = todo[1].pru OBVIOUS
  <2>3. q \in Pru BY <1>1, <2>1, <2>2, TodoFacts
  <2>4. Turn(q)' = Turn(q) /\ Waits(q)' = Waits(q) BY <1>3 DEF Turn, Waits, Written
  <2>5. q \notin ses'.dead => q \notin ses.dead /\ q # p BY <1>4, <2>1
  <2>6. q \notin ses'.dead => Entries(q)' = Entries(q) BY <1>8, <1>9, <2>3, <2>5 DEF Entries
  <2>7. /\ \A i \in 1..Len(todo) : todo[i].pru = q
        /\ q \notin ses.dead /\ Turn(q) >= 1 /\ ses.lag[q] <= 1 => ses.old[q] = 0
        /\ \A i \in 1..Len(todo) : todo[i].sample => q = "PRU0" /\ Turn(q) + i >= 3
        /\ q = "PRU1" /\ q \notin ses.dead => Entries(q) = ses.lag[q] + Waits(q)
        /\ \A i \in 1..Len(todo) :
              /\ todo[i].type = "TIME" /\ i < Len(todo) => Turn(q) + i >= 2
              /\ todo[i].type \in {"ABZ_ARM", "ABZ_SCHEDULE"} => q = "PRU1"
        /\ ses.basis = "stale" => Turn(q) >= 2 /\ ses.lag[q] >= 1
    BY <1>1, <2>1, <2>2 DEF CommandSound
  <2>8. q \notin ses'.dead /\ Turn(q) >= 1 /\ ses'.lag[q] <= 1 => ses'.old[q] = 0
    BY <1>3, <2>5, <2>7
  <2>9. q = "PRU1" /\ q \notin ses'.dead => Entries(q)' = ses'.lag[q] + Waits(q)
    BY <1>3, <2>5, <2>6, <2>7
  <2> QED BY <1>3, <2>2, <2>4, <2>7, <2>8, <2>9 DEF CommandSound
<1>13. BackendSound'
  <2>1. SUFFICES ASSUME tool \in {"opening", "backend"} PROVE BackendSound' BY <1>3 DEF BackendSound
  <2>2. ses'.dead = ses.dead \cup {p} BY <1>4, <2>1
  <2>3. \A q \in Pru : q \notin ses'.dead /\ ses'.known[q] # "off" /\ ses'.lag[q] <= 1 => ses'.old[q] = 0
    BY <1>1, <1>3, <2>1, <2>2 DEF BackendSound
  <2> QED BY <1>1, <1>3, <2>1, <2>3 DEF BackendSound
<1>14. CASE p = "PRU1"
  <2>1. LastHolds' /\ FirstHolds' BY <1>9, <1>14 DEF LastHolds, FirstHolds
  <2> QED BY <1>10, <1>11, <1>12, <1>13, <2>1 DEF RpcInv
<1>15. CASE p # "PRU1"
  <2>1. "PRU1" \in Pru BY DEF Pru
  <2>2. stim' = stim /\ toHost'["PRU1"] = toHost["PRU1"] BY <1>2, <1>9, <1>15, <2>1
  <2>3. LastHolds' BY <1>1, <2>2 DEF LastHolds, Holds
  <2>4. FirstHolds' BY <1>1, <1>3, <2>2 DEF FirstHolds, Holds
  <2> QED BY <1>10, <1>11, <1>12, <1>13, <2>3, <2>4 DEF RpcInv
<1> QED BY <1>14, <1>15

LEMMA RpcStep == ASSUME RpcInv, [RpcNext]_rpcvars PROVE RpcInv'
<1>1. ASSUME NEW c \in pru_cli \cup pwm_cli \cup stim_cli \cup hall_cli \cup sensor_cli, RunCommand(c)
      PROVE  RpcInv'
  BY <1>1, CommandsOpen, CommandOpens
<1>2. CASE OpenBackend BY <1>2, BackendOpens
<1>3. CASE Call BY <1>3, MethodCalled
<1>4. CASE Close BY <1>4, SessionCloses
<1>5. CASE Write BY <1>5, RequestWritten
<1>6. CASE NotWritten BY <1>6, NotAnswered DEF NotWritten
<1>7. CASE Timeout BY <1>7, NotAnswered DEF Timeout
<1>8. CASE Read BY <1>8, AnswerRead
<1>9. ASSUME NEW p \in Pru, Handle(p) PROVE RpcInv' BY <1>9, RequestHandled
<1>10. ASSUME NEW p \in Pru, stop(p) \/ start(p) \/ install_and_start(p) PROVE RpcInv'
  <2>1. PICK f \in Images(p) \cup {"off"} : Load(p, f)
    BY <1>10 DEF stop, start, install_and_start
  <2> QED BY <2>1, FirmwareLoaded
<1>11. CASE Fire BY <1>11, InstantArrives
<1>12. CASE UNCHANGED rpcvars
  <2>1. UNCHANGED <<prog, stim, toPru, toHost, ses>> BY <1>12 DEF rpcvars
  <2>2. \A q : /\ Removed(q)' <=> Removed(q)
               /\ Connected(q)' <=> Connected(q)
    BY <2>1 DEF Removed, Connected, Entries, Written, Waits
  <2>3. RpcTypes' BY <2>1 DEF RpcInv, RpcTypes
  <2>4. InStep' BY <2>1, <2>2 DEF RpcInv, InStep
  <2>5. CommandSound' /\ BackendSound'
    BY <2>1 DEF RpcInv, CommandSound, BackendSound, Turn, Written, Waits, Entries
  <2>6. LastHolds' /\ FirstHolds' BY <2>1 DEF RpcInv, LastHolds, FirstHolds, Holds
  <2> QED BY <2>3, <2>4, <2>5, <2>6 DEF RpcInv
<1> QED
  BY <1>1, <1>2, <1>3, <1>4, <1>5, <1>6, <1>7, <1>8, <1>9, <1>10, <1>11, <1>12 DEF RpcNext, HostStep

(* Every answer under way can be placed: it is the one of a certain request of    *)
(* the program that has the device open, or it was left by an earlier one; and    *)
(* what the last answer of PRU1 says of the stimulus is still true.               *)
THEOREM RpcInvariant == RpcSpec => []RpcInv
<1>1. RpcInit => RpcInv BY RpcStarts
<1>2. RpcInv /\ [RpcNext]_rpcvars => RpcInv' BY RpcStep
<1> QED BY <1>1, <1>2, PTL DEF RpcSpec
-------------------------------------------------------------------------------
(* What a command or a method of the backend reports as done has been done        *)
(* (SuccessIsReal), also behind one entry that an earlier program left.           *)
THEOREM RpcSuccessIsReal == RpcSpec => SuccessIsReal
<1> DEFINE Real == Accepted =>
         LET r == Head(todo) IN
         /\ r.pru = "PRU1" /\ ses.lag[r.pru] <= 1 =>
              /\ r.type \in {"FORCE_SAFE", "ABZ_STOP", "SERIAL_STOP"} => stim = "idle"
              /\ r.type \in {"STIM_START", "SERIAL_START"} => stim = "running"
              /\ r.type = "ABZ_ARM" => stim \in {"armed", "running"}
         /\ ses.lag[r.pru] = 0 => toPru[r.pru] = <<>> /\ Len(toHost[r.pru]) = 1
<1>1. ASSUME RpcInv, Accepted PROVE Real
  <2>1. /\ RpcTypes /\ InStep /\ CommandSound /\ BackendSound /\ LastHolds /\ FirstHolds
        /\ todo # <<>> /\ ses.waiting
    BY <1>1 DEF RpcInv, Accepted, Read
  <2>2. PICK p : p = todo[1].pru OBVIOUS
  <2>3. Head(todo) = todo[1] /\ p \in Pru /\ todo[1].type \in Types /\ tool # "none" /\ 1 \in 1..Len(todo)
    BY <2>1, <2>2, TodoFacts
  <2>4. toHost[p] # <<>> BY <1>1, <2>2, <2>3 DEF Accepted, Read
  <2>5. Answers(todo[1], Head(toHost[p])) BY <1>1, <2>2, <2>3 DEF Accepted
  <2>6. /\ ses.old[p] = 0 => /\ ses.lag[p] = 0 /\ Len(toHost[p]) = 1 /\ toPru[p] = <<>>
        /\ ses.lag[p] = 0 => ses.old[p] = 0
        /\ toHost[p][1].type = todo[1].type
    BY <1>1, <2>1, <2>2, <2>4, <2>5, AcceptedFacts
  <2>7. p \notin ses.dead /\ Connected(p) BY <2>1, <2>3, <2>4 DEF InStep, Removed
  <2>8. ASSUME p = "PRU1", ses.lag[p] <= 1 PROVE Holds(todo[1].type)
    <3>1. CASE ses.old[p] = 0
      <4>1. toHost[p][Len(toHost[p])].type = todo[1].type BY <2>6, <3>1
      <4> QED BY <2>1, <2>4, <2>8, <4>1 DEF LastHolds
    <3>2. CASE ses.old[p] # 0
      <4>1. ses.lag[p] = 1 /\ ses.old[p] = 1
        <5>1. ses.old[p] \in Nat /\ ses.lag[p] \in Nat BY <2>1, <2>3, SesFacts DEF RpcTypes
        <5>2. ses.old[p] <= ses.lag[p] BY <2>1, <2>3, <2>7, OldIsLeft
        <5> QED BY <2>8, <3>2, <5>1, <5>2
      <4>2. CASE tool = "cli" BY <2>1, <2>2, <2>4, <2>6, <2>8, <4>1, <4>2 DEF FirstHolds
      <4>3. CASE tool = "opening"
        <5>1. todo[1].type = "HELLO" BY <2>1, <2>3, <4>3 DEF BackendSound
        <5> QED BY <5>1 DEF Holds
      <4>4. CASE tool = "backend"
        <5>1. ses.known[p] # "off" BY <2>1, <2>2, <2>3, <2>8, <4>4 DEF BackendSound
        <5>2. ses.old[p] = 0 BY <2>1, <2>3, <2>7, <2>8, <4>4, <5>1 DEF BackendSound
        <5> QED BY <3>2, <5>2
      <4>5. tool \in {"none", "cli", "opening", "backend"} BY <2>1, SesFacts DEF RpcTypes
      <4> QED BY <2>3, <4>2, <4>3, <4>4, <4>5
    <3> QED BY <3>1, <3>2
  <2> QED BY <2>2, <2>3, <2>6, <2>8 DEF Holds
<1>2. RpcInv => [Real]_rpcvars BY <1>1
<1> QED BY <1>2, RpcInvariant, PTL DEF SuccessIsReal

(* The answers that a later step builds on are the program's own                  *)
(* (AnswersAreCurrent): the time a deadline is computed from, behind up to two    *)
(* entries of earlier programs, and a sample of the benchmark, behind one.        *)
THEOREM RpcAnswersAreCurrent == RpcSpec => AnswersAreCurrent
<1>1. ASSUME RpcInv, Accepted PROVE DeadlineIsFresh /\ SampleIsOwn
  <2>1. /\ RpcTypes /\ InStep /\ CommandSound /\ BackendSound /\ todo # <<>> /\ ses.waiting
    BY <1>1 DEF RpcInv, Accepted, Read
  <2>2. PICK p : p = todo[1].pru OBVIOUS
  <2>3. Head(todo) = todo[1] /\ p \in Pru /\ tool # "none" /\ 1 \in 1..Len(todo)
    BY <2>1, <2>2, TodoFacts
  <2>4. toHost[p] # <<>> BY <1>1, <2>2, <2>3 DEF Accepted, Read
  <2>5. Answers(todo[1], Head(toHost[p])) BY <1>1, <2>2, <2>3 DEF Accepted
  <2>6. /\ Own(todo[1], Head(toHost[p])) <=> ses.old[p] = 0
        /\ ses.old[p] = 0 => ses.lag[p] = 0
    BY <1>1, <2>1, <2>2, <2>4, <2>5, AcceptedFacts
  <2>7. p \notin ses.dead /\ Connected(p) BY <2>1, <2>3, <2>4 DEF InStep, Removed
  <2>8. tool \in {"none", "cli", "opening", "backend"} BY <2>1, SesFacts DEF RpcTypes
  <2>9. PICK w \in Nat : w = Written(p) BY <2>1, <2>3, SesFacts DEF RpcTypes
  <2>10. Waits(p) = 1 /\ Turn(p) = w - 1 BY <2>1, <2>2, <2>9 DEF Waits, Turn
  <2>11. PICK l \in Nat : l = ses.lag[p] BY <2>1, <2>3, SesFacts DEF RpcTypes
  <2>12. DeadlineIsFresh
    <3>1. SUFFICES ASSUME todo[1].type \in {"ABZ_ARM", "ABZ_SCHEDULE"}, ses.lag["PRU1"] <= 2,
                          ses.basis = "stale"
                   PROVE  FALSE
      BY <2>3 DEF DeadlineIsFresh
    <3>2. tool = "cli" BY <2>1, <2>3, <2>8, <3>1 DEF BackendSound
    <3>3. /\ p = "PRU1" /\ Turn(p) >= 2 /\ ses.lag[p] >= 1
          /\ p = "PRU1" /\ p \notin ses.dead => Entries(p) = ses.lag[p] + Waits(p)
      BY <2>1, <2>2, <2>3, <3>1, <3>2 DEF CommandSound
    <3>4. Entries(p) = l + 1 BY <2>7, <2>10, <2>11, <3>3
    <3>5. Entries(p) <= Written(p) BY <2>9, <2>10, <2>11, <3>1, <3>3, <3>4
    <3>6. ses.old[p] = 0 BY <2>1, <2>3, <2>7, <3>5, OldIsLeft
    <3> QED BY <2>6, <3>3, <3>6
  <2>13. SampleIsOwn
    <3>1. SUFFICES ASSUME todo[1].sample, ses.lag["PRU0"] <= 1
                   PROVE  Own(todo[1], Head(toHost["PRU0"]))
      BY <2>3 DEF SampleIsOwn
    <3>2. tool = "cli" BY <2>1, <2>3, <2>8, <3>1 DEF BackendSound
    <3>3. /\ p = "PRU0" /\ Turn(p) + 1 >= 3
          /\ p \notin ses.dead /\ Turn(p) >= 1 /\ ses.lag[p] <= 1 => ses.old[p] = 0
      BY <2>1, <2>2, <2>3, <3>1, <3>2 DEF CommandSound
    <3>4. ses.old[p] = 0 BY <2>7, <2>9, <2>10, <3>1, <3>3
    <3> QED BY <2>6, <3>3, <3>4
  <2> QED BY <2>12, <2>13
<1>2. RpcInv => [Accepted => DeadlineIsFresh /\ SampleIsOwn]_rpcvars BY <1>1
<1> QED BY <1>2, RpcInvariant, PTL DEF AnswersAreCurrent
===============================================================================
