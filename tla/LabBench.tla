------------------------------- MODULE LabBench -------------------------------
(***************************************************************************)
(* Two test processes and one Zynq bench.  A process enters a               *)
(* ServoHilSession (lab/session.py): the local file lock (lab/resources),   *)
(* the labgrid place (lab/labgrid) and FORCE_SAFE come first, and FORCE_SAFE *)
(* again before both are given back.  In between it calls the backend        *)
(* (host/hil/backends/zynq.py), whose methods are sequences of register       *)
(* accesses (host/hil/transports/uio.py) that the board may change between. *)
(***************************************************************************)
EXTENDS Integers, Sequences, FiniteSets

CONSTANTS Proc,       \* test processes of one controller
          NoOne,      \* nobody holds the lock, or the place
          Depth,      \* entries of the board's event FIFO
          LoSize,     \* bound: values of the low timestamp word
          MaxTicks,   \* bound: counter values during one read_timestamp
          MaxCycles,  \* bound: PWM cycles during one read_pwm
          MaxTries,   \* attempts of read_timestamp
          MaxSteps    \* bound: steps of a scenario

ASSUME LabAssumption ==
    /\ NoOne \notin Proc
    /\ {Depth, LoSize, MaxTries} \subseteq Nat \ {0} /\ {MaxTicks, MaxCycles, MaxSteps} \subseteq Nat

VARIABLES
    bench,                 \* what is wired up: the board's identity, lease or none
    lock, place,           \* holder of the file lock, of the labgrid place
    phase, err, acquired,  \* per process: where, exception pending, lease flag
    call, plan,            \* per process: backend method under way, scenario left
    control, external,     \* board: CONTROL bits, the external FORCE_SAFE input
    q, overflow, order_error,   \* board: event FIFO
    ticks, pwm,            \* board: counter and capture, while somebody reads them
    returned,              \* the value the last method returned
    failed, leaked         \* history: safe state, or lease, given up on the way

procvars  == <<phase, err, acquired, call, plan>>
fifovars  == <<q, overflow, order_error>>
boardvars == <<control, external, fifovars, ticks, pwm>>
labvars   == <<bench, lock, place, procvars, boardvars, returned, failed, leaked>>

Fifo == INSTANCE TimedEventFifo WITH DEPTH <- Depth, Event <- [ts : 0..1, own : BOOLEAN]
-------------------------------------------------------------------------------
(* Handshake of the transport and of the backend.                              *)
REQUIRED_BACKEND_CAPABILITIES == {"TIMEBASE", "FORCE_SAFE"}
AllCapabilities == REQUIRED_BACKEND_CAPABILITIES \cup
                       {"PWM_CAPTURE", "ABZ_GENERATOR", "DIO_SCHEDULER"}
GoodBoard == [magic |-> TRUE, abi |-> 1, type |-> "zu2cg_axu2cgb", tick_hz |-> 1,
              counter_bits |-> 64, capabilities |-> AllCapabilities]
Boards == {GoodBoard,
           [GoodBoard EXCEPT !.magic = FALSE], [GoodBoard EXCEPT !.abi = 2],
           [GoodBoard EXCEPT !.type = "unknown"], [GoodBoard EXCEPT !.type = "zynq7010_ax7010"],
           [GoodBoard EXCEPT !.tick_hz = 0], [GoodBoard EXCEPT !.counter_bits = 32],
           [GoodBoard EXCEPT !.capabilities = @ \ {"FORCE_SAFE"}],
           [GoodBoard EXCEPT !.capabilities = @ \ {"ABZ_GENERATOR"}]}

BACKEND_TYPES == {"zynq7010_ax7010", "zu2cg_axu2cgb"}
Negotiated(b, expected) ==
    /\ b.magic /\ b.abi = 1
    /\ b.type \in BACKEND_TYPES /\ b.type = expected
    /\ b.tick_hz > 0 /\ b.counter_bits = 64
validate_contract(b) == REQUIRED_BACKEND_CAPABILITIES \subseteq b.capabilities
Opened == Negotiated(bench.board, "zu2cg_axu2cgb") /\ validate_contract(bench.board)

Methods == {"force_safe", "release_safe", "health", "read_timestamp", "read_pwm",
            "configure_abz", "start_abz", "stop_abz", "schedule_dio"}
CapabilityOf(m) ==
    CASE m \in {"force_safe", "release_safe"}                -> {"FORCE_SAFE"}
      [] m = "health"                                        -> {}
      [] m = "read_timestamp"                                -> {"TIMEBASE"}
      [] m = "read_pwm"                                      -> {"PWM_CAPTURE"}
      [] m \in {"configure_abz", "start_abz", "stop_abz"}    -> {"ABZ_GENERATOR"}
      [] m = "schedule_dio"                                  -> {"DIO_SCHEDULER"}
require(m) == CapabilityOf(m) \subseteq bench.board.capabilities

(* scenario.py: the documents a loader may meet, and those it accepts.          *)
Documents == [version : {1, 2}, caps : {{"DIO_SCHEDULER"}, {"ABZ_GENERATOR"}, {"no_such"}},
              steps : UNION {[1..n -> -1..1] : n \in 0..MaxSteps}]
WellFormed(d) ==
    /\ d.version = 1 /\ d.caps \subseteq AllCapabilities /\ d.steps # <<>>
    /\ \A i \in DOMAIN d.steps : d.steps[i] >= 0
scenario_from_dict_Unordered(d) == WellFormed(d)        \* Mutation
scenario_from_dict(d) ==
    WellFormed(d) /\ \A i \in 2..Len(d.steps) : d.steps[i] >= d.steps[i - 1]
validate_against(d) == d.caps \subseteq bench.board.capabilities
-------------------------------------------------------------------------------
(* The board (external, but for what uio.py reads and writes).                 *)
Safe == "safe" \in control \/ external
Driving == {"enable", "abz"} \subseteq control /\ ~Safe

(* FORCE_SAFE holds the FIFO empty.                                            *)
NoEvents == q' = <<>> /\ overflow' = FALSE /\ order_error' = FALSE
WriteControl_KeepQueue(bits) ==     \* Mutation: FORCE_SAFE leaves the FIFO alone
    control' = bits \ {"clear"} /\ UNCHANGED fifovars
WriteControl(bits) ==
    /\ control' = bits \ {"clear"}
    /\ IF "safe" \in bits \/ external THEN NoEvents ELSE UNCHANGED fifovars
Push(e) == IF Safe THEN NoEvents ELSE Fifo!Serve(FALSE, {e}, FALSE)

ExternalSafe ==
    /\ external' = ~external
    /\ IF ~external THEN NoEvents ELSE UNCHANGED fifovars
    /\ UNCHANGED <<bench, lock, place, procvars, control, ticks, pwm, returned, failed, leaked>>

Dispatch ==
    /\ ~Safe /\ q # <<>>
    /\ Fifo!Serve(FALSE, {}, TRUE)
    /\ UNCHANGED <<bench, lock, place, procvars, control, external, ticks, pwm,
                   returned, failed, leaked>>

Under_way(m) == \E p \in Proc : call[p].m = m
Tick ==
    /\ Under_way("read_timestamp") /\ ticks < MaxTicks
    /\ ticks' = ticks + 1
    /\ UNCHANGED <<bench, lock, place, procvars, control, external, fifovars, pwm,
                   returned, failed, leaked>>

(* A capture under way; cycle n is from one rising edge to the next.  The falling *)
(* edge in it stores HIGH, the rising edge that ends it PERIOD and LOW, and the    *)
(* sequence number follows one clock later: pwm has the last cycle of each.  The   *)
(* other channels, which share the sequence number, are silent.                  *)
PwmFalls ==
    /\ pwm.seq = pwm.rise /\ pwm.fall = pwm.rise /\ pwm.fall < MaxCycles
    /\ pwm' = [pwm EXCEPT !.fall = @ + 1]
PwmRises == pwm.rise < pwm.fall /\ pwm' = [pwm EXCEPT !.rise = @ + 1]
PwmCounted == pwm.seq < pwm.rise /\ pwm' = [pwm EXCEPT !.seq = @ + 1]
PwmEdge ==
    /\ Under_way("read_pwm")
    /\ PwmFalls \/ PwmRises \/ PwmCounted
    /\ UNCHANGED <<bench, lock, place, procvars, control, external, fifovars, ticks,
                   returned, failed, leaked>>
-------------------------------------------------------------------------------
(* uio.py: the register accesses of each method, in order.                      *)
Accesses(m) ==
    CASE m \in {"force_safe", "release_safe", "start_abz", "stop_abz"} ->
                                  <<"CONTROL", "CONTROL:=">>
      [] m = "configure_abz"   -> <<"ABZ_STEP:=", "CONTROL", "CONTROL:=">>
      [] m = "read_timestamp"  -> <<"TIMESTAMP_HI", "TIMESTAMP_LO", "TIMESTAMP_HI">>
      [] m = "read_pwm"        -> <<"PWM_VALID", "PWM_SEQ", "PERIOD", "HIGH", "LOW">>
      [] m = "health"          -> <<"STATUS", "EVT_STATUS", "CONTROL", "PWM_FAULTS">>
      [] m = "schedule_dio"    -> <<"EVT_STATUS", "EVT_STAGE:=", "EVT_PUSH:=">>

read32(r) ==
    CASE r = "CONTROL"      -> control \cup (IF external THEN {"safe"} ELSE {})
      [] r = "TIMESTAMP_HI" -> ticks \div LoSize
      [] r = "TIMESTAMP_LO" -> ticks % LoSize
      [] r = "EVT_STATUS"   -> Len(q)
      [] r = "PWM_SEQ"      -> pwm.seq
      [] r \in {"PERIOD", "LOW"} -> pwm.rise
      [] r = "HIGH"         -> pwm.fall
      [] OTHER -> 0

(* The value written to CONTROL after v was read: what is set, what is taken off; *)
(* the direction is not told apart.                                           *)
Sets == [force_safe |-> {"safe"}, release_safe |-> {}, start_abz |-> {"enable", "abz"},
         stop_abz |-> {}, configure_abz |-> {}]
Clears == [force_safe |-> {}, release_safe |-> {"safe"}, start_abz |-> {"safe"},
           stop_abz |-> {"abz"}, configure_abz |-> {}]
ControlAfter_Fresh(m, v) == Sets[m]                 \* Mutation: the value read is not kept
ControlAfter(m, v) == (v \cup Sets[m]) \ Clears[m]

NoCall == [m |-> "none", got |-> <<>>, from |-> 0, tries |-> 0]
NewCall(m, t) == [NoCall EXCEPT !.m = m, !.from = t]
force_safe == NewCall("force_safe", 0)
None == [m |-> "none"]
Unread == ticks' = 0 /\ pwm' = [fall |-> 0, rise |-> 0, seq |-> 0]
-------------------------------------------------------------------------------
(* session.py, resources/model.py, labgrid/client.py.                           *)
NotLoaded == <<-1>>
IfLeased(ph) == IF bench.lease THEN ph ELSE "unlock"

(* __enter__ up to the lease; ResourceBusy when the lock is taken.              *)
Enter(p) ==
    /\ Opened /\ phase[p] = "idle" /\ lock = NoOne
    /\ lock' = p
    /\ phase' = [phase EXCEPT ![p] = IF bench.lease THEN "lease" ELSE "enter"]
    /\ call' = [call EXCEPT ![p] = IF bench.lease THEN NoCall ELSE force_safe]
    /\ UNCHANGED <<bench, place, err, acquired, plan, boardvars, returned, failed, leaked>>

(* labgrid-client (external): what the command does to the place, which in the    *)
(* case of a timeout the caller does not learn.                               *)
run_command(new) ==
    {[rc |-> "zero", place |-> new], [rc |-> "nonzero", place |-> place]}
        \cup [rc : {"timeout"}, place : {place, new}]
require_success(out) == out.rc = "zero"
Acquisition(p) ==
    IF place = NoOne THEN run_command(p) ELSE {out \in run_command(place) : ~require_success(out)}

LeaseAcquire(p) ==
    /\ phase[p] = "lease"
    /\ \E out \in Acquisition(p) :
         LET ok == require_success(out) IN
         /\ place' = out.place
         /\ acquired' = [acquired EXCEPT ![p] = ok]
         /\ phase' = [phase EXCEPT ![p] = IF ok THEN "enter" ELSE "undo"]
         /\ call' = [call EXCEPT ![p] = IF ok THEN force_safe ELSE NoCall]
         /\ err' = [err EXCEPT ![p] = ~ok]
         /\ leaked' = (leaked \/ (~ok /\ out.place # place))
    /\ UNCHANGED <<bench, lock, plan, boardvars, returned, failed>>

(* In __exit__, or after a failed __enter__, where its error is dropped.        *)
LeaseRelease(p) ==
    /\ phase[p] \in {"release", "undo"}
    /\ IF acquired[p]
       THEN \E out \in run_command(NoOne) :
              /\ place' = out.place
              /\ leaked' = (leaked \/ out.place # NoOne)
              /\ err' = [err EXCEPT ![p] = @ \/ ~require_success(out)]
       ELSE UNCHANGED <<place, leaked, err>>
    /\ acquired' = [acquired EXCEPT ![p] = FALSE]
    /\ phase' = [phase EXCEPT ![p] = "unlock"]
    /\ UNCHANGED <<bench, lock, call, plan, boardvars, returned, failed>>

(* The lock goes last; what happened meanwhile is raised then. Events that are   *)
(* still queued belong to nobody from here on.                                *)
Disown == q' = [i \in DOMAIN q |-> [q[i] EXCEPT !.own = FALSE]]
Unlock(p) ==
    /\ phase[p] = "unlock"
    /\ lock' = NoOne
    /\ phase' = [phase EXCEPT ![p] = "idle"]
    /\ err' = [err EXCEPT ![p] = FALSE] /\ plan' = [plan EXCEPT ![p] = NotLoaded]
    /\ Disown /\ returned' = None
    /\ UNCHANGED <<bench, place, acquired, call, control, external, overflow, order_error,
                   ticks, pwm, failed, leaked>>

(* How a process goes on when the backend method it called returns or raises.   *)
Continue(p) ==
    /\ phase' = [phase EXCEPT ![p] = CASE @ = "enter" -> "body"
                                       [] @ = "body"  -> "body"
                                       [] @ = "exit"  -> IfLeased("release")]
    /\ call' = [call EXCEPT ![p] = NoCall]
    /\ failed' = (failed /\ phase[p] = "body")
    /\ Unread /\ UNCHANGED err
(* on[ph]: where an exception in phase ph leads to.                             *)
RaiseTo(p, on) ==
    /\ phase' = [phase EXCEPT ![p] = on[@]]
    /\ call' = [call EXCEPT ![p] = IF on[phase[p]] = "exit" THEN force_safe ELSE NoCall]
    /\ err' = [err EXCEPT ![p] = TRUE]
    /\ failed' = (failed \/ phase[p] = "exit")
    /\ Unread
OnError == [enter |-> IfLeased("undo"), body |-> "exit", exit |-> IfLeased("release")]
Raise_Retry(p) == RaiseTo(p, [OnError EXCEPT !.exit = "exit"])       \* Mutation
Raise(p) == RaiseTo(p, OnError)
-------------------------------------------------------------------------------
(* The test: it loads a scenario, calls backend methods, fails or finishes.      *)
InBody(p) == phase[p] = "body" /\ call[p] = NoCall

Load(p) ==
    /\ InBody(p) /\ plan[p] = NotLoaded
    /\ \/ \E d \in Documents : /\ scenario_from_dict(d) /\ validate_against(d)
                               /\ plan' = [plan EXCEPT ![p] = d.steps]
          /\ UNCHANGED <<phase, call, err, failed, ticks, pwm>>
       \/ /\ \E d \in Documents : ~(scenario_from_dict(d) /\ validate_against(d))
          /\ Raise(p) /\ UNCHANGED plan
    /\ returned' = None
    /\ UNCHANGED <<bench, lock, place, acquired, control, external, fifovars, leaked>>

Start(p, m) ==
    /\ InBody(p) /\ require(m)
    /\ m = "schedule_dio" => plan[p] # NotLoaded /\ plan[p] # <<>>
    /\ ticks' \in (IF m = "read_timestamp" THEN 0..(LoSize - 1) ELSE {0})
    /\ call' = [call EXCEPT ![p] = NewCall(m, ticks')]
    /\ returned' = None
    /\ UNCHANGED <<bench, lock, place, phase, err, acquired, plan, control, external,
                   fifovars, pwm, failed, leaked>>

(* UnsupportedCapability, InvalidConfiguration, an assertion of the test.       *)
TestFails(p) ==
    /\ InBody(p) /\ Raise(p)
    /\ returned' = None
    /\ UNCHANGED <<bench, lock, place, acquired, plan, control, external, fifovars, leaked>>

Leave(p, ph, c) ==
    /\ InBody(p)
    /\ phase' = [phase EXCEPT ![p] = ph] /\ call' = [call EXCEPT ![p] = c]
    /\ returned' = None
    /\ UNCHANGED <<bench, lock, place, err, acquired, plan, boardvars, failed, leaked>>
Finish_NoSafe(p) == Leave(p, IfLeased("release"), NoCall)     \* Mutation
Finish(p) == Leave(p, "exit", force_safe)

(* The next register access of the method under way; the last one ends it.      *)
Word(c, got, r) == got[CHOOSE i \in DOMAIN got : Accesses(c.m)[i] = r]
Answer(c, got) ==          \* only the answers the properties look at
    CASE c.m = "read_timestamp" ->
            [m |-> c.m, val |-> got[1] * LoSize + got[2], from |-> c.from, to |-> ticks]
      [] c.m = "read_pwm" ->
            [m |-> c.m, sequence |-> Word(c, got, "PWM_SEQ"), period |-> Word(c, got, "PERIOD"),
             high |-> Word(c, got, "HIGH"), low |-> Word(c, got, "LOW")]
      [] c.m = "schedule_dio" -> [None EXCEPT !.m = c.m]
      [] OTHER -> None
Full(c, r) == c.m = "schedule_dio" /\ r = "EVT_STATUS" /\ Len(q) = Depth
Unstable_Never(c, got) == FALSE                         \* Mutation
Unstable(c, got) == c.m = "read_timestamp" /\ got[1] # got[3]

Access(p) ==
    /\ call[p].m \in Methods
    /\ LET c == call[p]
           at == Len(c.got) + 1
           r == Accesses(c.m)[at]
           got == Append(c.got, read32(r))
           last == at = Len(Accesses(c.m)) IN
       /\ CASE r = "CONTROL:="  -> WriteControl(ControlAfter(c.m, c.got[at - 1]))
            [] r = "EVT_PUSH:=" -> Push([ts |-> Head(plan[p]), own |-> TRUE]) /\ UNCHANGED control
            [] OTHER -> UNCHANGED <<control, fifovars>>
       /\ plan' = IF r = "EVT_PUSH:=" THEN [plan EXCEPT ![p] = Tail(@)] ELSE plan
       /\ CASE Full(c, r) -> Raise(p) /\ UNCHANGED returned
            [] ~last /\ ~Full(c, r) ->
                 /\ call' = [call EXCEPT ![p].got = got]
                 /\ UNCHANGED <<phase, err, failed, ticks, pwm, returned>>
            [] last /\ Unstable(c, got) /\ c.tries + 1 < MaxTries ->
                 /\ call' = [call EXCEPT ![p].got = <<>>, ![p].tries = @ + 1]
                 /\ UNCHANGED <<phase, err, failed, ticks, pwm, returned>>
            [] last /\ Unstable(c, got) /\ c.tries + 1 = MaxTries -> Raise(p) /\ UNCHANGED returned
            [] OTHER -> /\ Continue(p)
                        /\ returned' = IF phase[p] = "body" THEN Answer(c, got) ELSE None
    /\ UNCHANGED <<bench, lock, place, acquired, external, leaked>>

TransportFails(p) ==
    /\ call[p].m \in Methods /\ Raise(p)
    /\ UNCHANGED <<bench, lock, place, acquired, plan, control, external, fifovars,
                   returned, leaked>>
-------------------------------------------------------------------------------
(* KeyboardInterrupt is no Exception: __enter__ does not catch it, __exit__ runs *)
(* its finally.  A process that dies loses its lock but not its place.          *)
Interrupt(p) ==
    /\ phase[p] \notin {"idle", "unlock", "aborted"}
    /\ phase' = [phase EXCEPT ![p] = CASE @ \in {"lease", "enter", "undo"} -> "aborted"
                                       [] @ = "body"    -> "exit"
                                       [] @ = "exit"    -> IfLeased("release")
                                       [] @ = "release" -> "unlock"]
    /\ call' = [call EXCEPT ![p] = IF phase[p] = "body" THEN force_safe ELSE NoCall]
    /\ err' = [err EXCEPT ![p] = TRUE]
    /\ failed' = (failed \/ phase[p] = "exit")
    /\ \/ UNCHANGED place
       \/ phase[p] = "lease" /\ place = NoOne /\ place' = p
       \/ phase[p] \in {"undo", "release"} /\ acquired[p] /\ place' = NoOne
    /\ leaked' = (leaked \/ phase[p] \in {"lease", "undo", "release"})
    /\ acquired' = [acquired EXCEPT ![p] = @ /\ phase[p] \notin {"undo", "release"}]
    /\ Unread /\ returned' = None
    /\ UNCHANGED <<bench, lock, plan, control, external, fifovars>>

Die(p) ==
    /\ phase[p] # "idle"
    /\ lock' = NoOne
    /\ phase' = [phase EXCEPT ![p] = "idle"] /\ call' = [call EXCEPT ![p] = NoCall]
    /\ plan' = [plan EXCEPT ![p] = NotLoaded]
    /\ err' = [err EXCEPT ![p] = FALSE] /\ acquired' = [acquired EXCEPT ![p] = FALSE]
    /\ failed' = TRUE /\ leaked' = TRUE
    /\ Unread /\ Disown /\ returned' = None
    /\ UNCHANGED <<bench, place, control, external, overflow, order_error>>

(* Somebody gives a forgotten place back by hand.                              *)
Operator ==
    /\ lock = NoOne /\ place # NoOne
    /\ place' = NoOne /\ leaked' = FALSE
    /\ UNCHANGED <<bench, lock, procvars, boardvars, returned, failed>>

LabInit ==
    /\ bench \in [board : Boards, lease : BOOLEAN]
    /\ lock = NoOne /\ place = NoOne
    /\ phase = [p \in Proc |-> "idle"] /\ err = [p \in Proc |-> FALSE]
    /\ acquired = [p \in Proc |-> FALSE]
    /\ call = [p \in Proc |-> NoCall] /\ plan = [p \in Proc |-> NotLoaded]
    /\ control = {"safe"} /\ external = FALSE
    /\ Fifo!FifoInit
    /\ ticks = 0 /\ pwm = [fall |-> 0, rise |-> 0, seq |-> 0]
    /\ returned = None /\ failed = FALSE /\ leaked = FALSE

Step(p) == LeaseAcquire(p) \/ LeaseRelease(p) \/ Unlock(p) \/ Access(p) \/ TransportFails(p)
              \/ (phase[p] = "aborted" /\ Die(p))
Test(p) == Enter(p) \/ Load(p) \/ (\E m \in Methods : Start(p, m)) \/ TestFails(p) \/ Finish(p)
LabNext ==
    \/ \E p \in Proc : Step(p) \/ Test(p) \/ Interrupt(p) \/ Die(p)
    \/ Operator \/ ExternalSafe \/ Dispatch \/ Tick \/ PwmEdge
LabSpec == LabInit /\ [][LabNext]_labvars

(* Tools run under a timeout and register accesses do not block: a process that  *)
(* is entering, leaving or interrupted takes its next step.                    *)
FairLabSpec == LabSpec /\ \A p \in Proc : WF_labvars(Step(p))
-------------------------------------------------------------------------------
Phases == {"idle", "lease", "enter", "body", "exit", "release", "undo", "unlock", "aborted"}
LabTypeOK ==
    /\ lock \in Proc \cup {NoOne} /\ place \in Proc \cup {NoOne}
    /\ \A p \in Proc : /\ phase[p] \in Phases
                       /\ phase[p] # "idle" <=> lock = p
                       /\ call[p].m \in Methods \cup {"none"}
                       /\ phase[p] \in {"enter", "exit"} => call[p].m = "force_safe"
    /\ control \subseteq {"enable", "safe", "abz", "forward"}
    /\ Len(q) <= Depth /\ pwm.seq <= pwm.rise /\ pwm.rise <= pwm.fall

(* ServoHilSession: until its session ends, only the test calls the backend and  *)
(* all events queued are its own, however the session before it ended.        *)
OwnBench ==
    \A p \in Proc : phase[p] = "body" =>
        /\ \A i \in DOMAIN q : q[i].own
        /\ \A o \in Proc \ {p} : call[o] = NoCall

(* The lock excludes: the phases of the processes agree with it (the types), and  *)
(* so nobody else touches the bench during a test.                             *)
BenchIsExclusive == LabTypeOK /\ OwnBench

(* The test gets the bench in the safe state with an empty queue, and only        *)
(* start_abz and an explicit release take the software FORCE_SAFE away: the other *)
(* read-modify-writes of CONTROL keep it.                                        *)
SafeUntilReleased ==
    [][\A p \in Proc :
         /\ phase[p] = "enter" /\ phase'[p] = "body" => "safe" \in control' /\ q' = <<>>
         /\ "safe" \in control \ control' /\ call[p] # NoCall
              => call[p].m \in {"start_abz", "release_safe"}]_labvars

(* A session that gives the lock back without an exception has made the bench   *)
(* safe.                                                                       *)
SafeUnlessRaised == \A p \in Proc : phase[p] = "unlock" /\ ~err[p] => "safe" \in control

(* Nothing runs unattended, unless the last session failed to force safe on its  *)
(* way out or did not live to try.                                            *)
NothingLeftRunning == lock = NoOne /\ Driving => failed

(* The place is given back with the lock, also after a failed __enter__, unless  *)
(* labgrid itself failed or the process did not live to do it.                *)
LeaseReturned == lock = NoOne /\ ~leaked => place = NoOne

(* What a session leaves behind, whatever failed in it: a safe bench or an error *)
(* that says so, no unattended output, and no place kept.                      *)
LeavesBenchSafe == SafeUnlessRaised /\ NothingLeftRunning /\ LeaseReturned

(* read_timestamp returns a value the counter had during the call, although it    *)
(* reads the two words at different times.                                     *)
TimestampInCall ==
    returned.m = "read_timestamp" => returned.val \in returned.from..returned.to

(* read_pwm: period, high and low time are each of the cycle that the sequence    *)
(* number returned with them counts, or of a later one; not of the same.         *)
PwmNotStale ==
    returned.m = "read_pwm" =>
        \A word \in {returned.period, returned.high, returned.low} : returned.sequence <= word

(* Methods that read several registers of running hardware return nothing older   *)
(* than they claim.  The words of a PWM need not be of one measurement: HIGH is a  *)
(* cycle ahead from each falling edge to the next rising edge, and edges fall      *)
(* between the reads, which read_pwm does not check as read_timestamp does.      *)
ReadsAreCurrent == TimestampInCall /\ PwmNotStale

(* A step of a loaded scenario is in the FIFO when schedule_dio has returned,     *)
(* unless FORCE_SAFE holds it empty: never refused for its order, never lost.  *)
ScheduledIsQueued ==
    [][returned'.m = "schedule_dio" /\ returned' # returned =>
          Safe' \/ (q' # <<>> /\ q'[Len(q')].own /\ Len(q') = Len(q) + 1)]_labvars

(* Entering and leaving a session always comes to an end.                        *)
SessionMovesOn ==
    \A p \in Proc : phase[p] \notin {"idle", "body"} ~> phase[p] \in {"idle", "body"}
===============================================================================
