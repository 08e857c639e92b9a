------------------------------- MODULE PruRpc -------------------------------
(***************************************************************************)
(* The host programs that talk to the two PRUs of a BeagleBone over RPMsg: *)
(* the backend (host/hil/backends/beaglebone_pru.py), the command-line     *)
(* tools (boards/beaglebone_black/host) and the firmware loaders           *)
(* (scripts/pruN_ctl.py).  All of them use HilPru.request.  A request may  *)
(* time out while its answer is still to come; nothing empties the device, *)
(* each program numbers its requests from 1 again, and so a late answer    *)
(* meets the next request of the program, or the next program.             *)
(***************************************************************************)
EXTENDS Naturals, Sequences

CONSTANTS
    MaxSeq,     \* bound: requests per connection of the backend
    MaxStale    \* bound: what earlier programs left in the queues when one opens

ASSUME RpcAssumption == MaxSeq \in Nat /\ MaxStale \in Nat

Pru == {"PRU0", "PRU1"}

VARIABLES
    prog,           \* per PRU: the firmware that runs, or "off"
    stim,           \* PRU1: "idle", "armed", "running", or "held": the core was
                    \* stopped while it ran and the pins keep their levels
    toPru, toHost,  \* RPMsg queues per PRU
    ses             \* the host program that has the devices open:
                    \*   tool: "none", "cli", "opening" (backend HELLO) or "backend"
                    \*   todo: requests of the command or method under way
                    \*   waiting: the head of todo has been written
                    \*   seq: HilPru.seq per connection
                    \*   dead: connections whose device was removed
                    \*   known: backend: the firmware that answered HELLO, per PRU
                    \*   basis: --after-us was added to: "user" (nothing yet) or the
                    \*          "fresh" or "stale" answer to a TIME
                    \*   lag: per PRU, what earlier programs had left at the open
                    \*   old: the part of lag that has not been read yet

rpcvars == <<prog, stim, toPru, toHost, ses>>

ForAll(v) == [p \in Pru |-> v]
NoSession == [tool |-> "none", todo |-> <<>>, waiting |-> FALSE, seq |-> ForAll(1), dead |-> {},
              known |-> ForAll("off"), basis |-> "user", lag |-> ForAll(0), old |-> ForAll(0)]

tool == ses.tool
todo == ses.todo
seq == ses.seq
-------------------------------------------------------------------------------
(* Firmware: what it advertises and which requests it knows.                 *)
Images(p) == IF p = "PRU0" THEN {"b0", "b1"} ELSE {"b2", "b2_serial"}

Capabilities(f) ==
    CASE f = "off"       -> {}
      [] f = "b0"        -> {"TIMEBASE", "FORCE_SAFE"}
      [] f = "b1"        -> {"TIMEBASE", "FORCE_SAFE", "PWM_CAPTURE"}
      [] f = "b2"        -> {"TIMEBASE", "FORCE_SAFE", "ABZ_EMULATOR", "HALL_EMULATOR"}
      [] f = "b2_serial" -> {"TIMEBASE", "FORCE_SAFE", "SSI_EMULATOR", "BISS_EMULATOR", "SPI_SENSOR_EMULATOR"}

(* STATUS stands for PING, every status request and ABZ_DIRECTION, none of     *)
(* which changes what is tracked here, CAPTURE for the CAPTURE_ requests,     *)
(* STIM_CONFIG and STIM_START for those of ABZ and Hall, and         *)
(* SERIAL_SETUP for SERIAL_CONFIG and SERIAL_DATA.                            *)
Supported(f) ==
    {"HELLO", "TIME", "STATUS", "FORCE_SAFE"} \cup
    CASE f = "b0"        -> {"GPIO_LOOPBACK"}
      [] f = "b1"        -> {"CAPTURE"}
      [] f = "b2"        -> {"STIM_CONFIG", "STIM_START", "ABZ_STOP", "HALL_STOP", "ABZ_ARM", "ABZ_SCHEDULE"}
      [] f = "b2_serial" -> {"SERIAL_SETUP", "SERIAL_START", "SERIAL_STOP"}

Types == UNION {Supported(f) : f \in UNION {Images(p) : p \in Pru}}
-------------------------------------------------------------------------------
(* The requests of a command, in order; more than one list where an option    *)
(* decides. A measured sample of the benchmark may fail without ending it.    *)
Ask(p, t) == [pru |-> p, type |-> t, sample |-> FALSE]
Asks(p, types) == [i \in 1..Len(types) |-> Ask(p, types[i])]
Sample == [Ask("PRU0", "GPIO_LOOPBACK") EXCEPT !.sample = TRUE]

run_loopback_benchmark == Asks("PRU0", <<"HELLO", "GPIO_LOOPBACK">>) \o <<Sample, Sample>>

pru_cli ==
    {run_loopback_benchmark} \cup
    {Asks("PRU0", s) : s \in {<<"HELLO">>, <<"TIME">>, <<"STATUS">>, <<"FORCE_SAFE">>, <<"HELLO", "GPIO_LOOPBACK">>}}

pwm_cli == {Asks("PRU0", <<"HELLO", t>>) : t \in {"CAPTURE", "STATUS"}}

(* --after-us asks for the time first, --apply-ticks does not.                *)
resolve_future_ticks(type) == {<<"HELLO", "TIME", type>>, <<"HELLO", type>>}

hall_cli == {Asks("PRU1", s) : s \in {<<"HELLO", "STIM_CONFIG">>, <<"STIM_START">>, <<"HALL_STOP">>, <<"STATUS">>}}

stim_cli ==
    {Asks("PRU1", s) : s \in
       {<<"HELLO">>, <<"HELLO", "STIM_CONFIG">>, <<"STIM_START">>, <<"ABZ_STOP">>, <<"STATUS">>, <<"FORCE_SAFE">>}
       \cup resolve_future_ticks("ABZ_ARM") \cup resolve_future_ticks("ABZ_SCHEDULE")}

sensor_cli ==
    {Asks("PRU1", s) : s \in {<<"HELLO">>, <<"HELLO", "SERIAL_SETUP">>, <<"SERIAL_SETUP">>, <<"SERIAL_START">>,
                              <<"SERIAL_STOP">>, <<"HELLO", "STATUS">>, <<"FORCE_SAFE">>}}

(* Arguments are checked after the requests that supply what they depend on.  *)
CheckedLate == {"STIM_CONFIG", "ABZ_SCHEDULE", "SERIAL_SETUP", "CAPTURE", "GPIO_LOOPBACK"}
-------------------------------------------------------------------------------
(* Backend methods, the capability each requires, and its requests; PRU1 is   *)
(* asked only if it was there at the open.                                    *)
map_capabilities(k) == UNION {Capabilities(k[p]) : p \in Pru}
validate_contract(k) == {"TIMEBASE", "FORCE_SAFE"} \subseteq map_capabilities(k)

(* PRU1 must not offer a stimulus without FORCE_SAFE. The clock and the counter *)
(* width, which must agree, are the same in every firmware.                   *)
Checked(k) ==
    /\ validate_contract(k)
    /\ Capabilities(k["PRU1"]) \ {"TIMEBASE", "FORCE_SAFE"} # {} => "FORCE_SAFE" \in Capabilities(k["PRU1"])

Both(k, t) == Asks("PRU0", <<t>>) \o IF k["PRU1"] = "off" THEN <<>> ELSE Asks("PRU1", <<t>>)
Methods(k) ==
    {<<"FORCE_SAFE", Both(k, "FORCE_SAFE")>>, <<"TIMEBASE", Asks("PRU0", <<"TIME">>)>>,
     <<"TIMEBASE", Both(k, "TIME")>>} \cup
    {<<"ABZ_EMULATOR", Asks("PRU1", <<t>>)>> : t \in {"STIM_CONFIG", "STIM_START", "ABZ_STOP"}}
-------------------------------------------------------------------------------
(* Opening a device. What is left in it from earlier programs may still be    *)
(* read; the driver may also have dropped the answers nobody read.           *)
HilPru(ps, kind, requests) ==
    /\ tool = "none"
    /\ \E keep \in BOOLEAN : toHost' = [p \in Pru |-> IF keep THEN toHost[p] ELSE <<>>]
    /\ LET left == [p \in Pru |-> Len(toPru[p]) + Len(toHost'[p])] IN
       /\ left["PRU0"] + left["PRU1"] <= MaxStale
       /\ ses' = [NoSession EXCEPT !.tool = kind, !.todo = requests, !.lag = left, !.old = left]
    /\ UNCHANGED <<toPru, prog, stim>>

Present == {p \in Pru : prog[p] # "off"}       \* the devices that exist

RunCommand(requests) ==
    /\ requests[1].pru \in Present
    /\ HilPru({requests[1].pru}, "cli", requests)

OpenBackend ==
    /\ "PRU0" \in Present
    /\ HilPru(Present, "opening", Both(prog, "HELLO"))

Call ==
    /\ tool = "backend" /\ todo = <<>>
    /\ \E m \in Methods(ses.known) :
         /\ m[1] \in map_capabilities(ses.known)       \* require
         /\ \A i \in 1..Len(m[2]) : seq[m[2][i].pru] <= MaxSeq
         /\ ses' = [ses EXCEPT !.todo = m[2]]
    /\ UNCHANGED <<toPru, toHost, prog, stim>>

Close ==
    /\ tool = "backend" /\ todo = <<>>
    /\ ses' = NoSession
    /\ UNCHANGED <<toPru, toHost, prog, stim>>
-------------------------------------------------------------------------------
(* HilPru.request, one step per system call.                                 *)
Write ==
    /\ todo # <<>> /\ ~ses.waiting
    /\ LET r == Head(todo) IN
       /\ r.pru \notin ses.dead
       /\ toPru' = [toPru EXCEPT ![r.pru] = Append(@, [type |-> r.type, seq |-> seq[r.pru]])]
       /\ ses' = [ses EXCEPT !.seq[r.pru] = @ + 1, !.waiting = TRUE]
    /\ UNCHANGED <<toHost, prog, stim>>

(* An exception ends the method or the command; a command and a failed open   *)
(* close the device. A sample of the benchmark is counted as failed.         *)
Raised(s) ==
    IF Head(s.todo).sample /\ Len(s.todo) > 1 THEN [s EXCEPT !.todo = Tail(@), !.waiting = FALSE]
    ELSE IF s.tool = "backend" THEN [s EXCEPT !.todo = <<>>, !.waiting = FALSE]
    ELSE NoSession

(* The write failed, or an argument turned out to be wrong.                  *)
NotWritten ==
    /\ todo # <<>> /\ ~ses.waiting
    /\ \/ Head(todo).pru \in ses.dead
       \/ tool = "cli" /\ Head(todo).type \in CheckedLate
    /\ ses' = Raised(ses)
    /\ UNCHANGED <<toPru, toHost, prog, stim>>

(* poll found nothing in time, or reported an error of the device.            *)
Timeout_Ignored == todo # <<>> /\ ses.waiting /\ UNCHANGED rpcvars    \* Mutation: keep waiting
Timeout ==
    /\ todo # <<>> /\ ses.waiting
    /\ ses' = Raised(ses)
    /\ UNCHANGED <<toPru, toHost, prog, stim>>

Refusal == [type |-> "REFUSED", seq |-> 0]     \* flags # 0: no program looks further

(* validate_response and the status check against the request just written.   *)
Answers_AnySeq(r, reply) == reply.type = r.type \* Mutation: no sequence check
Answers_Any(r, reply) == reply # Refusal                               \* Mutation: no validate_response
Answers(r, reply) == reply.type = r.type /\ reply.seq + 1 = seq[r.pru]

Proceed(s) ==
    IF Len(s.todo) > 1 THEN [s EXCEPT !.todo = Tail(@), !.waiting = FALSE]
    ELSE IF s.tool = "cli" \/ ~Checked(s.known) THEN NoSession
    ELSE [s EXCEPT !.tool = "backend", !.todo = <<>>, !.waiting = FALSE]

(* The answer belongs to the request just written, and not to another one of   *)
(* this or of an earlier program.                                            *)
Own(r, reply) == ses.old[r.pru] = 0 /\ reply = [type |-> r.type, seq |-> seq[r.pru] - 1]

(* What the program keeps of an answer it accepts.                            *)
Noted(s, r, reply) ==
    CASE tool = "opening" -> [s EXCEPT !.known[r.pru] = prog[r.pru]]
      [] tool = "cli" /\ r.type = "TIME" -> [s EXCEPT !.basis = IF Own(r, reply) THEN "fresh" ELSE "stale"]
      [] OTHER -> s

Read ==
    /\ todo # <<>> /\ ses.waiting
    /\ LET r == Head(todo)
           s == [ses EXCEPT !.old[r.pru] = IF @ = 0 THEN 0 ELSE @ - 1]
       IN /\ toHost[r.pru] # <<>>
          /\ toHost' = [toHost EXCEPT ![r.pru] = Tail(@)]
          /\ ses' = IF Answers(r, Head(toHost[r.pru])) THEN Proceed(Noted(s, r, Head(toHost[r.pru]))) ELSE Raised(s)
    /\ UNCHANGED <<toPru, prog, stim>>
-------------------------------------------------------------------------------
(* A PRU handles its requests in order, when it gets to them. What changes    *)
(* the set-up or starts the outputs is refused while they are in use, and may *)
(* be refused for its arguments or for want of a configuration.              *)
Exclusive == {"STIM_CONFIG", "STIM_START", "ABZ_ARM", "SERIAL_SETUP", "SERIAL_START"}
MayRefuse == {"STIM_CONFIG", "ABZ_ARM", "ABZ_SCHEDULE", "SERIAL_SETUP", "SERIAL_START", "GPIO_LOOPBACK", "STATUS"}

CanAccept(p, t) ==
    /\ t \in Supported(prog[p])
    /\ t \in Exclusive => stim = "idle"
    /\ t = "ABZ_SCHEDULE" => stim = "armed"

StimAfter(t) ==
    CASE t \in {"STIM_START", "SERIAL_START"} -> "running"
      [] t = "ABZ_ARM" -> "armed"
      [] t \in {"FORCE_SAFE", "ABZ_STOP", "SERIAL_STOP"} -> "idle"
      [] t = "HALL_STOP" /\ stim = "running" -> "idle"
      [] OTHER -> stim

Handle(p) ==
    /\ prog[p] # "off" /\ toPru[p] # <<>>
    /\ LET m == Head(toPru[p]) IN
       \E ok \in BOOLEAN :
         /\ ok => CanAccept(p, m.type)
         /\ ~ok => ~CanAccept(p, m.type) \/ m.type \in MayRefuse
         /\ toPru' = [toPru EXCEPT ![p] = Tail(@)]
         /\ toHost' = [toHost EXCEPT ![p] = Append(@, IF ok THEN m ELSE Refusal)]
         /\ stim' = IF p = "PRU1" /\ ok THEN StimAfter(m.type) ELSE stim
    /\ UNCHANGED <<ses, prog>>

(* The armed instant of the firmware arrives.                                *)
Fire == stim = "armed" /\ stim' = "running" /\ UNCHANGED <<ses, toPru, toHost, prog>>
-------------------------------------------------------------------------------
(* pruN_ctl.py. Stopping removes the device with all it holds; the pins stay  *)
(* as they are until a firmware starts, which begins with its safe outputs.   *)
Load(p, f) ==
    /\ prog' = [prog EXCEPT ![p] = f]
    /\ stim' = IF p # "PRU1" THEN stim ELSE IF f = "off" /\ stim \in {"running", "held"} THEN "held" ELSE "idle"
    /\ toPru' = [toPru EXCEPT ![p] = <<>>] /\ toHost' = [toHost EXCEPT ![p] = <<>>]
    /\ ses' = IF tool = "none" THEN ses ELSE [ses EXCEPT !.dead = @ \cup {p}]

stop(p) == prog[p] # "off" /\ Load(p, "off")

(* A program whose device was removed can only fail, so what happens to the    *)
(* PRU until it has ended makes no difference; the image is the one that was   *)
(* installed last.                                                           *)
start(p) == tool = "none" /\ prog[p] = "off" /\ \E f \in Images(p) : Load(p, f)

(* stop, copy, name the image and start; an error in between leaves it off.   *)
install_and_start(p) == tool = "none" /\ \E f \in Images(p) \cup {"off"} : Load(p, f)

RpcInit ==
    /\ prog = ForAll("off") /\ stim = "idle"
    /\ toPru = ForAll(<<>>) /\ toHost = ForAll(<<>>)
    /\ ses = NoSession

HostStep == Write \/ NotWritten \/ Timeout \/ Read
RpcNext ==
    \/ \E c \in pru_cli \cup pwm_cli \cup stim_cli \cup hall_cli \cup sensor_cli : RunCommand(c)
    \/ OpenBackend \/ Call \/ Close
    \/ HostStep
    \/ \E p \in Pru : Handle(p) \/ stop(p) \/ start(p) \/ install_and_start(p)
    \/ Fire
RpcSpec == RpcInit /\ [][RpcNext]_rpcvars

(* poll has a timeout, so a command or method under way takes its next step.  *)
(* The PRUs need not ever answer.                                            *)
FairRpcSpec == RpcSpec /\ WF_rpcvars(HostStep)
-------------------------------------------------------------------------------
(* The host takes the answer in front for the answer to its request.            *)
Accepted == Read /\ Answers(Head(todo), Head(toHost[Head(todo).pru]))

(* What a tool or a backend method reports as done has really been done: after *)
(* an accepted FORCE_SAFE or stop the stimulus is off and after a start it is  *)
(* on, whatever timed-out requests and late answers came before, also of an    *)
(* earlier program that left one request unanswered. A program that found the  *)
(* device empty and was answered has nothing outstanding.                     *)
SuccessIsReal ==
    [][Accepted =>
         LET r == Head(todo) IN
         /\ r.pru = "PRU1" /\ ses.lag[r.pru] <= 1 =>
              /\ r.type \in {"FORCE_SAFE", "ABZ_STOP", "SERIAL_STOP"} => stim = "idle"
              /\ r.type \in {"STIM_START", "SERIAL_START"} => stim = "running"
              /\ r.type = "ABZ_ARM" => stim \in {"armed", "running"}
         /\ ses.lag[r.pru] = 0 => toPru[r.pru] = <<>> /\ Len(toHost[r.pru]) = 1]_rpcvars

(* Two answers that a later step builds on are the program's own. A deadline of *)
(* hil_stim_cli arm and schedule that is reported as accepted was computed from *)
(* a time the PRU gave to this program, not from one that an earlier program    *)
(* asked for. A sample that run_loopback_benchmark counts, which goes on after *)
(* a failed one, is the answer to its own request, never that of the one before. *)
DeadlineIsFresh ==
    Head(todo).type \in {"ABZ_ARM", "ABZ_SCHEDULE"} /\ ses.lag["PRU1"] <= 2 => ses.basis # "stale"
SampleIsOwn ==
    Head(todo).sample /\ ses.lag["PRU0"] <= 1 => Own(Head(todo), Head(toHost["PRU0"]))
AnswersAreCurrent == [][Accepted => DeadlineIsFresh /\ SampleIsOwn]_rpcvars

(* A backend method or a command always comes back, also when a PRU is silent *)
(* or its firmware is removed under it.                                       *)
MethodReturns == todo # <<>> ~> todo = <<>>
===============================================================================
