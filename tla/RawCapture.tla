----------------------------- MODULE RawCapture -----------------------------
(***************************************************************************)
(* The raw edge capture of PRU0 (boards/beaglebone_black/firmware/          *)
(* pru0_b1_raw/main.c) and its Linux side (host/hil_raw_cli.py,             *)
(* host/hil_raw_shared.py).  The firmware fills a block in shared RAM word  *)
(* by word and serves no request while a window is open; Linux copies the   *)
(* block word by word through /dev/mem, with or without having talked to    *)
(* the firmware first.                                                      *)
(* The six inputs are one value; the IEP counter moves with every change of *)
(* the inputs and wraps.  The constant words of the header and generation   *)
(* are left out: nothing reads them back.                                   *)
(***************************************************************************)
EXTENDS Integers, Sequences

CONSTANTS Capacity,      \* HIL_RAW_CAPTURE_CAPACITY
          Levels,        \* values of R31 & R31_PWM_INPUT_MASK
          Wrap,          \* range of the IEP counter
          MaxSessions    \* bound: runs of the command-line tool

ASSUME RawAssumption ==
    /\ Capacity \in Nat \ {0} /\ Wrap \in Nat \ {0} /\ MaxSessions \in Nat
    /\ Levels \subseteq Nat /\ 0 \in Levels

NONE == 0            \* HIL_RAW_STOP_*
EVENT_LIMIT == 1
HOST_REQUEST == 2
FORCE_SAFE == 3

(* struct hil_raw_capture_shared, in address order; a word is <<field, slot>>. *)
Header == <<"running", "limit", "event_count", "initial", "final", "start", "stop", "reason">>
Layout == [i \in 1..(8 + 2 * Capacity) |->
             IF i <= 8 THEN <<Header[i], 0>>
             ELSE <<IF i % 2 = 1 THEN "ts" ELSE "raw", (i - 9) \div 2>>]
Addr == {Layout[i] : i \in DOMAIN Layout}
W(field) == <<field, 0>>

VARIABLES
    R31, now,                                 \* inputs, IEP counter
    mem, stores,                              \* shared block; stores under way
    pc, sample,                               \* "main", "drain", "reply", "window", "publish"
    start_pending, capture_running,
    event_count, event_limit, last_inputs, last_timestamp,
    rx, reply,                                \* requests queued, answer under way
    sess, kind, todo, waiting, limit,         \* the tool: session, command, requests left
    answer, snap, outcome,
    base, seen, owner, calm                   \* history, see below

locals == <<start_pending, capture_running, event_count, event_limit, last_inputs, last_timestamp>>
toolvars == <<sess, kind, todo, waiting, limit, snap, outcome, calm>>
history == <<base, seen, owner>>
rawvars == <<R31, now, mem, stores, pc, sample, locals, rx, reply, toolvars, answer, history>>
-------------------------------------------------------------------------------
Ready(place) == pc = place /\ stores = <<>>

Store ==
    /\ stores # <<>>
    /\ mem' = [mem EXCEPT ![Head(stores)[1]] = Head(stores)[2]]
    /\ stores' = Tail(stores)
    /\ UNCHANGED <<R31, now, pc, sample, locals, rx, reply, toolvars, answer, history>>

(* running = 0 comes last: it releases the frozen block to Linux.            *)
publish_stop_RunningFirst(reason, ticks, inputs, count) ==          \* Mutation
    <<<<W("running"), 0>>, <<W("final"), inputs>>, <<W("event_count"), count>>,
      <<W("stop"), ticks>>, <<W("reason"), reason>>>>
publish_stop(reason, ticks, inputs, count) ==
    <<<<W("final"), inputs>>, <<W("event_count"), count>>, <<W("stop"), ticks>>,
      <<W("reason"), reason>>, <<W("running"), 0>>>>

raw_shared_init == [i \in 1..8 |-> <<Layout[i], IF i = 2 THEN Capacity ELSE 0>>]

(* Behind the acknowledgement of RAW_START: fresh inputs and time, running =  *)
(* 1 last, then the window.                                                  *)
Baseline_Stale == sample               \* Mutation: the sample of the request loop
Baseline == R31

Arm ==
    /\ Ready("main") /\ start_pending
    /\ stores' = <<<<W("event_count"), 0>>, <<W("initial"), Baseline>>,
                   <<W("final"), Baseline>>, <<W("start"), now>>, <<W("stop"), 0>>,
                   <<W("reason"), NONE>>, <<W("running"), 1>>>>
    /\ event_count' = 0 /\ last_inputs' = Baseline /\ last_timestamp' = now
    /\ capture_running' = TRUE /\ start_pending' = FALSE
    /\ pc' = "window"
    /\ base' = R31 /\ seen' = <<>>
    /\ UNCHANGED <<R31, now, mem, sample, event_limit, rx, reply, toolvars, answer, owner>>

(* run_capture_window: until the limit is reached it looks at nothing else.   *)
limit_reached(count) == count >= event_limit

Edge ==
    /\ Ready("window") /\ R31 # last_inputs
    /\ stores' = <<<<<<"ts", event_count>>, now>>, <<<<"raw", event_count>>, R31>>>>
    /\ last_inputs' = R31 /\ last_timestamp' = now
    /\ event_count' = event_count + 1
    /\ pc' = IF limit_reached(event_count + 1) THEN "publish" ELSE "window"
    /\ seen' = Append(seen, <<now, R31>>)
    /\ UNCHANGED <<R31, now, mem, sample, start_pending, capture_running, event_limit,
                   rx, reply, toolvars, answer, base, owner>>

WindowEnd ==
    /\ Ready("publish")
    /\ stores' = publish_stop(EVENT_LIMIT, last_timestamp, last_inputs, event_count)
    /\ capture_running' = FALSE
    /\ pc' = "main"
    /\ UNCHANGED <<R31, now, mem, sample, start_pending, event_count, event_limit, last_inputs,
                   last_timestamp, rx, reply, toolvars, answer, history>>
-------------------------------------------------------------------------------
(* The inputs are sampled before the interrupt is looked at; the drain hands   *)
(* this sample to every request it finds.                                     *)
PollHost ==
    /\ Ready("main") /\ ~start_pending /\ rx # <<>>
    /\ sample' = R31 /\ pc' = "drain"
    /\ UNCHANGED <<R31, now, mem, stores, locals, rx, reply, toolvars, answer, history>>

busy == capture_running \/ start_pending

Refused(m) ==
    \/ m.type \in {"CONFIG", "CLEAR", "START"} /\ busy
    \/ m.type = "CONFIG" /\ m.limit \notin 1..Capacity

StopStores(reason) ==
    IF capture_running THEN publish_stop(reason, now, sample, event_count) ELSE <<>>

(* The stores of handle_request. *)
Stores(m) ==
    IF Refused(m) THEN <<>>
    ELSE CASE m.type = "FORCE_SAFE" -> StopStores(FORCE_SAFE)
           [] m.type = "CONFIG" -> <<<<W("limit"), m.limit>>>>
           [] m.type = "CLEAR"  -> Append(raw_shared_init, <<W("limit"), event_limit>>)
           [] m.type = "START"  -> <<<<W("event_count"), 0>>, <<W("stop"), 0>>,
                                     <<W("reason"), NONE>>, <<W("running"), 0>>>>
           [] m.type = "STOP"   -> (IF start_pending
                                    THEN <<<<W("stop"), now>>, <<W("reason"), HOST_REQUEST>>,
                                           <<W("running"), 0>>>>
                                    ELSE <<>>) \o StopStores(HOST_REQUEST)
           [] m.type = "STATUS" -> <<<<W("event_count"), event_count>>, <<W("final"), sample>>>>

status_running_Started == capture_running         \* Mutation: an armed start is not running
status_running == busy

handle_request ==
    /\ Ready("drain") /\ rx # <<>>
    /\ LET m == Head(rx)  done == ~Refused(m) IN
       /\ stores' = Stores(m)
       /\ reply' = [type |-> m.type, sess |-> m.sess, ok |-> done, running |-> status_running]
       /\ start_pending' = CASE m.type \in {"STOP", "FORCE_SAFE"} -> FALSE
                             [] m.type = "START" /\ done -> TRUE
                             [] OTHER -> start_pending
       /\ capture_running' = (capture_running /\ m.type \notin {"STOP", "FORCE_SAFE"})
       /\ event_limit' = IF m.type = "CONFIG" /\ done THEN m.limit ELSE event_limit
       /\ event_count' = IF m.type \in {"CLEAR", "START"} /\ done THEN 0 ELSE event_count
       /\ last_inputs' = IF m.type = "CLEAR" /\ done THEN sample ELSE last_inputs
       /\ owner' = IF m.type = "START" /\ done THEN m.sess ELSE owner
    /\ rx' = Tail(rx) /\ pc' = "reply"
    /\ UNCHANGED <<R31, now, mem, sample, last_timestamp, toolvars, answer, base, seen>>

NoAnswer == [type |-> "none", sess |-> 0, ok |-> FALSE, running |-> FALSE]

(* The response reaches the tool if the one that asked is still waiting.       *)
Respond ==
    /\ Ready("reply")
    /\ answer' = IF waiting /\ reply.sess = sess THEN reply ELSE answer
    /\ reply' = NoAnswer /\ pc' = "drain"
    /\ UNCHANGED <<R31, now, mem, stores, sample, locals, rx, toolvars, history>>

DrainEnd ==
    /\ Ready("drain") /\ rx = <<>>
    /\ pc' = "main"
    /\ UNCHANGED <<R31, now, mem, stores, sample, locals, rx, reply, toolvars, answer, history>>

InputMoves ==
    /\ R31' \in Levels \ {R31} /\ now' = (now + 1) % Wrap
    /\ UNCHANGED <<mem, stores, pc, sample, locals, rx, reply, toolvars, answer, history>>

Firmware == \/ Store \/ Arm \/ Edge \/ WindowEnd \/ PollHost \/ handle_request
            \/ Respond \/ DrainEnd
-------------------------------------------------------------------------------
(* The command-line tool: one process at a time. Whether the driver keeps an   *)
(* answer nobody read is not said; PruRpc has both. Here it is dropped: a      *)
(* capture needs four answers in step, and fails behind one that was kept.     *)
(* FORCE_SAFE ("safe") comes from the generic client, hil_pru_cli.py.         *)
Script(k) == CASE k = "capture" -> <<"CONFIG", "CLEAR", "START", "STATUS">>
               [] k = "config" -> <<"CONFIG">>
               [] k = "clear"  -> <<"CLEAR">>
               [] k = "start"  -> <<"START">>
               [] k = "stop"   -> <<"STOP">>
               [] k = "status" -> <<"STATUS">>
               [] k = "safe"   -> <<"FORCE_SAFE">>
               [] k = "dump"   -> <<>>
Commands == {"capture", "config", "clear", "start", "stop", "status", "safe", "dump"}
Reads == {"capture", "dump"}
Limits(k) == IF k \in {"capture", "config"} THEN 1..Capacity ELSE {1}    \* --event-limit

fwvars == <<R31, now, mem, stores, pc, sample, locals, rx, reply, history>>

Open(k, n) ==
    /\ outcome # "none" /\ sess < MaxSessions
    /\ sess' = sess + 1 /\ kind' = k /\ limit' = n
    /\ todo' = Script(k) /\ waiting' = FALSE /\ answer' = NoAnswer
    /\ snap' = <<>> /\ outcome' = "none"
    /\ calm' = /\ rx = <<>> /\ ~start_pending /\ pc \notin {"drain", "reply"}
               /\ pc = "window" => mem[W("running")] = 1
    /\ UNCHANGED fwvars

Request ==
    /\ outcome = "none" /\ todo # <<>> /\ ~waiting
    /\ rx' = Append(rx, [type |-> Head(todo), limit |-> limit, sess |-> sess])
    /\ waiting' = TRUE /\ answer' = NoAnswer
    /\ UNCHANGED <<R31, now, mem, stores, pc, sample, locals, reply, history,
                   sess, kind, todo, limit, snap, outcome, calm>>

Fail == outcome' = "error" /\ todo' = <<>> /\ waiting' = FALSE /\ snap' = <<>>

Timeout ==
    /\ outcome = "none" /\ waiting
    /\ Fail /\ answer' = NoAnswer
    /\ UNCHANGED <<fwvars, sess, kind, limit, calm>>

(* capture gives up when the status after its sleep still says running.       *)
Accepts(a) == a.ok /\ (kind = "capture" /\ a.type = "STATUS" => ~a.running)

ReadAnswer ==
    /\ outcome = "none" /\ waiting /\ answer # NoAnswer
    /\ answer' = NoAnswer
    /\ IF Accepts(answer)
       THEN /\ todo' = Tail(todo) /\ waiting' = FALSE
            /\ outcome' = IF Len(todo) = 1 /\ kind \notin Reads THEN "done" ELSE "none"
            /\ UNCHANGED snap
       ELSE Fail
    /\ UNCHANGED <<fwvars, sess, kind, limit, calm>>

Field(field, slot) == snap[CHOOSE i \in DOMAIN Layout : Layout[i] = <<field, slot>>]

(* read_frozen_raw_capture: copy the block, then look at running.             *)
CopyWord ==
    /\ outcome = "none" /\ todo = <<>> /\ Len(snap) < Len(Layout)
    /\ snap' = Append(snap, mem[Layout[Len(snap) + 1]])
    /\ UNCHANGED <<fwvars, sess, kind, todo, waiting, limit, answer, outcome, calm>>

Validate ==
    /\ outcome = "none" /\ todo = <<>> /\ Len(snap) = Len(Layout)
    /\ IF Field("running", 0) = 0 /\ Field("event_count", 0) <= Capacity
       THEN outcome' = "done" /\ UNCHANGED <<todo, waiting, snap>>
       ELSE Fail
    /\ UNCHANGED <<fwvars, sess, kind, limit, answer, calm>>

Tool == \/ \E k \in Commands : \E n \in Limits(k) : Open(k, n)
        \/ Request \/ Timeout \/ ReadAnswer \/ CopyWord \/ Validate
-------------------------------------------------------------------------------
RawInit ==
    /\ R31 \in Levels /\ now = 0
    /\ mem = [a \in Addr |-> CASE a = W("limit") -> Capacity
                               [] a \in {W("initial"), W("final")} -> R31
                               [] OTHER -> 0]
    /\ stores = <<>> /\ pc = "main" /\ sample = 0
    /\ start_pending = FALSE /\ capture_running = FALSE
    /\ event_count = 0 /\ event_limit = Capacity /\ last_inputs = R31 /\ last_timestamp = 0
    /\ rx = <<>> /\ reply = NoAnswer /\ answer = NoAnswer
    /\ sess = 0 /\ kind = "dump" /\ todo = <<>> /\ waiting = FALSE /\ limit = 1
    /\ snap = <<>> /\ outcome = "error"
    /\ base = R31 /\ seen = <<>> /\ owner = 0 /\ calm = FALSE

RawNext == Firmware \/ InputMoves \/ Tool
RawSpec == RawInit /\ [][RawNext]_rawvars
-------------------------------------------------------------------------------
(* The counter, the limit and the ring index keep to the capacity.            *)
RawTypeOK ==
    /\ R31 \in Levels /\ now \in 0..(Wrap - 1) /\ sample \in Levels \cup {0}
    /\ DOMAIN mem = Addr
    /\ pc \in {"main", "drain", "reply", "window", "publish"}
    /\ start_pending \in BOOLEAN /\ capture_running \in BOOLEAN
    /\ event_limit \in 1..Capacity /\ event_count \in 0..Capacity
    /\ sess \in 0..MaxSessions /\ outcome \in {"none", "error", "done"}
    /\ Len(snap) <= Len(Layout)

(* base and seen are what really was on the pins: the inputs when the window   *)
(* opened and its edges. Once a window is published the block shows exactly   *)
(* that, with every record a real change, until the next START or CLEAR,      *)
(* whatever status, stop and configuration requests come in between.          *)
Shows(value(_, _)) ==
    /\ value("event_count", 0) = Len(seen) /\ value("initial", 0) = base
    /\ \A i \in 1..Len(seen) :
         /\ value("ts", i - 1) = seen[i][1] /\ value("raw", i - 1) = seen[i][2]
         /\ value("raw", i - 1) # IF i = 1 THEN value("initial", 0) ELSE value("raw", i - 2)
InMem(field, slot) == mem[<<field, slot>>]
FrozenIsWindow ==
    stores = <<>> /\ mem[W("reason")] = EVENT_LIMIT =>
       Shows(InMem) /\ mem[W("running")] = 0 /\ Len(seen) > 0

(* What the firmware leaves in the shared block: in range, and one whole window. *)
BlockSound == RawTypeOK /\ FrozenIsWindow

(* A capture command that succeeds reports the window its own START opened:   *)
(* complete, stopped by its own limit and not mixed with an earlier one,      *)
(* whatever requests of timed-out commands were still queued.                 *)
CaptureFaithful ==
    outcome = "done" /\ kind = "capture" =>
       /\ owner = sess
       /\ Field("event_count", 0) = limit /\ Field("reason", 0) = EVENT_LIMIT
       /\ Shows(Field)

(* A dump begun with no request queued, in service or about to open a window  *)
(* reports one whole window with its end, or no records at all, although it   *)
(* races the window without any lock: running is read before everything else  *)
(* and published after it.                                                   *)
DumpFaithful ==
    outcome = "done" /\ kind = "dump" /\ calm /\ Field("event_count", 0) > 0 =>
       /\ Shows(Field)
       /\ Field("reason", 0) = EVENT_LIMIT /\ Field("stop", 0) = seen[Len(seen)][1]
===============================================================================
