---------------------------- MODULE CanopenDrive ----------------------------
(***************************************************************************)
(* The CANopen master of fieldbus/canopen: the expedited SDO client         *)
(* (sdo.py), the CiA 402 node on top of it (cia402.py), the PDO mapping      *)
(* sequence and codec (pdo.py) and the socket they share (socketcan.py),     *)
(* against one drive.  SDO has no sequence number: an answer is recognised   *)
(* by its object alone, so the answer of a request that timed out is taken   *)
(* for the answer of the next request of the same object.                    *)
(***************************************************************************)
EXTENDS Integers, Sequences

CONSTANTS MaxSteps,    \* max_steps of enable_operation
          MaxFrames,   \* max_frames of CanopenSdoClient
          MaxQueue,    \* bound: frames under way that nobody waits for
          Remaps,      \* bound: the mappings that are configured
          Timeout      \* SocketCanBus.open was given a timeout_s; its default is none

ASSUME CanAssumption == /\ {MaxSteps, MaxFrames, MaxQueue} \subseteq Nat \ {0}
                        /\ Timeout \in BOOLEAN
                        /\ Remaps \subseteq {"csp", "cst"}

VARIABLES
    toDrive, toHost,     \* frames on their way, in bus order
    op, todo, waiting,   \* method under way, its requests left, the head one sent
    seen, steps,         \* frames read for this request, turns of the enable loop
    result,              \* "none" while under way, then "ok", "error", "exhausted"
    drive,               \* the drive: state, bit 7 of the last controlword,
                         \* fault cause present, NMT operational
    pdo,                 \* the drive's PDO: on, count, entries
    clean, quiet, confirmed, excused   \* history: see Call, Proceed, Reset

hostvars == <<op, todo, waiting, seen, steps, result>>
history  == <<clean, quiet, confirmed, excused>>
canvars  == <<toDrive, toHost, hostvars, drive, pdo, history>>
-------------------------------------------------------------------------------
(* cia402.py: the state a statusword stands for, and the answer to it.        *)
Nibble(sw) == sw % 16
Bit(sw, weight) == (sw \div weight) % 2
And4F(sw) == Nibble(sw) + 64 * Bit(sw, 64)
And6F(sw) == And4F(sw) + 32 * Bit(sw, 32)

decode_state_4F(sw) ==       \* Mutation: the quick-stop bit is not looked at
    CASE And4F(sw) = 0  -> "NOT_READY"
      [] And4F(sw) = 64 -> "SWITCH_ON_DISABLED"
      [] And4F(sw) = 1  -> "READY_TO_SWITCH_ON"
      [] And4F(sw) = 3  -> "SWITCHED_ON"
      [] And4F(sw) = 7  -> "OPERATION_ENABLED"
      [] And4F(sw) = 15 -> "FAULT_REACTION_ACTIVE"
      [] And4F(sw) = 8  -> "FAULT"
      [] OTHER -> "UNKNOWN"
decode_state(sw) ==
    CASE And4F(sw) = 0  -> "NOT_READY"
      [] And4F(sw) = 64 -> "SWITCH_ON_DISABLED"
      [] And6F(sw) = 33 -> "READY_TO_SWITCH_ON"
      [] And6F(sw) = 35 -> "SWITCHED_ON"
      [] And6F(sw) = 39 -> "OPERATION_ENABLED"
      [] And6F(sw) = 7  -> "QUICK_STOP_ACTIVE"
      [] And4F(sw) = 15 -> "FAULT_REACTION_ACTIVE"
      [] And4F(sw) = 8  -> "FAULT"
      [] OTHER -> "UNKNOWN"

next_controlword_NoQuickStop(sw) ==     \* Mutation: no way out of a quick stop
    CASE decode_state(sw) = "FAULT"              -> 128
      [] decode_state(sw) = "SWITCH_ON_DISABLED" -> 6
      [] decode_state(sw) = "READY_TO_SWITCH_ON" -> 7
      [] decode_state(sw) \in {"SWITCHED_ON", "OPERATION_ENABLED"} -> 15
      [] decode_state(sw) = "QUICK_STOP_ACTIVE"  -> 11
      [] OTHER -> 0
next_controlword(sw) ==
    CASE decode_state(sw) = "FAULT"              -> 128
      [] decode_state(sw) = "SWITCH_ON_DISABLED" -> 6
      [] decode_state(sw) = "READY_TO_SWITCH_ON" -> 7
      [] decode_state(sw) \in {"SWITCHED_ON", "OPERATION_ENABLED", "QUICK_STOP_ACTIVE"} -> 15
      [] OTHER -> 0
-------------------------------------------------------------------------------
(* pdo.py: two of the standard mappings, and the little-endian codec.          *)
Entry(name, bytes, signed) == [name |-> name, bytes |-> bytes, signed |-> signed]
CIA402_RPDO_CSP == <<Entry("controlword", 2, FALSE), Entry("mode", 1, TRUE),
                     Entry("target_position", 4, TRUE)>>
CIA402_RPDO_CST == <<Entry("controlword", 2, FALSE), Entry("mode", 1, TRUE),
                     Entry("target_torque", 2, TRUE)>>
Mapping == [csp |-> CIA402_RPDO_CSP, cst |-> CIA402_RPDO_CST]

Weight == <<1, 256, 65536, 16777216>>       \* of each byte
to_bytes(v, width) == [i \in 1..width |-> (v \div Weight[i]) % 256]
from_bytes(b, signed) ==
    LET part[i \in 0..Len(b)] ==
          IF i = 0 THEN 0
          ELSE part[i - 1] + Weight[i] *
                 (IF i = Len(b) /\ signed /\ b[i] > 127 THEN b[i] - 256 ELSE b[i])
    IN  part[Len(b)]

Offset(entries, i) ==
    LET upto[k \in 0..Len(entries)] == IF k = 0 THEN 0 ELSE upto[k - 1] + entries[k].bytes
    IN  upto[i]

encode(entries, value) ==
    LET payload[k \in 0..Len(entries)] ==
          IF k = 0 THEN <<>>
          ELSE payload[k - 1] \o to_bytes(value[entries[k].name], entries[k].bytes)
    IN  payload[Len(entries)]

decode_Unsigned(entries, data) ==        \* Mutation: the sign is lost
    [n \in {entries[i].name : i \in 1..Len(entries)} |->
        LET i == CHOOSE j \in 1..Len(entries) : entries[j].name = n
        IN  from_bytes(SubSeq(data, Offset(entries, i - 1) + 1, Offset(entries, i)), FALSE)]
decode(entries, data) ==
    [n \in {entries[i].name : i \in 1..Len(entries)} |->
        LET i == CHOOSE j \in 1..Len(entries) : entries[j].name = n
        IN  from_bytes(SubSeq(data, Offset(entries, i - 1) + 1, Offset(entries, i)),
                       entries[i].signed)]
-------------------------------------------------------------------------------
(* The requests of each method, in order; the enable loop continues in Accept. *)
Down(obj, val) == [cmd |-> "down", obj |-> obj, val |-> val, fresh |-> TRUE]
Up(obj) == [cmd |-> "up", obj |-> obj, val |-> 0, fresh |-> TRUE]
Nmt == [cmd |-> "nmt", obj |-> "node", val |-> 1, fresh |-> TRUE]

EntryObject == <<"map1", "map2", "map3">>
PdoObjects == {"cob", "count", "type", "map1", "map2", "map3"}

configure_pdo_mapping_LateDisable(m) ==     \* Mutation: the PDO stays on while it is remapped
    LET entries == Mapping[m] IN
    <<Down("count", 0)>> \o [i \in 1..Len(entries) |-> Down(EntryObject[i], entries[i])]
       \o <<Down("cob", "off"), Down("count", Len(entries)), Down("cob", "on")>>
configure_pdo_mapping(m) ==
    LET entries == Mapping[m] IN
    <<Down("cob", "off"), Down("count", 0)>>
       \o [i \in 1..Len(entries) |-> Down(EntryObject[i], entries[i])]
       \o <<Down("count", Len(entries))>>
       \o (IF m = "csp" THEN <<Down("type", 1)>> ELSE <<>>)
       \o <<Down("cob", "on")>>

Methods == {"enable_operation", "quick_stop", "disable_voltage", "statusword"} \cup Remaps
RequestsOf(m) ==
    CASE m = "enable_operation" -> <<Down("mode", 8), Nmt, Up("status")>>
      [] m = "quick_stop"       -> <<Down("control", 11)>>
      [] m = "disable_voltage"  -> <<Down("control", 0)>>
      [] m = "statusword"       -> <<Up("status")>>
      [] OTHER                  -> configure_pdo_mapping(m)

Aged(q) == [i \in 1..Len(q) |-> [q[i] EXCEPT !.fresh = FALSE]]
Under_way(q) == {q[i].obj : i \in 1..Len(q)}

(* The object whose answer decides what a method returns.                      *)
Decisive(m) ==
    CASE m \in {"enable_operation", "statusword"} -> {"status"}
      [] m \in {"quick_stop", "disable_voltage"}  -> {"control"}
      [] OTHER -> PdoObjects

(* History: clean if no older request or answer for such an object is under    *)
(* way; quiet if the drive starts an enable at rest and is then left alone.    *)
Call(m) ==
    /\ todo = <<>>
    /\ Len(toDrive) + Len(toHost) <= MaxQueue
    /\ m \in Remaps \/ (pdo.on /\ ~excused)     \* bound: a broken PDO is configured first
    /\ op' = m /\ todo' = RequestsOf(m) /\ result' = "none"
    /\ waiting' = FALSE /\ seen' = 0 /\ steps' = 0
    /\ toDrive' = Aged(toDrive) /\ toHost' = Aged(toHost)
    /\ clean' = (Decisive(m) \cap (Under_way(toDrive) \cup Under_way(toHost)) = {})
    /\ quiet' = /\ m = "enable_operation" /\ toDrive = <<>> /\ toHost = <<>> /\ ~drive.cause
                /\ drive.state \notin {"NOT_READY", "FAULT_REACTION_ACTIVE"}
                /\ ~(drive.state = "FAULT" /\ drive.bit7)
    /\ confirmed' = FALSE
    /\ UNCHANGED <<drive, pdo, excused>>

(* An exception ends the method.  What its history was does not matter then.   *)
Raise(how) ==
    /\ todo' = <<>> /\ waiting' = FALSE /\ result' = how /\ seen' = 0 /\ steps' = 0
    /\ clean' = FALSE /\ confirmed' = FALSE /\ quiet' = (quiet /\ how = "exhausted")

Send ==
    /\ todo # <<>> /\ ~waiting
    /\ toDrive' = Append(toDrive, Head(todo))
    /\ waiting' = (Head(todo).cmd # "nmt")
    /\ todo' = IF Head(todo).cmd = "nmt" THEN Tail(todo) ELSE todo
    /\ seen' = 0
    /\ UNCHANGED <<toHost, op, steps, result, drive, pdo, history>>

(* The socket refuses the frame, or recv raises, because the interface goes    *)
(* down for instance: possible, but nothing to count on.                       *)
SocketFails ==
    /\ todo # <<>>
    /\ waiting => toHost = <<>>
    /\ Raise("error")
    /\ UNCHANGED <<toDrive, toHost, op, drive, pdo, excused>>

(* On a silent bus recv comes back only from a socket with a timeout.          *)
RecvTimesOut == Timeout /\ waiting /\ SocketFails

(* _response skips frames of other nodes and of other objects.                 *)
Ours(f, r) == f.id = "sdo" /\ f.obj = r.obj

Skip_Uncounted ==        \* Mutation: frames of others are not counted
    /\ todo # <<>> /\ waiting /\ toHost # <<>>
    /\ ~Ours(Head(toHost), Head(todo))
    /\ toHost' = Tail(toHost)
    /\ UNCHANGED <<toDrive, op, todo, waiting, seen, result, steps, drive, pdo, history>>
Skip ==
    /\ todo # <<>> /\ waiting /\ toHost # <<>>
    /\ ~Ours(Head(toHost), Head(todo))
    /\ toHost' = Tail(toHost)
    /\ IF seen + 1 = MaxFrames THEN Raise("error")
       ELSE seen' = seen + 1 /\ UNCHANGED <<todo, waiting, result, steps, clean, quiet, confirmed>>
    /\ UNCHANGED <<toDrive, op, drive, pdo, excused>>

(* History: confirmed if the drive was in Operation Enabled when it answered,   *)
(* during this call; excused when an old answer was taken for a PDO request.   *)
Proceed(f, rest) ==
    /\ todo' = rest /\ waiting' = FALSE /\ seen' = 0
    /\ result' = IF rest = <<>> THEN "ok" ELSE "none"
    /\ confirmed' = (f.fresh /\ f.state = "OPERATION_ENABLED")
    /\ excused' = (excused \/ (f.obj \in PdoObjects /\ ~f.fresh))
    /\ UNCHANGED <<clean, quiet>>

(* The enable loop: read the statusword, return or write the next controlword, *)
(* max_steps times; what the last write did is not read back.                 *)
EnableLoop(f) ==
    CASE f.obj = "status" /\ decode_state(f.val) = "OPERATION_ENABLED" ->
            Proceed(f, <<>>) /\ steps' = 0
      [] f.obj = "status" /\ decode_state(f.val) # "OPERATION_ENABLED" ->
            Proceed(f, <<Down("control", next_controlword(f.val))>>) /\ UNCHANGED steps
      [] f.obj = "control" ->
            IF steps + 1 = MaxSteps THEN Raise("exhausted") /\ UNCHANGED excused
            ELSE Proceed(f, <<Up("status")>>) /\ steps' = steps + 1
      [] OTHER -> Proceed(f, Tail(todo)) /\ UNCHANGED steps

Accept ==
    /\ todo # <<>> /\ waiting /\ toHost # <<>>
    /\ LET f == Head(toHost) IN
       /\ Ours(f, Head(todo))
       /\ toHost' = Tail(toHost)
       /\ IF f.cmd = (IF Head(todo).cmd = "up" THEN "data" ELSE "ack")
          THEN /\ IF op = "enable_operation" THEN EnableLoop(f)
                  ELSE Proceed(f, Tail(todo)) /\ UNCHANGED steps
          ELSE Raise("error") /\ UNCHANGED excused
    /\ UNCHANGED <<toDrive, op, drive, pdo>>

HostStep == Send \/ RecvTimesOut \/ Skip \/ Accept
-------------------------------------------------------------------------------
(* The drive (external): the CiA 402 state machine, a PDO that takes any write  *)
(* and maps the controlword alone after power-up.                              *)
Code == [NOT_READY |-> 0, SWITCH_ON_DISABLED |-> 64, READY_TO_SWITCH_ON |-> 33,
         SWITCHED_ON |-> 35, OPERATION_ENABLED |-> 39, QUICK_STOP_ACTIVE |-> 7,
         FAULT_REACTION_ACTIVE |-> 15, FAULT |-> 8]
States == DOMAIN Code
FreeBit5 == {"NOT_READY", "SWITCH_ON_DISABLED", "FAULT_REACTION_ACTIVE", "FAULT"}

(* Voltage, warning and remote bits are free, and bit 5 where CiA 402 says so.  *)
StatusWords(s) == {Code[s], Code[s] + 16 + 128 + 512 + (IF s \in FreeBit5 THEN 32 ELSE 0)}

Controlled(d, cw) ==
    LET s == d.state
        to == CASE cw = 6 /\ s \in {"SWITCH_ON_DISABLED", "SWITCHED_ON", "OPERATION_ENABLED"}
                                                            -> "READY_TO_SWITCH_ON"
                [] cw = 7 /\ s \in {"READY_TO_SWITCH_ON", "OPERATION_ENABLED"} -> "SWITCHED_ON"
                [] cw = 15 /\ s \in {"SWITCHED_ON", "QUICK_STOP_ACTIVE"} -> "OPERATION_ENABLED"
                [] cw = 11 /\ s = "OPERATION_ENABLED" -> "QUICK_STOP_ACTIVE"
                [] cw \in {0, 11, 128} /\ s \in {"READY_TO_SWITCH_ON", "SWITCHED_ON"}
                                                            -> "SWITCH_ON_DISABLED"
                [] cw \in {0, 128} /\ s \in {"OPERATION_ENABLED", "QUICK_STOP_ACTIVE"}
                                                            -> "SWITCH_ON_DISABLED"
                [] cw = 128 /\ s = "FAULT" /\ ~d.bit7 /\ ~d.cause -> "SWITCH_ON_DISABLED"
                [] OTHER -> s
    IN  [d EXCEPT !.state = to, !.bit7 = (cw = 128)]

Remapped(p, r) ==
    CASE r.obj = "cob"   -> [p EXCEPT !.on = (r.val = "on")]
      [] r.obj = "count" -> [p EXCEPT !.count = r.val]
      [] r.obj = "type"  -> p
      [] OTHER -> [p EXCEPT !.entries =
                     [i \in 1..3 |-> IF EntryObject[i] = r.obj THEN r.val ELSE @[i]]]

SwitchesOff(r) == r.obj = "cob" /\ r.val = "off"

Frame(id, cmd, obj, val, fresh) ==
    [id |-> id, cmd |-> cmd, obj |-> obj, val |-> val, fresh |-> fresh,
     state |-> IF obj = "status" THEN drive.state ELSE "NOT_READY"]

Serve ==
    /\ toDrive # <<>>
    /\ LET r == Head(toDrive) IN
       \/ /\ r.cmd = "nmt"
          /\ drive' = [drive EXCEPT !.operational = TRUE]
          /\ UNCHANGED <<toHost, pdo, quiet, excused>>
       \/ /\ r.cmd = "up"
          /\ \E sw \in StatusWords(drive.state) :
               toHost' = Append(toHost, Frame("sdo", "data", r.obj, sw, r.fresh))
          /\ UNCHANGED <<drive, pdo, quiet, excused>>
       \/ /\ r.cmd = "down"
          /\ drive' = IF r.obj = "control" THEN Controlled(drive, r.val) ELSE drive
          /\ pdo' = IF r.obj \in PdoObjects THEN Remapped(pdo, r) ELSE pdo
          /\ excused' = (excused /\ ~(/\ r.fresh /\ SwitchesOff(r)
                                      /\ waiting /\ SwitchesOff(Head(todo))))
          /\ toHost' = Append(toHost, Frame("sdo", "ack", r.obj, 0, r.fresh))
          /\ UNCHANGED quiet
       \/ /\ r.cmd = "down"                                \* SDO abort, nothing done
          /\ toHost' = Append(toHost, Frame("sdo", "abort", r.obj, 0, r.fresh))
          /\ quiet' = FALSE
          /\ UNCHANGED <<drive, pdo, excused>>
    /\ toDrive' = Tail(toDrive)
    /\ UNCHANGED <<hostvars, clean, confirmed>>

(* What the drive does by itself.                                             *)
Disturb ==
    /\ \/ drive.state = "NOT_READY" /\ drive' = [drive EXCEPT !.state = "SWITCH_ON_DISABLED"]
       \/ /\ drive.state \notin {"FAULT_REACTION_ACTIVE", "FAULT"}
          /\ drive' = [drive EXCEPT !.state = "FAULT_REACTION_ACTIVE", !.cause = TRUE]
       \/ drive.state = "FAULT_REACTION_ACTIVE" /\ drive' = [drive EXCEPT !.state = "FAULT"]
       \/ drive.state = "QUICK_STOP_ACTIVE"
             /\ drive' = [drive EXCEPT !.state = "SWITCH_ON_DISABLED"]
       \/ drive.cause /\ drive' = [drive EXCEPT !.cause = FALSE]
    /\ quiet' = FALSE
    /\ UNCHANGED <<toDrive, toHost, hostvars, pdo, clean, confirmed, excused>>

PowerUp == [state |-> "NOT_READY", bit7 |-> FALSE, cause |-> FALSE, operational |-> FALSE]
Unmapped == Entry("unmapped", 0, FALSE)
DefaultPdo == [on |-> TRUE, count |-> 1, entries |-> <<CIA402_RPDO_CSP[1], Unmapped, Unmapped>>]

(* History: a configuration under way is excused, it goes on with a PDO that    *)
(* the reboot has switched on, until a request to switch it off is answered    *)
(* while it is waited for.                                                     *)
Reset ==
    /\ drive' = PowerUp /\ pdo' = DefaultPdo /\ toDrive' = <<>>
    /\ quiet' = FALSE /\ excused' = (todo # <<>> /\ op \in Remaps)
    /\ clean' = (clean /\ op \notin Remaps)
    /\ UNCHANGED <<toHost, hostvars, confirmed>>

(* Heartbeats, emergencies, PDOs and other nodes reach the same socket; what    *)
(* arrives while nobody listens would be skipped in the same way later.        *)
Traffic ==
    /\ waiting /\ Len(toHost) < MaxQueue
    /\ toHost' = Append(toHost, Frame("other", "data", "none", 0, FALSE))
    /\ UNCHANGED <<toDrive, hostvars, drive, pdo, history>>

CanInit ==
    /\ toDrive = <<>> /\ toHost = <<>>
    /\ op = "statusword" /\ todo = <<>> /\ waiting = FALSE /\ seen = 0 /\ steps = 0
    /\ result = "none"
    /\ drive = PowerUp /\ pdo = DefaultPdo
    /\ clean = FALSE /\ quiet = FALSE /\ confirmed = FALSE /\ excused = FALSE

CanNext ==
    \/ \E m \in Methods : Call(m)
    \/ HostStep \/ SocketFails \/ Serve \/ Disturb \/ Reset \/ Traffic
CanSpec == CanInit /\ [][CanNext]_canvars

(* A call takes its next step when it has one. Without a timeout it has none    *)
(* while it waits on a silent bus: recv blocks.                                *)
FairCanSpec == CanSpec /\ WF_canvars(HostStep)
-------------------------------------------------------------------------------
CanTypeOK ==
    /\ op \in Methods /\ waiting \in BOOLEAN
    /\ seen \in 0..MaxFrames /\ steps \in 0..MaxSteps
    /\ result \in {"none", "ok", "error", "exhausted"}
    /\ drive \in [state : States, bit7 : BOOLEAN, cause : BOOLEAN, operational : BOOLEAN]
    /\ pdo.on \in BOOLEAN /\ pdo.count \in 0..3 /\ DOMAIN pdo.entries = 1..3
    /\ {clean, quiet, confirmed, excused} \subseteq BOOLEAN
    /\ todo = <<>> => ~waiting

(* enable_operation returns only when the drive has answered, during this call, *)
(* from Operation Enabled, unless an older statusword answer was under way;    *)
(* a drive left alone meanwhile has then also taken the NMT start.             *)
EnableIsReal ==
    op = "enable_operation" /\ result = "ok" /\ clean =>
        /\ confirmed
        /\ quiet => drive.operational

(* quick_stop and disable_voltage return only after the drive has left          *)
(* Operation Enabled, unless an older controlword was still under way.         *)
StopIsReal ==
    op \in {"quick_stop", "disable_voltage"} /\ result = "ok" /\ clean =>
        drive.state # "OPERATION_ENABLED"

(* What a method of CiA402Drive reports is what the drive did.                  *)
ReportIsReal == CanTypeOK /\ EnableIsReal /\ StopIsReal

(* A drive at rest, with no fault cause left, is enabled from every state: the  *)
(* loop runs out of steps only when something disturbed the drive, or when the *)
(* drive was in Fault with bit 7 of the controlword still set from an earlier  *)
(* refused reset, because next_controlword never makes a second rising edge.   *)
EnableFromAnywhere == result = "exhausted" => ~quiet

Whole(p, entries) == p.count = Len(entries) /\ \A i \in 1..Len(entries) : p.entries[i] = entries[i]

(* configure_pdo_mapping: a PDO that is switched on has the mapping the drive   *)
(* came up with or one of the mappings as a whole, never a mixture, at         *)
(* whatever request an earlier configuration stopped.  Excused is a            *)
(* configuration during which the drive rebooted, or one that took the late    *)
(* answer of an older one for its own, until one has the PDO switched off.     *)
PdoNeverTorn ==
    pdo.on /\ ~excused => \/ pdo = DefaultPdo
                         \/ \E m \in DOMAIN Mapping : Whole(pdo, Mapping[m])

Samples == {[controlword |-> 15, mode |-> 8, target_position |-> 0, target_torque |-> 0],
            [controlword |-> 65535, mode |-> -1, target_position |-> -2, target_torque |-> -32768],
            [controlword |-> 256, mode |-> -128, target_position |-> 2147483647,
             target_torque |-> 32767]}

(* After a configuration that returned, the drive reads from its PDO what       *)
(* encode put into it, signs included, unless answers of an older configuration *)
(* were under way.                                                             *)
PdoDecodesAsConfigured ==
    op \in DOMAIN Mapping /\ result = "ok" /\ ~excused /\ clean =>
        /\ pdo.on
        /\ \A v \in Samples :
             decode(SubSeq(pdo.entries, 1, pdo.count), encode(Mapping[op], v))
                = [n \in {Mapping[op][i].name : i \in 1..3} |-> v[n]]

(* On a socket opened with a timeout every method comes back, also from a       *)
(* silent drive and on a busy bus. On one opened without, the default, a drive  *)
(* that does not answer blocks the call for ever.                              *)
CanMethodReturns == Timeout => (todo # <<>> ~> todo = <<>>)
===============================================================================
