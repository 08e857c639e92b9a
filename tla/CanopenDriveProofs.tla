------------------------- MODULE CanopenDriveProofs -------------------------
(***************************************************************************)
(* The CANopen master against one drive, for every number of enable steps,  *)
(* of frames read for an answer and of frames left under way: what the      *)
(* methods report is what the drive did, a resting drive is enabled, and a   *)
(* PDO is never switched on half mapped.                                    *)
(***************************************************************************)
EXTENDS CanopenDrive, TLAPS

(* The frames of the bus.  A download of a PDO object carries what that object *)
(* holds; only the statusword is uploaded.                                     *)
MapObjects == {"map1", "map2", "map3"}
Objects == PdoObjects \cup {"mode", "control", "status", "node", "none"}
Mapped == {CIA402_RPDO_CSP[1], CIA402_RPDO_CSP[2], CIA402_RPDO_CSP[3], CIA402_RPDO_CST[3]}
Values == Int \cup {"on", "off"} \cup Mapped
Requests ==
    {r \in [cmd : {"down", "up", "nmt"}, obj : Objects, val : Values, fresh : BOOLEAN] :
        /\ r.cmd = "up" <=> r.obj = "status"
        /\ r.cmd = "nmt" <=> r.obj = "node"
        /\ r.obj # "none"
        /\ r.obj = "control" => r.val \in {0, 6, 7, 11, 15, 128}
        /\ r.obj = "cob" => r.val \in {"on", "off"}
        /\ r.obj = "count" => r.val \in 0..3
        /\ r.obj \in MapObjects => r.val \in Mapped}
Answers == [id : {"sdo", "other"}, cmd : {"data", "ack", "abort"}, obj : Objects,
            val : Int, fresh : BOOLEAN, state : States]
Entries == Mapped \cup {Unmapped}
Drives == [state : States, bit7 : BOOLEAN, cause : BOOLEAN, operational : BOOLEAN]
Pdos == [on : BOOLEAN, count : 0..3, entries : [1..3 -> Entries]]

QueueTypes ==
    toDrive \in Seq(Requests) /\ toHost \in Seq(Answers) /\ todo \in Seq(Requests)
HostTypes ==
    /\ op \in Methods /\ waiting \in BOOLEAN /\ (todo = <<>> => ~waiting)
    /\ result \in {"none", "ok", "error", "exhausted"} /\ (todo # <<>> => result = "none")
BoundTypes ==
    /\ seen \in 0..MaxFrames /\ (todo # <<>> => seen < MaxFrames)
    /\ steps \in 0..MaxSteps /\ (todo # <<>> => steps < MaxSteps)
DriveTypes == drive \in Drives /\ pdo \in Pdos
HistoryTypes ==
    clean \in BOOLEAN /\ quiet \in BOOLEAN /\ confirmed \in BOOLEAN /\ excused \in BOOLEAN
CanTypes == QueueTypes /\ HostTypes /\ BoundTypes /\ DriveTypes /\ HistoryTypes

(* A request is answered in bus order: a fresh answer comes when no older       *)
(* request is left.  A statusword answer says what the drive was then.          *)
InOrder ==
    /\ \A i, j \in 1..Len(toDrive) : i < j /\ toDrive[i].fresh => toDrive[j].fresh
    /\ \A i \in 1..Len(toHost), j \in 1..Len(toDrive) : toHost[i].fresh => toDrive[j].fresh
Truthful(f) ==
    /\ f.id = "other" => f.obj = "none" /\ ~f.fresh
    /\ f.id = "sdo" /\ f.cmd = "data" => f.obj = "status" /\ f.val \in StatusWords(f.state)
    /\ f.obj = "status" => f.cmd # "ack"
AnswersTruthful == \A i \in 1..Len(toHost) : Truthful(toHost[i])

(* What a method has left to do.                                                *)
Plan(m) == configure_pdo_mapping(m)
Done == Len(Plan(op)) - Len(todo)
EnableTodo ==
    \/ todo = <<Down("mode", 8), Nmt, Up("status")>>
    \/ todo = <<Nmt, Up("status")>>
    \/ todo = <<Up("status")>>
    \/ \E cw \in {0, 6, 7, 15, 128} : todo = <<Down("control", cw)>>
TodoByMethod ==
    todo # <<>> =>
        /\ waiting => todo[1].cmd # "nmt"
        /\ op = "enable_operation" => EnableTodo
        /\ op = "quick_stop" => todo = <<Down("control", 11)>>
        /\ op = "disable_voltage" => todo = <<Down("control", 0)>>
        /\ op = "statusword" => todo = <<Up("status")>>
        /\ op \in Remaps => /\ Done >= 0
                            /\ \A i \in 1..Len(todo) : todo[i] = Plan(op)[Done + i]

(* enable_operation: an answer of this call is all that it can take.            *)
EnableHonest ==
    op = "enable_operation" /\ clean =>
        /\ \A i \in 1..Len(toDrive) : toDrive[i].obj = "status" => toDrive[i].fresh
        /\ \A i \in 1..Len(toHost) : toHost[i].obj = "status" => toHost[i].fresh
        /\ result = "ok" => confirmed

(* quick_stop, disable_voltage: no other controlword is under way, and when     *)
(* this one is answered the drive has left Operation Enabled.                   *)
StopHonest ==
    op \in {"quick_stop", "disable_voltage"} /\ clean =>
        /\ \A i \in 1..Len(toDrive) : toDrive[i].obj = "control" => toDrive[i].val \in {0, 11}
        /\ \A i \in 1..Len(toHost) :
              toHost[i].obj = "control" /\ toHost[i].cmd = "ack" => drive.state # "OPERATION_ENABLED"
        /\ result = "ok" => drive.state # "OPERATION_ENABLED"

(* A quiet enable: what is under way is the NMT start and the request waited    *)
(* for, or its answer; the turns of the loop done are at most the states the    *)
(* drive has come up through.                                                   *)
Rank == [s \in States |->
            CASE s = "SWITCH_ON_DISABLED" -> 1
              [] s = "READY_TO_SWITCH_ON" -> 2
              [] s \in {"SWITCHED_ON", "QUICK_STOP_ACTIVE"} -> 3
              [] s = "OPERATION_ENABLED" -> 4
              [] OTHER -> 0]
Want(s) ==
    CASE s = "FAULT" -> 128
      [] s = "SWITCH_ON_DISABLED" -> 6
      [] s = "READY_TO_SWITCH_ON" -> 7
      [] s \in {"SWITCHED_ON", "OPERATION_ENABLED", "QUICK_STOP_ACTIVE"} -> 15
      [] OTHER -> 0
QuietBus ==
    /\ \A i \in 1..Len(toDrive) :
          toDrive[i].cmd # "nmt" => waiting /\ i = Len(toDrive) /\ toDrive[i] = todo[1]
    /\ \A i \in 1..Len(toHost) : toHost[i].id = "sdo" =>
          /\ waiting /\ toHost[i].obj = todo[1].obj
          /\ \A j \in 1..Len(toDrive) : toDrive[j].cmd = "nmt"
          /\ \A j \in 1..Len(toHost) : toHost[j].id = "sdo" => j = i
QuietDrive ==
    /\ drive.state \notin {"NOT_READY", "FAULT_REACTION_ACTIVE"} /\ ~drive.cause
    /\ drive.state = "FAULT" => ~drive.bit7
    /\ steps <= Rank[drive.state]
    /\ todo[1].obj \in {"mode", "node"} => steps = 0
QuietSteps ==
    /\ todo[1].obj \in {"status", "control"} =>
          drive.operational \/ \E i \in 1..Len(toDrive) : toDrive[i].cmd = "nmt"
    /\ \A i \in 1..Len(toHost) : toHost[i].id = "sdo" /\ todo[1].obj \in {"status", "control"} =>
          /\ drive.operational
          /\ todo[1].obj = "status" /\ toHost[i].cmd = "data" => toHost[i].state = drive.state
          /\ todo[1].obj = "control" => steps + 1 <= Rank[drive.state]
    /\ todo[1].obj = "control" /\ (\A i \in 1..Len(toHost) : toHost[i].id = "other") =>
          todo[1].val = Want(drive.state) /\ drive.state # "OPERATION_ENABLED"
QuietEnable ==
    quiet =>
        /\ op = "enable_operation"
        /\ todo # <<>> => QuietBus /\ QuietDrive /\ QuietSteps
        /\ result = "ok" => drive.operational
        /\ result = "exhausted" => MaxSteps <= 4

(* configure_pdo_mapping: the request under way and its answer are the only     *)
(* ones of this call, as long as no old answer was taken.                       *)
InStep ==
    op \in Remaps /\ todo # <<>> /\ (~excused \/ Done = 0) =>
        /\ \A i \in 1..Len(toDrive) : toDrive[i].fresh =>
              waiting /\ i = Len(toDrive) /\ toDrive[i] = todo[1]
        /\ \A i \in 1..Len(toHost) : toHost[i].fresh =>
              /\ waiting /\ toHost[i].obj = todo[1].obj
              /\ \A j \in 1..Len(toDrive) : ~toDrive[j].fresh
              /\ \A j \in 1..Len(toHost) : toHost[j].fresh => j = i

(* What the first n requests of mapping m have made of the drive's PDO.         *)
Reached(p, m, n) ==
    /\ 1 <= n /\ n < Len(Plan(m)) - 1 => ~p.on
    /\ \A i \in 1..3 : i + 2 <= n => p.entries[i] = Mapping[m][i]
    /\ n >= 6 => p.count = 3
    /\ n = Len(Plan(m)) => p.on
Progress ==
    op \in Remaps /\ todo # <<>> /\ ~excused =>
        /\ Done >= 1 => \A i \in 1..Len(toDrive) : toDrive[i].obj \in PdoObjects => toDrive[i].fresh
        /\ Reached(pdo, op, Done)
        /\ \A i \in 1..Len(toHost) :
              toHost[i].fresh /\ toHost[i].cmd = "ack" => Reached(pdo, op, Done + 1)

(* Requests that an abandoned configuration left behind: one that the PDO is    *)
(* ready for, and then only requests to switch it off.                          *)
Ready(r) ==
    /\ r.obj = "cob" /\ r.val = "on" => \E m \in Remaps : Whole(pdo, Mapping[m])
    /\ r.obj \in PdoObjects \ {"cob"} => ~pdo.on
Leftovers ==
    ~excused =>
        /\ \A i, j \in 1..Len(toDrive) :
              i < j /\ toDrive[i].obj \in PdoObjects /\ toDrive[j].obj \in PdoObjects
                 => SwitchesOff(toDrive[j])
        /\ \A i \in 1..Len(toDrive) : Ready(toDrive[i])

(* A configuration that returned has left its mapping in the drive, on.         *)
MappingInForce ==
    op \in Remaps /\ result = "ok" /\ ~excused /\ clean =>
        pdo.on /\ Whole(pdo, Mapping[op]) /\ toDrive = <<>>

CanInv ==
    /\ CanTypes /\ InOrder /\ AnswersTruthful /\ TodoByMethod
    /\ EnableHonest /\ StopHonest /\ QuietEnable
    /\ InStep /\ Progress /\ Leftovers /\ MappingInForce /\ PdoNeverTorn
-------------------------------------------------------------------------------
(* Sequences, one element at a time.                                            *)
LEMMA QueueAppend ==
    ASSUME NEW S, NEW q \in Seq(S), NEW e \in S
    PROVE  /\ Append(q, e) \in Seq(S) /\ Len(Append(q, e)) = Len(q) + 1 /\ Append(q, e) # <<>>
           /\ \A i \in 1..Len(q) : Append(q, e)[i] = q[i]
           /\ Append(q, e)[Len(q) + 1] = e
OBVIOUS

LEMMA QueueTail ==
    ASSUME NEW S, NEW q \in Seq(S), q # <<>>
    PROVE  /\ Head(q) = q[1] /\ q[1] \in S /\ Len(q) \in Nat \ {0}
           /\ Tail(q) \in Seq(S) /\ Len(Tail(q)) = Len(q) - 1
           /\ \A i \in 1..(Len(q) - 1) : Tail(q)[i] = q[i + 1] /\ i + 1 \in 1..Len(q)
OBVIOUS

Joined(S, s, t, j) ==
    /\ j \in Seq(S) /\ Len(j) = Len(s) + Len(t)
    /\ \A i \in 1..Len(s) : j[i] = s[i]
    /\ \A i \in 1..Len(t) : j[Len(s) + i] = t[i]
LEMMA QueueJoin ==
    ASSUME NEW S, NEW s \in Seq(S), NEW t \in Seq(S)
    PROVE  Joined(S, s, t, s \o t)
BY DEF Joined

LEMMA QueueAt ==
    ASSUME NEW S, NEW q \in Seq(S)
    PROVE  Len(q) \in Nat /\ \A i \in 1..Len(q) : q[i] \in S
OBVIOUS

(* The constants.                                                               *)
LEMMA CanFacts ==
    /\ MaxSteps \in Nat \ {0} /\ MaxFrames \in Nat \ {0} /\ MaxQueue \in Nat \ {0}
    /\ Remaps \subseteq {"csp", "cst"}
BY CanAssumption

LEMMA EntryFacts ==
    /\ CIA402_RPDO_CSP \in Seq(Mapped) /\ Len(CIA402_RPDO_CSP) = 3
    /\ CIA402_RPDO_CST \in Seq(Mapped) /\ Len(CIA402_RPDO_CST) = 3
    /\ Mapping["csp"] = CIA402_RPDO_CSP /\ Mapping["cst"] = CIA402_RPDO_CST
    /\ DOMAIN Mapping = {"csp", "cst"}
    /\ \A m \in {"csp", "cst"} : /\ Len(Mapping[m]) = 3 /\ Mapping[m] \in Seq(Mapped)
                                 /\ \A i \in 1..3 : Mapping[m][i] \in Mapped
<1>1. CIA402_RPDO_CST[1] = CIA402_RPDO_CSP[1] /\ CIA402_RPDO_CST[2] = CIA402_RPDO_CSP[2]
  BY DEF CIA402_RPDO_CSP, CIA402_RPDO_CST
<1>2. Len(CIA402_RPDO_CSP) = 3 /\ Len(CIA402_RPDO_CST) = 3
  BY DEF CIA402_RPDO_CSP, CIA402_RPDO_CST
<1>3. CIA402_RPDO_CSP[1] \in Mapped /\ CIA402_RPDO_CSP[2] \in Mapped
      /\ CIA402_RPDO_CSP[3] \in Mapped /\ CIA402_RPDO_CST[3] \in Mapped
  BY DEF Mapped
<1>4. ASSUME NEW S, NEW a \in S, NEW b \in S, NEW c \in S
      PROVE  <<a, b, c>> \in Seq(S)
  OBVIOUS
<1>5. CIA402_RPDO_CSP \in Seq(Mapped)
  <2>1. CIA402_RPDO_CSP = <<CIA402_RPDO_CSP[1], CIA402_RPDO_CSP[2], CIA402_RPDO_CSP[3]>>
    BY DEF CIA402_RPDO_CSP
  <2> QED  BY <2>1, <1>3, <1>4, Zenon
<1>6. CIA402_RPDO_CST \in Seq(Mapped)
  <2>1. CIA402_RPDO_CST = <<CIA402_RPDO_CST[1], CIA402_RPDO_CST[2], CIA402_RPDO_CST[3]>>
    BY DEF CIA402_RPDO_CST
  <2>2. CIA402_RPDO_CST[1] \in Mapped /\ CIA402_RPDO_CST[2] \in Mapped
    BY <1>1, <1>3
  <2> QED  BY <2>1, <2>2, <1>3, <1>4, Zenon
<1>7. /\ Mapping["csp"] = CIA402_RPDO_CSP /\ Mapping["cst"] = CIA402_RPDO_CST
      /\ DOMAIN Mapping = {"csp", "cst"}
  BY DEF Mapping
<1>8. ASSUME NEW m \in {"csp", "cst"}
      PROVE  /\ Len(Mapping[m]) = 3 /\ Mapping[m] \in Seq(Mapped)
             /\ \A i \in 1..3 : Mapping[m][i] \in Mapped
  BY <1>2, <1>5, <1>6, <1>7
<1> QED
  BY <1>2, <1>5, <1>6, <1>7, <1>8

JoinedFive(a, b, c, t, o, w) ==
    /\ Len(w) = 7 + Len(t) /\ w[1] = a[1] /\ w[2] = a[2]
    /\ \A i \in 1..3 : w[2 + i] = b[i]
    /\ w[6] = c[1] /\ (Len(t) = 1 => w[7] = t[1]) /\ w[Len(w)] = o[1]
LEMMA QueueJoinFive ==
    ASSUME NEW S, NEW a \in Seq(S), NEW b \in Seq(S), NEW c \in Seq(S), NEW t \in Seq(S),
           NEW o \in Seq(S), Len(a) = 2, Len(b) = 3, Len(c) = 1, Len(t) \in {0, 1}, Len(o) = 1
    PROVE  JoinedFive(a, b, c, t, o, (((a \o b) \o c) \o t) \o o)
<1>0. PICK w : w = (((a \o b) \o c) \o t) \o o
  OBVIOUS
<1>1. PICK ab : ab = a \o b
  OBVIOUS
<1>2. PICK abc : abc = ab \o c
  OBVIOUS
<1>3. PICK abct : abct = abc \o t
  OBVIOUS
<1>4. /\ ab \in Seq(S) /\ Len(ab) = 5 /\ ab[1] = a[1] /\ ab[2] = a[2]
      /\ \A i \in 1..3 : ab[2 + i] = b[i]
  <2>1. Joined(S, a, b, ab)
    BY <1>1, QueueJoin, Zenon
  <2> QED  BY <2>1 DEF Joined
<1>5. abc \in Seq(S) /\ Len(abc) = 6 /\ (\A i \in 1..5 : abc[i] = ab[i]) /\ abc[6] = c[1]
  <2>1. Joined(S, ab, c, abc)
    BY <1>2, <1>4, QueueJoin, Zenon
  <2> QED  BY <2>1, <1>4 DEF Joined
<1>6. /\ abct \in Seq(S) /\ Len(abct) = 6 + Len(t) /\ \A i \in 1..6 : abct[i] = abc[i]
      /\ Len(t) = 1 => abct[7] = t[1]
  <2>1. Joined(S, abc, t, abct)
    BY <1>3, <1>5, QueueJoin, Zenon
  <2> QED  BY <2>1, <1>5 DEF Joined
<1>7. w = abct \o o
  BY <1>0, <1>1, <1>2, <1>3
<1>8. /\ Len(w) = 7 + Len(t) /\ \A i \in 1..(6 + Len(t)) : w[i] = abct[i]
      /\ w[7 + Len(t)] = o[1]
  <2>1. Joined(S, abct, o, w)
    BY <1>6, <1>7, QueueJoin, Zenon
  <2> QED  BY <2>1, <1>6 DEF Joined
<1>9. JoinedFive(a, b, c, t, o, w)
  <2>1. /\ Len(t) \in Nat /\ 1 \in 1..(6 + Len(t)) /\ 2 \in 1..(6 + Len(t))
        /\ 6 \in 1..(6 + Len(t)) /\ (Len(t) = 1 => 7 \in 1..(6 + Len(t)))
        /\ \A i \in 1..3 : 2 + i \in 1..(6 + Len(t)) /\ 2 + i \in 1..6 /\ 2 + i \in 1..5
    <3>1. PICK n \in Nat : n = Len(t)
      OBVIOUS
    <3>2. /\ 1 \in 1..(6 + n) /\ 2 \in 1..(6 + n) /\ 6 \in 1..(6 + n) /\ (n = 1 => 7 \in 1..(6 + n))
          /\ \A i \in 1..3 : 2 + i \in 1..(6 + n) /\ 2 + i \in 1..6 /\ 2 + i \in 1..5
      OBVIOUS
    <3> QED  BY <3>1, <3>2
  <2>2. w[1] = a[1] /\ w[2] = a[2] /\ \A i \in 1..3 : w[2 + i] = b[i]
    BY <1>4, <1>5, <1>6, <1>8, <2>1
  <2>3. w[6] = c[1] /\ (Len(t) = 1 => w[7] = t[1])
    BY <1>5, <1>6, <1>8, <2>1
  <2> QED  BY <1>8, <2>2, <2>3 DEF JoinedFive
<1> QED
  BY <1>0, <1>9, Zenon

(* The requests of a configuration, one by one.                                 *)
LEMMA PlanFacts ==
    ASSUME NEW m \in {"csp", "cst"}
    PROVE  /\ Len(Plan(m)) = IF m = "csp" THEN 8 ELSE 7
           /\ Plan(m)[1] = Down("cob", "off") /\ Plan(m)[2] = Down("count", 0)
           /\ \A i \in 1..3 : Plan(m)[2 + i] = Down(EntryObject[i], Mapping[m][i])
           /\ Plan(m)[6] = Down("count", 3)
           /\ m = "csp" => Plan(m)[7] = Down("type", 1)
           /\ Plan(m)[Len(Plan(m))] = Down("cob", "on")
<1>1. PICK S : /\ Down("cob", "off") \in S /\ Down("count", 0) \in S /\ Down("count", 3) \in S
               /\ Down("type", 1) \in S /\ Down("cob", "on") \in S
               /\ \A i \in 1..3 : Down(EntryObject[i], Mapping[m][i]) \in S
  <2> DEFINE X == {Down("cob", "off"), Down("count", 0), Down("count", 3), Down("type", 1),
                   Down("cob", "on")} \cup {Down(EntryObject[i], Mapping[m][i]) : i \in 1..3}
  <2>1. /\ Down("cob", "off") \in X /\ Down("count", 0) \in X /\ Down("count", 3) \in X
        /\ Down("type", 1) \in X /\ Down("cob", "on") \in X
        /\ \A i \in 1..3 : Down(EntryObject[i], Mapping[m][i]) \in X
    BY Zenon
  <2> QED  BY <2>1, Zenon
<1>a. ASSUME NEW x \in S, NEW y \in S PROVE <<x>> \in Seq(S) /\ <<x, y>> \in Seq(S)
  OBVIOUS
<1>2. PICK a \in Seq(S) : a = <<Down("cob", "off"), Down("count", 0)>>
  BY <1>1, <1>a, Zenon
<1>3. PICK b \in Seq(S) : b = [i \in 1..3 |-> Down(EntryObject[i], Mapping[m][i])]
  <2>1. [i \in 1..3 |-> Down(EntryObject[i], Mapping[m][i])] \in Seq(S)
    BY <1>1
  <2> QED  BY <2>1, Zenon
<1>4. PICK c \in Seq(S) : c = <<Down("count", 3)>>
  BY <1>1, <1>a, Zenon
<1>5. PICK t \in Seq(S) : t = IF m = "csp" THEN <<Down("type", 1)>> ELSE <<>>
  <2>1. <<>> \in Seq(S)
    OBVIOUS
  <2> QED  BY <1>1, <1>a, <2>1, Zenon
<1>6. PICK o \in Seq(S) : o = <<Down("cob", "on")>>
  BY <1>1, <1>a, Zenon
<1>7. /\ Len(a) = 2 /\ Len(b) = 3 /\ Len(c) = 1 /\ Len(o) = 1
      /\ Len(t) = (IF m = "csp" THEN 1 ELSE 0)
  BY <1>2, <1>3, <1>4, <1>5, <1>6
<1>8. Plan(m) = (((a \o b) \o c) \o t) \o o
  <2>1. Len(Mapping[m]) = 3
    BY EntryFacts
  <2> QED
    BY <2>1, <1>2, <1>3, <1>4, <1>5, <1>6 DEF Plan, configure_pdo_mapping
<1>9. /\ Len(Plan(m)) = 7 + Len(t) /\ Plan(m)[1] = a[1] /\ Plan(m)[2] = a[2]
      /\ \A i \in 1..3 : Plan(m)[2 + i] = b[i]
      /\ Plan(m)[6] = c[1] /\ (Len(t) = 1 => Plan(m)[7] = t[1]) /\ Plan(m)[Len(Plan(m))] = o[1]
  <2>1. Len(t) \in {0, 1}
    BY <1>7
  <2>2. JoinedFive(a, b, c, t, o, Plan(m))
    BY <2>1, <1>7, <1>8, QueueJoinFive, Zenon
  <2> QED  BY <2>2 DEF JoinedFive
<1>10. /\ a[1] = Down("cob", "off") /\ a[2] = Down("count", 0) /\ c[1] = Down("count", 3)
       /\ m = "csp" => t[1] = Down("type", 1)
       /\ o[1] = Down("cob", "on")
  BY <1>2, <1>4, <1>5, <1>6
<1>11. \A i \in 1..3 : b[i] = Down(EntryObject[i], Mapping[m][i])
  BY <1>3
<1> HIDE DEF Plan
<1> QED
  BY <1>7, <1>9, <1>10, <1>11
-------------------------------------------------------------------------------
(* Frames.                                                                      *)
LEMMA StrengthOfRequests ==
    ASSUME NEW r \in Requests
    PROVE  /\ r.cmd \in {"down", "up", "nmt"} /\ r.obj \in Objects /\ r.fresh \in BOOLEAN
           /\ r.obj # "none"
           /\ r.cmd = "up" <=> r.obj = "status"
           /\ r.cmd = "nmt" <=> r.obj = "node"
           /\ r.obj = "control" => r.val \in {0, 6, 7, 11, 15, 128}
           /\ r.obj = "cob" => r.val \in {"on", "off"}
           /\ r.obj = "count" => r.val \in 0..3
           /\ r.obj \in MapObjects => r.val \in Mapped
BY DEF Requests

LEMMA RequestsMade ==
    /\ Down("mode", 8) \in Requests /\ Nmt \in Requests /\ Up("status") \in Requests
    /\ \A cw \in {0, 6, 7, 11, 15, 128} : Down("control", cw) \in Requests
    /\ Down("cob", "off") \in Requests /\ Down("cob", "on") \in Requests
    /\ Down("type", 1) \in Requests
    /\ \A n \in 0..3 : Down("count", n) \in Requests
    /\ \A i \in 1..3, e \in Mapped : Down(EntryObject[i], e) \in Requests
<1> DEFINE Frames == [cmd : {"down", "up", "nmt"}, obj : Objects, val : Values, fresh : BOOLEAN]
<1>1. ASSUME NEW o \in Objects \ {"status", "node", "none"}, NEW v \in Values,
             o = "control" => v \in {0, 6, 7, 11, 15, 128}, o = "cob" => v \in {"on", "off"},
             o = "count" => v \in 0..3, o \in MapObjects => v \in Mapped
      PROVE  Down(o, v) \in Requests
  BY <1>1 DEF Down, Requests
<1>2. Nmt \in Requests /\ Up("status") \in Requests
  BY DEF Nmt, Up, Requests, Objects, PdoObjects, Values, MapObjects
<1>3. \A i \in 1..3 : EntryObject[i] \in MapObjects
  BY DEF EntryObject, MapObjects
<1>4. \A o \in MapObjects : o \in Objects \ {"status", "node", "none"} /\ o \notin {"control", "cob", "count"}
  BY DEF Objects, PdoObjects, MapObjects
<1>5. \A e \in Mapped : e \in Values
  BY DEF Values
<1>6. \A v \in Int \cup {"on", "off"} : v \in Values
  BY DEF Values
<1>7. \A i \in 1..3, e \in Mapped : Down(EntryObject[i], e) \in Requests
  BY <1>1, <1>3, <1>4, <1>5
<1>8. {"mode", "control", "cob", "count", "type"} \subseteq Objects \ ({"status", "node", "none"} \cup MapObjects)
  BY DEF Objects, PdoObjects, MapObjects
<1>9. /\ Down("mode", 8) \in Requests /\ Down("type", 1) \in Requests
      /\ \A n \in 0..3 : Down("count", n) \in Requests
  BY <1>1, <1>6, <1>8
<1>10. \A cw \in {0, 6, 7, 11, 15, 128} : Down("control", cw) \in Requests
  BY <1>1, <1>6, <1>8
<1>11. Down("cob", "off") \in Requests /\ Down("cob", "on") \in Requests
  BY <1>1, <1>6, <1>8
<1> QED
  BY <1>2, <1>7, <1>9, <1>10, <1>11

LEMMA PlansAreRequests ==
    ASSUME NEW m \in {"csp", "cst"}
    PROVE  Plan(m) \in Seq(Requests)
<1>1. ASSUME NEW a \in Seq(Requests), NEW b \in Seq(Requests) PROVE a \o b \in Seq(Requests)
  OBVIOUS
<1>2. ASSUME NEW x \in Requests, NEW y \in Requests
      PROVE  <<x>> \in Seq(Requests) /\ <<x, y>> \in Seq(Requests) /\ <<>> \in Seq(Requests)
  OBVIOUS
<1>3. Len(Mapping[m]) = 3 /\ \A i \in 1..3 : Mapping[m][i] \in Mapped
  BY EntryFacts
<1>4. \A i \in 1..3 : Down(EntryObject[i], Mapping[m][i]) \in Requests
  BY <1>3, RequestsMade
<1>5. [i \in 1..3 |-> Down(EntryObject[i], Mapping[m][i])] \in Seq(Requests)
  BY <1>4
<1>6. /\ <<Down("cob", "off"), Down("count", 0)>> \in Seq(Requests)
      /\ <<Down("count", 3)>> \in Seq(Requests) /\ <<Down("cob", "on")>> \in Seq(Requests)
      /\ <<Down("type", 1)>> \in Seq(Requests) /\ <<>> \in Seq(Requests)
  <2>1. 0 \in 0..3 /\ 3 \in 0..3
    OBVIOUS
  <2> QED  BY <2>1, <1>2, RequestsMade, Zenon
<1>7. (IF m = "csp" THEN <<Down("type", 1)>> ELSE <<>>) \in Seq(Requests)
  BY <1>6, Zenon
<1> QED
  BY <1>1, <1>3, <1>5, <1>6, <1>7, Zenon DEF Plan, configure_pdo_mapping

LEMMA AgedRequests ==
    ASSUME NEW q \in Seq(Requests)
    PROVE  /\ Aged(q) \in Seq(Requests) /\ Len(Aged(q)) = Len(q)
           /\ q = <<>> => Aged(q) = <<>>
           /\ \A i \in 1..Len(q) : /\ Aged(q)[i].cmd = q[i].cmd /\ Aged(q)[i].obj = q[i].obj
                                   /\ Aged(q)[i].val = q[i].val /\ Aged(q)[i].fresh = FALSE
<1>1. ASSUME NEW r \in Requests
      PROVE  /\ [r EXCEPT !.fresh = FALSE] \in Requests
             /\ [r EXCEPT !.fresh = FALSE].cmd = r.cmd /\ [r EXCEPT !.fresh = FALSE].obj = r.obj
             /\ [r EXCEPT !.fresh = FALSE].val = r.val /\ [r EXCEPT !.fresh = FALSE].fresh = FALSE
  BY DEF Requests
<1>2. \A i \in 1..Len(q) : q[i] \in Requests
  OBVIOUS
<1>3. \A i \in 1..Len(q) : Aged(q)[i] = [q[i] EXCEPT !.fresh = FALSE]
  BY DEF Aged
<1>4. Aged(q) \in Seq(Requests) /\ Len(Aged(q)) = Len(q)
  <2>1. \A i \in 1..Len(q) : [q[i] EXCEPT !.fresh = FALSE] \in Requests
    BY <1>1, <1>2
  <2>2. Len(q) \in Nat
    OBVIOUS
  <2> QED  BY <2>1, <2>2 DEF Aged
<1>5. q = <<>> => Aged(q) = <<>>
  BY <1>4
<1>6. ASSUME NEW i \in 1..Len(q)
      PROVE  /\ Aged(q)[i].cmd = q[i].cmd /\ Aged(q)[i].obj = q[i].obj
             /\ Aged(q)[i].val = q[i].val /\ Aged(q)[i].fresh = FALSE
  <2>1. q[i] \in Requests /\ Aged(q)[i] = [q[i] EXCEPT !.fresh = FALSE]
    BY <1>2, <1>3
  <2> QED  BY <1>1, <2>1, Zenon
<1> QED
  BY <1>4, <1>5, <1>6

LEMMA AgedAnswers ==
    ASSUME NEW q \in Seq(Answers)
    PROVE  /\ Aged(q) \in Seq(Answers) /\ Len(Aged(q)) = Len(q)
           /\ q = <<>> => Aged(q) = <<>>
           /\ \A i \in 1..Len(q) : /\ Aged(q)[i].id = q[i].id /\ Aged(q)[i].cmd = q[i].cmd
                                   /\ Aged(q)[i].obj = q[i].obj /\ Aged(q)[i].val = q[i].val
                                   /\ Aged(q)[i].state = q[i].state /\ Aged(q)[i].fresh = FALSE
<1>1. ASSUME NEW r \in Answers
      PROVE  /\ [r EXCEPT !.fresh = FALSE] \in Answers
             /\ [r EXCEPT !.fresh = FALSE].cmd = r.cmd /\ [r EXCEPT !.fresh = FALSE].obj = r.obj
             /\ [r EXCEPT !.fresh = FALSE].val = r.val /\ [r EXCEPT !.fresh = FALSE].fresh = FALSE
             /\ [r EXCEPT !.fresh = FALSE].id = r.id /\ [r EXCEPT !.fresh = FALSE].state = r.state
  BY DEF Answers
<1>2. \A i \in 1..Len(q) : q[i] \in Answers
  OBVIOUS
<1>3. \A i \in 1..Len(q) : Aged(q)[i] = [q[i] EXCEPT !.fresh = FALSE]
  BY DEF Aged
<1>4. Aged(q) \in Seq(Answers) /\ Len(Aged(q)) = Len(q)
  <2>1. \A i \in 1..Len(q) : [q[i] EXCEPT !.fresh = FALSE] \in Answers
    BY <1>1, <1>2
  <2>2. Len(q) \in Nat
    OBVIOUS
  <2> QED  BY <2>1, <2>2 DEF Aged
<1>5. q = <<>> => Aged(q) = <<>>
  BY <1>4
<1>6. ASSUME NEW i \in 1..Len(q)
      PROVE  /\ Aged(q)[i].cmd = q[i].cmd /\ Aged(q)[i].obj = q[i].obj
             /\ Aged(q)[i].val = q[i].val /\ Aged(q)[i].fresh = FALSE
             /\ Aged(q)[i].id = q[i].id /\ Aged(q)[i].state = q[i].state
  <2>1. q[i] \in Answers /\ Aged(q)[i] = [q[i] EXCEPT !.fresh = FALSE]
    BY <1>2, <1>3
  <2> QED  BY <1>1, <2>1, Zenon
<1> QED
  BY <1>4, <1>5, <1>6

(* The master decodes every statusword of the drive to the drive's state, and  *)
(* answers it with the controlword that state wants.                           *)
LEMMA WordFacts ==
    ASSUME NEW s \in States, NEW sw \in StatusWords(s)
    PROVE  sw \in Nat /\ decode_state(sw) = s /\ next_controlword(sw) = Want(s)
<1>1. s \in {"NOT_READY", "SWITCH_ON_DISABLED", "READY_TO_SWITCH_ON", "SWITCHED_ON",
             "OPERATION_ENABLED", "QUICK_STOP_ACTIVE", "FAULT_REACTION_ACTIVE", "FAULT"}
  BY DEF States, Code
<1>2. sw \in Nat /\ decode_state(sw) = s
  <2>1. CASE s = "NOT_READY"
    <3>1. sw = 0 \/ sw = 688
      BY <2>1 DEF StatusWords, Code, FreeBit5
    <3> QED  BY <2>1, <3>1 DEF decode_state, And4F, And6F, Bit, Nibble
  <2>2. CASE s = "SWITCH_ON_DISABLED"
    <3>1. sw = 64 \/ sw = 752
      BY <2>2 DEF StatusWords, Code, FreeBit5
    <3> QED  BY <2>2, <3>1 DEF decode_state, And4F, And6F, Bit, Nibble
  <2>3. CASE s = "READY_TO_SWITCH_ON"
    <3>1. sw = 33 \/ sw = 689
      BY <2>3 DEF StatusWords, Code, FreeBit5
    <3> QED  BY <2>3, <3>1 DEF decode_state, And4F, And6F, Bit, Nibble
  <2>4. CASE s = "SWITCHED_ON"
    <3>1. sw = 35 \/ sw = 691
      BY <2>4 DEF StatusWords, Code, FreeBit5
    <3> QED  BY <2>4, <3>1 DEF decode_state, And4F, And6F, Bit, Nibble
  <2>5. CASE s = "OPERATION_ENABLED"
    <3>1. sw = 39 \/ sw = 695
      BY <2>5 DEF StatusWords, Code, FreeBit5
    <3> QED  BY <2>5, <3>1 DEF decode_state, And4F, And6F, Bit, Nibble
  <2>6. CASE s = "QUICK_STOP_ACTIVE"
    <3>1. sw = 7 \/ sw = 663
      BY <2>6 DEF StatusWords, Code, FreeBit5
    <3> QED  BY <2>6, <3>1 DEF decode_state, And4F, And6F, Bit, Nibble
  <2>7. CASE s = "FAULT_REACTION_ACTIVE"
    <3>1. sw = 15 \/ sw = 703
      BY <2>7 DEF StatusWords, Code, FreeBit5
    <3> QED  BY <2>7, <3>1 DEF decode_state, And4F, And6F, Bit, Nibble
  <2>8. CASE s = "FAULT"
    <3>1. sw = 8 \/ sw = 696
      BY <2>8 DEF StatusWords, Code, FreeBit5
    <3> QED  BY <2>8, <3>1 DEF decode_state, And4F, And6F, Bit, Nibble
  <2> QED
    BY <1>1, <2>1, <2>2, <2>3, <2>4, <2>5, <2>6, <2>7, <2>8
<1>3. next_controlword(sw) = Want(s)
  BY <1>2 DEF next_controlword, Want
<1> QED
  BY <1>2, <1>3
-------------------------------------------------------------------------------
(* The drive.                                                                   *)
LEMMA StateFacts ==
    /\ States = {"NOT_READY", "SWITCH_ON_DISABLED", "READY_TO_SWITCH_ON", "SWITCHED_ON",
                 "OPERATION_ENABLED", "QUICK_STOP_ACTIVE", "FAULT_REACTION_ACTIVE", "FAULT"}
    /\ \A s \in States : Rank[s] \in 0..4
    /\ Rank["FAULT"] = 0 /\ Rank["SWITCH_ON_DISABLED"] = 1 /\ Rank["READY_TO_SWITCH_ON"] = 2
    /\ Rank["SWITCHED_ON"] = 3 /\ Rank["QUICK_STOP_ACTIVE"] = 3 /\ Rank["OPERATION_ENABLED"] = 4
<1>1. States = {"NOT_READY", "SWITCH_ON_DISABLED", "READY_TO_SWITCH_ON", "SWITCHED_ON",
                "OPERATION_ENABLED", "QUICK_STOP_ACTIVE", "FAULT_REACTION_ACTIVE", "FAULT"}
  BY DEF States, Code
<1> QED
  BY <1>1 DEF Rank

(* The controlword that next_controlword chooses brings a resting drive one     *)
(* state further.                                                               *)
Resting(d) == /\ d.state \notin {"NOT_READY", "FAULT_REACTION_ACTIVE", "OPERATION_ENABLED"}
              /\ ~d.cause /\ (d.state = "FAULT" => ~d.bit7)
Raised(d, e) == /\ e.cause = d.cause /\ e.operational = d.operational
                /\ Rank[e.state] = Rank[d.state] + 1
                /\ e.state \notin {"NOT_READY", "FAULT_REACTION_ACTIVE", "FAULT"}
LEMMA ControlledFacts ==
    ASSUME NEW d \in Drives, NEW cw \in {0, 6, 7, 11, 15, 128}
    PROVE  /\ Controlled(d, cw) \in Drives
           /\ Controlled(d, cw).cause = d.cause /\ Controlled(d, cw).operational = d.operational
           /\ cw \in {0, 11} => Controlled(d, cw).state # "OPERATION_ENABLED"
           /\ Resting(d) /\ cw = Want(d.state) => Raised(d, Controlled(d, cw))
<1> DEFINE s == d.state
           to == CASE cw = 6 /\ s \in {"SWITCH_ON_DISABLED", "SWITCHED_ON", "OPERATION_ENABLED"}
                                                            -> "READY_TO_SWITCH_ON"
                [] cw = 7 /\ s \in {"READY_TO_SWITCH_ON", "OPERATION_ENABLED"} -> "SWITCHED_ON"
                [] cw = 15 /\ s \in {"SWITCHED_ON", "QUICK_STOP_ACTIVE"} -> "OPERATION_ENABLED"
                [] cw = 11 /\ s = "OPERATION_ENABLED" -> "QUICK_STOP_ACTIVE"
                [] cw \in {0, 11, 128} /\ s \in {"READY_TO_SWITCH_ON", "SWITCHED_ON"}
                                                            -> "SWITCH_ON_DISABLED"
                [] cw \in {0, 128} /\ s \in {"OPERATION_ENABLED", "QUICK_STOP_ACTIVE"}
                                                            -> "SWITCH_ON_DISABLED"
                [] cw = 128 /\ s = "FAULT" /\ ~d.bit7 /\ ~d.cause -> "SWITCH_ON_DISABLED"
                [] OTHER -> s
<1>1. d.state \in States
  BY DEF Drives
<1>2. to \in States
  BY <1>1, StateFacts
<1>3. cw \in {0, 11} => to # "OPERATION_ENABLED"
  BY <1>1, StateFacts
<1>4. /\ s \notin {"NOT_READY", "FAULT_REACTION_ACTIVE", "OPERATION_ENABLED"}
      /\ ~d.cause /\ (s = "FAULT" => ~d.bit7) /\ cw = Want(s)
      => to = CASE s = "FAULT" -> "SWITCH_ON_DISABLED"
                [] s = "SWITCH_ON_DISABLED" -> "READY_TO_SWITCH_ON"
                [] s = "READY_TO_SWITCH_ON" -> "SWITCHED_ON"
                [] OTHER -> "OPERATION_ENABLED"
  BY <1>1, StateFacts DEF Want
<1>5. Controlled(d, cw) = [d EXCEPT !.state = to, !.bit7 = (cw = 128)]
  BY DEF Controlled
<1> HIDE DEF to
<1>6. /\ Controlled(d, cw) \in Drives /\ Controlled(d, cw).state = to
      /\ Controlled(d, cw).cause = d.cause /\ Controlled(d, cw).operational = d.operational
  <2>1. /\ d \in [state : States, bit7 : BOOLEAN, cause : BOOLEAN, operational : BOOLEAN]
        /\ (cw = 128) \in BOOLEAN
    BY DEF Drives
  <2>2. ASSUME NEW t \in States, NEW b \in BOOLEAN, NEW e, e = [d EXCEPT !.state = t, !.bit7 = b]
        PROVE  /\ e \in [state : States, bit7 : BOOLEAN, cause : BOOLEAN, operational : BOOLEAN]
               /\ e.state = t /\ e.cause = d.cause /\ e.operational = d.operational
    BY <2>1, <2>2
  <2> QED  BY <1>2, <1>5, <2>1, <2>2 DEF Drives
<1>7. /\ s \notin {"NOT_READY", "FAULT_REACTION_ACTIVE", "OPERATION_ENABLED"}
      /\ ~d.cause /\ (s = "FAULT" => ~d.bit7) /\ cw = Want(s)
      => Rank[to] = Rank[s] + 1 /\ to \notin {"NOT_READY", "FAULT_REACTION_ACTIVE", "FAULT"}
  BY <1>1, <1>4, StateFacts
<1>8. ASSUME Resting(d), cw = Want(s) PROVE Raised(d, Controlled(d, cw))
  <2>1. Rank[to] = Rank[s] + 1 /\ to \notin {"NOT_READY", "FAULT_REACTION_ACTIVE", "FAULT"}
    BY <1>7, <1>8 DEF Resting
  <2> QED  BY <1>6, <2>1 DEF Raised
<1>9. cw \in {0, 11} => Controlled(d, cw).state # "OPERATION_ENABLED"
  BY <1>3, <1>6
<1> QED
  BY <1>6, <1>8, <1>9

LEMMA RemappedFacts ==
    ASSUME NEW p \in Pdos, NEW r \in Requests, r.obj \in PdoObjects
    PROVE  /\ Remapped(p, r) \in Pdos
           /\ r.obj = "cob" => /\ Remapped(p, r).on = (r.val = "on")
                               /\ Remapped(p, r).count = p.count /\ Remapped(p, r).entries = p.entries
           /\ r.obj = "count" => /\ Remapped(p, r).on = p.on
                                 /\ Remapped(p, r).count = r.val
                                 /\ Remapped(p, r).entries = p.entries
           /\ r.obj = "type" => Remapped(p, r) = p
           /\ \A i \in 1..3 : r.obj = EntryObject[i] =>
                 /\ Remapped(p, r).on = p.on /\ Remapped(p, r).count = p.count
                 /\ \A j \in 1..3 : Remapped(p, r).entries[j] = IF j = i THEN r.val ELSE p.entries[j]
<1>1. p.on \in BOOLEAN /\ p.count \in 0..3 /\ p.entries \in [1..3 -> Entries]
  BY DEF Pdos
<1>2. CASE r.obj = "cob"
  <2>1. Remapped(p, r) = [p EXCEPT !.on = (r.val = "on")]
    BY <1>2 DEF Remapped
  <2>2. /\ Remapped(p, r) \in Pdos /\ Remapped(p, r).on = (r.val = "on")
        /\ Remapped(p, r).count = p.count /\ Remapped(p, r).entries = p.entries
    BY <2>1 DEF Pdos
  <2> QED  BY <1>2, <2>2 DEF EntryObject
<1>3. CASE r.obj = "count"
  <2>1. Remapped(p, r) = [p EXCEPT !.count = r.val] /\ r.val \in 0..3
    BY <1>3, StrengthOfRequests DEF Remapped
  <2>2. /\ Remapped(p, r) \in Pdos /\ Remapped(p, r).on = p.on
        /\ Remapped(p, r).count = r.val /\ Remapped(p, r).entries = p.entries
    BY <2>1 DEF Pdos
  <2> QED  BY <1>3, <2>2 DEF EntryObject
<1>4. CASE r.obj = "type"
  BY <1>4 DEF Remapped, EntryObject
<1>5. CASE r.obj \in MapObjects
  <2> DEFINE e == [i \in 1..3 |-> IF EntryObject[i] = r.obj THEN r.val ELSE p.entries[i]]
  <2>1. Remapped(p, r) = [p EXCEPT !.entries = e]
    BY <1>5 DEF Remapped, MapObjects
  <2>2. r.val \in Entries
    BY <1>5, StrengthOfRequests DEF Entries
  <2>3. e \in [1..3 -> Entries]
    BY <1>1, <2>2
  <2>4. \A i, j \in 1..3 : r.obj = EntryObject[i] => e[j] = IF j = i THEN r.val ELSE p.entries[j]
    BY DEF EntryObject
  <2> HIDE DEF e
  <2>5. /\ Remapped(p, r) \in Pdos /\ Remapped(p, r).on = p.on
        /\ Remapped(p, r).count = p.count /\ Remapped(p, r).entries = e
    BY <2>1, <2>3 DEF Pdos
  <2> QED  BY <1>5, <2>4, <2>5 DEF MapObjects
<1> QED
  BY <1>2, <1>3, <1>4, <1>5 DEF PdoObjects, MapObjects
-------------------------------------------------------------------------------
(* The steps.                                                                   *)
LEMMA TypesOfQueues ==
    ASSUME CanTypes
    PROVE  /\ Len(toDrive) \in Nat /\ Len(toHost) \in Nat /\ Len(todo) \in Nat
           /\ \A i \in 1..Len(toDrive) : toDrive[i] \in Requests
           /\ \A i \in 1..Len(toHost) : toHost[i] \in Answers
           /\ \A i \in 1..Len(todo) : todo[i] \in Requests
           /\ todo # <<>> => Len(todo) >= 1 /\ todo[1] \in Requests /\ Head(todo) = todo[1]
           /\ toDrive # <<>> => Len(toDrive) >= 1 /\ toDrive[1] \in Requests /\ Head(toDrive) = toDrive[1]
           /\ toHost # <<>> => Len(toHost) >= 1 /\ toHost[1] \in Answers /\ Head(toHost) = toHost[1]
<1>1. toDrive \in Seq(Requests) /\ toHost \in Seq(Answers) /\ todo \in Seq(Requests)
  BY DEF CanTypes, QueueTypes
<1> QED
  BY <1>1, QueueTail, QueueAt

LEMMA MethodFacts ==
    /\ Methods = {"enable_operation", "quick_stop", "disable_voltage", "statusword"} \cup Remaps
    /\ \A m \in Remaps : m \in {"csp", "cst"}
    /\ \A m \in Remaps : m \notin {"enable_operation", "quick_stop", "disable_voltage", "statusword"}
BY CanFacts DEF Methods

LEMMA RequestsOfFacts ==
    ASSUME NEW m \in Methods
    PROVE  /\ RequestsOf(m) \in Seq(Requests) /\ RequestsOf(m) # <<>> /\ Len(RequestsOf(m)) >= 1
           /\ m \in Remaps => RequestsOf(m) = Plan(m)
           /\ m = "enable_operation" => RequestsOf(m) = <<Down("mode", 8), Nmt, Up("status")>>
           /\ m = "quick_stop" => RequestsOf(m) = <<Down("control", 11)>>
           /\ m = "disable_voltage" => RequestsOf(m) = <<Down("control", 0)>>
           /\ m = "statusword" => RequestsOf(m) = <<Up("status")>>
<1>1. /\ m \in Remaps => RequestsOf(m) = Plan(m)
      /\ m = "enable_operation" => RequestsOf(m) = <<Down("mode", 8), Nmt, Up("status")>>
      /\ m = "quick_stop" => RequestsOf(m) = <<Down("control", 11)>>
      /\ m = "disable_voltage" => RequestsOf(m) = <<Down("control", 0)>>
      /\ m = "statusword" => RequestsOf(m) = <<Up("status")>>
  BY MethodFacts DEF RequestsOf, Plan
<1>2. ASSUME NEW x \in Requests, NEW y \in Requests, NEW z \in Requests
      PROVE  /\ <<x>> \in Seq(Requests) /\ <<x, y, z>> \in Seq(Requests)
             /\ Len(<<x>>) = 1 /\ Len(<<x, y, z>>) = 3
  OBVIOUS
<1>3. m \in Remaps => Plan(m) \in Seq(Requests) /\ Len(Plan(m)) >= 1
  <2>1. ASSUME m \in Remaps PROVE Plan(m) \in Seq(Requests) /\ Len(Plan(m)) >= 1
    <3>1. m \in {"csp", "cst"}
      BY <2>1, MethodFacts, Zenon
    <3>2. Plan(m) \in Seq(Requests) /\ Len(Plan(m)) = IF m = "csp" THEN 8 ELSE 7
      BY <3>1, PlansAreRequests, PlanFacts, Zenon
    <3> QED  BY <3>2
  <2> QED  BY <2>1
<1>4. /\ <<Down("mode", 8), Nmt, Up("status")>> \in Seq(Requests)
      /\ Len(<<Down("mode", 8), Nmt, Up("status")>>) = 3
      /\ <<Up("status")>> \in Seq(Requests) /\ Len(<<Up("status")>>) = 1
      /\ \A cw \in {0, 6, 7, 11, 15, 128} : /\ <<Down("control", cw)>> \in Seq(Requests)
                                            /\ Len(<<Down("control", cw)>>) = 1
  BY <1>2, RequestsMade, Zenon
<1>5. RequestsOf(m) \in Seq(Requests) /\ Len(RequestsOf(m)) >= 1
  <2>1. 0 \in {0, 6, 7, 11, 15, 128} /\ 11 \in {0, 6, 7, 11, 15, 128}
    OBVIOUS
  <2>2. CASE m \in Remaps
    BY <1>1, <1>3, <2>2, Zenon
  <2>3. CASE m = "enable_operation"
    <3>1. RequestsOf(m) \in Seq(Requests) /\ Len(RequestsOf(m)) = 3
      BY <1>1, <1>4, <2>3, Zenon
    <3> QED  BY <3>1
  <2>4. CASE m \in {"quick_stop", "disable_voltage"}
    <3>1. PICK cw \in {0, 6, 7, 11, 15, 128} : RequestsOf(m) = <<Down("control", cw)>>
      BY <1>1, <2>1, <2>4
    <3>2. RequestsOf(m) \in Seq(Requests) /\ Len(RequestsOf(m)) = 1
      BY <3>1, <1>4, Zenon
    <3> QED  BY <3>2
  <2>5. CASE m = "statusword"
    <3>1. RequestsOf(m) \in Seq(Requests) /\ Len(RequestsOf(m)) = 1
      BY <1>1, <1>4, <2>5, Zenon
    <3> QED  BY <3>1
  <2> QED  BY <2>2, <2>3, <2>4, <2>5, MethodFacts
<1> QED
  BY <1>1, <1>5

(* What comes after an answer f: the rest of the method.                        *)
NextRequests(f, rest) ==
    \/ op # "enable_operation" /\ rest = Tail(todo) /\ steps' = steps
    \/ /\ op = "enable_operation" /\ f.obj = "status"
       /\ decode_state(f.val) = "OPERATION_ENABLED" /\ rest = <<>> /\ steps' = 0
    \/ /\ op = "enable_operation" /\ f.obj = "status"
       /\ decode_state(f.val) # "OPERATION_ENABLED"
       /\ rest = <<Down("control", next_controlword(f.val))>> /\ steps' = steps
    \/ /\ op = "enable_operation" /\ f.obj = "control" /\ steps + 1 < MaxSteps
       /\ rest = <<Up("status")>> /\ steps' = steps + 1
    \/ op = "enable_operation" /\ f.obj \notin {"status", "control"}
       /\ rest = Tail(todo) /\ steps' = steps

LEMMA AcceptFacts ==
    ASSUME CanTypes, Accept
    PROVE  /\ todo # <<>> /\ waiting /\ toHost # <<>> /\ toHost' = Tail(toHost)
           /\ toHost[1].id = "sdo" /\ toHost[1].obj = todo[1].obj
           /\ UNCHANGED <<toDrive, op, drive, pdo>>
           /\ \/ Raise("error") /\ excused' = excused
              \/ /\ op = "enable_operation" /\ toHost[1].obj = "control" /\ toHost[1].cmd = "ack"
                 /\ steps + 1 = MaxSteps /\ Raise("exhausted") /\ excused' = excused
              \/ /\ toHost[1].cmd = (IF todo[1].cmd = "up" THEN "data" ELSE "ack")
                 /\ \E rest \in Seq(Requests) : Proceed(toHost[1], rest) /\ NextRequests(toHost[1], rest)
<1> DEFINE f == toHost[1]
<1>1. /\ todo # <<>> /\ waiting /\ toHost # <<>> /\ toHost' = Tail(toHost)
      /\ Head(todo) = todo[1] /\ Head(toHost) = f
      /\ todo[1] \in Requests /\ f \in Answers
  BY TypesOfQueues DEF Accept
<1>2. Ours(f, todo[1]) /\ UNCHANGED <<toDrive, op, drive, pdo>>
  BY <1>1 DEF Accept
<1>3. f.id = "sdo" /\ f.obj = todo[1].obj
  BY <1>2 DEF Ours
<1>4. IF f.cmd = (IF todo[1].cmd = "up" THEN "data" ELSE "ack")
      THEN /\ IF op = "enable_operation" THEN EnableLoop(f)
              ELSE Proceed(f, Tail(todo)) /\ UNCHANGED steps
      ELSE Raise("error") /\ UNCHANGED excused
  BY <1>1 DEF Accept
<1>5. Tail(todo) \in Seq(Requests)
  BY <1>1, QueueTail DEF CanTypes, QueueTypes
<1>6. \A r \in Requests : <<r>> \in Seq(Requests)
  OBVIOUS
<1>7. next_controlword(f.val) \in {0, 6, 7, 15, 128}
  BY DEF next_controlword
<1>8. Down("control", next_controlword(f.val)) \in Requests /\ Up("status") \in Requests
  BY <1>7, RequestsMade
<1>9. steps < MaxSteps /\ steps \in Nat
  BY <1>1, CanFacts DEF CanTypes, BoundTypes
<1>10. CASE f.cmd # (IF todo[1].cmd = "up" THEN "data" ELSE "ack")
  BY <1>1, <1>2, <1>3, <1>4, <1>10
<1>11. CASE f.cmd = (IF todo[1].cmd = "up" THEN "data" ELSE "ack") /\ op # "enable_operation"
  <2>1. Proceed(f, Tail(todo)) /\ steps' = steps
    BY <1>4, <1>11
  <2>2. NextRequests(f, Tail(todo))
    BY <2>1, <1>11 DEF NextRequests
  <2> QED  BY <1>1, <1>2, <1>3, <1>5, <1>11, <2>1, <2>2
<1>12. CASE f.cmd = (IF todo[1].cmd = "up" THEN "data" ELSE "ack") /\ op = "enable_operation"
  <2>1. EnableLoop(f)
    BY <1>4, <1>12
  <2>2. CASE f.obj = "status" /\ decode_state(f.val) = "OPERATION_ENABLED"
    <3>1. Proceed(f, <<>>) /\ steps' = 0
      BY <2>1, <2>2 DEF EnableLoop
    <3>2. NextRequests(f, <<>>) /\ <<>> \in Seq(Requests)
      BY <3>1, <2>2, <1>12 DEF NextRequests
    <3> QED  BY <1>1, <1>2, <1>3, <1>12, <3>1, <3>2
  <2>3. CASE f.obj = "status" /\ decode_state(f.val) # "OPERATION_ENABLED"
    <3>1. Proceed(f, <<Down("control", next_controlword(f.val))>>) /\ steps' = steps
      BY <2>1, <2>3 DEF EnableLoop
    <3>2. NextRequests(f, <<Down("control", next_controlword(f.val))>>)
      BY <3>1, <2>3, <1>12 DEF NextRequests
    <3>3. <<Down("control", next_controlword(f.val))>> \in Seq(Requests)
      BY <1>6, <1>8
    <3> QED  BY <1>1, <1>2, <1>3, <1>12, <3>1, <3>2, <3>3
  <2>4. CASE f.obj = "control" /\ steps + 1 = MaxSteps
    <3>1. Raise("exhausted") /\ excused' = excused
      BY <2>1, <2>4 DEF EnableLoop
    <3>2. todo[1].cmd # "up"
      BY <1>1, <1>3, <2>4, StrengthOfRequests
    <3> QED  BY <1>1, <1>2, <1>3, <1>12, <2>4, <3>1, <3>2
  <2>5. CASE f.obj = "control" /\ steps + 1 # MaxSteps
    <3>1. Proceed(f, <<Up("status")>>) /\ steps' = steps + 1
      BY <2>1, <2>5 DEF EnableLoop
    <3>2. steps + 1 < MaxSteps
      BY <1>9, <2>5, CanFacts
    <3>3. NextRequests(f, <<Up("status")>>) /\ <<Up("status")>> \in Seq(Requests)
      BY <3>1, <3>2, <2>5, <1>6, <1>8, <1>12 DEF NextRequests
    <3> QED  BY <1>1, <1>2, <1>3, <1>12, <3>1, <3>3
  <2>6. CASE f.obj \notin {"status", "control"}
    <3>1. Proceed(f, Tail(todo)) /\ steps' = steps
      BY <2>1, <2>6 DEF EnableLoop
    <3>2. NextRequests(f, Tail(todo))
      BY <3>1, <2>6, <1>12 DEF NextRequests
    <3> QED  BY <1>1, <1>2, <1>3, <1>5, <1>12, <3>1, <3>2
  <2> QED  BY <2>2, <2>3, <2>4, <2>5, <2>6
<1> QED
  BY <1>10, <1>11, <1>12

LEMMA ServeFacts ==
    ASSUME CanTypes, Serve
    PROVE  /\ toDrive # <<>> /\ toDrive' = Tail(toDrive) /\ toDrive[1] \in Requests
           /\ UNCHANGED <<hostvars, clean, confirmed>>
           /\ \/ /\ toDrive[1].cmd = "nmt" /\ drive' = [drive EXCEPT !.operational = TRUE]
                 /\ UNCHANGED <<toHost, pdo, quiet, excused>>
              \/ /\ toDrive[1].cmd \in {"up", "down"}
                 /\ \E a \in Answers :
                      /\ toHost' = Append(toHost, a)
                      /\ a.id = "sdo" /\ a.obj = toDrive[1].obj /\ a.fresh = toDrive[1].fresh
                      /\ a.cmd = "data" => toDrive[1].cmd = "up" /\ a.val \in StatusWords(a.state)
                      /\ a.cmd = "ack" => toDrive[1].cmd = "down"
                      /\ a.obj = "status" => a.state = drive.state
                      /\ a.cmd = "abort" => toDrive[1].cmd = "down" /\ quiet' = FALSE
                      /\ a.cmd # "abort" => quiet' = quiet
                      /\ a.cmd # "ack" => UNCHANGED <<drive, pdo, excused>>
                      /\ a.cmd = "ack" =>
                           /\ drive' = IF toDrive[1].obj = "control"
                                       THEN Controlled(drive, toDrive[1].val) ELSE drive
                           /\ pdo' = IF toDrive[1].obj \in PdoObjects
                                     THEN Remapped(pdo, toDrive[1]) ELSE pdo
                           /\ excused' = (excused /\ ~(/\ toDrive[1].fresh /\ SwitchesOff(toDrive[1])
                                                       /\ waiting /\ SwitchesOff(Head(todo))))
<1> DEFINE r == toDrive[1]
<1>1. /\ toDrive # <<>> /\ toDrive' = Tail(toDrive) /\ r \in Requests /\ Head(toDrive) = r
      /\ UNCHANGED <<hostvars, clean, confirmed>>
  BY TypesOfQueues DEF Serve
<1>2. /\ r.cmd \in {"down", "up", "nmt"} /\ r.obj \in Objects /\ r.fresh \in BOOLEAN
      /\ r.cmd = "up" <=> r.obj = "status"
  BY <1>1, StrengthOfRequests
<1>3. drive.state \in States
  BY DEF CanTypes, DriveTypes, Drives
<1>4. "NOT_READY" \in States
  BY StateFacts
<1>5. ASSUME NEW c \in {"data", "ack", "abort"}, NEW v \in Int
      PROVE  /\ Frame("sdo", c, r.obj, v, r.fresh) \in Answers
             /\ Frame("sdo", c, r.obj, v, r.fresh).id = "sdo"
             /\ Frame("sdo", c, r.obj, v, r.fresh).cmd = c
             /\ Frame("sdo", c, r.obj, v, r.fresh).obj = r.obj
             /\ Frame("sdo", c, r.obj, v, r.fresh).val = v
             /\ Frame("sdo", c, r.obj, v, r.fresh).fresh = r.fresh
             /\ r.obj = "status" => Frame("sdo", c, r.obj, v, r.fresh).state = drive.state
  BY <1>2, <1>3, <1>4 DEF Frame, Answers
<1>6. \/ /\ r.cmd = "nmt" /\ drive' = [drive EXCEPT !.operational = TRUE]
         /\ UNCHANGED <<toHost, pdo, quiet, excused>>
      \/ /\ r.cmd = "up"
         /\ \E sw \in StatusWords(drive.state) :
              toHost' = Append(toHost, Frame("sdo", "data", r.obj, sw, r.fresh))
         /\ UNCHANGED <<drive, pdo, quiet, excused>>
      \/ /\ r.cmd = "down"
         /\ drive' = IF r.obj = "control" THEN Controlled(drive, r.val) ELSE drive
         /\ pdo' = IF r.obj \in PdoObjects THEN Remapped(pdo, r) ELSE pdo
         /\ excused' = (excused /\ ~(r.fresh /\ SwitchesOff(r) /\ waiting /\ SwitchesOff(Head(todo))))
         /\ toHost' = Append(toHost, Frame("sdo", "ack", r.obj, 0, r.fresh))
         /\ UNCHANGED quiet
      \/ /\ r.cmd = "down"
         /\ toHost' = Append(toHost, Frame("sdo", "abort", r.obj, 0, r.fresh))
         /\ quiet' = FALSE
         /\ UNCHANGED <<drive, pdo, excused>>
  BY <1>1, Zenon DEF Serve
<1> HIDE DEF r
<1>7. CASE /\ r.cmd = "nmt" /\ drive' = [drive EXCEPT !.operational = TRUE]
           /\ UNCHANGED <<toHost, pdo, quiet, excused>>
  BY <1>1, <1>7 DEF r
<1>8. CASE /\ r.cmd = "up"
           /\ \E sw \in StatusWords(drive.state) :
                toHost' = Append(toHost, Frame("sdo", "data", r.obj, sw, r.fresh))
           /\ UNCHANGED <<drive, pdo, quiet, excused>>
  <2>1. PICK sw \in StatusWords(drive.state) :
               toHost' = Append(toHost, Frame("sdo", "data", r.obj, sw, r.fresh))
    BY <1>8
  <2>2. sw \in Int /\ r.obj = "status"
    BY <1>2, <1>3, <1>8, WordFacts
  <2>3. PICK a : a = Frame("sdo", "data", r.obj, sw, r.fresh)
    OBVIOUS
  <2>4. /\ a \in Answers /\ a.id = "sdo" /\ a.cmd = "data" /\ a.obj = r.obj /\ a.val = sw
        /\ a.fresh = r.fresh /\ a.state = drive.state /\ toHost' = Append(toHost, a)
    BY <1>5, <2>1, <2>2, <2>3
  <2> QED  BY <1>1, <1>8, <2>4 DEF r
<1>9. CASE /\ r.cmd = "down"
           /\ drive' = IF r.obj = "control" THEN Controlled(drive, r.val) ELSE drive
           /\ pdo' = IF r.obj \in PdoObjects THEN Remapped(pdo, r) ELSE pdo
           /\ excused' = (excused /\ ~(r.fresh /\ SwitchesOff(r) /\ waiting /\ SwitchesOff(Head(todo))))
           /\ toHost' = Append(toHost, Frame("sdo", "ack", r.obj, 0, r.fresh))
           /\ UNCHANGED quiet
  <2>1. PICK a : a = Frame("sdo", "ack", r.obj, 0, r.fresh)
    OBVIOUS
  <2>2. /\ a \in Answers /\ a.id = "sdo" /\ a.cmd = "ack" /\ a.obj = r.obj
        /\ a.fresh = r.fresh /\ r.obj # "status" /\ toHost' = Append(toHost, a)
    BY <1>2, <1>5, <1>9, <2>1
  <2> QED  BY <1>1, <1>9, <2>2 DEF r
<1>10. CASE /\ r.cmd = "down"
            /\ toHost' = Append(toHost, Frame("sdo", "abort", r.obj, 0, r.fresh))
            /\ quiet' = FALSE
            /\ UNCHANGED <<drive, pdo, excused>>
  <2>1. PICK a : a = Frame("sdo", "abort", r.obj, 0, r.fresh)
    OBVIOUS
  <2>2. /\ a \in Answers /\ a.id = "sdo" /\ a.cmd = "abort" /\ a.obj = r.obj
        /\ a.fresh = r.fresh /\ r.obj # "status" /\ toHost' = Append(toHost, a)
    BY <1>2, <1>5, <1>10, <2>1
  <2> QED  BY <1>1, <1>10, <2>2 DEF r
<1> QED
  BY <1>6, <1>7, <1>8, <1>9, <1>10
-------------------------------------------------------------------------------
(* Types.                                                                       *)
LEMMA TypesInit == CanInit => CanTypes
<1> SUFFICES ASSUME CanInit PROVE CanTypes
  OBVIOUS
<1>1. /\ toDrive = <<>> /\ toHost = <<>> /\ todo = <<>>
      /\ toDrive \in Seq(Requests) /\ toHost \in Seq(Answers) /\ todo \in Seq(Requests)
  BY DEF CanInit
<1>2. drive \in Drives
  BY StateFacts DEF CanInit, PowerUp, Drives
<1>3. pdo \in Pdos
  BY DEF CanInit, DefaultPdo, Pdos, Entries, Mapped
<1>4. op \in Methods /\ waiting = FALSE /\ seen = 0 /\ steps = 0 /\ result = "none"
      /\ clean = FALSE /\ quiet = FALSE /\ confirmed = FALSE /\ excused = FALSE
  BY MethodFacts DEF CanInit
<1> QED
  <2>t1. QueueTypes
    BY <1>1, <1>2, <1>3, <1>4 DEF CanTypes, QueueTypes
  <2>t2. HostTypes
    BY <1>1, <1>2, <1>3, <1>4 DEF CanTypes, HostTypes
  <2>t3. BoundTypes
    BY <1>1, <1>2, <1>3, <1>4, CanFacts DEF CanTypes, BoundTypes
  <2>t4. DriveTypes
    BY <1>1, <1>2, <1>3, <1>4 DEF CanTypes, DriveTypes
  <2>t5. HistoryTypes
    BY <1>1, <1>2, <1>3, <1>4 DEF CanTypes, HistoryTypes
  <2> QED  BY <2>t1, <2>t2, <2>t3, <2>t4, <2>t5 DEF CanTypes

LEMMA DefaultTypes == PowerUp \in Drives /\ DefaultPdo \in Pdos
BY StateFacts DEF PowerUp, Drives, DefaultPdo, Pdos, Entries, Mapped

LEMMA RaiseTypes ==
    ASSUME CanTypes, NEW how \in {"error", "exhausted"}, Raise(how)
    PROVE  /\ todo' = <<>> /\ todo' \in Seq(Requests) /\ waiting' = FALSE /\ result' = how
           /\ seen' = 0 /\ steps' = 0 /\ clean' = FALSE /\ confirmed' = FALSE
           /\ quiet' = (quiet /\ how = "exhausted") /\ quiet' \in BOOLEAN
BY DEF Raise, CanTypes, QueueTypes, HistoryTypes

LEMMA CallTypes ==
    ASSUME CanTypes, NEW m \in Methods, Call(m)
    PROVE  CanTypes'
<1>1. /\ op' = m /\ todo' = RequestsOf(m) /\ result' = "none"
      /\ waiting' = FALSE /\ seen' = 0 /\ steps' = 0
      /\ toDrive' = Aged(toDrive) /\ toHost' = Aged(toHost)
      /\ clean' \in BOOLEAN /\ quiet' \in BOOLEAN /\ confirmed' = FALSE
      /\ UNCHANGED <<drive, pdo, excused>>
  BY DEF Call
<1>2. toDrive' \in Seq(Requests) /\ toHost' \in Seq(Answers) /\ todo' \in Seq(Requests)
  BY <1>1, AgedRequests, AgedAnswers, RequestsOfFacts DEF CanTypes, QueueTypes
<1> QED
  <2>t1. QueueTypes'
    BY <1>1, <1>2 DEF CanTypes, QueueTypes
  <2>t2. HostTypes'
    BY <1>1, <1>2 DEF CanTypes, HostTypes
  <2>t3. BoundTypes'
    BY <1>1, <1>2, CanFacts DEF CanTypes, BoundTypes
  <2>t4. DriveTypes'
    BY <1>1, <1>2 DEF CanTypes, DriveTypes
  <2>t5. HistoryTypes'
    BY <1>1, <1>2 DEF CanTypes, HistoryTypes
  <2> QED  BY <2>t1, <2>t2, <2>t3, <2>t4, <2>t5 DEF CanTypes

LEMMA SendFacts ==
    ASSUME CanTypes, Send
    PROVE  /\ todo # <<>> /\ ~waiting /\ todo[1] \in Requests
           /\ toDrive' = Append(toDrive, todo[1])
           /\ waiting' = (todo[1].cmd # "nmt")
           /\ todo' = IF todo[1].cmd = "nmt" THEN Tail(todo) ELSE todo
           /\ seen' = 0
           /\ UNCHANGED <<toHost, op, steps, result, drive, pdo, history>>
BY TypesOfQueues DEF Send

LEMMA SendTypes ==
    ASSUME CanTypes, TodoByMethod, Send
    PROVE  CanTypes'
<1>1. /\ todo # <<>> /\ ~waiting /\ todo[1] \in Requests
      /\ toDrive' = Append(toDrive, todo[1])
      /\ waiting' = (todo[1].cmd # "nmt")
      /\ todo' = IF todo[1].cmd = "nmt" THEN Tail(todo) ELSE todo
      /\ seen' = 0
      /\ UNCHANGED <<toHost, op, steps, result, drive, pdo, history>>
  BY SendFacts
<1>2. toDrive' \in Seq(Requests) /\ todo' \in Seq(Requests)
  BY <1>1, QueueAppend, QueueTail DEF CanTypes, QueueTypes
<1>3. todo' = <<>> => ~waiting'
  BY <1>1
<1> QED
  <2>t1. QueueTypes'
    BY <1>1, <1>2, <1>3 DEF CanTypes, QueueTypes, history
  <2>t2. HostTypes'
    BY <1>1, <1>2, <1>3 DEF CanTypes, HostTypes, history
  <2>t3. BoundTypes'
    BY <1>1, <1>2, <1>3, CanFacts DEF CanTypes, BoundTypes, history
  <2>t4. DriveTypes'
    BY <1>1, <1>2, <1>3 DEF CanTypes, DriveTypes, history
  <2>t5. HistoryTypes'
    BY <1>1, <1>2, <1>3 DEF CanTypes, HistoryTypes, history
  <2> QED  BY <2>t1, <2>t2, <2>t3, <2>t4, <2>t5 DEF CanTypes

LEMMA SkipTypes ==
    ASSUME CanTypes, Skip
    PROVE  CanTypes'
<1>1. /\ todo # <<>> /\ waiting /\ toHost # <<>> /\ toHost' = Tail(toHost)
      /\ UNCHANGED <<toDrive, op, drive, pdo, excused>>
  BY DEF Skip
<1>2. toHost' \in Seq(Answers)
  BY <1>1, QueueTail DEF CanTypes, QueueTypes
<1>3. CASE seen + 1 = MaxFrames
  <2>1. Raise("error")
    BY <1>3 DEF Skip
  <2> QED
    <3>t1. QueueTypes'
      BY <1>1, <1>2, <2>1, RaiseTypes DEF CanTypes, QueueTypes
    <3>t2. HostTypes'
      BY <1>1, <1>2, <2>1, RaiseTypes DEF CanTypes, HostTypes
    <3>t3. BoundTypes'
      BY <1>1, <1>2, <2>1, RaiseTypes, CanFacts DEF CanTypes, BoundTypes
    <3>t4. DriveTypes'
      BY <1>1, <1>2, <2>1, RaiseTypes DEF CanTypes, DriveTypes
    <3>t5. HistoryTypes'
      BY <1>1, <1>2, <2>1, RaiseTypes DEF CanTypes, HistoryTypes
    <3> QED  BY <3>t1, <3>t2, <3>t3, <3>t4, <3>t5 DEF CanTypes
<1>4. CASE seen + 1 # MaxFrames
  <2>1. seen' = seen + 1 /\ UNCHANGED <<todo, waiting, result, steps, clean, quiet, confirmed>>
    BY <1>4 DEF Skip
  <2> QED
    <3>t1. QueueTypes'
      BY <1>1, <1>2, <1>4, <2>1 DEF CanTypes, QueueTypes
    <3>t2. HostTypes'
      BY <1>1, <1>2, <1>4, <2>1 DEF CanTypes, HostTypes
    <3>t3. BoundTypes'
      BY <1>1, <1>2, <1>4, <2>1, CanFacts DEF CanTypes, BoundTypes
    <3>t4. DriveTypes'
      BY <1>1, <1>2, <1>4, <2>1 DEF CanTypes, DriveTypes
    <3>t5. HistoryTypes'
      BY <1>1, <1>2, <1>4, <2>1 DEF CanTypes, HistoryTypes
    <3> QED  BY <3>t1, <3>t2, <3>t3, <3>t4, <3>t5 DEF CanTypes
<1> QED
  BY <1>3, <1>4

LEMMA AcceptTypes ==
    ASSUME CanTypes, Accept
    PROVE  CanTypes'
<1> DEFINE f == toHost[1]
<1>1. /\ todo # <<>> /\ waiting /\ toHost # <<>> /\ toHost' = Tail(toHost)
      /\ UNCHANGED <<toDrive, op, drive, pdo>>
  BY AcceptFacts
<1>2. toHost' \in Seq(Answers) /\ f \in Answers /\ f.fresh \in BOOLEAN
  <2>1. toHost' \in Seq(Answers) /\ f \in Answers
    BY <1>1, QueueTail DEF CanTypes, QueueTypes
  <2> QED  BY <2>1 DEF Answers
<1>3. ASSUME NEW how \in {"error", "exhausted"}, Raise(how), excused' = excused
      PROVE  CanTypes'
  <2>1. todo' = <<>> /\ waiting' = FALSE /\ result' = how /\ op' = op /\ seen' = 0 /\ steps' = 0
    BY <1>1, <1>3, RaiseTypes
  <2>t1. QueueTypes'
    BY <1>1, <1>2, <1>3, RaiseTypes DEF CanTypes, QueueTypes
  <2>t2. HostTypes'
    BY <2>1 DEF CanTypes, HostTypes
  <2>t3. BoundTypes'
    BY <2>1, CanFacts DEF BoundTypes
  <2>t4. DriveTypes'
    BY <1>1, <1>2, <1>3, RaiseTypes DEF CanTypes, DriveTypes
  <2>t5. HistoryTypes'
    BY <1>1, <1>2, <1>3, RaiseTypes DEF CanTypes, HistoryTypes
  <2> QED  BY <2>t1, <2>t2, <2>t3, <2>t4, <2>t5 DEF CanTypes
<1>4. ASSUME NEW rest \in Seq(Requests), Proceed(f, rest), NextRequests(f, rest)
      PROVE  CanTypes'
  <2>1. /\ todo' = rest /\ waiting' = FALSE /\ seen' = 0
        /\ result' = IF rest = <<>> THEN "ok" ELSE "none"
        /\ confirmed' = (f.fresh /\ f.state = "OPERATION_ENABLED")
        /\ excused' = (excused \/ (f.obj \in PdoObjects /\ ~f.fresh))
        /\ UNCHANGED <<clean, quiet>>
    BY <1>4 DEF Proceed
  <2>2. steps' \in 0..MaxSteps /\ (rest # <<>> => steps' < MaxSteps)
    BY <1>1, <1>4, CanFacts DEF NextRequests, CanTypes, BoundTypes
  <2>3. confirmed' \in BOOLEAN /\ excused' \in BOOLEAN
    BY <2>1
  <2> HIDE DEF f
  <2> QED
    <3>t1. QueueTypes'
      BY <1>1, <1>2, <1>4, <2>1, <2>2, <2>3 DEF CanTypes, QueueTypes
    <3>t2. HostTypes'
      BY <1>1, <1>2, <1>4, <2>1, <2>2, <2>3 DEF CanTypes, HostTypes
    <3>t3. BoundTypes'
      BY <1>1, <1>2, <1>4, <2>1, <2>2, <2>3, CanFacts DEF CanTypes, BoundTypes
    <3>t4. DriveTypes'
      BY <1>1, <1>2, <1>4, <2>1, <2>2, <2>3 DEF CanTypes, DriveTypes
    <3>t5. HistoryTypes'
      BY <1>1, <1>2, <1>4, <2>1, <2>2, <2>3 DEF CanTypes, HistoryTypes
    <3> QED  BY <3>t1, <3>t2, <3>t3, <3>t4, <3>t5 DEF CanTypes
<1> QED
  BY <1>3, <1>4, AcceptFacts

LEMMA ServeTypes ==
    ASSUME CanTypes, Serve
    PROVE  CanTypes'
<1>1. /\ toDrive # <<>> /\ toDrive' = Tail(toDrive) /\ toDrive[1] \in Requests
      /\ UNCHANGED <<hostvars, clean, confirmed>>
  BY ServeFacts
<1>2. toDrive' \in Seq(Requests)
  BY <1>1, QueueTail DEF CanTypes, QueueTypes
<1>3. drive \in Drives /\ pdo \in Pdos
  BY DEF CanTypes, DriveTypes
<1>4. /\ toHost' \in Seq(Answers) /\ drive' \in Drives /\ pdo' \in Pdos
      /\ quiet' \in BOOLEAN /\ excused' \in BOOLEAN
  <2>1. CASE /\ toDrive[1].cmd = "nmt" /\ drive' = [drive EXCEPT !.operational = TRUE]
             /\ UNCHANGED <<toHost, pdo, quiet, excused>>
    <3>1. drive' \in Drives
      BY <1>3, <2>1 DEF Drives
    <3> QED  BY <1>3, <2>1, <3>1 DEF CanTypes, HistoryTypes, QueueTypes
  <2>2. CASE toDrive[1].cmd \in {"up", "down"} /\ ~(toDrive[1].cmd = "nmt")
    <3>1. PICK a \in Answers :
            /\ toHost' = Append(toHost, a)
            /\ a.cmd = "abort" => quiet' = FALSE
            /\ a.cmd # "abort" => quiet' = quiet
            /\ a.cmd # "ack" => UNCHANGED <<drive, pdo, excused>>
            /\ a.cmd = "ack" =>
                 /\ drive' = IF toDrive[1].obj = "control"
                             THEN Controlled(drive, toDrive[1].val) ELSE drive
                 /\ pdo' = IF toDrive[1].obj \in PdoObjects
                           THEN Remapped(pdo, toDrive[1]) ELSE pdo
                 /\ excused' = (excused /\ ~(/\ toDrive[1].fresh /\ SwitchesOff(toDrive[1])
                                             /\ waiting /\ SwitchesOff(Head(todo))))
      BY <2>2, ServeFacts
    <3>2. toHost' \in Seq(Answers)
      BY <3>1, QueueAppend DEF CanTypes, QueueTypes
    <3>3. quiet' \in BOOLEAN /\ excused' \in BOOLEAN
      BY <3>1 DEF CanTypes, HistoryTypes
    <3>4. drive' \in Drives
      BY <1>1, <1>3, <3>1, StrengthOfRequests, ControlledFacts
    <3>5. pdo' \in Pdos
      BY <1>1, <1>3, <3>1, RemappedFacts
    <3> QED  BY <3>2, <3>3, <3>4, <3>5
  <2> QED  BY <2>1, <2>2, ServeFacts
<1> QED
  <2>t1. QueueTypes'
    BY <1>1, <1>2, <1>4 DEF CanTypes, QueueTypes, hostvars
  <2>t2. HostTypes'
    BY <1>1, <1>2, <1>4 DEF CanTypes, HostTypes, hostvars
  <2>t3. BoundTypes'
    BY <1>1, <1>2, <1>4 DEF CanTypes, BoundTypes, hostvars
  <2>t4. DriveTypes'
    BY <1>1, <1>2, <1>4 DEF CanTypes, DriveTypes, hostvars
  <2>t5. HistoryTypes'
    BY <1>1, <1>2, <1>4 DEF CanTypes, HistoryTypes, hostvars
  <2> QED  BY <2>t1, <2>t2, <2>t3, <2>t4, <2>t5 DEF CanTypes

LEMMA DisturbFacts ==
    ASSUME CanTypes, Disturb
    PROVE  /\ drive' \in Drives /\ drive'.operational = drive.operational
           /\ drive'.state = "OPERATION_ENABLED" => drive.state = "OPERATION_ENABLED"
           /\ quiet' = FALSE
           /\ UNCHANGED <<toDrive, toHost, hostvars, pdo, clean, confirmed, excused>>
<1>1. drive \in Drives
  BY DEF CanTypes, DriveTypes
<1>2. /\ quiet' = FALSE
      /\ UNCHANGED <<toDrive, toHost, hostvars, pdo, clean, confirmed, excused>>
  BY DEF Disturb
<1>3. \/ drive' = [drive EXCEPT !.state = "SWITCH_ON_DISABLED"]
      \/ drive' = [drive EXCEPT !.state = "FAULT_REACTION_ACTIVE", !.cause = TRUE]
      \/ drive' = [drive EXCEPT !.state = "FAULT"]
      \/ drive' = [drive EXCEPT !.cause = FALSE]
  BY DEF Disturb
<1>4. {"SWITCH_ON_DISABLED", "FAULT_REACTION_ACTIVE", "FAULT"} \subseteq States
  BY StateFacts
<1>5. CASE drive' = [drive EXCEPT !.state = "SWITCH_ON_DISABLED"]
  BY <1>1, <1>2, <1>4, <1>5 DEF Drives
<1>6. CASE drive' = [drive EXCEPT !.state = "FAULT_REACTION_ACTIVE", !.cause = TRUE]
  BY <1>1, <1>2, <1>4, <1>6 DEF Drives
<1>7. CASE drive' = [drive EXCEPT !.state = "FAULT"]
  BY <1>1, <1>2, <1>4, <1>7 DEF Drives
<1>8. CASE drive' = [drive EXCEPT !.cause = FALSE]
  BY <1>1, <1>2, <1>4, <1>8 DEF Drives
<1> QED
  BY <1>3, <1>5, <1>6, <1>7, <1>8

LEMMA ResetFacts ==
    ASSUME CanTypes, Reset
    PROVE  /\ drive' = PowerUp /\ drive' \in Drives /\ pdo' = DefaultPdo /\ pdo' \in Pdos
           /\ toDrive' = <<>> /\ toDrive' \in Seq(Requests) /\ Len(toDrive') = 0
           /\ quiet' = FALSE /\ excused' = (todo # <<>> /\ op \in Remaps)
           /\ clean' = (clean /\ op \notin Remaps) /\ clean' \in BOOLEAN /\ excused' \in BOOLEAN
           /\ UNCHANGED <<toHost, hostvars, confirmed>>
BY DefaultTypes DEF Reset, CanTypes, HistoryTypes

LEMMA TrafficFacts ==
    ASSUME CanTypes, Traffic
    PROVE  /\ waiting
           /\ \E a \in Answers : /\ toHost' = Append(toHost, a) /\ a.id = "other" /\ a.obj = "none"
                                 /\ a.fresh = FALSE /\ a.cmd = "data"
           /\ UNCHANGED <<toDrive, hostvars, drive, pdo, history>>
<1>1. PICK a : a = Frame("other", "data", "none", 0, FALSE)
  OBVIOUS
<1>2. a \in Answers /\ a.id = "other" /\ a.obj = "none" /\ a.fresh = FALSE /\ a.cmd = "data"
  BY <1>1, StateFacts DEF Frame, Answers, Objects
<1> QED
  BY <1>1, <1>2 DEF Traffic

LEMMA TypesNext ==
    ASSUME CanTypes, TodoByMethod, [CanNext]_canvars
    PROVE  CanTypes'
<1>1. ASSUME NEW m \in Methods, Call(m) PROVE CanTypes'
  BY <1>1, CallTypes
<1>2. CASE Send
  BY <1>2, SendTypes
<1>3. CASE SocketFails
  <2>1. Raise("error") /\ UNCHANGED <<toDrive, toHost, op, drive, pdo, excused>>
    BY <1>3 DEF SocketFails
  <2> QED
    <3>t1. QueueTypes'
      BY <2>1, RaiseTypes DEF CanTypes, QueueTypes
    <3>1. todo' = <<>> /\ waiting' = FALSE /\ result' = "error" /\ op' = op /\ seen' = 0 /\ steps' = 0
      BY <2>1, RaiseTypes
    <3>t2. HostTypes'
      BY <3>1 DEF CanTypes, HostTypes
    <3>t3. BoundTypes'
      BY <3>1, CanFacts DEF BoundTypes
    <3>t4. DriveTypes'
      BY <2>1, RaiseTypes DEF CanTypes, DriveTypes
    <3>t5. HistoryTypes'
      BY <2>1, RaiseTypes DEF CanTypes, HistoryTypes
    <3> QED  BY <3>t1, <3>t2, <3>t3, <3>t4, <3>t5 DEF CanTypes
<1>4. CASE Skip
  BY <1>4, SkipTypes
<1>5. CASE Accept
  BY <1>5, AcceptTypes
<1>6. CASE Serve
  BY <1>6, ServeTypes
<1>7. CASE Disturb
  <2>1. todo' = todo /\ toHost' = toHost /\ (toDrive' = toDrive \/ toDrive' \in Seq(Requests))
    BY <1>7, DisturbFacts DEF hostvars
  <2>2. UNCHANGED <<op, todo, waiting, seen, steps, result>>
    BY <1>7, DisturbFacts DEF hostvars
  <2>t1. QueueTypes'
    BY <2>1 DEF CanTypes, QueueTypes
  <2>t2. HostTypes'
    BY <2>2 DEF CanTypes, HostTypes
  <2>t3. BoundTypes'
    BY <2>2 DEF CanTypes, BoundTypes
  <2>t4. DriveTypes'
    BY <1>7, DisturbFacts DEF CanTypes, DriveTypes, hostvars
  <2>t5. HistoryTypes'
    BY <1>7, DisturbFacts DEF CanTypes, HistoryTypes, hostvars
  <2> QED  BY <2>t1, <2>t2, <2>t3, <2>t4, <2>t5 DEF CanTypes
<1>8. CASE Reset
  <2>1. todo' = todo /\ toHost' = toHost /\ (toDrive' = toDrive \/ toDrive' \in Seq(Requests))
    BY <1>8, ResetFacts DEF hostvars
  <2>2. UNCHANGED <<op, todo, waiting, seen, steps, result>>
    BY <1>8, ResetFacts DEF hostvars
  <2>t1. QueueTypes'
    BY <2>1 DEF CanTypes, QueueTypes
  <2>t2. HostTypes'
    BY <2>2 DEF CanTypes, HostTypes
  <2>t3. BoundTypes'
    BY <2>2 DEF CanTypes, BoundTypes
  <2>t4. DriveTypes'
    BY <1>8, ResetFacts DEF CanTypes, DriveTypes, hostvars
  <2>t5. HistoryTypes'
    BY <1>8, ResetFacts DEF CanTypes, HistoryTypes, hostvars
  <2> QED  BY <2>t1, <2>t2, <2>t3, <2>t4, <2>t5 DEF CanTypes
<1>9. CASE Traffic
  <2>1. PICK a \in Answers : toHost' = Append(toHost, a)
    BY <1>9, TrafficFacts
  <2>2. toHost' \in Seq(Answers)
    BY <2>1, QueueAppend DEF CanTypes, QueueTypes
  <2> QED
    <3>t1. QueueTypes'
      BY <1>9, <2>2, TrafficFacts DEF CanTypes, QueueTypes, hostvars, history
    <3>t2. HostTypes'
      BY <1>9, <2>2, TrafficFacts DEF CanTypes, HostTypes, hostvars, history
    <3>t3. BoundTypes'
      BY <1>9, <2>2, TrafficFacts DEF CanTypes, BoundTypes, hostvars, history
    <3>t4. DriveTypes'
      BY <1>9, <2>2, TrafficFacts DEF CanTypes, DriveTypes, hostvars, history
    <3>t5. HistoryTypes'
      BY <1>9, <2>2, TrafficFacts DEF CanTypes, HistoryTypes, hostvars, history
    <3> QED  BY <3>t1, <3>t2, <3>t3, <3>t4, <3>t5 DEF CanTypes
<1>10. CASE UNCHANGED canvars
  <2>t1. QueueTypes'
    BY <1>10 DEF CanTypes, QueueTypes, canvars, hostvars, history
  <2>t2. HostTypes'
    BY <1>10 DEF CanTypes, HostTypes, canvars, hostvars, history
  <2>t3. BoundTypes'
    BY <1>10 DEF CanTypes, BoundTypes, canvars, hostvars, history
  <2>t4. DriveTypes'
    BY <1>10 DEF CanTypes, DriveTypes, canvars, hostvars, history
  <2>t5. HistoryTypes'
    BY <1>10 DEF CanTypes, HistoryTypes, canvars, hostvars, history
  <2> QED  BY <2>t1, <2>t2, <2>t3, <2>t4, <2>t5 DEF CanTypes
<1> QED
  BY <1>1, <1>2, <1>3, <1>4, <1>5, <1>6, <1>7, <1>8, <1>9, <1>10 DEF CanNext, HostStep, RecvTimesOut
-------------------------------------------------------------------------------
(* The order of the bus, what an answer says, and what a method has left.       *)
LEMMA TupleFacts ==
    ASSUME NEW x, NEW y, NEW z
    PROVE  /\ <<x>> # <<>> /\ Tail(<<x>>) = <<>> /\ <<x>>[1] = x /\ Len(<<x>>) = 1
           /\ <<x, y>> # <<>> /\ Tail(<<x, y>>) = <<y>> /\ <<x, y>>[1] = x /\ Len(<<x, y>>) = 2
           /\ <<x, y, z>> # <<>> /\ Tail(<<x, y, z>>) = <<y, z>> /\ <<x, y, z>>[1] = x
           /\ Len(<<x, y, z>>) = 3
OBVIOUS

LEMMA FieldFacts ==
    /\ \A o, v : Down(o, v).cmd = "down" /\ Down(o, v).obj = o /\ Down(o, v).val = v /\ Down(o, v).fresh
    /\ \A o : Up(o).cmd = "up" /\ Up(o).obj = o /\ Up(o).fresh
    /\ Nmt.cmd = "nmt" /\ Nmt.obj = "node" /\ Nmt.fresh
BY DEF Down, Up, Nmt

LEMMA QueuesTyped ==
    ASSUME CanTypes
    PROVE  toDrive \in Seq(Requests) /\ toHost \in Seq(Answers) /\ todo \in Seq(Requests)
BY DEF CanTypes, QueueTypes

(* Everything but a call, and what it does to the queues of frames.             *)
CanStep == HostStep \/ SocketFails \/ Serve \/ Disturb \/ Reset \/ Traffic \/ UNCHANGED canvars
QueueStep ==
    \/ todo # <<>> /\ toDrive' = Append(toDrive, todo[1]) /\ toHost' = toHost
    \/ toHost # <<>> /\ toDrive' = toDrive /\ toHost' = Tail(toHost)
    \/ toDrive # <<>> /\ toDrive' = Tail(toDrive) /\ toHost' = toHost
    \/ toDrive # <<>> /\ toDrive' = Tail(toDrive) /\ \E a \in Answers :
          /\ toHost' = Append(toHost, a) /\ a.id = "sdo" /\ a.obj = toDrive[1].obj
          /\ a.fresh = toDrive[1].fresh
          /\ a.cmd = "data" => toDrive[1].cmd = "up" /\ a.val \in StatusWords(a.state)
          /\ a.cmd = "ack" => toDrive[1].cmd = "down"
    \/ toDrive' = <<>> /\ toHost' = toHost
    \/ toDrive' = toDrive /\ \E a \in Answers :
          /\ toHost' = Append(toHost, a) /\ a.id = "other" /\ a.obj = "none" /\ a.fresh = FALSE
          /\ a.cmd = "data"
    \/ toDrive' = toDrive /\ toHost' = toHost

LEMMA CallOrStep ==
    ASSUME [CanNext]_canvars
    PROVE  (\E m \in Methods : Call(m)) \/ CanStep
BY DEF CanNext, CanStep

LEMMA QueueStepTaken ==
    ASSUME CanTypes, CanStep
    PROVE  QueueStep
<1>2. CASE Send
  BY <1>2, SendFacts DEF QueueStep
<1>3. CASE SocketFails
  BY <1>3 DEF SocketFails, QueueStep
<1>4. CASE Skip
  BY <1>4 DEF Skip, QueueStep
<1>5. CASE Accept
  BY <1>5, AcceptFacts DEF QueueStep
<1>6. CASE Serve
  <2>1. CASE UNCHANGED toHost
    BY <1>6, <2>1, ServeFacts DEF QueueStep
  <2>2. CASE ~UNCHANGED toHost
    <3>1. toDrive # <<>> /\ toDrive' = Tail(toDrive)
      BY <1>6, ServeFacts
    <3>2. PICK a \in Answers :
            /\ toHost' = Append(toHost, a) /\ a.id = "sdo" /\ a.obj = toDrive[1].obj
            /\ a.fresh = toDrive[1].fresh
            /\ a.cmd = "data" => toDrive[1].cmd = "up" /\ a.val \in StatusWords(a.state)
            /\ a.cmd = "ack" => toDrive[1].cmd = "down"
      BY <1>6, <2>2, ServeFacts
    <3> QED  BY <3>1, <3>2 DEF QueueStep
  <2> QED  BY <2>1, <2>2
<1>7. CASE Disturb
  BY <1>7, DisturbFacts DEF QueueStep
<1>8. CASE Reset
  BY <1>8, ResetFacts DEF QueueStep
<1>9. CASE Traffic
  BY <1>9, TrafficFacts DEF QueueStep
<1>10. CASE UNCHANGED canvars
  BY <1>10 DEF canvars, QueueStep
<1> QED
  BY <1>2, <1>3, <1>4, <1>5, <1>6, <1>7, <1>8, <1>9, <1>10 DEF CanStep, HostStep, RecvTimesOut

(* Where the frames of the next state come from.                                *)
LEMMA AppendedAt ==
    ASSUME NEW S, NEW q \in Seq(S), NEW e \in S, NEW n, n = Append(q, e)
    PROVE  /\ Len(q) \in Nat /\ Len(n) = Len(q) + 1 /\ n[Len(q) + 1] = e
           /\ \A i \in 1..Len(n) : i = Len(q) + 1 \/ (i \in 1..Len(q) /\ n[i] = q[i])
<1>1. /\ Append(q, e) \in Seq(S) /\ Len(Append(q, e)) = Len(q) + 1 /\ Append(q, e) # <<>>
      /\ \A i \in 1..Len(q) : Append(q, e)[i] = q[i]
      /\ Append(q, e)[Len(q) + 1] = e
  BY QueueAppend, Zenon
<1>2. Len(q) \in Nat
  OBVIOUS
<1> QED
  BY <1>1, <1>2

LEMMA TailAt ==
    ASSUME NEW S, NEW q \in Seq(S), q # <<>>, NEW n, n = Tail(q)
    PROVE  /\ Len(q) \in Nat /\ Len(q) >= 1 /\ Len(n) = Len(q) - 1
           /\ \A i \in 1..Len(n) : i + 1 \in 1..Len(q) /\ n[i] = q[i + 1]
BY QueueTail

LEMMA InOrderNext ==
    ASSUME CanTypes, InOrder, TodoByMethod, [CanNext]_canvars,
           \A i \in 1..Len(todo) : todo[i].fresh
    PROVE  InOrder'
<1>0. /\ toDrive \in Seq(Requests) /\ toHost \in Seq(Answers) /\ todo \in Seq(Requests)
      /\ Len(toDrive) \in Nat /\ Len(toHost) \in Nat
  BY QueuesTyped
<1>1. CASE \E m \in Methods : Call(m)
  <2>0. toDrive' = Aged(toDrive) /\ toHost' = Aged(toHost)
    BY <1>1 DEF Call
  <2>1. \A i \in 1..Len(toDrive') : toDrive'[i].fresh = FALSE
    BY <1>0, <2>0, AgedRequests
  <2>2. \A i \in 1..Len(toHost') : toHost'[i].fresh = FALSE
    BY <1>0, <2>0, AgedAnswers
  <2> QED  BY <2>1, <2>2 DEF InOrder
<1>2. CASE todo # <<>> /\ toDrive' = Append(toDrive, todo[1]) /\ toHost' = toHost
  <2>1. todo[1] \in Requests /\ todo[1].fresh
    BY <1>0, <1>2, QueueTail
  <2>2. /\ Len(toDrive') = Len(toDrive) + 1 /\ toDrive'[Len(toDrive) + 1] = todo[1]
        /\ \A i \in 1..Len(toDrive') :
              i = Len(toDrive) + 1 \/ (i \in 1..Len(toDrive) /\ toDrive'[i] = toDrive[i])
    BY <1>0, <1>2, <2>1, AppendedAt
  <2> QED  BY <1>0, <1>2, <2>1, <2>2 DEF InOrder
<1>3. CASE toHost # <<>> /\ toDrive' = toDrive /\ toHost' = Tail(toHost)
  BY <1>0, <1>3, TailAt DEF InOrder
<1>4. CASE toDrive # <<>> /\ toDrive' = Tail(toDrive) /\ toHost' = toHost
  <2>1. \A i \in 1..Len(toDrive') : i + 1 \in 1..Len(toDrive) /\ toDrive'[i] = toDrive[i + 1]
    BY <1>0, <1>4, TailAt
  <2> QED  BY <1>0, <1>4, <2>1 DEF InOrder
<1>5. CASE toDrive # <<>> /\ toDrive' = Tail(toDrive) /\ \E a \in Answers :
             toHost' = Append(toHost, a) /\ a.fresh = toDrive[1].fresh
  <2>1. /\ Len(toDrive) >= 1 /\ Len(toDrive') = Len(toDrive) - 1
        /\ \A i \in 1..Len(toDrive') : i + 1 \in 1..Len(toDrive) /\ toDrive'[i] = toDrive[i + 1]
    BY <1>0, <1>5, TailAt
  <2>2. PICK a \in Answers : toHost' = Append(toHost, a) /\ a.fresh = toDrive[1].fresh
    BY <1>5
  <2>3. /\ Len(toHost') = Len(toHost) + 1 /\ toHost'[Len(toHost) + 1] = a
        /\ \A i \in 1..Len(toHost') :
              i = Len(toHost) + 1 \/ (i \in 1..Len(toHost) /\ toHost'[i] = toHost[i])
    BY <1>0, <2>2, AppendedAt
  <2>4. \A j \in 1..Len(toDrive') : toDrive[1].fresh => toDrive'[j].fresh
    <3>1. 1 \in 1..Len(toDrive)
      BY <1>0, <2>1
    <3>2. \A j \in 1..Len(toDrive) : 1 < j /\ toDrive[1].fresh => toDrive[j].fresh
      BY <3>1 DEF InOrder
    <3>3. \A j \in 1..Len(toDrive') : 1 < j + 1
      OBVIOUS
    <3> QED  BY <2>1, <3>2, <3>3
  <2>5. ASSUME NEW i \in 1..Len(toDrive'), NEW j \in 1..Len(toDrive'), i < j, toDrive'[i].fresh
        PROVE  toDrive'[j].fresh
    <3>1. /\ i + 1 \in 1..Len(toDrive) /\ j + 1 \in 1..Len(toDrive) /\ i + 1 < j + 1
          /\ toDrive[i + 1].fresh /\ toDrive'[j] = toDrive[j + 1]
      BY <1>0, <2>1, <2>5
    <3> QED  BY <3>1 DEF InOrder
  <2>6. ASSUME NEW i \in 1..Len(toHost'), NEW j \in 1..Len(toDrive'), toHost'[i].fresh
        PROVE  toDrive'[j].fresh
    <3>1. CASE i = Len(toHost) + 1
      BY <2>2, <2>3, <2>4, <2>6, <3>1
    <3>2. CASE i \in 1..Len(toHost) /\ toHost'[i] = toHost[i]
      BY <2>1, <2>6, <3>2 DEF InOrder
    <3> QED  BY <2>3, <3>1, <3>2
  <2> QED  BY <2>5, <2>6 DEF InOrder
<1>6. CASE toDrive' = <<>> /\ toHost' = toHost
  BY <1>6 DEF InOrder
<1>7. CASE toDrive' = toDrive /\ \E a \in Answers : toHost' = Append(toHost, a) /\ a.fresh = FALSE
  <2>1. PICK a \in Answers : toHost' = Append(toHost, a) /\ a.fresh = FALSE
    BY <1>7
  <2>2. /\ Len(toHost') = Len(toHost) + 1 /\ toHost'[Len(toHost) + 1] = a
        /\ \A i \in 1..Len(toHost') :
              i = Len(toHost) + 1 \/ (i \in 1..Len(toHost) /\ toHost'[i] = toHost[i])
    BY <1>0, <2>1, AppendedAt
  <2> QED  BY <1>0, <1>7, <2>1, <2>2 DEF InOrder
<1>8. CASE toDrive' = toDrive /\ toHost' = toHost
  BY <1>8 DEF InOrder
<1>9. CASE CanStep
  <2>1. QueueStep
    BY <1>9, QueueStepTaken
  <2> QED  BY <2>1, <1>2, <1>3, <1>4, <1>5, <1>6, <1>7, <1>8 DEF QueueStep
<1> QED
  BY <1>1, <1>9, CallOrStep

LEMMA TruthfulNext ==
    ASSUME CanTypes, AnswersTruthful, [CanNext]_canvars
    PROVE  AnswersTruthful'
<1>0. toDrive \in Seq(Requests) /\ toHost \in Seq(Answers) /\ todo \in Seq(Requests)
  BY QueuesTyped
<1>1. CASE \E m \in Methods : Call(m)
  <2>0. toHost' = Aged(toHost)
    BY <1>1 DEF Call
  <2>1. /\ Len(toHost') = Len(toHost)
        /\ \A i \in 1..Len(toHost) :
             /\ toHost'[i].id = toHost[i].id /\ toHost'[i].cmd = toHost[i].cmd
             /\ toHost'[i].obj = toHost[i].obj /\ toHost'[i].val = toHost[i].val
             /\ toHost'[i].state = toHost[i].state /\ toHost'[i].fresh = FALSE
    BY <1>0, <2>0, AgedAnswers
  <2> QED  BY <2>1 DEF AnswersTruthful, Truthful
<1>2. CASE toHost # <<>> /\ toHost' = Tail(toHost)
  <2>1. \A i \in 1..Len(toHost') : i + 1 \in 1..Len(toHost) /\ toHost'[i] = toHost[i + 1]
    BY <1>0, <1>2, TailAt
  <2> QED  BY <2>1 DEF AnswersTruthful
<1>3. ASSUME NEW a \in Answers, toHost' = Append(toHost, a), Truthful(a)
      PROVE  AnswersTruthful'
  <2>1. /\ Len(toHost') = Len(toHost) + 1 /\ toHost'[Len(toHost) + 1] = a
        /\ \A i \in 1..Len(toHost') :
              i = Len(toHost) + 1 \/ (i \in 1..Len(toHost) /\ toHost'[i] = toHost[i])
    BY <1>0, <1>3, AppendedAt
  <2> QED  BY <1>3, <2>1 DEF AnswersTruthful
<1>4. CASE toDrive # <<>> /\ toDrive' = Tail(toDrive) /\ \E a \in Answers :
              /\ toHost' = Append(toHost, a) /\ a.id = "sdo" /\ a.obj = toDrive[1].obj
              /\ a.fresh = toDrive[1].fresh
              /\ a.cmd = "data" => toDrive[1].cmd = "up" /\ a.val \in StatusWords(a.state)
              /\ a.cmd = "ack" => toDrive[1].cmd = "down"
  <2>1. PICK a \in Answers :
              /\ toHost' = Append(toHost, a) /\ a.id = "sdo" /\ a.obj = toDrive[1].obj
              /\ a.cmd = "data" => toDrive[1].cmd = "up" /\ a.val \in StatusWords(a.state)
              /\ a.cmd = "ack" => toDrive[1].cmd = "down"
    BY <1>4
  <2>2. toDrive[1] \in Requests
    BY <1>0, <1>4, QueueTail
  <2>3. Truthful(a)
    BY <2>1, <2>2, StrengthOfRequests DEF Truthful
  <2> QED  BY <1>3, <2>1, <2>3
<1>5. CASE \E a \in Answers : /\ toHost' = Append(toHost, a) /\ a.id = "other" /\ a.obj = "none"
                              /\ a.fresh = FALSE /\ a.cmd = "data"
  <2>1. PICK a \in Answers : /\ toHost' = Append(toHost, a) /\ a.id = "other" /\ a.obj = "none"
                             /\ a.fresh = FALSE /\ a.cmd = "data"
    BY <1>5
  <2>2. Truthful(a)
    BY <2>1 DEF Truthful
  <2> QED  BY <1>3, <2>1, <2>2
<1>6. CASE toHost' = toHost
  BY <1>6 DEF AnswersTruthful
<1>7. CASE CanStep
  <2>1. QueueStep
    BY <1>7, QueueStepTaken
  <2> QED  BY <2>1, <1>2, <1>4, <1>5, <1>6 DEF QueueStep
<1> QED
  BY <1>1, <1>7, CallOrStep

LEMMA PlanAt ==
    ASSUME NEW m \in {"csp", "cst"}, NEW i \in 1..Len(Plan(m))
    PROVE  /\ Plan(m)[i] \in Requests /\ Plan(m)[i].cmd = "down" /\ Plan(m)[i].fresh
           /\ Plan(m)[i].obj \in PdoObjects
           /\ SwitchesOff(Plan(m)[i]) <=> i = 1
<1>1. Plan(m) \in Seq(Requests)
  BY PlansAreRequests
<1>2. \/ i = 1 /\ Plan(m)[i] = Down("cob", "off")
      \/ i # 1 /\ Plan(m)[i] = Down("count", 0)
      \/ i # 1 /\ \E k \in 1..3 : Plan(m)[i] = Down(EntryObject[k], Mapping[m][k])
      \/ i # 1 /\ Plan(m)[i] = Down("count", 3)
      \/ i # 1 /\ Plan(m)[i] = Down("type", 1)
      \/ i # 1 /\ Plan(m)[i] = Down("cob", "on")
  <2>1. /\ Len(Plan(m)) = (IF m = "csp" THEN 8 ELSE 7) /\ i \in Nat
        /\ i = 1 \/ i = 2 \/ i = 3 \/ i = 4 \/ i = 5 \/ i = 6 \/ (i = 7 /\ m = "csp")
           \/ i = Len(Plan(m))
    <3>1. Len(Plan(m)) = IF m = "csp" THEN 8 ELSE 7
      BY PlanFacts
    <3> QED  BY <3>1
  <2>2. CASE i \in 3..5
    <3>1. i - 2 \in 1..3 /\ 2 + (i - 2) = i
      BY <2>2
    <3>2. Plan(m)[2 + (i - 2)] = Down(EntryObject[i - 2], Mapping[m][i - 2])
      BY <3>1, PlanFacts
    <3> QED  BY <2>2, <3>1, <3>2
  <2>3. /\ Plan(m)[1] = Down("cob", "off") /\ Plan(m)[2] = Down("count", 0)
        /\ Plan(m)[6] = Down("count", 3) /\ (m = "csp" => Plan(m)[7] = Down("type", 1))
        /\ Plan(m)[Len(Plan(m))] = Down("cob", "on")
    BY PlanFacts
  <2> QED  BY <2>1, <2>2, <2>3
<1>3. \A k \in 1..3 : EntryObject[k] \in MapObjects
  BY DEF EntryObject, MapObjects
<1> QED
  BY <1>1, <1>2, <1>3, FieldFacts, QueueAt DEF SwitchesOff, PdoObjects, MapObjects

LEMMA TodoFacts ==
    ASSUME CanTypes, TodoByMethod
    PROVE  /\ \A i \in 1..Len(todo) : todo[i].fresh
           /\ todo # <<>> /\ op \in Remaps =>
                 /\ op \in {"csp", "cst"} /\ Done \in Nat /\ Done < Len(Plan(op))
                 /\ Len(Plan(op)) = (IF op = "csp" THEN 8 ELSE 7)
                 /\ Len(todo) = Len(Plan(op)) - Done
                 /\ todo[1] = Plan(op)[Done + 1] /\ Done + 1 \in 1..Len(Plan(op))
                 /\ todo[1].cmd = "down" /\ todo[1].obj \in PdoObjects
           /\ todo # <<>> /\ op \notin Remaps => todo[1].obj \notin PdoObjects
           /\ todo # <<>> /\ todo[1].cmd = "nmt" =>
                 op = "enable_operation" /\ todo = <<Nmt, Up("status")>>
<1>0. todo \in Seq(Requests) /\ op \in Methods
  BY DEF CanTypes, QueueTypes, HostTypes
<1>1. CASE todo = <<>>
  BY <1>1
<1>2. CASE todo # <<>> /\ op \in Remaps
  <2>1. /\ op \in {"csp", "cst"} /\ Done \in Nat
        /\ \A i \in 1..Len(todo) : todo[i] = Plan(op)[Done + i]
        /\ Len(Plan(op)) = (IF op = "csp" THEN 8 ELSE 7)
        /\ Len(todo) = Len(Plan(op)) - Done /\ Len(todo) >= 1
    <3>1. op \in {"csp", "cst"}
      BY <1>2, MethodFacts
    <3>2. Len(Plan(op)) = (IF op = "csp" THEN 8 ELSE 7)
      BY <3>1, PlanFacts
    <3>3. Len(todo) \in Nat /\ Len(todo) >= 1
      BY <1>0, <1>2, QueueTail
    <3>4. Done >= 0 /\ \A i \in 1..Len(todo) : todo[i] = Plan(op)[Done + i]
      BY <1>2 DEF TodoByMethod
    <3> QED  BY <3>1, <3>2, <3>3, <3>4 DEF Done
  <2>2. \A i \in 1..Len(todo) : Done + i \in 1..Len(Plan(op))
    BY <2>1
  <2>3. ASSUME NEW i \in 1..Len(todo)
        PROVE  todo[i].cmd = "down" /\ todo[i].fresh /\ todo[i].obj \in PdoObjects
    <3>1. PICK k \in 1..Len(Plan(op)) : k = Done + i
      BY <2>2
    <3>2. Plan(op)[k].cmd = "down" /\ Plan(op)[k].fresh /\ Plan(op)[k].obj \in PdoObjects
      BY <2>1, PlanAt
    <3> QED  BY <2>1, <3>1, <3>2
  <2>4. 1 \in 1..Len(todo)
    BY <2>1
  <2> QED  BY <1>2, <2>1, <2>2, <2>3, <2>4
<1>3. CASE todo # <<>> /\ op \notin Remaps
  <2>1. \/ todo = <<Down("mode", 8), Nmt, Up("status")>> /\ op = "enable_operation"
        \/ todo = <<Nmt, Up("status")>> /\ op = "enable_operation"
        \/ todo = <<Up("status")>>
        \/ \E cw \in Int : todo = <<Down("control", cw)>>
    BY <1>0, <1>3, MethodFacts DEF TodoByMethod, EnableTodo
  <2>2. CASE todo = <<Down("mode", 8), Nmt, Up("status")>>
    <3>1. \A i \in 1..3 : todo[i] = Down("mode", 8) \/ todo[i] = Nmt \/ todo[i] = Up("status")
      BY <2>2
    <3>2. Len(todo) = 3 /\ todo[1] = Down("mode", 8)
      BY <2>2
    <3> QED  BY <1>3, <3>1, <3>2, FieldFacts DEF PdoObjects
  <2>3. CASE todo = <<Nmt, Up("status")>> /\ op = "enable_operation"
    <3>1. \A i \in 1..2 : todo[i] = Nmt \/ todo[i] = Up("status")
      BY <2>3
    <3>2. Len(todo) = 2 /\ todo[1] = Nmt
      BY <2>3
    <3> QED  BY <1>3, <2>3, <3>1, <3>2, FieldFacts DEF PdoObjects
  <2>4. CASE \E r : todo = <<r>> /\ r.fresh /\ r.cmd # "nmt" /\ r.obj \in {"status", "control"}
    <3>1. PICK r : todo = <<r>> /\ r.fresh /\ r.cmd # "nmt" /\ r.obj \in {"status", "control"}
      BY <2>4
    <3>2. Len(todo) = 1 /\ todo[1] = r
      BY <3>1
    <3> QED  BY <1>3, <3>1, <3>2 DEF PdoObjects
  <2> QED  BY <2>1, <2>2, <2>3, <2>4, FieldFacts
<1> QED
  BY <1>1, <1>2, <1>3
LEMMA CallTodo ==
    ASSUME CanTypes, NEW m \in Methods, Call(m)
    PROVE  TodoByMethod'
<1>1. op' = m /\ todo' = RequestsOf(m) /\ waiting' = FALSE
  BY DEF Call
<1>2. m = "enable_operation" => EnableTodo'
  BY <1>1, RequestsOfFacts DEF EnableTodo
<1>3. m \in Remaps => Done' = 0 /\ \A i \in 1..Len(todo') : todo'[i] = Plan(m)[0 + i]
  <2>1. ASSUME m \in Remaps PROVE Done' = 0 /\ \A i \in 1..Len(todo') : todo'[i] = Plan(m)[0 + i]
    <3>1. todo' = Plan(m) /\ op' = m
      BY <1>1, <2>1, RequestsOfFacts
    <3>2. Plan(m) \in Seq(Requests)
      BY <2>1, MethodFacts, PlansAreRequests
    <3>3. Len(Plan(m)) \in Nat
      BY <3>2
    <3> QED  BY <3>1, <3>3 DEF Done
  <2> QED  BY <2>1
<1>4. /\ m = "quick_stop" => todo' = <<Down("control", 11)>>
      /\ m = "disable_voltage" => todo' = <<Down("control", 0)>>
      /\ m = "statusword" => todo' = <<Up("status")>>
  BY <1>1, RequestsOfFacts
<1> QED
  BY <1>1, <1>2, <1>3, <1>4 DEF TodoByMethod

LEMMA SendTodo ==
    ASSUME CanTypes, TodoByMethod, Send
    PROVE  TodoByMethod'
<1>1. /\ todo # <<>> /\ ~waiting /\ op' = op
      /\ waiting' = (todo[1].cmd # "nmt")
      /\ todo' = IF todo[1].cmd = "nmt" THEN Tail(todo) ELSE todo
  BY SendFacts
<1>2. CASE todo[1].cmd = "nmt"
  <2>1. op = "enable_operation" /\ todo = <<Nmt, Up("status")>>
    BY <1>1, <1>2, TodoFacts
  <2>2. todo' = <<Up("status")>> /\ waiting' = FALSE /\ op' = "enable_operation"
    <3>1. todo' = Tail(todo) /\ waiting' = FALSE /\ op' = op
      BY <1>1, <1>2
    <3>2. Tail(<<Nmt, Up("status")>>) = <<Up("status")>>
      BY TupleFacts, Zenon
    <3> QED  BY <2>1, <3>1, <3>2, Zenon
  <2>3. op' \notin Remaps
    BY <2>2, MethodFacts
  <2> QED  BY <2>2, <2>3 DEF TodoByMethod, EnableTodo
<1>3. CASE todo[1].cmd # "nmt"
  <2>1. todo' = todo /\ op' = op
    BY <1>1, <1>3
  <2> QED  BY <1>1, <1>3, <2>1 DEF TodoByMethod, EnableTodo, Done
<1> QED
  BY <1>2, <1>3

LEMMA AcceptTodo ==
    ASSUME CanTypes, TodoByMethod, Accept
    PROVE  TodoByMethod'
<1>1. /\ todo # <<>> /\ waiting /\ op' = op /\ toHost[1].obj = todo[1].obj
  BY AcceptFacts
<1>2. ASSUME todo' = <<>> PROVE TodoByMethod'
  BY <1>2 DEF TodoByMethod
<1>3. ASSUME NEW rest \in Seq(Requests), Proceed(toHost[1], rest), NextRequests(toHost[1], rest)
      PROVE  TodoByMethod'
  <2>1. todo' = rest /\ waiting' = FALSE
    BY <1>3 DEF Proceed
  <2>2. CASE op \in Remaps
    <3>1. rest = Tail(todo) /\ op' = op
      BY <1>1, <1>3, <2>2, MethodFacts DEF NextRequests
    <3>2. CASE rest = <<>>
      BY <1>2, <2>1, <3>2
    <3>3. CASE rest # <<>>
      <4>1. /\ Done \in Nat /\ Len(todo) = Len(Plan(op)) - Done
            /\ Len(Plan(op)) = (IF op = "csp" THEN 8 ELSE 7)
            /\ \A i \in 1..Len(todo) : todo[i] = Plan(op)[Done + i]
        BY <1>1, <2>2, TodoFacts DEF TodoByMethod
      <4>2. /\ Len(todo) \in Nat /\ Len(rest) = Len(todo) - 1
            /\ \A i \in 1..Len(rest) : i + 1 \in 1..Len(todo) /\ rest[i] = todo[i + 1]
        BY <1>1, <3>1, QueuesTyped, TailAt
      <4>3. Done' = Done + 1
        BY <2>1, <3>1, <4>1, <4>2 DEF Done
      <4>4. \A i \in 1..Len(rest) : rest[i] = Plan(op)[(Done + 1) + i]
        BY <4>1, <4>2
      <4>5. \A i \in 1..Len(todo') : todo'[i] = Plan(op')[Done' + i]
        BY <2>1, <3>1, <4>3, <4>4
      <4>6. Done' >= 0
        BY <4>1, <4>3
      <4>7. /\ op' # "enable_operation" /\ op' # "quick_stop" /\ op' # "disable_voltage"
            /\ op' # "statusword"
        BY <2>2, <3>1, MethodFacts
      <4> QED  BY <2>1, <4>5, <4>6, <4>7 DEF TodoByMethod
    <3> QED  BY <3>2, <3>3
  <2>3. CASE op \in {"quick_stop", "disable_voltage", "statusword"}
    <3>1. rest = Tail(todo)
      BY <1>3, <2>3 DEF NextRequests
    <3>2. \E x : todo = <<x>>
      BY <1>1, <2>3 DEF TodoByMethod
    <3>3. rest = <<>>
      BY <3>1, <3>2, TupleFacts
    <3> QED  BY <1>2, <2>1, <3>3
  <2>4. CASE op = "enable_operation"
    <3>1. EnableTodo /\ todo[1].cmd # "nmt"
      BY <1>1, <2>4 DEF TodoByMethod
    <3>2. CASE rest = <<>>
      BY <1>2, <2>1, <3>2
    <3>3. CASE \E cw \in {0, 6, 7, 15, 128} : rest = <<Down("control", cw)>>
      <4>1. EnableTodo'
        BY <2>1, <3>3 DEF EnableTodo
      <4> QED  BY <1>1, <2>1, <2>4, <4>1, MethodFacts DEF TodoByMethod
    <3>4. CASE rest = <<Up("status")>>
      <4>1. EnableTodo'
        BY <2>1, <3>4 DEF EnableTodo
      <4> QED  BY <1>1, <2>1, <2>4, <4>1, MethodFacts DEF TodoByMethod
    <3>5. CASE rest = Tail(todo) /\ todo[1].obj \notin {"status", "control"}
      <4>1. todo = <<Down("mode", 8), Nmt, Up("status")>>
        <5>1. CASE todo = <<Nmt, Up("status")>>
          BY <3>1, <5>1, TupleFacts, FieldFacts
        <5>2. CASE todo = <<Up("status")>>
          BY <3>5, <5>2, TupleFacts, FieldFacts
        <5>3. CASE \E cw \in {0, 6, 7, 15, 128} : todo = <<Down("control", cw)>>
          BY <3>5, <5>3, TupleFacts, FieldFacts
        <5> QED  BY <3>1, <5>1, <5>2, <5>3 DEF EnableTodo
      <4>2. rest = <<Nmt, Up("status")>>
        BY <3>5, <4>1, TupleFacts
      <4>3. EnableTodo'
        BY <2>1, <4>2 DEF EnableTodo
      <4> QED  BY <1>1, <2>1, <2>4, <4>3, MethodFacts DEF TodoByMethod
    <3>6. next_controlword(toHost[1].val) \in {0, 6, 7, 15, 128}
      BY DEF next_controlword
    <3> QED  BY <1>1, <1>3, <2>4, <3>2, <3>3, <3>4, <3>5, <3>6 DEF NextRequests
  <2> QED  BY <2>2, <2>3, <2>4, MethodFacts DEF CanTypes, HostTypes
<1>4. ASSUME NEW how, Raise(how) PROVE TodoByMethod'
  BY <1>2, <1>4 DEF Raise
<1> QED
  BY <1>3, <1>4, AcceptFacts

LEMMA TodoNext ==
    ASSUME CanTypes, TodoByMethod, [CanNext]_canvars
    PROVE  TodoByMethod'
<1>1. ASSUME NEW m \in Methods, Call(m) PROVE TodoByMethod'
  BY <1>1, CallTodo
<1>2. CASE Send
  BY <1>2, SendTodo
<1>3. ASSUME todo' = <<>> PROVE TodoByMethod'
  BY <1>3 DEF TodoByMethod
<1>4. ASSUME todo' = todo, op' = op, waiting' = waiting PROVE TodoByMethod'
  BY <1>4 DEF TodoByMethod, EnableTodo, Done
<1>5. CASE SocketFails
  BY <1>3, <1>5 DEF SocketFails, Raise
<1>6. CASE Skip
  <2>1. \/ todo' = <<>>
        \/ todo' = todo /\ op' = op /\ waiting' = waiting
    BY <1>6 DEF Skip, Raise
  <2> QED  BY <1>3, <1>4, <2>1
<1>7. CASE Accept
  BY <1>7, AcceptTodo
<1>8. CASE Serve
  <2>1. todo' = todo /\ op' = op /\ waiting' = waiting
    BY <1>8 DEF Serve, hostvars
  <2> QED  BY <1>4, <2>1
<1>9. CASE Disturb
  <2>1. todo' = todo /\ op' = op /\ waiting' = waiting
    BY <1>9 DEF Disturb, hostvars
  <2> QED  BY <1>4, <2>1
<1>10. CASE Reset
  <2>1. todo' = todo /\ op' = op /\ waiting' = waiting
    BY <1>10 DEF Reset, hostvars
  <2> QED  BY <1>4, <2>1
<1>11. CASE Traffic
  <2>1. todo' = todo /\ op' = op /\ waiting' = waiting
    BY <1>11 DEF Traffic, hostvars
  <2> QED  BY <1>4, <2>1
<1>12. CASE UNCHANGED canvars
  <2>1. todo' = todo /\ op' = op /\ waiting' = waiting
    BY <1>12 DEF canvars, hostvars
  <2> QED  BY <1>4, <2>1
<1> QED
  BY <1>1, <1>2, <1>5, <1>6, <1>7, <1>8, <1>9, <1>10, <1>11, <1>12 DEF CanNext, HostStep, RecvTimesOut
-------------------------------------------------------------------------------
(* Enable and stop report what the drive did.                                   *)
LEMMA StepKeeps ==
    ASSUME CanTypes, CanStep
    PROVE  /\ op' = op /\ (clean' => clean) /\ (quiet' => quiet)
           /\ ~Accept /\ result' = "ok" => result = "ok" /\ confirmed' = confirmed
<1>0. clean \in BOOLEAN /\ quiet \in BOOLEAN
  BY DEF CanTypes, HistoryTypes
<1>1. ASSUME NEW how \in {"error", "exhausted"}, Raise(how)
      PROVE  clean' = FALSE /\ (quiet' => quiet) /\ result' # "ok"
  BY <1>1 DEF Raise
<1>2. CASE Send
  BY <1>2, SendFacts DEF history
<1>3. CASE SocketFails
  BY <1>1, <1>3 DEF SocketFails
<1>4. CASE Skip
  BY <1>1, <1>4 DEF Skip
<1>5. CASE Accept
  <2>1. op' = op
    BY <1>5, AcceptFacts
  <2>2. ASSUME NEW rest, Proceed(toHost[1], rest) PROVE clean' = clean /\ quiet' = quiet
    BY <2>2 DEF Proceed
  <2>3. (\E rest : Proceed(toHost[1], rest)) \/ Raise("error") \/ Raise("exhausted")
    BY <1>5, AcceptFacts
  <2> QED  BY <1>1, <1>5, <2>1, <2>2, <2>3
<1>6. CASE Serve
  <2>1. /\ UNCHANGED <<hostvars, clean, confirmed>>
        /\ quiet' = quiet \/ quiet' = FALSE
    BY <1>6 DEF Serve
  <2> QED  BY <2>1 DEF hostvars
<1>7. CASE Disturb
  BY <1>7 DEF Disturb, hostvars
<1>8. CASE Reset
  BY <1>8, <1>0 DEF Reset, hostvars
<1>9. CASE Traffic
  BY <1>9 DEF Traffic, hostvars, history
<1>10. CASE UNCHANGED canvars
  BY <1>10 DEF canvars, hostvars, history
<1> QED
  BY <1>2, <1>3, <1>4, <1>5, <1>6, <1>7, <1>8, <1>9, <1>10 DEF CanStep, HostStep, RecvTimesOut

LEMMA CallLeaves ==
    ASSUME CanTypes, NEW m \in Methods, Call(m), clean'
    PROVE  /\ op' = m /\ result' = "none"
           /\ \A i \in 1..Len(toDrive') : toDrive'[i].obj \notin Decisive(m)
           /\ \A i \in 1..Len(toHost') : toHost'[i].obj \notin Decisive(m)
<1>1. /\ op' = m /\ result' = "none" /\ toDrive' = Aged(toDrive) /\ toHost' = Aged(toHost)
      /\ Decisive(m) \cap (Under_way(toDrive) \cup Under_way(toHost)) = {}
  BY DEF Call
<1>2. \A i \in 1..Len(toDrive) : toDrive[i].obj \in Under_way(toDrive)
  BY DEF Under_way
<1>3. \A i \in 1..Len(toHost) : toHost[i].obj \in Under_way(toHost)
  BY DEF Under_way
<1>4. /\ Len(toDrive') = Len(toDrive)
      /\ \A i \in 1..Len(toDrive) : toDrive'[i].obj = toDrive[i].obj
  BY <1>1, QueuesTyped, AgedRequests
<1>5. /\ Len(toHost') = Len(toHost)
      /\ \A i \in 1..Len(toHost) : toHost'[i].obj = toHost[i].obj
  BY <1>1, QueuesTyped, AgedAnswers
<1> QED
  BY <1>1, <1>2, <1>3, <1>4, <1>5

(* A property of frames survives a step when a new frame has it.                *)
LEMMA FramesKeep ==
    ASSUME CanTypes, QueueStep, NEW D, NEW H,
           \A i \in 1..Len(toDrive) : toDrive[i] \in D,
           \A i \in 1..Len(toHost) : toHost[i] \in H,
           todo # <<>> => todo[1] \in D,
           \A a \in Answers, r \in D :
               /\ a.id = "sdo" /\ a.obj = r.obj /\ a.fresh = r.fresh
               /\ a.cmd = "data" => r.cmd = "up" /\ a.val \in StatusWords(a.state)
               /\ a.cmd = "ack" => r.cmd = "down"
               => a \in H,
           \A a \in Answers : a.id = "other" /\ a.obj = "none" /\ a.fresh = FALSE => a \in H
    PROVE  /\ \A i \in 1..Len(toDrive') : toDrive'[i] \in D
           /\ \A i \in 1..Len(toHost') : toHost'[i] \in H
<1>0. toDrive \in Seq(Requests) /\ toHost \in Seq(Answers) /\ todo \in Seq(Requests)
  BY QueuesTyped
<1>1. ASSUME NEW e \in Requests \cap D, toDrive' = Append(toDrive, e)
      PROVE  \A i \in 1..Len(toDrive') : toDrive'[i] \in D
  <2>1. /\ Len(toDrive') = Len(toDrive) + 1 /\ toDrive'[Len(toDrive) + 1] = e
        /\ \A i \in 1..Len(toDrive') :
              i = Len(toDrive) + 1 \/ (i \in 1..Len(toDrive) /\ toDrive'[i] = toDrive[i])
    BY <1>0, <1>1, AppendedAt
  <2> QED  BY <2>1
<1>2. ASSUME NEW a \in Answers \cap H, toHost' = Append(toHost, a)
      PROVE  \A i \in 1..Len(toHost') : toHost'[i] \in H
  <2>1. /\ Len(toHost') = Len(toHost) + 1 /\ toHost'[Len(toHost) + 1] = a
        /\ \A i \in 1..Len(toHost') :
              i = Len(toHost) + 1 \/ (i \in 1..Len(toHost) /\ toHost'[i] = toHost[i])
    BY <1>0, <1>2, AppendedAt
  <2> QED  BY <2>1
<1>3. ASSUME toDrive # <<>>, toDrive' = Tail(toDrive)
      PROVE  (\A i \in 1..Len(toDrive') : toDrive'[i] \in D) /\ toDrive[1] \in D
  <2>1. /\ Len(toDrive) \in Nat /\ Len(toDrive) >= 1
        /\ \A i \in 1..Len(toDrive') : i + 1 \in 1..Len(toDrive) /\ toDrive'[i] = toDrive[i + 1]
    BY <1>0, <1>3, TailAt
  <2> QED  BY <2>1
<1>4. ASSUME toHost # <<>>, toHost' = Tail(toHost)
      PROVE  \A i \in 1..Len(toHost') : toHost'[i] \in H
  <2>1. \A i \in 1..Len(toHost') : i + 1 \in 1..Len(toHost) /\ toHost'[i] = toHost[i + 1]
    BY <1>0, <1>4, TailAt
  <2> QED  BY <2>1
<1>5. CASE todo # <<>> /\ toDrive' = Append(toDrive, todo[1]) /\ toHost' = toHost
  <2>1. todo[1] \in Requests \cap D
    BY <1>0, <1>5, QueueTail
  <2> QED  BY <1>1, <1>5, <2>1
<1>6. CASE toHost # <<>> /\ toDrive' = toDrive /\ toHost' = Tail(toHost)
  BY <1>4, <1>6
<1>7. CASE toDrive # <<>> /\ toDrive' = Tail(toDrive) /\ toHost' = toHost
  BY <1>3, <1>7
<1>8. CASE toDrive # <<>> /\ toDrive' = Tail(toDrive) /\ \E a \in Answers :
              /\ toHost' = Append(toHost, a) /\ a.id = "sdo" /\ a.obj = toDrive[1].obj
              /\ a.fresh = toDrive[1].fresh
              /\ a.cmd = "data" => toDrive[1].cmd = "up" /\ a.val \in StatusWords(a.state)
              /\ a.cmd = "ack" => toDrive[1].cmd = "down"
  <2>1. PICK a \in Answers :
              /\ toHost' = Append(toHost, a) /\ a.id = "sdo" /\ a.obj = toDrive[1].obj
              /\ a.fresh = toDrive[1].fresh
              /\ a.cmd = "data" => toDrive[1].cmd = "up" /\ a.val \in StatusWords(a.state)
              /\ a.cmd = "ack" => toDrive[1].cmd = "down"
    BY <1>8
  <2>2. (\A i \in 1..Len(toDrive') : toDrive'[i] \in D) /\ toDrive[1] \in D
    BY <1>3, <1>8
  <2>3. a \in H
    BY <2>1, <2>2
  <2> QED  BY <1>2, <2>1, <2>2, <2>3
<1>9. CASE toDrive' = <<>> /\ toHost' = toHost
  BY <1>9
<1>10. CASE toDrive' = toDrive /\ \E a \in Answers :
          /\ toHost' = Append(toHost, a) /\ a.id = "other" /\ a.obj = "none" /\ a.fresh = FALSE
          /\ a.cmd = "data"
  BY <1>2, <1>10
<1>11. CASE toDrive' = toDrive /\ toHost' = toHost
  BY <1>11
<1> QED
  BY <1>5, <1>6, <1>7, <1>8, <1>9, <1>10, <1>11 DEF QueueStep
LEMMA EnableOk ==
    ASSUME CanTypes, TodoByMethod, AnswersTruthful, Accept, op = "enable_operation", result' = "ok"
    PROVE  /\ toHost[1].obj = "status" /\ toHost[1].fresh => confirmed'
           /\ toHost[1].obj = "status" /\ toHost[1].cmd = "data"
           /\ toHost[1].state = "OPERATION_ENABLED"
           /\ clean' = clean /\ quiet' = quiet /\ todo' = <<>> /\ todo[1].obj = "status"
<1> DEFINE f == toHost[1]
<1>1. /\ todo # <<>> /\ waiting /\ toHost # <<>> /\ f.id = "sdo" /\ f.obj = todo[1].obj
      /\ todo[1] \in Requests /\ f \in Answers /\ 1 \in 1..Len(toHost)
  <2>1. todo # <<>> /\ waiting /\ toHost # <<>> /\ f.id = "sdo" /\ f.obj = todo[1].obj
    BY AcceptFacts
  <2>2. todo[1] \in Requests /\ f \in Answers /\ Len(toHost) \in Nat /\ Len(toHost) >= 1
    BY <2>1, TypesOfQueues
  <2> QED  BY <2>1, <2>2
<1>2. ASSUME NEW how \in {"error", "exhausted"}, Raise(how) PROVE FALSE
  BY <1>2 DEF Raise
<1>3. PICK rest \in Seq(Requests) :
        /\ f.cmd = (IF todo[1].cmd = "up" THEN "data" ELSE "ack")
        /\ Proceed(f, rest) /\ NextRequests(f, rest)
  BY <1>2, AcceptFacts
<1>4. /\ todo' = rest /\ rest = <<>> /\ clean' = clean /\ quiet' = quiet
      /\ confirmed' = (f.fresh /\ f.state = "OPERATION_ENABLED")
  BY <1>3 DEF Proceed
<1>5. \/ f.obj = "status" /\ decode_state(f.val) = "OPERATION_ENABLED"
      \/ rest = Tail(todo) /\ f.obj \notin {"status", "control"}
  <2>1. \A x : <<x>> # <<>>
    BY TupleFacts
  <2> QED  BY <1>3, <1>4, <2>1 DEF NextRequests
<1>6. CASE rest = Tail(todo) /\ f.obj \notin {"status", "control"}
  <2>1. EnableTodo
    BY <1>1 DEF TodoByMethod
  <2>2. CASE todo = <<Down("mode", 8), Nmt, Up("status")>>
    <3>1. Tail(todo) = <<Nmt, Up("status")>> /\ <<Nmt, Up("status")>> # <<>>
      BY <2>2, TupleFacts
    <3> QED  BY <1>4, <1>6, <3>1
  <2>3. CASE todo = <<Nmt, Up("status")>>
    <3>1. Tail(todo) = <<Up("status")>> /\ <<Up("status")>> # <<>>
      BY <2>3, TupleFacts, Zenon
    <3> QED  BY <1>4, <1>6, <3>1
  <2>4. CASE todo = <<Up("status")>>
    BY <1>1, <1>6, <2>4, TupleFacts, FieldFacts
  <2>5. CASE \E cw \in {0, 6, 7, 15, 128} : todo = <<Down("control", cw)>>
    BY <1>1, <1>6, <2>5, TupleFacts, FieldFacts
  <2> QED  BY <2>1, <2>2, <2>3, <2>4, <2>5 DEF EnableTodo
<1>7. CASE f.obj = "status" /\ decode_state(f.val) = "OPERATION_ENABLED"
  <2>1. todo[1].cmd = "up"
    <3>1. todo[1].obj = "status" /\ todo[1] \in Requests
      BY <1>1, <1>7
    <3> QED  BY <3>1, StrengthOfRequests, Zenon
  <2>2. f.cmd = "data" /\ f.val \in StatusWords(f.state) /\ f.state \in States
    BY <1>1, <1>3, <2>1 DEF AnswersTruthful, Truthful, Answers
  <2>3. f.state = "OPERATION_ENABLED"
    BY <1>7, <2>2, WordFacts
  <2> QED  BY <1>1, <1>4, <1>7, <2>2, <2>3
<1> QED
  BY <1>5, <1>6, <1>7

LEMMA EnableNext ==
    ASSUME CanTypes, TodoByMethod, AnswersTruthful, EnableHonest, [CanNext]_canvars
    PROVE  EnableHonest'
<1>1. CASE \E m \in Methods : Call(m)
  <2>1. PICK m \in Methods : Call(m)
    BY <1>1
  <2>2. m = "enable_operation" => "status" \in Decisive(m)
    BY DEF Decisive
  <2> QED  BY <2>1, <2>2, CallLeaves DEF EnableHonest
<1>2. CASE CanStep
  <2> SUFFICES ASSUME op' = "enable_operation", clean' PROVE EnableHonest'
    BY DEF EnableHonest
  <2>1. op = "enable_operation" /\ clean
    BY <1>2, StepKeeps
  <2> DEFINE D == {r \in Requests : r.obj = "status" => r.fresh}
             H == {a \in Answers : a.obj = "status" => a.fresh}
  <2>2. /\ \A i \in 1..Len(toDrive) : toDrive[i] \in D
        /\ \A i \in 1..Len(toHost) : toHost[i] \in H
    <3>1. /\ \A i \in 1..Len(toDrive) : toDrive[i] \in Requests
          /\ \A i \in 1..Len(toHost) : toHost[i] \in Answers
      BY TypesOfQueues
    <3> QED  BY <2>1, <3>1 DEF EnableHonest
  <2>3. todo # <<>> => todo[1] \in D
    <3>1. todo # <<>> => todo[1] \in Requests /\ Len(todo) \in Nat /\ Len(todo) >= 1
      BY TypesOfQueues
    <3>2. todo # <<>> => todo[1].fresh
      BY <3>1, TodoFacts
    <3> QED  BY <3>1, <3>2
  <2>4. /\ \A a \in Answers, r \in D :
               /\ a.id = "sdo" /\ a.obj = r.obj /\ a.fresh = r.fresh
               /\ a.cmd = "data" => r.cmd = "up" /\ a.val \in StatusWords(a.state)
               /\ a.cmd = "ack" => r.cmd = "down"
               => a \in H
        /\ \A a \in Answers : a.id = "other" /\ a.obj = "none" /\ a.fresh = FALSE => a \in H
    OBVIOUS
  <2>5. QueueStep
    BY <1>2, QueueStepTaken
  <2>6. /\ \A i \in 1..Len(toDrive') : toDrive'[i] \in D
        /\ \A i \in 1..Len(toHost') : toHost'[i] \in H
    <3> HIDE DEF D, H
    <3> QED  BY <2>2, <2>3, <2>4, <2>5, FramesKeep
  <2>7. result' = "ok" => confirmed'
    <3>1. CASE Accept /\ result' = "ok"
      <4>1. toHost # <<>> /\ Len(toHost) \in Nat /\ Len(toHost) >= 1
        BY <3>1, AcceptFacts, TypesOfQueues
      <4>2. toHost[1].obj = "status" => toHost[1].fresh
        BY <2>2, <4>1
      <4> QED  BY <2>1, <3>1, <4>2, EnableOk
    <3>2. CASE ~Accept
      BY <1>2, <2>1, <3>2, StepKeeps DEF EnableHonest
    <3> QED  BY <3>1, <3>2
  <2> QED  BY <2>6, <2>7 DEF EnableHonest
<1> QED
  BY <1>1, <1>2, CallOrStep

(* Which frames reach the host in a step other than an answer of the drive.     *)
LEMMA HostFrames ==
    ASSUME CanTypes, CanStep, ~Serve
    PROVE  /\ \A i \in 1..Len(toHost') :
                 \/ \E j \in 1..Len(toHost) : toHost'[i] = toHost[j]
                 \/ toHost'[i].id = "other" /\ toHost'[i].obj = "none" /\ ~toHost'[i].fresh
           /\ toHost' = toHost \/ (toHost # <<>> /\ toHost' = Tail(toHost))
              \/ \E a \in Answers : /\ toHost' = Append(toHost, a) /\ a.id = "other" /\ a.obj = "none"
                                    /\ ~a.fresh
<1>1. \/ toHost' = toHost
      \/ toHost # <<>> /\ toHost' = Tail(toHost)
      \/ \E a \in Answers : /\ toHost' = Append(toHost, a) /\ a.id = "other" /\ a.obj = "none"
                            /\ ~a.fresh
  <2>1. CASE Send \/ SocketFails \/ Disturb \/ Reset \/ UNCHANGED canvars
    BY <2>1 DEF Send, SocketFails, Disturb, Reset, canvars
  <2>2. CASE Skip \/ Accept
    BY <2>2 DEF Skip, Accept
  <2>3. CASE Traffic
    <3>1. PICK a \in Answers : /\ toHost' = Append(toHost, a) /\ a.id = "other" /\ a.obj = "none"
                               /\ a.fresh = FALSE
      BY <2>3, TrafficFacts
    <3> QED  BY <3>1
  <2> QED  BY <2>1, <2>2, <2>3 DEF CanStep, HostStep, RecvTimesOut
<1>2. ASSUME NEW i \in 1..Len(toHost')
      PROVE  \/ \E j \in 1..Len(toHost) : toHost'[i] = toHost[j]
             \/ toHost'[i].id = "other" /\ toHost'[i].obj = "none" /\ ~toHost'[i].fresh
  <2>0. toHost \in Seq(Answers)
    BY QueuesTyped
  <2>1. CASE toHost' = toHost
    BY <2>1
  <2>2. CASE toHost # <<>> /\ toHost' = Tail(toHost)
    <3>1. i + 1 \in 1..Len(toHost) /\ toHost'[i] = toHost[i + 1]
      BY <2>0, <2>2, TailAt
    <3> QED  BY <3>1
  <2>3. CASE \E a \in Answers : /\ toHost' = Append(toHost, a) /\ a.id = "other" /\ a.obj = "none"
                                /\ ~a.fresh
    <3>1. PICK a \in Answers : /\ toHost' = Append(toHost, a) /\ a.id = "other" /\ a.obj = "none"
                               /\ ~a.fresh
      BY <2>3
    <3>2. /\ toHost'[Len(toHost) + 1] = a
          /\ i = Len(toHost) + 1 \/ (i \in 1..Len(toHost) /\ toHost'[i] = toHost[i])
      BY <2>0, <3>1, AppendedAt
    <3> QED  BY <3>1, <3>2
  <2> QED  BY <1>1, <2>1, <2>2, <2>3
<1> QED
  BY <1>1, <1>2

LEMMA StoppingWord ==
    ASSUME NEW d \in Drives, NEW cw \in {0, 11}
    PROVE  Controlled(d, cw).state # "OPERATION_ENABLED"
<1>1. cw \in {0, 6, 7, 11, 15, 128}
  OBVIOUS
<1> QED
  BY <1>1, ControlledFacts

LEMMA OutOfEnabled ==
    ASSUME CanTypes, CanStep,
           \A i \in 1..Len(toDrive) : toDrive[i].obj = "control" => toDrive[i].val \in {0, 11}
    PROVE  drive'.state = "OPERATION_ENABLED" => drive.state = "OPERATION_ENABLED"
<1>0. drive \in Drives
  BY DEF CanTypes, DriveTypes
<1>1. CASE HostStep \/ SocketFails \/ Traffic \/ UNCHANGED canvars
  <2>1. drive' = drive
    BY <1>1 DEF HostStep, RecvTimesOut, Send, SocketFails, Skip, Accept, Traffic, canvars
  <2> QED  BY <2>1
<1>2. CASE Disturb
  BY <1>2, DisturbFacts
<1>3. CASE Reset
  BY <1>3, ResetFacts DEF PowerUp
<1>4. CASE Serve
  <2>1. drive' \in {drive, [drive EXCEPT !.operational = TRUE], Controlled(drive, toDrive[1].val)}
        /\ (drive' = drive \/ drive' = [drive EXCEPT !.operational = TRUE]
            \/ (toDrive[1].obj = "control" /\ drive' = Controlled(drive, toDrive[1].val)))
    BY <1>4, TypesOfQueues DEF Serve
  <2>2. 1 \in 1..Len(toDrive)
    <3>1. toDrive # <<>>
      BY <1>4 DEF Serve
    <3> QED  BY <3>1, TypesOfQueues
  <2>3. [drive EXCEPT !.operational = TRUE].state = drive.state
    BY <1>0 DEF Drives
  <2>4. toDrive[1].obj = "control" => Controlled(drive, toDrive[1].val).state # "OPERATION_ENABLED"
    <3>1. toDrive[1].obj = "control" => toDrive[1].val \in {0, 11}
      BY <2>2
    <3>2. \A cw \in {0, 11} : Controlled(drive, cw).state # "OPERATION_ENABLED"
      BY <1>0, StoppingWord
    <3> QED  BY <3>1, <3>2
  <2> QED  BY <2>1, <2>3, <2>4
<1> QED
  BY <1>1, <1>2, <1>3, <1>4 DEF CanStep

LEMMA StopNext ==
    ASSUME CanTypes, TodoByMethod, StopHonest, [CanNext]_canvars
    PROVE  StopHonest'
<1>1. CASE \E m \in Methods : Call(m)
  <2>1. PICK m \in Methods : Call(m)
    BY <1>1
  <2>2. m \in {"quick_stop", "disable_voltage"} => "control" \in Decisive(m)
    BY DEF Decisive
  <2> QED  BY <2>1, <2>2, CallLeaves DEF StopHonest
<1>2. CASE CanStep
  <2> SUFFICES ASSUME op' \in {"quick_stop", "disable_voltage"}, clean' PROVE StopHonest'
    BY DEF StopHonest
  <2>1. op' = op /\ op \in {"quick_stop", "disable_voltage"} /\ clean
    BY <1>2, StepKeeps
  <2>2. /\ \A i \in 1..Len(toDrive) : toDrive[i].obj = "control" => toDrive[i].val \in {0, 11}
        /\ \A i \in 1..Len(toHost) :
              toHost[i].obj = "control" /\ toHost[i].cmd = "ack" => drive.state # "OPERATION_ENABLED"
        /\ result = "ok" => drive.state # "OPERATION_ENABLED"
    BY <2>1 DEF StopHonest
  <2>3. todo # <<>> => todo[1].obj = "control" /\ todo[1].val \in {0, 11} /\ todo[1].cmd = "down"
    <3>1. todo # <<>> => \E cw \in {0, 11} : todo = <<Down("control", cw)>>
      BY <2>1 DEF TodoByMethod
    <3> QED  BY <3>1, TupleFacts, FieldFacts
  <2>4. \A i \in 1..Len(toDrive') : toDrive'[i].obj = "control" => toDrive'[i].val \in {0, 11}
    <3> DEFINE D == {r \in Requests : r.obj = "control" => r.val \in {0, 11}}
               H == Answers
    <3>1. /\ \A i \in 1..Len(toDrive) : toDrive[i] \in D
          /\ \A i \in 1..Len(toHost) : toHost[i] \in H
          /\ todo # <<>> => todo[1] \in D
      BY <2>2, <2>3, TypesOfQueues
    <3>2. QueueStep
      BY <1>2, QueueStepTaken
    <3>3. \A i \in 1..Len(toDrive') : toDrive'[i] \in D
      <4> HIDE DEF D
      <4> QED  BY <3>1, <3>2, FramesKeep
    <3> QED  BY <3>3
  <2>5. drive'.state = "OPERATION_ENABLED" => drive.state = "OPERATION_ENABLED"
    BY <1>2, <2>2, OutOfEnabled
  <2>6. ASSUME NEW i \in 1..Len(toHost'), toHost'[i].obj = "control", toHost'[i].cmd = "ack"
        PROVE  drive'.state # "OPERATION_ENABLED"
    <3>1. CASE \E j \in 1..Len(toHost) : toHost'[i] = toHost[j]
      BY <2>2, <2>5, <2>6, <3>1
    <3>2. CASE Serve /\ ~\E j \in 1..Len(toHost) : toHost'[i] = toHost[j]
      <4>1. CASE toHost' = toHost
        BY <3>2, <4>1
      <4>2. CASE toHost' # toHost
        <5>1. PICK a \in Answers :
                /\ toHost' = Append(toHost, a) /\ a.obj = toDrive[1].obj
                /\ a.cmd = "ack" => drive' = IF toDrive[1].obj = "control"
                                             THEN Controlled(drive, toDrive[1].val) ELSE drive
          BY <3>2, <4>2, ServeFacts
        <5>2. toHost'[i] = a
          <6>1. /\ toHost'[Len(toHost) + 1] = a
                /\ i = Len(toHost) + 1 \/ (i \in 1..Len(toHost) /\ toHost'[i] = toHost[i])
            BY <5>1, QueuesTyped, AppendedAt
          <6> QED  BY <3>2, <6>1
        <5>3. toDrive[1].obj = "control" /\ drive' = Controlled(drive, toDrive[1].val)
          BY <2>6, <5>1, <5>2
        <5>4. toDrive # <<>> /\ Len(toDrive) \in Nat /\ Len(toDrive) >= 1 /\ drive \in Drives
          BY <3>2, ServeFacts, TypesOfQueues DEF CanTypes, DriveTypes
        <5>5. 1 \in 1..Len(toDrive) /\ toDrive[1].val \in {0, 11}
          BY <2>2, <5>3, <5>4
        <5>6. \A cw \in {0, 11} : Controlled(drive, cw).state # "OPERATION_ENABLED"
          BY <5>4, StoppingWord
        <5> QED  BY <5>3, <5>5, <5>6
      <4> QED  BY <4>1, <4>2
    <3>3. CASE ~Serve
      BY <1>2, <2>6, <3>1, <3>3, HostFrames
    <3> QED  BY <3>1, <3>2, <3>3
  <2>7. result' = "ok" => drive'.state # "OPERATION_ENABLED"
    <3>1. CASE Accept /\ result' = "ok"
      <4>1. /\ todo # <<>> /\ toHost # <<>> /\ toHost[1].obj = todo[1].obj /\ drive' = drive
            /\ toHost[1].cmd = (IF todo[1].cmd = "up" THEN "data" ELSE "ack")
        <5>1. ASSUME NEW how \in {"error", "exhausted"}, Raise(how) PROVE FALSE
          BY <3>1, <5>1 DEF Raise
        <5> QED  BY <3>1, <5>1, AcceptFacts
      <4>2. 1 \in 1..Len(toHost)
        BY <4>1, TypesOfQueues
      <4> QED  BY <2>2, <2>3, <4>1, <4>2
    <3>2. CASE ~Accept
      BY <1>2, <2>2, <2>5, <3>2, StepKeeps
    <3> QED  BY <3>1, <3>2
  <2> QED  BY <2>4, <2>6, <2>7 DEF StopHonest
<1> QED
  BY <1>1, <1>2, CallOrStep

(* An enable that nothing disturbs: what each step makes of it.                 *)
Quiet == QuietBus /\ QuietDrive /\ QuietSteps

LEMMA QuietCall ==
    ASSUME CanTypes, NEW m \in Methods, Call(m), quiet'
    PROVE  op' = "enable_operation" /\ Quiet'
<1>1. /\ op' = m /\ todo' = RequestsOf(m) /\ waiting' = FALSE /\ steps' = 0
      /\ toDrive' = Aged(toDrive) /\ toHost' = Aged(toHost) /\ drive' = drive
      /\ m = "enable_operation" /\ toDrive = <<>> /\ toHost = <<>> /\ ~drive.cause
      /\ drive.state \notin {"NOT_READY", "FAULT_REACTION_ACTIVE"}
      /\ ~(drive.state = "FAULT" /\ drive.bit7)
  BY DEF Call
<1>2. toDrive' = <<>> /\ toHost' = <<>>
  BY <1>1, QueuesTyped, AgedRequests, AgedAnswers
<1>3. todo' = <<Down("mode", 8), Nmt, Up("status")>>
  BY <1>1, RequestsOfFacts
<1>4. todo'[1].obj = "mode"
  BY <1>3, TupleFacts, FieldFacts
<1>5. Rank[drive.state] \in 0..4
  BY StateFacts DEF CanTypes, DriveTypes, Drives
<1>6. QuietBus'
  BY <1>2 DEF QuietBus
<1>7. QuietDrive'
  BY <1>1, <1>5 DEF QuietDrive
<1>8. QuietSteps'
  BY <1>2, <1>4 DEF QuietSteps
<1> QED
  BY <1>1, <1>6, <1>7, <1>8 DEF Quiet

LEMMA QuietSend ==
    ASSUME CanTypes, TodoByMethod, Quiet, Send
    PROVE  Quiet'
<1>1. /\ todo # <<>> /\ ~waiting /\ todo[1] \in Requests
      /\ toDrive' = Append(toDrive, todo[1])
      /\ waiting' = (todo[1].cmd # "nmt")
      /\ todo' = IF todo[1].cmd = "nmt" THEN Tail(todo) ELSE todo
      /\ toHost' = toHost /\ steps' = steps /\ drive' = drive
  BY SendFacts
<1>2. /\ \A i \in 1..Len(toDrive) : toDrive[i].cmd = "nmt"
      /\ \A i \in 1..Len(toHost) : toHost[i].id # "sdo"
  BY <1>1 DEF Quiet, QuietBus
<1>3. /\ Len(toDrive) \in Nat /\ Len(toDrive') = Len(toDrive) + 1
      /\ toDrive'[Len(toDrive) + 1] = todo[1]
      /\ \A i \in 1..Len(toDrive') :
            i = Len(toDrive) + 1 \/ (i \in 1..Len(toDrive) /\ toDrive'[i] = toDrive[i])
      /\ \A i \in 1..Len(toDrive) : toDrive'[i] = toDrive[i]
  BY <1>1, QueuesTyped, AppendedAt, QueueAppend
<1>4. QuietDrive /\ QuietSteps
  BY DEF Quiet
<1>5. CASE todo[1].cmd = "nmt"
  <2>1. todo = <<Nmt, Up("status")>>
    BY <1>1, <1>5, TodoFacts
  <2>2. todo[1].obj = "node" /\ todo'[1].obj = "status"
    BY <1>1, <1>5, <2>1, TupleFacts, FieldFacts
  <2>3. QuietBus'
    BY <1>1, <1>2, <1>3, <1>5 DEF QuietBus
  <2>4. QuietDrive'
    BY <1>1, <1>4, <2>2 DEF QuietDrive
  <2>5. \E i \in 1..Len(toDrive') : toDrive'[i].cmd = "nmt"
    BY <1>3, <1>5
  <2>6. QuietSteps'
    BY <1>1, <1>2, <2>2, <2>5 DEF QuietSteps
  <2> QED  BY <2>3, <2>4, <2>6 DEF Quiet
<1>6. CASE todo[1].cmd # "nmt"
  <2>1. todo' = todo /\ waiting' = TRUE
    BY <1>1, <1>6
  <2>2. QuietBus'
    BY <1>1, <1>2, <1>3, <2>1 DEF QuietBus
  <2>3. QuietDrive'
    BY <1>1, <1>4, <2>1 DEF QuietDrive
  <2>4. todo[1].obj \in {"status", "control"} =>
          drive.operational \/ \E i \in 1..Len(toDrive') : toDrive'[i].cmd = "nmt"
    BY <1>3, <1>4 DEF QuietSteps
  <2>5. QuietSteps'
    BY <1>1, <1>2, <1>4, <2>1, <2>4 DEF QuietSteps
  <2> QED  BY <2>2, <2>3, <2>5 DEF Quiet
<1> QED
  BY <1>5, <1>6

(* Frames of others come and go.                                                *)
LEMMA QuietSkip ==
    ASSUME CanTypes, Quiet, Skip, quiet'
    PROVE  Quiet'
<1>1. /\ todo # <<>> /\ waiting /\ toHost # <<>> /\ ~Ours(Head(toHost), Head(todo))
      /\ toHost' = Tail(toHost) /\ UNCHANGED <<toDrive, op, drive>>
  BY DEF Skip
<1>2. UNCHANGED <<todo, waiting, steps>>
  BY DEF Skip, Raise
<1>3. /\ Len(toHost) \in Nat /\ Len(toHost) >= 1 /\ Len(toHost') = Len(toHost) - 1
      /\ \A i \in 1..Len(toHost') : i + 1 \in 1..Len(toHost) /\ toHost'[i] = toHost[i + 1]
  BY <1>1, QueuesTyped, TailAt
<1>4. toHost[1].id = "other"
  <2>1. toHost[1] \in Answers /\ Head(toHost) = toHost[1] /\ Head(todo) = todo[1]
    BY <1>1, TypesOfQueues
  <2>2. toHost[1].id = "sdo" => toHost[1].obj = todo[1].obj
    BY <1>3 DEF Quiet, QuietBus
  <2> QED  BY <1>1, <2>1, <2>2 DEF Ours, Answers
<1>5. (\A i \in 1..Len(toHost') : toHost'[i].id = "other") =>
          \A i \in 1..Len(toHost) : toHost[i].id = "other"
  <2>1. ASSUME \A i \in 1..Len(toHost') : toHost'[i].id = "other", NEW i \in 1..Len(toHost)
        PROVE  toHost[i].id = "other"
    <3>1. CASE i = 1
      BY <1>4, <3>1
    <3>2. CASE i # 1
      <4>1. i - 1 \in 1..Len(toHost') /\ (i - 1) + 1 = i
        BY <1>3, <3>2
      <4>2. toHost'[i - 1] = toHost[i]
        BY <1>3, <4>1
      <4> QED  BY <2>1, <4>1, <4>2
    <3> QED  BY <3>1, <3>2
  <2> QED  BY <2>1
<1>6. QuietBus'
  <2>1. QuietBus
    BY DEF Quiet
  <2>2. \A i \in 1..Len(toDrive') :
          toDrive'[i].cmd # "nmt" => waiting' /\ i = Len(toDrive') /\ toDrive'[i] = todo'[1]
    BY <1>1, <1>2, <2>1 DEF QuietBus
  <2>3. ASSUME NEW i \in 1..Len(toHost'), toHost'[i].id = "sdo"
        PROVE  /\ waiting' /\ toHost'[i].obj = todo'[1].obj
               /\ \A j \in 1..Len(toDrive') : toDrive'[j].cmd = "nmt"
    BY <1>1, <1>2, <1>3, <2>1, <2>3 DEF QuietBus
  <2>4. ASSUME NEW i \in 1..Len(toHost'), toHost'[i].id = "sdo",
               NEW j \in 1..Len(toHost'), toHost'[j].id = "sdo"
        PROVE  j = i
    <3>1. i + 1 \in 1..Len(toHost) /\ toHost[i + 1].id = "sdo"
          /\ j + 1 \in 1..Len(toHost) /\ toHost[j + 1].id = "sdo"
      BY <1>3, <2>4
    <3>2. j + 1 = i + 1
      BY <2>1, <3>1, Zenon DEF QuietBus
    <3> QED  BY <3>2
  <2> QED  BY <2>2, <2>3, <2>4 DEF QuietBus
<1>7. QuietDrive'
  BY <1>1, <1>2 DEF Quiet, QuietDrive
<1>8. QuietSteps'
  <2>1. QuietSteps
    BY DEF Quiet
  <2> QED  BY <1>1, <1>2, <1>3, <1>5, <2>1 DEF QuietSteps
<1> QED
  BY <1>6, <1>7, <1>8 DEF Quiet

LEMMA QuietTraffic ==
    ASSUME CanTypes, Quiet, Traffic
    PROVE  Quiet'
<1>1. PICK a \in Answers : toHost' = Append(toHost, a) /\ a.id = "other"
  BY TrafficFacts
<1>2. UNCHANGED <<toDrive, drive, todo, waiting, steps>>
  BY DEF Traffic, hostvars
<1>3. /\ Len(toHost) \in Nat /\ Len(toHost') = Len(toHost) + 1
      /\ toHost'[Len(toHost) + 1] = a
      /\ \A i \in 1..Len(toHost') :
            i = Len(toHost) + 1 \/ (i \in 1..Len(toHost) /\ toHost'[i] = toHost[i])
      /\ \A i \in 1..Len(toHost) : i \in 1..Len(toHost') /\ toHost'[i] = toHost[i]
  BY <1>1, QueuesTyped, AppendedAt, QueueAppend
<1>4. \A i \in 1..Len(toHost') :
         toHost'[i].id = "sdo" => i \in 1..Len(toHost) /\ toHost'[i] = toHost[i]
  BY <1>1, <1>3
<1>5. QuietBus'
  BY <1>2, <1>4 DEF Quiet, QuietBus
<1>6. QuietDrive'
  BY <1>2 DEF Quiet, QuietDrive
<1>7. QuietSteps'
  <2>1. QuietSteps
    BY DEF Quiet
  <2> QED  BY <1>2, <1>3, <1>4, <2>1 DEF QuietSteps
<1> QED
  BY <1>5, <1>6, <1>7 DEF Quiet

LEMMA QuietAccept ==
    ASSUME CanTypes, TodoByMethod, AnswersTruthful, Quiet, op = "enable_operation",
           Accept, quiet'
    PROVE  /\ todo' # <<>> => Quiet'
           /\ result' = "ok" => drive.operational
           /\ result' = "exhausted" => MaxSteps <= 4
<1> DEFINE f == toHost[1]
<1>0. /\ todo # <<>> /\ waiting /\ toHost # <<>> /\ toHost' = Tail(toHost)
      /\ f.id = "sdo" /\ f.obj = todo[1].obj /\ UNCHANGED <<toDrive, op, drive, pdo>>
  BY AcceptFacts
<1>1. /\ todo[1] \in Requests /\ f \in Answers /\ 1 \in 1..Len(toHost)
      /\ Len(toHost) \in Nat /\ Len(toHost) >= 1 /\ Len(toHost') = Len(toHost) - 1
      /\ \A i \in 1..Len(toHost') : i + 1 \in 1..Len(toHost) /\ toHost'[i] = toHost[i + 1]
  BY <1>0, TypesOfQueues, QueuesTyped, TailAt
<1>2. QuietBus /\ QuietDrive /\ QuietSteps
  BY DEF Quiet
<1>3. /\ \A j \in 1..Len(toDrive) : toDrive[j].cmd = "nmt"
      /\ \A j \in 1..Len(toHost) : toHost[j].id = "sdo" => j = 1
  BY <1>0, <1>1, <1>2 DEF QuietBus
<1>4. \A j \in 1..Len(toHost') : toHost'[j].id # "sdo"
  <2>1. ASSUME NEW j \in 1..Len(toHost'), toHost'[j].id = "sdo" PROVE FALSE
    <3>1. j + 1 \in 1..Len(toHost) /\ toHost[j + 1].id = "sdo"
      BY <1>1, <2>1
    <3>2. j + 1 = 1
      BY <1>3, <3>1
    <3> QED  BY <1>1, <3>2
  <2> QED  BY <2>1
<1>5. QuietBus'
  BY <1>0, <1>3, <1>4 DEF QuietBus
<1>6. Rank[drive.state] \in 0..4 /\ MaxSteps \in Nat \ {0} /\ steps \in Nat
  <2>1. drive.state \in States
    BY DEF CanTypes, DriveTypes, Drives
  <2>2. steps \in 0..MaxSteps
    BY DEF CanTypes, BoundTypes
  <2> QED  BY <2>1, <2>2, StateFacts, CanFacts
<1>7. /\ f.obj = "status" => drive.operational /\ (f.cmd = "data" => f.state = drive.state)
      /\ f.obj = "control" => drive.operational /\ steps + 1 <= Rank[drive.state]
  BY <1>0, <1>1, <1>2 DEF QuietSteps
<1>8. CASE result' = "ok"
  <2>1. f.obj = "status" /\ todo' = <<>>
    BY <1>8, EnableOk
  <2> QED  BY <1>7, <1>8, <2>1
<1>9. CASE Raise("error")
  BY <1>9 DEF Raise
<1>10. CASE f.obj = "control" /\ steps + 1 = MaxSteps /\ Raise("exhausted")
  <2>1. todo' = <<>> /\ result' = "exhausted"
    BY <1>10 DEF Raise
  <2> QED  BY <1>6, <1>7, <1>10, <2>1
<1>11. ASSUME NEW rest \in Seq(Requests), Proceed(f, rest), NextRequests(f, rest), result' # "ok",
              f.cmd = (IF todo[1].cmd = "up" THEN "data" ELSE "ack")
       PROVE  Quiet' /\ result' # "exhausted"
  <2>1. /\ todo' = rest /\ waiting' = FALSE /\ rest # <<>> /\ result' = "none"
    BY <1>11 DEF Proceed
  <2>2. CASE /\ f.obj = "status" /\ decode_state(f.val) # "OPERATION_ENABLED"
             /\ rest = <<Down("control", next_controlword(f.val))>> /\ steps' = steps
    <3>1. todo'[1].obj = "control" /\ todo'[1].val = next_controlword(f.val)
      BY <2>1, <2>2, TupleFacts, FieldFacts
    <3>2. f.cmd = "data" /\ f.val \in StatusWords(f.state) /\ f.state \in States
      BY <1>0, <1>1, <1>11, <2>2, StrengthOfRequests DEF AnswersTruthful, Truthful, Answers
    <3>3. todo'[1].val = Want(drive.state) /\ drive.state # "OPERATION_ENABLED"
      BY <1>7, <2>2, <3>1, <3>2, WordFacts
    <3>4. QuietDrive'
      BY <1>0, <1>2, <2>2, <3>1 DEF QuietDrive
    <3>5. QuietSteps'
      BY <1>0, <1>4, <1>7, <2>2, <3>1, <3>3 DEF QuietSteps
    <3> QED  BY <1>5, <2>1, <3>4, <3>5 DEF Quiet
  <2>3. CASE /\ f.obj = "control" /\ steps + 1 < MaxSteps
             /\ rest = <<Up("status")>> /\ steps' = steps + 1
    <3>1. todo'[1].obj = "status"
      BY <2>1, <2>3, TupleFacts, FieldFacts
    <3>2. QuietDrive'
      BY <1>0, <1>2, <1>7, <2>3, <3>1 DEF QuietDrive
    <3>3. QuietSteps'
      BY <1>0, <1>4, <1>7, <2>3, <3>1 DEF QuietSteps
    <3> QED  BY <1>5, <2>1, <3>2, <3>3 DEF Quiet
  <2>4. CASE f.obj \notin {"status", "control"} /\ rest = Tail(todo) /\ steps' = steps
    <3>1. todo = <<Down("mode", 8), Nmt, Up("status")>>
      <4>1. EnableTodo /\ todo[1].cmd # "nmt"
        BY <1>0 DEF TodoByMethod
      <4>2. CASE todo = <<Nmt, Up("status")>>
        BY <4>1, <4>2, TupleFacts, FieldFacts
      <4>3. CASE todo = <<Up("status")>>
        BY <1>0, <2>4, <4>3, TupleFacts, FieldFacts
      <4>4. CASE \E cw \in {0, 6, 7, 15, 128} : todo = <<Down("control", cw)>>
        BY <1>0, <2>4, <4>4, TupleFacts, FieldFacts
      <4> QED  BY <4>1, <4>2, <4>3, <4>4 DEF EnableTodo
    <3>2. todo[1].obj = "mode"
      BY <3>1, TupleFacts, FieldFacts
    <3>3. Tail(todo) = <<Nmt, Up("status")>>
      BY <3>1, TupleFacts
    <3>4. todo'[1].obj = "node"
      <4>1. todo' = <<Nmt, Up("status")>>
        BY <2>1, <2>4, <3>3
      <4> QED  BY <4>1, TupleFacts, FieldFacts
    <3>5. QuietDrive'
      BY <1>0, <1>2, <2>4, <3>2 DEF QuietDrive
    <3>6. QuietSteps'
      BY <3>4 DEF QuietSteps
    <3> QED  BY <1>5, <2>1, <3>5, <3>6 DEF Quiet
  <2> QED  BY <1>11, <2>1, <2>2, <2>3, <2>4 DEF NextRequests
<1>12. CASE Raise("error") \/ Raise("exhausted")
  <2>1. CASE Raise("exhausted")
    <3>1. result' = "exhausted"
      BY <2>1 DEF Raise
    <3>2. \A rest : ~Proceed(f, rest)
      BY <3>1 DEF Proceed
    <3>3. ~Raise("error")
      BY <3>1 DEF Raise
    <3> QED  BY <1>10, <3>2, <3>3, AcceptFacts
  <2> QED  BY <1>9, <1>12, <2>1
<1>13. CASE ~Raise("error") /\ ~Raise("exhausted") /\ result' # "ok"
  <2>1. PICK rest \in Seq(Requests) :
          /\ f.cmd = (IF todo[1].cmd = "up" THEN "data" ELSE "ack")
          /\ Proceed(f, rest) /\ NextRequests(f, rest)
    BY <1>13, AcceptFacts
  <2> QED  BY <1>11, <1>13, <2>1
<1> QED
  BY <1>8, <1>12, <1>13

LEMMA QuietServe ==
    ASSUME CanTypes, TodoByMethod, op = "enable_operation", todo # <<>>, Quiet, Serve, quiet'
    PROVE  Quiet'
<1>0. /\ toDrive # <<>> /\ toDrive' = Tail(toDrive) /\ toDrive[1] \in Requests
      /\ UNCHANGED <<todo, waiting, steps>>
  BY ServeFacts DEF hostvars
<1>1. /\ Len(toDrive) \in Nat /\ Len(toDrive) >= 1 /\ Len(toDrive') = Len(toDrive) - 1
      /\ 1 \in 1..Len(toDrive)
      /\ \A i \in 1..Len(toDrive') : i + 1 \in 1..Len(toDrive) /\ toDrive'[i] = toDrive[i + 1]
  BY <1>0, QueuesTyped, TailAt
<1>2. QuietBus /\ QuietDrive /\ QuietSteps
  BY DEF Quiet
<1>3. drive \in Drives
  BY DEF CanTypes, DriveTypes
<1>4. CASE toDrive[1].cmd = "nmt"
  <2>1. toHost' = toHost /\ drive' = [drive EXCEPT !.operational = TRUE]
    BY <1>4, ServeFacts
  <2>2. /\ drive'.state = drive.state /\ drive'.cause = drive.cause /\ drive'.bit7 = drive.bit7
        /\ drive'.operational
    BY <1>3, <2>1 DEF Drives
  <2>3. \A i \in 1..Len(toDrive') :
          toDrive'[i].cmd # "nmt" => waiting /\ i = Len(toDrive') /\ toDrive'[i] = todo[1]
    <3>1. ASSUME NEW i \in 1..Len(toDrive'), toDrive'[i].cmd # "nmt"
          PROVE  waiting /\ i = Len(toDrive') /\ toDrive'[i] = todo[1]
      <4>1. i + 1 \in 1..Len(toDrive) /\ toDrive'[i] = toDrive[i + 1]
        BY <1>1
      <4>2. waiting /\ i + 1 = Len(toDrive) /\ toDrive[i + 1] = todo[1]
        BY <1>2, <3>1, <4>1 DEF QuietBus
      <4> QED  BY <1>1, <4>1, <4>2
    <3> QED  BY <3>1
  <2>4. \A i \in 1..Len(toHost) : toHost[i].id = "sdo" =>
          \A j \in 1..Len(toDrive') : toDrive'[j].cmd = "nmt"
    BY <1>1, <1>2 DEF QuietBus
  <2>5. QuietBus'
    BY <1>0, <1>2, <2>1, <2>3, <2>4 DEF QuietBus
  <2>6. QuietDrive'
    BY <1>0, <1>2, <2>2 DEF QuietDrive
  <2>7. QuietSteps'
    BY <1>0, <1>2, <2>1, <2>2 DEF QuietSteps
  <2> QED  BY <2>5, <2>6, <2>7 DEF Quiet
<1>5. CASE toDrive[1].cmd # "nmt"
  <2>1. /\ waiting /\ Len(toDrive) = 1 /\ toDrive[1] = todo[1] /\ Len(toDrive') = 0
        /\ \A i \in 1..Len(toHost) : toHost[i].id # "sdo"
    BY <1>1, <1>2, <1>5 DEF QuietBus
  <2>2. PICK a \in Answers :
          /\ toHost' = Append(toHost, a) /\ a.id = "sdo" /\ a.obj = todo[1].obj /\ a.cmd # "abort"
          /\ a.cmd = "data" => toDrive[1].cmd = "up"
          /\ a.cmd = "ack" => toDrive[1].cmd = "down"
          /\ a.obj = "status" => a.state = drive.state
          /\ a.cmd = "ack" => drive' = IF toDrive[1].obj = "control"
                                       THEN Controlled(drive, toDrive[1].val) ELSE drive
          /\ a.cmd # "ack" => drive' = drive
    BY <1>5, <2>1, ServeFacts
  <2>3. /\ Len(toHost) \in Nat /\ Len(toHost') = Len(toHost) + 1
        /\ toHost'[Len(toHost) + 1] = a
        /\ \A i \in 1..Len(toHost') :
              i = Len(toHost) + 1 \/ (i \in 1..Len(toHost) /\ toHost'[i] = toHost[i])
    BY <2>2, QueuesTyped, AppendedAt
  <2>4. \A i \in 1..Len(toHost') : toHost'[i].id = "sdo" => i = Len(toHost) + 1 /\ toHost'[i] = a
    BY <2>1, <2>3
  <2>5. QuietBus'
    <3>1. waiting' /\ a.obj = todo'[1].obj /\ \A j : j \notin 1..Len(toDrive')
      <4>1. waiting' = waiting /\ todo' = todo
        BY <1>0
      <4>2. \A j : j \notin 1..Len(toDrive')
        BY <2>1
      <4> QED  BY <2>1, <2>2, <4>1, <4>2
    <3> QED  BY <2>4, <3>1 DEF QuietBus
  <2>6. ~\A i \in 1..Len(toHost') : toHost'[i].id = "other"
    BY <2>2, <2>3
  <2>7. \A i \in 1..Len(toHost) : toHost[i].id = "other"
    BY <2>1, TypesOfQueues DEF Answers
  <2>8. todo[1].obj \in {"status", "control"} => drive.operational
    BY <1>2, <1>5, <2>1 DEF QuietSteps
  <2>9. CASE todo[1].obj = "control"
    <3>1. todo[1].val = Want(drive.state) /\ drive.state # "OPERATION_ENABLED"
      BY <1>2, <2>7, <2>9 DEF QuietSteps
    <3>2. todo[1].val \in {0, 6, 7, 11, 15, 128} /\ toDrive[1].cmd = "down"
      BY <1>0, <2>1, <2>9, StrengthOfRequests
    <3>3. drive' = Controlled(drive, todo[1].val)
      <4>1. a.cmd = "ack"
        BY <2>2, <3>2 DEF Answers
      <4> QED  BY <2>1, <2>2, <2>9, <4>1
    <3>4. PICK cw \in {0, 6, 7, 11, 15, 128} : cw = todo[1].val
      BY <3>2
    <3>5. /\ drive'.cause = drive.cause /\ drive'.operational = drive.operational
          /\ Rank[drive'.state] = Rank[drive.state] + 1
          /\ drive'.state \notin {"NOT_READY", "FAULT_REACTION_ACTIVE", "FAULT"}
      <4>1. Resting(drive) /\ cw = Want(drive.state)
        BY <1>2, <3>1, <3>4 DEF QuietDrive, Resting
      <4>2. drive' = Controlled(drive, cw)
        BY <3>3, <3>4
      <4>3. Raised(drive, Controlled(drive, cw))
        BY <1>3, <4>1, ControlledFacts
      <4> QED  BY <4>2, <4>3 DEF Raised
    <3>6. Rank[drive.state] \in Nat /\ steps \in Nat /\ steps <= Rank[drive.state]
      <4>1. drive.state \in States /\ steps \in 0..MaxSteps /\ MaxSteps \in Nat
        BY CanFacts DEF CanTypes, DriveTypes, Drives, BoundTypes
      <4> QED  BY <1>2, <4>1, StateFacts DEF QuietDrive
    <3>7. QuietDrive'
      BY <1>0, <1>2, <2>9, <3>5, <3>6 DEF QuietDrive
    <3>8. QuietSteps'
      BY <1>0, <2>4, <2>6, <2>8, <2>9, <3>5, <3>6 DEF QuietSteps
    <3> QED  BY <2>5, <3>7, <3>8 DEF Quiet
  <2>10. CASE todo[1].obj # "control"
    <3>1. drive' = drive
      BY <2>1, <2>2, <2>10
    <3>2. QuietDrive'
      BY <1>0, <1>2, <3>1 DEF QuietDrive
    <3>3. QuietSteps'
      BY <1>0, <2>2, <2>4, <2>6, <2>8, <2>10, <3>1 DEF QuietSteps
    <3> QED  BY <2>5, <3>2, <3>3 DEF Quiet
  <2> QED  BY <2>9, <2>10
<1> QED
  BY <1>4, <1>5

LEMMA QuietNext ==
    ASSUME CanTypes, TodoByMethod, AnswersTruthful, QuietEnable, [CanNext]_canvars
    PROVE  QuietEnable'
<1> SUFFICES ASSUME quiet' PROVE QuietEnable'
  BY DEF QuietEnable
<1>1. CASE \E m \in Methods : Call(m)
  <2>1. PICK m \in Methods : Call(m)
    BY <1>1
  <2>2. result' = "none"
    BY <2>1 DEF Call
  <2> QED  BY <2>1, <2>2, QuietCall DEF QuietEnable, Quiet
<1>2. CASE CanStep
  <2>1. /\ op' = op /\ quiet /\ op = "enable_operation"
        /\ todo # <<>> => Quiet
        /\ result = "ok" => drive.operational
        /\ result = "exhausted" => MaxSteps <= 4
    BY <1>2, StepKeeps DEF QuietEnable, Quiet
  <2> SUFFICES /\ todo' # <<>> => Quiet'
               /\ result' = "ok" => drive'.operational
               /\ result' = "exhausted" => MaxSteps <= 4
    BY <2>1 DEF QuietEnable, Quiet
  <2>2. CASE Send
    <3>1. todo # <<>> /\ result' = result /\ drive' = drive
      BY <2>2, SendFacts
    <3> QED  BY <2>1, <2>2, <3>1, QuietSend
  <2>3. CASE SocketFails
    BY <2>3 DEF SocketFails, Raise
  <2>4. CASE Skip
    <3>1. todo # <<>> /\ result' = result /\ drive' = drive
      BY <2>4 DEF Skip, Raise
    <3> QED  BY <2>1, <2>4, <3>1, QuietSkip
  <2>5. CASE Accept
    <3>1. todo # <<>> /\ drive' = drive
      BY <2>5, AcceptFacts
    <3> QED  BY <2>1, <2>5, <3>1, QuietAccept
  <2>6. CASE Serve
    <3>1. UNCHANGED <<todo, result>>
      BY <2>6 DEF Serve, hostvars
    <3>2. drive.operational => drive'.operational
      <4>1. \/ drive' = drive \/ drive' = [drive EXCEPT !.operational = TRUE]
            \/ (toDrive[1].obj = "control" /\ drive' = Controlled(drive, toDrive[1].val))
        BY <2>6, TypesOfQueues DEF Serve
      <4>2. drive \in Drives
        BY DEF CanTypes, DriveTypes
      <4>3. [drive EXCEPT !.operational = TRUE].operational
        BY <4>2 DEF Drives
      <4>4. \A cw : Controlled(drive, cw).operational = drive.operational
        BY <4>2 DEF Controlled, Drives
      <4> QED  BY <4>1, <4>3, <4>4
    <3> QED  BY <2>1, <2>6, <3>1, <3>2, QuietServe
  <2>7. CASE Disturb \/ Reset
    BY <2>7 DEF Disturb, Reset
  <2>8. CASE Traffic
    <3>1. UNCHANGED <<todo, result, drive>>
      BY <2>8 DEF Traffic, hostvars
    <3> QED  BY <2>1, <2>8, <3>1, QuietTraffic
  <2>9. CASE UNCHANGED canvars
    <3>1. UNCHANGED <<toDrive, toHost, todo, waiting, steps, result, drive>>
      BY <2>9 DEF canvars, hostvars
    <3> QED  BY <2>1, <3>1 DEF Quiet, QuietBus, QuietDrive, QuietSteps
  <2> QED  BY <1>2, <2>2, <2>3, <2>4, <2>5, <2>6, <2>7, <2>8, <2>9 DEF CanStep, HostStep, RecvTimesOut
<1> QED
  BY <1>1, <1>2, CallOrStep
-------------------------------------------------------------------------------
(* The PDO: one request of a mapping after the other.                           *)
LEMMA PlanStep ==
    ASSUME NEW m \in {"csp", "cst"}, NEW p \in Pdos, NEW n \in Nat, n < Len(Plan(m)),
           Reached(p, m, n)
    PROVE  /\ Reached(Remapped(p, Plan(m)[n + 1]), m, n)
           /\ Reached(Remapped(p, Plan(m)[n + 1]), m, n + 1)
<1>0. PICK r : r = Plan(m)[n + 1]
  OBVIOUS
<1>1. PICK q : q = Remapped(p, r)
  OBVIOUS
<1>2. PICK l \in Nat : l = Len(Plan(m)) /\ l = (IF m = "csp" THEN 8 ELSE 7)
  BY PlanFacts
<1>3. /\ r \in Requests /\ r.obj \in PdoObjects
  <2>1. PICK k \in 1..Len(Plan(m)) : k = n + 1
    BY <1>2
  <2> QED  BY <1>0, <2>1, PlanAt
<1>4. /\ q \in Pdos
      /\ r.obj = "cob" => q.on = (r.val = "on") /\ q.count = p.count /\ q.entries = p.entries
      /\ r.obj = "count" => q.on = p.on /\ q.count = r.val /\ q.entries = p.entries
      /\ r.obj = "type" => q = p
      /\ \A i \in 1..3 : r.obj = EntryObject[i] =>
            /\ q.on = p.on /\ q.count = p.count
            /\ \A j \in 1..3 : q.entries[j] = IF j = i THEN r.val ELSE p.entries[j]
  BY <1>1, <1>3, RemappedFacts
<1>5. /\ 1 <= n /\ n < l - 1 => ~p.on
      /\ \A i \in 1..3 : i + 2 <= n => p.entries[i] = Mapping[m][i]
      /\ n >= 6 => p.count = 3
  BY <1>2 DEF Reached
<1>6. ASSUME /\ n < l - 1 => ~q.on
             /\ \A i \in 1..3 : i + 2 <= n + 1 => q.entries[i] = Mapping[m][i]
             /\ n + 1 >= 6 => q.count = 3
             /\ n + 1 = l => q.on
      PROVE  Reached(q, m, n) /\ Reached(q, m, n + 1)
  BY <1>2, <1>6 DEF Reached
<1>7. CASE n = 0
  <2>1. r = Down("cob", "off")
    BY <1>0, <1>7, PlanFacts
  <2>2. r.obj = "cob" /\ r.val = "off"
    BY <2>1, FieldFacts
  <2>3. ~q.on
    BY <1>4, <2>2
  <2>4. Reached(q, m, n) /\ Reached(q, m, n + 1)
    BY <1>2, <1>6, <1>7, <2>3
  <2> QED  BY <1>0, <1>1, <2>4
<1>8. CASE n = 1
  <2>1. r = Down("count", 0)
    BY <1>0, <1>8, PlanFacts
  <2>2. r.obj = "count" /\ r.val = 0
    BY <2>1, FieldFacts
  <2> QED  BY <1>0, <1>1, <1>2, <1>4, <1>5, <1>6, <1>8, <2>2
<1>9. CASE n \in 2..4
  <2>1. PICK k \in 1..3 : k + 1 = n
    <3>1. n - 1 \in 1..3 /\ (n - 1) + 1 = n
      BY <1>9
    <3> QED  BY <3>1
  <2>2. r = Down(EntryObject[k], Mapping[m][k])
    <3>1. \A i \in 1..3 : Plan(m)[2 + i] = Down(EntryObject[i], Mapping[m][i])
      BY PlanFacts
    <3>2. 2 + k = n + 1
      BY <2>1
    <3> QED  BY <1>0, <3>1, <3>2
  <2>3. r.obj = EntryObject[k] /\ r.val = Mapping[m][k]
    BY <2>2, FieldFacts
  <2>4. /\ q.on = p.on
        /\ \A j \in 1..3 : q.entries[j] = IF j = k THEN r.val ELSE p.entries[j]
    BY <1>4, <2>3
  <2>5. \A i \in 1..3 : i + 2 <= n + 1 => q.entries[i] = Mapping[m][i]
    BY <1>5, <2>1, <2>3, <2>4
  <2>6. Reached(q, m, n) /\ Reached(q, m, n + 1)
    BY <1>2, <1>5, <1>6, <1>9, <2>4, <2>5
  <2> QED  BY <1>0, <1>1, <2>6
<1>10. CASE n = 5
  <2>1. r = Down("count", 3)
    BY <1>0, <1>10, PlanFacts
  <2>2. r.obj = "count" /\ r.val = 3
    BY <2>1, FieldFacts
  <2>3. Reached(q, m, n) /\ Reached(q, m, n + 1)
    BY <1>2, <1>4, <1>5, <1>6, <1>10, <2>2
  <2> QED  BY <1>0, <1>1, <2>3
<1>11. CASE n = 6 /\ m = "csp"
  <2>1. r = Down("type", 1) /\ l = 8
    BY <1>0, <1>2, <1>11, PlanFacts
  <2>2. q = p
    BY <1>4, <2>1, FieldFacts
  <2>3. Reached(q, m, n) /\ Reached(q, m, n + 1)
    BY <1>2, <1>5, <1>6, <1>11, <2>1, <2>2
  <2> QED  BY <1>0, <1>1, <2>3
<1>12. CASE n + 1 = l
  <2>1. r = Down("cob", "on")
    BY <1>0, <1>2, <1>12, PlanFacts
  <2>2. r.obj = "cob" /\ r.val = "on"
    BY <2>1, FieldFacts
  <2>3. n >= 6
    BY <1>2, <1>12
  <2>4. q.on /\ q.count = 3 /\ q.entries = p.entries
    BY <1>4, <1>5, <2>2, <2>3
  <2>5. Reached(q, m, n) /\ Reached(q, m, n + 1)
    BY <1>2, <1>5, <1>6, <1>12, <2>3, <2>4
  <2> QED  BY <1>0, <1>1, <2>5
<1>13. \/ n = 0 \/ n = 1 \/ n \in 2..4 \/ n = 5 \/ (n = 6 /\ m = "csp") \/ n + 1 = l
  BY <1>2
<1> QED
  BY <1>7, <1>8, <1>9, <1>10, <1>11, <1>12, <1>13

(* What switches the PDO on, or writes to it, finds it ready.                   *)
LEMMA PlanReady ==
    ASSUME NEW m \in Remaps, pdo \in Pdos, NEW n \in Nat, n < Len(Plan(m)), Reached(pdo, m, n)
    PROVE  Ready(Plan(m)[n + 1])
<1>0. m \in {"csp", "cst"}
  BY MethodFacts
<1>1. PICK r : r = Plan(m)[n + 1]
  OBVIOUS
<1>2. PICK l \in Nat : l = Len(Plan(m)) /\ l = (IF m = "csp" THEN 8 ELSE 7)
  BY <1>0, PlanFacts
<1>3. CASE n = 0
  <2>1. r = Down("cob", "off")
    BY <1>0, <1>1, <1>3, PlanFacts
  <2>2. r.obj = "cob" /\ r.val = "off"
    BY <2>1, FieldFacts
  <2> QED  BY <1>1, <2>2 DEF Ready
<1>4. CASE n >= 1 /\ n < l - 1
  <2>1. ~pdo.on
    BY <1>2, <1>4 DEF Reached
  <2>2. ~(r.obj = "cob" /\ r.val = "on")
    <3>1. \/ n = 1 \/ n \in 2..4 \/ n = 5 \/ (n = 6 /\ m = "csp")
      BY <1>0, <1>2, <1>4
    <3>2. CASE n = 1
      <4>1. r = Down("count", 0)
        BY <1>0, <1>1, <3>2, PlanFacts
      <4> QED  BY <4>1, FieldFacts
    <3>3. CASE n \in 2..4
      <4>1. n - 1 \in 1..3 /\ 2 + (n - 1) = n + 1
        BY <3>3
      <4>2. \A i \in 1..3 : Plan(m)[2 + i] = Down(EntryObject[i], Mapping[m][i])
        BY <1>0, PlanFacts
      <4>3. r = Down(EntryObject[n - 1], Mapping[m][n - 1])
        BY <1>1, <4>1, <4>2
      <4>4. r.obj = EntryObject[n - 1]
        BY <4>3, FieldFacts
      <4>5. \A i \in 1..3 : EntryObject[i] # "cob"
        BY DEF EntryObject
      <4> QED  BY <4>1, <4>4, <4>5
    <3>4. CASE n = 5
      <4>1. r = Down("count", 3)
        BY <1>0, <1>1, <3>4, PlanFacts
      <4> QED  BY <4>1, FieldFacts
    <3>5. CASE n = 6 /\ m = "csp"
      <4>1. r = Down("type", 1)
        BY <1>0, <1>1, <3>5, PlanFacts
      <4> QED  BY <4>1, FieldFacts
    <3> QED  BY <3>1, <3>2, <3>3, <3>4, <3>5
  <2> QED  BY <1>1, <2>1, <2>2 DEF Ready
<1>5. CASE n + 1 = l
  <2>1. r = Down("cob", "on")
    BY <1>0, <1>1, <1>2, <1>5, PlanFacts
  <2>2. r.obj = "cob"
    BY <2>1, FieldFacts
  <2>3. pdo.count = 3 /\ \A i \in 1..3 : pdo.entries[i] = Mapping[m][i]
    BY <1>2, <1>5 DEF Reached
  <2>4. Len(Mapping[m]) = 3
    BY <1>0, EntryFacts
  <2>5. Whole(pdo, Mapping[m])
    BY <2>3, <2>4 DEF Whole
  <2> QED  BY <1>1, <2>2, <2>5 DEF Ready
<1> QED
  BY <1>2, <1>3, <1>4, <1>5

(* The PDO invariant: what each step makes of it.                               *)
PdoInv == InStep /\ Progress /\ Leftovers /\ MappingInForce /\ PdoNeverTorn

LEMMA PdoFacts ==
    ASSUME CanTypes, TodoByMethod, InOrder, PdoInv, todo # <<>>, op \in Remaps, ~excused
    PROVE  /\ Done \in Nat /\ Done < Len(Plan(op)) /\ todo[1] = Plan(op)[Done + 1]
           /\ Reached(pdo, op, Done) /\ pdo \in Pdos /\ op \in {"csp", "cst"}
           /\ ~waiting => /\ \A i \in 1..Len(toDrive) : ~toDrive[i].fresh
                          /\ \A i \in 1..Len(toHost) : ~toHost[i].fresh
           /\ Done >= 1 => \A i \in 1..Len(toDrive) : toDrive[i].obj \in PdoObjects => toDrive[i].fresh
           /\ \A i \in 1..Len(toHost) :
                 toHost[i].fresh => /\ toDrive = <<>> /\ waiting
                                    /\ toHost[i].cmd = "ack" => Reached(pdo, op, Done + 1)
<1>1. /\ Done \in Nat /\ Done < Len(Plan(op)) /\ todo[1] = Plan(op)[Done + 1] /\ op \in {"csp", "cst"}
  BY TodoFacts
<1>2. pdo \in Pdos /\ toDrive \in Seq(Requests)
  BY QueuesTyped DEF CanTypes, DriveTypes
<1>3. InStep /\ Progress
  BY DEF PdoInv
<1>4. ASSUME NEW i \in 1..Len(toHost), toHost[i].fresh
      PROVE  /\ toDrive = <<>> /\ waiting
             /\ toHost[i].cmd = "ack" => Reached(pdo, op, Done + 1)
  <2>1. waiting /\ \A j \in 1..Len(toDrive) : ~toDrive[j].fresh
    BY <1>3, <1>4 DEF InStep
  <2>2. \A j \in 1..Len(toDrive) : toDrive[j].fresh
    BY <1>4 DEF InOrder
  <2>3. Len(toDrive) \in Nat /\ (toDrive # <<>> => Len(toDrive) >= 1)
    BY <1>2, QueueTail, TypesOfQueues
  <2>4. toDrive = <<>>
    BY <2>1, <2>2, <2>3
  <2>5. toHost[i].cmd = "ack" => Reached(pdo, op, Done + 1)
    BY <1>3, <1>4 DEF Progress
  <2> QED  BY <2>1, <2>4, <2>5
<1>5. ~waiting => /\ \A i \in 1..Len(toDrive) : ~toDrive[i].fresh
                  /\ \A i \in 1..Len(toHost) : ~toHost[i].fresh
  BY <1>3 DEF InStep
<1>6. /\ Reached(pdo, op, Done)
      /\ Done >= 1 => \A i \in 1..Len(toDrive) : toDrive[i].obj \in PdoObjects => toDrive[i].fresh
  BY <1>3 DEF Progress
<1> QED
  BY <1>1, <1>2, <1>4, <1>5, <1>6

LEMMA PdoCall ==
    ASSUME CanTypes, PdoInv, NEW m \in Methods, Call(m)
    PROVE  PdoInv'
<1>1. /\ op' = m /\ todo' = RequestsOf(m) /\ result' = "none" /\ UNCHANGED <<drive, pdo, excused>>
      /\ toDrive' = Aged(toDrive) /\ toHost' = Aged(toHost)
  BY DEF Call
<1>2. /\ Len(toDrive') = Len(toDrive)
      /\ \A i \in 1..Len(toDrive) : /\ toDrive'[i].obj = toDrive[i].obj
                                    /\ toDrive'[i].val = toDrive[i].val /\ ~toDrive'[i].fresh
  BY <1>1, QueuesTyped, AgedRequests
<1>3. Len(toHost') = Len(toHost) /\ \A i \in 1..Len(toHost) : ~toHost'[i].fresh
  BY <1>1, QueuesTyped, AgedAnswers
<1>4. InStep'
  BY <1>2, <1>3 DEF InStep
<1>5. Progress'
  <2>1. ASSUME m \in Remaps PROVE Done' = 0 /\ Len(Plan(m)) >= 7 /\ Len(Plan(m)) \in Nat
    <3>1. RequestsOf(m) = Plan(m)
      BY <2>1, RequestsOfFacts
    <3>2. m \in {"csp", "cst"}
      BY <2>1, MethodFacts
    <3>3. Len(Plan(m)) = IF m = "csp" THEN 8 ELSE 7
      BY <3>2, PlanFacts
    <3> QED  BY <1>1, <3>1, <3>3 DEF Done
  <2>2. m \in Remaps => Reached(pdo, m, 0)
    BY <2>1 DEF Reached
  <2>3. m \in Remaps => Reached(pdo', op', Done')
    BY <1>1, <2>1, <2>2
  <2>4. ASSUME m \in Remaps PROVE ~(Done' >= 1)
    BY <2>1, <2>4
  <2> QED  BY <1>1, <1>3, <2>3, <2>4 DEF Progress
<1>6. Leftovers'
  <2>1. Leftovers
    BY DEF PdoInv
  <2>2. \A i \in 1..Len(toDrive) : Ready(toDrive[i]) => Ready(toDrive[i])'
    BY <1>1, <1>2 DEF Ready
  <2> QED  BY <1>1, <1>2, <2>1, <2>2 DEF Leftovers, SwitchesOff, Ready
<1>7. MappingInForce' /\ PdoNeverTorn'
  BY <1>1 DEF PdoInv, MappingInForce, PdoNeverTorn
<1> QED
  BY <1>4, <1>5, <1>6, <1>7 DEF PdoInv

LEMMA PdoSend ==
    ASSUME CanTypes, TodoByMethod, InOrder, PdoInv, Send
    PROVE  PdoInv'
<1>1. /\ todo # <<>> /\ ~waiting /\ todo[1] \in Requests
      /\ toDrive' = Append(toDrive, todo[1])
      /\ waiting' = (todo[1].cmd # "nmt")
      /\ todo' = IF todo[1].cmd = "nmt" THEN Tail(todo) ELSE todo
      /\ UNCHANGED <<toHost, op, result, pdo, excused>>
  BY SendFacts DEF history
<1>2. /\ Len(toDrive) \in Nat /\ Len(toDrive') = Len(toDrive) + 1
      /\ toDrive'[Len(toDrive) + 1] = todo[1]
      /\ \A i \in 1..Len(toDrive') :
            i = Len(toDrive) + 1 \/ (i \in 1..Len(toDrive) /\ toDrive'[i] = toDrive[i])
  BY <1>1, QueuesTyped, AppendedAt
<1>3. InStep /\ Progress /\ Leftovers /\ MappingInForce /\ PdoNeverTorn
  BY DEF PdoInv
<1>4. result = "none"
  BY <1>1 DEF CanTypes, HostTypes
<1>5. MappingInForce' /\ PdoNeverTorn'
  BY <1>1, <1>3, <1>4 DEF MappingInForce, PdoNeverTorn
<1>6. ASSUME op \in Remaps PROVE todo' = todo /\ waiting' = TRUE /\ Done' = Done
  <2>1. todo[1].cmd = "down"
    BY <1>1, <1>6, TodoFacts
  <2> QED  BY <1>1, <2>1 DEF Done
<1>7. InStep'
  <2> SUFFICES ASSUME op \in Remaps, ~excused \/ Done = 0 PROVE InStep'
    BY <1>1, <1>6 DEF InStep
  <2>1. /\ \A i \in 1..Len(toDrive) : ~toDrive[i].fresh
        /\ \A i \in 1..Len(toHost) : ~toHost[i].fresh
    BY <1>1, <1>3 DEF InStep
  <2>2. \A i \in 1..Len(toDrive') : toDrive'[i].fresh =>
              waiting' /\ i = Len(toDrive') /\ toDrive'[i] = todo'[1]
    BY <1>2, <1>6, <2>1
  <2>3. \A i \in 1..Len(toHost') : ~toHost'[i].fresh
    BY <1>1, <2>1
  <2> QED  BY <2>2, <2>3 DEF InStep
<1>8. Progress'
  <2> SUFFICES ASSUME op \in Remaps, ~excused PROVE Progress'
    BY <1>1 DEF Progress
  <2>1. /\ Done >= 1 => \A i \in 1..Len(toDrive) : toDrive[i].obj \in PdoObjects => toDrive[i].fresh
        /\ Reached(pdo, op, Done) /\ \A i \in 1..Len(toHost) : ~toHost[i].fresh
    BY <1>1, PdoFacts
  <2>2. todo[1].fresh
    <3>1. 1 \in 1..Len(todo)
      BY <1>1, TypesOfQueues
    <3> QED  BY <3>1, TodoFacts
  <2>3. Done' >= 1 => \A i \in 1..Len(toDrive') :
                         toDrive'[i].obj \in PdoObjects => toDrive'[i].fresh
    BY <1>2, <1>6, <2>1, <2>2
  <2>4. Reached(pdo', op', Done') /\ \A i \in 1..Len(toHost') : ~toHost'[i].fresh
    BY <1>1, <1>6, <2>1
  <2> QED  BY <2>3, <2>4 DEF Progress
<1>9. Leftovers'
  <2> SUFFICES ASSUME ~excused PROVE Leftovers'
    BY <1>1 DEF Leftovers
  <2>1. /\ \A i, j \in 1..Len(toDrive) :
              i < j /\ toDrive[i].obj \in PdoObjects /\ toDrive[j].obj \in PdoObjects
                 => SwitchesOff(toDrive[j])
        /\ \A i \in 1..Len(toDrive) : Ready(toDrive[i])
    BY <1>3 DEF Leftovers
  <2>2. Ready(todo[1]) /\ \/ \A i \in 1..Len(toDrive) : toDrive[i].obj \notin PdoObjects
                          \/ SwitchesOff(todo[1]) \/ todo[1].obj \notin PdoObjects
    <3>1. CASE op \notin Remaps
      <4>1. todo[1].obj \notin PdoObjects
        BY <1>1, <3>1, TodoFacts
      <4> QED  BY <4>1 DEF Ready, PdoObjects
    <3>2. CASE op \in Remaps
      <4>1. /\ Done \in Nat /\ Done < Len(Plan(op)) /\ todo[1] = Plan(op)[Done + 1]
            /\ Reached(pdo, op, Done) /\ pdo \in Pdos /\ op \in {"csp", "cst"}
            /\ \A i \in 1..Len(toDrive) : ~toDrive[i].fresh
            /\ Done >= 1 => \A i \in 1..Len(toDrive) : toDrive[i].obj \in PdoObjects => toDrive[i].fresh
        BY <1>1, <3>2, PdoFacts
      <4>2. Ready(todo[1])
        BY <3>2, <4>1, PlanReady
      <4>3. Done = 0 => SwitchesOff(todo[1])
        <5>1. Plan(op)[1] = Down("cob", "off")
          BY <4>1, PlanFacts
        <5> QED  BY <4>1, <5>1, FieldFacts DEF SwitchesOff
      <4>4. Done >= 1 => \A i \in 1..Len(toDrive) : toDrive[i].obj \notin PdoObjects
        BY <4>1
      <4> QED  BY <4>1, <4>2, <4>3, <4>4
    <3> QED  BY <3>1, <3>2
  <2>3. ASSUME NEW i \in 1..Len(toDrive'), NEW j \in 1..Len(toDrive'), i < j,
               toDrive'[i].obj \in PdoObjects, toDrive'[j].obj \in PdoObjects
        PROVE  SwitchesOff(toDrive'[j])
    <3>1. i \in 1..Len(toDrive) /\ toDrive'[i] = toDrive[i]
      BY <1>2, <2>3
    <3> QED  BY <1>2, <2>1, <2>2, <2>3, <3>1
  <2>4. \A i \in 1..Len(toDrive') : Ready(toDrive'[i])
    BY <1>2, <2>1, <2>2
  <2>5. \A i \in 1..Len(toDrive') : Ready(toDrive[i])'
    BY <1>1, <2>4 DEF Ready
  <2> QED  BY <2>3, <2>5 DEF Leftovers, SwitchesOff, Ready
<1> QED
  BY <1>5, <1>7, <1>8, <1>9 DEF PdoInv

LEMMA PdoEnds ==
    ASSUME CanTypes, PdoInv, todo' = <<>>, result' # "ok", UNCHANGED <<toDrive, pdo, excused>>
    PROVE  PdoInv'
<1>1. InStep' /\ Progress' /\ MappingInForce'
  BY DEF InStep, Progress, MappingInForce
<1>2. Leftovers'
  BY DEF PdoInv, Leftovers, Ready
<1>3. PdoNeverTorn'
  BY DEF PdoInv, PdoNeverTorn
<1> QED
  BY <1>1, <1>2, <1>3 DEF PdoInv

(* Frames of others come and go.                                                *)
LEMMA PdoIdle ==
    ASSUME CanTypes, PdoInv, UNCHANGED <<toDrive, op, todo, waiting, result, pdo, excused>>,
           clean' => clean,
           \/ toHost' = toHost
           \/ toHost # <<>> /\ toHost' = Tail(toHost)
           \/ \E a \in Answers : toHost' = Append(toHost, a) /\ ~a.fresh
    PROVE  PdoInv'
<1>1. ASSUME NEW i \in 1..Len(toHost'), toHost'[i].fresh
      PROVE  \E k \in 1..Len(toHost) :
                toHost[k] = toHost'[i]
                /\ \A j \in 1..Len(toHost') : toHost'[j].fresh =>
                      \E n \in 1..Len(toHost) : toHost[n] = toHost'[j] /\ (n = k => j = i)
  <2>0. toHost \in Seq(Answers)
    BY QueuesTyped
  <2>1. CASE toHost' = toHost
    BY <1>1, <2>1
  <2>2. CASE toHost # <<>> /\ toHost' = Tail(toHost)
    <3>1. \A j \in 1..Len(toHost') : j + 1 \in 1..Len(toHost) /\ toHost'[j] = toHost[j + 1]
      BY <2>0, <2>2, TailAt
    <3>2. i + 1 \in 1..Len(toHost) /\ toHost[i + 1] = toHost'[i]
      BY <3>1
    <3>3. ASSUME NEW j \in 1..Len(toHost')
          PROVE  \E n \in 1..Len(toHost) : toHost[n] = toHost'[j] /\ (n = i + 1 => j = i)
      <4>1. j + 1 \in 1..Len(toHost) /\ toHost[j + 1] = toHost'[j] /\ (j + 1 = i + 1 => j = i)
        BY <3>1
      <4> QED  BY <4>1
    <3> QED  BY <3>2, <3>3
  <2>3. CASE \E a \in Answers : toHost' = Append(toHost, a) /\ ~a.fresh
    <3>1. PICK a \in Answers : toHost' = Append(toHost, a) /\ ~a.fresh
      BY <2>3
    <3>2. /\ toHost'[Len(toHost) + 1] = a
          /\ \A j \in 1..Len(toHost') :
                j = Len(toHost) + 1 \/ (j \in 1..Len(toHost) /\ toHost'[j] = toHost[j])
      BY <2>0, <3>1, AppendedAt
    <3>3. \A j \in 1..Len(toHost') :
             toHost'[j].fresh => j \in 1..Len(toHost) /\ toHost'[j] = toHost[j]
      BY <3>1, <3>2
    <3> QED  BY <1>1, <3>3
  <2> QED  BY <2>1, <2>2, <2>3
<1>2. InStep'
  <2> SUFFICES ASSUME op \in Remaps, todo # <<>>, ~excused \/ Done = 0 PROVE InStep'
    BY DEF InStep, Done
  <2>1. /\ \A i \in 1..Len(toDrive) : toDrive[i].fresh =>
              waiting /\ i = Len(toDrive) /\ toDrive[i] = todo[1]
        /\ \A i \in 1..Len(toHost) : toHost[i].fresh =>
              /\ waiting /\ toHost[i].obj = todo[1].obj
              /\ \A j \in 1..Len(toDrive) : ~toDrive[j].fresh
              /\ \A j \in 1..Len(toHost) : toHost[j].fresh => j = i
    BY DEF PdoInv, InStep
  <2>2. ASSUME NEW i \in 1..Len(toHost'), toHost'[i].fresh
        PROVE  /\ waiting /\ toHost'[i].obj = todo[1].obj
               /\ \A j \in 1..Len(toDrive) : ~toDrive[j].fresh
               /\ \A j \in 1..Len(toHost') : toHost'[j].fresh => j = i
    <3>1. PICK k \in 1..Len(toHost) :
                toHost[k] = toHost'[i]
                /\ \A j \in 1..Len(toHost') : toHost'[j].fresh =>
                      \E n \in 1..Len(toHost) : toHost[n] = toHost'[j] /\ (n = k => j = i)
      BY <1>1, <2>2
    <3>2. \A j \in 1..Len(toHost') : toHost'[j].fresh => j = i
      BY <2>1, <2>2, <3>1
    <3> QED  BY <2>1, <2>2, <3>1, <3>2
  <2> QED  BY <2>1, <2>2 DEF InStep
<1>3. Progress'
  <2>1. Progress
    BY DEF PdoInv
  <2>2. \A i \in 1..Len(toHost') : toHost'[i].fresh => \E k \in 1..Len(toHost) : toHost[k] = toHost'[i]
    BY <1>1
  <2>3. Done' = Done
    BY DEF Done
  <2> QED  BY <2>1, <2>2, <2>3 DEF Progress
<1>4. Leftovers'
  BY DEF PdoInv, Leftovers, Ready
<1>5. PdoNeverTorn' /\ MappingInForce'
  BY DEF PdoInv, PdoNeverTorn, MappingInForce
<1> QED
  BY <1>2, <1>3, <1>4, <1>5 DEF PdoInv

LEMMA PdoReset ==
    ASSUME CanTypes, PdoInv, Reset
    PROVE  PdoInv'
<1>1. /\ pdo' = DefaultPdo /\ toDrive' = <<>> /\ Len(toDrive') = 0
      /\ excused' = (todo # <<>> /\ op \in Remaps)
      /\ clean' = (clean /\ op \notin Remaps)
      /\ UNCHANGED <<toHost, op, todo, waiting, result>>
  BY ResetFacts DEF hostvars
<1>2. InStep'
  <2>1. InStep
    BY DEF PdoInv
  <2>2. \A j : j \notin 1..Len(toDrive')
    BY <1>1
  <2>3. Done' = Done
    BY <1>1 DEF Done
  <2> SUFFICES ASSUME op \in Remaps, todo # <<>>, Done = 0 PROVE InStep'
    BY <1>1, <2>3 DEF InStep
  <2> QED  BY <1>1, <2>1, <2>2 DEF InStep
<1>3. Progress'
  BY <1>1 DEF Progress
<1>4. Leftovers'
  BY <1>1 DEF Leftovers
<1>5. PdoNeverTorn' /\ MappingInForce'
  BY <1>1 DEF PdoNeverTorn, MappingInForce
<1> QED
  BY <1>2, <1>3, <1>4, <1>5 DEF PdoInv

LEMMA PdoAccept ==
    ASSUME CanTypes, TodoByMethod, InOrder, PdoInv, Accept
    PROVE  PdoInv'
<1> DEFINE f == toHost[1]
<1>0. /\ todo # <<>> /\ waiting /\ toHost # <<>> /\ toHost' = Tail(toHost)
      /\ f.id = "sdo" /\ f.obj = todo[1].obj /\ UNCHANGED <<toDrive, op, drive, pdo>>
  BY AcceptFacts
<1>1. /\ Len(toHost) \in Nat /\ Len(toHost) >= 1 /\ 1 \in 1..Len(toHost)
      /\ \A i \in 1..Len(toHost') : i + 1 \in 1..Len(toHost) /\ toHost'[i] = toHost[i + 1]
  BY <1>0, TypesOfQueues, QueuesTyped, TailAt
<1>2. ASSUME NEW how \in {"error", "exhausted"}, Raise(how), excused' = excused PROVE PdoInv'
  <2>1. todo' = <<>> /\ result' # "ok"
    BY <1>2 DEF Raise
  <2> QED  BY <1>0, <1>2, <2>1, PdoEnds
<1>3. ASSUME NEW rest \in Seq(Requests), Proceed(f, rest), NextRequests(f, rest),
             f.cmd = (IF todo[1].cmd = "up" THEN "data" ELSE "ack")
      PROVE  PdoInv'
  <2>1. /\ todo' = rest /\ waiting' = FALSE /\ clean' = clean
        /\ result' = (IF rest = <<>> THEN "ok" ELSE "none")
        /\ excused' = (excused \/ (f.obj \in PdoObjects /\ ~f.fresh))
    BY <1>3 DEF Proceed
  <2>2. Leftovers'
    BY <1>0, <2>1 DEF PdoInv, Leftovers, Ready
  <2>3. PdoNeverTorn'
    BY <1>0, <2>1 DEF PdoInv, PdoNeverTorn
  <2>4. CASE op \notin Remaps
    BY <1>0, <2>2, <2>3, <2>4 DEF PdoInv, InStep, Progress, MappingInForce
  <2>5. CASE op \in Remaps
    <3>1. rest = Tail(todo)
      BY <1>3, <2>5, MethodFacts DEF NextRequests
    <3>2. /\ op \in {"csp", "cst"} /\ Done \in Nat /\ Done < Len(Plan(op))
          /\ Len(Plan(op)) = (IF op = "csp" THEN 8 ELSE 7) /\ Len(todo) = Len(Plan(op)) - Done
          /\ todo[1].cmd = "down" /\ todo[1].obj \in PdoObjects
      BY <1>0, <2>5, TodoFacts
    <3>3. Len(todo) \in Nat /\ Len(rest) = Len(todo) - 1
      BY <1>0, <3>1, QueuesTyped, TailAt
    <3>4. Done' = Done + 1
      BY <1>0, <2>1, <3>2, <3>3 DEF Done
    <3>5. CASE excused'
      <4>1. ~(Done' = 0)
        BY <3>2, <3>4
      <4> QED  BY <2>2, <2>3, <3>5, <4>1 DEF PdoInv, InStep, Progress, MappingInForce
    <3>6. CASE ~excused'
      <4>1. ~excused /\ f.fresh /\ f.cmd = "ack"
        BY <1>0, <1>3, <2>1, <3>2, <3>6
      <4>2. toDrive = <<>> /\ Reached(pdo, op, Done + 1)
        BY <1>0, <1>1, <2>5, <4>1, PdoFacts
      <4>3. \A j \in 1..Len(toHost) : toHost[j].fresh => j = 1
        BY <1>0, <1>1, <2>5, <4>1 DEF PdoInv, InStep
      <4>4. \A i \in 1..Len(toHost') : ~toHost'[i].fresh
        <5>1. ASSUME NEW i \in 1..Len(toHost'), toHost'[i].fresh PROVE FALSE
          <6>1. i + 1 \in 1..Len(toHost) /\ toHost[i + 1].fresh
            BY <1>1, <5>1
          <6>2. i + 1 = 1
            BY <4>3, <6>1
          <6> QED  BY <1>1, <6>2
        <5> QED  BY <5>1
      <4>5. \A i : i \notin 1..Len(toDrive')
        <5>1. toDrive' = <<>>
          BY <1>0, <4>2
        <5>2. Len(toDrive') = 0
          BY <5>1
        <5> QED  BY <5>2
      <4>6. InStep'
        BY <4>4, <4>5 DEF InStep
      <4>7. Progress'
        BY <1>0, <3>4, <4>2, <4>4, <4>5 DEF Progress
      <4>8. MappingInForce'
        <5> SUFFICES ASSUME result' = "ok" PROVE MappingInForce'
          BY DEF MappingInForce
        <5>1. rest = <<>>
          BY <2>1
        <5>2. Len(rest) = 0
          BY <5>1
        <5>3. Done + 1 = Len(Plan(op)) /\ Done + 1 >= 6
          BY <3>2, <3>3, <5>2
        <5>4. pdo.on /\ pdo.count = 3 /\ \A i \in 1..3 : pdo.entries[i] = Mapping[op][i]
          BY <3>2, <4>2, <5>3 DEF Reached
        <5>5. Whole(pdo, Mapping[op])
          BY <3>2, <5>4, EntryFacts DEF Whole
        <5> QED  BY <1>0, <4>2, <5>4, <5>5 DEF MappingInForce
      <4> QED  BY <2>2, <2>3, <4>6, <4>7, <4>8 DEF PdoInv
    <3> QED  BY <3>5, <3>6
  <2> QED  BY <2>4, <2>5
<1> QED
  BY <1>2, <1>3, AcceptFacts

(* Serving the head of the bus: the rest of the queue, and the answer if any.   *)
LEMMA ServeRest ==
    ASSUME CanTypes, Serve
    PROVE  /\ toDrive[1] \in Requests /\ 1 \in 1..Len(toDrive) /\ Len(toDrive) \in Nat
           /\ Len(toDrive') = Len(toDrive) - 1 /\ toDrive # <<>>
           /\ \A i \in 1..Len(toDrive') : i + 1 \in 1..Len(toDrive) /\ toDrive'[i] = toDrive[i + 1]
           /\ UNCHANGED <<op, todo, waiting, result, clean>>
           /\ \/ /\ toHost' = toHost /\ UNCHANGED <<pdo, excused>>
              \/ \E a \in Answers :
                   /\ toHost' = Append(toHost, a) /\ a.obj = toDrive[1].obj
                   /\ a.fresh = toDrive[1].fresh
                   /\ a.cmd # "ack" => UNCHANGED <<pdo, excused>>
                   /\ a.cmd = "ack" =>
                        /\ pdo' = IF toDrive[1].obj \in PdoObjects THEN Remapped(pdo, toDrive[1]) ELSE pdo
                        /\ excused' = (excused /\ ~(/\ toDrive[1].fresh /\ SwitchesOff(toDrive[1])
                                                    /\ waiting /\ SwitchesOff(Head(todo))))
<1>1. /\ toDrive[1] \in Requests /\ toDrive # <<>> /\ toDrive' = Tail(toDrive)
      /\ UNCHANGED <<op, todo, waiting, result, clean>>
  BY ServeFacts DEF hostvars
<1>2. /\ Len(toDrive) \in Nat /\ Len(toDrive) >= 1 /\ Len(toDrive') = Len(toDrive) - 1
      /\ \A i \in 1..Len(toDrive') : i + 1 \in 1..Len(toDrive) /\ toDrive'[i] = toDrive[i + 1]
  BY <1>1, QueuesTyped, TailAt
<1>3. CASE toHost' = toHost /\ UNCHANGED <<pdo, excused>>
  BY <1>1, <1>2, <1>3
<1>4. CASE ~(toHost' = toHost /\ UNCHANGED <<pdo, excused>>)
  <2>1. \E a \in Answers :
           /\ toHost' = Append(toHost, a) /\ a.obj = toDrive[1].obj
           /\ a.fresh = toDrive[1].fresh
           /\ a.cmd # "ack" => UNCHANGED <<pdo, excused>>
           /\ a.cmd = "ack" =>
                /\ pdo' = IF toDrive[1].obj \in PdoObjects THEN Remapped(pdo, toDrive[1]) ELSE pdo
                /\ excused' = (excused /\ ~(/\ toDrive[1].fresh /\ SwitchesOff(toDrive[1])
                                            /\ waiting /\ SwitchesOff(Head(todo))))
    BY <1>4, ServeFacts
  <2> QED  BY <1>1, <1>2, <2>1
<1> QED
  BY <1>3, <1>4

(* A request that the drive has taken, and what the PDO is then.                *)
Taken == /\ toDrive[1].obj \in PdoObjects
         /\ pdo' = Remapped(pdo, toDrive[1])
         /\ excused' = (excused /\ ~(/\ toDrive[1].fresh /\ SwitchesOff(toDrive[1])
                                     /\ waiting /\ SwitchesOff(Head(todo))))

LEMMA ServeInStep ==
    ASSUME CanTypes, TodoByMethod, InStep, Serve
    PROVE  InStep' /\ (excused /\ ~excused' => op \in Remaps /\ todo # <<>> /\ Done = 0 /\ Taken
                                              /\ SwitchesOff(toDrive[1]) /\ toDrive'= <<>>)
<1>0. /\ toDrive[1] \in Requests /\ 1 \in 1..Len(toDrive) /\ Len(toDrive) \in Nat
      /\ Len(toDrive') = Len(toDrive) - 1 /\ toDrive # <<>>
      /\ \A i \in 1..Len(toDrive') : i + 1 \in 1..Len(toDrive) /\ toDrive'[i] = toDrive[i + 1]
      /\ UNCHANGED <<op, todo, waiting, result, clean>>
  BY ServeRest
<1>1. todo # <<>> => Head(todo) = todo[1]
  BY TypesOfQueues
<1>2. ASSUME excused, ~excused'
      PROVE  op \in Remaps /\ todo # <<>> /\ Done = 0 /\ Taken /\ SwitchesOff(toDrive[1])
             /\ toDrive[1].fresh
  <2>1. PICK a \in Answers :
           a.cmd = "ack"
           /\ pdo' = (IF toDrive[1].obj \in PdoObjects THEN Remapped(pdo, toDrive[1]) ELSE pdo)
           /\ excused' = (excused /\ ~(/\ toDrive[1].fresh /\ SwitchesOff(toDrive[1])
                                       /\ waiting /\ SwitchesOff(Head(todo))))
    BY <1>2, ServeRest
  <2>2. toDrive[1].fresh /\ SwitchesOff(toDrive[1]) /\ waiting /\ SwitchesOff(Head(todo))
    BY <1>2, <2>1
  <2>3. todo # <<>>
    BY <2>2 DEF CanTypes, HostTypes
  <2>4. toDrive[1].obj \in PdoObjects /\ todo[1].obj \in PdoObjects
    BY <1>1, <2>2, <2>3 DEF SwitchesOff, PdoObjects
  <2>5. op \in Remaps /\ op \in {"csp", "cst"} /\ Done \in Nat
        /\ todo[1] = Plan(op)[Done + 1] /\ Done + 1 \in 1..Len(Plan(op))
    BY <2>3, <2>4, TodoFacts
  <2>6. PICK k \in 1..Len(Plan(op)) : k = Done + 1
    BY <2>5
  <2>7. SwitchesOff(Plan(op)[k]) => k = 1
    BY <2>5, PlanAt
  <2>8. Done = 0
    BY <1>1, <2>2, <2>3, <2>5, <2>6, <2>7
  <2> QED  BY <2>1, <2>2, <2>3, <2>4, <2>5, <2>8 DEF Taken
<1>3. ASSUME op \in Remaps, todo # <<>>, ~excused \/ Done = 0
      PROVE  /\ \A i \in 1..Len(toDrive) : toDrive[i].fresh =>
                    waiting /\ i = Len(toDrive) /\ toDrive[i] = todo[1]
             /\ \A i \in 1..Len(toHost) : toHost[i].fresh =>
                    /\ waiting /\ toHost[i].obj = todo[1].obj
                    /\ \A j \in 1..Len(toDrive) : ~toDrive[j].fresh
                    /\ \A j \in 1..Len(toHost) : toHost[j].fresh => j = i
  BY <1>3 DEF InStep
<1>4. ASSUME excused, ~excused' PROVE toDrive' = <<>>
  <2>1. 1 = Len(toDrive)
    BY <1>0, <1>2, <1>3, <1>4
  <2>2. toDrive' = Tail(toDrive) /\ toDrive \in Seq(Requests)
    BY ServeFacts, QueuesTyped
  <2> QED  BY <2>1, <2>2
<1>5. InStep'
  <2>0. Done' = Done
    BY <1>0 DEF Done
  <2> SUFFICES ASSUME op \in Remaps, todo # <<>>, ~excused' \/ Done = 0 PROVE InStep'
    BY <1>0, <2>0 DEF InStep
  <2>1. ~excused \/ Done = 0
    BY <1>2 DEF CanTypes, HistoryTypes
  <2>2. ASSUME NEW i \in 1..Len(toDrive'), toDrive'[i].fresh
        PROVE  waiting /\ i = Len(toDrive') /\ toDrive'[i] = todo[1]
    <3>1. i + 1 \in 1..Len(toDrive) /\ toDrive'[i] = toDrive[i + 1]
      BY <1>0
    <3>2. waiting /\ i + 1 = Len(toDrive) /\ toDrive[i + 1] = todo[1]
      BY <1>3, <2>1, <2>2, <3>1
    <3> QED  BY <1>0, <3>1, <3>2
  <2>3. CASE toHost' = toHost
    BY <1>0, <1>3, <2>1, <2>2, <2>3 DEF InStep
  <2>4. CASE toHost' # toHost
    <3>1. PICK a \in Answers :
             toHost' = Append(toHost, a) /\ a.obj = toDrive[1].obj /\ a.fresh = toDrive[1].fresh
      BY <2>4, ServeRest
    <3>2. /\ toHost'[Len(toHost) + 1] = a
          /\ \A i \in 1..Len(toHost') :
                i = Len(toHost) + 1 \/ (i \in 1..Len(toHost) /\ toHost'[i] = toHost[i])
      BY <3>1, QueuesTyped, AppendedAt
    <3>3. CASE toDrive[1].fresh
      <4>1. waiting /\ Len(toDrive) = 1 /\ toDrive[1] = todo[1]
        BY <1>0, <1>3, <2>1, <3>3
      <4>2. \A i \in 1..Len(toHost) : ~toHost[i].fresh
        BY <1>0, <1>3, <2>1, <3>3
      <4>3. \A i \in 1..Len(toHost') : toHost'[i].fresh => i = Len(toHost) + 1 /\ toHost'[i] = a
        BY <3>2, <4>2
      <4>4. \A i : i \notin 1..Len(toDrive')
        BY <1>0, <4>1
      <4>5. waiting' /\ a.obj = todo'[1].obj
        BY <1>0, <3>1, <4>1
      <4> QED  BY <4>3, <4>4, <4>5 DEF InStep
    <3>4. CASE ~toDrive[1].fresh
      <4>1. \A i \in 1..Len(toHost') : toHost'[i].fresh => i \in 1..Len(toHost) /\ toHost'[i] = toHost[i]
        BY <3>1, <3>2, <3>4
      <4> QED  BY <1>0, <1>3, <2>1, <2>2, <4>1 DEF InStep
    <3> QED  BY <3>3, <3>4
  <2> QED  BY <2>3, <2>4
<1> QED
  BY <1>2, <1>4, <1>5

LEMMA ServeProgress ==
    ASSUME CanTypes, TodoByMethod, InOrder, PdoInv, Serve, ~excused
    PROVE  Progress'
<1> DEFINE r == toDrive[1]
<1>0. /\ r \in Requests /\ 1 \in 1..Len(toDrive) /\ Len(toDrive) \in Nat
      /\ Len(toDrive') = Len(toDrive) - 1 /\ toDrive # <<>>
      /\ \A i \in 1..Len(toDrive') : i + 1 \in 1..Len(toDrive) /\ toDrive'[i] = toDrive[i + 1]
      /\ UNCHANGED <<op, todo, waiting, result, clean>>
  BY ServeRest
<1>1. Done' = Done
  BY <1>0 DEF Done
<1> SUFFICES ASSUME op \in Remaps, todo # <<>> PROVE Progress'
  BY <1>0 DEF Progress
<1>2. /\ Done \in Nat /\ Done < Len(Plan(op)) /\ todo[1] = Plan(op)[Done + 1]
      /\ Reached(pdo, op, Done) /\ pdo \in Pdos /\ op \in {"csp", "cst"}
      /\ Done >= 1 => \A i \in 1..Len(toDrive) : toDrive[i].obj \in PdoObjects => toDrive[i].fresh
      /\ \A i \in 1..Len(toHost) : toHost[i].fresh => toDrive = <<>>
  BY PdoFacts
<1>3. \A i \in 1..Len(toHost) : ~toHost[i].fresh
  BY <1>0, <1>2
<1>4. r.fresh => r = todo[1]
  BY <1>0 DEF PdoInv, InStep
<1>5. Done' >= 1 => \A i \in 1..Len(toDrive') : toDrive'[i].obj \in PdoObjects => toDrive'[i].fresh
  BY <1>0, <1>1, <1>2
<1>6. CASE toHost' = toHost
  <2>1. pdo' = pdo
    <3>1. ASSUME NEW a \in Answers, toHost' = Append(toHost, a) PROVE FALSE
      <4>1. Len(toHost') = Len(toHost) + 1 /\ Len(toHost) \in Nat
        BY <3>1, QueuesTyped, QueueAppend, QueueAt
      <4> QED  BY <1>6, <4>1
    <3> QED  BY <3>1, ServeRest
  <2> QED  BY <1>0, <1>1, <1>2, <1>3, <1>5, <1>6, <2>1 DEF Progress
<1>7. CASE toHost' # toHost
  <2>1. PICK a \in Answers :
           /\ toHost' = Append(toHost, a) /\ a.obj = r.obj /\ a.fresh = r.fresh
           /\ a.cmd # "ack" => UNCHANGED pdo
           /\ a.cmd = "ack" => pdo' = IF r.obj \in PdoObjects THEN Remapped(pdo, r) ELSE pdo
    BY <1>7, ServeRest
  <2>2. /\ toHost'[Len(toHost) + 1] = a
        /\ \A i \in 1..Len(toHost') :
              i = Len(toHost) + 1 \/ (i \in 1..Len(toHost) /\ toHost'[i] = toHost[i])
    BY <2>1, QueuesTyped, AppendedAt
  <2>3. \A i \in 1..Len(toHost') : toHost'[i].fresh => toHost'[i] = a
    BY <1>3, <2>2
  <2>4. Reached(pdo', op, Done) /\ (a.fresh /\ a.cmd = "ack" => Reached(pdo', op, Done + 1))
    <3>1. CASE r.fresh
      <4>1. r = Plan(op)[Done + 1] /\ r.obj \in PdoObjects
        BY <1>2, <1>4, <3>1, TodoFacts
      <4>2. /\ Reached(Remapped(pdo, r), op, Done)
            /\ Reached(Remapped(pdo, r), op, Done + 1)
        BY <1>2, <4>1, PlanStep
      <4>3. CASE a.cmd = "ack"
        <5>1. pdo' = Remapped(pdo, r)
          BY <2>1, <4>1, <4>3
        <5> QED  BY <4>2, <5>1
      <4>4. CASE a.cmd # "ack"
        BY <1>2, <2>1, <4>4
      <4> QED  BY <4>3, <4>4
    <3>2. CASE ~r.fresh /\ pdo' = pdo
      BY <1>2, <2>1, <3>2
    <3>3. CASE ~r.fresh /\ pdo' # pdo
      <4>1. r.obj \in PdoObjects
        BY <2>1, <3>3
      <4>2. Done = 0
        BY <1>0, <1>2, <3>3, <4>1
      <4>3. Len(Plan(op)) >= 7 /\ Len(Plan(op)) \in Nat
        <5>1. Len(Plan(op)) = (IF op = "csp" THEN 8 ELSE 7)
          BY <1>2, PlanFacts
        <5> QED  BY <5>1
      <4>4. Reached(pdo', op, 0)
        BY <4>3 DEF Reached
      <4> QED  BY <2>1, <3>3, <4>2, <4>4
    <3> QED  BY <3>1, <3>2, <3>3
  <2> QED  BY <1>0, <1>1, <1>5, <2>3, <2>4 DEF Progress
<1> QED
  BY <1>6, <1>7

(* The PDO after a request that was ready, or one to switch it off.             *)
LEMMA ReadyTaken ==
    ASSUME CanTypes, NEW r \in Requests, r.obj \in PdoObjects, Ready(r), pdo' = Remapped(pdo, r)
    PROVE  pdo'.on => r.obj = "cob" /\ \E m \in DOMAIN Mapping : Whole(pdo', Mapping[m])
<1>0. pdo \in Pdos
  BY DEF CanTypes, DriveTypes
<1>1. CASE r.obj = "cob"
  <2>1. /\ pdo'.on = (r.val = "on") /\ pdo'.count = pdo.count /\ pdo'.entries = pdo.entries
    BY <1>0, <1>1, RemappedFacts
  <2>2. r.val = "on" => \E m \in Remaps : Whole(pdo, Mapping[m])
    BY <1>1 DEF Ready
  <2>3. \A m \in Remaps : m \in DOMAIN Mapping
    BY MethodFacts, EntryFacts
  <2>4. \A m : Whole(pdo, Mapping[m]) => Whole(pdo', Mapping[m])
    BY <2>1 DEF Whole
  <2> QED  BY <1>1, <2>1, <2>2, <2>3, <2>4
<1>2. CASE r.obj # "cob"
  <2>1. ~pdo.on
    BY <1>2 DEF Ready
  <2>2. pdo'.on = pdo.on
    <3>1. r.obj \in {"count", "type"} \/ \E i \in 1..3 : r.obj = EntryObject[i]
      <4>1. EntryObject[1] = "map1" /\ EntryObject[2] = "map2" /\ EntryObject[3] = "map3"
        BY DEF EntryObject
      <4> QED  BY <1>2, <4>1 DEF PdoObjects
    <3>2. CASE r.obj \in {"count", "type"}
      BY <1>0, <3>2, RemappedFacts
    <3>3. CASE \E i \in 1..3 : r.obj = EntryObject[i]
      BY <1>0, <3>3, RemappedFacts
    <3> QED  BY <3>1, <3>2, <3>3
  <2> QED  BY <2>1, <2>2
<1> QED
  BY <1>1, <1>2

LEMMA ServePdo ==
    ASSUME CanTypes, TodoByMethod, InOrder, PdoInv, Serve
    PROVE  Progress' /\ Leftovers' /\ MappingInForce' /\ PdoNeverTorn'
<1> DEFINE r == toDrive[1]
<1>0. /\ r \in Requests /\ 1 \in 1..Len(toDrive) /\ Len(toDrive) \in Nat
      /\ Len(toDrive') = Len(toDrive) - 1 /\ toDrive # <<>>
      /\ \A i \in 1..Len(toDrive') : i + 1 \in 1..Len(toDrive) /\ toDrive'[i] = toDrive[i + 1]
      /\ UNCHANGED <<op, todo, waiting, result, clean>>
  BY ServeRest
<1>1. Done' = Done
  BY <1>0 DEF Done
<1>2. CASE excused'
  BY <1>2 DEF Progress, Leftovers, MappingInForce, PdoNeverTorn
<1>3. CASE excused /\ ~excused'
  <2>1. op \in Remaps /\ todo # <<>> /\ Done = 0 /\ Taken /\ SwitchesOff(r) /\ toDrive' = <<>>
    BY <1>3, ServeInStep DEF PdoInv
  <2>2. ~pdo'.on
    <3>1. pdo \in Pdos
      BY DEF CanTypes, DriveTypes
    <3> QED  BY <1>0, <2>1, <3>1, RemappedFacts DEF Taken, SwitchesOff
  <2>3. \A i : i \notin 1..Len(toDrive')
    <3>1. Len(toDrive') = 0
      BY <2>1
    <3> QED  BY <3>1
  <2>4. Reached(pdo', op', 0) /\ Reached(pdo', op', 1)
    <3>1. Len(Plan(op)) \in Nat /\ Len(Plan(op)) >= 7
      BY <2>1, TodoFacts
    <3>2. Reached(pdo', op, 0) /\ Reached(pdo', op, 1)
      <4>1. PICK l \in Nat : l = Len(Plan(op)) /\ l >= 7
        BY <3>1
      <4>2. \A i \in 1..3 : ~(i + 2 <= 0) /\ ~(i + 2 <= 1)
        OBVIOUS
      <4>3. 0 # l /\ 1 # l /\ 0 < 6 /\ 1 < 6
        BY <4>1
      <4> QED  BY <2>2, <4>1, <4>2, <4>3 DEF Reached
    <3> QED  BY <1>0, <3>2
  <2>5. Progress'
    BY <1>1, <2>1, <2>3, <2>4 DEF Progress
  <2>6. result' = "none"
    BY <1>0, <2>1 DEF CanTypes, HostTypes
  <2> QED  BY <2>2, <2>3, <2>5, <2>6 DEF Leftovers, MappingInForce, PdoNeverTorn
<1>4. CASE ~excused /\ ~excused'
  <2>0. Leftovers /\ MappingInForce /\ PdoNeverTorn
    BY DEF PdoInv
  <2>1. MappingInForce'
    BY <1>0, <1>4, <2>0 DEF MappingInForce
  <2>2. CASE pdo' = pdo
    <3>1. PdoNeverTorn'
      BY <1>4, <2>0, <2>2 DEF PdoNeverTorn
    <3>2. Leftovers'
      <4>1. ASSUME NEW i \in 1..Len(toDrive'), NEW j \in 1..Len(toDrive'), i < j,
                   toDrive'[i].obj \in PdoObjects, toDrive'[j].obj \in PdoObjects
            PROVE  SwitchesOff(toDrive'[j])
        <5>1. /\ i + 1 \in 1..Len(toDrive) /\ toDrive'[i] = toDrive[i + 1]
              /\ j + 1 \in 1..Len(toDrive) /\ toDrive'[j] = toDrive[j + 1] /\ i + 1 < j + 1
          BY <1>0, <4>1
        <5>2. toDrive[i + 1].obj \in PdoObjects /\ toDrive[j + 1].obj \in PdoObjects
          BY <4>1, <5>1
        <5>3. SwitchesOff(toDrive[j + 1])
          BY <1>4, <2>0, <5>1, <5>2 DEF Leftovers
        <5> QED  BY <5>1, <5>3
      <4>2. ASSUME NEW i \in 1..Len(toDrive') PROVE Ready(toDrive'[i])
        <5>1. i + 1 \in 1..Len(toDrive) /\ toDrive'[i] = toDrive[i + 1]
          BY <1>0
        <5>2. Ready(toDrive[i + 1])
          BY <1>4, <2>0, <5>1 DEF Leftovers
        <5> QED  BY <5>1, <5>2
      <4>3. \A i \in 1..Len(toDrive') : Ready(toDrive[i])'
        BY <2>2, <4>2 DEF Ready
      <4> QED  BY <4>1, <4>3 DEF Leftovers, SwitchesOff, Ready
    <3> QED  BY <2>1, <3>1, <3>2, <1>4, ServeProgress
  <2>3. CASE pdo' # pdo
    <3>1. Taken
      BY <2>3, ServeRest DEF Taken
    <3>2. Ready(r)
      BY <1>0, <1>4, <2>0 DEF Leftovers
    <3>3. PdoNeverTorn'
      BY <1>0, <3>1, <3>2, ReadyTaken DEF PdoNeverTorn, Taken
    <3>4. Leftovers'
      <4>1. ASSUME NEW i \in 1..Len(toDrive'), toDrive'[i].obj \in PdoObjects
            PROVE  SwitchesOff(toDrive'[i])
        <5>1. i + 1 \in 1..Len(toDrive) /\ toDrive'[i] = toDrive[i + 1] /\ 1 < i + 1
          BY <1>0
        <5>2. SwitchesOff(toDrive[i + 1])
          BY <1>0, <1>4, <2>0, <3>1, <4>1, <5>1 DEF Leftovers, Taken
        <5> QED  BY <5>1, <5>2
      <4>2. \A i \in 1..Len(toDrive') : Ready(toDrive[i])'
        BY <4>1 DEF Ready, SwitchesOff, PdoObjects
      <4> QED  BY <4>1, <4>2 DEF Leftovers, SwitchesOff, Ready
    <3> QED  BY <2>1, <3>3, <3>4, <1>4, ServeProgress
  <2> QED  BY <2>2, <2>3
<1> QED
  BY <1>2, <1>3, <1>4 DEF CanTypes, HistoryTypes

LEMMA PdoNext ==
    ASSUME CanTypes, TodoByMethod, InOrder, PdoInv, [CanNext]_canvars
    PROVE  PdoInv'
<1>1. ASSUME NEW m \in Methods, Call(m) PROVE PdoInv'
  BY <1>1, PdoCall
<1>2. CASE Send
  BY <1>2, PdoSend
<1>3. CASE SocketFails
  <2>1. todo' = <<>> /\ result' # "ok" /\ UNCHANGED <<toDrive, pdo, excused>>
    BY <1>3 DEF SocketFails, Raise
  <2> QED  BY <2>1, PdoEnds
<1>4. CASE Skip
  <2>1. /\ todo # <<>> /\ waiting /\ toHost # <<>> /\ toHost' = Tail(toHost)
        /\ UNCHANGED <<toDrive, op, pdo, excused>>
    BY <1>4 DEF Skip
  <2>2. CASE Raise("error")
    <3>1. todo' = <<>> /\ result' # "ok"
      BY <2>2 DEF Raise
    <3> QED  BY <2>1, <3>1, PdoEnds
  <2>3. CASE UNCHANGED <<todo, waiting, result, clean>>
    BY <2>1, <2>3, PdoIdle
  <2> QED  BY <1>4, <2>2, <2>3 DEF Skip
<1>5. CASE Accept
  BY <1>5, PdoAccept
<1>6. CASE Serve
  BY <1>6, ServeInStep, ServePdo DEF PdoInv
<1>7. CASE Disturb
  <2>1. /\ UNCHANGED <<toDrive, op, todo, waiting, result, pdo, excused>>
        /\ clean' = clean /\ toHost' = toHost
    BY <1>7 DEF Disturb, hostvars
  <2> QED  BY <2>1, PdoIdle
<1>8. CASE Reset
  BY <1>8, PdoReset
<1>9. CASE Traffic
  <2>1. /\ UNCHANGED <<toDrive, op, todo, waiting, result, pdo, excused>> /\ clean' = clean
    BY <1>9 DEF Traffic, hostvars, history
  <2>2. PICK a \in Answers : toHost' = Append(toHost, a) /\ a.fresh = FALSE
    BY <1>9, TrafficFacts
  <2> QED  BY <2>1, <2>2, PdoIdle
<1>10. CASE UNCHANGED canvars
  <2>1. /\ UNCHANGED <<toDrive, op, todo, waiting, result, pdo, excused>>
        /\ clean' = clean /\ toHost' = toHost
    BY <1>10 DEF canvars, hostvars, history
  <2> QED  BY <2>1, PdoIdle
<1> QED
  BY <1>1, <1>2, <1>3, <1>4, <1>5, <1>6, <1>7, <1>8, <1>9, <1>10 DEF CanNext, HostStep, RecvTimesOut

-------------------------------------------------------------------------------
LEMMA CanInvInit == CanInit => CanInv
<1> SUFFICES ASSUME CanInit PROVE CanInv
  OBVIOUS
<1>1. CanTypes
  BY TypesInit
<1>2. /\ toDrive = <<>> /\ toHost = <<>> /\ todo = <<>> /\ result = "none" /\ op = "statusword"
      /\ quiet = FALSE /\ pdo = DefaultPdo /\ Len(toDrive) = 0 /\ Len(toHost) = 0
  BY DEF CanInit
<1>3. InOrder /\ AnswersTruthful /\ TodoByMethod
  BY <1>2 DEF InOrder, AnswersTruthful, TodoByMethod
<1>4. EnableHonest /\ StopHonest /\ QuietEnable
  BY <1>2 DEF EnableHonest, StopHonest, QuietEnable
<1>5. InStep /\ Progress /\ MappingInForce
  BY <1>2 DEF InStep, Progress, MappingInForce
<1>6. Leftovers /\ PdoNeverTorn
  BY <1>2 DEF Leftovers, PdoNeverTorn
<1> QED
  BY <1>1, <1>3, <1>4, <1>5, <1>6 DEF CanInv

LEMMA CanInvNext == CanInv /\ [CanNext]_canvars => CanInv'
<1> SUFFICES ASSUME CanInv, [CanNext]_canvars PROVE CanInv'
  OBVIOUS
<1>1. CanTypes /\ InOrder /\ AnswersTruthful /\ TodoByMethod
  BY DEF CanInv
<1>2. CanTypes' /\ TodoByMethod' /\ AnswersTruthful'
  BY <1>1, TypesNext, TodoNext, TruthfulNext
<1>3. InOrder'
  BY <1>1, TodoFacts, InOrderNext
<1>4. EnableHonest' /\ StopHonest' /\ QuietEnable'
  BY <1>1, EnableNext, StopNext, QuietNext DEF CanInv
<1>5. PdoInv'
  BY <1>1, PdoNext DEF CanInv, PdoInv
<1> QED
  BY <1>2, <1>3, <1>4, <1>5 DEF CanInv, PdoInv

(* At every step of the master, the bus and the drive: the frames under way are *)
(* answered in order, what a method has left is the rest of its requests, and   *)
(* the mapping a configuration has reached is the drive's.                      *)
THEOREM CanInvariant == CanSpec => []CanInv
<1>1. CanInit => CanInv
  BY CanInvInit
<1>2. CanInv /\ [CanNext]_canvars => CanInv'
  BY CanInvNext
<1> QED
  BY <1>1, <1>2, PTL DEF CanSpec

(* enable_operation returns only when the drive answered, during this call,     *)
(* from Operation Enabled, and quick_stop and disable_voltage only after it has *)
(* left it, whatever is delayed, aborted or lost, unless an older answer for    *)
(* the deciding object was under way.                                           *)
THEOREM CanReportsAreReal == CanSpec => []ReportIsReal
<1>1. CanInv => ReportIsReal
  <2> SUFFICES ASSUME CanInv PROVE ReportIsReal
    OBVIOUS
  <2>1. CanTypeOK
    <3>1. drive \in Drives /\ pdo \in Pdos
      BY DEF CanInv, CanTypes, DriveTypes
    <3>2. pdo.on \in BOOLEAN /\ pdo.count \in 0..3 /\ DOMAIN pdo.entries = 1..3
      BY <3>1 DEF Pdos
    <3> QED  BY <3>1, <3>2 DEF CanInv, CanTypes, HostTypes, BoundTypes, HistoryTypes, CanTypeOK, Drives
  <2>2. EnableIsReal
    <3> SUFFICES ASSUME op = "enable_operation", result = "ok", clean
                 PROVE  confirmed /\ (quiet => drive.operational)
      BY DEF EnableIsReal
    <3> QED  BY DEF CanInv, EnableHonest, QuietEnable
  <2>3. StopIsReal
    BY DEF CanInv, StopHonest, StopIsReal
  <2> QED  BY <2>1, <2>2, <2>3 DEF ReportIsReal
<1> QED
  BY <1>1, CanInvariant, PTL

(* A drive at rest with no fault cause left is enabled from every state when    *)
(* the loop may write five controlwords; max_steps of the code is 16.           *)
THEOREM CanEnablesFromAnywhere ==
    ASSUME MaxSteps >= 5
    PROVE  CanSpec => []EnableFromAnywhere
<1>1. CanInv => EnableFromAnywhere
  <2>1. MaxSteps \in Nat
    BY CanFacts
  <2>2. ~(MaxSteps <= 4)
    BY <2>1
  <2> QED  BY <2>2 DEF CanInv, QuietEnable, EnableFromAnywhere
<1> QED
  BY <1>1, CanInvariant, PTL

(* configure_pdo_mapping, at whatever request it stops and however late its     *)
(* requests are served: a PDO that is on has the mapping the drive came up with *)
(* or one of the mappings as a whole.                                           *)
THEOREM CanPdoNeverTorn == CanSpec => []PdoNeverTorn
<1>1. CanInv => PdoNeverTorn
  BY DEF CanInv
<1> QED
  BY <1>1, CanInvariant, PTL

(* A configuration that returned has left exactly its mapping in the drive,     *)
(* switched on, unless it took an old answer for its own or the drive rebooted. *)
THEOREM CanMappingInForce == CanSpec => []MappingInForce
<1>1. CanInv => MappingInForce
  BY DEF CanInv
<1> QED
  BY <1>1, CanInvariant, PTL
-------------------------------------------------------------------------------
(* A number and its bytes.                                                      *)
Part(b, signed) ==
    CHOOSE part : part = [i \in 0..Len(b) |->
        IF i = 0 THEN 0
        ELSE part[i - 1]
             + Weight[i] * (IF i = Len(b) /\ signed /\ b[i] > 127 THEN b[i] - 256 ELSE b[i])]

LEMMA FromBytesPart ==
    ASSUME NEW b, NEW signed
    PROVE  from_bytes(b, signed) = Part(b, signed)[Len(b)]
BY DEF from_bytes, Part


(* Dividing by one byte after another.                                        *)
LEMMA QuotientsCompose ==
    \A v \in Int : /\ v \div 65536 = (v \div 256) \div 256
                   /\ v \div 16777216 = ((v \div 256) \div 256) \div 256
OBVIOUS

(* Sequences.                                                                  *)
LEMMA SubSeqFacts ==
    ASSUME NEW S, NEW s \in Seq(S), NEW m \in 1..Len(s), NEW n \in m..Len(s)
    PROVE  /\ SubSeq(s, m, n) \in Seq(S) /\ Len(SubSeq(s, m, n)) = n - m + 1
           /\ \A i \in 1..(n - m + 1) : SubSeq(s, m, n)[i] = s[m + i - 1]
OBVIOUS

LEMMA SeqSame ==
    ASSUME NEW S, NEW s \in Seq(S), NEW t \in Seq(S),
           Len(s) = Len(t), \A i \in 1..Len(s) : s[i] = t[i]
    PROVE  s = t
OBVIOUS

LEMMA PartFacts ==
    ASSUME NEW b, NEW signed, Len(b) \in 0..4
    PROVE  /\ Part(b, signed)[0] = 0
           /\ \A i \in 1..Len(b) :
                 Part(b, signed)[i] = Part(b, signed)[i - 1]
                    + Weight[i] * (IF i = Len(b) /\ signed /\ b[i] > 127 THEN b[i] - 256 ELSE b[i])
<1> DEFINE T(i) == Weight[i] * (IF i = Len(b) /\ signed /\ b[i] > 127 THEN b[i] - 256 ELSE b[i])
           Rec(part) == part = [i \in 0..Len(b) |-> IF i = 0 THEN 0 ELSE part[i - 1] + T(i)]
<1>1. PICK n \in 0..4 : n = Len(b) OBVIOUS
<1>2. PICK g1 : g1 = 0 + T(1) OBVIOUS
<1>3. PICK g2 : g2 = g1 + T(2) OBVIOUS
<1>4. PICK g3 : g3 = g2 + T(3) OBVIOUS
<1>5. PICK g4 : g4 = g3 + T(4) OBVIOUS
<1>6. PICK g : g = [i \in 0..n |-> IF i = 0 THEN 0 ELSE IF i = 1 THEN g1 ELSE IF i = 2 THEN g2
                                   ELSE IF i = 3 THEN g3 ELSE g4]
  OBVIOUS
<1> HIDE DEF T
<1>7. \A i \in 0..n : g[i] = IF i = 0 THEN 0 ELSE g[i - 1] + T(i)
  <2> SUFFICES ASSUME NEW i \in 0..n PROVE g[i] = IF i = 0 THEN 0 ELSE g[i - 1] + T(i)
    OBVIOUS
  <2>1. CASE i = 0 BY <1>6, <2>1
  <2>2. CASE i = 1 BY <1>2, <1>6, <2>2
  <2>3. CASE i = 2 BY <1>3, <1>6, <2>3
  <2>4. CASE i = 3 BY <1>4, <1>6, <2>4
  <2>5. CASE i = 4 BY <1>5, <1>6, <2>5
  <2> QED BY <1>1, <2>1, <2>2, <2>3, <2>4, <2>5
<1>8. Rec(g) BY <1>1, <1>6, <1>7
<1>9. Part(b, signed) = CHOOSE part : Rec(part) BY DEF Part, T
<1> HIDE DEF Rec
<1>10. Rec(Part(b, signed)) BY <1>8, <1>9
<1>11. Part(b, signed) = [i \in 0..Len(b) |-> IF i = 0 THEN 0 ELSE Part(b, signed)[i - 1] + T(i)]
  BY <1>10 DEF Rec
<1>12. PICK p : p = Part(b, signed) OBVIOUS
<1>13. p = [i \in 0..n |-> IF i = 0 THEN 0 ELSE p[i - 1] + T(i)] BY <1>1, <1>11, <1>12
<1>14. \A i \in 0..n : p[i] = IF i = 0 THEN 0 ELSE p[i - 1] + T(i) BY Zenon, <1>13
<1>15. 0 \in 0..n /\ \A i \in 1..n : i \in 0..n /\ i # 0 BY <1>1
<1>16. p[0] = 0 /\ \A i \in 1..n : p[i] = p[i - 1] + T(i) BY Zenon, <1>14, <1>15
<1>17. \A i \in 1..n : p[i] = p[i - 1]
                + Weight[i] * (IF i = n /\ signed /\ b[i] > 127 THEN b[i] - 256 ELSE b[i])
  BY <1>1, <1>16 DEF T
<1> HIDE DEF T
<1> QED BY <1>1, <1>12, <1>16, <1>17

(* The values of an entry.                                                      *)
Range(width, signed) ==
    IF signed THEN {v \in Int : 0 - Weight[width] * 128 <= v /\ v < Weight[width] * 128}
              ELSE {v \in Int : 0 <= v /\ v < Weight[width] * 256}

LEMMA BytesBack ==
    ASSUME NEW width \in {1, 2, 4}, NEW signed \in BOOLEAN, NEW v \in Range(width, signed)
    PROVE  /\ to_bytes(v, width) \in Seq(Int) /\ Len(to_bytes(v, width)) = width
           /\ from_bytes(to_bytes(v, width), signed) = v
<1>1. v \in Int BY DEF Range
<1>2. width = 1 \/ width = 2 \/ width = 4 OBVIOUS
<1>3. PICK b : b = to_bytes(v, width) OBVIOUS
<1>4. b = [i \in 1..width |-> (v \div Weight[i]) % 256] BY <1>3 DEF to_bytes
<1>5. Weight[1] = 1 /\ Weight[2] = 256 /\ Weight[3] = 65536 /\ Weight[4] = 16777216 BY DEF Weight
<1>6. \A i \in 1..width : b[i] \in 0..255
  <2>1. \A i \in 1..width : i = 1 \/ i = 2 \/ i = 3 \/ i = 4 OBVIOUS
  <2>2. ASSUME NEW i \in 1..width, NEW k \in {1, 256, 65536, 16777216}, Weight[i] = k
        PROVE  b[i] \in 0..255
    <3>1. b[i] = (v \div k) % 256 BY <1>4, <2>2
    <3>2. v \div k \in Int BY <1>1
    <3> QED BY <3>1, <3>2
  <2> QED BY <1>5, <2>1, <2>2
<1>7. b \in Seq(Int) /\ Len(b) = width
  <2>1. \A i \in 1..width : b[i] \in Int BY <1>6
  <2>2. b \in [1..width -> Int] BY Zenon, <1>4, <2>1
  <2>3. width \in Nat OBVIOUS
  <2> QED BY <2>2, <2>3
<1>8. PICK p : p = Part(b, signed) OBVIOUS
<1>9. /\ p[0] = 0
      /\ \A i \in 1..width : p[i] = p[i - 1]
            + Weight[i] * (IF i = width /\ signed /\ b[i] > 127 THEN b[i] - 256 ELSE b[i])
  <2>1. Len(b) \in 0..4 /\ Len(b) = width BY <1>7
  <2>2. /\ Part(b, signed)[0] = 0
        /\ \A i \in 1..Len(b) :
              Part(b, signed)[i] = Part(b, signed)[i - 1]
                 + Weight[i] * (IF i = Len(b) /\ signed /\ b[i] > 127 THEN b[i] - 256 ELSE b[i])
    BY <2>1, PartFacts
  <2> QED BY <1>8, <2>1, <2>2
<1>10. from_bytes(b, signed) = p[width] BY <1>7, <1>8, FromBytesPart
<1>11. b[1] = v % 256
  <2>1. b[1] = (v \div 1) % 256 BY <1>4, <1>5
  <2>2. v \div 1 = v BY <1>1
  <2> QED BY <2>1, <2>2
<1>12. PICK q \in Int : q = v \div 256 BY <1>1
<1>13. v = q * 256 + b[1] /\ b[1] \in 0..255 BY <1>1, <1>6, <1>11, <1>12
<1>14. PICK top \in {0, 1} : top = (IF signed /\ b[width] > 127 THEN 1 ELSE 0)
  <2> QED BY Zenon
<1>15. b[width] \in 0..255 BY <1>6
<1>16. p[width] = p[width - 1] + Weight[width] * (b[width] - 256 * top)
  <2>1. p[width] = p[width - 1]
            + Weight[width] * (IF signed /\ b[width] > 127 THEN b[width] - 256 ELSE b[width])
    BY <1>9
  <2>2. PICK x \in 0..255 : x = b[width] BY <1>15
  <2>3. (IF signed /\ x > 127 THEN x - 256 ELSE x) = x - 256 * top BY <1>14, <2>2
  <2> QED BY <2>1, <2>2, <2>3
<1>17. signed => (top = 1 <=> b[width] > 127) BY <1>14, <1>15
<1>18. ~signed => top = 0 BY <1>14
<1>19. PICK m \in {0, 128, 32768, 2147483648},
            n \in {128, 256, 32768, 65536, 2147483648, 4294967296} :
          /\ 0 - m <= v /\ v < n
          /\ signed => m = Weight[width] * 128 /\ n = Weight[width] * 128
          /\ ~signed => m = 0 /\ n = Weight[width] * 256
  <2>1. Weight[width] \in {1, 256, 16777216} BY SMT, <1>5
  <2>2. CASE signed
    <3>1. 0 - Weight[width] * 128 <= v /\ v < Weight[width] * 128 BY SMT, <2>2 DEF Range
    <3> QED BY SMT, <2>1, <2>2, <3>1
  <2>3. CASE ~signed
    <3>1. 0 <= v /\ v < Weight[width] * 256 BY SMT, <2>3 DEF Range
    <3> QED BY SMT, <2>1, <2>3, <3>1
  <2> QED BY SMT, <2>2, <2>3
<1>20. ASSUME width = 1 PROVE p[width] = v
  <2>1. PICK x \in 0..255 : x = b[1] BY SMT, <1>6, <1>20
  <2>2. p[1] = x - 256 * top BY SMT, <1>5, <1>9, <1>20, <1>16, <2>1
  <2>3. v = q * 256 + x BY SMT, <1>13, <2>1
  <2>4. signed => m = 128 /\ n = 128 /\ (top = 1 <=> x > 127)
    BY SMT, <1>5, <1>20, <1>19, <1>17, <2>1
  <2>5. ~signed => m = 0 /\ n = 256 /\ top = 0 BY SMT, <1>5, <1>20, <1>19, <1>18
  <2>6. q = 0 - top
    <3>1. CASE signed BY SMT, <1>19, <2>3, <2>4, <3>1
    <3>2. CASE ~signed BY SMT, <1>19, <2>3, <2>5, <3>2
    <3> QED BY SMT, <3>1, <3>2
  <2>7. p[1] = v BY SMT, <1>12, <1>14, <1>20, <2>1, <2>2, <2>3, <2>6
  <2> QED BY SMT, <1>20, <2>7
<1>21. ASSUME width = 2 PROVE p[width] = v
  <2>1. b[1] \in 0..255 /\ b[2] \in 0..255 BY SMT, <1>6, <1>21
  <2>2. PICK x \in 0..255 : x = b[1] BY SMT, <2>1
  <2>3. PICK y \in 0..255 : y = b[2] BY SMT, <2>1
  <2>4. x \in 0..255 /\ y \in 0..255 /\ x = b[1] /\ y = b[2] BY SMT, <2>2, <2>3
  <2>5. p[1] = x BY SMT, <1>5, <1>9, <1>21, <2>4
  <2>6. p[2] = x + 256 * (y - 256 * top) BY SMT, <1>5, <1>21, <1>16, <2>4, <2>5
  <2>7. PICK r \in Int : r = q \div 256 BY SMT, <1>12
  <2>8. q = r * 256 + y
    <3>1. b[2] = q % 256 BY SMT, <1>4, <1>5, <1>12, <1>21
    <3> QED BY SMT, <2>4, <2>7, <3>1
  <2>9. v = (r * 256 + y) * 256 + x BY SMT, <1>13, <2>4, <2>8
  <2>10. signed => m = 32768 /\ n = 32768 /\ (top = 1 <=> y > 127)
    BY SMT, <1>5, <1>21, <1>19, <1>17, <2>4
  <2>11. ~signed => m = 0 /\ n = 65536 /\ top = 0 BY SMT, <1>5, <1>21, <1>19, <1>18
  <2>12. r = 0 - top
    <3>1. CASE signed BY SMT, <1>19, <2>9, <2>10, <3>1
    <3>2. CASE ~signed BY SMT, <1>19, <2>9, <2>11, <3>2
    <3> QED BY SMT, <3>1, <3>2
  <2>13. p[2] = v BY SMT, <1>14, <1>21, <2>4, <2>6, <2>9, <2>12, <2>7
  <2> QED BY SMT, <1>21, <2>13
<1>22. ASSUME width = 4 PROVE p[width] = v
  <2>1. b[1] \in 0..255 /\ b[2] \in 0..255 /\ b[3] \in 0..255 /\ b[4] \in 0..255
    BY SMT, <1>6, <1>22
  <2>2. PICK x \in 0..255 : x = b[1] BY SMT, <2>1
  <2>3. PICK y \in 0..255 : y = b[2] BY SMT, <2>1
  <2>4. PICK z \in 0..255 : z = b[3] BY SMT, <2>1
  <2>5. PICK t \in 0..255 : t = b[4] BY SMT, <2>1
  <2>6. /\ x \in 0..255 /\ y \in 0..255 /\ z \in 0..255 /\ t \in 0..255
        /\ x = b[1] /\ y = b[2] /\ z = b[3] /\ t = b[4]
    BY SMT, <2>2, <2>3, <2>4, <2>5
  <2>7. p[1] = x /\ p[2] = x + 256 * y /\ p[3] = x + 256 * y + 65536 * z
    <3>1. p[1] = p[0] + 1 * b[1] BY SMT, <1>5, <1>9, <1>22
    <3>2. p[2] = p[1] + 256 * b[2] BY SMT, <1>5, <1>9, <1>22
    <3>3. p[3] = p[2] + 65536 * b[3] BY SMT, <1>5, <1>9, <1>22
    <3>4. p[1] = x BY SMT, <1>9, <2>6, <3>1
    <3>5. p[2] = x + 256 * y BY SMT, <2>6, <3>2, <3>4
    <3>6. p[3] = x + 256 * y + 65536 * z BY SMT, <2>6, <3>3, <3>5
    <3> QED BY SMT, <3>4, <3>5, <3>6
  <2>8. p[4] = x + 256 * y + 65536 * z + 16777216 * (t - 256 * top)
    BY SMT, <1>5, <1>22, <1>16, <2>6, <2>7
  <2>9. PICK r \in Int : r = q \div 256 BY SMT, <1>12
  <2>10. PICK s \in Int : s = r \div 256 BY SMT, <2>9
  <2>11. PICK u \in Int : u = s \div 256 BY SMT, <2>10
  <2>12. v \div 65536 = r /\ v \div 16777216 = s
    <3>1. v \div 65536 = (v \div 256) \div 256 /\ v \div 16777216 = ((v \div 256) \div 256) \div 256
      BY SMT, <1>1, QuotientsCompose
    <3> QED BY SMT, <1>12, <2>9, <2>10, <3>1
  <2>13. b[2] = q % 256 /\ b[3] = r % 256 /\ b[4] = s % 256 BY SMT, <1>4, <1>5, <1>12, <1>22, <2>12
  <2>14. q = r * 256 + y /\ r = s * 256 + z /\ s = u * 256 + t
    <3>1. y = q % 256 /\ z = r % 256 /\ t = s % 256 BY SMT, <2>6, <2>13
    <3>2. q = r * 256 + y BY SMT, <1>12, <2>9, <3>1
    <3>3. r = s * 256 + z BY SMT, <2>9, <2>10, <3>1
    <3>4. s = u * 256 + t BY SMT, <2>10, <2>11, <3>1
    <3> QED BY SMT, <3>2, <3>3, <3>4
  <2>15. v = 4294967296 * u + 16777216 * t + 65536 * z + 256 * y + x
    BY SMT, <1>13, <2>6, <2>14
  <2>16. signed => m = 2147483648 /\ n = 2147483648 /\ (top = 1 <=> t > 127)
    BY SMT, <1>5, <1>22, <1>19, <1>17, <2>6
  <2>17. ~signed => m = 0 /\ n = 4294967296 /\ top = 0 BY SMT, <1>5, <1>22, <1>19, <1>18
  <2>18. u = 0 - top
    <3>1. CASE signed BY SMT, <1>19, <2>15, <2>16, <3>1
    <3>2. CASE ~signed BY SMT, <1>19, <2>15, <2>17, <3>2
    <3> QED BY SMT, <3>1, <3>2
  <2>19. p[4] = v BY SMT, <1>14, <1>22, <2>6, <2>8, <2>15, <2>18, <2>11
  <2> QED BY SMT, <1>22, <2>19
<1>23. p[width] = v BY SMT, <1>2, <1>20, <1>21, <1>22
<1> QED BY SMT, <1>3, <1>7, <1>10, <1>23

(* The mappings have three entries of different names.                          *)
Fields(e) ==
    /\ Len(e) = 3
    /\ \A i \in 1..3 : e[i].bytes \in {1, 2, 4} /\ e[i].signed \in BOOLEAN
    /\ \A i, j \in 1..3 : e[i].name = e[j].name => i = j
InRange(e, v) == \A i \in 1..3 : v[e[i].name] \in Range(e[i].bytes, e[i].signed)

(* The recursions of Offset, encode and decode, unrolled.                       *)
LEMMA OffsetFacts ==
    ASSUME NEW e, Fields(e)
    PROVE  /\ Offset(e, 0) = 0 /\ Offset(e, 1) = e[1].bytes
           /\ Offset(e, 2) = e[1].bytes + e[2].bytes
           /\ Offset(e, 3) = e[1].bytes + e[2].bytes + e[3].bytes
<1> DEFINE Rec(f) == f = [k \in 0..Len(e) |-> IF k = 0 THEN 0 ELSE f[k - 1] + e[k].bytes]
           f0 == CHOOSE f : Rec(f)
<1>1. Len(e) = 3 BY DEF Fields
<1>2. e[1].bytes \in Int /\ e[2].bytes \in Int /\ e[3].bytes \in Int BY DEF Fields
<1>3. PICK a \in Int, b \in Int, c \in Int : a = e[1].bytes /\ b = e[2].bytes /\ c = e[3].bytes
  BY Zenon, <1>2
<1>4. PICK g : g = [k \in 0..3 |-> IF k = 0 THEN 0 ELSE IF k = 1 THEN a ELSE IF k = 2 THEN a + b
                                   ELSE a + b + c]
  OBVIOUS
<1>5. g = [k \in 0..3 |-> IF k = 0 THEN 0 ELSE g[k - 1] + e[k].bytes]
  <2>1. ASSUME NEW k \in 0..3
        PROVE  (IF k = 0 THEN 0 ELSE IF k = 1 THEN a ELSE IF k = 2 THEN a + b ELSE a + b + c)
                  = IF k = 0 THEN 0 ELSE g[k - 1] + e[k].bytes
    <3>1. g[0] = 0 /\ g[1] = a /\ g[2] = a + b BY <1>4
    <3>2. CASE k = 0 BY <3>2
    <3>3. CASE k = 1 BY <1>3, <3>1, <3>3
    <3>4. CASE k = 2 BY <1>3, <3>1, <3>4
    <3>5. CASE k = 3 BY <1>3, <3>1, <3>5
    <3> QED BY <3>2, <3>3, <3>4, <3>5
  <2> QED BY Zenon, <1>4, <2>1
<1>6. Rec(g) BY <1>1, <1>5
<1> HIDE DEF Rec
<1>7. Rec(f0) BY Zenon, <1>6
<1>8. f0 = [k \in 0..Len(e) |-> IF k = 0 THEN 0 ELSE f0[k - 1] + e[k].bytes]
  BY Zenon, <1>7 DEF Rec
<1>9. \A i : Offset(e, i) = f0[i] BY DEF Offset, Rec
<1>10. PICK f : f = f0 OBVIOUS
<1>11. f = [k \in 0..3 |-> IF k = 0 THEN 0 ELSE f[k - 1] + e[k].bytes] BY <1>1, <1>8, <1>10
<1>12. f[0] = 0 /\ f[1] = f[0] + e[1].bytes /\ f[2] = f[1] + e[2].bytes /\ f[3] = f[2] + e[3].bytes
  <2>1. \A k \in 0..3 : f[k] = IF k = 0 THEN 0 ELSE f[k - 1] + e[k].bytes BY Zenon, <1>11
  <2> QED BY <2>1
<1>13. f[0] = 0 /\ f[1] = a /\ f[2] = a + b /\ f[3] = a + b + c BY <1>3, <1>12
<1> HIDE DEF f0
<1> QED BY <1>3, <1>9, <1>10, <1>13

LEMMA EncodeFacts ==
    ASSUME NEW e, NEW v, Fields(e)
    PROVE  encode(e, v) = ((<<>> \o to_bytes(v[e[1].name], e[1].bytes))
                              \o to_bytes(v[e[2].name], e[2].bytes))
                              \o to_bytes(v[e[3].name], e[3].bytes)
<1> DEFINE B(k) == to_bytes(v[e[k].name], e[k].bytes)
           Rec(f) == f = [k \in 0..Len(e) |-> IF k = 0 THEN <<>> ELSE f[k - 1] \o B(k)]
           f0 == CHOOSE f : Rec(f)
<1>1. Len(e) = 3 BY DEF Fields
<1>2. encode(e, v) = f0[Len(e)] BY DEF encode
<1> HIDE DEF B
<1>3. PICK g1 : g1 = <<>> \o B(1) OBVIOUS
<1>4. PICK g2 : g2 = g1 \o B(2) OBVIOUS
<1>5. PICK g3 : g3 = g2 \o B(3) OBVIOUS
<1>6. PICK g : g = [k \in 0..3 |-> IF k = 0 THEN <<>> ELSE IF k = 1 THEN g1
                                   ELSE IF k = 2 THEN g2 ELSE g3]
  OBVIOUS
<1>7. g = [k \in 0..3 |-> IF k = 0 THEN <<>> ELSE g[k - 1] \o B(k)]
  <2>1. ASSUME NEW k \in 0..3
        PROVE  (IF k = 0 THEN <<>> ELSE IF k = 1 THEN g1 ELSE IF k = 2 THEN g2 ELSE g3)
                  = IF k = 0 THEN <<>> ELSE g[k - 1] \o B(k)
    <3>1. g[0] = <<>> /\ g[1] = g1 /\ g[2] = g2 BY <1>6
    <3>2. CASE k = 0 BY <3>2
    <3>3. 1 - 1 = 0 /\ 2 - 1 = 1 /\ 3 - 1 = 2 /\ 1 # 0 /\ 2 # 0 /\ 2 # 1 /\ 3 # 0
          /\ 3 # 1 /\ 3 # 2
      OBVIOUS
    <3>4. CASE k = 1 BY Zenon, <1>3, <3>1, <3>4, <3>3
    <3>5. CASE k = 2 BY Zenon, <1>4, <3>1, <3>5, <3>3
    <3>6. CASE k = 3 BY Zenon, <1>5, <3>1, <3>6, <3>3
    <3> QED BY <3>2, <3>4, <3>5, <3>6
  <2> QED BY Zenon, <1>6, <2>1
<1>8. Rec(g) BY <1>1, <1>7
<1> HIDE DEF Rec
<1>9. Rec(f0) BY Zenon, <1>8
<1>10. PICK f : f = f0 OBVIOUS
<1>11. f = [k \in 0..Len(e) |-> IF k = 0 THEN <<>> ELSE f[k - 1] \o B(k)] BY Zenon, <1>9, <1>10 DEF Rec
<1>12. f[0] = <<>> /\ f[1] = f[0] \o B(1) /\ f[2] = f[1] \o B(2) /\ f[3] = f[2] \o B(3)
  <2>1. \A k \in 0..3 : f[k] = IF k = 0 THEN <<>> ELSE f[k - 1] \o B(k) BY Zenon, <1>1, <1>11
  <2> QED BY <2>1
<1>13. encode(e, v) = f[3] BY <1>1, <1>2, <1>10
<1>14. encode(e, v) = ((<<>> \o B(1)) \o B(2)) \o B(3) BY Zenon, <1>12, <1>13
<1> QED BY Zenon, <1>14 DEF B

(* A payload of three parts.                                                   *)
InThree(a, b, c, s) ==
    /\ {a, b, c} \subseteq Seq(Int) /\ Len(a) > 0 /\ Len(b) > 0 /\ Len(c) > 0
    /\ s = ((<<>> \o a) \o b) \o c

LEMMA PartsOfJoined ==
    ASSUME NEW a, NEW b, NEW c, NEW s, InThree(a, b, c, s)
    PROVE  /\ SubSeq(s, 1, Len(a)) = a
           /\ SubSeq(s, Len(a) + 1, Len(a) + Len(b)) = b
           /\ SubSeq(s, Len(a) + Len(b) + 1, Len(a) + Len(b) + Len(c)) = c
<1>1. /\ a \in Seq(Int) /\ b \in Seq(Int) /\ c \in Seq(Int)
      /\ Len(a) > 0 /\ Len(b) > 0 /\ Len(c) > 0
      /\ s = ((<<>> \o a) \o b) \o c
  BY DEF InThree
<1>2. PICK x \in Nat : x = Len(a) BY <1>1
<1>3. PICK y \in Nat : y = Len(b) BY <1>1
<1>4. PICK z \in Nat : z = Len(c) BY <1>1
<1>5. x > 0 /\ y > 0 /\ z > 0 BY <1>1, <1>2, <1>3, <1>4
<1>6. s \in Seq(Int) /\ Len(s) = x + y + z BY <1>1, <1>2, <1>3, <1>4
<1>7. /\ \A i \in 1..x : s[i] = a[i]
      /\ \A i \in 1..y : s[x + i] = b[i]
      /\ \A i \in 1..z : s[x + y + i] = c[i]
  BY <1>1, <1>2, <1>3, <1>4
<1>8. SubSeq(s, 1, x) = a
  <2>1. PICK t : t = SubSeq(s, 1, x) OBVIOUS
  <2>2. t \in Seq(Int) /\ Len(t) = x /\ \A i \in 1..x : t[i] = s[i]
    <3>1. 1 \in 1..Len(s) /\ x \in 1..Len(s) BY <1>5, <1>6
    <3>2. PICK m \in 1..Len(s) : m = 1 BY <3>1
    <3>3. PICK n \in m..Len(s) : n = x BY <3>1, <3>2
    <3>4. /\ SubSeq(s, m, n) \in Seq(Int) /\ Len(SubSeq(s, m, n)) = n - m + 1
          /\ \A i \in 1..(n - m + 1) : SubSeq(s, m, n)[i] = s[m + i - 1]
      BY <1>6, SubSeqFacts
    <3>5. t = SubSeq(s, m, n) BY <2>1, <3>2, <3>3
    <3>6. n - m + 1 = x /\ \A i \in 1..x : m + i - 1 = i BY <1>5, <3>2, <3>3
    <3> QED BY <3>4, <3>5, <3>6
  <2>3. Len(t) = Len(a) /\ \A i \in 1..Len(t) : t[i] = a[i] BY Zenon, <1>7, <1>2, <2>2
  <2> QED BY Zenon, <1>1, <2>1, <2>2, <2>3, SeqSame
<1>9. SubSeq(s, x + 1, x + y) = b
  <2>1. PICK t : t = SubSeq(s, x + 1, x + y) OBVIOUS
  <2>2. t \in Seq(Int) /\ Len(t) = y /\ \A i \in 1..y : t[i] = s[x + i]
    <3>1. x + 1 \in 1..Len(s) /\ x + y \in (x + 1)..Len(s) BY <1>5, <1>6
    <3>2. PICK m \in 1..Len(s) : m = x + 1 BY <3>1
    <3>3. PICK n \in m..Len(s) : n = x + y BY <3>1, <3>2
    <3>4. /\ SubSeq(s, m, n) \in Seq(Int) /\ Len(SubSeq(s, m, n)) = n - m + 1
          /\ \A i \in 1..(n - m + 1) : SubSeq(s, m, n)[i] = s[m + i - 1]
      BY <1>6, SubSeqFacts
    <3>5. t = SubSeq(s, m, n) BY <2>1, <3>2, <3>3
    <3>6. n - m + 1 = y /\ \A i \in 1..y : m + i - 1 = x + i BY <1>5, <3>2, <3>3
    <3> QED BY <3>4, <3>5, <3>6
  <2>3. Len(t) = Len(b) /\ \A i \in 1..Len(t) : t[i] = b[i] BY Zenon, <1>7, <1>3, <2>2
  <2> QED BY Zenon, <1>1, <2>1, <2>2, <2>3, SeqSame
<1>10. SubSeq(s, x + y + 1, x + y + z) = c
  <2>1. PICK t : t = SubSeq(s, x + y + 1, x + y + z) OBVIOUS
  <2>2. t \in Seq(Int) /\ Len(t) = z /\ \A i \in 1..z : t[i] = s[x + y + i]
    <3>1. x + y + 1 \in 1..Len(s) /\ x + y + z \in (x + y + 1)..Len(s) BY <1>5, <1>6
    <3>2. PICK m \in 1..Len(s) : m = x + y + 1 BY <3>1
    <3>3. PICK n \in m..Len(s) : n = x + y + z BY <3>1, <3>2
    <3>4. /\ SubSeq(s, m, n) \in Seq(Int) /\ Len(SubSeq(s, m, n)) = n - m + 1
          /\ \A i \in 1..(n - m + 1) : SubSeq(s, m, n)[i] = s[m + i - 1]
      BY <1>6, SubSeqFacts
    <3>5. t = SubSeq(s, m, n) BY <2>1, <3>2, <3>3
    <3>6. n - m + 1 = z /\ \A i \in 1..z : m + i - 1 = x + y + i BY <1>5, <3>2, <3>3
    <3> QED BY <3>4, <3>5, <3>6
  <2>3. Len(t) = Len(c) /\ \A i \in 1..Len(t) : t[i] = c[i] BY Zenon, <1>7, <1>4, <2>2
  <2> QED BY Zenon, <1>1, <2>1, <2>2, <2>3, SeqSame
<1>11. x = Len(a) /\ y = Len(b) /\ z = Len(c) BY <1>2, <1>3, <1>4
<1> QED BY Zenon, <1>8, <1>9, <1>10, <1>11

LEMMA DecodeFacts ==
    ASSUME NEW e, NEW data, NEW i \in 1..3, Fields(e)
    PROVE  decode(e, data)[e[i].name]
              = from_bytes(SubSeq(data, Offset(e, i - 1) + 1, Offset(e, i)), e[i].signed)
<1> DEFINE F(n) == LET k == CHOOSE j \in 1..Len(e) : e[j].name = n
                   IN  from_bytes(SubSeq(data, Offset(e, k - 1) + 1, Offset(e, k)), e[k].signed)
<1>1. Len(e) = 3 BY DEF Fields
<1>2. decode(e, data) = [n \in {e[j].name : j \in 1..Len(e)} |-> F(n)] BY Zenon DEF decode
<1>3. e[i].name \in {e[j].name : j \in 1..Len(e)} BY <1>1
<1>4. (CHOOSE j \in 1..Len(e) : e[j].name = e[i].name) = i
  <2>1. \A j, k \in 1..3 : e[j].name = e[k].name => j = k BY Zenon DEF Fields
  <2>2. (CHOOSE j \in 1..3 : e[j].name = e[i].name) \in 1..3
        /\ e[CHOOSE j \in 1..3 : e[j].name = e[i].name].name = e[i].name
    BY Zenon
  <2> QED BY Zenon, <1>1, <2>1, <2>2
<1>5. F(e[i].name) = from_bytes(SubSeq(data, Offset(e, i - 1) + 1, Offset(e, i)), e[i].signed)
  BY Zenon, <1>4
<1> HIDE DEF F
<1> QED BY Zenon, <1>2, <1>3, <1>5

(* Decoding what was encoded gives the values of the entries back.              *)
RoundTrips(e, v) == decode(e, encode(e, v)) = [n \in {e[i].name : i \in 1..3} |-> v[n]]

(* What encode packs, decode reads back, signs included: for every mapping of    *)
(* three entries of one, two or four bytes and all the values they can hold.    *)
THEOREM CanCodecRoundTrip ==
    ASSUME NEW e, NEW v, Fields(e), InRange(e, v)
    PROVE  RoundTrips(e, v)
<1> DEFINE B(k) == to_bytes(v[e[k].name], e[k].bytes)
<1>1. PICK data : data = encode(e, v) OBVIOUS
<1>2. ASSUME NEW k \in 1..3
      PROVE  /\ B(k) \in Seq(Int) /\ Len(B(k)) = e[k].bytes /\ Len(B(k)) > 0
             /\ from_bytes(B(k), e[k].signed) = v[e[k].name]
  <2>1. e[k].bytes \in {1, 2, 4} /\ e[k].signed \in BOOLEAN BY DEF Fields
  <2>2. v[e[k].name] \in Range(e[k].bytes, e[k].signed) BY DEF InRange
  <2>3. /\ B(k) \in Seq(Int) /\ Len(B(k)) = e[k].bytes
        /\ from_bytes(B(k), e[k].signed) = v[e[k].name]
    BY Zenon, <2>1, <2>2, BytesBack
  <2>4. Len(B(k)) > 0
    <3>1. PICK w \in {1, 2, 4} : w = e[k].bytes BY <2>1
    <3>2. Len(B(k)) = w BY Zenon, <2>3, <3>1
    <3> QED BY <3>2
  <2> QED BY Zenon, <2>3, <2>4
<1>3. data = ((<<>> \o B(1)) \o B(2)) \o B(3) BY Zenon, <1>1, EncodeFacts
<1> HIDE DEF B
<1>4. 1 \in 1..3 /\ 2 \in 1..3 /\ 3 \in 1..3 OBVIOUS
<1>5. /\ B(1) \in Seq(Int) /\ Len(B(1)) = e[1].bytes /\ Len(B(1)) > 0
      /\ B(2) \in Seq(Int) /\ Len(B(2)) = e[2].bytes /\ Len(B(2)) > 0
      /\ B(3) \in Seq(Int) /\ Len(B(3)) = e[3].bytes /\ Len(B(3)) > 0
  BY Zenon, <1>2, <1>4
<1>6. /\ SubSeq(data, 1, e[1].bytes) = B(1)
      /\ SubSeq(data, e[1].bytes + 1, e[1].bytes + e[2].bytes) = B(2)
      /\ SubSeq(data, e[1].bytes + e[2].bytes + 1, e[1].bytes + e[2].bytes + e[3].bytes) = B(3)
  <2>1. InThree(B(1), B(2), B(3), data) BY Zenon, <1>3, <1>5 DEF InThree
  <2>2. /\ SubSeq(data, 1, Len(B(1))) = B(1)
        /\ SubSeq(data, Len(B(1)) + 1, Len(B(1)) + Len(B(2))) = B(2)
        /\ SubSeq(data, Len(B(1)) + Len(B(2)) + 1, Len(B(1)) + Len(B(2)) + Len(B(3))) = B(3)
    BY Zenon, <2>1, PartsOfJoined
  <2> QED BY Zenon, <1>5, <2>2
<1>7. ASSUME NEW k \in 1..3 PROVE SubSeq(data, Offset(e, k - 1) + 1, Offset(e, k)) = B(k)
  <2>1. /\ Offset(e, 0) = 0 /\ Offset(e, 1) = e[1].bytes
        /\ Offset(e, 2) = e[1].bytes + e[2].bytes
        /\ Offset(e, 3) = e[1].bytes + e[2].bytes + e[3].bytes
    BY Zenon, OffsetFacts
  <2>2. k = 1 \/ k = 2 \/ k = 3 OBVIOUS
  <2>3. 1 - 1 = 0 /\ 2 - 1 = 1 /\ 3 - 1 = 2 /\ 0 + 1 = 1 OBVIOUS
  <2> QED BY Zenon, <1>6, <2>1, <2>2, <2>3
<1>8. ASSUME NEW k \in 1..3 PROVE decode(e, data)[e[k].name] = v[e[k].name]
  <2>1. decode(e, data)[e[k].name]
           = from_bytes(SubSeq(data, Offset(e, k - 1) + 1, Offset(e, k)), e[k].signed)
    BY Zenon, DecodeFacts
  <2> QED BY Zenon, <1>2, <1>7, <2>1
<1>9. Len(e) = 3 BY DEF Fields
<1>10. PICK g : g = decode(e, data) OBVIOUS
<1>11. DOMAIN g = {e[i].name : i \in 1..3} /\ g = [n \in DOMAIN g |-> g[n]]
  <2> DEFINE F(n) == LET k == CHOOSE j \in 1..Len(e) : e[j].name = n
                     IN  from_bytes(SubSeq(data, Offset(e, k - 1) + 1, Offset(e, k)), e[k].signed)
  <2>1. decode(e, data) = [n \in {e[j].name : j \in 1..Len(e)} |-> F(n)] BY Zenon DEF decode
  <2> HIDE DEF F
  <2>2. g = [n \in {e[j].name : j \in 1..3} |-> F(n)] BY Zenon, <1>9, <1>10, <2>1
  <2> QED BY Zenon, <2>2
<1>12. \A n \in {e[i].name : i \in 1..3} : g[n] = v[n] BY Zenon, <1>8, <1>10
<1>13. g = [n \in {e[i].name : i \in 1..3} |-> v[n]] BY Zenon, <1>11, <1>12
<1> QED BY Zenon, <1>1, <1>10, <1>13 DEF RoundTrips


(* The two mappings of the model are such mappings, and hold the samples.       *)
LEMMA MappingEntries ==
    /\ DOMAIN Mapping = {"csp", "cst"}
    /\ \A m \in {"csp", "cst"} :
         /\ Len(Mapping[m]) = 3
         /\ Mapping[m][1].name = "controlword" /\ Mapping[m][1].bytes = 2 /\ Mapping[m][1].signed = FALSE
         /\ Mapping[m][2].name = "mode" /\ Mapping[m][2].bytes = 1 /\ Mapping[m][2].signed = TRUE
         /\ Mapping[m][3].signed = TRUE
    /\ Mapping["csp"][3].name = "target_position" /\ Mapping["csp"][3].bytes = 4
    /\ Mapping["cst"][3].name = "target_torque" /\ Mapping["cst"][3].bytes = 2
<1>1. PICK e : e = CIA402_RPDO_CSP OBVIOUS
<1>2. /\ Len(e) = 3 /\ e[1] = Entry("controlword", 2, FALSE)
      /\ e[2] = Entry("mode", 1, TRUE) /\ e[3] = Entry("target_position", 4, TRUE)
  BY SMT, <1>1 DEF CIA402_RPDO_CSP
<1>3. PICK f : f = CIA402_RPDO_CST OBVIOUS
<1>4. /\ Len(f) = 3 /\ f[1] = Entry("controlword", 2, FALSE)
      /\ f[2] = Entry("mode", 1, TRUE) /\ f[3] = Entry("target_torque", 2, TRUE)
  BY SMT, <1>3 DEF CIA402_RPDO_CST
<1>5. /\ e[1].name = "controlword" /\ e[1].bytes = 2 /\ e[1].signed = FALSE
      /\ e[2].name = "mode" /\ e[2].bytes = 1 /\ e[2].signed = TRUE
      /\ e[3].name = "target_position" /\ e[3].bytes = 4 /\ e[3].signed = TRUE
  <2>1. e[1].name = "controlword" /\ e[1].bytes = 2 /\ e[1].signed = FALSE
    <3>1. e[1].name = "controlword" BY SMT, <1>2 DEF Entry
    <3>2. e[1].bytes = 2 BY SMT, <1>2 DEF Entry
    <3>3. e[1].signed = FALSE BY SMT, <1>2 DEF Entry
    <3> QED BY Zenon, <3>1, <3>2, <3>3
  <2>2. e[2].name = "mode" /\ e[2].bytes = 1 /\ e[2].signed = TRUE
    <3>1. e[2].name = "mode" BY SMT, <1>2 DEF Entry
    <3>2. e[2].bytes = 1 BY SMT, <1>2 DEF Entry
    <3>3. e[2].signed = TRUE BY SMT, <1>2 DEF Entry
    <3> QED BY Zenon, <3>1, <3>2, <3>3
  <2>3. e[3].name = "target_position" /\ e[3].bytes = 4 /\ e[3].signed = TRUE
    <3>1. e[3].name = "target_position" BY SMT, <1>2 DEF Entry
    <3>2. e[3].bytes = 4 BY SMT, <1>2 DEF Entry
    <3>3. e[3].signed = TRUE BY SMT, <1>2 DEF Entry
    <3> QED BY Zenon, <3>1, <3>2, <3>3
  <2> QED BY Zenon, <2>1, <2>2, <2>3
<1>6. /\ f[1].name = "controlword" /\ f[1].bytes = 2 /\ f[1].signed = FALSE
      /\ f[2].name = "mode" /\ f[2].bytes = 1 /\ f[2].signed = TRUE
      /\ f[3].name = "target_torque" /\ f[3].bytes = 2 /\ f[3].signed = TRUE
  <2>1. f[1].name = "controlword" /\ f[1].bytes = 2 /\ f[1].signed = FALSE
    <3>1. f[1].name = "controlword" BY SMT, <1>4 DEF Entry
    <3>2. f[1].bytes = 2 BY SMT, <1>4 DEF Entry
    <3>3. f[1].signed = FALSE BY SMT, <1>4 DEF Entry
    <3> QED BY Zenon, <3>1, <3>2, <3>3
  <2>2. f[2].name = "mode" /\ f[2].bytes = 1 /\ f[2].signed = TRUE
    <3>1. f[2].name = "mode" BY SMT, <1>4 DEF Entry
    <3>2. f[2].bytes = 1 BY SMT, <1>4 DEF Entry
    <3>3. f[2].signed = TRUE BY SMT, <1>4 DEF Entry
    <3> QED BY Zenon, <3>1, <3>2, <3>3
  <2>3. f[3].name = "target_torque" /\ f[3].bytes = 2 /\ f[3].signed = TRUE
    <3>1. f[3].name = "target_torque" BY SMT, <1>4 DEF Entry
    <3>2. f[3].bytes = 2 BY SMT, <1>4 DEF Entry
    <3>3. f[3].signed = TRUE BY SMT, <1>4 DEF Entry
    <3> QED BY Zenon, <3>1, <3>2, <3>3
  <2> QED BY Zenon, <2>1, <2>2, <2>3
<1>7. Mapping["csp"] = e /\ Mapping["cst"] = f /\ DOMAIN Mapping = {"csp", "cst"}
  BY SMT, <1>1, <1>3 DEF Mapping
<1> QED BY Zenon, <1>2, <1>4, <1>5, <1>6, <1>7

LEMMA MappingFields == \A m \in DOMAIN Mapping : Fields(Mapping[m])
<1> SUFFICES ASSUME NEW m \in {"csp", "cst"} PROVE Fields(Mapping[m])
  BY Zenon, MappingEntries
<1>1. PICK third \in {"target_position", "target_torque"}, w \in {2, 4} :
         Mapping[m][3].name = third /\ Mapping[m][3].bytes = w
  <2>1. CASE m = "csp" BY Zenon, <2>1, MappingEntries
  <2>2. CASE m = "cst" BY Zenon, <2>2, MappingEntries
  <2> QED BY <2>1, <2>2
<1>2. PICK e : e = Mapping[m] OBVIOUS
<1>3. Len(e) = 3 BY <1>2, MappingEntries
<1>4. /\ e[1].name = "controlword" /\ e[1].bytes = 2 /\ e[1].signed = FALSE
      /\ e[2].name = "mode" /\ e[2].bytes = 1 /\ e[2].signed = TRUE
      /\ e[3].name = third /\ e[3].bytes = w /\ e[3].signed = TRUE
  BY Zenon, <1>1, <1>2, MappingEntries
<1>5. \A i \in 1..3 : e[i].bytes \in {1, 2, 4} /\ e[i].signed \in BOOLEAN
  <2>1. \A i \in 1..3 : i = 1 \/ i = 2 \/ i = 3 OBVIOUS
  <2>2. w \in {1, 2, 4} BY <1>1
  <2> QED BY Zenon, <1>4, <2>1, <2>2
<1>6. \A i, j \in 1..3 : e[i].name = e[j].name => i = j
  <2>1. \A i \in 1..3 : i = 1 \/ i = 2 \/ i = 3 OBVIOUS
  <2>2. third # "controlword" /\ third # "mode" /\ "controlword" # "mode" BY <1>1
  <2> QED BY Zenon, <1>4, <2>1, <2>2
<1> QED BY Zenon, <1>2, <1>3, <1>5, <1>6 DEF Fields

LEMMA SamplesInRange == \A m \in DOMAIN Mapping : \A v \in Samples : InRange(Mapping[m], v)
<1> SUFFICES ASSUME NEW m \in {"csp", "cst"}, NEW v \in Samples PROVE InRange(Mapping[m], v)
  BY Zenon, MappingEntries
<1>1. Weight[1] = 1 /\ Weight[2] = 256 /\ Weight[4] = 16777216 BY SMT DEF Weight
<1>2. PICK w \in Int, d \in Int, p \in Int, t \in Int :
         /\ v["controlword"] = w /\ v["mode"] = d /\ v["target_position"] = p /\ v["target_torque"] = t
         /\ 0 <= w /\ w < 65536 /\ 0 - 128 <= d /\ d < 128
         /\ 0 - 2147483648 <= p /\ p < 2147483648 /\ 0 - 32768 <= t /\ t < 32768
  <2>1. CASE v = [controlword |-> 15, mode |-> 8, target_position |-> 0, target_torque |-> 0]
    <3>1. v["controlword"] = 15 /\ v["mode"] = 8 /\ v["target_position"] = 0 /\ v["target_torque"] = 0
      BY SMT, <2>1
    <3> QED BY SMT, <3>1
  <2>2. CASE v = [controlword |-> 65535, mode |-> -1, target_position |-> -2, target_torque |-> -32768]
    <3>1. v["controlword"] = 65535 /\ v["mode"] = 0 - 1 /\ v["target_position"] = 0 - 2
          /\ v["target_torque"] = 0 - 32768
      BY SMT, <2>2
    <3> QED BY SMT, <3>1
  <2>3. CASE v = [controlword |-> 256, mode |-> -128, target_position |-> 2147483647,
                  target_torque |-> 32767]
    <3>1. v["controlword"] = 256 /\ v["mode"] = 0 - 128 /\ v["target_position"] = 2147483647
          /\ v["target_torque"] = 32767
      BY SMT, <2>3
    <3> QED BY SMT, <3>1
  <2> QED BY SMT, <2>1, <2>2, <2>3 DEF Samples
<1>3. /\ v["controlword"] \in Range(2, FALSE) /\ v["mode"] \in Range(1, TRUE)
      /\ v["target_position"] \in Range(4, TRUE) /\ v["target_torque"] \in Range(2, TRUE)
  <2>1. w \in Range(2, FALSE) BY SMT, <1>1, <1>2 DEF Range
  <2>2. d \in Range(1, TRUE) BY SMT, <1>1, <1>2 DEF Range
  <2>3. p \in Range(4, TRUE) BY SMT, <1>1, <1>2 DEF Range
  <2>4. t \in Range(2, TRUE) BY SMT, <1>1, <1>2 DEF Range
  <2>5. v["controlword"] = w /\ v["mode"] = d /\ v["target_position"] = p /\ v["target_torque"] = t
    BY SMT, <1>2
  <2> QED BY Zenon, <2>1, <2>2, <2>3, <2>4, <2>5
<1>4. v[Mapping[m][1].name] \in Range(Mapping[m][1].bytes, Mapping[m][1].signed)
  BY Zenon, <1>3, MappingEntries
<1>5. v[Mapping[m][2].name] \in Range(Mapping[m][2].bytes, Mapping[m][2].signed)
  BY Zenon, <1>3, MappingEntries
<1>6. v[Mapping[m][3].name] \in Range(Mapping[m][3].bytes, Mapping[m][3].signed)
  <2>1. CASE m = "csp" BY Zenon, <1>3, <2>1, MappingEntries
  <2>2. CASE m = "cst" BY Zenon, <1>3, <2>2, MappingEntries
  <2> QED BY Zenon, <2>1, <2>2
<1>7. \A i \in 1..3 : i = 1 \/ i = 2 \/ i = 3 OBVIOUS
<1> QED BY Zenon, <1>4, <1>5, <1>6, <1>7 DEF InRange

(* After a configuration that returned, the drive decodes from its PDO what     *)
(* encode put into it, signs included, for every value of the checked samples.  *)
THEOREM CanPdoDecodesAsConfigured == CanSpec => []PdoDecodesAsConfigured
<1>1. CanInv => PdoDecodesAsConfigured
  <2> SUFFICES ASSUME CanInv, op \in DOMAIN Mapping, result = "ok", ~excused, clean
               PROVE  /\ pdo.on
                      /\ \A v \in Samples :
                           decode(SubSeq(pdo.entries, 1, pdo.count), encode(Mapping[op], v))
                              = [n \in {Mapping[op][i].name : i \in 1..3} |-> v[n]]
    BY Zenon DEF PdoDecodesAsConfigured
  <2>1. op \in Remaps
    <3>1. op \in Methods BY DEF CanInv, CanTypes, HostTypes
    <3>2. op \in {"csp", "cst"} BY Zenon, EntryFacts
    <3> QED BY <3>1, <3>2 DEF Methods
  <2>2. pdo.on /\ Whole(pdo, Mapping[op])
    BY Zenon, <2>1 DEF CanInv, MappingInForce
  <2>3. SubSeq(pdo.entries, 1, pdo.count) = Mapping[op]
    <3>1. pdo \in Pdos BY DEF CanInv, CanTypes, DriveTypes
    <3>2. PICK p : p = pdo.entries OBVIOUS
    <3>3. p \in [1..3 -> Entries] BY <3>1, <3>2 DEF Pdos
    <3>4. p \in Seq(Entries) /\ Len(p) = 3
      <4>1. ASSUME NEW S, NEW n \in Nat, NEW q \in [1..n -> S] PROVE q \in Seq(S) /\ Len(q) = n
        OBVIOUS
      <4>2. 3 \in Nat OBVIOUS
      <4> QED BY Zenon, <3>3, <4>1, <4>2
    <3>5. PICK e : e = Mapping[op] OBVIOUS
    <3>6. e \in Seq(Mapped) /\ Len(e) = 3 BY Zenon, <3>5, EntryFacts
    <3>7. pdo.count = 3 /\ \A i \in 1..3 : p[i] = e[i]
      BY Zenon, <2>2, <3>2, <3>5, <3>6 DEF Whole
    <3>8. e \in Seq(Entries) BY <3>6 DEF Entries
    <3>9. PICK t : t = SubSeq(p, 1, 3) OBVIOUS
    <3>10. t \in Seq(Entries) /\ Len(t) = 3 /\ \A i \in 1..3 : t[i] = p[i]
      BY <3>4, <3>9
    <3>11. Len(t) = Len(e) /\ \A i \in 1..Len(t) : t[i] = e[i] BY Zenon, <3>6, <3>7, <3>10
    <3>12. t = e BY Zenon, <3>8, <3>10, <3>11, SeqSame
    <3> QED BY Zenon, <3>2, <3>5, <3>7, <3>9, <3>12
  <2>4. ASSUME NEW v \in Samples
        PROVE  decode(Mapping[op], encode(Mapping[op], v))
                  = [n \in {Mapping[op][i].name : i \in 1..3} |-> v[n]]
    <3>1. PICK e : e = Mapping[op] OBVIOUS
    <3>2. Fields(e) /\ InRange(e, v) BY Zenon, <3>1, MappingFields, SamplesInRange
    <3>3. RoundTrips(e, v) BY Zenon, <3>2, CanCodecRoundTrip
    <3> QED BY Zenon, <3>1, <3>3 DEF RoundTrips
  <2> QED BY Zenon, <2>2, <2>3, <2>4
<1> QED
  BY <1>1, CanInvariant, PTL
===============================================================================
