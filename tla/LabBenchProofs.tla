---------------------------- MODULE LabBenchProofs ----------------------------
(***************************************************************************)
(* The shared bench, for any set of test processes, any depth of the event  *)
(* FIFO and any number of attempts: whatever fails, is interrupted or dies, *)
(* sessions exclude each other, a session that ends without an error leaves *)
(* the bench safe, and what the backend reads from running hardware is not  *)
(* older than it claims.                                                    *)
(***************************************************************************)
EXTENDS LabBench, TLAPS

Bits == {"enable", "safe", "abz", "forward"}
Values == (SUBSET Bits) \cup Nat
CallType == [m : Methods \cup {"none"}, got : Seq(Values), from : Nat, tries : Nat]
Queued == [ts : Int, own : BOOLEAN]

LabTypes ==
    /\ lock \in Proc \cup {NoOne} /\ place \in Proc \cup {NoOne}
    /\ phase \in [Proc -> Phases] /\ err \in [Proc -> BOOLEAN]
    /\ acquired \in [Proc -> BOOLEAN]
    /\ call \in [Proc -> CallType] /\ plan \in [Proc -> Seq(Int)]
    /\ control \subseteq Bits /\ external \in BOOLEAN
    /\ q \in Seq(Queued) /\ Len(q) <= Depth
    /\ ticks \in Nat /\ pwm \in [fall : Nat, rise : Nat, seq : Nat] /\ pwm.seq <= pwm.rise /\ pwm.rise <= pwm.fall
    /\ failed \in BOOLEAN /\ leaked \in BOOLEAN

(* Who holds the lock is in a session, and only who talks to the board has a  *)
(* method under way.                                                          *)
Calling == {"enter", "body", "exit"}
SessionOf(p) ==
    /\ phase[p] # "idle" <=> lock = p
    /\ phase[p] \in {"enter", "exit"} => call[p].m = "force_safe"
    /\ phase[p] \notin Calling => call[p].m = "none"
    /\ call[p].m = "none" => call[p] = NoCall

(* A process that keeps the lease is in a session that can give it back.      *)
Keeping == {"enter", "body", "exit", "release", "undo", "aborted"}
LeaseOf(p) == acquired[p] => bench.lease /\ phase[p] \in Keeping

(* Only a bench with a lease passes through the phases that handle it.        *)
Leased(p) == phase[p] \in {"lease", "undo", "release"} => bench.lease

(* A method under way has accesses left; the value it is about to write back to *)
(* CONTROL has every bit that is set, because nobody else writes CONTROL.      *)
Here(p) == Len(call[p].got) + 1
Register(p) == Accesses(call[p].m)[Here(p)]
LastRead(p) == call[p].got[Len(call[p].got)]
AccessOf(p) ==
    call[p].m \in Methods =>
       /\ Here(p) <= Len(Accesses(call[p].m)) /\ call[p].tries < MaxTries
       /\ Register(p) = "CONTROL:=" => LastRead(p) \subseteq Bits /\ control \subseteq LastRead(p)
       /\ call[p].m = "schedule_dio" => plan[p] # <<>>

(* A session on its way out knows of an error or has forced the bench safe.    *)
OutcomeOf(p) ==
    /\ phase[p] = "undo" => err[p]
    /\ phase[p] \in {"release", "unlock"} /\ ~err[p] => "safe" \in control

(* The events queued during a test are its own.                               *)
EventsOf(p) == phase[p] = "body" => \A i \in 1..Len(q) : q[i].own

Bench(p) == SessionOf(p) /\ LeaseOf(p) /\ Leased(p) /\ AccessOf(p) /\ OutcomeOf(p) /\ EventsOf(p)

(* A place that is not forgotten is held by the session that holds the lock;   *)
(* the board runs only under a session, or after one that failed.             *)
Running == {"enable", "abz"} \subseteq control /\ "safe" \notin control
Attended ==
    /\ place # NoOne /\ ~leaked => \E p \in Proc : lock = p /\ acquired[p]
    /\ Running => failed \/ \E p \in Proc : phase[p] \in {"body", "exit"}

BenchInv == LabTypes /\ (\A p \in Proc : Bench(p)) /\ Attended
------------------------------------------------------------------------------
LEMMA LabFacts ==
    /\ NoOne \notin Proc /\ Depth \in Nat /\ Depth >= 1 /\ MaxTries \in Nat /\ MaxTries >= 1
    /\ LoSize \in Nat /\ LoSize >= 1
    /\ NoCall \in CallType /\ NoCall.m = "none" /\ NoCall.got = <<>>
<1>1. NoCall.got \in Seq(Values)
  BY DEF NoCall
<1>2. NoCall \in CallType /\ NoCall.m = "none" /\ NoCall.got = <<>>
  BY <1>1 DEF NoCall, CallType
<1> QED BY <1>2, LabAssumption

LEMMA NewCallFacts ==
    ASSUME NEW m \in Methods, NEW t \in Nat
    PROVE  /\ NewCall(m, t) \in CallType /\ NewCall(m, t).m = m /\ NewCall(m, t).got = <<>>
           /\ NewCall(m, t).from = t /\ NewCall(m, t).tries = 0
<1>1. NoCall \in [m : Methods \cup {"none"}, got : Seq(Values), from : Nat, tries : Nat]
  BY LabFacts DEF CallType
<1>2. NewCall(m, t) \in [m : Methods \cup {"none"}, got : Seq(Values), from : Nat, tries : Nat]
  BY <1>1 DEF NewCall
<1>3. NoCall.got = <<>> /\ NoCall.tries = 0
  BY DEF NoCall
<1> QED BY <1>1, <1>2, <1>3 DEF NewCall, CallType

LEMMA ForceSafeFacts ==
    /\ force_safe \in CallType /\ force_safe.m = "force_safe" /\ force_safe.got = <<>>
    /\ force_safe.tries = 0 /\ "force_safe" \in Methods
<1>1. "force_safe" \in Methods
  BY DEF Methods
<1> QED BY <1>1, NewCallFacts DEF force_safe

(* The register accesses of the methods: CONTROL is read right before it is    *)
(* written, which ends a method, as does the push of an event.                *)
ControlMethods == {"force_safe", "release_safe", "start_abz", "stop_abz", "configure_abz"}
LEMMA AccessTable ==
    ASSUME NEW m \in Methods
    PROVE  /\ Len(Accesses(m)) \in Nat /\ Len(Accesses(m)) >= 2
           /\ \A i \in 1..Len(Accesses(m)) :
                /\ Accesses(m)[i] = "CONTROL:=" => /\ i = Len(Accesses(m)) /\ i >= 2
                                                    /\ Accesses(m)[i - 1] = "CONTROL"
                                                    /\ m \in ControlMethods
                /\ Accesses(m)[i] = "EVT_PUSH:=" => m = "schedule_dio" /\ i = Len(Accesses(m))
           /\ m \in ControlMethods => Accesses(m)[Len(Accesses(m))] = "CONTROL:="
           /\ m = "schedule_dio" => Accesses(m) = <<"EVT_STATUS", "EVT_STAGE:=", "EVT_PUSH:=">>
           /\ m = "read_timestamp" =>
                 /\ Len(Accesses(m)) = 3 /\ Accesses(m)[1] = "TIMESTAMP_HI"
                 /\ Accesses(m)[2] = "TIMESTAMP_LO" /\ Accesses(m)[3] = "TIMESTAMP_HI"
           /\ m = "read_pwm" =>
                 /\ Len(Accesses(m)) = 5 /\ Accesses(m)[1] = "PWM_VALID" /\ Accesses(m)[2] = "PWM_SEQ"
                 /\ Accesses(m)[3] = "PERIOD" /\ Accesses(m)[4] = "HIGH" /\ Accesses(m)[5] = "LOW"
<1>1. CASE m \in {"force_safe", "release_safe", "start_abz", "stop_abz"}
  BY <1>1 DEF Accesses, ControlMethods
<1>2. CASE m = "configure_abz"
  BY <1>2 DEF Accesses, ControlMethods
<1>3. CASE m = "read_timestamp"
  BY <1>3 DEF Accesses, ControlMethods
<1>4. CASE m = "read_pwm"
  BY <1>4 DEF Accesses, ControlMethods
<1>5. CASE m = "health"
  BY <1>5 DEF Accesses, ControlMethods
<1>6. CASE m = "schedule_dio"
  BY <1>6 DEF Accesses, ControlMethods
<1> QED BY <1>1, <1>2, <1>3, <1>4, <1>5, <1>6 DEF Methods

(* In a session nobody else is anywhere.                                      *)
Away(o) == phase[o] = "idle" /\ call[o] = NoCall /\ ~acquired[o]
LEMMA Alone ==
    ASSUME BenchInv, NEW p \in Proc, phase[p] # "idle" \/ call[p].m # "none" \/ lock = p
    PROVE  lock = p /\ phase[p] # "idle" /\ \A o \in Proc \ {p} : Away(o)
<1>1. phase[p] # "idle" /\ lock = p
  <2>1. CASE call[p].m # "none"
    BY <2>1 DEF BenchInv, Bench, SessionOf, Calling
  <2> QED BY <2>1 DEF BenchInv, Bench, SessionOf
<1>2. ASSUME NEW o \in Proc \ {p} PROVE Away(o)
  <2>1. lock # o
    BY <1>1
  <2>2. phase[o] = "idle"
    BY <2>1 DEF BenchInv, Bench, SessionOf
  <2>3. call[o] = NoCall
    BY <2>2 DEF BenchInv, Bench, SessionOf, Calling
  <2>4. ~acquired[o]
    BY <2>2 DEF BenchInv, Bench, LeaseOf, Keeping
  <2> QED BY <2>2, <2>3, <2>4 DEF Away
<1> QED BY <1>1, <1>2

(* A step of the process in session: what must be shown is about that process. *)
LEMMA Moves ==
    ASSUME NEW p \in Proc, \A o \in Proc \ {p} : Away(o),
           \A o \in Proc \ {p} :
              phase'[o] = phase[o] /\ call'[o] = call[o] /\ acquired'[o] = acquired[o],
           LabTypes', lock' \in {p, NoOne}, Bench(p)', Attended'
    PROVE  BenchInv'
<1>1. ASSUME NEW o \in Proc \ {p} PROVE Bench(o)'
  <2>1. phase'[o] = "idle" /\ call'[o] = NoCall /\ ~acquired'[o]
    BY DEF Away
  <2>2. lock' # o
    BY LabFacts
  <2>3. NoCall.m = "none" /\ "none" \notin Methods
    BY LabFacts DEF Methods
  <2>4. SessionOf(o)'
    BY <2>1, <2>2, <2>3 DEF SessionOf, Calling
  <2>5. AccessOf(o)'
    BY <2>1, <2>3 DEF AccessOf
  <2>6. LeaseOf(o)' /\ OutcomeOf(o)' /\ EventsOf(o)'
    BY <2>1 DEF LeaseOf, OutcomeOf, EventsOf
  <2>7. Leased(o)'
    BY <2>1 DEF Leased
  <2> QED BY <2>4, <2>5, <2>6, <2>7 DEF Bench
<1> QED BY <1>1 DEF BenchInv

(* An exception takes a session one phase further: out of the test to the      *)
(* final FORCE_SAFE, and from there, or from __enter__, to giving back.        *)
LEMMA RaiseFacts ==
    ASSUME LabTypes, NEW p \in Proc, phase[p] \in Calling, Raise(p)
    PROVE  /\ phase' \in [Proc -> Phases] /\ call' \in [Proc -> CallType]
           /\ err' \in [Proc -> BOOLEAN] /\ err'[p] /\ failed' = (failed \/ phase[p] = "exit")
           /\ \A o \in Proc \ {p} : phase'[o] = phase[o] /\ call'[o] = call[o]
           /\ phase[p] = "enter" => phase'[p] = IfLeased("undo") /\ call'[p] = NoCall
           /\ phase[p] = "body" => phase'[p] = "exit" /\ call'[p] = force_safe
           /\ phase[p] = "exit" => phase'[p] = IfLeased("release") /\ call'[p] = NoCall
           /\ IfLeased("undo") = IF bench.lease THEN "undo" ELSE "unlock"
           /\ IfLeased("release") = IF bench.lease THEN "release" ELSE "unlock"
           /\ ticks' = 0 /\ pwm' = [fall |-> 0, rise |-> 0, seq |-> 0]
<1>1. OnError.enter = IfLeased("undo") /\ OnError.body = "exit" /\ OnError.exit = IfLeased("release")
  BY DEF OnError
<1>2. /\ OnError["enter"] = IfLeased("undo") /\ OnError["body"] = "exit"
      /\ OnError["exit"] = IfLeased("release")
  BY <1>1
<1>3. /\ IfLeased("undo") = IF bench.lease THEN "undo" ELSE "unlock"
      /\ IfLeased("release") = IF bench.lease THEN "release" ELSE "unlock"
  BY DEF IfLeased
<1>4. IfLeased("undo") \in Phases \ {"exit"} /\ IfLeased("release") \in Phases \ {"exit"}
  BY <1>3 DEF Phases
<1>5. /\ phase' = [phase EXCEPT ![p] = OnError[phase[p]]]
      /\ call' = [call EXCEPT ![p] = IF OnError[phase[p]] = "exit" THEN force_safe ELSE NoCall]
      /\ err' = [err EXCEPT ![p] = TRUE] /\ failed' = (failed \/ phase[p] = "exit")
      /\ ticks' = 0 /\ pwm' = [fall |-> 0, rise |-> 0, seq |-> 0]
  BY DEF Raise, RaiseTo, Unread, LabTypes
<1>6. "exit" \in Phases
  BY DEF Phases
<1>7. OnError[phase[p]] \in Phases
  BY <1>2, <1>4, <1>6 DEF Calling
<1>8. phase' \in [Proc -> Phases] /\ call' \in [Proc -> CallType] /\ err' \in [Proc -> BOOLEAN]
  BY <1>5, <1>7, LabFacts, ForceSafeFacts DEF LabTypes
<1>9. err'[p] /\ \A o \in Proc \ {p} : phase'[o] = phase[o] /\ call'[o] = call[o]
  BY <1>5 DEF LabTypes
<1>10. /\ phase'[p] = OnError[phase[p]]
       /\ call'[p] = IF OnError[phase[p]] = "exit" THEN force_safe ELSE NoCall
  BY <1>5 DEF LabTypes
<1> QED BY <1>2, <1>3, <1>4, <1>5, <1>8, <1>9, <1>10

(* The first access of a method only reads, or writes a step of the generator. *)
LEMMA FirstAccess ==
    ASSUME NEW c \in CallType, c.got = <<>>, c.tries < MaxTries, c.m \in Methods
    PROVE  /\ Len(c.got) + 1 = 1 /\ 1 <= Len(Accesses(c.m)) /\ c.tries < MaxTries
           /\ Accesses(c.m)[Len(c.got) + 1] # "CONTROL:="
<1>1. Len(c.got) = 0
  OBVIOUS
<1>2. 1 <= Len(Accesses(c.m)) /\ Accesses(c.m)[1] # "CONTROL:="
  BY AccessTable
<1> QED BY <1>1, <1>2, LabFacts

LEMMA FreshCall ==
    ASSUME NEW p \in Proc, call'[p] \in CallType, call'[p].got = <<>>, call'[p].tries < MaxTries,
           call'[p].m = "schedule_dio" => plan'[p] # <<>>
    PROVE  AccessOf(p)'
BY FirstAccess DEF AccessOf, Here, Register

LEMMA SafeCall ==
    ASSUME NEW p \in Proc, call'[p] \in {NoCall, force_safe}
    PROVE  AccessOf(p)'
<1>1. CASE call'[p] = NoCall
  BY <1>1, LabFacts DEF AccessOf, Methods
<1>2. CASE call'[p] = force_safe
  BY <1>2, LabFacts, ForceSafeFacts, FreshCall
<1> QED BY <1>1, <1>2

LEMMA RaiseStep ==
    ASSUME BenchInv, NEW p \in Proc, phase[p] \in Calling, Raise(p),
           plan' \in [Proc -> Seq(Int)],
           UNCHANGED <<bench, lock, place, acquired, leaked, control, external, fifovars>>
    PROVE  BenchInv'
<1>1. LabTypes
  BY DEF BenchInv
<1>2. /\ lock = p /\ \A o \in Proc \ {p} : Away(o)
      /\ phase[p] # "idle"
  BY Alone DEF Calling
<1>3. LabTypes'
  <2>1. pwm' \in [fall : Nat, rise : Nat, seq : Nat] /\ pwm'.seq <= pwm'.rise /\ pwm'.rise <= pwm'.fall /\ ticks' \in Nat
    BY <1>1, RaiseFacts
  <2>2. failed' \in BOOLEAN
    BY <1>1, RaiseFacts DEF LabTypes
  <2> QED BY <1>1, <2>1, <2>2, RaiseFacts DEF LabTypes, fifovars
<1>4. Bench(p)
  BY DEF BenchInv
<1>5. SessionOf(p)'
  BY <1>1, <1>2, RaiseFacts, LabFacts, ForceSafeFacts DEF SessionOf, Calling
<1>6. LeaseOf(p)' /\ Leased(p)'
  BY <1>1, <1>4, RaiseFacts DEF Bench, LeaseOf, Leased, Keeping, Calling
<1>7. AccessOf(p)'
  BY <1>1, RaiseFacts, SafeCall DEF Calling
<1>8. OutcomeOf(p)' /\ EventsOf(p)'
  BY <1>1, RaiseFacts DEF OutcomeOf, EventsOf, Calling
<1>9. Attended'
  <2>1. place' # NoOne /\ ~leaked' => \E o \in Proc : lock' = o /\ acquired'[o]
    BY DEF BenchInv, Attended
  <2>2. ASSUME Running' PROVE failed' \/ \E o \in Proc : phase'[o] \in {"body", "exit"}
    <3>1. failed \/ \E o \in Proc : phase[o] \in {"body", "exit"}
      BY <2>2 DEF BenchInv, Attended, Running
    <3>2. failed \/ phase[p] \in {"body", "exit"}
      BY <3>1, <1>2 DEF Away
    <3> QED BY <1>1, <3>2, RaiseFacts
  <2> QED BY <2>1, <2>2 DEF Attended
<1> QED BY <1>2, <1>3, <1>5, <1>6, <1>7, <1>8, <1>9, <1>1, RaiseFacts, Moves DEF Bench

(* __enter__ finds nobody on the bench.                                       *)
LEMMA EnterStep ==
    ASSUME BenchInv, NEW p \in Proc, Enter(p)
    PROVE  BenchInv'
<1>1. LabTypes /\ Bench(p)
  BY DEF BenchInv
<1>2. \A o \in Proc : Away(o)
  <2>1. ASSUME NEW o \in Proc PROVE Away(o)
    <3>1. phase[o] = "idle"
      BY LabFacts DEF BenchInv, Bench, SessionOf, Enter
    <3>2. call[o] = NoCall
      BY <3>1 DEF BenchInv, Bench, SessionOf, Calling
    <3>3. ~acquired[o]
      BY <3>1 DEF BenchInv, Bench, LeaseOf, Keeping
    <3> QED BY <3>1, <3>2, <3>3 DEF Away
  <2> QED BY <2>1
<1>3. /\ lock' = p /\ phase' = [phase EXCEPT ![p] = IF bench.lease THEN "lease" ELSE "enter"]
      /\ call' = [call EXCEPT ![p] = IF bench.lease THEN NoCall ELSE force_safe]
      /\ UNCHANGED <<bench, place, err, acquired, plan, boardvars, returned, failed, leaked>>
  BY DEF Enter
<1>4. {"lease", "enter"} \subseteq Phases
  BY DEF Phases
<1>5. LabTypes'
  BY <1>1, <1>3, <1>4, LabFacts, ForceSafeFacts DEF LabTypes, boardvars, fifovars
<1>6. /\ \A o \in Proc \ {p} : phase'[o] = phase[o] /\ call'[o] = call[o] /\ acquired'[o] = acquired[o]
      /\ phase'[p] = IF bench.lease THEN "lease" ELSE "enter"
      /\ call'[p] = IF bench.lease THEN NoCall ELSE force_safe
  BY <1>1, <1>3 DEF LabTypes
<1>7. AccessOf(p)'
  BY <1>6, SafeCall
<1>8. SessionOf(p)'
  BY <1>3, <1>6, LabFacts, ForceSafeFacts DEF SessionOf, Calling
<1>9. LeaseOf(p)' /\ Leased(p)' /\ OutcomeOf(p)' /\ EventsOf(p)'
  BY <1>2, <1>3, <1>6 DEF Leased, LeaseOf, OutcomeOf, EventsOf, Away
<1>10. Attended'
  <2>1. ~(place # NoOne /\ ~leaked)
    BY <1>2 DEF BenchInv, Attended, Away
  <2>2. Running => failed
    BY <1>2 DEF BenchInv, Attended, Away
  <2> QED BY <1>3, <2>1, <2>2 DEF Attended, Running, boardvars
<1> QED BY <1>2, <1>3, <1>5, <1>6, <1>7, <1>8, <1>9, <1>10, Moves DEF Bench

LEMMA AcquireStep ==
    ASSUME BenchInv, NEW p \in Proc, LeaseAcquire(p)
    PROVE  BenchInv'
<1>1. LabTypes /\ Bench(p) /\ phase[p] = "lease"
  BY DEF BenchInv, LeaseAcquire
<1>2. lock = p /\ \A o \in Proc \ {p} : Away(o)
  BY <1>1, Alone
<1>3. PICK out \in Acquisition(p) :
        /\ place' = out.place
        /\ acquired' = [acquired EXCEPT ![p] = require_success(out)]
        /\ phase' = [phase EXCEPT ![p] = IF require_success(out) THEN "enter" ELSE "undo"]
        /\ call' = [call EXCEPT ![p] = IF require_success(out) THEN force_safe ELSE NoCall]
        /\ err' = [err EXCEPT ![p] = ~require_success(out)]
        /\ leaked' = (leaked \/ (~require_success(out) /\ out.place # place))
  BY DEF LeaseAcquire
<1>4. UNCHANGED <<bench, lock, plan, boardvars, returned, failed>>
  BY DEF LeaseAcquire
<1>5. require_success(out) \in BOOLEAN
  BY DEF require_success
<1>6. out.place \in Proc \cup {NoOne} /\ (require_success(out) => out.place = p)
  <2>1. CASE place = NoOne
    BY <2>1, <1>1 DEF Acquisition, run_command, require_success, LabTypes
  <2>2. CASE place # NoOne
    BY <2>2, <1>1 DEF Acquisition, run_command, require_success, LabTypes
  <2> QED BY <2>1, <2>2
<1>7. {"undo", "enter"} \subseteq Phases
  BY DEF Phases
<1>8. LabTypes'
  BY <1>1, <1>3, <1>4, <1>5, <1>6, <1>7, LabFacts, ForceSafeFacts DEF LabTypes, boardvars, fifovars
<1>9. /\ \A o \in Proc \ {p} : phase'[o] = phase[o] /\ call'[o] = call[o] /\ acquired'[o] = acquired[o]
      /\ phase'[p] = IF require_success(out) THEN "enter" ELSE "undo"
      /\ call'[p] = IF require_success(out) THEN force_safe ELSE NoCall
      /\ acquired'[p] = require_success(out) /\ err'[p] = ~require_success(out)
  BY <1>1, <1>3 DEF LabTypes
<1>10. AccessOf(p)'
  BY <1>9, SafeCall
<1>11. SessionOf(p)'
  BY <1>2, <1>4, <1>9, LabFacts, ForceSafeFacts DEF SessionOf, Calling
<1>12. bench.lease
  BY <1>1 DEF Bench, Leased
<1>13. LeaseOf(p)' /\ Leased(p)' /\ OutcomeOf(p)' /\ EventsOf(p)'
  BY <1>4, <1>9, <1>12 DEF Leased, LeaseOf, OutcomeOf, EventsOf, Keeping
<1>14. Attended'
  <2>1. ASSUME place' # NoOne, ~leaked' PROVE acquired'[p]
    <3>1. CASE ~require_success(out)
      <4>1. ~leaked /\ place' = place
        BY <1>3, <2>1, <3>1
      <4>2. \E o \in Proc : lock = o /\ acquired[o]
        BY <4>1, <2>1 DEF BenchInv, Attended
      <4>3. acquired[p]
        BY <4>2, <1>2
      <4> QED BY <4>3, <1>1 DEF Bench, LeaseOf, Keeping
    <3> QED BY <3>1, <1>9
  <2>2. ASSUME Running' PROVE failed'
    BY <1>1, <1>2, <1>4, <2>2 DEF BenchInv, Attended, Away, Running, boardvars
  <2> QED BY <1>2, <1>4, <2>1, <2>2 DEF Attended
<1> QED BY <1>2, <1>4, <1>8, <1>9, <1>10, <1>11, <1>13, <1>14, Moves DEF Bench

LEMMA ReleaseStep ==
    ASSUME BenchInv, NEW p \in Proc, LeaseRelease(p)
    PROVE  BenchInv'
<1>1. LabTypes /\ Bench(p) /\ phase[p] \in {"release", "undo"}
  BY DEF BenchInv, LeaseRelease
<1>2. lock = p /\ \A o \in Proc \ {p} : Away(o)
  BY <1>1, Alone
<1>3. /\ UNCHANGED <<bench, lock, call, plan, boardvars, returned, failed>>
      /\ acquired' = [acquired EXCEPT ![p] = FALSE] /\ phase' = [phase EXCEPT ![p] = "unlock"]
  BY DEF LeaseRelease
<1>4. \/ ~acquired[p] /\ UNCHANGED <<place, leaked, err>>
      \/ /\ acquired[p] /\ place' \in {place, NoOne} /\ leaked' = (leaked \/ place' # NoOne)
         /\ \E ok \in BOOLEAN : err' = [err EXCEPT ![p] = @ \/ ok]
  <2>1. CASE acquired[p]
    <3>1. PICK out \in run_command(NoOne) :
             /\ place' = out.place /\ leaked' = (leaked \/ out.place # NoOne)
             /\ err' = [err EXCEPT ![p] = @ \/ ~require_success(out)]
      BY <2>1 DEF LeaseRelease
    <3>2. \/ out = [rc |-> "zero", place |-> NoOne] \/ out = [rc |-> "nonzero", place |-> place]
          \/ out \in [rc : {"timeout"}, place : {place, NoOne}]
      BY DEF run_command
    <3>3. out.place \in {place, NoOne}
      <4>1. CASE out = [rc |-> "zero", place |-> NoOne]
        BY <4>1
      <4>2. CASE out = [rc |-> "nonzero", place |-> place]
        BY <4>2
      <4>3. CASE out \in [rc : {"timeout"}, place : {place, NoOne}]
        BY <4>3
      <4> QED BY <3>2, <4>1, <4>2, <4>3
    <3>4. (~require_success(out)) \in BOOLEAN
      BY DEF require_success
    <3> QED BY <2>1, <3>1, <3>3, <3>4
  <2>2. CASE ~acquired[p]
    BY <2>2 DEF LeaseRelease
  <2> QED BY <2>1, <2>2
<1>5. "unlock" \in Phases
  BY DEF Phases
<1>6. err' \in [Proc -> BOOLEAN] /\ (err[p] => err'[p])
  BY <1>1, <1>4 DEF LabTypes
<1>7. LabTypes'
  <2>1. place' \in Proc \cup {NoOne} /\ leaked' \in BOOLEAN
    BY <1>1, <1>4 DEF LabTypes
  <2> QED BY <1>1, <1>3, <1>5, <1>6, <2>1 DEF LabTypes, boardvars, fifovars
<1>8. /\ \A o \in Proc \ {p} : phase'[o] = phase[o] /\ call'[o] = call[o] /\ acquired'[o] = acquired[o]
      /\ phase'[p] = "unlock" /\ ~acquired'[p] /\ call'[p] = NoCall
  <2>1. call[p] = NoCall
    BY <1>1 DEF Bench, SessionOf, Calling
  <2> QED BY <1>1, <1>3, <2>1 DEF LabTypes
<1>9. AccessOf(p)'
  BY <1>8, SafeCall
<1>10. SessionOf(p)'
  BY <1>2, <1>3, <1>8, LabFacts DEF SessionOf, Calling
<1>11. LeaseOf(p)' /\ Leased(p)' /\ EventsOf(p)'
  BY <1>8 DEF LeaseOf, Leased, EventsOf
<1>12. OutcomeOf(p)'
  BY <1>1, <1>3, <1>6, <1>8 DEF Bench, OutcomeOf, boardvars
<1>13. Attended'
  <2>1. ~(place' # NoOne /\ ~leaked')
    BY <1>2, <1>4 DEF BenchInv, Attended
  <2>2. Running' => failed'
    BY <1>1, <1>2, <1>3 DEF BenchInv, Attended, Away, Running, boardvars
  <2> QED BY <2>1, <2>2 DEF Attended
<1> QED BY <1>2, <1>3, <1>7, <1>8, <1>9, <1>10, <1>11, <1>12, <1>13, Moves DEF Bench

(* Giving up the ownership of the queued events keeps the queue.              *)
LEMMA Disowned ==
    ASSUME q \in Seq(Queued), Disown
    PROVE  q' \in Seq(Queued) /\ Len(q') = Len(q)
<1>1. q' = [i \in 1..Len(q) |-> [q[i] EXCEPT !.own = FALSE]]
  BY DEF Disown
<1>2. ASSUME NEW i \in 1..Len(q) PROVE [q[i] EXCEPT !.own = FALSE] \in Queued
  <2>1. q[i] \in Queued
    OBVIOUS
  <2> QED BY <2>1 DEF Queued
<1>3. Len(q) \in Nat /\ q' \in [1..Len(q) -> Queued]
  BY <1>1, <1>2
<1> QED BY <1>3

(* Unlock and the death of a process both leave the bench to nobody.          *)
LEMMA GoneStep ==
    ASSUME BenchInv, NEW p \in Proc, \A o \in Proc \ {p} : Away(o),
           lock' = NoOne, phase' = [phase EXCEPT ![p] = "idle"],
           call' \in [Proc -> CallType], call'[p] = NoCall,
           \A o \in Proc \ {p} : call'[o] = call[o] /\ acquired'[o] = acquired[o],
           plan' \in [Proc -> Seq(Int)], err' \in [Proc -> BOOLEAN],
           acquired' \in [Proc -> BOOLEAN], ~acquired'[p], Disown,
           UNCHANGED <<bench, place, control, external>>,
           ticks' \in Nat, pwm' \in [fall : Nat, rise : Nat, seq : Nat], pwm'.seq <= pwm'.rise /\ pwm'.rise <= pwm'.fall,
           failed' \in BOOLEAN, leaked' \in BOOLEAN,
           place # NoOne => leaked', Running => failed'
    PROVE  BenchInv'
<1>1. LabTypes
  BY DEF BenchInv
<1>2. "idle" \in Phases
  BY DEF Phases
<1>3. LabTypes'
  BY <1>1, <1>2, Disowned DEF LabTypes
<1>4. phase'[p] = "idle" /\ \A o \in Proc \ {p} : phase'[o] = phase[o]
  BY <1>1 DEF LabTypes
<1>5. AccessOf(p)'
  BY SafeCall
<1>6. SessionOf(p)'
  BY <1>4, LabFacts DEF SessionOf, Calling
<1>7. LeaseOf(p)' /\ Leased(p)' /\ EventsOf(p)' /\ OutcomeOf(p)'
  BY <1>4 DEF LeaseOf, Leased, EventsOf, OutcomeOf
<1>8. Attended'
  BY DEF Attended, Running
<1> QED BY <1>3, <1>4, <1>5, <1>6, <1>7, <1>8, Moves DEF Bench

LEMMA UnlockStep ==
    ASSUME BenchInv, NEW p \in Proc, Unlock(p)
    PROVE  BenchInv'
<1>1. LabTypes /\ Bench(p) /\ phase[p] = "unlock"
  BY DEF BenchInv, Unlock
<1>2. lock = p /\ \A o \in Proc \ {p} : Away(o)
  BY <1>1, Alone
<1>3. ~acquired[p] /\ call[p] = NoCall
  BY <1>1 DEF Bench, LeaseOf, Keeping, SessionOf, Calling
<1>4. (place # NoOne => leaked) /\ (Running => failed)
  BY <1>1, <1>2, <1>3 DEF BenchInv, Attended, Away
<1>5. NotLoaded \in Seq(Int)
  <2>1. -1 \in Int
    OBVIOUS
  <2> QED BY <2>1 DEF NotLoaded
<1>6. plan' \in [Proc -> Seq(Int)] /\ err' \in [Proc -> BOOLEAN]
  BY <1>1, <1>5 DEF Unlock, LabTypes
<1>7. /\ lock' = NoOne /\ phase' = [phase EXCEPT ![p] = "idle"] /\ Disown
      /\ UNCHANGED <<bench, place, acquired, call, control, external, ticks, pwm, failed, leaked>>
  BY DEF Unlock
<1>8. /\ call' \in [Proc -> CallType] /\ acquired' \in [Proc -> BOOLEAN]
      /\ ticks' \in Nat /\ pwm' \in [fall : Nat, rise : Nat, seq : Nat] /\ pwm'.seq <= pwm'.rise /\ pwm'.rise <= pwm'.fall
      /\ failed' \in BOOLEAN /\ leaked' \in BOOLEAN
  BY <1>1, <1>7 DEF LabTypes
<1> QED BY <1>2, <1>3, <1>4, <1>6, <1>7, <1>8, GoneStep

LEMMA DieStep ==
    ASSUME BenchInv, NEW p \in Proc, Die(p)
    PROVE  BenchInv'
<1>1. LabTypes /\ phase[p] # "idle"
  BY DEF BenchInv, Die
<1>2. \A o \in Proc \ {p} : Away(o)
  BY <1>1, Alone
<1>3. NotLoaded \in Seq(Int)
  <2>1. -1 \in Int
    OBVIOUS
  <2> QED BY <2>1 DEF NotLoaded
<1>4. /\ lock' = NoOne /\ phase' = [phase EXCEPT ![p] = "idle"] /\ Disown
      /\ call' = [call EXCEPT ![p] = NoCall] /\ plan' = [plan EXCEPT ![p] = NotLoaded]
      /\ err' = [err EXCEPT ![p] = FALSE] /\ acquired' = [acquired EXCEPT ![p] = FALSE]
      /\ failed' = TRUE /\ leaked' = TRUE /\ ticks' = 0 /\ pwm' = [fall |-> 0, rise |-> 0, seq |-> 0]
      /\ UNCHANGED <<bench, place, control, external>>
  BY DEF Die, Unread
<1>5. /\ call' \in [Proc -> CallType] /\ acquired' \in [Proc -> BOOLEAN]
      /\ plan' \in [Proc -> Seq(Int)] /\ err' \in [Proc -> BOOLEAN]
  BY <1>1, <1>3, <1>4, LabFacts DEF LabTypes
<1>6. /\ call'[p] = NoCall /\ ~acquired'[p]
      /\ \A o \in Proc \ {p} : call'[o] = call[o] /\ acquired'[o] = acquired[o]
  BY <1>1, <1>4 DEF LabTypes
<1>7. ticks' \in Nat /\ pwm' \in [fall : Nat, rise : Nat, seq : Nat] /\ pwm'.seq <= pwm'.rise /\ pwm'.rise <= pwm'.fall
  BY <1>4
<1> QED BY <1>2, <1>4, <1>5, <1>6, <1>7, GoneStep

LEMMA InterruptStep ==
    ASSUME BenchInv, NEW p \in Proc, Interrupt(p)
    PROVE  BenchInv'
<1>1. LabTypes /\ Bench(p) /\ phase[p] \notin {"idle", "unlock", "aborted"}
  BY DEF BenchInv, Interrupt
<1>2. lock = p /\ \A o \in Proc \ {p} : Away(o)
  BY <1>1, Alone
<1>3. phase[p] \in {"lease", "enter", "body", "exit", "release", "undo"}
  BY <1>1 DEF LabTypes, Phases
<1>4. /\ err' = [err EXCEPT ![p] = TRUE] /\ failed' = (failed \/ phase[p] = "exit")
      /\ call' = [call EXCEPT ![p] = IF phase[p] = "body" THEN force_safe ELSE NoCall]
      /\ acquired' = [acquired EXCEPT ![p] = @ /\ phase[p] \notin {"undo", "release"}]
      /\ leaked' = (leaked \/ phase[p] \in {"lease", "undo", "release"})
      /\ ticks' = 0 /\ pwm' = [fall |-> 0, rise |-> 0, seq |-> 0]
      /\ UNCHANGED <<bench, lock, plan, control, external, fifovars>>
  BY DEF Interrupt, Unread
<1>5. /\ phase'[p] = CASE phase[p] \in {"lease", "enter", "undo"} -> "aborted"
                       [] phase[p] = "body"    -> "exit"
                       [] phase[p] = "exit"    -> IfLeased("release")
                       [] phase[p] = "release" -> "unlock"
      /\ \A o \in Proc \ {p} : phase'[o] = phase[o]
  BY <1>1 DEF Interrupt, LabTypes
<1>6. IfLeased("release") = IF bench.lease THEN "release" ELSE "unlock"
  BY DEF IfLeased
<1>7. /\ phase[p] \in {"lease", "enter", "undo"} => phase'[p] = "aborted"
      /\ phase[p] = "body" => phase'[p] = "exit"
      /\ phase[p] = "exit" => phase'[p] = IF bench.lease THEN "release" ELSE "unlock"
      /\ phase[p] = "release" => phase'[p] = "unlock"
  BY <1>5, <1>6
<1>8. phase' \in [Proc -> Phases]
  <2>1. phase'[p] \in Phases
    BY <1>3, <1>7 DEF Phases
  <2>2. \E ph : phase' = [phase EXCEPT ![p] = ph]
    BY DEF Interrupt
  <2> QED BY <1>1, <2>1, <2>2 DEF LabTypes
<1>9. place' \in {place, p, NoOne} /\ (phase[p] \in {"enter", "body", "exit"} => place' = place)
  BY DEF Interrupt
<1>10. /\ \A o \in Proc \ {p} : call'[o] = call[o] /\ acquired'[o] = acquired[o]
       /\ call'[p] = IF phase[p] = "body" THEN force_safe ELSE NoCall
       /\ acquired'[p] = (acquired[p] /\ phase[p] \notin {"undo", "release"}) /\ err'[p]
  BY <1>1, <1>4 DEF LabTypes
<1>11. LabTypes'
  <2>1. place' \in Proc \cup {NoOne} /\ leaked' \in BOOLEAN /\ failed' \in BOOLEAN
    BY <1>1, <1>4, <1>9 DEF LabTypes
  <2>2. call' \in [Proc -> CallType] /\ acquired' \in [Proc -> BOOLEAN] /\ err' \in [Proc -> BOOLEAN]
    BY <1>1, <1>4, LabFacts, ForceSafeFacts DEF LabTypes
  <2>3. ticks' \in Nat /\ pwm' \in [fall : Nat, rise : Nat, seq : Nat] /\ pwm'.seq <= pwm'.rise /\ pwm'.rise <= pwm'.fall
    BY <1>4
  <2> QED BY <1>1, <1>4, <1>8, <2>1, <2>2, <2>3 DEF LabTypes, fifovars
<1>12. AccessOf(p)'
  BY <1>10, SafeCall
<1>13. SessionOf(p)'
  BY <1>2, <1>3, <1>4, <1>7, <1>10, LabFacts, ForceSafeFacts DEF SessionOf, Calling
<1>14. LeaseOf(p)' /\ Leased(p)'
  BY <1>1, <1>3, <1>4, <1>7, <1>10 DEF Bench, LeaseOf, Leased, Keeping
<1>15. OutcomeOf(p)' /\ EventsOf(p)'
  BY <1>3, <1>7, <1>10 DEF OutcomeOf, EventsOf
<1>16. Attended'
  <2>1. ASSUME place' # NoOne, ~leaked' PROVE acquired'[p]
    <3>1. phase[p] \in {"enter", "body", "exit"} /\ ~leaked
      BY <2>1, <1>3, <1>4
    <3>2. acquired[p]
      BY <3>1, <2>1, <1>2, <1>9 DEF BenchInv, Attended
    <3> QED BY <3>1, <3>2, <1>10
  <2>2. ASSUME Running' PROVE failed' \/ phase'[p] \in {"body", "exit"}
    BY <1>2, <1>4, <1>7, <2>2 DEF BenchInv, Attended, Away, Running
  <2> QED BY <1>2, <1>4, <2>1, <2>2 DEF Attended
<1> QED BY <1>2, <1>4, <1>5, <1>10, <1>11, <1>12, <1>13, <1>14, <1>15, <1>16, Moves DEF Bench

(* The test: it starts a method, or goes to the final FORCE_SAFE.             *)
LEMMA CallStep ==
    ASSUME BenchInv, NEW p \in Proc, InBody(p),
           NEW ph \in {"body", "exit"}, NEW c \in CallType,
           c.got = <<>>, c.tries = 0, c.m = "none" => c = NoCall /\ ph = "body",
           ph = "exit" => c.m = "force_safe", c.m = "schedule_dio" => plan'[p] # <<>>,
           phase' = [phase EXCEPT ![p] = ph], call' = [call EXCEPT ![p] = c],
           plan' \in [Proc -> Seq(Int)], ticks' \in Nat,
           UNCHANGED <<bench, lock, place, err, acquired, control, external, fifovars, pwm,
                       failed, leaked>>
    PROVE  BenchInv'
<1>1. LabTypes /\ Bench(p) /\ phase[p] = "body"
  BY DEF BenchInv, InBody
<1>2. lock = p /\ \A o \in Proc \ {p} : Away(o)
  BY <1>1, Alone
<1>3. ph \in Phases
  BY DEF Phases
<1>4. LabTypes'
  BY <1>1, <1>3 DEF LabTypes, fifovars
<1>5. /\ \A o \in Proc \ {p} : phase'[o] = phase[o] /\ call'[o] = call[o] /\ acquired'[o] = acquired[o]
      /\ phase'[p] = ph /\ call'[p] = c
  BY <1>1 DEF LabTypes
<1>6. AccessOf(p)'
  BY <1>5, LabFacts, FreshCall
<1>7. SessionOf(p)'
  BY <1>2, <1>5 DEF SessionOf, Calling
<1>8. LeaseOf(p)' /\ Leased(p)' /\ OutcomeOf(p)' /\ EventsOf(p)'
  BY <1>1, <1>5 DEF Bench, LeaseOf, Leased, OutcomeOf, EventsOf, Keeping, fifovars
<1>9. Attended'
  BY <1>1, <1>2, <1>5 DEF BenchInv, Attended, Running
<1> QED BY <1>2, <1>4, <1>5, <1>6, <1>7, <1>8, <1>9, Moves DEF Bench

LEMMA TestStep ==
    ASSUME BenchInv, NEW p \in Proc, Test(p)
    PROVE  BenchInv'
<1>t. LabTypes
  BY DEF BenchInv
<1>1. CASE Enter(p)
  BY <1>1, EnterStep
<1>2. CASE Load(p)
  <2>1. InBody(p) /\ UNCHANGED <<bench, lock, place, acquired, control, external, fifovars, leaked>>
    BY <1>2 DEF Load
  <2>2. CASE /\ \E d \in Documents : scenario_from_dict(d) /\ plan' = [plan EXCEPT ![p] = d.steps]
             /\ UNCHANGED <<phase, call, err, failed, ticks, pwm>>
    <3>1. PICK d \in Documents : plan' = [plan EXCEPT ![p] = d.steps]
      BY <2>2
    <3>2. d.steps \in Seq(Int)
      BY DEF Documents
    <3>3. plan' \in [Proc -> Seq(Int)]
      BY <3>1, <3>2, <1>t DEF LabTypes
    <3>4. phase' = [phase EXCEPT ![p] = "body"] /\ call' = [call EXCEPT ![p] = NoCall]
      BY <2>1, <2>2, <1>t DEF LabTypes, InBody
    <3>5. NoCall \in CallType /\ NoCall.got = <<>> /\ NoCall.tries = 0 /\ NoCall.m = "none"
      BY LabFacts DEF NoCall
    <3>6. ticks' \in Nat
      BY <2>2, <1>t DEF LabTypes
    <3> QED BY <2>1, <2>2, <3>3, <3>4, <3>5, <3>6, CallStep
  <2>3. CASE Raise(p) /\ UNCHANGED plan
    BY <2>1, <2>3, <1>t, RaiseStep DEF InBody, Calling, LabTypes
  <2> QED BY <1>2, <2>2, <2>3 DEF Load
<1>3. CASE \E m \in Methods : Start(p, m)
  <2>1. PICK m \in Methods : Start(p, m)
    BY <1>3
  <2>2. ticks' \in Nat
    BY <2>1, LabFacts DEF Start
  <2>3. /\ NewCall(m, ticks') \in CallType /\ NewCall(m, ticks').m = m
        /\ NewCall(m, ticks').got = <<>> /\ NewCall(m, ticks').tries = 0
    BY <2>2, NewCallFacts
  <2>4. /\ phase' = [phase EXCEPT ![p] = "body"] /\ call' = [call EXCEPT ![p] = NewCall(m, ticks')]
        /\ InBody(p) /\ plan' \in [Proc -> Seq(Int)]
        /\ UNCHANGED <<bench, lock, place, err, acquired, control, external, fifovars, pwm,
                       failed, leaked>>
    BY <2>1, <1>t DEF Start, LabTypes, InBody
  <2>5. m # "none" /\ (m = "schedule_dio" => plan'[p] # <<>>)
    BY <2>1 DEF Methods, Start
  <2> QED BY <2>2, <2>3, <2>4, <2>5, CallStep
<1>4. CASE TestFails(p)
  BY <1>4, <1>t, RaiseStep DEF TestFails, InBody, Calling, LabTypes
<1>5. CASE Finish(p)
  <2>1. /\ InBody(p) /\ phase' = [phase EXCEPT ![p] = "exit"]
        /\ call' = [call EXCEPT ![p] = force_safe] /\ plan' \in [Proc -> Seq(Int)] /\ ticks' \in Nat
        /\ UNCHANGED <<bench, lock, place, err, acquired, control, external, fifovars, pwm,
                       failed, leaked>>
    BY <1>5, <1>t DEF Finish, Leave, boardvars, LabTypes
  <2> QED BY <2>1, ForceSafeFacts, CallStep
<1> QED BY <1>1, <1>2, <1>3, <1>4, <1>5 DEF Test

(* The board and the operator, while no process moves.                        *)
LEMMA BoardStep ==
    ASSUME BenchInv,
           UNCHANGED <<bench, lock, procvars, control, failed>>,
           UNCHANGED <<place, leaked>> \/ (lock = NoOne /\ place' = NoOne /\ leaked' = FALSE),
           external' \in BOOLEAN, q' \in Seq(Queued), Len(q') <= Depth,
           \A i \in 1..Len(q') : \E j \in 1..Len(q) : q'[i] = q[j],
           ticks' \in Nat, pwm' \in [fall : Nat, rise : Nat, seq : Nat], pwm'.seq <= pwm'.rise /\ pwm'.rise <= pwm'.fall
    PROVE  BenchInv'
<1>1. LabTypes'
  BY DEF BenchInv, LabTypes, procvars
<1>2. ASSUME NEW p \in Proc PROVE Bench(p)'
  <2>1. SessionOf(p)' /\ LeaseOf(p)' /\ Leased(p)' /\ OutcomeOf(p)'
    BY DEF BenchInv, Bench, SessionOf, LeaseOf, Leased, OutcomeOf, procvars
  <2>2. AccessOf(p)'
    <3>1. UNCHANGED <<call, plan, control>> /\ AccessOf(p)
      BY DEF BenchInv, Bench, procvars
    <3> QED BY <3>1 DEF AccessOf, Register, Here, LastRead
  <2>3. EventsOf(p)'
    BY DEF BenchInv, Bench, EventsOf, procvars
  <2> QED BY <2>1, <2>2, <2>3 DEF Bench
<1>3. Attended'
  BY DEF BenchInv, Attended, Running, procvars
<1> QED BY <1>1, <1>2, <1>3 DEF BenchInv

(* The counter in two words.                                                  *)
LEMMA Division ==
    ASSUME NEW t \in Int, NEW b \in Int, b >= 1
    PROVE  t = b * (t \div b) + (t % b)
OBVIOUS

LEMMA WordsOf ==
    ASSUME NEW t \in Nat, NEW b \in Nat, b >= 1
    PROVE  t \div b \in Nat /\ t % b \in Nat
OBVIOUS

LEMMA HighWordGrows ==
    ASSUME NEW t \in Nat, NEW u \in Nat, NEW b \in Nat, b >= 1, t <= u
    PROVE  t \div b <= u \div b
OBVIOUS

(* What the accesses read: register values.                                   *)
LEMMA ReadType ==
    ASSUME LabTypes, NEW r
    PROVE  read32(r) \in Values
<1>1. control \cup (IF external THEN {"safe"} ELSE {}) \in SUBSET Bits
  <2>1. "safe" \in Bits /\ control \subseteq Bits
    BY DEF LabTypes, Bits
  <2> QED BY <2>1
<1>2. ticks \div LoSize \in Nat /\ ticks % LoSize \in Nat
  <2>1. ticks \in Nat
    BY DEF LabTypes
  <2> QED BY <2>1, WordsOf, LabFacts
<1>3. Len(q) \in Nat /\ pwm.seq \in Nat /\ pwm.rise \in Nat /\ pwm.fall \in Nat
  BY DEF LabTypes
<1>4. read32(r) \in SUBSET Bits \/ read32(r) \in Nat
  BY <1>1, <1>2, <1>3 DEF read32
<1> QED BY <1>4 DEF Values

(* The read-modify-writes of CONTROL; all but two of them keep FORCE_SAFE.     *)
LEMMA ControlAfterFacts ==
    ASSUME NEW m \in ControlMethods, NEW v \in SUBSET Bits
    PROVE  /\ ControlAfter(m, v) \subseteq Bits \ {"clear"}
           /\ m = "force_safe" => "safe" \in ControlAfter(m, v)
           /\ m \notin {"start_abz", "release_safe"} /\ "safe" \in v => "safe" \in ControlAfter(m, v)
<1>1. /\ Sets[m] \subseteq Bits /\ (m = "force_safe" => "safe" \in Sets[m])
      /\ m \notin {"start_abz", "release_safe"} => "safe" \notin Clears[m]
  BY DEF Sets, Clears, ControlMethods, Bits
<1>2. m = "force_safe" => "safe" \notin Clears[m]
  BY DEF Clears
<1> QED BY <1>1, <1>2 DEF ControlAfter, Bits

(* One push appends its event, unless the board is safe or refuses it.        *)
LEMMA PushFacts ==
    ASSUME q \in Seq(Queued), Len(q) <= Depth, NEW e \in Queued, Push(e)
    PROVE  /\ q' \in Seq(Queued) /\ Len(q') <= Depth
           /\ q' = <<>> \/ q' = q \/ q' = Append(q, e)
<1>1. CASE Safe
  <2>1. q' = <<>>
    BY <1>1 DEF Push, NoEvents
  <2> QED BY <2>1, LabFacts
<1>2. CASE ~Safe
  <2>1. Fifo!Serve(FALSE, {e}, FALSE)
    BY <1>2 DEF Push
  <2>2. (q' = Append(q, e) /\ Len(q) < Depth) \/ q' = q
    BY <2>1 DEF Fifo!Serve, Fifo!Fits
  <2> QED BY <2>2, LabFacts
<1> QED BY <1>1, <1>2

(* A method under way belongs to the session that holds the lock.             *)
LEMMA Under ==
    ASSUME BenchInv, NEW p \in Proc, call[p].m \in Methods
    PROVE  /\ phase[p] \in Calling /\ lock = p /\ \A o \in Proc \ {p} : Away(o)
           /\ call[p] \in CallType /\ Len(call[p].got) \in Nat /\ Here(p) = Len(call[p].got) + 1
           /\ Here(p) \in 1..Len(Accesses(call[p].m)) /\ call[p].tries < MaxTries
           /\ Register(p) = Accesses(call[p].m)[Here(p)]
<1>1. LabTypes /\ Bench(p)
  BY DEF BenchInv
<1>2. call[p].m # "none"
  BY DEF Methods
<1>3. phase[p] \in Calling
  BY <1>1, <1>2 DEF Bench, SessionOf
<1>4. call[p] \in CallType
  BY <1>1 DEF LabTypes
<1>5. call[p].got \in Seq(Values)
  BY <1>4 DEF CallType
<1>6. Len(call[p].got) \in Nat
  BY <1>5
<1>7. Here(p) <= Len(Accesses(call[p].m)) /\ call[p].tries < MaxTries
  BY <1>1 DEF Bench, AccessOf
<1>8. Len(Accesses(call[p].m)) \in Nat
  BY AccessTable
<1> QED BY <1>2, <1>3, <1>4, <1>6, <1>7, <1>8, Alone DEF Here, Register

(* What one register access does to the board and to the scenario.            *)
LEMMA AccessBoard ==
    ASSUME BenchInv, NEW p \in Proc, Access(p)
    PROVE  /\ control' \subseteq Bits /\ q' \in Seq(Queued) /\ Len(q') <= Depth
           /\ plan' \in [Proc -> Seq(Int)]
           /\ (\A i \in 1..Len(q) : q[i].own) => \A i \in 1..Len(q') : q'[i].own
           /\ Register(p) # "CONTROL:=" => UNCHANGED control
           /\ Register(p) \notin {"CONTROL:=", "EVT_PUSH:="} => UNCHANGED <<fifovars, plan>>
           /\ Register(p) = "CONTROL:=" /\ call[p].m = "force_safe" => "safe" \in control' /\ q' = <<>>
           /\ "safe" \in control /\ call[p].m \notin {"start_abz", "release_safe"} => "safe" \in control'
<1> DEFINE m == call[p].m
<1>1. LabTypes /\ Bench(p) /\ m \in Methods
  BY DEF BenchInv, Access
<1>2. Here(p) \in 1..Len(Accesses(m)) /\ Len(call[p].got) = Here(p) - 1 /\ Register(p) = Accesses(m)[Here(p)]
  BY <1>1, Under
<1>3. /\ CASE Register(p) = "CONTROL:="  -> WriteControl(ControlAfter(m, call[p].got[Here(p) - 1]))
           [] Register(p) = "EVT_PUSH:=" -> Push([ts |-> Head(plan[p]), own |-> TRUE]) /\ UNCHANGED control
           [] OTHER -> UNCHANGED <<control, fifovars>>
      /\ plan' = IF Register(p) = "EVT_PUSH:=" THEN [plan EXCEPT ![p] = Tail(@)] ELSE plan
  BY DEF Access, Here, Register
<1>4. CASE Register(p) = "CONTROL:="
  <2>1. m \in ControlMethods
    <3>1. \A i \in 1..Len(Accesses(m)) : Accesses(m)[i] = "CONTROL:=" => m \in ControlMethods
      BY <1>1, AccessTable
    <3> QED BY <3>1, <1>2, <1>4
  <2>2. LastRead(p) \in SUBSET Bits /\ control \subseteq LastRead(p)
    BY <1>1, <1>4 DEF Bench, AccessOf
  <2>3. WriteControl(ControlAfter(m, LastRead(p))) /\ plan' = plan
    <3>1. call[p].got[Here(p) - 1] = LastRead(p)
      BY <1>2 DEF LastRead
    <3> QED BY <3>1, <1>3, <1>4
  <2>4. control' = ControlAfter(m, LastRead(p))
    BY <2>1, <2>2, <2>3, ControlAfterFacts DEF WriteControl
  <2>5. q' = <<>> \/ q' = q
    BY <2>3 DEF WriteControl, NoEvents, fifovars
  <2>6. q' \in Seq(Queued) /\ Len(q') <= Depth
    <3>1. q \in Seq(Queued) /\ Len(q) <= Depth
      BY <1>1 DEF LabTypes
    <3>2. CASE q' = <<>>
      BY <3>2, LabFacts
    <3>3. CASE q' = q
      BY <3>1, <3>3
    <3> QED BY <2>5, <3>2, <3>3
  <2>7. (\A i \in 1..Len(q) : q[i].own) => \A i \in 1..Len(q') : q'[i].own
    BY <2>5
  <2>8. m = "force_safe" => "safe" \in control' /\ q' = <<>>
    BY <2>1, <2>2, <2>3, <2>4, ControlAfterFacts DEF WriteControl, NoEvents
  <2>9. "safe" \in control /\ m \notin {"start_abz", "release_safe"} => "safe" \in control'
    BY <2>1, <2>2, <2>4, ControlAfterFacts
  <2> QED BY <1>1, <1>4, <2>1, <2>2, <2>3, <2>4, <2>6, <2>7, <2>8, <2>9, ControlAfterFacts DEF LabTypes
<1>5. CASE Register(p) = "EVT_PUSH:="
  <2>1. m = "schedule_dio"
    BY <1>1, <1>2, <1>5, AccessTable
  <2>2. plan[p] \in Seq(Int) /\ plan[p] # <<>>
    BY <1>1, <2>1 DEF LabTypes, Bench, AccessOf
  <2>3. Head(plan[p]) \in Int /\ Tail(plan[p]) \in Seq(Int)
    BY <2>2
  <2> DEFINE e == [ts |-> Head(plan[p]), own |-> TRUE]
  <2>4. e \in Queued /\ e.own
    BY <2>3 DEF Queued
  <2>5. Push(e) /\ control' = control /\ plan' = [plan EXCEPT ![p] = Tail(@)]
    BY <1>3, <1>5
  <2> HIDE DEF e
  <2>6. /\ q' \in Seq(Queued) /\ Len(q') <= Depth
        /\ q' = <<>> \/ q' = q \/ q' = Append(q, e)
    BY <1>1, <2>4, <2>5, PushFacts DEF LabTypes
  <2>7. (\A i \in 1..Len(q) : q[i].own) => \A i \in 1..Len(q') : q'[i].own
    <3>1. q \in Seq(Queued)
      BY <1>1 DEF LabTypes
    <3>2. CASE q' = Append(q, e)
      <4>1. /\ Len(q') = Len(q) + 1 /\ q'[Len(q) + 1] = e
            /\ \A i \in 1..Len(q) : q'[i] = q[i]
        BY <3>1, <3>2
      <4> QED BY <4>1, <3>1, <2>4
    <3> QED BY <2>6, <3>2
  <2>8. plan' \in [Proc -> Seq(Int)]
    BY <1>1, <2>3, <2>5 DEF LabTypes
  <2> QED BY <1>1, <1>5, <2>5, <2>6, <2>7, <2>8 DEF LabTypes
<1>6. CASE Register(p) \notin {"CONTROL:=", "EVT_PUSH:="}
  <2>1. UNCHANGED <<control, fifovars, plan>>
    BY <1>3, <1>6
  <2> QED BY <1>1, <1>6, <2>1 DEF LabTypes, fifovars
<1> QED BY <1>4, <1>5, <1>6

(* How an access goes on: the method raises, reads on, starts over or returns. *)
Next32(p) == Append(call[p].got, read32(Register(p)))
LEMMA AccessCases ==
    ASSUME BenchInv, NEW p \in Proc, Access(p)
    PROVE  \/ /\ Raise(p) /\ UNCHANGED <<control, fifovars, plan, returned>>
           \/ /\ Here(p) < Len(Accesses(call[p].m)) /\ ~Full(call[p], Register(p))
              /\ call' = [call EXCEPT ![p].got = Next32(p)]
              /\ UNCHANGED <<phase, err, failed, ticks, pwm, returned>>
           \/ /\ call[p].m = "read_timestamp" /\ call[p].tries + 1 < MaxTries
              /\ call' = [call EXCEPT ![p].got = <<>>, ![p].tries = @ + 1]
              /\ UNCHANGED <<phase, err, failed, ticks, pwm, returned>>
           \/ /\ Here(p) = Len(Accesses(call[p].m)) /\ ~Unstable(call[p], Next32(p))
              /\ Continue(p)
              /\ returned' = IF phase[p] = "body" THEN Answer(call[p], Next32(p)) ELSE None
<1> DEFINE c == call[p]
           r == Register(p)
           last == Here(p) = Len(Accesses(c.m))
<1>1. LabTypes /\ c.m \in Methods
  BY DEF BenchInv, Access
<1>2. /\ Here(p) \in 1..Len(Accesses(c.m)) /\ c.tries < MaxTries /\ r = Accesses(c.m)[Here(p)]
      /\ Len(Accesses(c.m)) \in Nat /\ c \in CallType
  BY <1>1, Under, AccessTable
<1>3. (CASE Full(c, r) -> Raise(p) /\ UNCHANGED returned
        [] ~last /\ ~Full(c, r) ->
             /\ call' = [call EXCEPT ![p].got = Next32(p)]
             /\ UNCHANGED <<phase, err, failed, ticks, pwm, returned>>
        [] last /\ Unstable(c, Next32(p)) /\ c.tries + 1 < MaxTries ->
             /\ call' = [call EXCEPT ![p].got = <<>>, ![p].tries = @ + 1]
             /\ UNCHANGED <<phase, err, failed, ticks, pwm, returned>>
        [] last /\ Unstable(c, Next32(p)) /\ c.tries + 1 = MaxTries -> Raise(p) /\ UNCHANGED returned
        [] OTHER -> /\ Continue(p)
                    /\ returned' = IF phase[p] = "body" THEN Answer(c, Next32(p)) ELSE None)
  BY DEF Access, Here, Register, Next32
<1>4. Full(c, r) => r = "EVT_STATUS" /\ ~last
  <2>1. ASSUME Full(c, r), last PROVE FALSE
    <3>1. c.m = "schedule_dio" /\ r = "EVT_STATUS"
      BY <2>1 DEF Full
    <3>2. Accesses(c.m) = <<"EVT_STATUS", "EVT_STAGE:=", "EVT_PUSH:=">>
      BY <3>1, <1>1, AccessTable
    <3> QED BY <3>1, <3>2, <2>1, <1>2
  <2> QED BY <2>1 DEF Full
<1>5. last /\ Unstable(c, Next32(p)) => c.m = "read_timestamp" /\ r = "TIMESTAMP_HI"
  <2>1. ASSUME last, Unstable(c, Next32(p)) PROVE c.m = "read_timestamp" /\ r = "TIMESTAMP_HI"
    <3>1. c.m = "read_timestamp"
      BY <2>1 DEF Unstable
    <3>2. /\ Len(Accesses(c.m)) = 3 /\ Accesses(c.m)[1] = "TIMESTAMP_HI"
          /\ Accesses(c.m)[2] = "TIMESTAMP_LO" /\ Accesses(c.m)[3] = "TIMESTAMP_HI"
      BY <3>1, <1>1, AccessTable
    <3> QED BY <3>1, <3>2, <2>1, <1>2
  <2> QED BY <2>1
<1>6. r \in {"EVT_STATUS", "TIMESTAMP_HI"} => UNCHANGED <<control, fifovars, plan>>
  BY AccessBoard DEF Access
<1>7. c.tries \in Nat
  BY <1>2 DEF CallType
<1>8. ~last <=> Here(p) < Len(Accesses(c.m))
  BY <1>2
<1>9. c.tries + 1 < MaxTries \/ c.tries + 1 = MaxTries
  BY <1>2, <1>7, LabFacts
<1> HIDE DEF c, r, last
<1>10. CASE Full(c, r)
  <2>1. Raise(p) /\ UNCHANGED returned
    BY <1>3, <1>4, <1>10
  <2> QED BY <2>1, <1>4, <1>6, <1>10
<1>11. CASE ~last /\ ~Full(c, r)
  BY <1>3, <1>8, <1>11 DEF c, r
<1>12. CASE last /\ Unstable(c, Next32(p))
  <2>1. ~Full(c, r)
    BY <1>4, <1>12
  <2>2. CASE c.tries + 1 < MaxTries
    <3>1. /\ call' = [call EXCEPT ![p].got = <<>>, ![p].tries = @ + 1]
          /\ UNCHANGED <<phase, err, failed, ticks, pwm, returned>>
      BY <1>3, <1>12, <2>1, <2>2, <1>7, LabFacts
    <3> QED BY <3>1, <1>5, <1>12, <2>2 DEF c
  <2>3. CASE c.tries + 1 = MaxTries
    <3>1. Raise(p) /\ UNCHANGED returned
      BY <1>3, <1>12, <2>1, <2>3, <1>7, LabFacts
    <3> QED BY <3>1, <1>5, <1>6, <1>12
  <2> QED BY <1>9, <2>2, <2>3
<1>13. CASE last /\ ~Unstable(c, Next32(p))
  <2>1. ~Full(c, r)
    BY <1>4, <1>13
  <2> QED BY <1>3, <1>13, <2>1 DEF c, last
<1> QED BY <1>10, <1>11, <1>12, <1>13

(* A method that returns takes a session out of __enter__, or on to giving     *)
(* back; FORCE_SAFE, the only method of both phases, has then been written.    *)
LEMMA ContinueFacts ==
    ASSUME LabTypes, NEW p \in Proc, phase[p] \in Calling, Continue(p)
    PROVE  /\ phase' \in [Proc -> Phases] /\ call' \in [Proc -> CallType] /\ call'[p] = NoCall
           /\ failed' = (failed /\ phase[p] = "body") /\ err' = err
           /\ \A o \in Proc \ {p} : phase'[o] = phase[o] /\ call'[o] = call[o]
           /\ phase[p] \in {"enter", "body"} => phase'[p] = "body"
           /\ phase[p] = "exit" => phase'[p] = IF bench.lease THEN "release" ELSE "unlock"
           /\ ticks' = 0 /\ pwm' = [fall |-> 0, rise |-> 0, seq |-> 0]
<1>1. IfLeased("release") = IF bench.lease THEN "release" ELSE "unlock"
  BY DEF IfLeased
<1>2. /\ phase' = [phase EXCEPT ![p] = CASE phase[p] = "enter" -> "body"
                                         [] phase[p] = "body"  -> "body"
                                         [] phase[p] = "exit"  -> IfLeased("release")]
      /\ call' = [call EXCEPT ![p] = NoCall] /\ failed' = (failed /\ phase[p] = "body")
      /\ err' = err /\ ticks' = 0 /\ pwm' = [fall |-> 0, rise |-> 0, seq |-> 0]
  BY DEF Continue, Unread, LabTypes
<1>3. /\ phase[p] \in {"enter", "body"} => phase'[p] = "body"
      /\ phase[p] = "exit" => phase'[p] = IF bench.lease THEN "release" ELSE "unlock"
      /\ \A o \in Proc \ {p} : phase'[o] = phase[o] /\ call'[o] = call[o]
      /\ call'[p] = NoCall
  BY <1>1, <1>2 DEF LabTypes
<1>4. phase'[p] \in Phases
  BY <1>3 DEF Calling, Phases
<1>5. phase' \in [Proc -> Phases]
  BY <1>2, <1>4 DEF LabTypes
<1>6. call' \in [Proc -> CallType]
  BY <1>2, LabFacts DEF LabTypes
<1> QED BY <1>2, <1>3, <1>5, <1>6

LEMMA AccessStep ==
    ASSUME BenchInv, NEW p \in Proc, Access(p)
    PROVE  BenchInv'
<1> DEFINE m == call[p].m
<1>1. LabTypes /\ Bench(p) /\ m \in Methods
  BY DEF BenchInv, Access
<1>2. UNCHANGED <<bench, lock, place, acquired, external, leaked>>
  BY DEF Access
<1>3. /\ phase[p] \in Calling /\ lock = p /\ \A o \in Proc \ {p} : Away(o)
      /\ call[p] \in CallType /\ Len(call[p].got) \in Nat /\ Here(p) = Len(call[p].got) + 1
      /\ Here(p) \in 1..Len(Accesses(m)) /\ call[p].tries < MaxTries
      /\ Register(p) = Accesses(m)[Here(p)]
  BY <1>1, Under
<1>4. CASE Raise(p) /\ UNCHANGED <<control, fifovars, plan, returned>>
  BY <1>1, <1>2, <1>3, <1>4, RaiseStep DEF LabTypes
<1>5. CASE /\ Here(p) < Len(Accesses(m))
           /\ call' = [call EXCEPT ![p].got = Next32(p)]
           /\ UNCHANGED <<phase, err, failed, ticks, pwm, returned>>
  <2>1. \A i \in 1..Len(Accesses(m)) :
           /\ Accesses(m)[i] \in {"CONTROL:=", "EVT_PUSH:="} => i = Len(Accesses(m))
           /\ Accesses(m)[i] = "CONTROL:=" => Accesses(m)[i - 1] = "CONTROL"
    BY <1>1, AccessTable
  <2>a. Register(p) \notin {"CONTROL:=", "EVT_PUSH:="}
    BY <1>3, <1>5, <2>1
  <2>2. UNCHANGED <<control, fifovars, plan>>
    BY <2>a, AccessBoard
  <2>3. call[p].got \in Seq(Values) /\ read32(Register(p)) \in Values
    BY <1>1, <1>3, ReadType DEF CallType
  <2>4. /\ Next32(p) \in Seq(Values) /\ Len(Next32(p)) = Len(call[p].got) + 1
        /\ Next32(p)[Len(call[p].got) + 1] = read32(Register(p))
    BY <2>3 DEF Next32
  <2>5. call' = [call EXCEPT ![p] = [call[p] EXCEPT !.got = Next32(p)]]
    BY <1>5
  <2> DEFINE new == [call[p] EXCEPT !.got = Next32(p)]
  <2>6. /\ new \in CallType /\ new.m = m /\ new.tries = call[p].tries /\ new.got = Next32(p)
    BY <1>3, <2>4 DEF CallType
  <2>7. call'[p] = new /\ \A o \in Proc \ {p} : call'[o] = call[o]
    BY <1>1, <2>5 DEF LabTypes
  <2> HIDE DEF new
  <2>8. call' \in [Proc -> CallType]
    BY <1>1, <2>5, <2>6 DEF LabTypes, new
  <2>9. LabTypes'
    BY <1>1, <1>2, <1>5, <2>2, <2>8 DEF LabTypes, fifovars
  <2>10. SessionOf(p)'
    BY <1>1, <1>2, <1>5, <2>6, <2>7 DEF Bench, SessionOf, Methods
  <2>11. LeaseOf(p)' /\ Leased(p)' /\ OutcomeOf(p)' /\ EventsOf(p)'
    BY <1>1, <1>2, <1>5, <2>2 DEF Bench, LeaseOf, Leased, OutcomeOf, EventsOf, fifovars
  <2>12. AccessOf(p)'
    <3>1. Here(p)' = Here(p) + 1 /\ Here(p)' <= Len(Accesses(m)) /\ Here(p)' \in 1..Len(Accesses(m))
      BY <1>3, <1>5, <2>4, <2>6, <2>7 DEF Here
    <3>2. Register(p)' = Accesses(m)[Here(p) + 1] /\ LastRead(p)' = read32(Register(p))
      BY <1>3, <2>4, <2>6, <2>7, <3>1 DEF Register, Here, LastRead
    <3>3. ASSUME Register(p)' = "CONTROL:=" PROVE LastRead(p)' \subseteq Bits /\ control' \subseteq LastRead(p)'
      <4>1. Accesses(m)[(Here(p) + 1) - 1] = "CONTROL"
        BY <2>1, <3>1, <3>2, <3>3
      <4>2. Register(p) = "CONTROL"
        <5>1. (Here(p) + 1) - 1 = Here(p)
          BY <1>3
        <5> QED BY <1>3, <4>1, <5>1
      <4>3. LastRead(p)' = control \cup (IF external THEN {"safe"} ELSE {})
        BY <3>2, <4>2 DEF read32
      <4>4. control \subseteq Bits /\ "safe" \in Bits /\ control' = control
        BY <1>1, <2>2 DEF LabTypes, Bits
      <4> QED BY <4>3, <4>4
    <3>4. m = "schedule_dio" => plan'[p] # <<>>
      BY <1>1, <2>2 DEF Bench, AccessOf
    <3> QED BY <1>3, <2>6, <2>7, <3>1, <3>3, <3>4 DEF AccessOf
  <2>13. Attended'
    BY <1>1, <1>2, <1>5, <2>2 DEF BenchInv, Attended, Running
  <2> QED BY <1>2, <1>3, <1>5, <2>7, <2>9, <2>10, <2>11, <2>12, <2>13, Moves DEF Bench
<1>6. CASE /\ m = "read_timestamp" /\ call[p].tries + 1 < MaxTries
           /\ call' = [call EXCEPT ![p].got = <<>>, ![p].tries = @ + 1]
           /\ UNCHANGED <<phase, err, failed, ticks, pwm, returned>>
  <2>1. UNCHANGED <<control, fifovars, plan>>
    <3>1. /\ Len(Accesses(m)) = 3 /\ Accesses(m)[1] = "TIMESTAMP_HI"
          /\ Accesses(m)[2] = "TIMESTAMP_LO" /\ Accesses(m)[3] = "TIMESTAMP_HI"
      BY <1>1, <1>6, AccessTable
    <3>2. Register(p) \in {"TIMESTAMP_HI", "TIMESTAMP_LO"}
      BY <1>3, <3>1
    <3> QED BY <3>2, AccessBoard
  <2> DEFINE new == [call[p] EXCEPT !.got = <<>>, !.tries = @ + 1]
  <2>2. call' = [call EXCEPT ![p] = new]
    BY <1>6
  <2>3. call[p].tries \in Nat /\ <<>> \in Seq(Values)
    BY <1>3 DEF CallType
  <2>4. new \in CallType /\ new.m = m /\ new.tries = call[p].tries + 1 /\ new.got = <<>>
    <3>1. call[p] \in [m : Methods \cup {"none"}, got : Seq(Values), from : Nat, tries : Nat]
      BY <1>3 DEF CallType
    <3>2. call[p].tries + 1 \in Nat
      BY <2>3
    <3>3. new \in [m : Methods \cup {"none"}, got : Seq(Values), from : Nat, tries : Nat]
      BY <2>3, <3>1, <3>2
    <3> QED BY <3>1, <3>3 DEF CallType
  <2>5. call'[p] = new /\ \A o \in Proc \ {p} : call'[o] = call[o]
    BY <1>1, <2>2 DEF LabTypes
  <2> HIDE DEF new
  <2>a. call' \in [Proc -> CallType]
    BY <1>1, <2>2, <2>4 DEF LabTypes
  <2>6. LabTypes'
    BY <1>1, <1>2, <1>6, <2>1, <2>a DEF LabTypes, fifovars
  <2>7. AccessOf(p)'
    BY <1>6, <2>4, <2>5, FreshCall
  <2>8. SessionOf(p)'
    BY <1>1, <1>2, <1>6, <2>4, <2>5 DEF Bench, SessionOf, Methods
  <2>9. LeaseOf(p)' /\ Leased(p)' /\ OutcomeOf(p)' /\ EventsOf(p)'
    BY <1>1, <1>2, <1>6, <2>1 DEF Bench, LeaseOf, Leased, OutcomeOf, EventsOf, fifovars
  <2>10. Attended'
    BY <1>1, <1>2, <1>6, <2>1 DEF BenchInv, Attended, Running
  <2> QED BY <1>2, <1>3, <1>6, <2>5, <2>6, <2>7, <2>8, <2>9, <2>10, Moves DEF Bench
<1>7. CASE Here(p) = Len(Accesses(m)) /\ Continue(p)
  <2>1. phase[p] \in {"enter", "exit"} => m = "force_safe"
    BY <1>1 DEF Bench, SessionOf
  <2>2. phase[p] \in {"enter", "exit"} => "safe" \in control' /\ q' = <<>>
    <3>1. ASSUME phase[p] \in {"enter", "exit"} PROVE Register(p) = "CONTROL:="
      BY <2>1, <3>1, <1>1, <1>3, <1>7, AccessTable DEF ControlMethods
    <3> QED BY <2>1, <3>1, AccessBoard
  <2>3. LabTypes'
    <3>1. pwm' \in [fall : Nat, rise : Nat, seq : Nat] /\ pwm'.seq <= pwm'.rise /\ pwm'.rise <= pwm'.fall /\ ticks' \in Nat
      BY <1>1, <1>3, <1>7, ContinueFacts
    <3>2. failed' \in BOOLEAN /\ err' \in [Proc -> BOOLEAN]
      BY <1>1, <1>3, <1>7, ContinueFacts DEF LabTypes
    <3> QED BY <1>1, <1>2, <1>3, <1>7, <3>1, <3>2, ContinueFacts, AccessBoard DEF LabTypes
  <2>4. AccessOf(p)'
    BY <1>1, <1>3, <1>7, ContinueFacts, SafeCall
  <2>5. SessionOf(p)'
    BY <1>1, <1>2, <1>3, <1>7, ContinueFacts, LabFacts DEF SessionOf, Calling
  <2>6. LeaseOf(p)' /\ Leased(p)'
    BY <1>1, <1>2, <1>3, <1>7, ContinueFacts DEF Bench, LeaseOf, Leased, Calling, Keeping
  <2>7. OutcomeOf(p)'
    BY <1>1, <1>3, <1>7, <2>2, ContinueFacts DEF OutcomeOf, Calling
  <2>8. EventsOf(p)'
    <3>1. CASE phase[p] = "body"
      BY <1>1, <3>1, AccessBoard DEF Bench, EventsOf
    <3>2. CASE phase[p] = "enter"
      BY <2>2, <3>2 DEF EventsOf
    <3>3. CASE phase[p] = "exit"
      BY <1>1, <1>3, <1>7, <3>3, ContinueFacts DEF EventsOf
    <3> QED BY <1>3, <3>1, <3>2, <3>3 DEF Calling
  <2>9. Attended'
    <3>1. place' # NoOne /\ ~leaked' => acquired'[p]
      BY <1>2, <1>3 DEF BenchInv, Attended
    <3>2. Running' => phase'[p] \in {"body", "exit"}
      BY <1>1, <1>3, <1>7, <2>2, ContinueFacts DEF Running, Calling
    <3> QED BY <1>2, <1>3, <3>1, <3>2 DEF Attended
  <2> QED BY <1>1, <1>2, <1>3, <1>7, <2>3, <2>4, <2>5, <2>6, <2>7, <2>8, <2>9, ContinueFacts, Moves DEF Bench
<1> QED BY <1>4, <1>5, <1>6, <1>7, AccessCases

LEMMA LabInitInv == LabInit => BenchInv
<1> SUFFICES ASSUME LabInit PROVE BenchInv
  OBVIOUS
<1>1. NotLoaded \in Seq(Int)
  <2>1. -1 \in Int
    OBVIOUS
  <2> QED BY <2>1 DEF NotLoaded
<1>2. q = <<>> /\ control = {"safe"} /\ pwm = [fall |-> 0, rise |-> 0, seq |-> 0]
  BY DEF LabInit, Fifo!FifoInit
<1>3. "idle" \in Phases
  BY DEF Phases
<1>4. LabTypes
  <2>1. /\ phase \in [Proc -> Phases] /\ err \in [Proc -> BOOLEAN] /\ acquired \in [Proc -> BOOLEAN]
        /\ call \in [Proc -> CallType] /\ plan \in [Proc -> Seq(Int)]
    BY <1>1, <1>3, LabFacts DEF LabInit
  <2>2. q \in Seq(Queued) /\ Len(q) <= Depth
    BY <1>2, LabFacts
  <2>3. ticks \in Nat /\ pwm \in [fall : Nat, rise : Nat, seq : Nat] /\ pwm.seq <= pwm.rise /\ pwm.rise <= pwm.fall
    BY <1>2 DEF LabInit
  <2>4. control \subseteq Bits
    BY <1>2 DEF Bits
  <2> QED BY <2>1, <2>2, <2>3, <2>4 DEF LabInit, LabTypes
<1>5. ASSUME NEW p \in Proc PROVE Bench(p)
  <2>1. phase[p] = "idle" /\ call[p] = NoCall /\ ~acquired[p] /\ lock # p
    BY LabFacts DEF LabInit
  <2>2. SessionOf(p)
    BY <2>1, LabFacts DEF SessionOf, Calling
  <2>3. AccessOf(p)
    BY <2>1, LabFacts DEF AccessOf, Methods
  <2>4. LeaseOf(p) /\ Leased(p) /\ OutcomeOf(p) /\ EventsOf(p)
    BY <2>1 DEF LeaseOf, Leased, OutcomeOf, EventsOf
  <2> QED BY <2>2, <2>3, <2>4 DEF Bench
<1>6. Attended
  BY <1>2 DEF Attended, Running, LabInit
<1> QED BY <1>4, <1>5, <1>6 DEF BenchInv

LEMMA EnvironmentStep ==
    ASSUME BenchInv, Operator \/ ExternalSafe \/ Dispatch \/ Tick \/ PwmEdge
    PROVE  BenchInv'
<1>1. LabTypes
  BY DEF BenchInv
<1>2. /\ q \in Seq(Queued) /\ Len(q) <= Depth /\ ticks \in Nat
      /\ pwm \in [fall : Nat, rise : Nat, seq : Nat] /\ pwm.seq <= pwm.rise /\ pwm.rise <= pwm.fall /\ external \in BOOLEAN
  BY <1>1 DEF LabTypes
<1>3. \A i \in 1..Len(q) : \E j \in 1..Len(q) : q[i] = q[j]
  OBVIOUS
<1>4. CASE Operator
  BY <1>2, <1>3, <1>4, BoardStep DEF Operator, boardvars, fifovars
<1>5. CASE ExternalSafe
  <2>1. q' = <<>> \/ q' = q
    BY <1>5 DEF ExternalSafe, NoEvents, fifovars
  <2>2. q' \in Seq(Queued) /\ Len(q') <= Depth /\ \A i \in 1..Len(q') : \E j \in 1..Len(q) : q'[i] = q[j]
    <3>1. CASE q' = <<>>
      BY <3>1, LabFacts
    <3>2. CASE q' = q
      BY <3>2, <1>2, <1>3
    <3> QED BY <2>1, <3>1, <3>2
  <2>3. external' \in BOOLEAN
    BY <1>2, <1>5 DEF ExternalSafe
  <2> QED BY <1>2, <1>5, <2>2, <2>3, BoardStep DEF ExternalSafe
<1>6. CASE Dispatch
  <2>1. q # <<>> /\ q' = Tail(q)
    BY <1>6 DEF Dispatch, Fifo!Serve
  <2>2. /\ q' \in Seq(Queued) /\ Len(q') = Len(q) - 1 /\ Len(q) \in Nat
        /\ \A i \in 1..Len(q') : q'[i] = q[i + 1]
    BY <1>2, <2>1
  <2>3. \A i \in 1..Len(q') : i + 1 \in 1..Len(q)
    BY <2>2
  <2> QED BY <1>2, <1>6, <2>2, <2>3, LabFacts, BoardStep DEF Dispatch
<1>7. CASE Tick
  BY <1>2, <1>3, <1>7, BoardStep DEF Tick, fifovars
<1>8. CASE PwmEdge
  <2>1. pwm' \in [fall : Nat, rise : Nat, seq : Nat] /\ pwm'.seq <= pwm'.rise /\ pwm'.rise <= pwm'.fall
    BY <1>2, <1>8 DEF PwmEdge, PwmFalls, PwmRises, PwmCounted
  <2> QED BY <1>2, <1>3, <1>8, <2>1, BoardStep DEF PwmEdge, fifovars
<1> QED BY <1>4, <1>5, <1>6, <1>7, <1>8

LEMMA BenchInvStep ==
    ASSUME BenchInv, [LabNext]_labvars
    PROVE  BenchInv'
<1>1. ASSUME NEW p \in Proc, Step(p) PROVE BenchInv'
  <2>1. CASE LeaseAcquire(p)
    BY <2>1, AcquireStep
  <2>2. CASE LeaseRelease(p)
    BY <2>2, ReleaseStep
  <2>3. CASE Unlock(p)
    BY <2>3, UnlockStep
  <2>4. CASE Access(p)
    BY <2>4, AccessStep
  <2>5. CASE TransportFails(p)
    <3>1. phase[p] \in Calling
      BY <2>5, Under DEF TransportFails
    <3>2. plan' \in [Proc -> Seq(Int)]
      BY <2>5 DEF TransportFails, BenchInv, LabTypes
    <3> QED BY <2>5, <3>1, <3>2, RaiseStep DEF TransportFails
  <2>6. CASE Die(p)
    BY <2>6, DieStep
  <2> QED BY <1>1, <2>1, <2>2, <2>3, <2>4, <2>5, <2>6 DEF Step
<1>2. ASSUME NEW p \in Proc, Test(p) PROVE BenchInv'
  BY <1>2, TestStep
<1>3. ASSUME NEW p \in Proc, Interrupt(p) PROVE BenchInv'
  BY <1>3, InterruptStep
<1>4. ASSUME NEW p \in Proc, Die(p) PROVE BenchInv'
  BY <1>4, DieStep
<1>5. CASE Operator \/ ExternalSafe \/ Dispatch \/ Tick \/ PwmEdge
  BY <1>5, EnvironmentStep
<1>6. CASE UNCHANGED labvars
  <2>1. UNCHANGED <<bench, lock, procvars, control, failed, place, leaked, external, q, ticks, pwm>>
    BY <1>6 DEF labvars, boardvars, fifovars
  <2>2. /\ q \in Seq(Queued) /\ Len(q) <= Depth /\ ticks \in Nat
        /\ pwm \in [fall : Nat, rise : Nat, seq : Nat] /\ pwm.seq <= pwm.rise /\ pwm.rise <= pwm.fall /\ external \in BOOLEAN
    BY DEF BenchInv, LabTypes
  <2> QED BY <2>1, <2>2, BoardStep
<1> QED BY <1>1, <1>2, <1>3, <1>4, <1>5, <1>6 DEF LabNext

(* Whatever fails, the phases of the processes agree with lock, lease and      *)
(* method under way, and each read-modify-write starts from what CONTROL holds. *)
THEOREM BenchInvariant == LabSpec => []BenchInv
<1>1. LabInit => BenchInv
  BY LabInitInv
<1>2. BenchInv /\ [LabNext]_labvars => BenchInv'
  BY BenchInvStep
<1> QED BY <1>1, <1>2, PTL DEF LabSpec
------------------------------------------------------------------------------
(* Sessions exclude each other: while a test runs, nobody else talks to the    *)
(* board and every queued event is its own, however the session before ended.  *)
THEOREM LabBenchIsExclusive == LabSpec => []BenchIsExclusive
<1>1. BenchInv => BenchIsExclusive
  <2> SUFFICES ASSUME BenchInv PROVE LabTypeOK /\ OwnBench
    BY DEF BenchIsExclusive
  <2>1. LabTypes
    BY DEF BenchInv
  <2>2. ASSUME NEW p \in Proc PROVE /\ phase[p] \in Phases
                                    /\ phase[p] # "idle" <=> lock = p
                                    /\ call[p].m \in Methods \cup {"none"}
                                    /\ phase[p] \in {"enter", "exit"} => call[p].m = "force_safe"
    <3>1. call[p] \in CallType
      BY <2>1 DEF LabTypes
    <3> QED BY <2>1, <3>1 DEF LabTypes, CallType, BenchInv, Bench, SessionOf
  <2>3. LabTypeOK
    BY <2>1, <2>2 DEF LabTypeOK, LabTypes, Bits
  <2>4. ASSUME NEW p \in Proc, phase[p] = "body"
        PROVE  (\A i \in DOMAIN q : q[i].own) /\ \A o \in Proc \ {p} : call[o] = NoCall
    <3>1. DOMAIN q = 1..Len(q)
      BY <2>1 DEF LabTypes
    <3>2. \A o \in Proc \ {p} : call[o] = NoCall
      BY <2>4, Alone DEF Away
    <3> QED BY <2>4, <3>1, <3>2 DEF BenchInv, Bench, EventsOf
  <2> QED BY <2>3, <2>4 DEF OwnBench
<1> QED BY <1>1, BenchInvariant, PTL

(* A session leaves a safe bench or an error that says so, no unattended       *)
(* output and no place kept.                                                   *)
THEOREM LabLeavesBenchSafe == LabSpec => []LeavesBenchSafe
<1>1. BenchInv => LeavesBenchSafe
  <2> SUFFICES ASSUME BenchInv PROVE LeavesBenchSafe
    OBVIOUS
  <2>1. SafeUnlessRaised
    BY DEF SafeUnlessRaised, BenchInv, Bench, OutcomeOf
  <2>2. ASSUME lock = NoOne, NEW p \in Proc PROVE phase[p] = "idle"
    BY <2>2, LabFacts DEF BenchInv, Bench, SessionOf
  <2>3. NothingLeftRunning
    BY <2>2 DEF NothingLeftRunning, Driving, Safe, BenchInv, Attended, Running
  <2>4. LeaseReturned
    BY LabFacts DEF LeaseReturned, BenchInv, Attended
  <2> QED BY <2>1, <2>3, <2>4 DEF LeavesBenchSafe
<1> QED BY <1>1, BenchInvariant, PTL

(* The test gets a safe bench with an empty queue, and only start_abz and an   *)
(* explicit release of the methods of the backend take FORCE_SAFE away.        *)
THEOREM LabSafeUntilReleased == LabSpec => SafeUntilReleased
<1> DEFINE Kept(p) ==
      /\ phase[p] = "enter" /\ phase'[p] = "body" => "safe" \in control' /\ q' = <<>>
      /\ "safe" \in control \ control' /\ call[p] # NoCall => call[p].m \in {"start_abz", "release_safe"}
<1>1. ASSUME BenchInv, LabNext, NEW p \in Proc PROVE Kept(p)
  <2>t. LabTypes
    BY <1>1 DEF BenchInv
  <2>1. CASE Access(p)
    <3>1. phase[p] \in Calling /\ call[p].m \in Methods
      BY <1>1, <2>1, Under DEF Access
    <3>2. ASSUME phase[p] = "enter", phase'[p] = "body" PROVE "safe" \in control' /\ q' = <<>>
      <4>1. CASE Raise(p)
        <5>1. phase'[p] = IF bench.lease THEN "undo" ELSE "unlock"
          BY <2>t, <3>1, <3>2, <4>1, RaiseFacts
        <5> QED BY <3>2, <5>1
      <4>2. CASE UNCHANGED phase
        BY <3>2, <4>2
      <4>3. CASE Here(p) = Len(Accesses(call[p].m))
        <5>1. call[p].m = "force_safe"
          BY <1>1, <3>2 DEF BenchInv, Bench, SessionOf
        <5>2. Register(p) = "CONTROL:="
          BY <1>1, <3>1, <4>3, <5>1, Under, AccessTable DEF ControlMethods
        <5> QED BY <1>1, <2>1, <5>1, <5>2, AccessBoard
      <4> QED BY <1>1, <2>1, <4>1, <4>2, <4>3, AccessCases
    <3> QED BY <1>1, <2>1, <3>2, AccessBoard
  <2>2. CASE ~Access(p)
    <3>1. ASSUME NEW o \in Proc, Access(o), o # p PROVE Kept(p)
      <4>1. Away(p)
        BY <1>1, <3>1, Under DEF Access
      <4> QED BY <4>1 DEF Away
    <3>2. CASE ~\E o \in Proc : Access(o)
      <4>1. UNCHANGED control
        BY <1>1, <2>2, <3>2 DEF LabNext, Step, Test, LeaseAcquire, LeaseRelease, Unlock, TransportFails,
           Die, Enter, Load, Start, TestFails, Finish, Leave, Interrupt, Operator, ExternalSafe,
           Dispatch, Tick, PwmEdge, boardvars
      <4>2. ASSUME phase[p] = "enter" PROVE phase'[p] # "body"
        <5>1. lock = p /\ p # NoOne /\ \A o \in Proc \ {p} : phase[o] = "idle" /\ call[o].m = "none"
          BY <1>1, <4>2, Alone, LabFacts DEF Away
        <5>2. "none" \notin Methods
          BY DEF Methods
        <5>3. ASSUME NEW o \in Proc \ {p} PROVE ~(Step(o) \/ Test(o) \/ Interrupt(o) \/ Die(o))
          BY <5>1, <5>2 DEF Step, Test, LeaseAcquire, LeaseRelease, Unlock, Access, TransportFails, Die,
             Enter, Load, Start, TestFails, Finish, Leave, InBody, Interrupt
        <5>4. CASE Step(p) \/ Test(p) \/ Interrupt(p) \/ Die(p)
          <6>1. TransportFails(p) \/ Interrupt(p) \/ Die(p)
            BY <2>2, <4>2, <5>1, <5>4 DEF Step, Test, LeaseAcquire, LeaseRelease, Unlock,
               Enter, Load, Start, TestFails, Finish, Leave, InBody
          <6>2. CASE TransportFails(p)
            <7>1. phase'[p] = IF bench.lease THEN "undo" ELSE "unlock"
              BY <2>t, <4>2, <6>2, RaiseFacts DEF TransportFails, Calling
            <7> QED BY <7>1
          <6>3. CASE Interrupt(p)
            BY <2>t, <4>2, <6>3 DEF Interrupt, LabTypes
          <6>4. CASE Die(p)
            BY <2>t, <4>2, <6>4 DEF Die, LabTypes
          <6> QED BY <6>1, <6>2, <6>3, <6>4
        <5>5. CASE Operator \/ ExternalSafe \/ Dispatch \/ Tick \/ PwmEdge
          BY <4>2, <5>5 DEF Operator, ExternalSafe, Dispatch, Tick, PwmEdge, procvars
        <5> QED BY <1>1, <5>3, <5>4, <5>5 DEF LabNext
      <4> QED BY <4>1, <4>2
    <3> QED BY <2>2, <3>1, <3>2
  <2> QED BY <2>1, <2>2
<1>2. BenchInv /\ [LabNext]_labvars => [\A p \in Proc : Kept(p)]_labvars
  BY <1>1
<1> QED BY BenchInvariant, <1>2, PTL DEF LabSpec, SafeUntilReleased
------------------------------------------------------------------------------
(* The words a method has read so far, against the counter and the capture     *)
(* they come from: both only grow while the method is under way.               *)
Stamped(c, now) ==
    c.m = "read_timestamp" =>
       /\ c.from <= now
       /\ Len(c.got) = 1 => \E t \in Nat : c.from <= t /\ t <= now /\ c.got[1] = t \div LoSize
       /\ Len(c.got) = 2 => \E t, u \in Nat : /\ c.from <= t /\ t <= u /\ u <= now
                                              /\ c.got[1] = t \div LoSize /\ c.got[2] = u % LoSize
Captured(c, seq) ==
    c.m = "read_pwm" =>
       /\ Len(c.got) >= 2 => c.got[2] \in Nat /\ c.got[2] <= seq
       /\ Len(c.got) >= 3 => c.got[3] \in Nat /\ c.got[2] <= c.got[3]
       /\ Len(c.got) >= 4 => c.got[4] \in Nat /\ c.got[2] <= c.got[4]
ReadInv == /\ \A p \in Proc : Stamped(call[p], ticks) /\ Captured(call[p], pwm.seq)
           /\ ReadsAreCurrent

(* What a step does to the calls under way and to the value last returned.     *)
Quiet == UNCHANGED call /\ ticks <= ticks' /\ pwm.seq <= pwm'.seq /\ returned' \in {returned, None}
Fresh == (\A o \in Proc : call'[o] \in {NoCall, force_safe}) /\ returned' \in {returned, None}
Others(p) == \A o \in Proc \ {p} : Away(o)

LEMMA FreshAfterRaise ==
    ASSUME LabTypes, NEW p \in Proc, phase[p] \in Calling, Others(p), Raise(p),
           returned' \in {returned, None}
    PROVE  Fresh
<1>1. call'[p] \in {NoCall, force_safe} /\ \A o \in Proc \ {p} : call'[o] = call[o]
  BY RaiseFacts DEF Calling
<1> QED BY <1>1 DEF Fresh, Others, Away

LEMMA StepKinds ==
    ASSUME BenchInv, [LabNext]_labvars
    PROVE  \/ Quiet \/ Fresh
           \/ \E p \in Proc : Access(p) \/ \E m \in Methods : Start(p, m)
<1>t. LabTypes /\ ticks \in Nat /\ pwm.seq \in Nat
  BY DEF BenchInv, LabTypes
<1>1. ASSUME NEW p \in Proc, phase[p] # "idle" \/ call[p].m # "none" PROVE Others(p)
  BY <1>1, Alone DEF Others
<1>2. ASSUME NEW p \in Proc, Others(p), NEW c \in {NoCall, force_safe},
             call' = [call EXCEPT ![p] = c], returned' \in {returned, None}
      PROVE  Fresh
  <2>1. call'[p] = c /\ \A o \in Proc \ {p} : call'[o] = call[o]
    BY <1>t, <1>2 DEF LabTypes
  <2> QED BY <1>2, <2>1 DEF Fresh, Others, Away
<1>3. ASSUME NEW p \in Proc, Step(p) \/ Die(p) PROVE Quiet \/ Fresh \/ Access(p)
  <2>1. CASE LeaseAcquire(p)
    <3>1. phase[p] = "lease" /\ returned' = returned
      BY <2>1 DEF LeaseAcquire
    <3>2. \E c \in {NoCall, force_safe} : call' = [call EXCEPT ![p] = c]
      BY <2>1 DEF LeaseAcquire
    <3> QED BY <1>1, <1>2, <3>1, <3>2
  <2>2. CASE LeaseRelease(p)
    BY <1>t, <2>2 DEF LeaseRelease, Quiet, boardvars
  <2>3. CASE Unlock(p)
    BY <1>t, <2>3 DEF Unlock, Quiet
  <2>4. CASE TransportFails(p)
    <3>1. phase[p] \in Calling /\ Others(p)
      BY <2>4, Under DEF TransportFails, Others
    <3> QED BY <1>t, <2>4, <3>1, FreshAfterRaise DEF TransportFails
  <2>5. CASE Die(p)
    BY <1>1, <1>2, <2>5 DEF Die
  <2> QED BY <1>3, <2>1, <2>2, <2>3, <2>4, <2>5 DEF Step
<1>4. ASSUME NEW p \in Proc, Test(p) PROVE Quiet \/ Fresh \/ \E m \in Methods : Start(p, m)
  <2>1. CASE Enter(p)
    <3>1. \A o \in Proc : phase[o] = "idle"
      BY <2>1, LabFacts DEF Enter, BenchInv, Bench, SessionOf
    <3>2. \A o \in Proc : call[o] = NoCall
      BY <3>1 DEF BenchInv, Bench, SessionOf, Calling
    <3>3. call'[p] \in {NoCall, force_safe} /\ \A o \in Proc \ {p} : call'[o] = call[o]
      BY <1>t, <2>1 DEF Enter, LabTypes
    <3>4. returned' = returned
      BY <2>1 DEF Enter
    <3> QED BY <3>2, <3>3, <3>4 DEF Fresh
  <2>2. CASE Load(p)
    <3>1. phase[p] = "body" /\ returned' = None
      BY <2>2 DEF Load, InBody
    <3>2. CASE Raise(p)
      BY <1>t, <1>1, <3>1, <3>2, FreshAfterRaise DEF Calling
    <3>3. CASE UNCHANGED <<call, ticks, pwm>>
      BY <1>t, <3>1, <3>3 DEF Quiet
    <3> QED BY <2>2, <3>2, <3>3 DEF Load
  <2>3. CASE TestFails(p)
    BY <1>t, <1>1, <2>3, FreshAfterRaise DEF Calling, TestFails, InBody
  <2>4. CASE Finish(p)
    BY <1>1, <1>2, <2>4 DEF Finish, Leave, InBody
  <2> QED BY <1>4, <2>1, <2>2, <2>3, <2>4 DEF Test
<1>5. ASSUME NEW p \in Proc, Interrupt(p) PROVE Fresh
  BY <1>1, <1>2, <1>5 DEF Interrupt
<1>6. CASE Operator \/ ExternalSafe \/ Dispatch \/ Tick
  <2>1. UNCHANGED <<call, pwm, returned>>
    BY <1>6 DEF Operator, ExternalSafe, Dispatch, Tick, procvars, boardvars
  <2>2. ticks' = ticks \/ ticks' = ticks + 1
    BY <1>6 DEF Operator, ExternalSafe, Dispatch, Tick, boardvars
  <2> QED BY <1>t, <2>1, <2>2 DEF Quiet
<1>7. CASE PwmEdge
  <2>1. pwm \in [fall : Nat, rise : Nat, seq : Nat]
    BY <1>t DEF LabTypes
  <2>2. pwm.seq <= pwm'.seq
    BY <2>1, <1>7 DEF PwmEdge, PwmFalls, PwmRises, PwmCounted
  <2> QED BY <1>t, <1>7, <2>2 DEF PwmEdge, Quiet, procvars
<1>8. CASE UNCHANGED labvars
  BY <1>t, <1>8 DEF labvars, procvars, boardvars, Quiet
<1> QED BY <1>3, <1>4, <1>5, <1>6, <1>7, <1>8 DEF LabNext

LEMMA ReadsGrow ==
    ASSUME NEW c \in CallType, NEW now \in Nat, NEW then \in Nat, now <= then,
           NEW seq \in Nat, NEW more \in Nat, seq <= more
    PROVE  (Stamped(c, now) => Stamped(c, then)) /\ (Captured(c, seq) => Captured(c, more))
<1>1. c.from \in Nat
  BY DEF CallType
<1>2. ASSUME Stamped(c, now), c.m = "read_timestamp"
      PROVE  /\ c.from <= then
             /\ Len(c.got) = 1 => \E t \in Nat : c.from <= t /\ t <= then /\ c.got[1] = t \div LoSize
             /\ Len(c.got) = 2 => \E t, u \in Nat : /\ c.from <= t /\ t <= u /\ u <= then
                                                    /\ c.got[1] = t \div LoSize /\ c.got[2] = u % LoSize
  <2>1. c.from <= then
    BY <1>1, <1>2 DEF Stamped
  <2>2. ASSUME Len(c.got) = 1
        PROVE  \E t \in Nat : c.from <= t /\ t <= then /\ c.got[1] = t \div LoSize
    <3>1. PICK t \in Nat : c.from <= t /\ t <= now /\ c.got[1] = t \div LoSize
      BY <1>2, <2>2 DEF Stamped
    <3>2. t <= then
      BY <3>1
    <3> QED BY <3>1, <3>2
  <2>3. ASSUME Len(c.got) = 2
        PROVE  \E t, u \in Nat : /\ c.from <= t /\ t <= u /\ u <= then
                                 /\ c.got[1] = t \div LoSize /\ c.got[2] = u % LoSize
    <3>1. PICK t, u \in Nat : /\ c.from <= t /\ t <= u /\ u <= now
                              /\ c.got[1] = t \div LoSize /\ c.got[2] = u % LoSize
      BY <1>2, <2>3 DEF Stamped
    <3>2. u <= then
      BY <3>1
    <3> QED BY <3>1, <3>2
  <2> QED BY <2>1, <2>2, <2>3
<1>3. Captured(c, seq) => Captured(c, more)
  BY DEF Captured
<1> QED BY <1>2, <1>3 DEF Stamped

(* Nothing has been read of a method that has just been called.               *)
LEMMA NothingRead ==
    ASSUME NEW c, c.got = <<>>, NEW now, NEW seq, c.from <= now
    PROVE  Stamped(c, now) /\ Captured(c, seq)
<1>1. Len(c.got) = 0
  OBVIOUS
<1> QED BY <1>1 DEF Stamped, Captured

LEMMA NotReading ==
    ASSUME NEW c \in {NoCall, force_safe}, NEW now, NEW seq
    PROVE  Stamped(c, now) /\ Captured(c, seq)
BY LabFacts, ForceSafeFacts DEF Stamped, Captured

LEMMA OldAnswer ==
    ASSUME ReadInv, returned' \in {returned, None}
    PROVE  ReadsAreCurrent'
<1>1. None.m = "none"
  BY DEF None
<1> QED BY <1>1 DEF ReadInv, ReadsAreCurrent, TimestampInCall, PwmNotStale

LEMMA QuietReads ==
    ASSUME BenchInv, BenchInv', ReadInv, Quiet
    PROVE  ReadInv'
<1>1. /\ ticks \in Nat /\ ticks' \in Nat /\ pwm.seq \in Nat /\ pwm'.seq \in Nat
      /\ call \in [Proc -> CallType]
  BY DEF BenchInv, LabTypes
<1>2. ASSUME NEW p \in Proc PROVE Stamped(call'[p], ticks') /\ Captured(call'[p], pwm'.seq)
  BY <1>1, ReadsGrow DEF Quiet, ReadInv
<1> QED BY <1>2, OldAnswer DEF ReadInv, Quiet

LEMMA FreshReads ==
    ASSUME BenchInv, ReadInv, Fresh
    PROVE  ReadInv'
<1>1. ASSUME NEW p \in Proc PROVE Stamped(call'[p], ticks') /\ Captured(call'[p], pwm'.seq)
  BY NotReading DEF Fresh
<1> QED BY <1>1, OldAnswer DEF ReadInv, Fresh

LEMMA StartReads ==
    ASSUME BenchInv, BenchInv', ReadInv, NEW p \in Proc, NEW m \in Methods, Start(p, m)
    PROVE  ReadInv'
<1>1. ticks' \in Nat /\ call' = [call EXCEPT ![p] = NewCall(m, ticks')] /\ returned' = None
  BY DEF Start, BenchInv, LabTypes
<1>2. \A o \in Proc \ {p} : call[o] = NoCall
  BY Alone DEF Start, InBody, Away
<1>3. call'[p] = NewCall(m, ticks') /\ \A o \in Proc \ {p} : call'[o] = NoCall
  BY <1>1, <1>2 DEF BenchInv, LabTypes
<1>4. Stamped(call'[p], ticks') /\ Captured(call'[p], pwm'.seq)
  <2>1. NewCall(m, ticks').got = <<>> /\ NewCall(m, ticks').from = ticks'
    BY <1>1, NewCallFacts
  <2>2. PICK c : c = NewCall(m, ticks')
    OBVIOUS
  <2>3. call'[p] = c /\ c.got = <<>> /\ c.from = ticks' /\ ticks' \in Nat
    BY <1>1, <1>3, <2>1, <2>2
  <2>4. c.from <= ticks'
    BY <2>3
  <2>5. Stamped(c, ticks') /\ Captured(c, pwm'.seq)
    BY <2>3, <2>4, NothingRead
  <2> QED BY <2>3, <2>5
<1>5. ASSUME NEW o \in Proc \ {p} PROVE Stamped(call'[o], ticks') /\ Captured(call'[o], pwm'.seq)
  BY <1>3, NotReading
<1> QED BY <1>1, <1>4, <1>5, OldAnswer DEF ReadInv

(* One more word.                                                             *)
OneMore(c, p) == /\ Here(p) < Len(Accesses(call[p].m))
                 /\ c.m = call[p].m /\ c.from = call[p].from /\ c.got = Next32(p)
LEMMA ReadsOn ==
    ASSUME BenchInv, ReadInv, NEW p \in Proc, call[p].m \in Methods,
           NEW c \in CallType, OneMore(c, p)
    PROVE  Stamped(c, ticks) /\ Captured(c, pwm.seq)
<1>1. /\ ticks \in Nat /\ pwm.seq \in Nat /\ pwm.rise \in Nat /\ pwm.fall \in Nat /\ pwm.seq <= pwm.rise /\ pwm.rise <= pwm.fall
      /\ call[p] \in CallType /\ c.m \in Methods
  BY DEF BenchInv, LabTypes, OneMore
<1>2. PICK n \in Nat, old \in Seq(Values) : old = call[p].got /\ n = Len(old) /\ Here(p) = n + 1
  BY Under DEF CallType
<1>3. /\ Register(p) = Accesses(c.m)[n + 1] /\ n + 1 < Len(Accesses(c.m))
  BY <1>2, Under DEF OneMore
<1>4. old \in Seq(Values) /\ read32(Register(p)) \in Values
  BY <1>1, <1>2, ReadType DEF CallType, BenchInv
<1>5. c.got = Append(old, read32(Register(p)))
  BY <1>2 DEF OneMore, Next32
<1>6. /\ Len(c.got) = n + 1 /\ c.got[n + 1] = read32(Register(p))
      /\ \A i \in 1..n : c.got[i] = old[i]
  BY <1>2, <1>4, <1>5
<1>7. Stamped(call[p], ticks) /\ Captured(call[p], pwm.seq) /\ call[p].m = c.m /\ call[p].from = c.from
  BY DEF ReadInv, OneMore
<1>8. ASSUME c.m = "read_timestamp" PROVE Stamped(c, ticks)
  <2>1. /\ Len(Accesses(c.m)) = 3 /\ Accesses(c.m)[1] = "TIMESTAMP_HI"
        /\ Accesses(c.m)[2] = "TIMESTAMP_LO" /\ Accesses(c.m)[3] = "TIMESTAMP_HI"
    BY <1>1, <1>8, AccessTable
  <2>2. n = 0 \/ n = 1
    BY <1>3, <2>1
  <2>3. c.from <= ticks
    BY <1>7, <1>8 DEF Stamped
  <2>4. CASE n = 0
    <3>1. Register(p) = "TIMESTAMP_HI"
      BY <1>3, <2>1, <2>4
    <3>2. Len(c.got) = 1 /\ c.got[1] = ticks \div LoSize
      BY <1>6, <2>4, <3>1 DEF read32
    <3> QED BY <1>1, <2>3, <3>2 DEF Stamped
  <2>5. CASE n = 1
    <3>1. Register(p) = "TIMESTAMP_LO"
      BY <1>3, <2>1, <2>5
    <3>2. Len(c.got) = 2 /\ c.got[2] = ticks % LoSize /\ c.got[1] = old[1]
      BY <1>6, <2>5, <3>1 DEF read32
    <3>3. PICK t \in Nat : c.from <= t /\ t <= ticks /\ old[1] = t \div LoSize
      BY <1>2, <1>7, <1>8, <2>5 DEF Stamped
    <3>4. \E u, v \in Nat : /\ c.from <= u /\ u <= v /\ v <= ticks
                            /\ c.got[1] = u \div LoSize /\ c.got[2] = v % LoSize
      BY <1>1, <3>2, <3>3
    <3> QED BY <2>3, <3>2, <3>4 DEF Stamped
  <2> QED BY <2>2, <2>4, <2>5
<1>9. ASSUME c.m = "read_pwm" PROVE Captured(c, pwm.seq)
  <2>1. /\ Len(Accesses(c.m)) = 5 /\ Accesses(c.m)[1] = "PWM_VALID" /\ Accesses(c.m)[2] = "PWM_SEQ"
        /\ Accesses(c.m)[3] = "PERIOD" /\ Accesses(c.m)[4] = "HIGH" /\ Accesses(c.m)[5] = "LOW"
    BY <1>1, <1>9, AccessTable
  <2>2. n = 0 \/ n = 1 \/ n = 2 \/ n = 3
    BY <1>3, <2>1
  <2>3. CASE n = 0
    BY <1>6, <2>3 DEF Captured
  <2>4. CASE n = 1
    <3>1. Register(p) = "PWM_SEQ"
      BY <1>3, <2>1, <2>4
    <3>2. Len(c.got) = 2 /\ c.got[2] = pwm.seq
      BY <1>6, <2>4, <3>1 DEF read32
    <3> QED BY <1>1, <3>2 DEF Captured
  <2>5. CASE n = 2
    <3>1. Register(p) = "PERIOD"
      BY <1>3, <2>1, <2>5
    <3>2. Len(c.got) = 3 /\ c.got[3] = pwm.rise /\ c.got[2] = old[2]
      BY <1>6, <2>5, <3>1 DEF read32
    <3>3. old[2] \in Nat /\ old[2] <= pwm.seq
      BY <1>2, <1>7, <1>9, <2>5 DEF Captured
    <3> QED BY <1>1, <3>2, <3>3 DEF Captured
  <2>6. CASE n = 3
    <3>1. Register(p) = "HIGH"
      BY <1>3, <2>1, <2>6
    <3>2. Len(c.got) = 4 /\ c.got[4] = pwm.fall /\ c.got[3] = old[3] /\ c.got[2] = old[2]
      BY <1>6, <2>6, <3>1 DEF read32
    <3>3. old[2] \in Nat /\ old[2] <= pwm.seq /\ old[3] \in Nat /\ old[2] <= old[3]
      BY <1>2, <1>7, <1>9, <2>6 DEF Captured
    <3> QED BY <1>1, <3>2, <3>3 DEF Captured
  <2> QED BY <2>2, <2>3, <2>4, <2>5, <2>6
<1> QED BY <1>8, <1>9 DEF Stamped, Captured

(* Two equal high words around the low word: the value was in the counter.    *)
Last(p) == Here(p) = Len(Accesses(call[p].m))
LEMMA StampReturned ==
    ASSUME BenchInv, ReadInv, NEW p \in Proc, call[p].m = "read_timestamp",
           Last(p), ~Unstable(call[p], Next32(p))
    PROVE  LET a == Answer(call[p], Next32(p)) IN
           a.m = "read_timestamp" /\ a.val \in a.from..a.to
<1> DEFINE got == Next32(p)
<1>1. PICK c : c = call[p]
  OBVIOUS
<1>2. /\ c.m \in Methods /\ Len(Accesses(c.m)) = 3 /\ Accesses(c.m)[1] = "TIMESTAMP_HI"
      /\ Accesses(c.m)[2] = "TIMESTAMP_LO" /\ Accesses(c.m)[3] = "TIMESTAMP_HI"
  <2>1. c.m \in Methods
    BY <1>1 DEF Methods
  <2> QED BY <1>1, <2>1, AccessTable
<1>3. /\ ticks \in Nat /\ c \in CallType /\ Register(p) = Accesses(c.m)[Here(p)]
      /\ Here(p) = Len(c.got) + 1 /\ Len(c.got) \in Nat
  BY <1>1, <1>2, Under DEF BenchInv, LabTypes
<1>4. Len(c.got) = 2 /\ Register(p) = "TIMESTAMP_HI"
  <2>1. Here(p) = 3
    BY <1>1, <1>2 DEF Last
  <2>2. Len(c.got) \in Nat /\ Len(c.got) + 1 = 3
    BY <1>3, <2>1
  <2>3. \A n \in Nat : n + 1 = 3 => n = 2
    OBVIOUS
  <2>4. Len(c.got) = 2
    BY <2>2, <2>3
  <2> QED BY <1>2, <1>3, <2>1, <2>4
<1>5. c.got \in Seq(Values) /\ c.from \in Nat
  BY <1>3 DEF CallType
<1>6. got[1] = c.got[1] /\ got[2] = c.got[2] /\ got[3] = ticks \div LoSize
  <2>1. ticks \div LoSize \in Values
    BY <1>3, WordsOf, LabFacts DEF Values
  <2>2. got = Append(c.got, ticks \div LoSize)
    BY <1>1, <1>4 DEF Next32, read32
  <2> QED BY <1>4, <1>5, <2>1, <2>2
<1>7. PICK t \in Nat, u \in Nat : /\ c.from <= t /\ t <= u /\ u <= ticks
                                  /\ c.got[1] = t \div LoSize /\ c.got[2] = u % LoSize
  BY <1>1, <1>4 DEF ReadInv, Stamped
<1>8. got[1] = got[3]
  BY DEF Unstable
<1>9. PICK h \in Nat, high \in Nat, now \in Nat, low \in Nat :
         /\ h = t \div LoSize /\ high = u \div LoSize /\ now = ticks \div LoSize
         /\ low = u % LoSize /\ h <= high /\ high <= now
  BY <1>3, <1>7, WordsOf, HighWordGrows, LabFacts
<1>10. got[1] = high /\ got[2] = low
  BY <1>6, <1>7, <1>8, <1>9
<1>11. u = LoSize * high + low
  BY <1>7, <1>9, Division, LabFacts
<1>12. high * LoSize + low = u
  BY <1>11, LabFacts
<1>13. Answer(c, got) = [m |-> c.m, val |-> got[1] * LoSize + got[2], from |-> c.from, to |-> ticks]
  BY <1>1 DEF Answer
<1>14. c.from <= u /\ u <= ticks
  BY <1>3, <1>5, <1>7
<1>15. Answer(c, got) = [m |-> c.m, val |-> u, from |-> c.from, to |-> ticks]
  BY <1>10, <1>12, <1>13
<1> QED BY <1>1, <1>3, <1>5, <1>7, <1>14, <1>15

LEMMA CaptureReturned ==
    ASSUME BenchInv, ReadInv, NEW p \in Proc, call[p].m = "read_pwm", Last(p)
    PROVE  LET a == Answer(call[p], Next32(p)) IN
           /\ a.m = "read_pwm"
           /\ a.sequence <= a.period /\ a.sequence <= a.high /\ a.sequence <= a.low
<1>1. PICK c, got : c = call[p] /\ got = Next32(p)
  OBVIOUS
<1>2. /\ c.m \in Methods /\ Len(Accesses(c.m)) = 5 /\ Accesses(c.m)[1] = "PWM_VALID"
      /\ Accesses(c.m)[2] = "PWM_SEQ" /\ Accesses(c.m)[3] = "PERIOD"
      /\ Accesses(c.m)[4] = "HIGH" /\ Accesses(c.m)[5] = "LOW"
  <2>1. c.m \in Methods
    BY <1>1 DEF Methods
  <2> QED BY <1>1, <2>1, AccessTable
<1>3. /\ pwm.seq \in Nat /\ pwm.rise \in Nat /\ pwm.fall \in Nat /\ pwm.seq <= pwm.rise /\ pwm.rise <= pwm.fall
      /\ c \in CallType /\ Register(p) = Accesses(c.m)[Here(p)]
      /\ Here(p) = Len(c.got) + 1 /\ Len(c.got) \in Nat
  BY <1>1, <1>2, Under DEF BenchInv, LabTypes
<1>4. Len(c.got) = 4 /\ Register(p) = "LOW"
  <2>1. Here(p) = 5
    BY <1>1, <1>2 DEF Last
  <2>2. Len(c.got) \in Nat /\ Len(c.got) + 1 = 5
    BY <1>3, <2>1
  <2>3. \A n \in Nat : n + 1 = 5 => n = 4
    OBVIOUS
  <2>4. Len(c.got) = 4
    BY <2>2, <2>3
  <2> QED BY <1>2, <1>3, <2>1, <2>4
<1>5. /\ got[2] = c.got[2] /\ got[3] = c.got[3] /\ got[4] = c.got[4] /\ got[5] = pwm.rise
      /\ DOMAIN got = 1..5
  <2>1. pwm.rise \in Values
    BY <1>3 DEF Values
  <2>2. got = Append(c.got, pwm.rise)
    BY <1>1, <1>4 DEF Next32, read32
  <2>3. c.got \in Seq(Values)
    BY <1>3 DEF CallType
  <2>4. PICK g \in Seq(Values), v \in Values : g = c.got /\ v = pwm.rise /\ Len(g) = 4
    BY <1>4, <2>1, <2>3
  <2>5. got = Append(g, v)
    BY <2>2, <2>4
  <2>6. got[2] = g[2] /\ got[3] = g[3] /\ got[4] = g[4] /\ got[5] = v /\ DOMAIN got = 1..5
    BY <2>4, <2>5
  <2> QED BY <2>4, <2>6
<1>6. /\ c.got[2] \in Nat /\ c.got[2] <= pwm.seq
      /\ c.got[3] \in Nat /\ c.got[2] <= c.got[3] /\ c.got[4] \in Nat /\ c.got[2] <= c.got[4]
  BY <1>1, <1>4 DEF ReadInv, Captured
<1>7. ASSUME NEW i \in 1..5, NEW r, Accesses(c.m)[i] = r, \A j \in 1..5 : Accesses(c.m)[j] = r => j = i
      PROVE  Word(c, got, r) = got[i]
  <2>1. (CHOOSE j \in DOMAIN got : Accesses(c.m)[j] = r) = i
    BY <1>5, <1>7
  <2> QED BY <2>1 DEF Word
<1>8. Word(c, got, "PWM_SEQ") = got[2]
  BY <1>2, <1>7
<1>9. Word(c, got, "PERIOD") = got[3]
  BY <1>2, <1>7
<1>10. Word(c, got, "HIGH") = got[4] /\ Word(c, got, "LOW") = got[5]
  BY <1>2, <1>7
<1>11. Answer(c, got) = [m |-> c.m, sequence |-> got[2], period |-> got[3],
                         high |-> got[4], low |-> got[5]]
  BY <1>1, <1>8, <1>9, <1>10 DEF Answer
<1>12. got[2] <= got[3] /\ got[2] <= got[4] /\ got[2] <= got[5]
  BY <1>3, <1>5, <1>6
<1> QED BY <1>1, <1>11, <1>12

LEMMA AccessReads ==
    ASSUME BenchInv, ReadInv, NEW p \in Proc, Access(p)
    PROVE  ReadInv'
<1> DEFINE c == call[p]
<1>1. /\ LabTypes /\ c.m \in Methods /\ phase[p] \in Calling /\ Others(p) /\ c \in CallType
      /\ Here(p) \in 1..Len(Accesses(c.m)) /\ Len(c.got) \in Nat
  BY Under DEF Access, BenchInv, Others
<1>2. \A o \in Proc \ {p} : call[o] = NoCall
  BY <1>1 DEF Others, Away
<1>3. CASE Raise(p) /\ returned' = returned
  BY <1>1, <1>3, FreshAfterRaise, FreshReads
<1>4. ASSUME NEW new \in CallType, call' = [call EXCEPT ![p] = new],
             Stamped(new, ticks), Captured(new, pwm.seq), UNCHANGED <<ticks, pwm, returned>>
      PROVE  ReadInv'
  <2>1. call'[p] = new /\ \A o \in Proc \ {p} : call'[o] = NoCall
    BY <1>1, <1>2, <1>4 DEF LabTypes
  <2>2. ASSUME NEW o \in Proc PROVE Stamped(call'[o], ticks') /\ Captured(call'[o], pwm'.seq)
    BY <1>4, <2>1, NotReading
  <2> QED BY <1>4, <2>2, OldAnswer DEF ReadInv
<1>5. CASE /\ Here(p) < Len(Accesses(c.m))
           /\ call' = [call EXCEPT ![p].got = Next32(p)] /\ UNCHANGED <<ticks, pwm, returned>>
  <2> DEFINE new == [c EXCEPT !.got = Next32(p)]
  <2>1. Next32(p) \in Seq(Values)
    BY <1>1, ReadType DEF CallType, Next32
  <2>2. new \in CallType /\ new.m = c.m /\ new.from = c.from /\ new.got = Next32(p)
    BY <1>1, <2>1 DEF CallType
  <2>3. call' = [call EXCEPT ![p] = new]
    BY <1>5
  <2> HIDE DEF new
  <2> QED BY <1>1, <1>4, <1>5, <2>2, <2>3, ReadsOn DEF OneMore
<1>6. CASE /\ c.m = "read_timestamp"
           /\ call' = [call EXCEPT ![p].got = <<>>, ![p].tries = @ + 1]
           /\ UNCHANGED <<ticks, pwm, returned>>
  <2> DEFINE new == [c EXCEPT !.got = <<>>, !.tries = @ + 1]
  <2>1. c \in [m : Methods \cup {"none"}, got : Seq(Values), from : Nat, tries : Nat]
    BY <1>1 DEF CallType
  <2>2. <<>> \in Seq(Values) /\ c.tries + 1 \in Nat
    BY <2>1
  <2>3. new \in [m : Methods \cup {"none"}, got : Seq(Values), from : Nat, tries : Nat]
    BY <2>1, <2>2
  <2>4. new \in CallType /\ new.from = c.from /\ new.got = <<>>
    BY <2>1, <2>3 DEF CallType
  <2>5. call' = [call EXCEPT ![p] = new]
    BY <1>6
  <2>6. c.from <= ticks
    BY <1>6 DEF ReadInv, Stamped
  <2> HIDE DEF new
  <2>7. Stamped(new, ticks) /\ Captured(new, pwm.seq)
    BY <2>4, <2>6, NothingRead
  <2> QED BY <1>4, <1>6, <2>4, <2>5, <2>7
<1>7. CASE /\ Here(p) = Len(Accesses(c.m)) /\ ~Unstable(c, Next32(p)) /\ Continue(p)
           /\ returned' = IF phase[p] = "body" THEN Answer(c, Next32(p)) ELSE None
  <2>1. ASSUME NEW o \in Proc PROVE Stamped(call'[o], ticks') /\ Captured(call'[o], pwm'.seq)
    <3>1. call'[o] = NoCall
      BY <1>1, <1>2, <1>7, ContinueFacts
    <3> QED BY <3>1, NotReading
  <2>2. ReadsAreCurrent'
    <3>1. None.m = "none"
      BY DEF None
    <3>2. CASE phase[p] # "body"
      BY <1>7, <3>1, <3>2 DEF ReadsAreCurrent, TimestampInCall, PwmNotStale
    <3>3. CASE phase[p] = "body" /\ c.m = "read_timestamp"
      BY <1>7, <3>3, StampReturned DEF Last, ReadsAreCurrent, TimestampInCall, PwmNotStale
    <3>4. CASE phase[p] = "body" /\ c.m = "read_pwm"
      BY <1>7, <3>4, CaptureReturned DEF Last, ReadsAreCurrent, TimestampInCall, PwmNotStale
    <3>5. CASE phase[p] = "body" /\ c.m \notin {"read_timestamp", "read_pwm"}
      <4>1. Answer(c, Next32(p)) = None \/ Answer(c, Next32(p)) = [None EXCEPT !.m = "schedule_dio"]
        BY <3>5 DEF Answer
      <4>2. Answer(c, Next32(p)).m \in {"none", "schedule_dio"}
        BY <4>1, <3>1 DEF None
      <4> QED BY <1>7, <3>5, <4>2 DEF ReadsAreCurrent, TimestampInCall, PwmNotStale
    <3> QED BY <3>2, <3>3, <3>4, <3>5
  <2> QED BY <2>1, <2>2 DEF ReadInv
<1> QED BY <1>3, <1>5, <1>6, <1>7, AccessCases

(* read_timestamp returns a value the counter had during the call, and none of  *)
(* the three words of read_pwm is older than the sequence number they come      *)
(* with; that they are of one cycle is false.                                 *)
THEOREM LabReadsAreCurrent == LabSpec => []ReadsAreCurrent
<1>1. LabInit => ReadInv
  <2> SUFFICES ASSUME LabInit PROVE ReadInv
    OBVIOUS
  <2>1. returned.m = "none" /\ \A p \in Proc : call[p] = NoCall
    BY DEF LabInit, None
  <2>2. ReadsAreCurrent
    BY <2>1 DEF ReadsAreCurrent, TimestampInCall, PwmNotStale
  <2> QED BY <2>1, <2>2, NotReading DEF ReadInv
<1>2. BenchInv /\ BenchInv' /\ ReadInv /\ [LabNext]_labvars => ReadInv'
  BY StepKinds, QuietReads, FreshReads, StartReads, AccessReads
<1>3. ReadInv => ReadsAreCurrent
  BY DEF ReadInv
<1> QED BY <1>1, <1>2, <1>3, BenchInvariant, PTL DEF LabSpec
------------------------------------------------------------------------------
(* The scenario left is in order, and no older than the youngest event queued; *)
(* room found by EVT_STATUS stays, because only the session pushes.            *)
InOrder(steps) ==
    /\ steps # NotLoaded => \A i \in 1..Len(steps) : steps[i] >= 0
    /\ \A i \in 1..Len(steps) : i + 1 <= Len(steps) => steps[i] <= steps[i + 1]
Follows(steps) == steps # NotLoaded /\ (steps # <<>> => q[Len(q)].ts <= steps[1])
PlanOf(p) ==
    /\ InOrder(plan[p])
    /\ phase[p] = "body" /\ q # <<>> => Follows(plan[p])
    /\ call[p].m = "schedule_dio" =>
          plan[p] # NotLoaded /\ (Len(call[p].got) >= 1 => Len(q) < Depth)
PlanInv == \A p \in Proc : PlanOf(p)

(* What a step does to the queue and to the scenarios.                        *)
Shrinks == q' = q \/ q' = <<>> \/ (q # <<>> /\ q' = Tail(q))
Stays == UNCHANGED plan /\ Shrinks /\ \A o \in Proc : phase'[o] = "body" => phase[o] = "body"
Drops(p) == /\ Others(p) /\ phase' = [phase EXCEPT ![p] = "idle"] /\ call'[p] = NoCall
            /\ \A o \in Proc \ {p} : call'[o] = call[o]
            /\ plan' = [plan EXCEPT ![p] = NotLoaded]
Loads(p) == /\ Others(p) /\ UNCHANGED <<phase, call, q>> /\ phase[p] = "body" /\ call[p] = NoCall
            /\ plan[p] = NotLoaded
            /\ \E d \in Documents : scenario_from_dict(d) /\ plan' = [plan EXCEPT ![p] = d.steps]

LEMMA PhaseAfterRaise ==
    ASSUME LabTypes, NEW p \in Proc, phase[p] \in Calling, Raise(p)
    PROVE  \A o \in Proc : phase'[o] = "body" => phase[o] = "body"
BY RaiseFacts DEF Calling

LEMMA QueueKinds ==
    ASSUME BenchInv, [LabNext]_labvars
    PROVE  Stays \/ \E p \in Proc : Drops(p) \/ Loads(p) \/ Access(p)
<1>t. LabTypes
  BY DEF BenchInv
<1>1. ASSUME NEW p \in Proc, phase[p] # "idle" \/ call[p].m # "none" PROVE Others(p)
  BY <1>1, Alone DEF Others
<1>2. ASSUME NEW p \in Proc, NEW ph, ph # "body" \/ phase[p] = "body", phase' = [phase EXCEPT ![p] = ph],
             UNCHANGED plan, Shrinks
      PROVE  Stays
  BY <1>t, <1>2 DEF Stays, LabTypes
<1>3. ASSUME NEW p \in Proc, Step(p) \/ Die(p) PROVE Stays \/ Drops(p) \/ Access(p)
  <2>1. CASE LeaseAcquire(p)
    <3>1. \E ph : ph # "body" /\ phase' = [phase EXCEPT ![p] = ph]
      BY <2>1 DEF LeaseAcquire
    <3>2. UNCHANGED <<plan, q>>
      BY <2>1 DEF LeaseAcquire, boardvars, fifovars
    <3> QED BY <1>2, <3>1, <3>2 DEF Shrinks
  <2>2. CASE LeaseRelease(p)
    <3>1. UNCHANGED <<plan, q>> /\ phase' = [phase EXCEPT ![p] = "unlock"]
      BY <2>2 DEF LeaseRelease, boardvars, fifovars
    <3> QED BY <1>2, <3>1 DEF Shrinks
  <2>3. CASE Unlock(p)
    <3>1. call[p] = NoCall
      BY <2>3 DEF Unlock, BenchInv, Bench, SessionOf, Calling
    <3> QED BY <1>1, <2>3, <3>1 DEF Unlock, Drops
  <2>4. CASE TransportFails(p)
    <3>1. phase[p] \in Calling
      BY <2>4, Under DEF TransportFails
    <3>2. UNCHANGED <<plan, q>> /\ Raise(p)
      BY <2>4 DEF TransportFails, fifovars
    <3> QED BY <1>t, <3>1, <3>2, PhaseAfterRaise DEF Stays, Shrinks
  <2>5. CASE Die(p)
    <3>1. call'[p] = NoCall /\ \A o \in Proc \ {p} : call'[o] = call[o]
      BY <1>t, <2>5 DEF Die, LabTypes
    <3> QED BY <1>1, <2>5, <3>1 DEF Die, Drops
  <2> QED BY <1>3, <2>1, <2>2, <2>3, <2>4, <2>5 DEF Step
<1>4. ASSUME NEW p \in Proc, Test(p) PROVE Stays \/ Loads(p)
  <2>1. CASE Enter(p)
    <3>1. \E ph : ph # "body" /\ phase' = [phase EXCEPT ![p] = ph]
      BY <2>1 DEF Enter
    <3>2. UNCHANGED <<plan, q>>
      BY <2>1 DEF Enter, boardvars, fifovars
    <3> QED BY <1>2, <3>1, <3>2 DEF Shrinks
  <2>2. CASE Load(p)
    <3>1. phase[p] = "body" /\ call[p] = NoCall /\ q' = q /\ plan[p] = NotLoaded
      BY <2>2 DEF Load, InBody, fifovars
    <3>2. CASE Raise(p) /\ UNCHANGED plan
      BY <1>t, <3>1, <3>2, PhaseAfterRaise DEF Stays, Shrinks, Calling
    <3>3. CASE /\ \E d \in Documents : scenario_from_dict(d) /\ plan' = [plan EXCEPT ![p] = d.steps]
               /\ UNCHANGED <<phase, call>>
      BY <1>1, <3>1, <3>3 DEF Loads
    <3> QED BY <2>2, <3>2, <3>3 DEF Load
  <2>3. CASE \E m \in Methods : Start(p, m)
    BY <2>3 DEF Start, Stays, Shrinks, fifovars
  <2>4. CASE TestFails(p)
    <3>1. phase[p] \in Calling /\ UNCHANGED <<plan, q>> /\ Raise(p)
      BY <2>4 DEF TestFails, InBody, Calling, fifovars
    <3> QED BY <1>t, <3>1, PhaseAfterRaise DEF Stays, Shrinks
  <2>5. CASE Finish(p)
    <3>1. UNCHANGED <<plan, q>> /\ phase' = [phase EXCEPT ![p] = "exit"]
      BY <2>5 DEF Finish, Leave, boardvars, fifovars
    <3> QED BY <1>2, <3>1 DEF Shrinks
  <2> QED BY <1>4, <2>1, <2>2, <2>3, <2>4, <2>5 DEF Test
<1>5. ASSUME NEW p \in Proc, Interrupt(p) PROVE Stays
  <2>1. phase[p] \in {"lease", "enter", "body", "exit", "release", "undo"}
    BY <1>t, <1>5 DEF Interrupt, LabTypes, Phases
  <2>2. IfLeased("release") \in {"release", "unlock"}
    BY DEF IfLeased
  <2>3. \E ph : ph # "body" /\ phase' = [phase EXCEPT ![p] = ph]
    BY <1>t, <1>5, <2>1, <2>2 DEF Interrupt, LabTypes
  <2>4. UNCHANGED <<plan, q>>
    BY <1>5 DEF Interrupt, fifovars
  <2> QED BY <1>2, <2>3, <2>4 DEF Shrinks
<1>6. CASE Operator \/ Tick \/ PwmEdge \/ UNCHANGED labvars
  BY <1>6 DEF Operator, Tick, PwmEdge, labvars, procvars, boardvars, fifovars, Stays, Shrinks
<1>7. CASE ExternalSafe
  <2>1. UNCHANGED <<plan, phase>> /\ (q' = <<>> \/ q' = q)
    BY <1>7 DEF ExternalSafe, NoEvents, procvars, fifovars
  <2> QED BY <2>1 DEF Stays, Shrinks
<1>8. CASE Dispatch
  <2>1. UNCHANGED <<plan, phase>> /\ q # <<>> /\ q' = Tail(q)
    BY <1>8 DEF Dispatch, Fifo!Serve, procvars
  <2> QED BY <2>1 DEF Stays, Shrinks
<1> QED BY <1>3, <1>4, <1>5, <1>6, <1>7, <1>8 DEF LabNext

LEMMA ShrinkFacts ==
    ASSUME q \in Seq(Queued), Shrinks, NEW n \in Nat, Len(q) < n
    PROVE  Len(q') < n /\ (q' # <<>> => q # <<>> /\ q'[Len(q')] = q[Len(q)])
<1>1. CASE q' = q
  BY <1>1
<1>2. CASE q' = <<>>
  <2>1. Len(q') = 0 /\ Len(q) \in Nat
    BY <1>2
  <2> QED BY <1>2, <2>1
<1>3. CASE q # <<>> /\ q' = Tail(q)
  <2>1. PICK k \in Nat : k = Len(q) /\ k >= 1
    BY <1>3
  <2>2. Len(q') = k - 1 /\ \A i \in 1..(k - 1) : q'[i] = q[i + 1]
    BY <1>3, <2>1
  <2>3. Len(q') < n
    BY <2>1, <2>2
  <2>4. ASSUME q' # <<>> PROVE q'[Len(q')] = q[Len(q)]
    <3>1. q' \in Seq(Queued)
      BY <1>3
    <3>2. k - 1 # 0
      BY <2>2, <2>4, <3>1
    <3>3. k - 1 \in 1..(k - 1) /\ (k - 1) + 1 = k
      BY <2>1, <3>2
    <3>4. q'[k - 1] = q[(k - 1) + 1]
      BY <2>2, <3>3
    <3> QED BY <2>1, <2>2, <3>3, <3>4
  <2> QED BY <1>3, <2>3, <2>4
<1> QED BY <1>1, <1>2, <1>3 DEF Shrinks

LEMMA NotLoadedInOrder == InOrder(NotLoaded)
<1>1. Len(NotLoaded) = 1
  BY DEF NotLoaded
<1> QED BY <1>1 DEF InOrder

LEMMA RestInOrder ==
    ASSUME NEW s \in Seq(Int), InOrder(s), s # NotLoaded, s # <<>>
    PROVE  InOrder(Tail(s)) /\ Tail(s) # NotLoaded /\ (Tail(s) # <<>> => Head(s) <= Tail(s)[1])
<1>1. PICK n \in Nat : Len(s) = n /\ n >= 1
  OBVIOUS
<1>2. PICK t : t = Tail(s)
  OBVIOUS
<1>3. t \in Seq(Int) /\ Len(t) = n - 1 /\ \A i \in 1..(n - 1) : t[i] = s[i + 1]
  BY <1>1, <1>2
<1>4. /\ \A i \in 1..n : s[i] >= 0
      /\ \A i \in 1..n : i + 1 <= n => s[i] <= s[i + 1]
  BY <1>1 DEF InOrder
<1>5. \A i \in 1..(n - 1) : i + 1 \in 1..n /\ i \in 1..n
  BY <1>1
<1>6. \A i \in 1..(n - 1) : t[i] >= 0
  BY <1>3, <1>4, <1>5
<1>7. t # NotLoaded
  <2>1. ASSUME t = NotLoaded PROVE FALSE
    <3>1. Len(t) = 1 /\ t[1] = -1
      BY <2>1 DEF NotLoaded
    <3>2. 1 \in 1..(n - 1)
      BY <1>1, <1>3, <3>1
    <3>3. t[1] >= 0
      BY <1>6, <3>2
    <3> QED BY <3>1, <3>3
  <2> QED BY <2>1
<1>8. ASSUME NEW i \in 1..(n - 1), i + 1 <= n - 1 PROVE t[i] <= t[i + 1]
  <2>1. i + 1 \in 1..(n - 1) /\ i + 1 \in 1..n /\ (i + 1) + 1 <= n
    BY <1>1, <1>8
  <2>2. t[i] = s[i + 1] /\ t[i + 1] = s[(i + 1) + 1]
    BY <1>3, <1>8, <2>1
  <2> QED BY <1>4, <2>1, <2>2
<1>9. InOrder(t)
  BY <1>3, <1>6, <1>8 DEF InOrder
<1>10. ASSUME t # <<>> PROVE Head(s) <= t[1]
  <2>1. n - 1 >= 1
    BY <1>1, <1>3, <1>10
  <2>2. 1 \in 1..(n - 1) /\ 1 \in 1..n /\ 1 + 1 <= n
    BY <1>1, <2>1
  <2>3. t[1] = s[1 + 1] /\ Head(s) = s[1]
    BY <1>3, <2>2
  <2> QED BY <1>4, <2>2, <2>3
<1> QED BY <1>2, <1>7, <1>9, <1>10

LEMMA StaysPlans ==
    ASSUME BenchInv, PlanInv, Stays,
           \A o \in Proc : call'[o] = call[o] \/ call'[o].m # "schedule_dio"
                           \/ (Len(call'[o].got) = 0 /\ plan[o] # NotLoaded)
    PROVE  PlanInv'
<1>1. q \in Seq(Queued) /\ Len(q) <= Depth
  BY DEF BenchInv, LabTypes
<1>2. ASSUME NEW p \in Proc PROVE PlanOf(p)'
  <2>1. PlanOf(p) /\ plan'[p] = plan[p]
    BY DEF PlanInv, Stays
  <2>2. InOrder(plan'[p])
    BY <2>1 DEF PlanOf
  <2>3. ASSUME phase'[p] = "body", q' # <<>> PROVE Follows(plan[p])'
    <3>1. q # <<>> /\ q'[Len(q')] = q[Len(q)]
      <4>1. Len(q) < Depth + 1 /\ Depth + 1 \in Nat
        BY <1>1, LabFacts
      <4> QED BY <1>1, <2>3, <4>1, ShrinkFacts DEF Stays
    <3>2. Follows(plan[p])
      BY <2>1, <2>3, <3>1 DEF PlanOf, Stays
    <3> QED BY <2>1, <3>1, <3>2 DEF Follows
  <2>4. ASSUME call'[p].m = "schedule_dio"
        PROVE  plan'[p] # NotLoaded /\ (Len(call'[p].got) >= 1 => Len(q') < Depth)
    <3>1. CASE call'[p] = call[p]
      BY <1>1, <2>1, <2>4, <3>1, LabFacts, ShrinkFacts DEF PlanOf, Stays
    <3>2. CASE Len(call'[p].got) = 0 /\ plan[p] # NotLoaded
      BY <2>1, <3>2
    <3> QED BY <2>4, <3>1, <3>2
  <2> QED BY <2>2, <2>3, <2>4 DEF PlanOf
<1> QED BY <1>2 DEF PlanInv

(* Nobody else has a scenario under way.                                      *)
LEMMA OthersPlans ==
    ASSUME PlanInv, NEW o \in Proc, phase'[o] = "idle", call'[o] = NoCall, plan'[o] = plan[o]
    PROVE  PlanOf(o)'
BY LabFacts DEF PlanInv, PlanOf

LEMMA DropsPlans ==
    ASSUME BenchInv, PlanInv, NEW p \in Proc, Drops(p)
    PROVE  PlanInv'
<1>1. LabTypes
  BY DEF BenchInv
<1>2. ASSUME NEW o \in Proc \ {p} PROVE PlanOf(o)'
  <2>1. phase'[o] = "idle" /\ call'[o] = NoCall /\ plan'[o] = plan[o]
    BY <1>1 DEF Drops, Others, Away, LabTypes
  <2> QED BY <2>1, OthersPlans
<1>3. PlanOf(p)'
  <2>1. phase'[p] = "idle" /\ call'[p] = NoCall /\ plan'[p] = NotLoaded
    BY <1>1 DEF Drops, LabTypes
  <2> QED BY <2>1, LabFacts, NotLoadedInOrder DEF PlanOf
<1> QED BY <1>2, <1>3 DEF PlanInv

LEMMA LoadsPlans ==
    ASSUME BenchInv, PlanInv, NEW p \in Proc, Loads(p)
    PROVE  PlanInv'
<1>1. LabTypes
  BY DEF BenchInv
<1>2. PICK d \in Documents : scenario_from_dict(d) /\ plan' = [plan EXCEPT ![p] = d.steps]
  BY DEF Loads
<1>3. ASSUME NEW o \in Proc \ {p} PROVE PlanOf(o)'
  <2>1. phase'[o] = "idle" /\ call'[o] = NoCall /\ plan'[o] = plan[o]
    BY <1>1, <1>2 DEF Loads, Others, Away, LabTypes
  <2> QED BY <2>1, OthersPlans
<1>4. PlanOf(p)'
  <2>1. plan'[p] = d.steps /\ call'[p] = NoCall
    BY <1>1, <1>2 DEF Loads, LabTypes
  <2>2. q' = <<>>
    BY DEF Loads, PlanInv, PlanOf, Follows
  <2>3. InOrder(d.steps)
    <3>1. d.steps \in Seq(Int)
      BY DEF Documents
    <3>2. /\ \A i \in DOMAIN d.steps : d.steps[i] >= 0
          /\ \A i \in 2..Len(d.steps) : d.steps[i] >= d.steps[i - 1]
      BY <1>2 DEF scenario_from_dict, WellFormed
    <3>3. PICK n \in Nat : n = Len(d.steps) /\ DOMAIN d.steps = 1..n
      BY <3>1
    <3>4. ASSUME NEW i \in 1..n, i + 1 <= n PROVE d.steps[i] <= d.steps[i + 1]
      <4>1. i + 1 \in 2..n /\ (i + 1) - 1 = i /\ d.steps[i] \in Int /\ d.steps[i + 1] \in Int
        BY <3>1, <3>3, <3>4
      <4>2. d.steps[i + 1] >= d.steps[(i + 1) - 1]
        BY <3>2, <3>3, <4>1
      <4> QED BY <4>1, <4>2
    <3> QED BY <3>2, <3>3, <3>4 DEF InOrder
  <2> QED BY <2>1, <2>2, <2>3, LabFacts DEF PlanOf
<1> QED BY <1>3, <1>4 DEF PlanInv

(* The push of schedule_dio is refused for no other reason than FORCE_SAFE.    *)
LEMMA PushQueues ==
    ASSUME BenchInv, PlanInv, NEW p \in Proc, Access(p), Register(p) = "EVT_PUSH:="
    PROVE  /\ call[p].m = "schedule_dio" /\ phase[p] = "body"
           /\ plan' = [plan EXCEPT ![p] = Tail(plan[p])] /\ plan[p] # <<>> /\ plan[p] # NotLoaded
           /\ ((Safe' /\ q' = <<>>) \/ q' = Append(q, [ts |-> Head(plan[p]), own |-> TRUE]))
<1>1. LabTypes /\ Bench(p) /\ call[p].m \in Methods
  BY DEF BenchInv, Access
<1>2. PICK m \in Methods : m = call[p].m
  BY <1>1
<1>3. Here(p) \in 1..Len(Accesses(m)) /\ Register(p) = Accesses(m)[Here(p)] /\ phase[p] \in Calling
      /\ Here(p) = Len(call[p].got) + 1 /\ Len(call[p].got) \in Nat
  BY <1>1, <1>2, Under
<1>4. m = "schedule_dio" /\ Here(p) = Len(Accesses(m))
  <2>1. \A i \in 1..Len(Accesses(m)) :
           Accesses(m)[i] = "EVT_PUSH:=" => m = "schedule_dio" /\ i = Len(Accesses(m))
    BY AccessTable
  <2> QED BY <1>3, <2>1
<1>5. Len(call[p].got) >= 1
  <2>1. Len(Accesses(m)) \in Nat /\ Len(Accesses(m)) >= 2
    BY AccessTable
  <2>2. \A n \in Nat : n + 1 >= 2 => n >= 1
    OBVIOUS
  <2>3. Len(call[p].got) + 1 >= 2
    BY <1>3, <1>4, <2>1
  <2> QED BY <1>3, <2>2, <2>3
<1>6. phase[p] = "body"
  BY <1>1, <1>2, <1>3, <1>4 DEF Bench, SessionOf, Calling
<1>7. plan[p] # <<>> /\ plan[p] # NotLoaded /\ Len(q) < Depth /\ (q # <<>> => q[Len(q)].ts <= plan[p][1])
  <2>1. PlanOf(p) /\ AccessOf(p)
    BY <1>1 DEF PlanInv, Bench
  <2> QED BY <1>2, <1>4, <1>5, <1>6, <2>1 DEF PlanOf, AccessOf, Follows
<1>8. Register(p) # "CONTROL:="
  OBVIOUS
<1>9. /\ Push([ts |-> Head(plan[p]), own |-> TRUE]) /\ UNCHANGED control
      /\ plan' = [plan EXCEPT ![p] = Tail(plan[p])] /\ external' = external
  BY <1>8 DEF Access, Here, Register
<1>10. PICK e : e = [ts |-> Head(plan[p]), own |-> TRUE]
  OBVIOUS
<1>11. e.ts = plan[p][1] /\ plan[p][1] \in Int
  BY <1>1, <1>7, <1>10 DEF LabTypes
<1>12. CASE Safe
  BY <1>2, <1>4, <1>6, <1>7, <1>9, <1>12 DEF Push, NoEvents, Safe
<1>13. CASE ~Safe
  <2>1. Fifo!Serve(FALSE, {e}, FALSE)
    BY <1>9, <1>10, <1>13 DEF Push
  <2>2. q # <<>> => q[Len(q)].ts \in Int
    <3>1. q \in Seq(Queued)
      BY <1>1 DEF LabTypes
    <3>2. q # <<>> => q[Len(q)] \in Queued
      BY <3>1
    <3> QED BY <3>2 DEF Queued
  <2>3. Fifo!Fits(e)
    <3>1. ~Fifo!TooOld(e)
      BY <1>7, <1>11, <2>2 DEF Fifo!TooOld
    <3> QED BY <1>7, <3>1 DEF Fifo!Fits
  <2>4. q' = Append(q, e)
    BY <2>1, <2>3 DEF Fifo!Serve
  <2> QED BY <1>2, <1>4, <1>6, <1>7, <1>9, <1>10, <2>4
<1> QED BY <1>12, <1>13

LEMMA PushPlans ==
    ASSUME BenchInv, PlanInv, NEW p \in Proc, Access(p), Register(p) = "EVT_PUSH:=",
           call'[p] = NoCall, \A o \in Proc \ {p} : phase'[o] = "idle" /\ call'[o] = NoCall
    PROVE  PlanInv'
<1>1. LabTypes /\ PlanOf(p)
  BY DEF BenchInv, PlanInv
<1>2. PICK s, e : s = plan[p] /\ e = [ts |-> Head(s), own |-> TRUE]
  OBVIOUS
<1>3. /\ s \in Seq(Int) /\ s # <<>> /\ s # NotLoaded /\ InOrder(s) /\ e.ts = Head(s)
      /\ plan' = [plan EXCEPT ![p] = Tail(s)]
      /\ (q' = <<>> \/ q' = Append(q, e))
  BY <1>1, <1>2, PushQueues DEF LabTypes, PlanOf
<1>4. plan'[p] = Tail(s) /\ \A o \in Proc \ {p} : plan'[o] = plan[o]
  BY <1>1, <1>3 DEF LabTypes
<1>5. InOrder(Tail(s)) /\ Tail(s) # NotLoaded /\ (Tail(s) # <<>> => Head(s) <= Tail(s)[1])
  BY <1>3, RestInOrder
<1>6. PlanOf(p)'
  <2>1. ASSUME q' # <<>> PROVE q'[Len(q')] = e
    <3>1. q' = Append(q, e) /\ q \in Seq(Queued)
      BY <1>1, <1>3, <2>1 DEF LabTypes
    <3> QED BY <3>1
  <2>2. q' # <<>> => Follows(plan[p])'
    BY <1>3, <1>4, <1>5, <2>1 DEF Follows
  <2> QED BY <1>4, <1>5, <2>2, LabFacts DEF PlanOf
<1>7. ASSUME NEW o \in Proc \ {p} PROVE PlanOf(o)'
  BY <1>4, OthersPlans
<1> QED BY <1>6, <1>7 DEF PlanInv

LEMMA AccessPlans ==
    ASSUME BenchInv, PlanInv, NEW p \in Proc, Access(p)
    PROVE  PlanInv'
<1>1. LabTypes /\ call[p].m \in Methods
  BY DEF BenchInv, Access
<1>2. PICK m \in Methods : m = call[p].m
  BY <1>1
<1>3. /\ phase[p] \in Calling /\ Others(p) /\ Here(p) \in 1..Len(Accesses(m))
      /\ Register(p) = Accesses(m)[Here(p)]
      /\ Here(p) = Len(call[p].got) + 1 /\ Len(call[p].got) \in Nat /\ call[p] \in CallType
  BY <1>1, <1>2, Under DEF Others
<1>4. \A i \in 1..Len(Accesses(m)) :
         Accesses(m)[i] \in {"CONTROL:=", "EVT_PUSH:="} => i = Len(Accesses(m))
  BY AccessTable
<1>5. \A o \in Proc \ {p} : phase[o] = "idle" /\ call[o] = NoCall
  BY <1>3 DEF Others, Away
<1>6. q \in Seq(Queued) /\ Len(q) <= Depth /\ Len(q) \in Nat
  BY <1>1 DEF LabTypes
<1>7. CASE Raise(p) /\ UNCHANGED <<fifovars, plan>>
  <2>1. Stays
    BY <1>1, <1>3, <1>7, PhaseAfterRaise DEF Stays, Shrinks, fifovars
  <2>2. \A o \in Proc : call'[o] = call[o] \/ call'[o].m # "schedule_dio"
    <3>1. call'[p] \in {NoCall, force_safe} /\ \A o \in Proc \ {p} : call'[o] = call[o]
      BY <1>1, <1>3, <1>7, RaiseFacts DEF Calling
    <3> QED BY <3>1, LabFacts, ForceSafeFacts
  <2> QED BY <2>1, <2>2, StaysPlans
<1>8. CASE /\ Here(p) < Len(Accesses(call[p].m)) /\ ~Full(call[p], Register(p))
           /\ call' = [call EXCEPT ![p].got = Next32(p)] /\ UNCHANGED phase
  <2>1. UNCHANGED <<fifovars, plan>>
    BY <1>2, <1>3, <1>4, <1>8, AccessBoard
  <2>2. call'[p].m = m /\ \A o \in Proc \ {p} : call'[o] = NoCall
    BY <1>1, <1>2, <1>3, <1>5, <1>8 DEF LabTypes, CallType
  <2>3. ASSUME m = "schedule_dio" PROVE Len(q) < Depth
    <3>1. Accesses(m) = <<"EVT_STATUS", "EVT_STAGE:=", "EVT_PUSH:=">>
      BY <2>3, AccessTable
    <3>2. CASE Len(call[p].got) = 0
      <4>1. Register(p) = "EVT_STATUS"
        BY <1>3, <3>1, <3>2
      <4>2. Len(q) # Depth
        BY <1>2, <1>8, <2>3, <4>1 DEF Full
      <4> QED BY <1>6, <4>2, LabFacts
    <3>3. CASE Len(call[p].got) >= 1
      BY <1>2, <2>3, <3>3 DEF PlanInv, PlanOf
    <3>4. \A n \in Nat : n = 0 \/ n >= 1
      OBVIOUS
    <3> QED BY <1>3, <3>2, <3>3, <3>4
  <2>4. PlanOf(p) /\ plan' = plan /\ q' = q /\ phase' = phase
    BY <1>8, <2>1 DEF PlanInv, fifovars
  <2>5. PlanOf(p)'
    BY <1>2, <2>2, <2>3, <2>4 DEF PlanOf, Follows
  <2>6. ASSUME NEW o \in Proc \ {p} PROVE PlanOf(o)'
    BY <1>5, <2>2, <2>4, OthersPlans
  <2> QED BY <2>5, <2>6 DEF PlanInv
<1>9. CASE /\ call[p].m = "read_timestamp" /\ UNCHANGED phase
           /\ call' = [call EXCEPT ![p].got = <<>>, ![p].tries = @ + 1]
  <2>1. Len(Accesses(m)) = 3 /\ Accesses(m)[1] = "TIMESTAMP_HI" /\ Accesses(m)[3] = "TIMESTAMP_HI"
    BY <1>2, <1>9, AccessTable
  <2>2. Register(p) \notin {"CONTROL:=", "EVT_PUSH:="}
    BY <1>3, <1>4, <2>1
  <2>3. UNCHANGED <<fifovars, plan>>
    BY <2>2, AccessBoard
  <2>4. call'[p].m # "schedule_dio" /\ \A o \in Proc \ {p} : call'[o] = call[o]
    BY <1>1, <1>3, <1>9 DEF LabTypes, CallType
  <2>5. Stays
    BY <1>9, <2>3 DEF Stays, Shrinks, fifovars
  <2> QED BY <2>4, <2>5, StaysPlans
<1>10. CASE Here(p) = Len(Accesses(call[p].m)) /\ Continue(p)
  <2>1. /\ call'[p] = NoCall /\ \A o \in Proc \ {p} : phase'[o] = "idle" /\ call'[o] = NoCall
    BY <1>1, <1>3, <1>5, <1>10, ContinueFacts
  <2>2. CASE Register(p) = "EVT_PUSH:="
    BY <2>1, <2>2, PushPlans
  <2>3. CASE Register(p) # "EVT_PUSH:="
    <3>1. plan' = plan
      BY <2>3 DEF Access, Here, Register
    <3>2. q' = q \/ q' = <<>>
      BY <2>3 DEF Access, Here, Register, WriteControl, NoEvents, fifovars
    <3>3. CASE phase[p] # "enter"
      <4>1. Stays
        BY <1>1, <1>3, <1>5, <1>10, <2>1, <3>1, <3>2, <3>3, ContinueFacts DEF Stays, Shrinks, Calling
      <4>2. \A o \in Proc : call'[o].m # "schedule_dio"
        BY <2>1, LabFacts
      <4> QED BY <4>1, <4>2, StaysPlans
    <3>4. CASE phase[p] = "enter"
      <4>1. m = "force_safe" /\ PlanOf(p) /\ plan'[p] = plan[p]
        BY <1>2, <3>1, <3>4 DEF BenchInv, Bench, SessionOf, PlanInv
      <4>2. Here(p) = Len(Accesses(m))
        BY <1>2, <1>10
      <4>3. Register(p) = "CONTROL:="
        BY <1>1, <1>2, <1>3, <4>1, <4>2, AccessTable DEF ControlMethods
      <4>4. q' = <<>>
        BY <1>2, <4>1, <4>3, AccessBoard
      <4>5. PlanOf(p)'
        BY <2>1, <4>1, <4>4, LabFacts DEF PlanOf
      <4>6. ASSUME NEW o \in Proc \ {p} PROVE PlanOf(o)'
        BY <2>1, <3>1, OthersPlans
      <4> QED BY <4>5, <4>6 DEF PlanInv
    <3> QED BY <3>3, <3>4
  <2> QED BY <2>2, <2>3
<1> QED BY <1>7, <1>8, <1>9, <1>10, AccessCases

LEMMA PlansKept ==
    ASSUME BenchInv, PlanInv, [LabNext]_labvars
    PROVE  PlanInv'
<1>1. CASE \E p \in Proc : Drops(p) \/ Loads(p) \/ Access(p)
  BY <1>1, DropsPlans, LoadsPlans, AccessPlans
<1>2. CASE Stays /\ ~\E p \in Proc : Access(p)
  <2>1. CASE Quiet
    BY <1>2, <2>1, StaysPlans DEF Quiet
  <2>2. CASE Fresh
    <3>1. \A o \in Proc : call'[o].m # "schedule_dio"
      BY <2>2, LabFacts, ForceSafeFacts DEF Fresh
    <3> QED BY <1>2, <3>1, StaysPlans
  <2>3. ASSUME NEW p \in Proc, NEW m \in Methods, Start(p, m) PROVE PlanInv'
    <3>1. /\ call' = [call EXCEPT ![p] = NewCall(m, ticks')] /\ ticks' \in Nat
          /\ m = "schedule_dio" => plan[p] # NotLoaded
      BY <2>3, LabFacts DEF Start
    <3>2. NewCall(m, ticks').m = m /\ Len(NewCall(m, ticks').got) = 0
      BY <3>1, NewCallFacts
    <3>3. \A o \in Proc : call'[o] = call[o] \/ call'[o].m # "schedule_dio"
                          \/ (Len(call'[o].got) = 0 /\ plan[o] # NotLoaded)
      BY <3>1, <3>2 DEF BenchInv, LabTypes
    <3> QED BY <1>2, <3>3, StaysPlans
  <2> QED BY <1>2, <2>1, <2>2, <2>3, StepKinds
<1> QED BY <1>1, <1>2, QueueKinds

(* A step of the scenario is queued when schedule_dio has returned, unless      *)
(* FORCE_SAFE holds the FIFO empty: never refused for its order, never lost.   *)
THEOREM LabScheduledIsQueued == LabSpec => ScheduledIsQueued
<1> DEFINE Kept == returned'.m = "schedule_dio" /\ returned' # returned =>
                      Safe' \/ (q' # <<>> /\ q'[Len(q')].own /\ Len(q') = Len(q) + 1)
<1>1. LabInit => PlanInv
  BY LabFacts, NotLoadedInOrder DEF LabInit, PlanInv, PlanOf
<1>2. BenchInv /\ PlanInv /\ [LabNext]_labvars => PlanInv'
  BY PlansKept
<1>3. ASSUME BenchInv, PlanInv, [LabNext]_labvars PROVE Kept
  <2>1. None.m # "schedule_dio"
    BY DEF None
  <2>2. ASSUME NEW p \in Proc, Access(p), returned'.m = "schedule_dio", returned' # returned PROVE Kept
    <3>1. LabTypes /\ call[p].m \in Methods /\ call[p] \in CallType
      BY <1>3, <2>2, Under DEF BenchInv, Access
    <3>2. /\ Here(p) = Len(Accesses(call[p].m))
          /\ returned' = IF phase[p] = "body" THEN Answer(call[p], Next32(p)) ELSE None
      BY <1>3, <2>2, AccessCases
    <3>3. call[p].m = "schedule_dio"
      <4>1. returned' = Answer(call[p], Next32(p))
        BY <2>1, <2>2, <3>2
      <4> QED BY <2>2, <4>1 DEF Answer, None
    <3>4. Register(p) = "EVT_PUSH:="
      <4>1. PICK s : s = Accesses(call[p].m)
        OBVIOUS
      <4>2. s = <<"EVT_STATUS", "EVT_STAGE:=", "EVT_PUSH:=">>
        BY <3>1, <3>3, <4>1, AccessTable
      <4>3. Register(p) = s[Here(p)] /\ Here(p) = Len(s)
        BY <1>3, <3>1, <3>2, <4>1, Under
      <4> QED BY <4>2, <4>3
    <3>5. q \in Seq(Queued)
      BY <3>1 DEF LabTypes
    <3>6. PICK e : e = [ts |-> Head(plan[p]), own |-> TRUE]
      OBVIOUS
    <3>7. Safe' \/ q' = Append(q, e)
      BY <1>3, <2>2, <3>4, <3>6, PushQueues
    <3>8. ASSUME q' = Append(q, e) PROVE q' # <<>> /\ q'[Len(q')].own /\ Len(q') = Len(q) + 1
      BY <3>5, <3>6, <3>8
    <3> QED BY <3>7, <3>8
  <2>3. CASE Quiet \/ Fresh
    BY <2>1, <2>3 DEF Quiet, Fresh
  <2>4. CASE \E p \in Proc, m \in Methods : Start(p, m)
    BY <2>1, <2>4 DEF Start
  <2> QED BY <1>3, <2>2, <2>3, <2>4, StepKinds
<1>4. BenchInv /\ PlanInv /\ [LabNext]_labvars => [Kept]_labvars
  BY <1>3
<1> QED BY <1>1, <1>2, <1>4, BenchInvariant, PTL DEF LabSpec, ScheduledIsQueued
==============================================================================
