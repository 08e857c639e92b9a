----------------------- MODULE DioScenarioEngineProofs -----------------------
(***************************************************************************)
(* rtl/scenario/dio_scenario_engine.v over hil_event_queue.v is correct for *)
(* every queue depth, event alphabet, safe value and set of lines: what the *)
(* evidence registers say, how late an event may be, that FORCE_SAFE is     *)
(* final, and that the engine implements DioEventService.                   *)
(***************************************************************************)
EXTENDS MCDioScenarioEngine, HilEventQueueProofs

(* The registers of the engine and of its queue, and the last application.  *)
EngineInv ==
    /\ QueueInv
    /\ EngineTypeOK
    /\ EvidenceSound
    /\ actual_timestamp <= timestamp

(* A clock of the engine that neither flushes nor discards serves its queue. *)
LEMMA ClockServes ==
    ASSUME NEW clear_queue \in BOOLEAN, NEW clear_status \in BOOLEAN,
           NEW force_safe \in BOOLEAN, NEW enqueue \in BOOLEAN, NEW e \in Event,
           EngineClock(clear_queue, clear_status, force_safe, enqueue, e)
    PROVE  /\ event_due(clear_queue, force_safe) \in BOOLEAN
           /\ \/ (clear_queue \/ force_safe) /\ QueueClear(clear_status)
              \/ /\ ~clear_queue /\ ~force_safe
                 /\ QueueServe(clear_status, enqueue, e, event_due(clear_queue, force_safe))
           /\ QueueNext
<1>1. event_due(clear_queue, force_safe) \in BOOLEAN
  BY DEF event_due
<1>2. queue_clear(clear_queue, force_safe) \in BOOLEAN
  BY DEF queue_clear
<1>3. QueueClock(queue_clear(clear_queue, force_safe), clear_status, enqueue, e,
                 event_due(clear_queue, force_safe))
  BY DEF EngineClock
<1>4. QueueNext
  BY <1>1, <1>2, <1>3 DEF QueueNext
<1> QED BY <1>1, <1>3, <1>4 DEF QueueClock, queue_clear

(* A due head exists, is an event of the alphabet, and its tick has come.     *)
LEMMA DueHead ==
    ASSUME QueueInv, NEW clear_queue \in BOOLEAN, NEW force_safe \in BOOLEAN,
           event_due(clear_queue, force_safe)
    PROVE  /\ ~clear_queue /\ ~force_safe
           /\ count >= 1 /\ head = Nth(1) /\ head \in Event /\ head.ts <= timestamp
<1>1. count \in 0..DEPTH /\ read_ptr \in Slots /\ mem \in [Slots -> Event]
  BY DEF QueueInv, QueueTypeOK
<1>2. After(read_ptr, 0) = read_ptr
  BY <1>1, DepthAssumption DEF After, Slots
<1>3. Nth(1) = mem[read_ptr]
  BY <1>2 DEF Nth
<1>4. ~empty /\ ~clear_queue /\ ~force_safe /\ timestamp >= head.ts
  BY DEF event_due
<1>5. head \in Event /\ head.ts \in Nat
  BY <1>1, EventAssumption DEF head
<1> QED BY <1>1, <1>3, <1>4, <1>5 DEF empty, head

(* Every clock of the engine is a clock or a stutter of its queue.            *)
LEMMA EngineStepIsQueueStep == [EngineNext]_evars => [QueueNext]_qvars
<1> SUFFICES ASSUME [EngineNext]_evars PROVE [QueueNext]_qvars
  OBVIOUS
<1>1. CASE EngineReset
  BY <1>1 DEF EngineReset, QueueNext
<1>2. ASSUME NEW clear_queue \in BOOLEAN, NEW clear_status \in BOOLEAN,
             NEW force_safe \in BOOLEAN, NEW enqueue \in BOOLEAN, NEW e \in Event,
             EngineClock(clear_queue, clear_status, force_safe, enqueue, e)
      PROVE  QueueNext
  BY <1>2, ClockServes
<1>3. CASE UNCHANGED evars
  BY <1>3 DEF evars
<1> QED BY <1>1, <1>2, <1>3 DEF EngineNext

(* The lines an event drives are lines of the engine. *)
LEMMA MaskedType ==
    ASSUME NEW out \in SUBSET Line, NEW e \in Event PROVE Masked(out, e) \subseteq Line
<1>1. e.value \subseteq Line /\ e.mask \subseteq Line
  BY EventAssumption
<1> QED BY <1>1 DEF Masked

(* The lateness latch holds a Boolean after any clock. *)
LEMMA LateClockType ==
    ASSUME NEW clear_status, NEW late, LateClock(clear_status, late)
    PROVE  late_event_latched' \in BOOLEAN
BY Zenon DEF LateClock

(* EngineInv is inductive. *)
LEMMA EngineInvInductive == EngineInv /\ [EngineNext]_evars => EngineInv'
<1> SUFFICES ASSUME EngineInv, [EngineNext]_evars PROVE EngineInv'
  OBVIOUS
<1>1. QueueInv'
  BY EngineStepIsQueueStep, QueueInvInductive DEF EngineInv
<1>2. QueueTypeOK'
  BY <1>1 DEF QueueInv
<1>3. CASE EngineReset
  <2>1. /\ timestamp' = 0 /\ actual_timestamp' = 0 /\ requested_timestamp' = 0
        /\ late_ticks' = 0 /\ applied_event_id' = 0 /\ dio_out' = {}
        /\ event_applied_pulse' = FALSE /\ late_event_latched' = FALSE
    BY <1>3 DEF EngineReset
  <2>2. event_applied_pulse' \in BOOLEAN /\ late_event_latched' \in BOOLEAN
    BY <2>1
  <2>3. EngineTypeOK'
    BY <1>2, <2>1, <2>2, EngineAssumption DEF EngineTypeOK
  <2> QED BY <1>1, <2>1, <2>3 DEF EngineInv, EvidenceSound
<1>4. ASSUME NEW clear_queue \in BOOLEAN, NEW clear_status \in BOOLEAN,
             NEW force_safe \in BOOLEAN, NEW enqueue \in BOOLEAN, NEW e \in Event,
             EngineClock(clear_queue, clear_status, force_safe, enqueue, e)
      PROVE  EngineInv'
  <2>1. timestamp \in 0..MaxTime /\ timestamp < MaxTime /\ timestamp' = timestamp + 1
           /\ MaxTime \in Nat
    BY <1>4, EngineAssumption DEF EngineClock, EngineInv, EngineTypeOK
  <2>2. ASSUME dio_out' \subseteq Line, LateClock(clear_status, FALSE),
               event_applied_pulse' = FALSE,
               UNCHANGED <<applied_event_id, requested_timestamp, actual_timestamp, late_ticks>>
        PROVE  EngineInv'
    <3>1. late_event_latched' \in BOOLEAN /\ event_applied_pulse' \in BOOLEAN
      BY <2>2, LateClockType
    <3>2. EngineTypeOK'
      BY <1>2, <2>1, <2>2, <3>1 DEF EngineInv, EngineTypeOK
    <3>3. EvidenceSound' /\ (actual_timestamp <= timestamp)'
      BY <2>1, <2>2 DEF EngineInv, EngineTypeOK, EvidenceSound
    <3> QED BY <1>1, <3>2, <3>3 DEF EngineInv
  <2>3. CASE HoldSafe(clear_status) \/ Idle(clear_status)
    BY <2>2, <2>3, EngineAssumption DEF HoldSafe, Idle, EngineInv, EngineTypeOK
  <2>4. CASE event_due(clear_queue, force_safe) /\ ApplyHead(clear_status)
    <3>1. head \in Event /\ head.ts <= timestamp
      BY <2>4, DueHead DEF EngineInv
    <3>2. head.ts \in Nat /\ head.id \in Nat
      BY <3>1, EventAssumption
    <3>3. dio_out' \subseteq Line
      BY <2>4, <3>1, MaskedType DEF ApplyHead, EngineInv, EngineTypeOK
    <3>4. /\ event_applied_pulse' = TRUE /\ applied_event_id' = head.id
          /\ requested_timestamp' = head.ts /\ actual_timestamp' = timestamp
          /\ late_ticks' = timestamp - head.ts
          /\ LateClock(clear_status, timestamp > head.ts)
      BY <2>4 DEF ApplyHead
    <3>5. late_event_latched' \in BOOLEAN /\ (timestamp > head.ts => late_event_latched')
      <4>1. timestamp > head.ts => late_event_latched'
        BY <3>4 DEF LateClock
      <4> QED BY <3>4, <4>1, LateClockType
    <3>6. EngineTypeOK'
      BY <1>2, <2>1, <3>1, <3>2, <3>3, <3>4, <3>5 DEF EngineTypeOK
    <3>7. EvidenceSound' /\ (actual_timestamp <= timestamp)'
      BY <2>1, <3>1, <3>2, <3>4, <3>5 DEF EvidenceSound
    <3> QED BY <1>1, <3>6, <3>7 DEF EngineInv
  <2> QED BY <1>4, <2>3, <2>4 DEF EngineClock
<1>5. CASE UNCHANGED evars
  BY <1>1, <1>2, <1>5 DEF evars, statusvars, EngineInv, EngineTypeOK, EvidenceSound
<1> QED BY <1>3, <1>4, <1>5 DEF EngineNext

(* The registers of the engine start as EngineInv says. *)
LEMMA EngineInitInv == EngineInit => EngineInv
<1> SUFFICES ASSUME EngineInit PROVE EngineInv
  OBVIOUS
<1>1. QueueInv
  BY QueueInitInv DEF EngineInit
<1>2. EngineTypeOK
  <2>1. event_applied_pulse \in BOOLEAN /\ late_event_latched \in BOOLEAN
    BY DEF EngineInit
  <2> QED BY <1>1, <2>1, EngineAssumption DEF EngineInit, QueueInv, EngineTypeOK
<1> QED BY <1>1, <1>2 DEF EngineInit, EngineInv, EvidenceSound
------------------------------------------------------------------------------
(* The clocks of the engine, as steps of the service of DioEventService.    *)
LEMMA EngineStepServes ==
    EngineInv /\ [EngineNext]_evars => [Service!ServiceNext]_(Service!svars)
<1> SUFFICES ASSUME EngineInv, [EngineNext]_evars
             PROVE  [Service!ServiceNext]_(Service!svars)
  OBVIOUS
<1>0. ASSUME NEW clear_errors \in BOOLEAN, QueueClear(clear_errors)
      PROVE  contents' = <<>>
  BY <1>0 DEF QueueClear, contents
<1>1. CASE EngineReset
  BY <1>0, <1>1 DEF EngineReset, QueueReset, Service!ServiceNext, Service!Reset
<1>2. ASSUME NEW clear_queue \in BOOLEAN, NEW clear_status \in BOOLEAN,
             NEW force_safe \in BOOLEAN, NEW enqueue \in BOOLEAN, NEW e \in Event,
             EngineClock(clear_queue, clear_status, force_safe, enqueue, e)
      PROVE  Service!ServiceNext
  <2> DEFINE due == event_due(clear_queue, force_safe)
  <2>0. \/ (clear_queue \/ force_safe) /\ QueueClear(clear_status)
        \/ ~clear_queue /\ ~force_safe /\ QueueServe(clear_status, enqueue, e, due)
    BY <1>2, ClockServes
  <2>1. timestamp' >= timestamp
    BY <1>2 DEF EngineClock, EngineInv, EngineTypeOK
  <2>2. CASE force_safe
    <3>1. QueueClear(clear_status)
      BY <2>0, <2>2
    <3>2. HoldSafe(clear_status)
      BY <1>2, <2>2 DEF EngineClock, event_due
    <3>3. Service!GoSafe
      BY <1>0, <2>1, <3>1, <3>2 DEF HoldSafe, Service!GoSafe
    <3> QED BY <3>3 DEF Service!ServiceNext
  <2>3. CASE clear_queue /\ ~force_safe
    <3>1. QueueClear(clear_status)
      BY <2>0, <2>3
    <3>2. Idle(clear_status)
      BY <1>2, <2>3 DEF EngineClock, event_due
    <3>3. Service!Discard
      BY <1>0, <2>1, <3>1, <3>2 DEF Idle, Service!Discard
    <3> QED BY <3>3 DEF Service!ServiceNext
  <2>4. CASE ~clear_queue /\ ~force_safe
    <3>1. due \in BOOLEAN /\ QueueServe(clear_status, enqueue, e, due)
      BY <1>2, <2>4, ClockServes
    <3>2. \E a \in Service!Arrivals :
             contents' = (IF accept_pop(due) THEN Tail(contents) ELSE contents) \o a
      BY <3>1, ServeAppends DEF EngineInv, Service!Arrivals
    <3>3. CASE due
      <4>1. count >= 1 /\ head = Nth(1) /\ head \in Event /\ head.ts <= timestamp
        BY <3>3, DueHead DEF EngineInv
      <4>2. accept_pop(due)
        BY <3>3, <4>1 DEF accept_pop, empty
      <4>3. contents # <<>> /\ Head(contents) = head
        <5>1. contents \in Seq(Event) /\ Len(contents) = count /\ contents[1] = Nth(1)
          BY <4>1, ContentsFacts DEF EngineInv, QueueInv, QueueTypeOK
        <5> QED BY <4>1, <5>1
      <4>4. dio_out' = Masked(dio_out, head)
        BY <1>2, <3>3, <2>4 DEF EngineClock, ApplyHead
      <4>5. Service!Apply
        BY <2>1, <3>2, <4>1, <4>2, <4>3, <4>4 DEF Service!Apply, Masked
      <4> QED BY <4>5 DEF Service!ServiceNext
    <3>4. CASE ~due
      <4>1. ~accept_pop(due) /\ dio_out' = dio_out
        BY <1>2, <2>4, <3>4 DEF EngineClock, Idle, accept_pop
      <4>2. Service!Accept
        BY <2>1, <3>2, <4>1 DEF Service!Accept
      <4> QED BY <4>2 DEF Service!ServiceNext
    <3> QED BY <3>3, <3>4
  <2> QED BY <2>2, <2>3, <2>4
<1>3. CASE UNCHANGED evars
  BY <1>3 DEF evars, qvars, ringvars, Service!svars, contents, Nth
<1> QED BY <1>1, <1>2, <1>3 DEF EngineNext

(* The steps of the model-checking instance are steps of the engine. *)
LEMMA InstanceSteps ==
    [MCNext]_<<evars, tag, applied, lastSafe>> => [EngineNext]_evars
BY DEF MCNext, MCReset, MCClock, EngineNext

(* The engine keeps EngineInv, alone and with the history variables. *)
LEMMA EngineAlways == /\ EngineSpec => []EngineInv
                      /\ MCSpec => []EngineInv
<1>1. MCInit => EngineInit
  BY DEF MCInit
<1> QED BY <1>1, InstanceSteps, EngineInitInv, EngineInvInductive, PTL DEF EngineSpec, MCSpec

(* The queue inside the engine is correct: its pointers and counter agree and *)
(* its events are ordered by timestamp, whatever the engine asks of it.       *)
THEOREM EngineQueueCorrect == EngineSpec => []QueueInv
<1>1. EngineInv => QueueInv
  BY DEF EngineInv
<1> QED BY <1>1, EngineAlways, PTL

(* dio_scenario_engine.v over hil_event_queue.v implements DioEventService:   *)
(* every accepted event changes exactly its masked lines, once, in the order  *)
(* of acceptance and never early; only FORCE_SAFE, clear_queue and the reset  *)
(* drop events.                                                              *)
THEOREM EngineImplementsDioService == EngineSpec => EngineImplementsService
<1>1. EngineInit => Service!ServiceInit
  BY DEF EngineInit, QueueInit, contents, Service!ServiceInit
<1> QED BY <1>1, EngineStepServes, EngineAlways, PTL
        DEF EngineSpec, EngineImplementsService, Service!ServiceSpec

(* An event applied out of timestamp order is always reported late.          *)
THEOREM EngineReportsReordering == EngineSpec => ReorderIsReported
<1> DEFINE Reported == event_applied_pulse' /\ requested_timestamp' < requested_timestamp
                          => late_ticks' > 0 /\ late_event_latched'
<1>1. EngineInv /\ EngineNext => Reported
  <2> SUFFICES ASSUME EngineInv, EngineNext, event_applied_pulse',
                      requested_timestamp' < requested_timestamp
               PROVE  late_ticks' > 0 /\ late_event_latched'
    OBVIOUS
  <2>1. PICK clear_queue, clear_status, force_safe, enqueue \in BOOLEAN, e \in Event :
           EngineClock(clear_queue, clear_status, force_safe, enqueue, e)
    BY DEF EngineNext, EngineReset
  <2>a. ~HoldSafe(clear_status) /\ ~Idle(clear_status)
    BY DEF HoldSafe, Idle
  <2>2. event_due(clear_queue, force_safe) /\ ApplyHead(clear_status)
    BY <2>1, <2>a DEF EngineClock
  <2>3. head \in Event /\ head.ts \in Nat /\ timestamp \in Nat
    BY <2>2, DueHead, EventAssumption, EngineAssumption DEF EngineInv, EngineTypeOK
  <2>4. head.ts < requested_timestamp /\ requested_timestamp <= timestamp
           /\ requested_timestamp \in Nat
    BY <2>2, EngineAssumption DEF ApplyHead, EngineInv, EvidenceSound, EngineTypeOK
  <2>5. timestamp > head.ts
    BY <2>3, <2>4
  <2>6. late_event_latched'
    BY <2>2, <2>5 DEF ApplyHead, LateClock
  <2>7. late_ticks' = timestamp - head.ts
    BY <2>2 DEF ApplyHead
  <2> QED BY <2>3, <2>5, <2>6, <2>7
<1>2. EngineInv /\ [EngineNext]_evars => [Reported]_evars
  BY <1>1
<1> QED BY <1>2, EngineAlways, PTL DEF EngineSpec, ReorderIsReported
------------------------------------------------------------------------------
(* The stamp beside the i-th oldest event. *)
Stamp(i) == tag[After(read_ptr, i - 1)]

(* What a queued event may rely on: it was accepted after the last FORCE_SAFE, *)
(* at least as many events were ahead of it then as are now, and it is still  *)
(* in time if each event ahead of it takes one more clock.                    *)
Waits(i) ==
    /\ lastSafe < Stamp(i).at /\ Stamp(i).at < timestamp
    /\ i - 1 <= Stamp(i).ahead
    /\ timestamp + (i - 1) <= BiggerOf(Nth(i).ts, Stamp(i).at + 1) + Stamp(i).ahead

StampType == [at : Nat, ahead : Nat]

HistoryInv ==
    /\ tag \in [Slots -> StampType] /\ applied \in StampType
    /\ lastSafe \in Int /\ -1 <= lastSafe /\ lastSafe < timestamp
    /\ \A i \in 1..count : Waits(i)
    /\ LatenessBounded
    /\ SafeIsFinal

(* The stamps follow their events through the ring. *)
LEMMA StampsFollow ==
    ASSUME EngineInv, HistoryInv,
           NEW clear_errors \in BOOLEAN, NEW push \in BOOLEAN, NEW pop \in BOOLEAN,
           NEW e \in Event, QueueServe(clear_errors, push, e, pop),
           NEW put, put = IF accept_push(push, e) THEN 1 ELSE 0,
           NEW get, get = IF accept_pop(pop) THEN 1 ELSE 0,
           tag' = IF put = 1
                  THEN [tag EXCEPT ![write_ptr] = [at |-> timestamp, ahead |-> count]]
                  ELSE tag
    PROVE  /\ put \in 0..1 /\ get \in 0..1 /\ count' = count - get + put /\ get <= count
           /\ \A i \in 1..(count - get) :
                 /\ Nth(i)' = mem[After(read_ptr, i + get - 1)]
                 /\ Stamp(i)' = tag[After(read_ptr, i + get - 1)]
           /\ \A i \in Nat : put = 1 /\ i - 1 = count - get =>
                 /\ Nth(i)' = e
                 /\ Stamp(i)' = [at |-> timestamp, ahead |-> count]
<1>1. QueueTypeOK /\ PointersAgree
  BY DEF EngineInv, QueueInv
<1>2. /\ put \in 0..1 /\ get \in 0..1
      /\ count' = count - get + put
      /\ count + put <= DEPTH /\ get <= count
      /\ read_ptr' = After(read_ptr, get)
      /\ \A i \in 1..(count - get) :
            mem'[After(read_ptr', i - 1)] = mem[After(read_ptr, i + get - 1)]
      /\ put = 1 => mem'[After(read_ptr', count - get)] = e
  <2>1. /\ put \in 0..1 /\ get \in 0..1
        /\ count' = count - get + put
        /\ count + put <= DEPTH /\ get <= count
    BY <1>1, ServeContents
  <2>2. read_ptr' = After(read_ptr, get)
    BY <1>1, ServeContents
  <2>3. /\ \A i \in 1..(count - get) :
              mem'[After(read_ptr', i - 1)] = mem[After(read_ptr, i + get - 1)]
        /\ put = 1 => mem'[After(read_ptr', count - get)] = e
    BY <1>1, ServeContents
  <2> QED BY <2>1, <2>2, <2>3
<1>3. read_ptr \in Slots /\ count \in 0..DEPTH /\ write_ptr = After(read_ptr, count)
         /\ tag \in [Slots -> StampType]
  BY <1>1 DEF QueueTypeOK, PointersAgree, HistoryInv
<1>4. /\ \A i \in 1..(count - get) :
            /\ After(After(read_ptr, get), i - 1) = After(read_ptr, i + get - 1)
            /\ After(read_ptr, i + get - 1) \in Slots
            /\ put = 1 => After(read_ptr, i + get - 1) # After(read_ptr, count)
      /\ After(read_ptr, count) \in Slots
      /\ put = 1 => After(After(read_ptr, get), count - get) = After(read_ptr, count)
  BY <1>2, <1>3, SlotsFollow
<1>5. /\ \A i \in 1..(count - get) :
            tag'[After(read_ptr', i - 1)] = tag[After(read_ptr, i + get - 1)]
      /\ put = 1 => tag'[After(read_ptr', count - get)] = [at |-> timestamp, ahead |-> count]
  BY <1>2, <1>3, <1>4
<1>8. ASSUME NEW i \in 1..(count - get)
      PROVE  /\ Nth(i)' = mem[After(read_ptr, i + get - 1)]
             /\ Stamp(i)' = tag[After(read_ptr, i + get - 1)]
  BY <1>2, <1>5 DEF Nth, Stamp
<1>9. ASSUME NEW i \in Nat, put = 1, i - 1 = count - get
      PROVE  Nth(i)' = e /\ Stamp(i)' = [at |-> timestamp, ahead |-> count]
  BY <1>2, <1>5, <1>9 DEF Nth, Stamp
<1> QED BY <1>2, <1>8, <1>9

(* Serving the queue keeps the promises made to every waiting event.        *)
LEMMA ServeKeepsWaits ==
    ASSUME EngineInv, HistoryInv,
           NEW clear_errors \in BOOLEAN, NEW push \in BOOLEAN, NEW pop \in BOOLEAN,
           NEW e \in Event, QueueServe(clear_errors, push, e, pop),
           pop \/ empty \/ timestamp < Nth(1).ts,
           tag' = IF accept_push(push, e)
                  THEN [tag EXCEPT ![write_ptr] = [at |-> timestamp, ahead |-> count]]
                  ELSE tag,
           timestamp' = timestamp + 1, lastSafe' = lastSafe,
           NEW i \in 1..count'
    PROVE  Waits(i)'
<1>p. PICK put : put = IF accept_push(push, e) THEN 1 ELSE 0
  OBVIOUS
<1>g. PICK get : get = IF accept_pop(pop) THEN 1 ELSE 0
  OBVIOUS
<1>1. /\ put \in 0..1 /\ get \in 0..1 /\ count' = count - get + put /\ get <= count
      /\ \A j \in 1..(count - get) :
            /\ Nth(j)' = mem[After(read_ptr, j + get - 1)]
            /\ Stamp(j)' = tag[After(read_ptr, j + get - 1)]
      /\ \A j \in Nat : put = 1 /\ j - 1 = count - get =>
            /\ Nth(j)' = e
            /\ Stamp(j)' = [at |-> timestamp, ahead |-> count]
  <2>1. tag' = IF put = 1
               THEN [tag EXCEPT ![write_ptr] = [at |-> timestamp, ahead |-> count]]
               ELSE tag
    BY <1>p
  <2> QED BY <1>p, <1>g, <2>1, StampsFollow
<1>2. /\ timestamp \in Nat /\ lastSafe \in Int /\ lastSafe < timestamp
      /\ count \in 0..DEPTH /\ read_ptr \in Slots
      /\ mem \in [Slots -> Event] /\ tag \in [Slots -> StampType]
      /\ \A x \in Event : x.ts \in Nat
  BY EventAssumption, EngineAssumption
     DEF EngineInv, QueueInv, QueueTypeOK, EngineTypeOK, HistoryInv
<1>3. CASE i <= count - get
  <2>1. PICK j : j = i + get
    OBVIOUS
  <2>2. j \in 1..count /\ i \in 1..(count - get) /\ i + get - 1 = j - 1
    BY <1>1, <1>2, <1>3, <2>1
  <2>3. Nth(i)' = Nth(j) /\ Stamp(i)' = Stamp(j)
    <3>1. /\ Nth(i)' = mem[After(read_ptr, i + get - 1)]
          /\ Stamp(i)' = tag[After(read_ptr, i + get - 1)]
      BY <1>1, <2>2
    <3> QED BY <3>1, <2>2, Zenon DEF Nth, Stamp
  <2>4. Nth(j) \in Event /\ Stamp(j) \in StampType
    <3>1. j - 1 \in 0..DEPTH
      BY <1>2, <2>2, DepthAssumption
    <3> QED BY <1>2, <3>1, AfterFacts DEF Nth, Stamp
  <2>5. Waits(j)
    BY <2>2 DEF HistoryInv
  <2>6. PICK ts, at, ahead \in Nat : /\ ts = Nth(j).ts
                                     /\ at = Stamp(j).at /\ ahead = Stamp(j).ahead
    BY <1>2, <2>4 DEF StampType
  <2>7. /\ lastSafe < at /\ at < timestamp /\ j - 1 <= ahead
        /\ timestamp + (j - 1) <= BiggerOf(ts, at + 1) + ahead
    BY <2>5, <2>6 DEF Waits
  <2>8. timestamp + 1 + (i - 1) <= BiggerOf(ts, at + 1) + ahead /\ i - 1 <= ahead
    <3>1. CASE get = 1
      BY <1>1, <1>2, <2>1, <2>2, <2>6, <2>7, <3>1 DEF BiggerOf
    <3>2. CASE get = 0
      <4>1. ~empty /\ ~pop /\ count \in 1..DEPTH
        BY <1>g, <1>2, <2>2, <3>2 DEF accept_pop, empty
      <4>2. Nth(1).ts <= Nth(j).ts /\ Nth(1) \in Event
        <5>1. 1 \in 1..count /\ 1 <= j /\ 1 - 1 \in 0..DEPTH
          BY <1>2, <2>2, <4>1, DepthAssumption
        <5>2. Nth(1) \in Event
          BY <1>2, <5>1, AfterFacts DEF Nth
        <5>3. Nth(1).ts <= Nth(j).ts
          BY <2>2, <5>1 DEF EngineInv, QueueInv, TimestampOrdered
        <5> QED BY <5>2, <5>3
      <4>3. timestamp < ts
        BY <1>2, <2>4, <2>6, <4>1, <4>2
      <4> QED BY <1>2, <2>1, <2>2, <2>6, <2>7, <3>2, <4>3 DEF BiggerOf
    <3> QED BY <3>1, <3>2, <1>1
  <2>9. lastSafe < at /\ at < timestamp + 1
    BY <1>2, <2>6, <2>7
  <2>10. /\ ts = Nth(i)'.ts /\ at = Stamp(i)'.at /\ ahead = Stamp(i)'.ahead
    BY <2>3, <2>6
  <2> QED BY <2>8, <2>9, <2>10 DEF Waits
<1>4. CASE i > count - get
  <2>1. put = 1 /\ i \in Nat /\ i - 1 = count - get
    BY <1>1, <1>2, <1>4
  <2>2. Nth(i)' = e /\ Stamp(i)' = [at |-> timestamp, ahead |-> count]
    BY <1>1, <2>1
  <2>3. Nth(i)'.ts \in Nat /\ Stamp(i)'.at = timestamp /\ Stamp(i)'.ahead = count
    BY <1>2, <2>2
  <2>4. PICK ts \in Nat : ts = Nth(i)'.ts
    BY <2>3
  <2>5. timestamp + 1 + (i - 1) <= BiggerOf(ts, timestamp + 1) + count /\ i - 1 <= count
    BY <1>1, <1>2, <2>1 DEF BiggerOf
  <2> QED BY <1>2, <2>3, <2>4, <2>5 DEF Waits
<1> QED BY <1>1, <1>2, <1>3, <1>4

mcvars == <<evars, tag, applied, lastSafe>>

(* HistoryInv is inductive relative to EngineInv. *)
LEMMA HistoryInvInductive ==
    EngineInv /\ HistoryInv /\ [MCNext]_mcvars => HistoryInv'
<1> SUFFICES ASSUME EngineInv, HistoryInv, [MCNext]_mcvars PROVE HistoryInv'
  OBVIOUS
<1>1. CASE MCReset
  <2>1. /\ count' = 0 /\ timestamp' = 0 /\ event_applied_pulse' = FALSE
        /\ tag' = [s \in Slots |-> NoTag] /\ applied' = NoTag /\ lastSafe' = -1
    BY <1>1 DEF MCReset, EngineReset, QueueReset, QueueClear
  <2>2. NoTag \in StampType
    BY DEF NoTag, StampType
  <2> QED BY <2>1, <2>2
          DEF HistoryInv, LatenessBounded, SafeIsFinal, NothingSurvivesSafe, SafeUntilNewEvent
<1>2. ASSUME NEW clear_queue \in BOOLEAN, NEW clear_status \in BOOLEAN,
             NEW force_safe \in BOOLEAN, NEW enqueue \in BOOLEAN, NEW e \in Event,
             MCClock(clear_queue, clear_status, force_safe, enqueue, e)
      PROVE  HistoryInv'
  <2> DEFINE due == event_due(clear_queue, force_safe)
             new == [at |-> timestamp, ahead |-> count]
  <2>1. /\ EngineClock(clear_queue, clear_status, force_safe, enqueue, e)
        /\ tag' = IF ~(clear_queue \/ force_safe) /\ accept_push(enqueue, e)
                  THEN [tag EXCEPT ![write_ptr] = new] ELSE tag
        /\ applied' = IF event_applied_pulse' THEN tag[read_ptr] ELSE applied
        /\ lastSafe' = IF force_safe THEN timestamp ELSE lastSafe
    BY <1>2 DEF MCClock, queue_clear
  <2>2. /\ timestamp \in Nat /\ timestamp' = timestamp + 1
        /\ lastSafe \in Int /\ -1 <= lastSafe /\ lastSafe < timestamp
        /\ count \in 0..DEPTH /\ read_ptr \in Slots
        /\ tag \in [Slots -> StampType] /\ applied \in StampType
        /\ actual_timestamp \in Nat /\ actual_timestamp <= timestamp
    BY <2>1, EngineAssumption
       DEF EngineClock, EngineInv, EngineTypeOK, QueueInv, QueueTypeOK, HistoryInv
  <2>3. \/ (clear_queue \/ force_safe) /\ QueueClear(clear_status)
        \/ ~clear_queue /\ ~force_safe /\ QueueServe(clear_status, enqueue, e, due)
    BY <2>1, ClockServes
  <2>4. due \in BOOLEAN
    BY DEF event_due
  <2>5. tag' \in [Slots -> StampType] /\ applied' \in StampType
    <3>1. new \in StampType /\ tag[read_ptr] \in StampType
      BY <2>2 DEF StampType
    <3> HIDE DEF new
    <3> QED BY <2>1, <2>2, <3>1
  <2>6. lastSafe' \in Int /\ -1 <= lastSafe' /\ lastSafe' < timestamp'
    BY <2>1, <2>2
  <2>7. \A i \in 1..count' : Waits(i)'
    <3>1. CASE QueueClear(clear_status)
      BY <3>1 DEF QueueClear
    <3>2. CASE ~clear_queue /\ ~force_safe /\ QueueServe(clear_status, enqueue, e, due)
      <4>1. due \/ empty \/ timestamp < Nth(1).ts
        <5>1. Nth(1) = head /\ head \in Event /\ head.ts \in Nat
          <6>1. After(read_ptr, 1 - 1) = read_ptr
            BY <2>2, DepthAssumption DEF After, Slots
          <6> QED BY <6>1, <2>2, EventAssumption
                  DEF Nth, head, EngineInv, QueueInv, QueueTypeOK
        <5> QED BY <3>2, <2>2, <5>1 DEF event_due
      <4>2. tag' = IF accept_push(enqueue, e) THEN [tag EXCEPT ![write_ptr] = new] ELSE tag
        BY <2>1, <3>2
      <4>3. lastSafe' = lastSafe
        BY <2>1, <3>2
      <4> QED BY <2>2, <2>4, <3>2, <4>1, <4>2, <4>3, ServeKeepsWaits
    <3> QED BY <2>3, <3>1, <3>2
  <2>8. CASE due /\ ApplyHead(clear_status)
    <3>1. /\ ~force_safe /\ count >= 1 /\ head = Nth(1) /\ head \in Event
      BY <2>8, DueHead DEF EngineInv
    <3>2. /\ event_applied_pulse' = TRUE /\ requested_timestamp' = head.ts
          /\ actual_timestamp' = timestamp /\ applied' = tag[read_ptr] /\ lastSafe' = lastSafe
      BY <2>1, <2>8, <3>1 DEF ApplyHead
    <3>3. Waits(1) /\ Stamp(1) = tag[read_ptr]
      <4>1. 1 \in 1..count /\ After(read_ptr, 1 - 1) = read_ptr
        BY <2>2, <3>1, DepthAssumption DEF After, Slots
      <4> QED BY <4>1 DEF HistoryInv, Stamp
    <3>4. PICK ts, at, ahead \in Nat : /\ ts = head.ts
                                       /\ at = tag[read_ptr].at /\ ahead = tag[read_ptr].ahead
      BY <2>2, <3>1, EventAssumption DEF StampType
    <3>5. lastSafe < at /\ timestamp <= BiggerOf(ts, at + 1) + ahead
      BY <2>2, <3>1, <3>3, <3>4 DEF Waits
    <3>6. LatenessBounded'
      BY <3>2, <3>4, <3>5 DEF LatenessBounded
    <3>7. NothingSurvivesSafe'
      BY <2>2, <3>2, <3>4, <3>5 DEF NothingSurvivesSafe
    <3>8. SafeUntilNewEvent'
      BY <2>2, <3>2 DEF SafeUntilNewEvent
    <3> QED BY <2>5, <2>6, <2>7, <3>6, <3>7, <3>8 DEF HistoryInv, SafeIsFinal
  <2>9. CASE force_safe /\ HoldSafe(clear_status)
    <3>1. event_applied_pulse' = FALSE /\ dio_out' = SafeValue
      BY <2>9 DEF HoldSafe
    <3> QED BY <2>5, <2>6, <2>7, <3>1
            DEF HistoryInv, LatenessBounded, SafeIsFinal, NothingSurvivesSafe, SafeUntilNewEvent
  <2>10. CASE ~force_safe /\ ~due /\ Idle(clear_status)
    <3>1. /\ event_applied_pulse' = FALSE /\ dio_out' = dio_out /\ lastSafe' = lastSafe
          /\ actual_timestamp' = actual_timestamp
      BY <2>1, <2>10 DEF Idle
    <3> QED BY <2>5, <2>6, <2>7, <3>1
            DEF HistoryInv, LatenessBounded, SafeIsFinal, NothingSurvivesSafe, SafeUntilNewEvent
  <2> QED BY <2>1, <2>8, <2>9, <2>10 DEF EngineClock
<1>3. CASE UNCHANGED mcvars
  <2>1. /\ UNCHANGED <<mem, read_ptr, count, tag, applied, lastSafe, timestamp, dio_out>>
        /\ UNCHANGED <<event_applied_pulse, requested_timestamp, actual_timestamp>>
    BY <1>3 DEF mcvars, evars, qvars, ringvars, statusvars
  <2>2. \A i : Waits(i)' <=> Waits(i)
    BY <2>1 DEF Waits, Stamp, Nth
  <2> QED BY <2>1, <2>2
          DEF HistoryInv, LatenessBounded, SafeIsFinal, NothingSurvivesSafe, SafeUntilNewEvent
<1> QED BY <1>1, <1>2, <1>3 DEF MCNext

(* No history at the start. *)
LEMMA HistoryInit == MCInit => HistoryInv
<1> SUFFICES ASSUME MCInit PROVE HistoryInv
  OBVIOUS
<1>1. /\ count = 0 /\ timestamp = 0 /\ event_applied_pulse = FALSE
      /\ tag = [s \in Slots |-> NoTag] /\ applied = NoTag /\ lastSafe = -1
  BY DEF MCInit, EngineInit, QueueInit
<1>2. NoTag \in StampType
  BY DEF NoTag, StampType
<1> QED BY <1>1, <1>2
        DEF HistoryInv, LatenessBounded, SafeIsFinal, NothingSurvivesSafe, SafeUntilNewEvent

(* The history variables keep HistoryInv. *)
LEMMA HistoryAlways == MCSpec => []HistoryInv
BY HistoryInit, HistoryInvInductive, EngineAlways, PTL DEF MCSpec, mcvars

(* What the registers of dio_scenario_engine.v say of an application is true, *)
(* it is never early, a late one is latched, and it is at most one clock late *)
(* for each event that was ahead of it in the queue.                          *)
THEOREM EngineTimelineSound == MCSpec => []TimelineSound
<1>1. EngineInv /\ HistoryInv => TimelineSound
  BY DEF EngineInv, HistoryInv, TimelineSound
<1> QED BY <1>1, EngineAlways, HistoryAlways, PTL

(* FORCE_SAFE is final: no event accepted before or during it is applied      *)
(* after it, and the outputs stay at safe_value until an event accepted after *)
(* it is applied.                                                             *)
THEOREM EngineSafeIsFinal == MCSpec => []SafeIsFinal
<1>1. HistoryInv => SafeIsFinal
  BY DEF HistoryInv
<1> QED BY <1>1, HistoryAlways, PTL
==============================================================================
