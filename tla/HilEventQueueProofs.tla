------------------------- MODULE HilEventQueueProofs -------------------------
(***************************************************************************)
(* The event queue of rtl/scenario/hil_event_queue.v is correct for every  *)
(* DEPTH and every set of events: its inductive invariant, and the fact    *)
(* that it implements the bounded ordered sequence of TimedEventFifo.      *)
(***************************************************************************)
EXTENDS HilEventQueue, TLAPS

(* Wrapping a pointer of hil_event_queue.v keeps it inside the memories. *)
LEMMA BumpType == \A p \in Slots : Bump(p) \in Slots
BY DepthAssumption DEF Slots, Bump

(* A pointer plus an offset of at most DEPTH is a memory position, and two  *)
(* offsets below DEPTH give two positions.                                 *)
LEMMA AfterFacts ==
    ASSUME NEW p \in Slots
    PROVE  /\ \A k \in 0..DEPTH : After(p, k) \in Slots
           /\ \A k, m \in 0..(DEPTH - 1) : After(p, k) = After(p, m) => k = m
           /\ \A k \in 0..(DEPTH - 1) : After(Bump(p), k) = After(p, k + 1)
           /\ \A k \in 0..(DEPTH - 1) : Bump(After(p, k)) = After(p, k + 1)
<1>1. DEPTH \in Nat /\ DEPTH >= 1 /\ p \in Nat /\ p < DEPTH
  BY DepthAssumption DEF Slots
<1>2. \A k \in 0..DEPTH : After(p, k) \in Slots
  BY <1>1 DEF After, Slots
<1>3. \A k, m \in 0..(DEPTH - 1) : After(p, k) = After(p, m) => k = m
  BY <1>1 DEF After
<1>4. \A k \in 0..(DEPTH - 1) : After(Bump(p), k) = After(p, k + 1)
  BY <1>1 DEF After, Bump
<1>5. \A k \in 0..(DEPTH - 1) : Bump(After(p, k)) = After(p, k + 1)
  BY <1>1 DEF After, Bump
<1> QED BY <1>2, <1>3, <1>4, <1>5

(* Where the events of the ring stand after a pop (get = 1) or not and a    *)
(* push (put = 1) or not: every value kept per slot, in the memories of     *)
(* hil_event_queue.v or stamped beside them, follows its event, and the     *)
(* slot a push writes holds none of them.                                   *)
LEMMA SlotsFollow ==
    ASSUME NEW p \in Slots, NEW n \in 0..DEPTH,
           NEW put \in 0..1, NEW get \in 0..1, n + put <= DEPTH, get <= n
    PROVE  /\ \A i \in 1..(n - get) :
                 /\ After(After(p, get), i - 1) = After(p, i + get - 1)
                 /\ After(p, i + get - 1) \in Slots
                 /\ put = 1 => After(p, i + get - 1) # After(p, n)
           /\ After(p, n) \in Slots
           /\ put = 1 => After(After(p, get), n - get) = After(p, n)
<1>1. \A k \in 0..(DEPTH - 1) : k + get <= DEPTH =>
         After(After(p, get), k) = After(p, k + get)
  BY DepthAssumption DEF After, Slots
<1>2. ASSUME NEW i \in 1..(n - get)
      PROVE  /\ After(After(p, get), i - 1) = After(p, i + get - 1)
             /\ After(p, i + get - 1) \in Slots
             /\ put = 1 => After(p, i + get - 1) # After(p, n)
  <2>1. /\ i - 1 \in 0..(DEPTH - 1) /\ i + get - 1 \in 0..(DEPTH - 1)
        /\ i + get - 1 < n /\ i - 1 + get = i + get - 1 /\ i - 1 + get <= DEPTH
    BY DepthAssumption
  <2>2. After(After(p, get), i - 1) = After(p, i + get - 1)
    BY <2>1, <1>1
  <2>3. After(p, i + get - 1) \in Slots
    BY <2>1, AfterFacts, DepthAssumption
  <2>4. put = 1 => After(p, i + get - 1) # After(p, n)
    <3>1. put = 1 => n \in 0..(DEPTH - 1)
      BY DepthAssumption
    <3> QED BY <3>1, <2>1, AfterFacts, DepthAssumption
  <2> QED BY <2>2, <2>3, <2>4
<1>3. put = 1 => n - get \in 0..(DEPTH - 1) /\ n - get + get = n /\ n <= DEPTH
  BY DepthAssumption
<1> QED BY <1>1, <1>2, <1>3, AfterFacts

(* QueueServe keeps the types of the registers of hil_event_queue.v.      *)
LEMMA ServeType ==
    ASSUME QueueTypeOK,
           NEW clear_errors \in BOOLEAN, NEW push \in BOOLEAN, NEW pop \in BOOLEAN,
           NEW e \in Event, QueueServe(clear_errors, push, e, pop)
    PROVE  QueueTypeOK'
<1>1. mem' \in [Slots -> Event] /\ write_ptr' \in Slots /\ read_ptr' \in Slots
  BY BumpType DEF QueueTypeOK, QueueServe, WriteSide
<1>2. count' \in 0..DEPTH
  <2>1. accept_push(push, e) => count < DEPTH
    BY DepthAssumption DEF accept_push, full, QueueTypeOK
  <2>2. accept_pop(pop) => count > 0
    BY DEF accept_pop, empty, QueueTypeOK
  <2>3. count' = count + (IF accept_push(push, e) THEN 1 ELSE 0)
                       - (IF accept_pop(pop) THEN 1 ELSE 0)
    BY DEF QueueServe, NextCount
  <2> QED BY <2>1, <2>2, <2>3, DepthAssumption DEF QueueTypeOK
<1>3. last_enqueued_timestamp' \in Nat
  BY EventAssumption DEF QueueTypeOK, QueueServe, NextLast
<1>4. overflow_latched' \in BOOLEAN /\ order_error_latched' \in BOOLEAN
  BY DEF QueueTypeOK, QueueServe, LatchClock
<1> QED BY <1>1, <1>2, <1>3, <1>4 DEF QueueTypeOK

(* What one clock of hil_event_queue.v does to the queued events: a pop    *)
(* moves every event one place forward, a push appends, a simultaneous     *)
(* push and pop does both, and nothing else changes.                       *)
LEMMA ServeContents ==
    ASSUME QueueTypeOK, PointersAgree,
           NEW clear_errors \in BOOLEAN, NEW push \in BOOLEAN, NEW pop \in BOOLEAN,
           NEW e \in Event, QueueServe(clear_errors, push, e, pop),
           NEW put, put = IF accept_push(push, e) THEN 1 ELSE 0,
           NEW get, get = IF accept_pop(pop) THEN 1 ELSE 0
    PROVE  /\ put \in 0..1 /\ get \in 0..1
           /\ count' = count - get + put
           /\ count + put <= DEPTH /\ get <= count
           /\ read_ptr' = After(read_ptr, get)
           /\ PointersAgree'
           /\ \A i \in 1..(count - get) :
                 mem'[After(read_ptr', i - 1)] = mem[After(read_ptr, i + get - 1)]
           /\ put = 1 => mem'[After(read_ptr', count - get)] = e
<1>1. put \in 0..1 /\ get \in 0..1 /\ count \in 0..DEPTH
  BY DEF QueueTypeOK
<1>2. count' = count - get + put
  BY <1>1 DEF QueueServe, NextCount
<1>3. count + put <= DEPTH /\ get <= count
  <2>1. accept_push(push, e) => count < DEPTH
    BY DepthAssumption, <1>1 DEF accept_push, full
  <2>2. accept_pop(pop) => count > 0
    BY <1>1 DEF accept_pop, empty
  <2> QED BY <2>1, <2>2, <1>1, DepthAssumption
<1>4. read_ptr \in Slots /\ write_ptr \in Slots /\ mem \in [Slots -> Event]
  BY DEF QueueTypeOK
<1>5. read_ptr' = After(read_ptr, get)
  <2>1. read_ptr' = IF accept_pop(pop) THEN Bump(read_ptr) ELSE read_ptr
    BY DEF QueueServe
  <2>2. After(read_ptr, 0) = read_ptr /\ After(read_ptr, 1) = Bump(read_ptr)
    BY <1>4, DepthAssumption DEF After, Bump, Slots
  <2> QED BY <2>1, <2>2
<1>7. write_ptr = After(read_ptr, count)
  BY DEF PointersAgree
<1>8. PointersAgree'
  <2>1. write_ptr' = After(read_ptr, count + put)
    <3>1. CASE put = 1
      BY <3>1, <1>1, <1>3, <1>4, <1>7, AfterFacts, DepthAssumption DEF QueueServe, WriteSide
    <3>2. CASE put = 0
      BY <3>2, <1>1, <1>7 DEF QueueServe, WriteSide
    <3> QED BY <3>1, <3>2, <1>1
  <2>2. After(read_ptr', count') = After(read_ptr, count + put)
    BY <1>1, <1>2, <1>3, <1>4, <1>5, DepthAssumption DEF After, Slots
  <2> QED BY <2>1, <2>2 DEF PointersAgree
<1>9. mem' = IF put = 1 THEN [mem EXCEPT ![After(read_ptr, count)] = e] ELSE mem
  BY <1>7 DEF QueueServe, WriteSide
<1>10. /\ \A i \in 1..(count - get) :
            mem'[After(After(read_ptr, get), i - 1)] = mem[After(read_ptr, i + get - 1)]
       /\ put = 1 => mem'[After(After(read_ptr, get), count - get)] = e
  <2>1. /\ \A i \in 1..(count - get) :
              /\ After(After(read_ptr, get), i - 1) = After(read_ptr, i + get - 1)
              /\ After(read_ptr, i + get - 1) \in Slots
              /\ put = 1 => After(read_ptr, i + get - 1) # After(read_ptr, count)
        /\ After(read_ptr, count) \in Slots
        /\ put = 1 => After(After(read_ptr, get), count - get) = After(read_ptr, count)
    BY <1>1, <1>3, <1>4, SlotsFollow
  <2> QED BY <2>1, <1>1, <1>4, <1>9
<1> QED BY <1>1, <1>2, <1>3, <1>5, <1>8, <1>10

(* A clock of hil_event_queue.v keeps the order of the timestamps and the   *)
(* order reference.                                                         *)
LEMMA ServeOrder ==
    ASSUME QueueInv,
           NEW clear_errors \in BOOLEAN, NEW push \in BOOLEAN, NEW pop \in BOOLEAN,
           NEW e \in Event, QueueServe(clear_errors, push, e, pop)
    PROVE  PointersAgree' /\ LastIsYoungest' /\ TimestampOrdered'
<1>1. PICK put : put = IF accept_push(push, e) THEN 1 ELSE 0
  OBVIOUS
<1>2. PICK get : get = IF accept_pop(pop) THEN 1 ELSE 0
  OBVIOUS
<1>3. /\ put \in 0..1 /\ get \in 0..1
      /\ count' = count - get + put
      /\ count + put <= DEPTH /\ get <= count
      /\ PointersAgree'
      /\ \A i \in 1..(count - get) :
            mem'[After(read_ptr', i - 1)] = mem[After(read_ptr, i + get - 1)]
      /\ put = 1 => mem'[After(read_ptr', count - get)] = e
  BY <1>1, <1>2, ServeContents DEF QueueInv
<1>4. count \in 0..DEPTH /\ read_ptr \in Slots /\ mem \in [Slots -> Event]
  BY DEF QueueInv, QueueTypeOK
<1>5. \A i \in 1..count : mem[After(read_ptr, i - 1)] \in Event
  BY <1>4, AfterFacts, DepthAssumption
<1>6. \A x \in Event : x.ts \in Nat
  BY EventAssumption
<1>7. \A i, j \in 1..count : i <= j =>
         mem[After(read_ptr, i - 1)].ts <= mem[After(read_ptr, j - 1)].ts
  BY DEF QueueInv, TimestampOrdered, Nth
<1>8. count > 0 => last_enqueued_timestamp = mem[After(read_ptr, count - 1)].ts
  BY DEF QueueInv, LastIsYoungest, Nth
<1>9. put = 1 /\ count > 0 => mem[After(read_ptr, count - 1)].ts <= e.ts
  <2>1. put = 1 => count = 0 \/ e.ts >= last_enqueued_timestamp
    BY <1>1 DEF accept_push, push_order_ok, empty
  <2> QED BY <2>1, <1>8, <1>4, <1>5, <1>6
<1>10. LastIsYoungest'
  <2> SUFFICES ASSUME count' > 0
               PROVE  last_enqueued_timestamp' = mem'[After(read_ptr', count' - 1)].ts
    BY DEF LastIsYoungest, Nth
  <2>1. CASE put = 1
    <3>1. last_enqueued_timestamp' = e.ts
      BY <2>1, <1>1 DEF QueueServe, NextLast
    <3>2. count' - 1 = count - get
      BY <2>1, <1>3, <1>4
    <3> QED BY <2>1, <3>1, <3>2, <1>3
  <2>2. CASE put = 0
    <3>1. count' = count - get /\ count > 0 /\ ~(get = 1 /\ count = 1)
      BY <2>2, <1>3, <1>4
    <3>2. last_enqueued_timestamp' = last_enqueued_timestamp
      BY <2>2, <3>1, <1>1, <1>2 DEF QueueServe, NextLast
    <3>3. count' \in 1..(count - get) /\ count' + get - 1 = count - 1
      BY <3>1, <1>3, <1>4
    <3>4. mem'[After(read_ptr', count' - 1)] = mem[After(read_ptr, count - 1)]
      BY <3>3, <1>3
    <3> QED BY <3>1, <3>2, <3>4, <1>8
  <2> QED BY <2>1, <2>2, <1>3
<1>11. TimestampOrdered'
  <2> SUFFICES ASSUME NEW i \in 1..count', NEW j \in 1..count', i <= j
               PROVE  mem'[After(read_ptr', i - 1)].ts <= mem'[After(read_ptr', j - 1)].ts
    BY DEF TimestampOrdered, Nth
  <2>1. CASE j <= count - get
    <3>1. /\ i \in 1..(count - get) /\ j \in 1..(count - get)
          /\ i + get \in 1..count /\ j + get \in 1..count /\ i + get <= j + get
      BY <2>1, <1>3, <1>4
    <3>2. /\ mem'[After(read_ptr', i - 1)] = mem[After(read_ptr, i + get - 1)]
          /\ mem'[After(read_ptr', j - 1)] = mem[After(read_ptr, j + get - 1)]
      BY <3>1, <1>3
    <3>3. PICK m, n \in 1..count : m = i + get /\ n = j + get
      BY <3>1
    <3>4. /\ mem'[After(read_ptr', i - 1)] = mem[After(read_ptr, m - 1)]
          /\ mem'[After(read_ptr', j - 1)] = mem[After(read_ptr, n - 1)]
      <4>1. i + get - 1 = m - 1 /\ j + get - 1 = n - 1
        BY <3>1, <3>3, <1>3, <1>4
      <4> QED BY <3>2, <4>1, Zenon
    <3>5. m <= n
      BY <3>1, <3>3
    <3>6. mem[After(read_ptr, m - 1)].ts <= mem[After(read_ptr, n - 1)].ts
      BY <3>3, <3>5, <1>7
    <3> QED BY <3>4, <3>6, Zenon
  <2>2. CASE j > count - get
    <3>1. put = 1 /\ j - 1 = count - get
      BY <2>2, <1>3, <1>4
    <3>2. mem'[After(read_ptr', j - 1)] = e /\ e.ts \in Nat
      BY <3>1, <1>3, <1>6
    <3>3. CASE i = j
      BY <3>2, <3>3
    <3>4. CASE i < j
      <4>1. i \in 1..(count - get) /\ i + get \in 1..count /\ count \in 1..count
        BY <3>1, <3>4, <1>3, <1>4
      <4>2. mem'[After(read_ptr', i - 1)] = mem[After(read_ptr, i + get - 1)]
        BY <4>1, <1>3
      <4> DEFINE m == i + get
      <4> HIDE DEF m
      <4>m. m \in 1..count /\ m <= count /\ m = i + get
        BY <4>1, <1>4 DEF m
      <4>3. mem[After(read_ptr, m - 1)].ts <= mem[After(read_ptr, count - 1)].ts
        BY <4>1, <4>m, <1>7
      <4>4. mem[After(read_ptr, m - 1)].ts \in Nat
               /\ mem[After(read_ptr, count - 1)].ts \in Nat
        BY <4>1, <4>m, <1>5, <1>6
      <4>5. mem[After(read_ptr, count - 1)].ts <= e.ts
        BY <3>1, <4>1, <1>9
      <4>6. mem'[After(read_ptr', i - 1)] = mem[After(read_ptr, m - 1)]
        <5>1. i + get - 1 = m - 1
          BY <4>1, <4>m, <1>3, <1>4
        <5> QED BY <4>2, <5>1, Zenon
      <4>7. mem[After(read_ptr, m - 1)].ts <= e.ts
        BY <3>2, <4>3, <4>4, <4>5
      <4> QED BY <3>2, <4>6, <4>7, Zenon
    <3> QED BY <3>3, <3>4
  <2> QED BY <2>1, <2>2, <1>3, <1>4
<1> QED BY <1>3, <1>10, <1>11

(* The inductive invariant of hil_event_queue.v: with it, the two pointers, *)
(* the counter and the order reference describe one ordered sequence.       *)
LEMMA QueueInvInductive == QueueInv /\ [QueueNext]_qvars => QueueInv'
<1> SUFFICES ASSUME QueueInv, [QueueNext]_qvars PROVE QueueInv'
  OBVIOUS
<1>1. ASSUME NEW clear_errors \in BOOLEAN, QueueClear(clear_errors)
      PROVE  QueueInv'
  BY <1>1, DepthAssumption
     DEF QueueClear, LatchClock, QueueInv, QueueTypeOK, PointersAgree,
         LastIsYoungest, TimestampOrdered, After, Slots
<1>2. ASSUME NEW clear_errors \in BOOLEAN, NEW push \in BOOLEAN, NEW pop \in BOOLEAN,
             NEW e \in Event, QueueServe(clear_errors, push, e, pop)
      PROVE  QueueInv'
  BY <1>2, ServeType, ServeOrder DEF QueueInv
<1>3. CASE UNCHANGED qvars
  BY <1>3 DEF qvars, ringvars, latchvars, QueueInv, QueueTypeOK, PointersAgree,
              LastIsYoungest, TimestampOrdered, Nth
<1> QED BY <1>1, <1>2, <1>3 DEF QueueNext, QueueReset, QueueClock

(* The queue of hil_event_queue.v starts empty and consistent. *)
LEMMA QueueInitInv == QueueInit => QueueInv
<1> SUFFICES ASSUME QueueInit PROVE QueueInv
  OBVIOUS
<1>1. QueueTypeOK
  <2>1. 0 \in Slots /\ 0 \in 0..DEPTH
    BY DepthAssumption DEF Slots
  <2> QED BY <2>1 DEF QueueInit, QueueTypeOK
<1>2. PointersAgree
  BY DepthAssumption DEF QueueInit, PointersAgree, After
<1>3. LastIsYoungest /\ TimestampOrdered
  BY DEF QueueInit, LastIsYoungest, TimestampOrdered
<1> QED BY <1>1, <1>2, <1>3 DEF QueueInv

(* Every reachable state of hil_event_queue.v satisfies QueueInv: the types, *)
(* the agreement of pointers and counter, and the timestamp order.           *)
THEOREM QueueCorrect == QueueSpec => []QueueInv
BY QueueInitInv, QueueInvInductive, PTL DEF QueueSpec

(* The events queued in hil_event_queue.v are ordered by timestamp.          *)
THEOREM QueueTimestampOrdered == QueueSpec => []TimestampOrdered
<1>1. QueueInv => TimestampOrdered
  BY DEF QueueInv
<1> QED BY <1>1, QueueCorrect, PTL
------------------------------------------------------------------------------
(* The refinement mapping yields a sequence of count events.                *)
LEMMA ContentsFacts ==
    ASSUME QueueTypeOK
    PROVE  /\ contents \in Seq(Event) /\ Len(contents) = count
           /\ \A i \in 1..count : contents[i] = Nth(i)
<1>1. count \in Nat /\ \A i \in 1..count : Nth(i) \in Event
  BY AfterFacts, DepthAssumption DEF QueueTypeOK, Nth
<1> QED BY <1>1 DEF contents

(* One clock of hil_event_queue.v without a clear maps to Append after Tail. *)
LEMMA ServeRefines ==
    ASSUME QueueInv,
           NEW clear_errors \in BOOLEAN, NEW push \in BOOLEAN, NEW pop \in BOOLEAN,
           NEW e \in Event, QueueServe(clear_errors, push, e, pop)
    PROVE  /\ Fifo!FifoNext
           /\ Fifo!Serve(clear_errors, IF push THEN {e} ELSE {}, pop)
<1> DEFINE offer == IF push THEN {e} ELSE {}
           rest == IF pop /\ contents # <<>> THEN Tail(contents) ELSE contents
<1>p. PICK put : put = IF accept_push(push, e) THEN 1 ELSE 0
  OBVIOUS
<1>g. PICK get : get = IF accept_pop(pop) THEN 1 ELSE 0
  OBVIOUS
<1>1. /\ put \in 0..1 /\ get \in 0..1
      /\ count' = count - get + put
      /\ count + put <= DEPTH /\ get <= count
      /\ \A i \in 1..(count - get) :
            mem'[After(read_ptr', i - 1)] = mem[After(read_ptr, i + get - 1)]
      /\ put = 1 => mem'[After(read_ptr', count - get)] = e
  BY <1>p, <1>g, ServeContents DEF QueueInv
<1>2. QueueTypeOK /\ QueueTypeOK' /\ count \in Nat /\ count' \in Nat
  BY ServeType DEF QueueInv, QueueTypeOK
<1>3. /\ contents \in Seq(Event) /\ Len(contents) = count
      /\ \A i \in 1..count : contents[i] = Nth(i)
  BY <1>2, ContentsFacts
<1>4. contents' = [i \in 1..count' |-> mem'[After(read_ptr', i - 1)]]
  BY DEF contents, Nth
<1>5. contents = <<>> <=> empty
  BY <1>2, <1>3 DEF empty
<1>6. rest \in Seq(Event) /\ Len(rest) = count - get
         /\ \A i \in 1..(count - get) : rest[i] = Nth(i + get)
  <2>1. CASE accept_pop(pop)
    <3>1. get = 1 /\ rest = Tail(contents) /\ contents # <<>>
      BY <2>1, <1>5, <1>g DEF accept_pop
    <3> HIDE DEF rest
    <3> QED BY <3>1, <1>1, <1>2, <1>3
  <2>2. CASE ~accept_pop(pop)
    <3>1. get = 0 /\ rest = contents
      BY <2>2, <1>5, <1>g DEF accept_pop
    <3> HIDE DEF rest
    <3>2. \A i \in 1..(count - get) : i \in 1..count /\ i + get = i
      BY <3>1, <1>2
    <3>3. \A i \in 1..(count - get) : rest[i] = Nth(i + get)
      <4> SUFFICES ASSUME NEW i \in 1..(count - get) PROVE rest[i] = Nth(i + get)
        OBVIOUS
      <4> QED BY <3>1, <3>2, <1>3, Zenon
    <3> QED BY <3>1, <3>3, <1>2, <1>3
  <2> QED BY <2>1, <2>2
<1>7. \A i \in 1..(count - get) : rest[i] = mem'[After(read_ptr', i - 1)]
  <2> SUFFICES ASSUME NEW i \in 1..(count - get)
               PROVE  rest[i] = mem'[After(read_ptr', i - 1)]
    OBVIOUS
  <2> HIDE DEF rest
  <2>1. rest[i] = mem[After(read_ptr, i + get - 1)]
    <3>1. rest[i] = Nth(i + get)
      BY <1>6
    <3>2. (i + get) - 1 = i + get - 1
      BY <1>1, <1>2
    <3> QED BY <3>1, <3>2, Zenon DEF Nth
  <2> QED BY <2>1, <1>1
<1>8. Fifo!Fits(e) <=> ~full /\ push_order_ok(e)
  <2>1. Fifo!TooOld(e) <=> ~push_order_ok(e)
    <3>1. CASE count = 0
      BY <3>1, <1>5 DEF Fifo!TooOld, push_order_ok, empty
    <3>2. CASE count # 0
      <4>1. contents # <<>> /\ contents[Len(contents)] = Nth(count) /\ Nth(count) \in Event
        BY <3>2, <1>2, <1>3, <1>5 DEF empty
      <4>2. last_enqueued_timestamp = Nth(count).ts /\ Nth(count).ts \in Nat /\ e.ts \in Nat
        BY <3>2, <4>1, <1>2, EventAssumption DEF QueueInv, LastIsYoungest
      <4> QED BY <3>2, <4>1, <4>2 DEF Fifo!TooOld, push_order_ok, empty
    <3> QED BY <3>1, <3>2
  <2> QED BY <2>1, <1>2, <1>3, DepthAssumption DEF Fifo!Fits, full
<1>9. IF accept_push(push, e) THEN contents' = Append(rest, e) ELSE contents' = rest
  <2> HIDE DEF rest
  <2>1. CASE accept_push(push, e)
    <3>1. put = 1 /\ count' = count - get + 1
      BY <2>1, <1>p, <1>1, <1>2
    <3>2. /\ Append(rest, e) \in Seq(Event) /\ Len(Append(rest, e)) = count'
          /\ \A i \in 1..(count - get) : Append(rest, e)[i] = rest[i]
          /\ Append(rest, e)[count'] = e
      BY <3>1, <1>1, <1>2, <1>6
    <3>3. \A i \in 1..count' : Append(rest, e)[i] = mem'[After(read_ptr', i - 1)]
      <4> SUFFICES ASSUME NEW i \in 1..count'
                   PROVE  Append(rest, e)[i] = mem'[After(read_ptr', i - 1)]
        OBVIOUS
      <4>1. CASE i = count'
        <5>1. i - 1 = count - get
          BY <4>1, <3>1, <1>1, <1>2
        <5> QED BY <4>1, <5>1, <3>1, <3>2, <1>1, Zenon
      <4>2. CASE i # count'
        <5>1. i \in 1..(count - get)
          BY <4>2, <3>1, <1>1, <1>2
        <5> QED BY <5>1, <3>2, <1>7
      <4> QED BY <4>1, <4>2
    <3>4. Append(rest, e) = [i \in 1..count' |-> Append(rest, e)[i]]
      <4>1. PICK app : app = Append(rest, e)
        OBVIOUS
      <4>2. app \in Seq(Event) /\ Len(app) = count'
        BY <4>1, <3>2
      <4>3. app = [i \in 1..count' |-> app[i]]
        BY <4>2, <1>2
      <4> QED BY <4>1, <4>3, Zenon
    <3>5. Append(rest, e) = contents'
      BY <3>3, <3>4, <1>4
    <3> QED BY <2>1, <3>5
  <2>2. CASE ~accept_push(push, e)
    <3>1. put = 0 /\ count' = count - get
      BY <2>2, <1>p, <1>1, <1>2
    <3>2. rest = [i \in 1..(count - get) |-> rest[i]]
      BY <1>1, <1>2, <1>6
    <3>3. rest = contents'
      BY <3>1, <3>2, <1>4, <1>7
    <3> QED BY <2>2, <3>3
  <2> QED BY <2>1, <2>2
<1>10. accept_push(push, e) <=> push /\ Fifo!Fits(e)
  BY <1>8 DEF accept_push
<1>11. /\ overflow_latched' = ((offer # {} /\ Len(contents) >= DEPTH)
                                 \/ (overflow_latched /\ ~clear_errors))
       /\ order_error_latched' = ((\E x \in offer : Len(contents) < DEPTH /\ Fifo!TooOld(x))
                                 \/ (order_error_latched /\ ~clear_errors))
  <2>1. Fifo!TooOld(e) /\ ~full <=> ~push_order_ok(e) /\ ~full
    BY <1>8, <1>2, <1>3, DepthAssumption DEF Fifo!Fits, full
  <2>2. full <=> Len(contents) >= DEPTH
    BY <1>3 DEF full
  <2>3. ~full <=> Len(contents) < DEPTH
    BY <1>2, <1>3, DepthAssumption DEF full
  <2>4. offer # {} <=> push
    OBVIOUS
  <2>5. (\E x \in offer : Len(contents) < DEPTH /\ Fifo!TooOld(x))
          <=> push /\ ~full /\ ~push_order_ok(e)
    BY <2>1, <2>3
  <2> QED BY <2>2, <2>4, <2>5 DEF QueueServe, LatchClock
<1>12. \/ \E x \in offer : Fifo!Fits(x) /\ contents' = Append(rest, x)
       \/ (\A x \in offer : ~Fifo!Fits(x)) /\ contents' = rest
  BY <1>9, <1>10
<1>13. Fifo!Serve(clear_errors, offer, pop)
  BY <1>11, <1>12 DEF Fifo!Serve
<1>14. offer \in {{}} \cup {{x} : x \in Event}
  OBVIOUS
<1> QED BY <1>13, <1>14 DEF Fifo!FifoNext

(* Without a clear, the queued events lose the head if it is popped, gain at *)
(* most one event at the end, and change in no other way.                   *)
LEMMA ServeAppends ==
    ASSUME QueueInv,
           NEW clear_errors \in BOOLEAN, NEW push \in BOOLEAN, NEW pop \in BOOLEAN,
           NEW e \in Event, QueueServe(clear_errors, push, e, pop)
    PROVE  \E a \in {<<>>} \cup {<<x>> : x \in Event} :
              contents' = (IF accept_pop(pop) THEN Tail(contents) ELSE contents) \o a
<1> DEFINE rest == IF accept_pop(pop) THEN Tail(contents) ELSE contents
<1>1. contents \in Seq(Event) /\ Len(contents) = count /\ count \in Nat
  BY ContentsFacts DEF QueueInv, QueueTypeOK
<1>2. pop /\ contents # <<>> <=> accept_pop(pop)
  BY <1>1 DEF accept_pop, empty
<1>3. rest \in Seq(Event)
  BY <1>1, <1>2
<1>4. Fifo!Serve(clear_errors, IF push THEN {e} ELSE {}, pop)
  BY ServeRefines
<1>5. contents' = Append(rest, e) \/ contents' = rest
  BY <1>2, <1>4 DEF Fifo!Serve
<1> HIDE DEF rest
<1>6. Append(rest, e) = rest \o <<e>> /\ rest = rest \o <<>>
  BY <1>3
<1>7. contents' = rest \o <<e>> \/ contents' = rest \o <<>>
  BY <1>5, <1>6, Zenon
<1> QED BY <1>7, Zenon DEF rest

(* hil_event_queue.v implements the bounded timestamp-ordered sequence of    *)
(* TimedEventFifo, for every depth and every event alphabet.                 *)
THEOREM QueueImplementsFifo == QueueSpec => ImplementsFifo
<1>1. QueueInit => Fifo!FifoInit
  BY DEF QueueInit, Fifo!FifoInit, contents
<1>2. QueueInv /\ [QueueNext]_qvars => [Fifo!FifoNext]_(Fifo!fvars)
  <2> SUFFICES ASSUME QueueInv, [QueueNext]_qvars
               PROVE  [Fifo!FifoNext]_(Fifo!fvars)
    OBVIOUS
  <2>1. ASSUME NEW clear_errors \in BOOLEAN, QueueClear(clear_errors)
        PROVE  Fifo!FifoNext
    <3>1. contents' = <<>>
      BY <2>1 DEF QueueClear, contents
    <3>2. Fifo!Flush(clear_errors)
      BY <2>1, <3>1 DEF QueueClear, LatchClock, Fifo!Flush
    <3> QED BY <3>2 DEF Fifo!FifoNext
  <2>2. ASSUME NEW clear_errors \in BOOLEAN, NEW push \in BOOLEAN, NEW pop \in BOOLEAN,
               NEW e \in Event, QueueServe(clear_errors, push, e, pop)
        PROVE  Fifo!FifoNext
    BY <2>2, ServeRefines
  <2>3. CASE UNCHANGED qvars
    BY <2>3 DEF qvars, ringvars, latchvars, Fifo!fvars, contents, Nth
  <2> QED BY <2>1, <2>2, <2>3 DEF QueueNext, QueueReset, QueueClock
<1> QED BY <1>1, <1>2, QueueCorrect, PTL DEF QueueSpec, ImplementsFifo, Fifo!FifoSpec

(* A clock of hil_event_queue.v with a clear maps to Flush.                   *)
LEMMA ClearRefines ==
    ASSUME NEW clear_errors \in BOOLEAN, QueueClear(clear_errors)
    PROVE  Fifo!Flush(clear_errors)
<1>1. contents' = <<>>
  BY DEF QueueClear, contents
<1> QED BY <1>1 DEF QueueClear, LatchClock, Fifo!Flush

(* Seen with its input wires, each clock of hil_event_queue.v does to the     *)
(* abstract sequence what those inputs ask: every refused push is explained   *)
(* by a latch, for every depth and every event alphabet.                     *)
THEOREM QueueServesItsInputs == QueueSpec => ServesItsInputs
<1> DEFINE Step ==
      \A clear_queue, clear_errors, push, pop \in BOOLEAN, e \in Event :
         QueueClock(clear_queue, clear_errors, push, e, pop) =>
            \/ clear_queue /\ Fifo!Flush(clear_errors)
            \/ ~clear_queue /\ Fifo!Serve(clear_errors, IF push THEN {e} ELSE {}, pop)
<1>1. QueueInv => Step
  <2> SUFFICES ASSUME QueueInv,
                      NEW clear_queue \in BOOLEAN, NEW clear_errors \in BOOLEAN,
                      NEW push \in BOOLEAN, NEW pop \in BOOLEAN, NEW e \in Event,
                      QueueClock(clear_queue, clear_errors, push, e, pop)
               PROVE  \/ clear_queue /\ Fifo!Flush(clear_errors)
                      \/ ~clear_queue /\ Fifo!Serve(clear_errors, IF push THEN {e} ELSE {}, pop)
    OBVIOUS
  <2>1. CASE clear_queue
    BY <2>1, ClearRefines DEF QueueClock
  <2>2. CASE ~clear_queue
    BY <2>2, ServeRefines DEF QueueClock
  <2> QED BY <2>1, <2>2
<1>2. QueueInv => [Step]_qvars
  BY <1>1
<1> QED BY <1>2, QueueCorrect, PTL DEF ServesItsInputs
==============================================================================
