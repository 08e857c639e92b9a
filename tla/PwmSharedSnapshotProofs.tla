----------------------- MODULE PwmSharedSnapshotProofs -----------------------
(***************************************************************************)
(* The shared PWM statistics block, for every ring capacity, number of      *)
(* retries and set of ring limits: the block PRU0 leaves between updates is *)
(* one history, and what Linux returns from it without any lock is one      *)
(* instant of it, its ring window included.                                 *)
(***************************************************************************)
EXTENDS MCPwmSharedSnapshot, SequenceTheorems, TLAPS

(* The remainders by which head pointer and window wrap around the ring.    *)
LEMMA NoMultiple ==
    ASSUME NEW k \in Int, NEW d \in Int, d = k * Capacity, -Capacity < d, d < Capacity
    PROVE  k = 0 /\ d = 0
<1>0. Capacity \in Nat /\ Capacity >= 1
  BY SnapshotAssumption
<1>1. CASE k >= 1
  <2>1. k * Capacity >= 1 * Capacity
    BY <1>0, <1>1, Z3
  <2> QED BY <1>0, <1>1, <2>1
<1>2. CASE k <= -1
  <2>1. k * Capacity <= (-1) * Capacity
    BY <1>0, <1>2, Z3
  <2> QED BY <1>0, <1>2, <2>1
<1>3. CASE k = 0
  BY <1>0, <1>3
<1> QED BY <1>1, <1>2, <1>3

LEMMA DivMod ==
    ASSUME NEW a \in Int
    PROVE  \E p \in Int, m \in 0..(Capacity - 1) :
              m = a % Capacity /\ a = p * Capacity + m
<1>0. Capacity \in Nat \ {0}
  BY SnapshotAssumption
<1>1. /\ a % Capacity \in 0..(Capacity - 1) /\ a \div Capacity \in Int
      /\ a = Capacity * (a \div Capacity) + (a % Capacity)
  BY <1>0
<1>2. PICK p, m : p = a \div Capacity /\ m = a % Capacity
  OBVIOUS
<1>3. p \in Int /\ m \in 0..(Capacity - 1) /\ a = Capacity * p + m
  BY <1>1, <1>2
<1>4. Capacity * p = p * Capacity
  BY <1>0, <1>3
<1> QED BY <1>2, <1>3, <1>4

(* The difference of two numbers given by quotient and remainder.            *)
LEMMA Difference ==
    ASSUME NEW p \in Int, NEW m \in Int, NEW q \in Int, NEW n \in Int,
           NEW x \in Int, x = p * Capacity + m, NEW y \in Int, y = q * Capacity + n
    PROVE  \E k \in Int, d \in Int : k = q - p /\ d = k * Capacity /\ d = (y - x) - (n - m)
<1>1. Capacity \in Int
  BY SnapshotAssumption
<1>2. (q - p) * Capacity = q * Capacity - p * Capacity
  BY <1>1
<1>3. PICK u, v : u = q * Capacity /\ v = p * Capacity
  OBVIOUS
<1>4. u \in Int /\ v \in Int /\ x = v + m /\ y = u + n
  BY <1>1, <1>3
<1>5. PICK k, d : k = q - p /\ d = k * Capacity
  OBVIOUS
<1>6. k \in Int /\ d = u - v
  BY <1>2, <1>3, <1>5
<1>7. d \in Int /\ d = (y - x) - (n - m)
  BY <1>4, <1>6
<1> QED BY <1>5, <1>6, <1>7

LEMMA SlotOf == ASSUME NEW a \in Int PROVE a % Capacity \in Slots
BY DivMod DEF Slots

(* Quotient and remainder are unique.                                        *)
LEMMA ModUnique ==
    ASSUME NEW a \in Int, NEW q \in Int, NEW r \in 0..(Capacity - 1), a = q * Capacity + r
    PROVE  a % Capacity = r
<1>1. PICK p \in Int, m \in 0..(Capacity - 1) : m = a % Capacity /\ a = p * Capacity + m
  BY DivMod
<1>2. m \in Int /\ r \in Int /\ Capacity \in Nat
  BY SnapshotAssumption
<1>3. PICK k \in Int, d \in Int : k = q - p /\ d = k * Capacity /\ d = (a - a) - (r - m)
  BY <1>1, <1>2, Difference
<1>4. -Capacity < d /\ d < Capacity /\ d = m - r
  BY <1>2, <1>3
<1>5. d = 0
  BY <1>3, <1>4, NoMultiple
<1> QED BY <1>1, <1>2, <1>4, <1>5

LEMMA ModAdd ==
    ASSUME NEW a \in Int, NEW b \in Int
    PROVE  ((a % Capacity) + b) % Capacity = (a + b) % Capacity
<1>1. PICK p \in Int, m \in 0..(Capacity - 1) : m = a % Capacity /\ a = p * Capacity + m
  BY DivMod
<1>2. PICK c \in Int : c = a + b
  OBVIOUS
<1>3. PICK q \in Int, n \in 0..(Capacity - 1) : n = c % Capacity /\ c = q * Capacity + n
  BY DivMod
<1>4. m \in Int /\ n \in Int
  BY SnapshotAssumption
<1>5. PICK k \in Int, d \in Int : k = q - p /\ d = k * Capacity /\ d = (c - a) - (n - m)
  BY <1>1, <1>3, <1>4, Difference
<1>6. PICK e \in Int : e = m + b
  BY <1>4
<1>7. e = d + n
  BY <1>2, <1>4, <1>5, <1>6
<1>8. e = k * Capacity + n
  BY <1>5, <1>7
<1>9. e % Capacity = n
  BY <1>8, ModUnique
<1> QED BY <1>1, <1>2, <1>3, <1>6, <1>9

(* Events less than a ring apart are in different slots.                     *)
LEMMA ModDistinct ==
    ASSUME NEW a \in Int, NEW b \in Int, b < a, a - b < Capacity
    PROVE  a % Capacity # b % Capacity
<1> SUFFICES ASSUME a % Capacity = b % Capacity PROVE FALSE
  OBVIOUS
<1>1. PICK p \in Int, m \in 0..(Capacity - 1) : m = a % Capacity /\ a = p * Capacity + m
  BY DivMod
<1>2. PICK q \in Int, n \in 0..(Capacity - 1) : n = b % Capacity /\ b = q * Capacity + n
  BY DivMod
<1>3. m \in Int /\ n = m /\ n \in Int /\ Capacity \in Nat
  BY <1>1, <1>2, SnapshotAssumption
<1>4. PICK k \in Int, d \in Int : k = p - q /\ d = k * Capacity /\ d = (a - b) - (m - n)
  BY <1>1, <1>2, <1>3, Difference
<1>5. d = a - b /\ -Capacity < d /\ d < Capacity
  BY <1>3, <1>4
<1>6. d = 0
  BY <1>4, <1>5, NoMultiple
<1> QED BY <1>5, <1>6
------------------------------------------------------------------------------
(* The stores of one operation of the firmware.                              *)
Stores == [word : Words \cup {"ring"}, slot : Slots, value : Nat]

(* The ring holds the records of the events lo..hi.                           *)
Records(lo, hi) == \A e \in lo..hi : e >= 1 => ring[(e - 1) % Capacity] = e

(* The block accounts for n events, in every word and in the ring.            *)
Consistent(n) ==
    /\ blk.event_seq = n /\ blk.stat = n
    /\ blk.ring_head = n % Capacity /\ blk.ring_count = MinOf(n, Capacity)
    /\ Records(n - Capacity + 1, n)

(* All stores of body but the first s are left to do.                         *)
Left(body, s) ==
    /\ s \in 0..Len(body)
    /\ todo \in Seq(Stores) /\ Len(todo) = Len(body) - s
    /\ \A i \in 1..Len(todo) : todo[i] = body[s + i]

(* hil_pwm_capture_process after n events, and the block after s stores of it. *)
EdgeBody(n) ==
    <<Put("event_seq", n + 1), Put("stat", n + 1), PutRing(n % Capacity, n + 1),
      Put("ring_head", (n + 1) % Capacity), Put("ring_count", MinOf(n + 1, Capacity))>>

EdgeAt(n, s) ==
    /\ Left(EdgeBody(n), s)
    /\ blk.event_seq = IF s >= 1 THEN n + 1 ELSE n
    /\ blk.stat = IF s >= 2 THEN n + 1 ELSE n
    /\ blk.ring_head = IF s >= 4 THEN (n + 1) % Capacity ELSE n % Capacity
    /\ blk.ring_count = IF s >= 5 THEN MinOf(n + 1, Capacity) ELSE MinOf(n, Capacity)
    /\ s = 0 => Records(n - Capacity + 1, n)
    /\ s \in {1, 2} => Records(n + 1 - Capacity + 1, n)
    /\ s >= 3 => Records(n + 1 - Capacity + 1, n + 1)

(* CAPTURE_START and CAPTURE_STOP, then any other update about to end.        *)
Whole == \E n \in Nat : Consistent(n)
Restarting(v) == Left(<<Put("running", v)>>, 0) /\ Whole
Ending == todo = <<>> /\ Whole

(* The newest event whose record is in the ring, when it is not being cleared. *)
StoredIn(b, t) == IF t # <<>> /\ Head(t).word \in {"stat", "ring"}
                  THEN b.event_seq - 1 ELSE b.event_seq

(* CAPTURE_CLEAR after s stores.                                              *)
ClearAt(r, s) ==
    /\ Left(ClearStores(r), s)
    /\ s >= 2 => blk.seq_lock = 0
    /\ s >= 4 => blk.event_seq = 0
    /\ s >= 5 => blk.ring_head = 0
    /\ s >= 6 => blk.ring_count = 0
    /\ s >= 7 => blk.stat = 0
    /\ s >= 8 + Capacity => blk.magic = 1

BlockType == blk \in [Words -> Nat] /\ ring \in [Slots -> Nat]

(* What holds of the block while the firmware is between updates, inside one  *)
(* that takes the lock, and inside a clear, which does not.                   *)
WriterInv ==
    /\ BlockType /\ wstate \in {"idle", "open", "clearing"} /\ ops \in 0..MaxOps
    /\ wstate = "idle" => /\ even(blk.seq_lock) /\ blk.magic = 1
                          /\ todo = <<>> /\ Whole
    /\ wstate = "open" =>
          /\ ~even(blk.seq_lock) /\ blk.magic = 1
          /\ \/ \E v \in Nat : Restarting(v)
             \/ Ending
             \/ \E n \in Nat, s \in 0..5 : EdgeAt(n, s)
    /\ wstate = "clearing" => \E r \in Nat, s \in Nat : ClearAt(r, s)

(* The constants of the block.                                               *)
LEMMA BlockFacts ==
    /\ Capacity \in Nat /\ Capacity >= 1 /\ 0 \in Slots
    /\ {"magic", "seq_lock", "running", "event_seq", "ring_head", "ring_count", "stat"} = Words
    /\ "ring" \notin Words
    /\ \A n \in Int : n % Capacity \in Slots
    /\ \A n \in Nat : MinOf(n, Capacity) \in Nat /\ MinOf(n, Capacity) <= n
                       /\ MinOf(n, Capacity) <= Capacity
<1>1. Capacity \in Nat /\ Capacity >= 1
  BY SnapshotAssumption
<1>2. \A n \in Int : n % Capacity \in Slots
  BY DivMod DEF Slots
<1> QED BY <1>1, <1>2 DEF Slots, Words, MinOf

(* One store of a body brings it one store further.                          *)
LEMMA Advance ==
    ASSUME NEW body, NEW s, Left(body, s), Len(body) \in Nat, todo # <<>>,
           todo' = Tail(todo)
    PROVE  /\ s + 1 \in 1..Len(body) /\ Head(todo) = body[s + 1] /\ Head(todo) \in Stores
           /\ Left(body, s + 1)'
<1>1. /\ s \in 0..Len(body) /\ todo \in Seq(Stores) /\ Len(todo) = Len(body) - s
      /\ \A i \in 1..Len(todo) : todo[i] = body[s + i]
  BY DEF Left
<1>2. Len(todo) \in Nat /\ Len(todo) >= 1
  BY <1>1
<1>3. Head(todo) = todo[1] /\ Head(todo) \in Stores
  BY <1>1, <1>2
<1>4. /\ Tail(todo) \in Seq(Stores) /\ Len(Tail(todo)) = Len(todo) - 1
      /\ \A i \in 1..(Len(todo) - 1) : Tail(todo)[i] = todo[i + 1]
  BY <1>1, <1>2
<1>5. s + 1 \in 0..Len(body) /\ s + 1 >= 1
  BY <1>1, <1>2
<1>6. ASSUME NEW i \in 1..(Len(todo) - 1) PROVE Tail(todo)[i] = body[(s + 1) + i]
  <2>1. i + 1 \in 1..Len(todo) /\ s + (i + 1) = (s + 1) + i
    BY <1>1, <1>2
  <2>2. Tail(todo)[i] = todo[i + 1] /\ todo[i + 1] = body[s + (i + 1)]
    BY <1>1, <1>4, <2>1
  <2> QED BY <2>1, <2>2, Zenon
<1>7. Left(body, s + 1)'
  BY <1>1, <1>2, <1>4, <1>5, <1>6 DEF Left
<1> QED BY <1>1, <1>2, <1>3, <1>5, <1>7

(* Nothing is left exactly at the end of a body.                             *)
LEMMA AtEnd ==
    ASSUME NEW body, NEW s, Left(body, s), Len(body) \in Nat
    PROVE  todo = <<>> <=> s = Len(body)
<1>1. todo \in Seq(Stores) /\ Len(todo) = Len(body) - s /\ s \in 0..Len(body)
  BY DEF Left
<1>2. todo = <<>> <=> Len(todo) = 0
  BY <1>1
<1> QED BY <1>1, <1>2

(* The five stores of hil_pwm_capture_process.                               *)
LEMMA EdgeBodyFacts ==
    ASSUME NEW n \in Nat
    PROVE  /\ Len(EdgeBody(n)) = 5 /\ EdgeBody(n) \in Seq(Stores)
           /\ EdgeBody(n)[1] = Put("event_seq", n + 1)
           /\ EdgeBody(n)[2] = Put("stat", n + 1)
           /\ EdgeBody(n)[3] = PutRing(n % Capacity, n + 1)
           /\ EdgeBody(n)[4] = Put("ring_head", (n + 1) % Capacity)
           /\ EdgeBody(n)[5] = Put("ring_count", MinOf(n + 1, Capacity))
<1>1. /\ n % Capacity \in Slots /\ (n + 1) % Capacity \in Nat /\ MinOf(n + 1, Capacity) \in Nat
      /\ 0 \in Slots /\ n + 1 \in Nat
  BY BlockFacts DEF Slots
<1>2. /\ Put("event_seq", n + 1) \in Stores /\ Put("stat", n + 1) \in Stores
      /\ PutRing(n % Capacity, n + 1) \in Stores
      /\ Put("ring_head", (n + 1) % Capacity) \in Stores
      /\ Put("ring_count", MinOf(n + 1, Capacity)) \in Stores
  BY <1>1 DEF Put, PutRing, Stores, Words
<1> QED BY <1>2 DEF EdgeBody

(* The stores of capture_clear.                                              *)
LEMMA ClearStoresFacts ==
    ASSUME NEW r \in Nat
    PROVE  /\ Len(ClearStores(r)) = 9 + Capacity /\ ClearStores(r) \in Seq(Stores)
           /\ \A i \in 1..7 : ClearStores(r)[i] = Put(Layout[i], 0)
           /\ \A i \in 8..(7 + Capacity) : ClearStores(r)[i] = PutRing(i - 8, 0)
           /\ ClearStores(r)[8 + Capacity] = Put("magic", 1)
           /\ ClearStores(r)[9 + Capacity] = Put("running", r)
<1> DEFINE A == [i \in 1..7 |-> Put(Layout[i], 0)]
           B == [i \in 1..Capacity |-> PutRing(i - 1, 0)]
           C == <<Put("magic", 1), Put("running", r)>>
<1>0. Capacity \in Nat /\ Capacity >= 1 /\ 0 \in Slots
  BY BlockFacts
<1>1. A \in Seq(Stores) /\ Len(A) = 7 /\ \A i \in 1..7 : A[i] = Put(Layout[i], 0)
  <2>1. \A i \in 1..7 : Put(Layout[i], 0) \in Stores
    BY <1>0 DEF Layout, Put, Stores, Words
  <2> QED BY <2>1
<1>2. B \in Seq(Stores) /\ Len(B) = Capacity /\ \A i \in 1..Capacity : B[i] = PutRing(i - 1, 0)
  <2>1. \A i \in 1..Capacity : PutRing(i - 1, 0) \in Stores
    BY <1>0 DEF PutRing, Stores, Slots
  <2> QED BY <1>0, <2>1
<1>3. C \in Seq(Stores) /\ Len(C) = 2 /\ C[1] = Put("magic", 1) /\ C[2] = Put("running", r)
  <2>1. Put("magic", 1) \in Stores /\ Put("running", r) \in Stores
    BY <1>0 DEF Put, Stores, Words
  <2> QED BY <2>1
<1>4. ClearStores(r) = (A \o B) \o C
  BY DEF ClearStores
<1> HIDE DEF A, B, C
<1>5. PICK D : D = A \o B
  OBVIOUS
<1>6. /\ D \in Seq(Stores) /\ Len(D) = 7 + Capacity
      /\ \A i \in 1..(7 + Capacity) : D[i] = IF i <= 7 THEN A[i] ELSE B[i - 7]
  <2>1. /\ A \o B \in Seq(Stores) /\ Len(A \o B) = Len(A) + Len(B)
        /\ \A i \in 1..(Len(A) + Len(B)) :
              (A \o B)[i] = IF i <= Len(A) THEN A[i] ELSE B[i - Len(A)]
    BY <1>1, <1>2, ConcatProperties
  <2> QED BY <1>0, <1>1, <1>2, <1>5, <2>1
<1>7. PICK F : F = D \o C
  OBVIOUS
<1>8. /\ F \in Seq(Stores) /\ Len(F) = 9 + Capacity
      /\ \A i \in 1..(9 + Capacity) : F[i] = IF i <= 7 + Capacity THEN D[i] ELSE C[i - (7 + Capacity)]
  <2>1. /\ D \o C \in Seq(Stores) /\ Len(D \o C) = Len(D) + Len(C)
        /\ \A i \in 1..(Len(D) + Len(C)) :
              (D \o C)[i] = IF i <= Len(D) THEN D[i] ELSE C[i - Len(D)]
    BY <1>3, <1>6, ConcatProperties
  <2> QED BY <1>0, <1>3, <1>6, <1>7, <2>1
<1>9. F = ClearStores(r)
  BY <1>4, <1>5, <1>7
<1>10. ASSUME NEW i \in 1..7 PROVE F[i] = Put(Layout[i], 0)
  <2>1. i \in 1..(9 + Capacity) /\ i \in 1..(7 + Capacity) /\ i <= 7 + Capacity /\ i <= 7
    BY <1>0
  <2>2. F[i] = D[i]
    BY <1>8, <2>1
  <2>3. D[i] = A[i]
    BY <1>6, <2>1
  <2> QED BY <1>1, <2>2, <2>3
<1>11. \A i \in 8..(7 + Capacity) : F[i] = PutRing(i - 8, 0)
  <2> SUFFICES ASSUME NEW i \in 8..(7 + Capacity) PROVE F[i] = PutRing(i - 8, 0)
    OBVIOUS
  <2>1. i - 7 \in 1..Capacity /\ (i - 7) - 1 = i - 8
    BY <1>0
  <2>2. F[i] = B[i - 7]
    BY <1>0, <1>6, <1>8
  <2>3. B[i - 7] = PutRing((i - 7) - 1, 0)
    BY <1>2, <2>1
  <2> QED BY <2>1, <2>2, <2>3, Zenon
<1>12. F[8 + Capacity] = C[1] /\ F[9 + Capacity] = C[2]
  <2>1. (8 + Capacity) - (7 + Capacity) = 1 /\ (9 + Capacity) - (7 + Capacity) = 2
    BY <1>0
  <2>2. /\ F[8 + Capacity] = C[(8 + Capacity) - (7 + Capacity)]
        /\ F[9 + Capacity] = C[(9 + Capacity) - (7 + Capacity)]
    BY <1>0, <1>8
  <2> QED BY <2>1, <2>2, Zenon
<1> QED BY <1>3, <1>8, <1>9, <1>10, <1>11, <1>12

(* A store to a word of the prefix, and one to a slot of the ring.            *)
LEMMA StoreWord ==
    ASSUME Store, NEW w \in Words, NEW v, Head(todo) = Put(w, v)
    PROVE  blk' = [blk EXCEPT ![w] = v] /\ ring' = ring
<1>1. w # "ring"
  BY BlockFacts
<1>2. Put(w, v).word = w /\ Put(w, v).value = v
  BY DEF Put
<1> QED BY <1>1, <1>2 DEF Store

LEMMA StoreSlot ==
    ASSUME Store, NEW i, NEW v, Head(todo) = PutRing(i, v)
    PROVE  ring' = [ring EXCEPT ![i] = v] /\ blk' = blk
<1>1. PutRing(i, v).word = "ring" /\ PutRing(i, v).slot = i /\ PutRing(i, v).value = v
  BY DEF PutRing
<1> QED BY <1>1 DEF Store

(* The record of event n + 1 takes the slot of the one event the window loses. *)
LEMMA RecordStored ==
    ASSUME NEW n \in Nat, ring \in [Slots -> Nat],
           Records(n + 1 - Capacity + 1, n),
           ring' = [ring EXCEPT ![n % Capacity] = n + 1]
    PROVE  Records(n + 1 - Capacity + 1, n + 1)'
<1> SUFFICES ASSUME NEW e \in (n + 1 - Capacity + 1)..(n + 1), e >= 1
             PROVE  ring'[(e - 1) % Capacity] = e
  BY DEF Records
<1>0. Capacity \in Nat /\ Capacity >= 1 /\ e \in Int
  BY BlockFacts
<1>p. PICK d \in Int : d = e - 1
  BY <1>0
<1>1. n % Capacity \in Slots /\ d % Capacity \in Slots
  <2>1. n \in Int /\ d \in Int
    BY <1>p
  <2> QED BY <2>1, SlotOf, Zenon
<1>2. CASE e = n + 1
  BY <1>p, <1>1, <1>2
<1>3. CASE e # n + 1
  <2>1. e \in (n + 1 - Capacity + 1)..n /\ d < n /\ n - d < Capacity
    BY <1>0, <1>p, <1>3
  <2>2. n % Capacity # d % Capacity
    BY <1>p, <2>1, ModDistinct
  <2>3. ring[d % Capacity] = e
    BY <1>p, <2>1 DEF Records
  <2> QED BY <1>p, <1>1, <2>2, <2>3
<1> QED BY <1>2, <1>3

(* A store to the prefix leaves the ring as it is.                           *)
LEMMA RecordsKept ==
    ASSUME NEW lo, NEW hi, Records(lo, hi), ring' = ring
    PROVE  Records(lo, hi)'
BY DEF Records

(* One store of hil_pwm_capture_process.                                     *)
LEMMA EdgeStep ==
    ASSUME BlockType, NEW n \in Nat, NEW s \in 0..5, EdgeAt(n, s), Store
    PROVE  /\ s + 1 \in 0..5 /\ EdgeAt(n, s + 1)' /\ BlockType'
           /\ blk'.seq_lock = blk.seq_lock /\ blk'.magic = blk.magic
           /\ Head(todo) = EdgeBody(n)[s + 1]
<1>1. Capacity \in Nat /\ Capacity >= 1
  BY BlockFacts
<1>2. todo # <<>> /\ todo' = Tail(todo) /\ Left(EdgeBody(n), s) /\ Len(EdgeBody(n)) = 5
  BY EdgeBodyFacts DEF Store, EdgeAt
<1>3. s + 1 \in 1..5 /\ Left(EdgeBody(n), s + 1)'
  BY <1>2, Advance
<1>h. Head(todo) = EdgeBody(n)[s + 1]
  BY <1>2, Advance
<1>4. /\ blk.event_seq = IF s >= 1 THEN n + 1 ELSE n
      /\ blk.stat = IF s >= 2 THEN n + 1 ELSE n
      /\ blk.ring_head = IF s >= 4 THEN (n + 1) % Capacity ELSE n % Capacity
      /\ blk.ring_count = IF s >= 5 THEN MinOf(n + 1, Capacity) ELSE MinOf(n, Capacity)
      /\ blk \in [Words -> Nat] /\ ring \in [Slots -> Nat]
  BY DEF EdgeAt, BlockType
<1>r. /\ s = 0 => Records(n - Capacity + 1, n)
      /\ s \in {1, 2} => Records(n + 1 - Capacity + 1, n)
      /\ s >= 3 => Records(n + 1 - Capacity + 1, n + 1)
  BY DEF EdgeAt
<1>5. /\ n + 1 \in Nat /\ (n + 1) % Capacity \in Nat /\ MinOf(n + 1, Capacity) \in Nat
      /\ n % Capacity \in Slots
  BY <1>1, BlockFacts DEF Slots
<1>6. CASE s = 0
  <2>1. s + 1 = 1 /\ EdgeBody(n)[1] = Put("event_seq", n + 1)
    BY <1>6, EdgeBodyFacts
  <2>2. Head(todo) = Put("event_seq", n + 1)
    BY <1>h, <2>1, Zenon
  <2>3. "event_seq" \in Words
    BY DEF Words
  <2>4. blk' = [blk EXCEPT !["event_seq"] = n + 1] /\ ring' = ring
    BY <2>2, <2>3, StoreWord, Zenon
  <2>5. Records(n + 1 - Capacity + 1, n)
    BY <1>1, <1>r, <1>6 DEF Records
  <2>6. Records(n + 1 - Capacity + 1, n)'
    BY <2>4, <2>5, RecordsKept
  <2>7. /\ blk'.event_seq = n + 1 /\ blk'.stat = n
        /\ blk'.ring_head = n % Capacity
        /\ blk'.ring_count = MinOf(n, Capacity)
        /\ blk'.seq_lock = blk.seq_lock /\ blk'.magic = blk.magic
        /\ blk' \in [Words -> Nat] /\ ring' \in [Slots -> Nat]
    BY <1>4, <1>5, <1>6, <2>4 DEF Words
  <2> QED BY <1>3, <1>h, <1>6, <2>6, <2>7 DEF EdgeAt, BlockType
<1>7. CASE s = 1
  <2>1. s + 1 = 2 /\ EdgeBody(n)[2] = Put("stat", n + 1)
    BY <1>7, EdgeBodyFacts
  <2>2. Head(todo) = Put("stat", n + 1)
    BY <1>h, <2>1, Zenon
  <2>3. "stat" \in Words
    BY DEF Words
  <2>4. blk' = [blk EXCEPT !["stat"] = n + 1] /\ ring' = ring
    BY <2>2, <2>3, StoreWord, Zenon
  <2>5. Records(n + 1 - Capacity + 1, n)
    BY <1>r, <1>7
  <2>6. Records(n + 1 - Capacity + 1, n)'
    BY <2>4, <2>5, RecordsKept
  <2>7. /\ blk'.event_seq = n + 1 /\ blk'.stat = n + 1
        /\ blk'.ring_head = n % Capacity
        /\ blk'.ring_count = MinOf(n, Capacity)
        /\ blk'.seq_lock = blk.seq_lock /\ blk'.magic = blk.magic
        /\ blk' \in [Words -> Nat] /\ ring' \in [Slots -> Nat]
    BY <1>4, <1>5, <1>7, <2>4 DEF Words
  <2> QED BY <1>3, <1>h, <1>7, <2>6, <2>7 DEF EdgeAt, BlockType
<1>8. CASE s = 2
  <2>1. s + 1 = 3 /\ EdgeBody(n)[3] = PutRing(n % Capacity, n + 1)
    BY <1>8, EdgeBodyFacts
  <2>2. Head(todo) = PutRing(n % Capacity, n + 1)
    BY <1>h, <2>1, Zenon
  <2>4. ring' = [ring EXCEPT ![n % Capacity] = n + 1] /\ blk' = blk
    BY <2>2, StoreSlot, Zenon
  <2>5. Records(n + 1 - Capacity + 1, n)
    BY <1>r, <1>8
  <2>6. Records(n + 1 - Capacity + 1, n + 1)'
    BY <1>4, <2>4, <2>5, RecordStored
  <2>7. /\ blk'.event_seq = n + 1 /\ blk'.stat = n + 1
        /\ blk'.ring_head = n % Capacity
        /\ blk'.ring_count = MinOf(n, Capacity)
        /\ blk'.seq_lock = blk.seq_lock /\ blk'.magic = blk.magic
        /\ blk' \in [Words -> Nat] /\ ring' \in [Slots -> Nat]
    BY <1>4, <1>5, <1>8, <2>4 DEF Words
  <2> QED BY <1>3, <1>h, <1>8, <2>6, <2>7 DEF EdgeAt, BlockType
<1>9. CASE s = 3
  <2>1. s + 1 = 4 /\ EdgeBody(n)[4] = Put("ring_head", (n + 1) % Capacity)
    BY <1>9, EdgeBodyFacts
  <2>2. Head(todo) = Put("ring_head", (n + 1) % Capacity)
    BY <1>h, <2>1, Zenon
  <2>3. "ring_head" \in Words
    BY DEF Words
  <2>4. blk' = [blk EXCEPT !["ring_head"] = (n + 1) % Capacity] /\ ring' = ring
    BY <2>2, <2>3, StoreWord, Zenon
  <2>5. Records(n + 1 - Capacity + 1, n + 1)
    BY <1>r, <1>9
  <2>6. Records(n + 1 - Capacity + 1, n + 1)'
    BY <2>4, <2>5, RecordsKept
  <2>7. /\ blk'.event_seq = n + 1 /\ blk'.stat = n + 1
        /\ blk'.ring_head = (n + 1) % Capacity
        /\ blk'.ring_count = MinOf(n, Capacity)
        /\ blk'.seq_lock = blk.seq_lock /\ blk'.magic = blk.magic
        /\ blk' \in [Words -> Nat] /\ ring' \in [Slots -> Nat]
    BY <1>4, <1>5, <1>9, <2>4 DEF Words
  <2> QED BY <1>3, <1>h, <1>9, <2>6, <2>7 DEF EdgeAt, BlockType
<1>10. CASE s = 4
  <2>1. s + 1 = 5 /\ EdgeBody(n)[5] = Put("ring_count", MinOf(n + 1, Capacity))
    BY <1>10, EdgeBodyFacts
  <2>2. Head(todo) = Put("ring_count", MinOf(n + 1, Capacity))
    BY <1>h, <2>1, Zenon
  <2>3. "ring_count" \in Words
    BY DEF Words
  <2>4. blk' = [blk EXCEPT !["ring_count"] = MinOf(n + 1, Capacity)] /\ ring' = ring
    BY <2>2, <2>3, StoreWord, Zenon
  <2>5. Records(n + 1 - Capacity + 1, n + 1)
    BY <1>r, <1>10
  <2>6. Records(n + 1 - Capacity + 1, n + 1)'
    BY <2>4, <2>5, RecordsKept
  <2>7. /\ blk'.event_seq = n + 1 /\ blk'.stat = n + 1
        /\ blk'.ring_head = (n + 1) % Capacity
        /\ blk'.ring_count = MinOf(n + 1, Capacity)
        /\ blk'.seq_lock = blk.seq_lock /\ blk'.magic = blk.magic
        /\ blk' \in [Words -> Nat] /\ ring' \in [Slots -> Nat]
    BY <1>4, <1>5, <1>10, <2>4 DEF Words
  <2> QED BY <1>3, <1>h, <1>10, <2>6, <2>7 DEF EdgeAt, BlockType
<1> QED BY <1>3, <1>6, <1>7, <1>8, <1>9, <1>10

(* One store of capture_clear, which zeroes seq_lock before event_seq.        *)
LEMMA ClearStep ==
    ASSUME BlockType, NEW r \in Nat, NEW s, ClearAt(r, s), Store
    PROVE  s + 1 \in Nat /\ ClearAt(r, s + 1)' /\ BlockType'
<1>1. Capacity \in Nat /\ Capacity >= 1
  BY BlockFacts
<1>2. todo # <<>> /\ todo' = Tail(todo) /\ Left(ClearStores(r), s)
  BY DEF Store, ClearAt
<1>3. Len(ClearStores(r)) = 9 + Capacity
  BY ClearStoresFacts
<1>4. s + 1 \in 1..(9 + Capacity) /\ Left(ClearStores(r), s + 1)'
  BY <1>1, <1>2, <1>3, Advance
<1>5. Head(todo) = ClearStores(r)[s + 1]
  BY <1>1, <1>2, <1>3, Advance
<1>6. PICK k \in Int : k = s + 1
  BY <1>1, <1>4
<1>7. blk \in [Words -> Nat] /\ ring \in [Slots -> Nat]
  BY DEF BlockType
<1>b. /\ k >= 3 => blk.seq_lock = 0
      /\ k >= 5 => blk.event_seq = 0
      /\ k >= 6 => blk.ring_head = 0
      /\ k >= 7 => blk.ring_count = 0
      /\ k >= 8 => blk.stat = 0
      /\ k >= 9 + Capacity => blk.magic = 1
  <2>1. s \in Int
    BY <1>1, <1>2, <1>3 DEF Left
  <2> QED BY <1>1, <1>4, <1>6, <2>1 DEF ClearAt
<1> DEFINE After == /\ k >= 2 => blk'.seq_lock = 0
                    /\ k >= 4 => blk'.event_seq = 0
                    /\ k >= 5 => blk'.ring_head = 0
                    /\ k >= 6 => blk'.ring_count = 0
                    /\ k >= 7 => blk'.stat = 0
                    /\ k >= 8 + Capacity => blk'.magic = 1
                    /\ blk' \in [Words -> Nat] /\ ring' \in [Slots -> Nat]
<1>8. ASSUME k \in 1..7 PROVE After
  <2>1. Head(todo) = Put(Layout[k], 0)
    BY <1>5, <1>6, <1>8, ClearStoresFacts
  <2>2. Layout[k] \in Words
    BY <1>8 DEF Layout, Words
  <2>3. blk' = [blk EXCEPT ![Layout[k]] = 0] /\ ring' = ring
    BY <2>1, <2>2, StoreWord, Zenon
  <2>4. blk' \in [Words -> Nat] /\ \A w \in Words : blk'[w] = 0 \/ blk'[w] = blk[w]
    BY <1>7, <2>2, <2>3
  <2>5. blk'[Layout[k]] = 0
    BY <1>7, <2>2, <2>3
  <2>6. /\ k = 2 => blk'.seq_lock = 0 
        /\ k = 4 => blk'.event_seq = 0
        /\ k = 5 => blk'.ring_head = 0
        /\ k = 6 => blk'.ring_count = 0
        /\ k = 7 => blk'.stat = 0
    BY <1>8, <2>5 DEF Layout
  <2>7. /\ blk'.seq_lock = 0 \/ blk'.seq_lock = blk.seq_lock
        /\ blk'.event_seq = 0 \/ blk'.event_seq = blk.event_seq
        /\ blk'.ring_head = 0 \/ blk'.ring_head = blk.ring_head
        /\ blk'.ring_count = 0 \/ blk'.ring_count = blk.ring_count
        /\ blk'.stat = 0 \/ blk'.stat = blk.stat
    BY <2>4 DEF Words
  <2> QED BY <1>1, <1>7, <1>b, <1>8, <2>3, <2>4, <2>6, <2>7
<1>9. ASSUME k \in 8..(7 + Capacity) PROVE After
  <2>1. k - 8 \in Slots /\ Head(todo) = PutRing(k - 8, 0)
    <3>1. k - 8 \in Slots
      BY <1>1, <1>9 DEF Slots
    <3>2. ClearStores(r)[k] = PutRing(k - 8, 0)
      BY <1>9, ClearStoresFacts
    <3> QED BY <1>5, <1>6, <3>1, <3>2
  <2>2. ring' = [ring EXCEPT ![k - 8] = 0] /\ blk' = blk
    BY <2>1, StoreSlot, Zenon
  <2>3. ring' \in [Slots -> Nat]
    BY <1>7, <2>1, <2>2
  <2> QED BY <1>1, <1>7, <1>b, <1>9, <2>2, <2>3
<1>10. ASSUME k = 8 + Capacity PROVE After
  <2>1. Head(todo) = Put("magic", 1) /\ "magic" \in Words
    BY <1>1, <1>5, <1>6, <1>10, ClearStoresFacts DEF Words
  <2>2. blk' = [blk EXCEPT !["magic"] = 1] /\ ring' = ring
    BY <2>1, StoreWord, Zenon
  <2>3. blk' \in [Words -> Nat] /\ blk'.magic = 1
    BY <1>7, <2>2 DEF Words
  <2>4. /\ blk'.seq_lock = blk.seq_lock /\ blk'.event_seq = blk.event_seq
        /\ blk'.ring_head = blk.ring_head /\ blk'.ring_count = blk.ring_count
        /\ blk'.stat = blk.stat
    BY <1>7, <2>2 DEF Words
  <2> QED BY <1>1, <1>7, <1>b, <1>10, <2>2, <2>3, <2>4
<1>11. ASSUME k = 9 + Capacity PROVE After
  <2>1. Head(todo) = Put("running", r) /\ "running" \in Words
    BY <1>1, <1>5, <1>6, <1>11, ClearStoresFacts DEF Words
  <2>2. blk' = [blk EXCEPT !["running"] = r] /\ ring' = ring
    BY <2>1, StoreWord, Zenon
  <2>3. blk' \in [Words -> Nat] /\ blk'.magic = blk.magic
    BY <1>7, <2>2 DEF Words
  <2>4. /\ blk'.seq_lock = blk.seq_lock /\ blk'.event_seq = blk.event_seq
        /\ blk'.ring_head = blk.ring_head /\ blk'.ring_count = blk.ring_count
        /\ blk'.stat = blk.stat
    BY <1>7, <2>2 DEF Words
  <2> QED BY <1>1, <1>7, <1>b, <1>11, <2>2, <2>3, <2>4
<1>12. After
  BY <1>1, <1>4, <1>6, <1>8, <1>9, <1>10, <1>11
<1> QED BY <1>1, <1>4, <1>6, <1>12 DEF ClearAt, BlockType

(* Outside hil_pwm_capture_process a store or the lock moves no event.         *)
LEMMA WholeKept ==
    ASSUME Whole, ring' = ring, blk'.event_seq = blk.event_seq, blk'.stat = blk.stat,
           blk'.ring_head = blk.ring_head, blk'.ring_count = blk.ring_count
    PROVE  Whole'
<1>1. PICK n \in Nat : Consistent(n)
  BY DEF Whole
<1>2. Records(n - Capacity + 1, n)'
  <2>1. Records(n - Capacity + 1, n)
    BY <1>1 DEF Consistent
  <2> QED BY <2>1, RecordsKept
<1>3. Consistent(n)'
  BY <1>1, <1>2 DEF Consistent
<1> QED BY <1>3 DEF Whole

(* The store of CAPTURE_START and CAPTURE_STOP.                               *)
LEMMA RestartStep ==
    ASSUME BlockType, NEW v \in Nat, Restarting(v), Store
    PROVE  /\ Ending' /\ BlockType' /\ blk'.event_seq = blk.event_seq
           /\ blk'.seq_lock = blk.seq_lock /\ blk'.magic = blk.magic
           /\ Head(todo) = Put("running", v)
<1> DEFINE body == <<Put("running", v)>>
<1>1. Len(body) = 1 /\ body[1] = Put("running", v)
  OBVIOUS
<1>2. todo # <<>> /\ todo' = Tail(todo) /\ Left(body, 0) /\ Whole
  BY DEF Store, Restarting
<1> HIDE DEF body
<1>3. Head(todo) = body[0 + 1] /\ Left(body, 0 + 1)'
  BY <1>1, <1>2, Advance
<1>4. Head(todo) = Put("running", v) /\ "running" \in Words
  BY <1>1, <1>3 DEF Words
<1>5. blk' = [blk EXCEPT !["running"] = v] /\ ring' = ring
  BY <1>4, StoreWord, Zenon
<1>6. /\ blk' \in [Words -> Nat] /\ ring' \in [Slots -> Nat]
      /\ blk'.seq_lock = blk.seq_lock /\ blk'.event_seq = blk.event_seq
      /\ blk'.ring_head = blk.ring_head /\ blk'.ring_count = blk.ring_count
      /\ blk'.stat = blk.stat /\ blk'.magic = blk.magic
  BY <1>5 DEF BlockType, Words
<1>7. Whole'
  BY <1>2, <1>5, <1>6, WholeKept
<1>8. todo' = <<>>
  <2>1. todo' \in Seq(Stores) /\ Len(todo') = 0
    BY <1>1, <1>3 DEF Left
  <2> QED BY <2>1
<1> QED BY <1>4, <1>6, <1>7, <1>8 DEF Ending, BlockType

(* After its last store hil_pwm_capture_process accounts for one event more,  *)
(* and capture_clear for none.                                               *)
LEMMA EdgeEnds ==
    ASSUME BlockType, NEW n \in Nat, NEW s \in 0..5, EdgeAt(n, s), todo = <<>>
    PROVE  s = 5 /\ Consistent(n + 1)
<1>1. s = 5
  <2>1. Left(EdgeBody(n), s) /\ Len(EdgeBody(n)) = 5
    BY EdgeBodyFacts DEF EdgeAt
  <2>2. Len(EdgeBody(n)) \in Nat
    BY <2>1
  <2>3. s = Len(EdgeBody(n))
    BY <2>1, <2>2, AtEnd, Zenon
  <2> QED BY <2>1, <2>3
<1>2. /\ s >= 1 => blk.event_seq = n + 1
      /\ s >= 2 => blk.stat = n + 1
      /\ s >= 4 => blk.ring_head = (n + 1) % Capacity
      /\ s >= 5 => blk.ring_count = MinOf(n + 1, Capacity)
  BY DEF EdgeAt
<1>3. s >= 3 => Records(n + 1 - Capacity + 1, n + 1)
  BY DEF EdgeAt
<1>4. /\ blk.event_seq = n + 1 /\ blk.stat = n + 1
      /\ blk.ring_head = (n + 1) % Capacity /\ blk.ring_count = MinOf(n + 1, Capacity)
  BY <1>1, <1>2
<1>5. Records(n + 1 - Capacity + 1, n + 1)
  BY <1>1, <1>3
<1>6. PICK m \in Nat : m = n + 1
  OBVIOUS
<1>7. /\ blk.event_seq = m /\ blk.stat = m
      /\ blk.ring_head = m % Capacity /\ blk.ring_count = MinOf(m, Capacity)
  BY <1>4, <1>6
<1>8. Records(m - Capacity + 1, m)
  <2>1. n + 1 - Capacity + 1 = m - Capacity + 1
    BY <1>6, BlockFacts
  <2> QED BY <1>5, <1>6, <2>1, Zenon
<1>9. Consistent(m)
  BY <1>7, <1>8, Zenon DEF Consistent
<1> QED BY <1>1, <1>6, <1>9, Zenon

LEMMA ClearEnds ==
    ASSUME BlockType, NEW r \in Nat, NEW s, ClearAt(r, s), todo = <<>>
    PROVE  Consistent(0) /\ blk.seq_lock = 0 /\ blk.magic = 1
<1>0. Capacity \in Nat /\ Capacity >= 1
  BY BlockFacts
<1>1. s = 9 + Capacity
  <2>1. Left(ClearStores(r), s) /\ Len(ClearStores(r)) = 9 + Capacity
    BY ClearStoresFacts DEF ClearAt
  <2> QED BY <1>0, <2>1, AtEnd
<1>2. /\ blk.seq_lock = 0 /\ blk.event_seq = 0 /\ blk.ring_head = 0 /\ blk.ring_count = 0
      /\ blk.stat = 0 /\ blk.magic = 1
  BY <1>0, <1>1 DEF ClearAt
<1>3. 0 % Capacity = 0 /\ MinOf(0, Capacity) = 0
  <2>1. 0 \in 0..(Capacity - 1) /\ 0 = 0 * Capacity + 0
    BY <1>0
  <2>2. 0 % Capacity = 0
    BY <2>1, ModUnique
  <2> QED BY <1>0, <2>2 DEF MinOf
<1>4. Records(0 - Capacity + 1, 0)
  BY <1>0 DEF Records
<1> QED BY <1>2, <1>3, <1>4 DEF Consistent

(* hil_pwm_capture_process starts its update as EdgeAt describes it.           *)
LEMMA ProcessBegins ==
    ASSUME BlockType, NEW n \in Nat, Consistent(n), capture_process
    PROVE  EdgeAt(n, 0)' /\ BlockType'
<1>0. Capacity \in Nat /\ Capacity >= 1
  BY BlockFacts
<1>1. /\ blk.event_seq = n /\ blk.stat = n
      /\ blk.ring_head = n % Capacity /\ blk.ring_count = MinOf(n, Capacity)
  BY DEF Consistent
<1>2. /\ todo' = EdgeStores /\ ring' = ring
      /\ blk' = [blk EXCEPT !.seq_lock = @ + 1]
  BY DEF capture_process, Begin
<1>3. (blk.ring_head + 1) % Capacity = (n + 1) % Capacity
  BY <1>1, ModAdd
<1>4. (IF blk.ring_count < Capacity THEN blk.ring_count + 1 ELSE blk.ring_count)
         = MinOf(n + 1, Capacity)
  BY <1>0, <1>1 DEF MinOf
<1>5. EdgeStores = EdgeBody(n)
  BY <1>1, <1>3, <1>4 DEF EdgeStores, EdgeBody
<1>6. Left(EdgeBody(n), 0)'
  <2>1. Len(EdgeBody(n)) = 5 /\ EdgeBody(n) \in Seq(Stores) /\ todo' = EdgeBody(n)
    BY <1>2, <1>5, EdgeBodyFacts
  <2> QED BY <2>1 DEF Left
<1>7. /\ blk' \in [Words -> Nat] /\ ring' \in [Slots -> Nat]
      /\ blk'.event_seq = n /\ blk'.stat = n
      /\ blk'.ring_head = n % Capacity /\ blk'.ring_count = MinOf(n, Capacity)
  BY <1>1, <1>2 DEF BlockType, Words
<1>8. Records(n - Capacity + 1, n)'
  <2>1. Records(n - Capacity + 1, n)
    BY DEF Consistent
  <2> QED BY <1>2, <2>1, RecordsKept
<1> QED BY <1>6, <1>7, <1>8 DEF EdgeAt, BlockType

(* The newest record during hil_pwm_capture_process and outside it.            *)
EdgeRest(t, n, s) ==
    /\ t \in Seq(Stores) /\ Len(t) = 5 - s
    /\ \A i \in 1..Len(t) : t[i] = EdgeBody(n)[s + i]

LEMMA StoredEdge ==
    ASSUME NEW n \in Nat, NEW s \in 0..5, NEW t, EdgeRest(t, n, s), NEW b,
           s >= 1 => b.event_seq = n + 1, s = 0 => b.event_seq = n
    PROVE  (s >= 3 => StoredIn(b, t) = n + 1) /\ (s < 3 => StoredIn(b, t) = n)
<1>0. /\ t \in Seq(Stores) /\ Len(t) = 5 - s
      /\ \A i \in 1..Len(t) : t[i] = EdgeBody(n)[s + i]
  BY DEF EdgeRest
<1>1. CASE s = 5
  <2>1. t = <<>>
    BY <1>0, <1>1
  <2> QED BY <1>1, <2>1 DEF StoredIn
<1>2. CASE s < 5
  <2>1. t # <<>> /\ Head(t) = EdgeBody(n)[s + 1]
    BY <1>0, <1>2
  <2>2. PICK k \in 1..5 : k = s + 1
    BY <1>2
  <2>3. Head(t) = EdgeBody(n)[k]
    BY <2>1, <2>2
  <2>4. Head(t).word \in {"stat", "ring"} <=> k \in {2, 3}
    <3>0. /\ EdgeBody(n)[1].word = "event_seq" /\ EdgeBody(n)[2].word = "stat"
          /\ EdgeBody(n)[3].word = "ring"
          /\ EdgeBody(n)[4].word = "ring_head" /\ EdgeBody(n)[5].word = "ring_count"
      <4>1. /\ \A w, v : Put(w, v).word = w
            /\ \A i, v : PutRing(i, v).word = "ring"
        BY DEF Put, PutRing
      <4>2. /\ EdgeBody(n)[1] = Put("event_seq", n + 1)
            /\ EdgeBody(n)[2] = Put("stat", n + 1)
            /\ EdgeBody(n)[3] = PutRing(n % Capacity, n + 1)
            /\ EdgeBody(n)[4] = Put("ring_head", (n + 1) % Capacity)
            /\ EdgeBody(n)[5] = Put("ring_count", MinOf(n + 1, Capacity))
        BY EdgeBodyFacts
      <4> QED BY <4>1, <4>2, SMT
    <3>1. CASE k = 1
      <4>1. Head(t).word = "event_seq"
        BY <2>3, <3>0, <3>1, Zenon
      <4> QED BY <3>1, <4>1
    <3>2. CASE k = 2
      <4>1. Head(t).word = "stat"
        BY <2>3, <3>0, <3>2, Zenon
      <4> QED BY <3>2, <4>1
    <3>3. CASE k = 3
      <4>1. Head(t).word = "ring"
        BY <2>3, <3>0, <3>3, Zenon
      <4> QED BY <3>3, <4>1
    <3>4. CASE k = 4
      <4>1. Head(t).word = "ring_head"
        BY <2>3, <3>0, <3>4, Zenon
      <4> QED BY <3>4, <4>1
    <3>5. CASE k = 5
      <4>1. Head(t).word = "ring_count"
        BY <2>3, <3>0, <3>5, Zenon
      <4> QED BY <3>5, <4>1
    <3> QED BY <3>1, <3>2, <3>3, <3>4, <3>5
  <2> QED BY <1>2, <2>1, <2>2, <2>4 DEF StoredIn
<1> QED BY <1>1, <1>2

LEMMA StoredRest ==
    ASSUME NEW b, NEW t, t = <<>> \/ Head(t).word = "running"
    PROVE  StoredIn(b, t) = b.event_seq
BY DEF StoredIn

(* From the end of one store to the end of the next the history only grows,    *)
(* and a new update is visible in seq_lock.                                   *)
Onward ==
    /\ wstate = "idle" => blk'.seq_lock = blk.seq_lock + 1
    /\ blk'.seq_lock >= blk.seq_lock
    /\ blk'.event_seq >= blk.event_seq
    /\ StoredIn(blk', todo') >= StoredIn(blk, todo)

LEMMA BeginPlain ==
    ASSUME BlockType, Whole, NEW body, Begin(body)
    PROVE  /\ Whole' /\ BlockType' /\ blk'.event_seq = blk.event_seq
           /\ blk'.seq_lock = blk.seq_lock + 1 /\ blk'.magic = blk.magic
<1>1. ring' = ring /\ blk' = [blk EXCEPT !.seq_lock = @ + 1]
  BY DEF Begin
<1>2. /\ blk' \in [Words -> Nat] /\ ring' \in [Slots -> Nat]
      /\ blk'.event_seq = blk.event_seq /\ blk'.stat = blk.stat
      /\ blk'.ring_head = blk.ring_head /\ blk'.ring_count = blk.ring_count
      /\ blk'.seq_lock = blk.seq_lock + 1 /\ blk'.magic = blk.magic
  BY <1>1 DEF BlockType, Words
<1> QED BY <1>1, <1>2, WholeKept DEF BlockType

LEMMA RestartBegins ==
    ASSUME BlockType, Whole, NEW v \in Nat, Begin(<<Put("running", v)>>)
    PROVE  Restarting(v)'
<1>1. Put("running", v) \in Stores
  BY BlockFacts DEF Put, Stores, Words
<1>2. Left(<<Put("running", v)>>, 0)'
  BY <1>1 DEF Begin, Left
<1> QED BY <1>2, BeginPlain DEF Restarting

(* Every step of the firmware keeps the block's invariant, and outside a clear *)
(* the history only grows.                                                    *)
LEMMA WriterStep ==
    ASSUME WriterInv, Writer
    PROVE  WriterInv' /\ (wstate # "clearing" /\ wstate' # "clearing" => Onward)
<1> DEFINE Goal == WriterInv' /\ (wstate # "clearing" /\ wstate' # "clearing" => Onward)
<1>0. /\ BlockType /\ Capacity \in Nat /\ Capacity >= 1
      /\ wstate \in {"idle", "open", "clearing"} /\ ops \in 0..MaxOps /\ MaxOps \in Nat
      /\ blk.seq_lock \in Nat /\ blk.event_seq \in Nat /\ blk.running \in Nat
  <2>1. blk.seq_lock \in Nat /\ blk.event_seq \in Nat /\ blk.running \in Nat
    BY DEF WriterInv, BlockType, Words
  <2> QED BY <2>1, BlockFacts, SnapshotAssumption DEF WriterInv
<1>1. ASSUME Idle PROVE /\ wstate = "idle" /\ ops' \in 0..MaxOps /\ todo = <<>> /\ Whole
                        /\ even(blk.seq_lock) /\ blk.magic = 1
                        /\ StoredIn(blk, todo) = blk.event_seq
  <2>1. wstate = "idle" /\ ops' \in 0..MaxOps
    BY <1>0, <1>1 DEF Idle
  <2>2. todo = <<>> /\ Whole /\ even(blk.seq_lock) /\ blk.magic = 1
    BY <2>1 DEF WriterInv
  <2> QED BY <2>1, <2>2, StoredRest
<1>2. ASSUME NEW body, Begin(body), Idle
      PROVE  /\ Whole' /\ BlockType' /\ blk'.event_seq = blk.event_seq
             /\ blk'.seq_lock = blk.seq_lock + 1 /\ blk'.magic = 1
             /\ ~even(blk'.seq_lock) /\ wstate' = "open" /\ todo' = body
  <2>1. /\ Whole' /\ BlockType' /\ blk'.event_seq = blk.event_seq
        /\ blk'.seq_lock = blk.seq_lock + 1 /\ blk'.magic = 1
    BY <1>0, <1>1, <1>2, BeginPlain
  <2>2. ~even(blk'.seq_lock)
    BY <1>0, <1>1, <1>2, <2>1 DEF even
  <2> QED BY <1>2, <2>1, <2>2 DEF Begin
<1>3. ASSUME capture_process PROVE Goal
  <2>1. Idle /\ Begin(EdgeStores)
    BY <1>3 DEF capture_process
  <2>2. PICK n \in Nat : Consistent(n)
    BY <1>1, <2>1 DEF Whole
  <2>3. EdgeAt(n, 0)' /\ BlockType'
    BY <1>0, <1>3, <2>2, ProcessBegins
  <2>4. StoredIn(blk', todo') = n /\ blk.event_seq = n
    <3>1. PICK z \in 0..5 : z = 0
      OBVIOUS
    <3>2. EdgeAt(n, z)'
      BY <2>3, <3>1
    <3>3. EdgeRest(todo', n, z)
      BY <3>2, EdgeBodyFacts DEF EdgeAt, Left, EdgeRest
    <3>4. (z >= 1 => blk'.event_seq = n + 1) /\ (z = 0 => blk'.event_seq = n)
      BY <3>2 DEF EdgeAt
    <3>5. (z >= 3 => StoredIn(blk', todo') = n + 1) /\ (z < 3 => StoredIn(blk', todo') = n)
      BY <3>3, <3>4, StoredEdge
    <3> QED BY <2>2, <3>1, <3>5 DEF Consistent
  <2>5. WriterInv'
    BY <1>1, <1>2, <2>1, <2>3 DEF WriterInv
  <2>6. Onward
    BY <1>0, <1>1, <1>2, <2>1, <2>4 DEF Onward
  <2> QED BY <2>5, <2>6
<1>4. ASSUME NEW v \in Nat, Idle, Begin(<<Put("running", v)>>) PROVE Goal
  <2>1. Restarting(v)'
    BY <1>0, <1>1, <1>4, RestartBegins
  <2>2. StoredIn(blk', todo') = blk'.event_seq
    <3>1. Head(todo').word = "running"
      BY <1>2, <1>4 DEF Put
    <3> QED BY <3>1, StoredRest
  <2>3. WriterInv'
    BY <1>1, <1>2, <1>4, <2>1 DEF WriterInv
  <2>4. Onward
    BY <1>0, <1>1, <1>2, <1>4, <2>2 DEF Onward
  <2> QED BY <2>3, <2>4
<1>5. ASSUME set_min_deadtime PROVE Goal
  <2>1. Idle /\ Begin(<<>>)
    BY <1>5 DEF set_min_deadtime
  <2>2. Ending' /\ StoredIn(blk', todo') = blk'.event_seq
    BY <1>2, <2>1, StoredRest DEF Ending
  <2>3. WriterInv'
    BY <1>1, <1>2, <2>1, <2>2 DEF WriterInv
  <2>4. Onward
    BY <1>0, <1>1, <1>2, <2>1, <2>2 DEF Onward
  <2> QED BY <2>3, <2>4
<1>6. ASSUME capture_clear PROVE Goal
  <2>1. /\ Idle /\ wstate' = "clearing" /\ todo' = ClearStores(blk.running)
        /\ blk' = blk /\ ring' = ring
    BY <1>6 DEF capture_clear
  <2>2. PICK r \in Nat : r = blk.running
    BY <1>0
  <2>3. todo' = ClearStores(r) /\ ClearStores(r) \in Seq(Stores) /\ Len(ClearStores(r)) = 9 + Capacity
    BY <2>1, <2>2, ClearStoresFacts
  <2>4. Left(ClearStores(r), 0)'
    BY <1>0, <2>3 DEF Left
  <2>5. ClearAt(r, 0)'
    BY <1>0, <2>4 DEF ClearAt
  <2>6. BlockType'
    BY <1>0, <2>1 DEF BlockType
  <2> QED BY <1>1, <2>1, <2>5, <2>6 DEF WriterInv
<1>7. ASSUME Store PROVE Goal
  <2>1. wstate' = wstate /\ ops' = ops /\ todo # <<>> /\ wstate # "idle"
    BY <1>7 DEF Store
  <2>2. CASE wstate = "clearing"
    <3>1. PICK r \in Nat, s \in Nat : ClearAt(r, s)
      BY <2>2 DEF WriterInv
    <3>2. s + 1 \in Nat /\ ClearAt(r, s + 1)' /\ BlockType'
      BY <1>0, <1>7, <3>1, ClearStep
    <3> QED BY <1>0, <2>1, <2>2, <3>2 DEF WriterInv
  <2>3. CASE wstate = "open"
    <3>0. /\ ~even(blk.seq_lock) /\ blk.magic = 1
          /\ \/ \E v \in Nat : Restarting(v)
             \/ \E n \in Nat, s \in 0..5 : EdgeAt(n, s)
      BY <2>1, <2>3 DEF WriterInv, Ending
    <3>1. ASSUME NEW v \in Nat, Restarting(v) PROVE Goal
      <4>1. /\ Ending' /\ BlockType' /\ blk'.event_seq = blk.event_seq
            /\ blk'.seq_lock = blk.seq_lock /\ blk'.magic = blk.magic
            /\ Head(todo) = Put("running", v)
        BY <1>0, <1>7, <3>1, RestartStep
      <4>2. Head(todo).word = "running" /\ todo' = <<>>
        BY <4>1 DEF Put, Ending
      <4>3. StoredIn(blk, todo) = blk.event_seq /\ StoredIn(blk', todo') = blk'.event_seq
        BY <4>2, StoredRest
      <4>4. Onward
        BY <1>0, <2>1, <4>1, <4>3 DEF Onward
      <4>5. WriterInv'
        BY <1>0, <2>1, <2>3, <3>0, <4>1 DEF WriterInv
      <4> QED BY <4>4, <4>5
    <3>2. ASSUME NEW n \in Nat, NEW s \in 0..5, EdgeAt(n, s) PROVE Goal
      <4>1. /\ s + 1 \in 0..5 /\ EdgeAt(n, s + 1)' /\ BlockType'
            /\ blk'.seq_lock = blk.seq_lock /\ blk'.magic = blk.magic
        BY <1>0, <1>7, <3>2, EdgeStep
      <4>2. StoredIn(blk, todo) = IF s >= 3 THEN n + 1 ELSE n
        <5>1. EdgeRest(todo, n, s)
          BY <3>2, EdgeBodyFacts DEF EdgeAt, Left, EdgeRest
        <5>2. (s >= 1 => blk.event_seq = n + 1) /\ (s = 0 => blk.event_seq = n)
          BY <3>2 DEF EdgeAt
        <5>3. (s >= 3 => StoredIn(blk, todo) = n + 1) /\ (s < 3 => StoredIn(blk, todo) = n)
          BY <5>1, <5>2, StoredEdge
        <5> QED BY <5>3
      <4>3. PICK z \in 0..5 : z = s + 1
        BY <4>1
      <4>4. EdgeAt(n, z)'
        BY <4>1, <4>3
      <4>5. StoredIn(blk', todo') = IF z >= 3 THEN n + 1 ELSE n
        <5>1. EdgeRest(todo', n, z)
          BY <4>4, EdgeBodyFacts DEF EdgeAt, Left, EdgeRest
        <5>2. (z >= 1 => blk'.event_seq = n + 1) /\ (z = 0 => blk'.event_seq = n)
          BY <4>4 DEF EdgeAt
        <5>3. (z >= 3 => StoredIn(blk', todo') = n + 1) /\ (z < 3 => StoredIn(blk', todo') = n)
          BY <5>1, <5>2, StoredEdge
        <5> QED BY <5>3
      <4>6. blk'.event_seq >= blk.event_seq
        BY <3>2, <4>3, <4>4 DEF EdgeAt
      <4>7. Onward
        BY <1>0, <2>1, <4>1, <4>2, <4>3, <4>5, <4>6 DEF Onward
      <4>8. WriterInv'
        BY <1>0, <2>1, <2>3, <3>0, <4>1, <4>4 DEF WriterInv
      <4> QED BY <4>7, <4>8
    <3> QED BY <3>0, <3>1, <3>2
  <2> QED BY <1>0, <2>1, <2>2, <2>3
<1>8. ASSUME end_update PROVE Goal
  <2>1. /\ wstate # "idle" /\ todo = <<>> /\ wstate' = "idle"
        /\ ring' = ring /\ todo' = todo /\ ops' = ops
        /\ blk' = IF wstate = "open" THEN [blk EXCEPT !.seq_lock = @ + 1] ELSE blk
    BY <1>8 DEF end_update
  <2>2. CASE wstate = "clearing"
    <3>1. PICK r \in Nat, s \in Nat : ClearAt(r, s)
      BY <2>2 DEF WriterInv
    <3>2. Consistent(0) /\ blk.seq_lock = 0 /\ blk.magic = 1
      BY <1>0, <2>1, <3>1, ClearEnds
    <3>3. blk' = blk
      BY <2>1, <2>2
    <3>4. Whole' /\ BlockType' /\ even(blk'.seq_lock) /\ blk'.magic = 1
      <4>1. Whole
        BY <3>2 DEF Whole
      <4>2. Whole'
        BY <2>1, <3>3, <4>1, WholeKept
      <4>3. BlockType'
        BY <1>0, <2>1, <3>3 DEF BlockType
      <4>4. even(blk'.seq_lock)
        BY <3>2, <3>3 DEF even
      <4> QED BY <3>2, <3>3, <4>2, <4>3, <4>4
    <3> QED BY <1>0, <2>1, <2>2, <3>4 DEF WriterInv
  <2>3. CASE wstate = "open"
    <3>0. ~even(blk.seq_lock) /\ blk.magic = 1
      BY <2>3 DEF WriterInv
    <3>1. Whole
      <4>1. CASE Ending
        BY <4>1 DEF Ending
      <4>2. ASSUME NEW n \in Nat, NEW s \in 0..5, EdgeAt(n, s) PROVE Whole
        <5>1. Consistent(n + 1) /\ n + 1 \in Nat
          BY <1>0, <2>1, <4>2, EdgeEnds
        <5> QED BY <5>1 DEF Whole
      <4>3. ASSUME NEW v \in Nat, Restarting(v) PROVE Whole
        BY <4>3 DEF Restarting
      <4> QED BY <2>3, <4>1, <4>2, <4>3 DEF WriterInv
    <3>2. blk' = [blk EXCEPT !.seq_lock = @ + 1]
      BY <2>1, <2>3
    <3>3. /\ blk' \in [Words -> Nat] /\ ring' \in [Slots -> Nat]
          /\ blk'.event_seq = blk.event_seq /\ blk'.stat = blk.stat
          /\ blk'.ring_head = blk.ring_head /\ blk'.ring_count = blk.ring_count
          /\ blk'.seq_lock = blk.seq_lock + 1 /\ blk'.magic = blk.magic
      <4>1. blk \in [Words -> Nat] /\ ring \in [Slots -> Nat] /\ ring' = ring
        BY <1>0, <2>1 DEF BlockType
      <4>2. blk.seq_lock \in Nat /\ blk.seq_lock + 1 \in Nat
        BY <4>1 DEF Words
      <4>3. \A w \in Words \ {"seq_lock"} : blk'[w] = blk[w]
        BY <3>2, <4>1
      <4> QED BY <3>2, <4>1, <4>2, <4>3 DEF Words
    <3>4. Whole'
      BY <2>1, <3>1, <3>3, WholeKept
    <3>5. even(blk'.seq_lock)
      BY <1>0, <3>0, <3>3 DEF even
    <3>6. StoredIn(blk, todo) = blk.event_seq /\ StoredIn(blk', todo') = blk'.event_seq
      BY <2>1, StoredRest
    <3>7. Onward
      BY <1>0, <2>1, <3>3, <3>6 DEF Onward
    <3>8. WriterInv'
      BY <1>0, <2>1, <3>0, <3>3, <3>4, <3>5 DEF WriterInv, BlockType
    <3> QED BY <3>7, <3>8
  <2> QED BY <1>0, <2>1, <2>2, <2>3
<1>9. CASE capture_start \/ capture_stop
  BY <1>4, <1>9 DEF capture_start, capture_stop
<1> QED BY <1>3, <1>5, <1>6, <1>7, <1>8, <1>9 DEF Writer
------------------------------------------------------------------------------
(* What the reader has in its locals, whatever it saw.                        *)
ReaderType ==
    /\ rpc \in {"seq0", "copy", "ring", "done", "raised"}
    /\ tries \in 0..Retries /\ limit \in RingLimits \cup {0}
    /\ seq0 \in Nat /\ snap \in [Words -> Nat] /\ next \in Nat
    /\ rpc \in {"seq0", "copy", "ring"} => tries >= 1
    /\ rpc \in {"seq0", "copy"} => win = <<>>
    /\ rpc = "copy" => next \in 1..8

BlockInv == WriterInv /\ ReaderType

LEMMA InitialBlock == SnapshotInit => BlockInv
<1> SUFFICES ASSUME SnapshotInit PROVE BlockInv
  OBVIOUS
<1>0. Capacity \in Nat /\ Capacity >= 1 /\ MaxOps \in Nat /\ Retries \in Nat
  BY SnapshotAssumption
<1>1. /\ blk \in [Words -> Nat] /\ ring \in [Slots -> Nat]
      /\ blk.magic = 1 /\ blk.seq_lock = 0 /\ blk.event_seq = 0 /\ blk.stat = 0
      /\ blk.ring_head = 0 /\ blk.ring_count = 0
  BY DEF SnapshotInit, Words
<1>2. 0 % Capacity = 0 /\ MinOf(0, Capacity) = 0
  <2>1. 0 \in 0..(Capacity - 1) /\ 0 = 0 * Capacity + 0
    BY <1>0
  <2>2. 0 % Capacity = 0
    BY <2>1, ModUnique
  <2> QED BY <1>0, <2>2 DEF MinOf
<1>3. Records(0 - Capacity + 1, 0)
  BY <1>0 DEF Records
<1>4. Whole
  BY <1>1, <1>2, <1>3 DEF Whole, Consistent
<1>5. even(blk.seq_lock)
  BY <1>1 DEF even
<1>6. WriterInv
  BY <1>0, <1>1, <1>4, <1>5 DEF WriterInv, BlockType, SnapshotInit
<1>7. ReaderType
  <2>1. NoSnap \in [Words -> Nat]
    BY DEF NoSnap
  <2> QED BY <1>0, <2>1 DEF ReaderType, SnapshotInit
<1> QED BY <1>6, <1>7 DEF BlockInv

(* The firmware leaves the reader's locals alone, and the reader the block.    *)
LEMMA WriterFrame == Writer => UNCHANGED rvars
BY DEF Writer, capture_process, capture_start, capture_stop, set_min_deadtime,
       capture_clear, Store, end_update, Idle

LEMMA ReaderFrame == Reader => UNCHANGED wvars
BY DEF Reader, Call, ReadSeq0, CopyWord, ReadSeq1, CopyRecord, ReadEventSeq

LEMMA WriterInvKept == WriterInv /\ UNCHANGED wvars => WriterInv'
<1> SUFFICES ASSUME WriterInv, UNCHANGED wvars PROVE WriterInv'
  OBVIOUS
<1>1. blk' = blk /\ ring' = ring /\ wstate' = wstate /\ todo' = todo /\ ops' = ops
  BY DEF wvars
<1>2. Whole => Whole'
  BY <1>1, WholeKept
<1>3. ASSUME NEW v \in Nat, Restarting(v) PROVE Restarting(v)'
  BY <1>1, <1>2, <1>3 DEF Restarting, Left
<1>4. Ending => Ending'
  BY <1>1, <1>2 DEF Ending
<1>5. ASSUME NEW n \in Nat, NEW s \in 0..5, EdgeAt(n, s) PROVE EdgeAt(n, s)'
  BY <1>1, <1>5 DEF EdgeAt, Left, Records
<1>6. ASSUME NEW r \in Nat, NEW s \in Nat, ClearAt(r, s) PROVE ClearAt(r, s)'
  BY <1>1, <1>6 DEF ClearAt, Left
<1>7. /\ BlockType' /\ wstate' \in {"idle", "open", "clearing"} /\ ops' \in 0..MaxOps
      /\ wstate' = "idle" => even(blk'.seq_lock) /\ blk'.magic = 1 /\ todo' = <<>> /\ Whole'
      /\ wstate' = "open" => ~even(blk'.seq_lock) /\ blk'.magic = 1
  BY <1>1, <1>2 DEF WriterInv, BlockType
<1>8. wstate' = "open" => \/ \E v \in Nat : Restarting(v)'
                          \/ Ending'
                          \/ \E n \in Nat, s \in 0..5 : EdgeAt(n, s)'
  BY <1>1, <1>3, <1>4, <1>5 DEF WriterInv
<1>9. wstate' = "clearing" => \E r \in Nat, s \in Nat : ClearAt(r, s)'
  BY <1>1, <1>6 DEF WriterInv
<1> QED BY <1>7, <1>8, <1>9 DEF WriterInv

(* Every attempt of the reader starts from fresh locals.                      *)
LEMMA ReaderTypeStep ==
    ASSUME BlockInv, Reader
    PROVE  ReaderType'
<1>0. /\ ReaderType /\ blk \in [Words -> Nat] /\ ring \in [Slots -> Nat]
      /\ Retries \in Nat /\ Retries >= 1
  BY SnapshotAssumption DEF BlockInv, WriterInv, BlockType
<1>f. NoSnap \in [Words -> Nat]
  BY DEF NoSnap
<1>1. ASSUME Retry, limit' = limit, rpc \in {"seq0", "copy", "ring"} PROVE ReaderType'
  BY <1>0, <1>f, <1>1 DEF Retry, Fresh, ReaderType
<1>2. ASSUME Raise, limit' = limit PROVE ReaderType'
  BY <1>0, <1>f, <1>2 DEF Raise, Fresh, ReaderType
<1>3. ASSUME NEW n \in RingLimits, Call(n) PROVE ReaderType'
  BY <1>0, <1>f, <1>3 DEF Call, Fresh, ReaderType
<1>4. CASE ReadSeq0
  <2>1. blk.seq_lock \in Nat
    BY <1>0 DEF Words
  <2> QED BY <1>0, <1>1, <1>4, <2>1 DEF ReadSeq0, ReaderType
<1>5. CASE CopyWord
  <2>1. next \in 1..7 /\ rpc = "copy"
    BY <1>0, <1>5 DEF CopyWord, ReaderType
  <2>2. Layout[next] \in Words
    BY <2>1 DEF Layout, Words
  <2>3. snap' \in [Words -> Nat]
    BY <1>0, <1>5, <2>2 DEF CopyWord, ReaderType
  <2> QED BY <1>0, <1>5, <2>1, <2>3 DEF CopyWord, ReaderType
<1>6. CASE ReadSeq1
  <2>1. rpc = "copy" /\ limit' = limit
    BY <1>6 DEF ReadSeq1
  <2>2. \/ Retry \/ Raise
        \/ rpc' \in {"ring", "done"} /\ next' = 0 /\ UNCHANGED <<tries, seq0, snap, win>>
    BY <1>6 DEF ReadSeq1
  <2> QED BY <1>0, <1>1, <1>2, <2>1, <2>2 DEF ReaderType
<1>7. CASE CopyRecord
  BY <1>0, <1>7 DEF CopyRecord, ReaderType
<1>8. CASE ReadEventSeq
  <2>1. rpc = "ring" /\ limit' = limit
    BY <1>8 DEF ReadEventSeq
  <2>2. \/ Retry
        \/ rpc' = "done" /\ UNCHANGED <<tries, seq0, snap, next, win>>
    BY <1>8 DEF ReadEventSeq
  <2> QED BY <1>0, <1>1, <2>1, <2>2 DEF ReaderType
<1> QED BY <1>3, <1>4, <1>5, <1>6, <1>7, <1>8 DEF Reader

LEMMA BlockInvStep == BlockInv /\ [SnapshotNext]_snapvars => BlockInv'
<1> SUFFICES ASSUME BlockInv, [SnapshotNext]_snapvars PROVE BlockInv'
  OBVIOUS
<1>1. CASE Writer
  <2>1. WriterInv'
    BY <1>1, WriterStep DEF BlockInv
  <2>2. ReaderType'
    BY <1>1, WriterFrame DEF BlockInv, ReaderType, rvars
  <2> QED BY <2>1, <2>2 DEF BlockInv
<1>2. CASE Reader
  BY <1>2, ReaderFrame, WriterInvKept, ReaderTypeStep DEF BlockInv
<1>3. CASE UNCHANGED snapvars
  <2>1. UNCHANGED wvars /\ UNCHANGED rvars
    BY <1>3 DEF snapvars
  <2> QED BY <2>1, WriterInvKept DEF BlockInv, ReaderType, rvars
<1> QED BY <1>1, <1>2, <1>3 DEF SnapshotNext

(* The inductive invariant says what BlockSound says of the block at rest.    *)
LEMMA InvariantIsSound == BlockInv => BlockSound
<1> SUFFICES ASSUME BlockInv PROVE BlockSound
  OBVIOUS
<1>0. Capacity \in Nat /\ Capacity >= 1
  BY BlockFacts
<1>1. SnapshotTypeOK
  BY DEF BlockInv, WriterInv, BlockType, ReaderType, SnapshotTypeOK
<1>2. ASSUME wstate = "idle" PROVE BlockConsistent
  <2>1. PICK n \in Nat : Consistent(n)
    BY <1>2 DEF BlockInv, WriterInv, Whole
  <2>2. /\ blk.event_seq = n /\ blk.stat = n
        /\ blk.ring_head = n % Capacity /\ blk.ring_count = MinOf(n, Capacity)
    BY <2>1 DEF Consistent
  <2>3. ASSUME NEW k \in 1..blk.ring_count
        PROVE  ring[(blk.ring_head - k) % Capacity] = blk.event_seq - k + 1
    <3>1. k \in Nat /\ k >= 1 /\ k <= n /\ k <= Capacity
      BY <1>0, <2>2 DEF MinOf
    <3>2. PICK e \in Int : e = n - k + 1
      BY <3>1
    <3>3. e \in (n - Capacity + 1)..n /\ e >= 1
      BY <1>0, <3>1, <3>2
    <3>4. ring[(e - 1) % Capacity] = e
      BY <2>1, <3>3 DEF Consistent, Records
    <3>5. -k \in Int /\ n \in Int
      BY <3>1
    <3>6. ((n % Capacity) + (-k)) % Capacity = (n + (-k)) % Capacity
      BY <3>5, ModAdd
    <3>7. (n % Capacity) + (-k) = blk.ring_head - k /\ n + (-k) = e - 1
      <4>1. n % Capacity \in Int
        BY BlockFacts DEF Slots
      <4> QED BY <2>2, <3>1, <3>2, <4>1
    <3>8. (blk.ring_head - k) % Capacity = (e - 1) % Capacity
      BY <3>6, <3>7
    <3>9. blk.event_seq - k + 1 = e
      BY <2>2, <3>2
    <3> QED BY <3>4, <3>8, <3>9
  <2> QED BY <2>2, <2>3 DEF BlockConsistent
<1>3. BlockConsistent
  BY <1>2 DEF BlockConsistent
<1> QED BY <1>1, <1>3 DEF BlockSound

(* Between two updates of the firmware every word of the block accounts for   *)
(* the same events and the ring holds the newest of them in order, for every  *)
(* capacity and through every start, stop and clear.                          *)
THEOREM SnapshotBlockSound == SnapshotSpec => []BlockSound
BY InitialBlock, BlockInvStep, InvariantIsSound, PTL DEF SnapshotSpec

(* The same under the history variables of the model-checked instance.        *)
LEMMA InstanceStep == [MCNext]_mcvars => [SnapshotNext]_snapvars
<1>1. MCNext => SnapshotNext
  BY DEF MCNext, SnapshotNext, Reader
<1>2. UNCHANGED mcvars => UNCHANGED snapvars
  BY DEF mcvars
<1> QED BY <1>1, <1>2

THEOREM InstanceBlockSound == MCSpec => []BlockSound
<1>1. MCInit => SnapshotInit
  BY DEF MCInit
<1> QED BY <1>1, InitialBlock, InstanceStep, BlockInvStep, InvariantIsSound, PTL DEF MCSpec
------------------------------------------------------------------------------
(* The block the reader is after: whole, in one piece, at an instant between   *)
(* two updates.                                                               *)
FrozenSound ==
    /\ frozen.magic = 1 /\ frozen.stat = frozen.event_seq
    /\ frozen.ring_head = frozen.event_seq % Capacity
    /\ frozen.ring_count = MinOf(frozen.event_seq, Capacity)

(* While the reader works seq_lock tells whether an update has begun since.    *)
Watching ==
    rpc \in {"copy", "ring"} /\ ~cleared =>
       /\ wstate # "clearing"
       /\ seq0 = frozen.seq_lock /\ seq0 <= blk.seq_lock
       /\ blk.seq_lock = seq0 => blk = frozen /\ wstate = "idle"
       /\ FrozenSound /\ frozen.event_seq <= StoredIn(blk, todo)

(* The words copied so far are the frozen ones as long as it has not.          *)
Copying ==
    rpc = "copy" /\ ~cleared /\ blk.seq_lock = seq0 =>
       \A i \in 1..(next - 1) : snap[Layout[i]] = frozen[Layout[i]]

Taken == rpc \in {"ring", "done"} /\ ~cleared => snap = frozen /\ FrozenSound

(* A record of the window is the event it should be, or event_seq has by now   *)
(* moved so far that the last check will see it.                              *)
Event(j) == snap.event_seq - emit_count + j
Reading ==
    rpc = "ring" =>
       /\ next \in 0..emit_count /\ win \in Seq(Nat) /\ Len(win) = next
       /\ ~cleared => \A j \in 1..next :
             win[j] = Event(j) \/ blk.event_seq >= Event(j) + Capacity

ReaderInv == /\ frozen \in [Words -> Nat] /\ cleared \in BOOLEAN
             /\ Watching /\ Copying /\ Taken /\ Reading /\ WindowFaithful

(* The seven words of the prefix are all there is of it.                      *)
LEMMA LayoutCovers ==
    ASSUME NEW f \in [Words -> Nat], NEW g \in [Words -> Nat],
           \A i \in 1..7 : f[Layout[i]] = g[Layout[i]]
    PROVE  f = g
<1>1. \A w \in Words : \E i \in 1..7 : w = Layout[i]
  <2> SUFFICES ASSUME NEW w \in Words PROVE \E i \in 1..7 : w = Layout[i]
    OBVIOUS
  <2>1. /\ Layout[1] = "magic" /\ Layout[2] = "seq_lock" /\ Layout[3] = "running"
        /\ Layout[4] = "event_seq" /\ Layout[5] = "ring_head"
        /\ Layout[6] = "ring_count" /\ Layout[7] = "stat"
    BY DEF Layout
  <2> QED BY <2>1 DEF Words
<1>2. \A w \in Words : f[w] = g[w]
  BY <1>1
<1> QED BY <1>2

(* The ring always holds the records up to the newest stored one.              *)
LEMMA NewestRecords ==
    ASSUME WriterInv, wstate # "clearing"
    PROVE  /\ Records(blk.event_seq - Capacity + 1, StoredIn(blk, todo))
           /\ StoredIn(blk, todo) \in Int
           /\ blk.event_seq \in Nat
<1>0. Capacity \in Nat /\ blk.event_seq \in Nat /\ BlockType
  BY BlockFacts DEF WriterInv, BlockType, Words
<1>1. ASSUME Whole, StoredIn(blk, todo) = blk.event_seq
      PROVE  Records(blk.event_seq - Capacity + 1, StoredIn(blk, todo))
  <2>1. PICK n \in Nat : Consistent(n)
    BY <1>1 DEF Whole
  <2>2. Records(n - Capacity + 1, n) /\ blk.event_seq = n
    BY <2>1 DEF Consistent
  <2> QED BY <1>1, <2>2
<1>2. CASE wstate = "idle" \/ (wstate = "open" /\ Ending)
  <2>1. todo = <<>> /\ Whole
    BY <1>2 DEF WriterInv, Ending
  <2> QED BY <1>0, <1>1, <2>1, StoredRest
<1>3. ASSUME NEW v \in Nat, Restarting(v)
      PROVE  Whole /\ StoredIn(blk, todo) = blk.event_seq
  <2>1. Len(todo) = 1 /\ todo \in Seq(Stores) /\ todo[1] = Put("running", v) /\ Whole
    BY <1>3 DEF Restarting, Left
  <2>2. Head(todo).word = "running"
    BY <2>1 DEF Put
  <2> QED BY <2>1, <2>2, StoredRest
<1>4. ASSUME NEW n \in Nat, NEW s \in 0..5, EdgeAt(n, s)
      PROVE  /\ Records(blk.event_seq - Capacity + 1, StoredIn(blk, todo))
             /\ StoredIn(blk, todo) \in Int
  <2>1. EdgeRest(todo, n, s)
    BY <1>4, EdgeBodyFacts DEF EdgeAt, Left, EdgeRest
  <2>2. (s >= 1 => blk.event_seq = n + 1) /\ (s = 0 => blk.event_seq = n)
    BY <1>4 DEF EdgeAt
  <2>3. (s >= 3 => StoredIn(blk, todo) = n + 1) /\ (s < 3 => StoredIn(blk, todo) = n)
    BY <2>1, <2>2, StoredEdge
  <2>4. /\ s = 0 => Records(n - Capacity + 1, n)
        /\ s \in {1, 2} => Records(n + 1 - Capacity + 1, n)
        /\ s >= 3 => Records(n + 1 - Capacity + 1, n + 1)
    BY <1>4 DEF EdgeAt
  <2>5. n + 1 - Capacity + 1 = (n + 1) - Capacity + 1
    BY <1>0
  <2>6. CASE s = 0
    BY <2>2, <2>3, <2>4, <2>6
  <2>7. CASE s \in {1, 2}
    <3>1. Records(n + 1 - Capacity + 1, n) /\ blk.event_seq = n + 1 /\ StoredIn(blk, todo) = n
      BY <2>2, <2>3, <2>4, <2>7
    <3>2. n + 1 - Capacity + 1 = blk.event_seq - Capacity + 1
      BY <1>0, <3>1
    <3> QED BY <3>1, <3>2
  <2>8. CASE s >= 3
    <3>1. /\ Records(n + 1 - Capacity + 1, n + 1) /\ blk.event_seq = n + 1
          /\ StoredIn(blk, todo) = n + 1
      BY <2>2, <2>3, <2>4, <2>8
    <3>2. n + 1 - Capacity + 1 = blk.event_seq - Capacity + 1
      BY <1>0, <3>1
    <3> QED BY <3>1, <3>2
  <2> QED BY <2>6, <2>7, <2>8
<1> QED BY <1>0, <1>1, <1>2, <1>3, <1>4 DEF WriterInv

LEMMA EmitFacts ==
    ASSUME ReaderType
    PROVE  emit_count \in Nat /\ emit_count <= Capacity /\ emit_count <= snap.ring_count
           /\ snap.event_seq \in Nat /\ snap.ring_count \in Nat
<1>1. Capacity \in Nat /\ limit \in Nat
  BY SnapshotAssumption DEF ReaderType
<1>2. snap.ring_count \in Nat /\ snap.event_seq \in Nat
  BY DEF ReaderType, Words
<1> QED BY <1>1, <1>2 DEF emit_count, MinOf

(* The slot the reader takes next holds the event it is meant to be, or the    *)
(* firmware has overwritten it and event_seq tells.                           *)
LEMMA SlotHolds ==
    ASSUME BlockInv, wstate # "clearing", snap = frozen, FrozenSound,
           frozen.event_seq <= StoredIn(blk, todo), rpc = "ring", next < emit_count
    PROVE  \/ ring[(start_slot + next) % Capacity] = Event(next + 1)
           \/ blk.event_seq >= Event(next + 1) + Capacity
<1>0. /\ Capacity \in Nat /\ Capacity >= 1 /\ next \in Nat
      /\ emit_count \in Nat /\ emit_count <= Capacity /\ emit_count <= snap.ring_count
      /\ snap.event_seq \in Nat
  BY BlockFacts, EmitFacts DEF BlockInv, ReaderType
<1>1. /\ Records(blk.event_seq - Capacity + 1, StoredIn(blk, todo))
      /\ StoredIn(blk, todo) \in Int /\ blk.event_seq \in Nat
  BY NewestRecords DEF BlockInv
<1>2. PICK E \in Nat, c \in Nat : E = snap.event_seq /\ c = emit_count
  BY <1>0
<1>3. snap.ring_head = E % Capacity /\ c <= E
  <2>1. snap.ring_count = MinOf(E, Capacity)
    BY <1>2 DEF FrozenSound
  <2> QED BY <1>0, <1>2, <2>1 DEF FrozenSound, MinOf
<1>4. PICK e \in Int, d \in Int : e = E - c + (next + 1) /\ d = E - c
  BY <1>0, <1>2
<1>5. e >= 1 /\ e <= E /\ e - 1 = d + next /\ Event(next + 1) = e
  <2>1. Event(next + 1) = snap.event_seq - emit_count + (next + 1)
    BY DEF Event
  <2>2. next + 1 <= c /\ next + 1 >= 1
    BY <1>0, <1>2
  <2>3. Event(next + 1) = e
    BY <1>2, <1>4, <2>1
  <2>4. e - 1 = d + next
    BY <1>0, <1>4
  <2>5. c <= E
    BY <1>3
  <2>6. e >= 1 /\ e <= E
    BY <1>0, <1>4, <2>2, <2>5
  <2> QED BY <2>3, <2>4, <2>6
<1>6. start_slot = d % Capacity
  <2>1. -c \in Int /\ E \in Int
    BY <1>2
  <2>2. ((E % Capacity) + (-c)) % Capacity = (E + (-c)) % Capacity
    BY <2>1, ModAdd
  <2>3. (E % Capacity) + (-c) = snap.ring_head - emit_count /\ E + (-c) = d
    <3>1. E % Capacity \in Int
      BY BlockFacts DEF Slots
    <3> QED BY <1>2, <1>3, <1>4, <3>1
  <2> QED BY <2>2, <2>3 DEF start_slot
<1>7. (start_slot + next) % Capacity = (e - 1) % Capacity
  <2>0. d \in Int /\ next \in Int
    BY <1>0
  <2>1. ((d % Capacity) + next) % Capacity = (d + next) % Capacity
    BY <2>0, ModAdd, Zenon
  <2> QED BY <1>5, <1>6, <2>1
<1>8. e <= StoredIn(blk, todo)
  <2>1. E = frozen.event_seq
    BY <1>2
  <2> QED BY <1>1, <1>2, <1>5, <2>1
<1>9. CASE e >= blk.event_seq - Capacity + 1
  <2>1. e \in (blk.event_seq - Capacity + 1)..StoredIn(blk, todo)
    BY <1>0, <1>1, <1>4, <1>8, <1>9
  <2>2. ring[(e - 1) % Capacity] = e
    BY <1>1, <1>5, <2>1 DEF Records
  <2> QED BY <1>5, <1>7, <2>2
<1>10. CASE ~(e >= blk.event_seq - Capacity + 1)
  <2>1. blk.event_seq >= e + Capacity
    BY <1>0, <1>1, <1>4, <1>10
  <2> QED BY <1>5, <2>1
<1> QED BY <1>9, <1>10

(* A step of the firmware under the reader.                                   *)
LEMMA WatchWriter ==
    ASSUME BlockInv, ReaderInv, Writer, frozen' = frozen,
           cleared' = (cleared \/ (rpc \in {"copy", "ring"} /\ wstate' = "clearing"))
    PROVE  ReaderInv'
<1>0. /\ rpc' = rpc /\ limit' = limit /\ seq0' = seq0 /\ snap' = snap /\ next' = next
      /\ win' = win
  BY WriterFrame DEF rvars
<1>1. /\ blk.seq_lock \in Nat /\ blk'.seq_lock \in Nat /\ seq0 \in Nat
      /\ blk.event_seq \in Nat /\ blk'.event_seq \in Nat
  <2>1. WriterInv /\ WriterInv' /\ ReaderType
    BY WriterStep DEF BlockInv
  <2> QED BY <2>1 DEF WriterInv, BlockType, Words, ReaderType
<1>2. cleared \in BOOLEAN /\ cleared' \in BOOLEAN /\ (~cleared' => ~cleared)
  BY DEF ReaderInv
<1>3. ASSUME rpc \in {"copy", "ring"}, ~cleared'
      PROVE  /\ wstate # "clearing" /\ wstate' # "clearing" /\ Onward
             /\ blk'.seq_lock # seq0
  <2>1. wstate # "clearing" /\ wstate' # "clearing"
    BY <1>2, <1>3 DEF ReaderInv, Watching
  <2>2. Onward
    BY <2>1, WriterStep DEF BlockInv
  <2>3. seq0 <= blk.seq_lock /\ (blk.seq_lock = seq0 => wstate = "idle")
    BY <1>2, <1>3 DEF ReaderInv, Watching
  <2>4. blk'.seq_lock # seq0
    BY <1>1, <2>2, <2>3 DEF Onward
  <2> QED BY <2>1, <2>2, <2>4
<1>4. Watching'
  <2> SUFFICES ASSUME rpc \in {"copy", "ring"}, ~cleared' PROVE Watching'
    BY <1>0 DEF Watching
  <2>1. /\ seq0 = frozen.seq_lock /\ seq0 <= blk.seq_lock /\ FrozenSound
        /\ frozen.event_seq <= StoredIn(blk, todo)
    BY <1>2 DEF ReaderInv, Watching
  <2>2. StoredIn(blk, todo) \in Int /\ StoredIn(blk', todo') \in Int /\ frozen.event_seq \in Nat
    <3>1. StoredIn(blk, todo) \in Int /\ StoredIn(blk', todo') \in Int
      BY <1>1 DEF StoredIn
    <3> QED BY <3>1 DEF ReaderInv, Words
  <2>3. frozen.event_seq <= StoredIn(blk', todo')
    BY <1>3, <2>1, <2>2 DEF Onward
  <2>4. seq0 <= blk'.seq_lock
    BY <1>1, <1>3, <2>1 DEF Onward
  <2>5. FrozenSound'
    BY <2>1 DEF FrozenSound
  <2> QED BY <1>0, <1>3, <2>1, <2>3, <2>4, <2>5 DEF Watching
<1>5. Copying'
  BY <1>0, <1>3 DEF Copying
<1>6. Taken'
  BY <1>0, <1>2 DEF ReaderInv, Taken, FrozenSound
<1>7. emit_count' = emit_count /\ \A j : Event(j)' = Event(j)
  BY <1>0 DEF emit_count, Event
<1>8. Reading'
  <2> SUFFICES ASSUME rpc = "ring" PROVE Reading'
    BY <1>0 DEF Reading
  <2>1. next \in 0..emit_count /\ win \in Seq(Nat) /\ Len(win) = next
    BY DEF ReaderInv, Reading
  <2>2. ASSUME ~cleared', NEW j \in 1..next
        PROVE  win[j] = Event(j) \/ blk'.event_seq >= Event(j) + Capacity
    <3>1. win[j] = Event(j) \/ blk.event_seq >= Event(j) + Capacity
      BY <1>2, <2>2 DEF ReaderInv, Reading
    <3>2. blk'.event_seq >= blk.event_seq
      BY <1>3, <2>2 DEF Onward
    <3>3. Event(j) + Capacity \in Int
      <4>1. emit_count \in Nat /\ snap.event_seq \in Nat /\ Capacity \in Nat
        BY BlockFacts, EmitFacts DEF BlockInv
      <4>2. Event(j) = snap.event_seq - emit_count + j
        BY DEF Event
      <4> QED BY <2>1, <4>1, <4>2
    <3> QED BY <1>1, <3>1, <3>2, <3>3
  <2> QED BY <1>0, <1>7, <2>1, <2>2 DEF Reading
<1>9. WindowFaithful'
  BY <1>0, <1>2, <1>7 DEF ReaderInv, WindowFaithful
<1> QED BY <1>2, <1>4, <1>5, <1>6, <1>8, <1>9 DEF ReaderInv

(* A new attempt forgets what the last one took.                             *)
LEMMA FreshAttempt ==
    ASSUME ReaderInv, rpc' \in {"seq0", "raised"},
           frozen' \in [Words -> Nat], cleared' \in BOOLEAN
    PROVE  ReaderInv'
BY DEF ReaderInv, Watching, Copying, Taken, Reading, WindowFaithful

(* ReadSeq0 accepts an even seq_lock only, that of a whole block or of one a   *)
(* clear is working on.                                                      *)
LEMMA WatchSeq0 ==
    ASSUME BlockInv, ReaderInv, ReadSeq0,
           IF rpc' = "copy" THEN frozen' = blk /\ cleared' = (wstate = "clearing")
                            ELSE UNCHANGED <<frozen, cleared>>
    PROVE  ReaderInv'
<1>1. UNCHANGED wvars /\ rpc = "seq0"
  BY ReaderFrame DEF Reader, ReadSeq0
<1>2. blk' = blk /\ wstate' = wstate /\ todo' = todo
  BY <1>1 DEF wvars
<1>3. CASE even(blk.seq_lock)
  <2>1. rpc' = "copy" /\ next' = 1 /\ seq0' = blk.seq_lock
    BY <1>3 DEF ReadSeq0
  <2>2. frozen' = blk /\ cleared' = (wstate = "clearing") /\ blk \in [Words -> Nat]
    BY <2>1 DEF BlockInv, WriterInv, BlockType
  <2>3. ASSUME wstate # "clearing"
        PROVE  /\ wstate = "idle" /\ FrozenSound' /\ StoredIn(blk, todo) = blk.event_seq
    <3>1. wstate = "idle"
      BY <1>3, <2>3 DEF BlockInv, WriterInv
    <3>2. todo = <<>> /\ blk.magic = 1 /\ Whole
      BY <3>1 DEF BlockInv, WriterInv
    <3>3. PICK n \in Nat : Consistent(n)
      BY <3>2 DEF Whole
    <3>4. /\ blk.stat = blk.event_seq /\ blk.ring_head = blk.event_seq % Capacity
          /\ blk.ring_count = MinOf(blk.event_seq, Capacity)
      BY <3>3 DEF Consistent
    <3> QED BY <2>2, <3>1, <3>2, <3>4, StoredRest DEF FrozenSound
  <2>4. blk.seq_lock \in Nat /\ blk.event_seq \in Nat
    BY <2>2 DEF Words
  <2>5. Watching'
    <3>1. CASE wstate = "clearing"
      BY <2>2, <3>1 DEF Watching
    <3>2. CASE wstate # "clearing"
      <4>1. StoredIn(blk', todo') = blk.event_seq
        BY <1>2, <2>3, <3>2
      <4>2. frozen'.event_seq <= StoredIn(blk', todo')
        BY <2>2, <2>4, <4>1
      <4>3. seq0' = frozen'.seq_lock /\ seq0' <= blk'.seq_lock
        BY <1>2, <2>1, <2>2, <2>4
      <4>4. blk' = frozen' /\ wstate' = "idle" /\ wstate' # "clearing" /\ FrozenSound'
        BY <1>2, <2>2, <2>3, <3>2
      <4> QED BY <4>2, <4>3, <4>4 DEF Watching
    <3> QED BY <3>1, <3>2
  <2>6. Copying'
    BY <2>1 DEF Copying
  <2> QED BY <2>1, <2>2, <2>5, <2>6 DEF ReaderInv, Taken, Reading, WindowFaithful
<1>4. CASE ~even(blk.seq_lock)
  <2>1. rpc' \in {"seq0", "raised"}
    BY <1>4 DEF ReadSeq0, Retry
  <2>2. frozen' = frozen /\ cleared' = cleared
    BY <2>1
  <2> QED BY <2>1, <2>2, FreshAttempt DEF ReaderInv
<1> QED BY <1>3, <1>4

LEMMA WatchCopy ==
    ASSUME BlockInv, ReaderInv, CopyWord, frozen' = frozen, cleared' = cleared
    PROVE  ReaderInv'
<1>1. /\ rpc = "copy" /\ rpc' = "copy" /\ next \in 1..7 /\ next' = next + 1
      /\ snap' = [snap EXCEPT ![Layout[next]] = blk[Layout[next]]]
      /\ UNCHANGED wvars /\ seq0' = seq0
  BY DEF CopyWord, BlockInv, ReaderType
<1>2. blk' = blk /\ wstate' = wstate /\ todo' = todo
  BY <1>1 DEF wvars
<1>3. snap \in [Words -> Nat] /\ \A i \in 1..7 : Layout[i] \in Words
  BY DEF BlockInv, ReaderType, Layout, Words
<1>4. FrozenSound' <=> FrozenSound
  BY DEF FrozenSound
<1>5. Watching'
  BY <1>1, <1>2, <1>4 DEF ReaderInv, Watching
<1>6. Copying'
  <2> SUFFICES ASSUME ~cleared, blk.seq_lock = seq0, NEW i \in 1..next
               PROVE  snap'[Layout[i]] = frozen[Layout[i]]
    BY <1>1, <1>2 DEF Copying
  <2>1. blk = frozen
    BY <1>1 DEF ReaderInv, Watching
  <2>2. CASE Layout[i] = Layout[next]
    BY <1>1, <1>3, <2>1, <2>2
  <2>3. CASE Layout[i] # Layout[next]
    <3>1. i \in 1..(next - 1) /\ i \in 1..7
      BY <1>1, <2>3
    <3>2. snap[Layout[i]] = frozen[Layout[i]]
      BY <1>1, <3>1 DEF ReaderInv, Copying
    <3> QED BY <1>1, <1>3, <2>3, <3>1, <3>2
  <2> QED BY <2>2, <2>3
<1> QED BY <1>1, <1>5, <1>6 DEF ReaderInv, Taken, Reading, WindowFaithful

(* The closing comparison of seq_lock: the copy is the frozen block.           *)
LEMMA WatchSeq1 ==
    ASSUME BlockInv, ReaderInv, ReadSeq1, ~(rpc' \in {"seq0", "raised"}),
           frozen' = frozen, cleared' = cleared
    PROVE  ReaderInv'
<1>1. /\ rpc = "copy" /\ next = 8 /\ UNCHANGED wvars /\ limit' = limit
      /\ seq_stable /\ rpc' = (IF emit_count = 0 THEN "done" ELSE "ring")
      /\ next' = 0 /\ seq0' = seq0 /\ snap' = snap /\ win' = win
  BY DEF ReadSeq1, Retry, Raise
<1>2. blk' = blk /\ wstate' = wstate /\ todo' = todo
  BY <1>1 DEF wvars
<1>3. FrozenSound' <=> FrozenSound
  BY DEF FrozenSound
<1>4. ASSUME ~cleared PROVE snap = frozen /\ FrozenSound
  <2>1. blk.seq_lock = seq0
    BY <1>1 DEF seq_stable
  <2>2. \A i \in 1..7 : snap[Layout[i]] = frozen[Layout[i]]
    BY <1>1, <1>4, <2>1 DEF ReaderInv, Copying
  <2>3. snap \in [Words -> Nat] /\ frozen \in [Words -> Nat]
    BY DEF BlockInv, ReaderType, ReaderInv
  <2>4. snap = frozen
    BY <2>2, <2>3, LayoutCovers
  <2> QED BY <1>1, <1>4, <2>4 DEF ReaderInv, Watching
<1>5. Watching'
  BY <1>1, <1>2, <1>3 DEF ReaderInv, Watching
<1>6. Taken'
  BY <1>1, <1>3, <1>4 DEF Taken
<1>7. emit_count' = emit_count /\ emit_count \in Nat
  BY <1>1, EmitFacts DEF emit_count, BlockInv
<1>8. win = <<>>
  BY <1>1 DEF BlockInv, ReaderType
<1>9. Reading'
  BY <1>1, <1>7, <1>8 DEF Reading
<1>10. WindowFaithful'
  BY <1>1, <1>7 DEF WindowFaithful
<1>11. Copying'
  BY <1>1 DEF Copying
<1> QED BY <1>5, <1>6, <1>9, <1>10, <1>11 DEF ReaderInv

LEMMA WatchRecord ==
    ASSUME BlockInv, ReaderInv, CopyRecord, frozen' = frozen, cleared' = cleared
    PROVE  ReaderInv'
<1>0. next \in Nat /\ emit_count \in Nat
  BY EmitFacts DEF BlockInv, ReaderType
<1>1. /\ rpc = "ring" /\ rpc' = "ring" /\ next < emit_count /\ next' = next + 1
      /\ win' = Append(win, ring[(start_slot + next) % Capacity])
      /\ UNCHANGED wvars /\ limit' = limit /\ seq0' = seq0 /\ snap' = snap
  BY DEF CopyRecord
<1>2. blk' = blk /\ wstate' = wstate /\ todo' = todo
  BY <1>1 DEF wvars
<1>3. FrozenSound' <=> FrozenSound
  BY DEF FrozenSound
<1>4. emit_count' = emit_count /\ \A j : Event(j)' = Event(j)
  BY <1>1 DEF emit_count, Event
<1>5. Watching' /\ Taken' /\ Copying'
  BY <1>1, <1>2, <1>3 DEF ReaderInv, Watching, Taken, Copying
<1>6. PICK v \in Nat : v = ring[(start_slot + next) % Capacity]
  <2>1. start_slot + next \in Int
    <3>1. start_slot \in Int
      <4>1. snap.ring_head - emit_count \in Int
        BY <1>0 DEF BlockInv, ReaderType, Words
      <4> QED BY <4>1, BlockFacts DEF start_slot, Slots
    <3> QED BY <1>0, <3>1
  <2>2. (start_slot + next) % Capacity \in Slots
    BY <2>1, SlotOf, Zenon
  <2> QED BY <2>2 DEF BlockInv, WriterInv, BlockType
<1>7. /\ win \in Seq(Nat) /\ Len(win) = next
      /\ ~cleared => \A j \in 1..next : win[j] = Event(j) \/ blk.event_seq >= Event(j) + Capacity
  BY <1>1 DEF ReaderInv, Reading
<1>8. /\ win' \in Seq(Nat) /\ Len(win') = next + 1 /\ win'[next + 1] = v
      /\ \A j \in 1..next : win'[j] = win[j]
  BY <1>0, <1>1, <1>6, <1>7
<1>9. ASSUME ~cleared PROVE v = Event(next + 1) \/ blk.event_seq >= Event(next + 1) + Capacity
  <2>1. /\ wstate # "clearing" /\ snap = frozen /\ FrozenSound
        /\ frozen.event_seq <= StoredIn(blk, todo)
    BY <1>1, <1>9 DEF ReaderInv, Watching, Taken
  <2> QED BY <1>1, <1>6, <2>1, SlotHolds
<1>10. ASSUME ~cleared, NEW j \in 1..(next + 1)
       PROVE  win'[j] = Event(j) \/ blk.event_seq >= Event(j) + Capacity
  <2>1. CASE j = next + 1
    BY <1>8, <1>9, <1>10, <2>1
  <2>2. CASE j # next + 1
    <3>1. j \in 1..next
      BY <1>0, <2>2
    <3> QED BY <1>7, <1>8, <1>10, <3>1
  <2> QED BY <2>1, <2>2
<1>11. Reading'
  BY <1>0, <1>1, <1>2, <1>4, <1>8, <1>10 DEF Reading
<1>12. WindowFaithful'
  BY <1>1 DEF WindowFaithful
<1> QED BY <1>5, <1>11, <1>12 DEF ReaderInv

(* The last check of event_seq: no slot of the window was overwritten.         *)
LEMMA WatchEventSeq ==
    ASSUME BlockInv, ReaderInv, ReadEventSeq, ~(rpc' \in {"seq0", "raised"}),
           frozen' = frozen, cleared' = cleared
    PROVE  ReaderInv'
<1>0. /\ next \in Nat /\ emit_count \in Nat /\ snap.event_seq \in Nat
      /\ Capacity \in Nat /\ blk.event_seq \in Nat
  BY BlockFacts, EmitFacts DEF BlockInv, ReaderType, WriterInv, BlockType, Words
<1>1. /\ rpc = "ring" /\ next = emit_count /\ ~window_lost /\ rpc' = "done"
      /\ UNCHANGED wvars /\ limit' = limit /\ snap' = snap /\ win' = win
  BY DEF ReadEventSeq, Retry
<1>2. blk.event_seq - snap.event_seq <= Capacity - emit_count
  BY <1>0, <1>1 DEF window_lost
<1>3. emit_count' = emit_count
  BY <1>1 DEF emit_count
<1>4. ASSUME ~cleared PROVE win = [k \in 1..emit_count |-> snap.event_seq - emit_count + k]
  <2>1. /\ win \in Seq(Nat) /\ Len(win) = emit_count
        /\ \A j \in 1..emit_count : win[j] = Event(j) \/ blk.event_seq >= Event(j) + Capacity
    BY <1>1, <1>4 DEF ReaderInv, Reading
  <2>2. ASSUME NEW j \in 1..emit_count PROVE win[j] = snap.event_seq - emit_count + j
    <3>1. Event(j) = snap.event_seq - emit_count + j
      BY DEF Event
    <3>2. ~(blk.event_seq >= Event(j) + Capacity)
      BY <1>0, <1>2, <3>1
    <3> QED BY <2>1, <3>1, <3>2
  <2>3. DOMAIN win = 1..emit_count /\ win = [k \in DOMAIN win |-> win[k]]
    BY <2>1
  <2> QED BY <2>2, <2>3
<1>5. WindowFaithful'
  <2> SUFFICES ASSUME ~cleared
               PROVE  win' = [k \in 1..emit_count' |-> snap'.event_seq - emit_count' + k]
    BY DEF WindowFaithful
  <2> QED BY <1>1, <1>3, <1>4
<1>6. Taken'
  BY <1>1 DEF ReaderInv, Taken, FrozenSound
<1> QED BY <1>1, <1>5, <1>6 DEF ReaderInv, Watching, Copying, Reading

LEMMA ReaderInvStep == BlockInv /\ ReaderInv /\ [MCNext]_mcvars => ReaderInv'
<1> SUFFICES ASSUME BlockInv, ReaderInv, [MCNext]_mcvars PROVE ReaderInv'
  OBVIOUS
<1>0. NoSnap \in [Words -> Nat] /\ frozen \in [Words -> Nat] /\ cleared \in BOOLEAN
  BY DEF NoSnap, ReaderInv
<1>1. CASE /\ rpc # "done" /\ Writer /\ UNCHANGED frozen
           /\ cleared' = (cleared \/ (rpc \in {"copy", "ring"} /\ wstate' = "clearing"))
  BY <1>1, WatchWriter
<1>2. CASE /\ ReadSeq0
           /\ IF rpc' = "copy" THEN frozen' = blk /\ cleared' = (wstate = "clearing")
                               ELSE UNCHANGED <<frozen, cleared>>
  BY <1>2, WatchSeq0
<1>3. CASE /\ Reader /\ rpc # "seq0"
           /\ IF rpc' \in {"seq0", "raised"}
              THEN frozen' = NoSnap /\ cleared' = FALSE
              ELSE UNCHANGED <<frozen, cleared>>
  <2>1. CASE rpc' \in {"seq0", "raised"}
    BY <1>0, <1>3, <2>1, FreshAttempt
  <2>2. CASE ~(rpc' \in {"seq0", "raised"})
    <3>1. frozen' = frozen /\ cleared' = cleared
      BY <1>3, <2>2
    <3>2. CopyWord \/ ReadSeq1 \/ CopyRecord \/ ReadEventSeq
      BY <1>3, <2>2 DEF Reader, Call, ReadSeq0
    <3> QED BY <2>2, <3>1, <3>2, WatchCopy, WatchSeq1, WatchRecord, WatchEventSeq
  <2> QED BY <2>1, <2>2
<1>4. CASE UNCHANGED mcvars
  <2>1. /\ frozen' = frozen /\ cleared' = cleared /\ rpc' = rpc /\ limit' = limit
        /\ seq0' = seq0 /\ snap' = snap /\ next' = next /\ win' = win
        /\ blk' = blk /\ wstate' = wstate /\ todo' = todo
    BY <1>4 DEF mcvars, snapvars, wvars, rvars
  <2>2. emit_count' = emit_count /\ \A j : Event(j)' = Event(j)
    BY <2>1 DEF emit_count, Event
  <2>3. FrozenSound' <=> FrozenSound
    BY <2>1 DEF FrozenSound
  <2>4. Watching' /\ Copying' /\ Taken'
    BY <2>1, <2>3 DEF ReaderInv, Watching, Copying, Taken
  <2>5. Reading' /\ WindowFaithful'
    BY <2>1, <2>2 DEF ReaderInv, Reading, WindowFaithful
  <2> QED BY <1>0, <2>1, <2>4, <2>5 DEF ReaderInv
<1> QED BY <1>1, <1>2, <1>3, <1>4 DEF MCNext

LEMMA InitialReader == MCInit => BlockInv /\ ReaderInv
<1> SUFFICES ASSUME MCInit PROVE ReaderInv
  BY InitialBlock DEF MCInit
<1>1. rpc = "raised" /\ frozen = NoSnap /\ cleared = FALSE /\ NoSnap \in [Words -> Nat]
  BY DEF MCInit, SnapshotInit, NoSnap
<1> QED BY <1>1 DEF ReaderInv, Watching, Copying, Taken, Reading, WindowFaithful

LEMMA InstanceInvariant == MCSpec => [](BlockInv /\ ReaderInv)
BY InitialReader, InstanceStep, BlockInvStep, ReaderInvStep, PTL DEF MCSpec

(* read_consistent_snapshot_from_buffer returns the block of one instant       *)
(* between two updates, unless a CAPTURE_CLEAR came in between: seq_lock alone *)
(* suffices for the summary, whatever the firmware does meanwhile.            *)
THEOREM SnapshotSummaryAtomic == MCSpec => []SummaryAtomic
<1>1. ReaderInv => SummaryAtomic
  BY DEF ReaderInv, Taken, FrozenSound, SummaryAtomic, SummaryConsistent
<1> QED BY <1>1, InstanceInvariant, PTL

(* The ring window it returns holds the last emit_count events of the summary, *)
(* oldest first: the event_seq check is strict enough.                      *)
THEOREM SnapshotWindowFaithful == MCSpec => []WindowFaithful
<1>1. ReaderInv => WindowFaithful
  BY DEF ReaderInv
<1> QED BY <1>1, InstanceInvariant, PTL
==============================================================================
