-------------------------- MODULE PwmSharedSnapshot --------------------------
(***************************************************************************)
(* The PWM statistics block in PRUSS shared RAM: PRU0 writes it word by     *)
(* word (firmware/common/pwm_capture_core.c, called from pru0_b1/main.c)    *)
(* while Linux reads it word by word through /dev/mem (host/                *)
(* hil_pwm_shared.py, read_consistent_snapshot_from_buffer).  Nothing but   *)
(* seq_lock and event_seq keeps the two apart.                              *)
(* The channel and pair statistics are one word, stat, that counts the      *)
(* events it accounts for; a ring record is the number of its event.        *)
(***************************************************************************)
EXTENDS Integers, Sequences

CONSTANTS Capacity,     \* HIL_PWM_RING_CAPACITY
          Retries,      \* attempts of one call of the reader
          MaxOps,       \* bound on the events and commands the PRU serves
          RingLimits    \* the ring_limit arguments of the callers

ASSUME SnapshotAssumption ==
    /\ Capacity \in Nat \ {0} /\ Retries \in Nat \ {0} /\ MaxOps \in Nat
    /\ RingLimits \subseteq Nat

(* The summary prefix, in address order.                                     *)
Layout == <<"magic", "seq_lock", "running", "event_seq", "ring_head", "ring_count", "stat">>
Words == {"magic", "seq_lock", "running", "event_seq", "ring_head", "ring_count", "stat"}
Slots == 0..(Capacity - 1)

VARIABLES
    blk, ring,           \* the shared block
    wstate, todo, ops,   \* writer: "idle", "open", "clearing"; stores and operations left
    rpc, tries,          \* reader: program counter, attempts left
    limit, seq0, snap, next, win

wvars == <<blk, ring, wstate, todo, ops>>
rvars == <<rpc, tries, limit, seq0, snap, next, win>>
snapvars == <<wvars, rvars>>

Put(w, v) == [word |-> w, slot |-> 0, value |-> v]
PutRing(i, v) == [word |-> "ring", slot |-> i, value |-> v]
-------------------------------------------------------------------------------
(* begin_update ... end_update around the stores of body.                     *)
Begin(body) ==
    /\ wstate' = "open" /\ todo' = body
    /\ blk' = [blk EXCEPT !.seq_lock = @ + 1]
    /\ UNCHANGED ring

Idle == wstate = "idle" /\ ops > 0 /\ ops' = ops - 1 /\ UNCHANGED rvars

(* hil_pwm_capture_process for changed inputs; push_edge_record comes last.   *)
EdgeStores_NoCap ==            \* Mutation: ring_count counts past the capacity
    <<Put("event_seq", blk.event_seq + 1),
      Put("stat", blk.event_seq + 1),
      PutRing(blk.ring_head, blk.event_seq + 1),
      Put("ring_head", (blk.ring_head + 1) % Capacity),
      Put("ring_count", blk.ring_count + 1)>>
EdgeStores ==
    <<Put("event_seq", blk.event_seq + 1),
      Put("stat", blk.event_seq + 1),
      PutRing(blk.ring_head, blk.event_seq + 1),
      Put("ring_head", (blk.ring_head + 1) % Capacity),
      Put("ring_count", IF blk.ring_count < Capacity THEN blk.ring_count + 1 ELSE blk.ring_count)>>

capture_process == Idle /\ blk.running = 1 /\ Begin(EdgeStores)
capture_start   == Idle /\ Begin(<<Put("running", 1)>>)
capture_stop    == Idle /\ Begin(<<Put("running", 0)>>)
set_min_deadtime == Idle /\ Begin(<<>>)

(* capture_clear zeroes every word in address order, seq_lock included, then  *)
(* writes the header and running back. It takes no lock.                     *)
ClearStores(running) ==
    [i \in 1..7 |-> Put(Layout[i], 0)]
       \o [i \in 1..Capacity |-> PutRing(i - 1, 0)]
       \o <<Put("magic", 1), Put("running", running)>>

capture_clear ==
    /\ Idle
    /\ wstate' = "clearing"
    /\ todo' = ClearStores(blk.running)
    /\ UNCHANGED <<blk, ring>>

Store ==
    /\ wstate # "idle" /\ todo # <<>>
    /\ LET p == Head(todo) IN
       IF p.word = "ring"
       THEN ring' = [ring EXCEPT ![p.slot] = p.value] /\ UNCHANGED blk
       ELSE blk' = [blk EXCEPT ![p.word] = p.value] /\ UNCHANGED ring
    /\ todo' = Tail(todo)
    /\ UNCHANGED <<wstate, ops, rvars>>

end_update ==
    /\ wstate # "idle" /\ todo = <<>>
    /\ blk' = IF wstate = "open" THEN [blk EXCEPT !.seq_lock = @ + 1] ELSE blk
    /\ wstate' = "idle"
    /\ UNCHANGED <<ring, todo, ops, rvars>>

Writer == \/ capture_process \/ capture_start \/ capture_stop \/ set_min_deadtime
          \/ capture_clear \/ Store \/ end_update
-------------------------------------------------------------------------------
even(n) == n % 2 = 0
MinOf(a, b) == IF a < b THEN a ELSE b

emit_count == MinOf(MinOf(snap.ring_count, Capacity), limit)
start_slot == (snap.ring_head - emit_count) % Capacity

NoSnap == [w \in Words |-> 0]       \* the locals of an attempt, before it reads
Fresh == seq0' = 0 /\ snap' = NoSnap /\ next' = 0 /\ win' = <<>>

(* continue, or fall out of the for loop into the final raise.                *)
Retry == /\ rpc' = IF tries > 1 THEN "seq0" ELSE "raised"
         /\ tries' = tries - 1
         /\ Fresh

Raise == rpc' = "raised" /\ tries' = 0 /\ Fresh

Call(n) ==
    /\ rpc \in {"done", "raised"}
    /\ rpc' = "seq0" /\ tries' = Retries /\ limit' = n
    /\ Fresh
    /\ UNCHANGED wvars

ReadSeq0 ==
    /\ rpc = "seq0"
    /\ IF even(blk.seq_lock)
       THEN rpc' = "copy" /\ next' = 1 /\ seq0' = blk.seq_lock /\ UNCHANGED <<tries, snap, win>>
       ELSE Retry
    /\ UNCHANGED <<wvars, limit>>

CopyWord ==
    /\ rpc = "copy" /\ next <= 7
    /\ snap' = [snap EXCEPT ![Layout[next]] = blk[Layout[next]]]
    /\ next' = next + 1
    /\ UNCHANGED <<wvars, rpc, tries, limit, seq0, win>>

seq_stable_Seq0Only == TRUE      \* Mutation: the closing comparison is dropped
seq_stable == seq0 = snap.seq_lock /\ seq0 = blk.seq_lock

(* seq1, _validate_snapshot and the decision about the ring.                  *)
ReadSeq1 ==
    /\ rpc = "copy" /\ next = 8
    /\ \/ ~seq_stable /\ Retry
       \/ seq_stable /\ snap.magic # 1 /\ Raise
       \/ /\ seq_stable /\ snap.magic = 1
          /\ snap.running = 1 /\ emit_count >= Capacity /\ Raise
       \/ /\ seq_stable /\ snap.magic = 1
          /\ ~(snap.running = 1 /\ emit_count >= Capacity)
          /\ rpc' = (IF emit_count = 0 THEN "done" ELSE "ring")
          /\ next' = 0
          /\ UNCHANGED <<tries, seq0, snap, win>>
    /\ UNCHANGED <<wvars, limit>>

(* _copy_ring_window: the requested slots, oldest first, with the wrap.       *)
CopyRecord ==
    /\ rpc = "ring" /\ next < emit_count
    /\ win' = Append(win, ring[(start_slot + next) % Capacity])
    /\ next' = next + 1
    /\ UNCHANGED <<wvars, rpc, tries, limit, seq0, snap>>

(* advanced is taken modulo 2^32: an event_seq that fell back reads as huge.  *)
window_lost_OffByOne ==
    \/ blk.event_seq < snap.event_seq
    \/ blk.event_seq - snap.event_seq > Capacity - emit_count + 1     \* Mutation
window_lost ==
    \/ blk.event_seq < snap.event_seq
    \/ blk.event_seq - snap.event_seq > Capacity - emit_count

ReadEventSeq ==
    /\ rpc = "ring" /\ next = emit_count
    /\ \/ window_lost /\ Retry
       \/ ~window_lost /\ rpc' = "done" /\ UNCHANGED <<tries, seq0, snap, next, win>>
    /\ UNCHANGED <<wvars, limit>>

Reader == (\E n \in RingLimits : Call(n)) \/ ReadSeq0 \/ CopyWord \/ ReadSeq1
            \/ CopyRecord \/ ReadEventSeq
-------------------------------------------------------------------------------
(* The firmware has initialised the block before Linux can open it.           *)
SnapshotInit ==
    /\ blk = [w \in Words |-> IF w = "magic" THEN 1 ELSE 0]
    /\ ring = [i \in Slots |-> 0]
    /\ wstate = "idle" /\ todo = <<>> /\ ops = MaxOps
    /\ rpc = "raised" /\ tries = 0 /\ limit = 0 /\ seq0 = 0 /\ next = 0 /\ win = <<>>
    /\ snap = NoSnap

SnapshotNext == Writer \/ Reader
SnapshotSpec == SnapshotInit /\ [][SnapshotNext]_snapvars
-------------------------------------------------------------------------------
SnapshotTypeOK ==
    /\ blk \in [Words -> Nat] /\ ring \in [Slots -> Nat]
    /\ wstate \in {"idle", "open", "clearing"} /\ ops \in 0..MaxOps
    /\ rpc \in {"seq0", "copy", "ring", "done", "raised"}
    /\ tries \in 0..Retries /\ limit \in RingLimits \cup {0}
    /\ seq0 \in Nat /\ snap \in [Words -> Nat] /\ next \in Nat

(* Between two updates the block is one history: every word accounts for the  *)
(* same events and the ring holds the newest of them in order. Restarts and   *)
(* clears do not break it.                                                   *)
BlockConsistent ==
    wstate = "idle" =>
       /\ blk.stat = blk.event_seq
       /\ blk.ring_head = blk.event_seq % Capacity
       /\ blk.ring_count = MinOf(blk.event_seq, Capacity)
       /\ \A k \in 1..blk.ring_count :
             ring[(blk.ring_head - k) % Capacity] = blk.event_seq - k + 1

(* What the firmware leaves in the shared block for any reader, in range.       *)
BlockSound == SnapshotTypeOK /\ BlockConsistent

(* B1_PWM_CAPTURE.md:92, the statistics are "strongly consistent during live  *)
(* capture": a returned summary describes one instant, all of its words       *)
(* accounting for the same events.                                           *)
SummaryConsistent ==
    rpc = "done" => /\ snap.stat = snap.event_seq
                    /\ snap.ring_head = snap.event_seq % Capacity
                    /\ snap.ring_count = MinOf(snap.event_seq, Capacity)
===============================================================================
