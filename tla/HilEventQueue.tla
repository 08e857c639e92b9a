---------------------------- MODULE HilEventQueue ----------------------------
(***************************************************************************)
(* rtl/scenario/hil_event_queue.v: the timestamp-ordered ring buffer behind *)
(* the DIO scenario engine.  One QueueClock is one rising clock edge with   *)
(* the given values of the input wires; the registers keep their names.     *)
(* rtl/control/hil_axi_event_fifo.v is the same ring with one clear input   *)
(* for contents and latches (FifoClock).                                    *)
(***************************************************************************)
EXTENDS Integers, Sequences

CONSTANTS DEPTH,   \* parameter DEPTH of the module
          Line,    \* the DIO lines (the bits of mask and value)
          Event    \* the events the environment may push

ASSUME DepthAssumption == DEPTH \in Nat \ {0}
(* count is a 16-bit register: below this bound it never wraps. *)
ASSUME CountWidth == DEPTH < 2^16
ASSUME EventAssumption ==
    Event \subseteq [ts : Nat, mask : SUBSET Line, value : SUBSET Line, id : Nat]

VARIABLES mem,        \* timestamp_mem, mask_mem, value_mem, id_mem
          write_ptr, read_ptr, count,
          last_enqueued_timestamp,
          overflow_latched, order_error_latched

ringvars  == <<mem, write_ptr, read_ptr, count, last_enqueued_timestamp>>
latchvars == <<overflow_latched, order_error_latched>>
qvars     == <<ringvars, latchvars>>

Slots == 0..(DEPTH - 1)

empty == count = 0
(* Mutation: the capacity test is one too late. *)
full_OneLate == count > DEPTH
full  == count >= DEPTH
head  == mem[read_ptr]

push_order_ok(e)     == empty \/ e.ts >= last_enqueued_timestamp
accept_push(push, e) == push /\ ~full /\ push_order_ok(e)
accept_pop(pop)      == pop /\ ~empty

(* The pointers wrap at DEPTH - 1, which need not be a power of two. *)
Bump(ptr) == IF ptr = DEPTH - 1 THEN 0 ELSE ptr + 1

(* The memories have no reset and hold anything. *)
QueueInit ==
    /\ mem \in [Slots -> Event]
    /\ write_ptr = 0 /\ read_ptr = 0 /\ count = 0
    /\ last_enqueued_timestamp = 0
    /\ overflow_latched = FALSE /\ order_error_latched = FALSE

(* Mutation: clearing the errors beats an error of the same clock. *)
LatchClock_ClearWins(clear_errors, overflow, order_error) ==
    /\ overflow_latched' = ((overflow \/ overflow_latched) /\ ~clear_errors)
    /\ order_error_latched' = ((order_error \/ order_error_latched) /\ ~clear_errors)

LatchClock(clear_errors, overflow, order_error) ==
    /\ overflow_latched' = (overflow \/ (overflow_latched /\ ~clear_errors))
    /\ order_error_latched' = (order_error \/ (order_error_latched /\ ~clear_errors))

QueueClear(clear_errors) ==
    /\ write_ptr' = 0 /\ read_ptr' = 0 /\ count' = 0
    /\ last_enqueued_timestamp' = 0
    /\ mem' = mem
    /\ LatchClock(clear_errors, FALSE, FALSE)

(* The rst_n branch: as a clear, with both latches cleared. *)
QueueReset == QueueClear(TRUE)

WriteSide(take, e) ==
    /\ mem' = IF take THEN [mem EXCEPT ![write_ptr] = e] ELSE mem
    /\ write_ptr' = IF take THEN Bump(write_ptr) ELSE write_ptr

NextCount(take, drop) ==
    count + (IF take THEN 1 ELSE 0) - (IF drop THEN 1 ELSE 0)

(* Mutation: the reference is dropped whenever the last event leaves, even   *)
(* if another one arrives in the same clock.                                *)
NextLast_DropWins(take, drop, e) ==
    IF drop /\ count = 1 THEN 0
    ELSE IF take THEN e.ts ELSE last_enqueued_timestamp

(* When the queue drains, the order reference is forgotten with it. *)
NextLast(take, drop, e) ==
    IF take THEN e.ts
    ELSE IF drop /\ count = 1 THEN 0 ELSE last_enqueued_timestamp

QueueServe(clear_errors, push, e, pop) ==
    LET take == accept_push(push, e)
        drop == accept_pop(pop)
    IN  /\ WriteSide(take, e)
        /\ read_ptr' = IF drop THEN Bump(read_ptr) ELSE read_ptr
        /\ count' = NextCount(take, drop)
        /\ last_enqueued_timestamp' = NextLast(take, drop, e)
        /\ LatchClock(clear_errors, push /\ full,
                      push /\ ~full /\ ~push_order_ok(e))

QueueClock(clear_queue, clear_errors, push, e, pop) ==
    \/ clear_queue /\ QueueClear(clear_errors)
    \/ ~clear_queue /\ QueueServe(clear_errors, push, e, pop)

(* hil_axi_event_fifo.v: clear empties the ring and clears both latches. *)
FifoClock(clear, push, e, pop) == QueueClock(clear, clear, push, e, pop)

QueueNext ==
    \/ QueueReset
    \/ \E clear_queue, clear_errors, push, pop \in BOOLEAN, e \in Event :
          QueueClock(clear_queue, clear_errors, push, e, pop)

QueueSpec == QueueInit /\ [][QueueNext]_qvars
-------------------------------------------------------------------------------
(* The ring position k slots after position p. *)
After(p, k) == IF p + k < DEPTH THEN p + k ELSE p + k - DEPTH

(* The i-th oldest event, i in 1..count. *)
Nth(i) == mem[After(read_ptr, i - 1)]

(* The queued events, oldest first: the refinement mapping. *)
contents == [i \in 1..count |-> Nth(i)]

(* Types of the registers. The pointers stay inside the memories, also when *)
(* DEPTH is not a power of two, and count never passes DEPTH although full   *)
(* is a comparison and not a limit.                                          *)
QueueTypeOK ==
    /\ mem \in [Slots -> Event]
    /\ write_ptr \in Slots /\ read_ptr \in Slots
    /\ count \in 0..DEPTH
    /\ last_enqueued_timestamp \in Nat
    /\ overflow_latched \in BOOLEAN /\ order_error_latched \in BOOLEAN

(* The write pointer is count slots ahead of the read pointer, whatever mix *)
(* of pushes, pops, simultaneous pushes and pops, clears and resets ran:    *)
(* the two pointers and the separate counter never drift apart.             *)
PointersAgree == write_ptr = After(read_ptr, count)

(* The order reference is the timestamp of the youngest queued event, so    *)
(* comparing a push with it is comparing it with the whole queue.           *)
LastIsYoungest == count > 0 => last_enqueued_timestamp = Nth(count).ts

(* Queued events are ordered by timestamp: head_timestamp is the earliest    *)
(* deadline in the queue, so waiting for the head never delays another one.  *)
TimestampOrdered ==
    \A i, j \in 1..count : i <= j => Nth(i).ts <= Nth(j).ts

QueueInv == QueueTypeOK /\ PointersAgree /\ LastIsYoungest /\ TimestampOrdered

Fifo == INSTANCE TimedEventFifo WITH
            q <- contents, overflow <- overflow_latched,
            order_error <- order_error_latched

(* The ring implements the bounded ordered sequence: nothing is lost,        *)
(* duplicated or reordered at a wrap, on a simultaneous push and pop, at     *)
(* full or at empty.                                                         *)
ImplementsFifo == Fifo!FifoSpec

(* The refinement hides the input wires; seen with them, each clock does to    *)
(* the sequence exactly what its own inputs ask. A push is refused only for   *)
(* lack of room or for its timestamp, and its latch is set even if the errors *)
(* are cleared in the same clock.                                            *)
ServesItsInputs ==
    [][\A clear_queue, clear_errors, push, pop \in BOOLEAN, e \in Event :
         QueueClock(clear_queue, clear_errors, push, e, pop) =>
            \/ clear_queue /\ Fifo!Flush(clear_errors)
            \/ ~clear_queue /\ Fifo!Serve(clear_errors, IF push THEN {e} ELSE {}, pop)]_qvars
===============================================================================
