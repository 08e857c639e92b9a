---------------------------- MODULE TimedEventFifo ----------------------------
(***************************************************************************)
(* What an event queue of rtl/scenario and rtl/control promises, with no   *)
(* pointers and no memory: a bounded sequence of events whose timestamps   *)
(* never decrease.  An event that does not fit, or that is older than the  *)
(* youngest queued one, is refused and the refusal stays visible in a      *)
(* latch until somebody clears it.                                         *)
(***************************************************************************)
EXTENDS Integers, Sequences

CONSTANTS DEPTH,   \* capacity
          Event    \* records with a field ts, the hardware timestamp

VARIABLES q,             \* the queued events, oldest first
          overflow,      \* an event was refused because the queue was full
          order_error    \* an event was refused because it was too old

fvars == <<q, overflow, order_error>>

TooOld(e) == q # <<>> /\ e.ts < q[Len(q)].ts
Fits(e)   == Len(q) < DEPTH /\ ~TooOld(e)

(* Emptying the queue. Pushes and pops of the same clock are void.         *)
Flush(forget) ==
    /\ q' = <<>>
    /\ overflow' = (overflow /\ ~forget)
    /\ order_error' = (order_error /\ ~forget)

(* One clock without a flush: put is the set of at most one offered event, *)
(* get asks for the oldest one.                                            *)
Serve(forget, put, get) ==
    /\ LET rest == IF get /\ q # <<>> THEN Tail(q) ELSE q
       IN  \/ \E e \in put : Fits(e) /\ q' = Append(rest, e)
           \/ (\A e \in put : ~Fits(e)) /\ q' = rest
    /\ overflow' = ((put # {} /\ Len(q) >= DEPTH) \/ (overflow /\ ~forget))
    /\ order_error' = ((\E e \in put : Len(q) < DEPTH /\ TooOld(e))
                         \/ (order_error /\ ~forget))

FifoInit == q = <<>> /\ overflow = FALSE /\ order_error = FALSE

FifoNext == \E forget \in BOOLEAN :
               \/ Flush(forget)
               \/ \E get \in BOOLEAN, put \in {{}} \cup {{e} : e \in Event} :
                     Serve(forget, put, get)

FifoSpec == FifoInit /\ [][FifoNext]_fvars
===============================================================================
