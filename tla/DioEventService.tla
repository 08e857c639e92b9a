--------------------------- MODULE DioEventService ---------------------------
(***************************************************************************)
(* What a timestamped DIO engine promises, whichever pipeline is behind it: *)
(* accepted events wait in one queue and are applied to the output lines    *)
(* one by one, in the order of acceptance, never before their timestamp,    *)
(* each exactly once; only the safe state (and, where the engine has such   *)
(* an input, an explicit discard) drops them.                               *)
(***************************************************************************)
EXTENDS Integers, Sequences

CONSTANTS Event, SafeValue, CanDiscard

VARIABLES q,      \* accepted and not yet applied, oldest first
          dio,    \* the set of lines driven high
          now     \* the hardware timestamp

svars == <<q, dio, now>>

Arrivals == {<<>>} \cup {<<e>> : e \in Event}

(* The safe state drops everything and drives the safe value. *)
GoSafe == q' = <<>> /\ dio' = SafeValue /\ now' >= now

(* An explicit discard empties the queue and leaves the outputs alone. *)
Discard == CanDiscard /\ q' = <<>> /\ dio' = dio /\ now' >= now

(* Events may arrive; the outputs do not move. *)
Accept == (\E a \in Arrivals : q' = q \o a) /\ dio' = dio /\ now' >= now

(* The oldest event is due and is applied; another one may arrive. *)
Apply ==
    /\ q # <<>> /\ Head(q).ts <= now
    /\ dio' = (dio \ Head(q).mask) \cup (Head(q).value \cap Head(q).mask)
    /\ \E a \in Arrivals : q' = Tail(q) \o a
    /\ now' >= now

Reset == q' = <<>> /\ dio' = {} /\ now' = 0

ServiceInit == q = <<>> /\ dio = {} /\ now = 0
ServiceNext == GoSafe \/ Discard \/ Accept \/ Apply \/ Reset
ServiceSpec == ServiceInit /\ [][ServiceNext]_svars
===============================================================================
