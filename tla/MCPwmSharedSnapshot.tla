------------------------- MODULE MCPwmSharedSnapshot -------------------------
(* TLC instance of the shared PWM block, with two history variables:          *)
(*   frozen   the block as it stood when the reader fetched seq0             *)
(*   cleared  a CAPTURE_CLEAR was under way at some time since then          *)
EXTENDS PwmSharedSnapshot

VARIABLES frozen, cleared

mcvars == <<snapvars, frozen, cleared>>

MCInit == SnapshotInit /\ frozen = NoSnap /\ cleared = FALSE

(* A returned result changes only in the next call, and that call reads no    *)
(* shared word in its first step: the writer's steps in between commute with  *)
(* it and are explored after it.                                             *)
MCNext ==
    \/ /\ rpc # "done" /\ Writer /\ UNCHANGED frozen
       /\ cleared' = (cleared \/ (rpc \in {"copy", "ring"} /\ wstate' = "clearing"))
    \/ /\ ReadSeq0
       /\ IF rpc' = "copy" THEN frozen' = blk /\ cleared' = (wstate = "clearing")
                           ELSE UNCHANGED <<frozen, cleared>>
    \/ /\ Reader /\ rpc # "seq0"
       /\ IF rpc' \in {"seq0", "raised"}
          THEN frozen' = NoSnap /\ cleared' = FALSE
          ELSE UNCHANGED <<frozen, cleared>>
MCSpec == MCInit /\ [][MCNext]_mcvars

(* The summary a call returns is, word for word, the block at the instant     *)
(* seq0 was read, and that was an instant between two updates, unless a       *)
(* CAPTURE_CLEAR came in between: no store in the middle of the copy shows.   *)
SummaryAtomic ==
    rpc \in {"ring", "done"} /\ ~cleared =>
       snap = frozen /\ SummaryConsistent

(* The returned ring window holds exactly the last emit_count events of the   *)
(* summary, oldest first: no slot was overwritten under the reader and the    *)
(* modulo arithmetic of the wrapped window is right.                         *)
WindowFaithful ==
    rpc = "done" /\ emit_count > 0 /\ ~cleared =>
       win = [k \in 1..emit_count |-> snap.event_seq - emit_count + k]
===============================================================================
