-------------------------- MODULE MCHilAxiEventPath --------------------------
(* TLC instance of the Zynq event path. Slots are never read before they are *)
(* written (HilEventQueueProofs), so one initial memory content suffices.    *)
EXTENDS HilAxiEventPath

MCEvent == {[ts |-> 8, mask |-> {"a", "b"}, value |-> {"a"}, id |-> 1],
            [ts |-> 12, mask |-> {"b"}, value |-> {"b"}, id |-> 2]}

(* A host that enables the HIL before anything else releases FORCE_SAFE. *)
EnableFirst == AllHostOps \ {"force_safe_off"}

MCInit == PathInit /\ mem = [s \in Slots |-> [ts |-> 8, mask |-> {"a", "b"}, value |-> {"a"}, id |-> 1]]
MCSpec == MCInit /\ [][PathNext]_pvars
MCFairSpec == MCSpec /\ WF_pvars(Clock(TRUE)) /\ WF_pvars(Clock(FALSE))
===============================================================================
