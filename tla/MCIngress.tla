----------------------------- MODULE MCIngress -----------------------------
(* Instances of Ingress for TLC. *)
EXTENDS Ingress

CONSTANTS e1, e2

\* e1 expires while the run lasts; e2 never does.
MCExpiry == [e \in {e1, e2} |-> IF e = e1 THEN 1 ELSE Never]

\* Either the queue is disturbed, or the reachability record is.
MCBounds == {[time |-> 1, retries |-> 2, local |-> 1, saves |-> 1, faults |-> 0],
             [time |-> 5, retries |-> 0, local |-> 0, saves |-> 0, faults |-> 2]}
============================================================================
