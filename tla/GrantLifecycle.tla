--------------------------- MODULE GrantLifecycle --------------------------
(***************************************************************************)
(* What app sessions are promised, whatever happens to the daemon: a grant *)
(* only moves forward.  A request is decided once, a refused request is    *)
(* never granted, and a session that expired or was revoked is over.  The  *)
(* grants can become unreadable, all of them at once.  A daemon that is    *)
(* serving may write them again, no earlier than they were; none begins to *)
(* serve without reading them.                                             *)
(***************************************************************************)
CONSTANT Requests

VARIABLES phase,      \* phase[r]: how far the request r is, as last written
          readable,   \* whether the grants can be read
          serving     \* whether a daemon serves them

lifecycle == <<phase, readable, serving>>

Phases == {"none", "pending", "active", "rejected", "expired", "revoked"}

Later == [none     |-> Phases \ {"none"},
          pending  |-> Phases \ {"none", "pending"},
          active   |-> {"expired", "revoked"},
          expired  |-> {"revoked"},
          rejected |-> {},
          revoked  |-> {}]

Init == /\ phase = [r \in Requests |-> "none"]
        /\ readable = TRUE
        /\ serving = TRUE

\* The grants are written; the daemon may end with it.
Advance == /\ serving
           /\ phase' \in [Requests -> Phases]
           /\ \A r \in Requests : phase'[r] \in {phase[r]} \union Later[phase[r]]
           /\ readable' = TRUE
           /\ serving' \in BOOLEAN

\* A write of the grants is cut short.
Lose == /\ serving
        /\ readable' = FALSE
        /\ serving' \in BOOLEAN
        /\ UNCHANGED phase

End == serving' = FALSE /\ UNCHANGED <<phase, readable>>

Begin == readable /\ serving' = TRUE /\ UNCHANGED <<phase, readable>>

Next == Advance \/ Lose \/ End \/ Begin

Spec == Init /\ [][Next]_lifecycle

=============================================================================
