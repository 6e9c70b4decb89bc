------------------------------ MODULE NodeSync ------------------------------
(***************************************************************************)
(* The synchronisation work of one node: remote identities                 *)
(* (DeviceWriterSync) and its own identity on other devices                *)
(* (LocalDeviceSync).  The event loop runs both and they share no entry of *)
(* a map: every handler of a remote identity that settles a request ends   *)
(* with the retry of the local refresh, which finds a local request in     *)
(* flight or nothing due, because every local handler ends with it too     *)
(* (RetriesAreIdle).  So each behaviour is checked with one side busy.     *)
(***************************************************************************)
EXTENDS DeviceWriterSync, LocalDeviceSync

VARIABLE side   \* the side that is busy

nodeVars == <<side, vars, localVars>>

NodeInit ==
    /\ side \in {"remote", "own"}
    /\ Init
    /\ LocalInit

NodeNext ==
    /\ UNCHANGED side
    /\ \/ side = "remote" /\ Next /\ UNCHANGED localVars
       \/ side = "own" /\ LocalNext /\ UNCHANGED vars

NodeSpec == NodeInit /\ [][NodeNext]_nodeVars /\ SyncFairness
=============================================================================
