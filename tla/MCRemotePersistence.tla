------------------------ MODULE MCRemotePersistence ------------------------
(* The instance of RemotePersistence for TLC: one identity more than the   *)
(* directory holds, so that saves evict and leftovers go unread.           *)
EXTENDS RemotePersistence

CONSTANTS alice, bob, carol

MCIdentities == {alice, bob, carol}
MCDirectStores == {alice}
=============================================================================
