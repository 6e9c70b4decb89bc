--------------------------- MODULE LocalDeviceSync ---------------------------
(***************************************************************************)
(* The node's own identity on the devices of one person: a completed local *)
(* mutation is offered to every verified device that is connected, one     *)
(* request at a time (the local refreshes of                               *)
(* jolt-network/src/node/resolution.rs, the ConnectionEstablished, mDNS    *)
(* and DeviceWriterSync arms of node/events.rs, node/connectivity.rs).     *)
(*                                                                         *)
(* A request offers everything the node has when it is sent, so what it    *)
(* carries is not kept.  A LocalRefresh waiter is parked when a request is *)
(* sent and dropped when it settles, in the same handlers, so waiters are  *)
(* the requests, and neither discovery nor another provider ever takes     *)
(* over (request_pending_device_writer_syncs_from_provider and             *)
(* on_device_writer_sync_settled find nobody else waiting).                *)
(***************************************************************************)
EXTENDS Integers, Sequences, FiniteSets, Functions

CONSTANTS
    Devices,        \* peers that may be devices of the same identity
    MaxMutations,   \* bound: local mutations
    MaxDrops        \* bound: connections that close, devices revoked

ASSUME LocalSyncAssumption ==
    /\ IsFiniteSet(Devices)
    /\ MaxMutations \in Nat
    /\ MaxDrops \in Nat

VARIABLES
    peer,        \* of a device: connected, candidate, verified, authorized
    due,         \* pending_local_device_writer_refresh
    line,        \* pending_local_device_writer_refresh_peers
    asked,       \* the devices of pending_device_writer_syncs of the own identity
    cooling,     \* device_writer_refreshes has the own identity
    owed,        \* history: ready since the last mutation, not offered it yet
    mutations, drops

localVars == <<peer, due, line, asked, cooling, owed, mutations, drops>>

Is(f) == {d \in Devices : peer[d][f]}

\* The shape of the state; one request at a time.
LocalTypeOK ==
    /\ peer \in [Devices -> [connected : BOOLEAN, candidate : BOOLEAN,
                             verified : BOOLEAN, authorized : BOOLEAN]]
    /\ due \in BOOLEAN
    /\ \A n \in DOMAIN line : line[n] \in Devices
    /\ asked \subseteq Devices /\ Cardinality(asked) <= 1
    /\ cooling \in BOOLEAN
    /\ owed \subseteq Devices
    /\ mutations \in 0..MaxMutations /\ drops \in 0..MaxDrops

LocalInit ==
    /\ peer = [d \in Devices |-> [connected |-> FALSE, candidate |-> FALSE,
                                  verified |-> FALSE, authorized |-> TRUE]]
    /\ due = FALSE /\ line = <<>> /\ asked = {} /\ cooling = FALSE /\ owed = {}
    /\ mutations = 0 /\ drops = 0

\* has_device_writer_state of the own identity: it wrote, or stored what
\* another device wrote.
HasState == mutations > 0 \/ Is("verified") # {}

----------------------------------------------------------------------------
(* Pieces of the handlers *)

\* The offer goes out.
Ask(d, others) ==
    /\ asked' = others \cup {d}
    /\ cooling' = TRUE
    /\ owed' = owed \ {d}

\* refresh_local_device_writer_state_from_candidate, with the own identity's
\* state there.
refresh_from_candidate(d, explicit) ==
    IF HasState /\ asked = {} /\ (explicit \/ ~cooling)
    THEN Ask(d, {})
    ELSE UNCHANGED <<asked, cooling, owed>>

\* The connected, verified devices that the authority chain has as active; p is
\* the peers' state.
Ready(p) == {d \in Devices : p[d].connected /\ p[d].verified /\ p[d].authorized}

\* A round's devices, one after the other.
Lined(devices) == CHOOSE l \in [1..Cardinality(devices) -> devices] : IsInjective(l)

\* Faulty: a mutation that arrives while a round is under way is not followed
\* by a round of its own.
retry_pending_refresh_OneRound(wanted, p, others, waiting) ==
    LET round == IF line = <<>> /\ wanted THEN Lined(Ready(p)) ELSE line
    IN  IF others # {}
        THEN due' = wanted /\ asked' = others /\ owed' = waiting /\ UNCHANGED <<line, cooling>>
        ELSE /\ due' = FALSE
             /\ line' = IF round = <<>> THEN <<>> ELSE Tail(round)
             /\ IF round = <<>>
                THEN asked' = {} /\ owed' = waiting /\ UNCHANGED cooling
                ELSE asked' = {Head(round)} /\ owed' = waiting \ {Head(round)} /\ cooling' = TRUE
\* retry_pending_local_device_writer_refresh, at the end of a handler that left
\* the flag wanted, the peers p, the requests others and the debts waiting: the
\* next device of the line, which a wanted round fills when it is empty.
retry_pending_refresh(wanted, p, others, waiting) ==
    LET round == IF line = <<>> /\ wanted THEN Lined(Ready(p)) ELSE line
    IN  IF others # {}
        THEN due' = wanted /\ asked' = others /\ owed' = waiting /\ UNCHANGED <<line, cooling>>
        ELSE /\ due' = (wanted /\ line # <<>>)
             /\ line' = IF round = <<>> THEN <<>> ELSE Tail(round)
             /\ IF round = <<>>
                THEN asked' = {} /\ owed' = waiting /\ UNCHANGED cooling
                ELSE asked' = {Head(round)} /\ owed' = waiting \ {Head(round)} /\ cooling' = TRUE

----------------------------------------------------------------------------
(* Steps *)

\* refresh_local_device_writer_state_from_connected_peer at the end of a
\* publication that was stored.
CompleteMutation ==
    /\ mutations < MaxMutations
    /\ mutations' = mutations + 1
    /\ retry_pending_refresh(TRUE, peer, asked, Ready(peer))
    /\ UNCHANGED <<peer, drops>>

\* mDNS finds the device, or it is dialed; dialing one that is connected
\* refreshes at once.
Discovered(d) ==
    /\ ~peer[d].candidate
    /\ peer' = [peer EXCEPT ![d].candidate = TRUE]
    /\ UNCHANGED <<due, line, asked, cooling, owed, mutations, drops>>

connect_peer_multiaddr(d) ==
    /\ peer[d].connected
    /\ peer' = [peer EXCEPT ![d].candidate = TRUE]
    /\ refresh_from_candidate(d, TRUE)
    /\ UNCHANGED <<due, line, mutations, drops>>

ConnectionEstablished(d) ==
    /\ ~peer[d].connected
    /\ peer' = [peer EXCEPT ![d].connected = TRUE]
    /\ IF peer[d].candidate
       THEN refresh_from_candidate(d, FALSE)
       ELSE UNCHANGED <<asked, cooling, owed>>
    /\ UNCHANGED <<due, line, mutations, drops>>

\* A debt to a device ends when it is not ready any more.
Lose(d, f) ==
    /\ drops < MaxDrops
    /\ drops' = drops + 1
    /\ peer[d][f]
    /\ peer' = [peer EXCEPT ![d][f] = FALSE]
    /\ owed' = owed \ {d}
    /\ UNCHANGED <<due, line, asked, cooling, mutations>>

ConnectionClosed(d) == Lose(d, "connected")
RevokeDevice(d) == Lose(d, "authorized")

\* A request of the device with an offer: when its authority records authorize
\* it, it is stored and the device is verified (ok).  Either way the response
\* carries the node's own state, so nothing is owed.
InboundOffer(d, ok) ==
    /\ peer[d].connected
    /\ peer' = [peer EXCEPT ![d].verified = @ \/ ok]
    /\ owed' = owed \ {d}
    /\ UNCHANGED <<due, line, asked, cooling, mutations, drops>>

\* The local refresh waits for no other provider: its waiter is dropped and the
\* next device has its turn.
LocalSettled(d, p) == retry_pending_refresh(due, p, asked \ {d}, owed)

\* The response is stored and persisted; the device is verified when the
\* authority records of the response authorize it (ok).
LocalResponse(d, ok) ==
    /\ d \in asked
    /\ peer' = [peer EXCEPT ![d].verified = @ \/ ok]
    /\ LocalSettled(d, peer')
    /\ UNCHANGED <<mutations, drops>>

\* The request fails, is late, or its response is not supported, has no
\* authority records, does not verify or cannot be persisted.
LocalFailure(d) ==
    /\ d \in asked
    /\ LocalSettled(d, peer)
    /\ UNCHANGED <<peer, mutations, drops>>

\* The refreshes forget what is older than CACHED_IDENTITY_REFRESH_INTERVAL.
CooldownEnds ==
    /\ cooling
    /\ cooling' = FALSE
    /\ UNCHANGED <<peer, due, line, asked, owed, mutations, drops>>

LocalNext ==
    \/ CompleteMutation
    \/ CooldownEnds
    \/ \E d \in Devices :
        \/ Discovered(d) \/ connect_peer_multiaddr(d)
        \/ ConnectionEstablished(d) \/ ConnectionClosed(d) \/ RevokeDevice(d)
        \/ LocalFailure(d)
        \/ \E ok \in BOOLEAN : InboundOffer(d, ok) \/ LocalResponse(d, ok)

----------------------------------------------------------------------------
(* Properties *)

\* What is left to do has a request behind it whose end takes it up: the retry
\* that ends a handler of a remote identity finds nothing to do
\* (retry_pending_local_device_writer_refresh, resolution.rs:891).
RetriesAreIdle == asked # {} \/ (~due /\ line = <<>>)

\* A device that is connected, verified and authorized when a local mutation
\* completes, and stays so, will be offered it whatever was under way, a request
\* to another device, an earlier round, a failure, the cooldown: a request is in
\* flight at whose end the device is next in line or a new round is due
\* (pending_local_device_writer_refresh and the line of peers; the comment at
\* resolution.rs:920).
OwedAreInLine == RetriesAreIdle /\ \A d \in owed : due \/ d \in Range(line)
=============================================================================
