-------------------------- MODULE UpdateResolution --------------------------
(***************************************************************************)
(* A node resolves the addresses of one remote identity over its update    *)
(* log: from the cached log, or from a log that a discovered provider      *)
(* sends.  jolt-network/src/node/resolution.rs holds the waiting callers,  *)
(* events.rs the answers of the providers, publishing.rs the cache.        *)
(*                                                                         *)
(* The identity's key is on several installations (it is restored from a   *)
(* recovery kit), and each of them writes a log of its own from genesis.   *)
(* A peer answers with any entries that anybody ever signed, in any order: *)
(* an old log, a piece of one, two logs spliced, somebody else's log.      *)
(*                                                                         *)
(* Of the device-writer state, which a resolve tries first, this module    *)
(* takes the case that it has no such path (DeviceWriterSync has the rest).*)
(* A resolve that finds its path in the cache is answered before a request *)
(* is made, so the fallback_response that the code carries is always None. *)
(***************************************************************************)
EXTENDS UpdateLog, FiniteSets, Functions

CONSTANTS Identity,     \* the identity that is resolved
          Owner,        \* Owner[c]: whose key the installation c signs with
          Script,       \* Script[c]: the actions the installation c writes, in order
          Callers,      \* commands and callers of the node, one resolution each
          Peers,        \* providers, in no order
          Paths,
          MaxEntries    \* bound: entries of a log that a peer sends

Copies == DOMAIN Owner

ASSUME ResolutionAssumption ==
    /\ MaxEntries \in Nat
    /\ \E c \in Copies : Owner[c] = Identity
    /\ \A c \in Copies : /\ Len(Script[c]) \in Nat
                        /\ \A i \in 1..Len(Script[c]) : IsAction(Script[c][i])

VARIABLES written,      \* the log that every installation has written so far
          cache,        \* update_logs of the identity; <<>> is no entry
          discovered,   \* discovered_providers of the identity's key
          query,        \* is the identity in active_update_log_provider_queries
          relay,        \* is the relays' answer to a provider query still out
          refreshed,    \* is it in cached_update_log_refreshes
          parked,       \* pending_resolves: [caller, path]
          requests,     \* update-log requests out, of the four pending maps
          answer        \* auxiliary: what each caller was told

vars == <<written, cache, discovered, query, relay, refreshed, parked, requests, answer>>

Nobody == "nobody"
Idle == [status |-> "idle"]
Waiting == [status |-> "waiting"]

Request(kind, caller, path, peer) ==
    [kind |-> kind, caller |-> caller, path |-> path, peer |-> peer]

Init == /\ written = [c \in Copies |-> <<>>]
        /\ cache = <<>>
        /\ discovered = <<>>
        /\ query = FALSE
        /\ relay = FALSE
        /\ refreshed = FALSE
        /\ parked = {}
        /\ requests = {}
        /\ answer = [c \in Callers |-> Idle]

(***************************************************************************)
(* The installations write, the peers carry                                *)
(***************************************************************************)
Write(c) ==
    LET log == written[c]
        action == Script[c][Len(log) + 1]
    IN  /\ Len(log) < Len(Script[c])
        /\ written' = [written EXCEPT ![c] =
               Append(log, IF log = <<>> THEN genesis(Owner[c], action)
                                         ELSE append(log[Len(log)], action))]
        /\ UNCHANGED <<cache, discovered, query, relay, refreshed, parked, requests, answer>>

Entries == UNION {Range(written[c]) : c \in Copies}

Carried == UNION {[1..n -> Entries] : n \in 0..MaxEntries}

Stored(log) ==
    IF cache = <<>> \/ latest_sequence(log) > latest_sequence(cache) THEN log ELSE cache

\* resolve_response_from_cache of the log: what the caller is told.
Resolved(path, log, now) ==
    LET target == resolve_jolt_address(Identity, path, log, now)
    IN  IF target = Failed THEN Failed
        ELSE [path |-> path, content |-> target.content, sequence |-> latest_sequence(log)]

(***************************************************************************)
(* A caller asks                                                           *)
(***************************************************************************)
Told(caller, result) == answer' = [answer EXCEPT ![caller] = result]

\* should_refresh_cached_resolution; connected stands for the swarm's peers
\* and the configured bootstrap relays.
RefreshIsDue(connected) == ~refreshed /\ (connected \/ discovered # <<>>)

\* An open query is not repeated; a new one asks the DHT and the relays.
FindUpdateLogProviders == query' = TRUE /\ relay' = (relay \/ ~query)

\* begin_cached_update_log_refresh
RefreshInBackground(path, connected) ==
    IF RefreshIsDue(connected)
      THEN /\ refreshed' = TRUE
           /\ FindUpdateLogProviders
           /\ IF discovered = <<>>
                THEN UNCHANGED <<discovered, requests>>
                ELSE /\ discovered' = Tail(discovered)
                     /\ requests' = requests \cup
                            {Request("daemon", Nobody, path, Head(discovered))}
      ELSE UNCHANGED <<refreshed, query, relay, discovered, requests>>

ResolveFromCache(caller, path) ==
    /\ answer[caller] = Idle
    /\ cache # <<>>
    /\ Resolved(path, cache, 0) # Failed
    /\ Told(caller, Resolved(path, cache, 0))
    /\ \E connected \in BOOLEAN : RefreshInBackground(path, connected)
    /\ UNCHANGED <<written, cache, parked>>

ResolveRemotely(caller, path) ==
    /\ answer[caller] = Idle
    /\ Resolved(path, cache, 0) = Failed
    /\ Told(caller, Waiting)
    /\ FindUpdateLogProviders
    /\ IF discovered = <<>>
         THEN /\ parked' = parked \cup {[caller |-> caller, path |-> path]}
              /\ UNCHANGED <<discovered, requests>>
         ELSE /\ discovered' = Tail(discovered)
              /\ requests' = requests \cup {Request("daemon", caller, path, Head(discovered))}
              /\ UNCHANGED parked
    /\ UNCHANGED <<written, cache, refreshed>>

\* PinUpdateLog: a cached log is announced as it is; otherwise one connected
\* peer is asked for it.
PinCached(caller) ==
    /\ answer[caller] = Idle
    /\ cache # <<>>
    /\ Told(caller, [sequence |-> latest_sequence(cache)])
    /\ UNCHANGED <<written, cache, discovered, query, relay, refreshed, parked, requests>>

PinWithoutPeers(caller) ==
    /\ answer[caller] = Idle
    /\ cache = <<>>
    /\ Told(caller, Failed)
    /\ UNCHANGED <<written, cache, discovered, query, relay, refreshed, parked, requests>>

PinRemotely(caller, peer) ==
    /\ answer[caller] = Idle
    /\ cache = <<>>
    /\ Told(caller, Waiting)
    /\ requests' = requests \cup {Request("pin", caller, Nobody, peer)}
    /\ UNCHANGED <<written, cache, discovered, query, relay, refreshed, parked>>

\* request_update_log_from
RequestUpdateLogFrom(caller, peer) ==
    /\ answer[caller] = Idle
    /\ Told(caller, Waiting)
    /\ requests' = requests \cup {Request("sync", caller, Nobody, peer)}
    /\ UNCHANGED <<written, cache, discovered, query, relay, refreshed, parked>>

\* request_jolt_address_from_peer
RequestJoltAddressFromPeer(caller, path, peer) ==
    /\ answer[caller] = Idle
    /\ Told(caller, Waiting)
    /\ requests' = requests \cup {Request("direct", caller, path, peer)}
    /\ UNCHANGED <<written, cache, discovered, query, relay, refreshed, parked>>

\* StoreUpdateLog: a log that the local server was given.
StoreUpdateLog(caller) ==
    /\ answer[caller] = Idle
    /\ \E log \in Carried \ {<<>>} :
          IF verify_update_log_for_identity(Identity, log)
            THEN /\ cache' = Stored(log)
                 /\ Told(caller, [sequence |-> latest_sequence(Stored(log))])
            ELSE Told(caller, Failed) /\ UNCHANGED cache
    /\ UNCHANGED <<written, discovered, query, relay, refreshed, parked, requests>>

(***************************************************************************)
(* Providers are discovered                                                *)
(***************************************************************************)
\* request_pending_resolves_from_provider
Unparked(peer) == {Request("daemon", p.caller, p.path, peer) : p \in parked}

\* The DHT found a provider: it is kept for later and asked for what waits.
\* Bound: the list of providers is no longer than there are peers.
FoundProvider(peer) ==
    /\ query
    /\ Len(discovered) < Cardinality(Peers)
    /\ discovered' = Append(discovered, peer)
    /\ parked' = {}
    /\ requests' = requests \cup Unparked(peer)
    /\ UNCHANGED <<written, cache, query, relay, refreshed, answer>>

QueryEnds ==
    /\ query
    /\ query' = FALSE
    /\ UNCHANGED <<written, cache, discovered, relay, refreshed, parked, requests, answer>>

\* A relay named a candidate, however late.  One that is new is asked for what
\* waits.
RelayNamed(peer) ==
    /\ relay
    /\ relay' = FALSE
    /\ ~\E i \in 1..Len(discovered) : discovered[i] = peer
    /\ Len(discovered) < Cardinality(Peers)
    /\ discovered' = Append(discovered, peer)
    /\ parked' = {}
    /\ requests' = requests \cup Unparked(peer)
    /\ UNCHANGED <<written, cache, query, refreshed, answer>>

RefreshIntervalEnds ==
    /\ refreshed
    /\ refreshed' = FALSE
    /\ UNCHANGED <<written, cache, discovered, query, relay, parked, requests, answer>>

(***************************************************************************)
(* A provider answers, fails, or is late                                   *)
(***************************************************************************)
\* What the caller of r is told once a verified log left the cache at log.
Result(r, log) ==
    CASE r.kind = "daemon" -> Resolved(r.path, log, 0)
      [] r.kind = "direct" -> Resolved(r.path, log, 1)
      [] r.kind \in {"pin", "sync"} -> [sequence |-> latest_sequence(log)]

Answered(r, result) == IF r.caller = Nobody THEN UNCHANGED answer ELSE Told(r.caller, result)

Usable(log) == log # <<>> /\ verify_update_log_for_identity(Identity, log)

Response(r, log) ==
    /\ r \in requests
    /\ requests' = requests \ {r}
    /\ IF Usable(log)
         THEN cache' = Stored(log) /\ Answered(r, Result(r, Stored(log)))
         ELSE Answered(r, Failed) /\ UNCHANGED cache
    /\ UNCHANGED <<written, discovered, query, relay, refreshed, parked>>

OthersThan(peer) == SelectSeq(discovered, LAMBDA p : p # peer)

\* Faulty: when no other provider is left the request is just forgotten.
OutboundFailure_Silent(r) ==
    /\ r \in requests
    /\ LET others == OthersThan(r.peer) IN
       IF r.kind \in {"daemon", "direct"} /\ others # <<>>
         THEN /\ requests' = (requests \ {r}) \cup {[r EXCEPT !.peer = Head(others)]}
              /\ discovered' = Tail(others)
         ELSE /\ requests' = requests \ {r}
              /\ discovered' = IF r.kind \in {"daemon", "direct"} THEN others ELSE discovered
    /\ UNCHANGED <<written, cache, query, relay, refreshed, parked, answer>>

OutboundFailure(r) ==
    /\ r \in requests
    /\ LET others == OthersThan(r.peer) IN
       IF r.kind \in {"daemon", "direct"} /\ others # <<>>
         THEN /\ requests' = (requests \ {r}) \cup {[r EXCEPT !.peer = Head(others)]}
              /\ discovered' = Tail(others)
              /\ UNCHANGED answer
         ELSE /\ requests' = requests \ {r}
              /\ discovered' = IF r.kind \in {"daemon", "direct"} THEN others ELSE discovered
              /\ Answered(r, Failed)
    /\ UNCHANGED <<written, cache, query, relay, refreshed, parked>>

\* check_resolve_timeouts, for one waiting caller and for one request.
ParkedTimeout(p) ==
    /\ p \in parked
    /\ parked' = parked \ {p}
    /\ Told(p.caller, Failed)
    /\ UNCHANGED <<written, cache, discovered, query, relay, refreshed, requests>>

RequestTimeout(r) ==
    /\ r \in requests
    /\ r.kind = "daemon"
    /\ requests' = requests \ {r}
    /\ Answered(r, Failed)
    /\ UNCHANGED <<written, cache, discovered, query, relay, refreshed, parked>>

Asks(c) == \/ \E p \in Paths : ResolveFromCache(c, p) \/ ResolveRemotely(c, p)
           \/ \E q \in Peers : \/ PinRemotely(c, q)
                               \/ RequestUpdateLogFrom(c, q)
                               \/ \E p \in Paths : RequestJoltAddressFromPeer(c, p, q)
           \/ PinCached(c)
           \/ PinWithoutPeers(c)
           \/ StoreUpdateLog(c)

ProviderEnds(r) == (\E log \in Carried : Response(r, log)) \/ OutboundFailure(r)

Next == \/ \E c \in Copies : Write(c)
        \/ \E c \in Callers : Asks(c)
        \/ \E p \in Peers : FoundProvider(p) \/ RelayNamed(p)
        \/ QueryEnds
        \/ RefreshIntervalEnds
        \/ \E r \in requests : ProviderEnds(r) \/ RequestTimeout(r)
        \/ \E p \in parked : ParkedTimeout(p)

\* A request that is out gets a response or an outbound failure (libp2p's
\* request timeout), a DHT query ends, and the daemon loop checks the deadlines
\* every second.
RequestEnds(c) == \E r \in requests : r.caller = c /\ (ProviderEnds(r) \/ RequestTimeout(r))

Fairness ==
    /\ WF_vars(QueryEnds)
    /\ \A c \in Callers : /\ WF_vars(RequestEnds(c))
                           /\ WF_vars(\E p \in parked : p.caller = c /\ ParkedTimeout(p))

Spec == Init /\ [][Next]_vars /\ Fairness

(***************************************************************************)
(* Properties                                                              *)
(***************************************************************************)
\* The cached log is, entry for entry, the beginning of a log that one
\* installation of the identity wrote: whatever pieces the peers send,
\* verify_update_log lets no mixture and nobody else's entries through.
IsBeginning(log, of) == Len(log) <= Len(of) /\ \A i \in 1..Len(log) : log[i] = of[i]

CacheWasWritten ==
    \E c \in Copies : Owner[c] = Identity /\ IsBeginning(cache, written[c])

\* The last entry of the log that is about the path.
Touches(e, path) == e.body.action.type \in {"SetPath", "RemovePath"} /\ e.body.action.path = path

BoundIn(log, path, content) ==
    \E i \in 1..Len(log) :
        /\ log[i].body.action = SetPath(path, content)
        /\ \A j \in (i + 1)..Len(log) : ~Touches(log[j], path)

\* A caller is told of a content only when an installation had it at that
\* path: the path was set to it in the log up to the sequence the answer
\* names, and not set or removed since (resolve_latest_record replays it).
AnswersWereBound ==
    \A c \in Callers :
        "content" \in DOMAIN answer[c] =>
            \E w \in Copies :
                /\ Owner[w] = Identity
                /\ answer[c].sequence < Len(written[w])
                /\ BoundIn(SubSeq(written[w], 1, answer[c].sequence + 1),
                           answer[c].path, answer[c].content)

\* A caller that waits is answered, whether providers are found, answer, fail
\* or stay silent: its sender moves from pending_resolves to a request to the
\* next provider's request and is dropped by none of the moves.
EveryCallerIsAnswered == \A c \in Callers : (answer[c] = Waiting) ~> (answer[c] # Waiting)
=============================================================================
