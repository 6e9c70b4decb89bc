------------------------------ MODULE RelayMesh ------------------------------
(***************************************************************************)
(* The relay mesh: gossip of relay records and identity-head hints, the    *)
(* walk over the known relays, and the identity-provider query that floods *)
(* the mesh for a resolve or a diagnosis (jolt-network node/providers.rs,  *)
(* node/relays.rs, node/identity_heads.rs and the relay-exchange handlers  *)
(* of node/events.rs).                                                     *)
(*                                                                         *)
(* Node n is a device of identity IdentityOf[n], with a peer id of its own: *)
(* an identity on several devices has several providers.  A request in     *)
(* flight is an element of `calls`:                                        *)
(* libp2p's request-response either brings the answer back or reports an   *)
(* OutboundFailure; the request of a failed call may still arrive.         *)
(* Stage "sent": on its way; "held": the receiver keeps its channel in a    *)
(* forward group; "answered": the response is on its way; "late": given up  *)
(* by the asker.  `mapped` is whether the asker's                          *)
(* pending_identity_provider_forwards or .._diagnostic_requests still has   *)
(* the request id.                                                         *)
(*                                                                         *)
(* Two things never end here: a connection, and an entry of `seen`.  The   *)
(* code forgets a query after 30 s, when its deadline is long past and a   *)
(* late copy of it is answered at once whether or not it was seen.         *)
(***************************************************************************)
EXTENDS RelayBooks

CONSTANTS Nodes,           \* a finite set of naturals
          Relays,          \* the nodes in relay mode
          BootstrapOf,     \* bootstrap_peer_ids of each node
          LinkedAtStart,   \* connected_peers of each node when the model starts
          UpAtStart,       \* connections not yet announced to the node: <<n, p>>
          KnownAtStart,    \* relay_records.json of each node
          IdentityOf,      \* the identity of each node
          Asks,            \* <<node, identity>> a resolve may ask for
          Diagnoses,       \* <<node, identity>> an operator may diagnose
          FanOut,          \* IDENTITY_PROVIDER_QUERY_FANOUT
          QueryLimit,      \* IDENTITY_PROVIDER_QUERY_LIMIT
          QueryTtl,        \* IDENTITY_PROVIDER_QUERY_TTL
          QueryTimeout,    \* IDENTITY_PROVIDER_QUERY_TIMEOUT, in clock ticks
          ResolveTimeout,  \* resolve_timeout, in clock ticks
          Starts           \* where a behaviour may start and how far it goes:
                           \* heads, hints and holds of each node from earlier
                           \* gossip, and its budget

(***************************************************************************)
(* A budget bounds a behaviour: `left` connections, walks, publications,   *)
(* questions, lost calls and clock ticks taken together; at most           *)
(* `questions` resolves and diagnoses; publications by `publishers`; in a  *)
(* `quiet` behaviour no call is lost, no time passes and no timer fires.   *)
(***************************************************************************)
ASSUME MeshAssumption ==
    /\ IsFiniteSet(Nodes)
    /\ LinkedAtStart \in [Nodes -> SUBSET Nodes]

VARIABLES clock,     \* unix_now and Instant::now
          head,      \* node -> sequence of the newest entry of its own log
          holds,     \* node -> update_logs: the identities it can serve
          book,      \* node -> identity_head_hints
          cursor,    \* node -> gossip_cursor
          relays,    \* node -> relay_records.json
          walk,      \* node -> relay_mesh_exploration_cursor
          mesh,      \* node -> relay_mesh_peer_ids
          linked,    \* node -> connected_peers
          up,        \* connections whose ConnectionEstablished is to come
          found,     \* node -> identity -> discovered_providers
          seen,      \* node -> seen_identity_provider_queries
          groups,    \* node -> pending_identity_provider_forward_groups
          calls,     \* relay-exchange requests in flight
          diagnosis, \* <<node, identity>> -> the pending or answered diagnosis
          asked,     \* resolves that have asked
          events     \* what is left of the budget

books == <<head, book, cursor, relays>>
topology == <<walk, mesh, linked, up>>
queries == <<found, seen, groups, diagnosis, asked>>
vars == <<clock, books, holds, topology, queries, calls, events>>

Nobody == 0
NotAsked == [state |-> "idle"]

TypeOK ==
    /\ clock \in Nat /\ events.left \in Nat
    /\ DOMAIN book = Nodes /\ DOMAIN relays = Nodes /\ DOMAIN groups = Nodes
    /\ \A n \in Nodes : linked[n] \subseteq Nodes \ {n}

Init ==
    /\ \E start \in Starts : /\ head = start.heads
                            /\ book = start.hints
                            /\ holds = start.holds
                            /\ events = start.budget
    /\ clock = 0
    /\ cursor = [n \in Nodes |-> 0]
    /\ relays = KnownAtStart
    /\ walk = [n \in Nodes |-> 0]
    /\ mesh = [n \in Nodes |-> {}]
    /\ linked = LinkedAtStart
    /\ up = UpAtStart
    /\ found = [n \in Nodes |-> [i \in Identities |-> <<>>]]
    /\ seen = [n \in Nodes |-> {}]
    /\ groups = [n \in Nodes |-> {}]
    /\ calls = {}
    /\ diagnosis = [d \in Diagnoses |-> NotAsked]
    /\ asked = {}

-----------------------------------------------------------------------------
(***************************************************************************)
(* Gossip.                                                                 *)
(***************************************************************************)

\* The questions that were put to the mesh.
Questions == Cardinality(asked)
               + Cardinality({d \in Diagnoses : diagnosis[d].state # "idle"})

\* One more event from outside the mesh's own traffic.
Happens == events.left > 0 /\ events' = [events EXCEPT !.left = @ - 1]

Call(from, to, role, request) ==
    [from |-> from, to |-> to, role |-> role, request |-> request,
     stage |-> "sent", mapped |-> role \in {"forward", "diagnosis"},
     answer |-> <<>>]

\* local_relay_record: only a node in relay mode has one.
OwnRecord(n) == IF n \in Relays THEN {NewRecord(n, clock)} ELSE {}

\* start_relay_record_exchange: announce what is known, then ask.
Exchange(n, peer) ==
    LET records == SelectSeq(
                     relay_records_for_exchange(relays[n], OwnRecord(n),
                                                RecordsMax, clock),
                     LAMBDA r : r.relay # peer)
        batch == exchange_batch(book[n], cursor[n], clock, ExchangeMax)
        Announce(kind, body) ==
            IF body = <<>> THEN {} ELSE {Call(n, peer, "gossip", [kind |-> kind, body |-> body])}
    IN  /\ calls' = calls \cup Announce("AnnounceRelays", records)
                          \cup Announce("AnnounceIdentityHeads", batch.hints)
                          \cup {Call(n, peer, "gossip", [kind |-> "GetRelays"]),
                                Call(n, peer, "gossip", [kind |-> "GetIdentityHeads"])}
        /\ cursor' = [cursor EXCEPT ![n] = batch.cursor]

\* The relay-exchange part of ConnectionEstablished: the peer is connected, and
\* a bootstrap or mesh peer gets an exchange.
ConnectionEstablished(n, peer) ==
    /\ <<n, peer>> \in up /\ Happens
    /\ up' = up \ {<<n, peer>>}
    /\ linked' = [linked EXCEPT ![n] = @ \cup {peer}]
    /\ IF peer \in BootstrapOf[n] \cup mesh[n]
       THEN Exchange(n, peer)
       ELSE UNCHANGED <<calls, cursor>>
    /\ UNCHANGED <<clock, head, book, relays, holds, walk, mesh, queries>>

\* explore_relay_mesh, one tick: from the cursor, the first known relay that is
\* not this node joins the mesh peers (RELAY_MESH_EXPLORATION_FANOUT is 1); a
\* connected one gets an exchange and the others are dialled.
explore_relay_mesh(n) ==
    LET known == load_relay_records(relays[n], clock)
        total == Len(known)
        At(offset) == (walk[n] + offset) % total
        tries == {o \in 0..(total - 1) : known[At(o) + 1].relay # n}
        first == CHOOSE o \in tries : \A p \in tries : o <= p
        peer == known[At(first) + 1].relay
    IN  /\ n \in Relays /\ total > 0 /\ tries # {}
        /\ ~events.quiet /\ Happens
        /\ walk' = [walk EXCEPT ![n] = (At(first) + 1) % total]
        /\ mesh' = [mesh EXCEPT ![n] = @ \cup {peer}]
        /\ IF peer \in linked[n]
           THEN Exchange(n, peer) /\ up' = up
           ELSE /\ up' \in {up, up \cup {<<n, peer>>, <<peer, n>>}}
                /\ UNCHANGED <<calls, cursor>>
        /\ UNCHANGED <<clock, head, book, relays, holds, linked, queries>>

\* refresh_local_identity_head_hint, after the node has published an entry.
PublishHead(n) ==
    LET hint == NewHint(IdentityOf[n], n, head[n] + 1, clock)
    IN  /\ n \in events.publishers /\ Happens
        /\ head' = [head EXCEPT ![n] = @ + 1]
        /\ holds' = [holds EXCEPT ![n] = @ \cup {IdentityOf[n]}]
        /\ \E b \in record_many(book[n], <<hint>>, clock) :
              book' = [book EXCEPT ![n] = b]
        /\ UNCHANGED <<clock, cursor, relays, topology, queries, calls>>

\* The answer travels back on the channel, unless the asker has given up.
Answered(c, answer) ==
    IF c.stage = "late" THEN {}
    ELSE {[c EXCEPT !.stage = "answered", !.answer = answer]}

Replied(c, answer) == (calls \ {c}) \cup Answered(c, answer)

\* The four gossip requests, at the node that receives one.  The response to
\* an announcement only marks the peer as reachable, and is left out.
HandleGossip(c) ==
    LET n == c.to
        k == c.request.kind
    IN  /\ c \in calls /\ c.stage = "sent" /\ c.role = "gossip"
        /\ IF k = "AnnounceIdentityHeads"
           THEN \E b \in record_many(book[n], c.request.body, clock) :
                   book' = [book EXCEPT ![n] = b]
           ELSE book' = book
        /\ relays' = IF k = "AnnounceRelays"
                     THEN [relays EXCEPT ![n] =
                              store_relay_records(@, c.request.body, clock)]
                     ELSE relays
        /\ LET batch == exchange_batch(book[n], cursor[n], clock, ExchangeMax)
           IN  /\ cursor' = IF k = "GetIdentityHeads"
                            THEN [cursor EXCEPT ![n] = batch.cursor] ELSE cursor
               /\ calls' = CASE k = "GetIdentityHeads" -> Replied(c, batch.hints)
                             [] k = "GetRelays" -> Replied(c,
                                  relay_records_for_exchange(relays[n],
                                      OwnRecord(n), RecordsMax, clock))
                             [] OTHER -> calls \ {c}
        /\ UNCHANGED <<clock, head, holds, topology, queries, events>>

\* Their responses, at the node that asked.
HandleGossipResponse(c) ==
    LET n == c.from
        k == c.request.kind
    IN  /\ c \in calls /\ c.stage = "answered"
        /\ c.role = "gossip"
        /\ calls' = calls \ {c}
        /\ IF k = "GetIdentityHeads"
           THEN \E b \in record_many(book[n], c.answer, clock) :
                   book' = [book EXCEPT ![n] = b]
           ELSE book' = book
        /\ relays' = IF k = "GetRelays"
                     THEN [relays EXCEPT ![n] =
                              store_relay_records(@, c.answer, clock)]
                     ELSE relays
        /\ UNCHANGED <<clock, head, cursor, holds, topology, queries, events>>

-----------------------------------------------------------------------------
(***************************************************************************)
(* Identity-provider queries.                                              *)
(***************************************************************************)

\* dedupe_identity_provider_candidates.
Deduped(providers, limit) ==
    LET First(k) == \A j \in 1..(k - 1) : providers[j] # providers[k]
        kept == SelectSeq([k \in DOMAIN providers |->
                              IF First(k) THEN providers[k] ELSE Nobody],
                          LAMBDA p : p # Nobody)
    IN  SubSeq(kept, 1, IF Len(kept) < limit THEN Len(kept) ELSE limit)

\* identity_provider_candidates: this node if it holds the log, the providers
\* discovered so far, the providers of the hints.
Candidates(n, identity, limit) ==
    Deduped((IF identity \in holds[n] THEN <<n>> ELSE <<>>)
              \o found[n][identity]
              \o HintedProviders(book[n], identity, clock), limit)

\* relay_query_peers: connected bootstrap and mesh peers but the excluded one,
\* FanOut of them in no particular order.
QueryPeers(n, excluded) ==
    LET all == (linked[n] \cap (BootstrapOf[n] \cup mesh[n])) \ {excluded}
    IN  {s \in SUBSET all : Cardinality(s) = (IF Cardinality(all) < FanOut
                                              THEN Cardinality(all) ELSE FanOut)}

\* identity_provider_query_id: the asker, the identity and the time.
QueryId(n, identity) == [origin |-> n, identity |-> identity, at |-> clock]

FindCall(from, to, role, query, ttl, deadline) ==
    Call(from, to, role, [kind |-> "FindIdentityProviders", query |-> query,
                          ttl |-> ttl, deadline |-> deadline])

\* diagnose_identity_outcome, with the codes of identity_provider_failure.
Outcome(n, providers) ==
    IF providers # <<>> THEN "provider_candidates_found"
    ELSE IF BootstrapOf[n] \cup linked[n] = {} THEN "no_bootstrap_relays"
    ELSE IF BootstrapOf[n] # {} /\ BootstrapOf[n] \cap linked[n] = {}
         THEN "relay_unreachable"
    ELSE "identity_provider_not_found"

\* build_identity_diagnosis_response.
Diagnosed(n, providers) ==
    [state |-> "told", providers |-> providers, outcome |-> Outcome(n, providers)]

\* start_identity_provider_relay_query, for a resolve that found no provider.
AskMesh(n, identity) ==
    /\ <<n, identity>> \in Asks \ asked /\ Questions < events.questions /\ Happens
    /\ asked' = asked \cup {<<n, identity>>}
    /\ \E peers \in QueryPeers(n, Nobody) :
          calls' = calls \cup {FindCall(n, p, "ask", QueryId(n, identity),
                                        QueryTtl, clock + QueryTimeout) : p \in peers}
    /\ UNCHANGED <<clock, books, holds, topology, found, seen, groups, diagnosis>>

\* diagnose_identity: answered from the node's own candidates, or at once when
\* there is nobody to ask; otherwise pending on every peer asked.
diagnose_identity(n, identity) ==
    LET d == <<n, identity>>
        local == Candidates(n, identity, QueryLimit)
    IN  /\ d \in Diagnoses /\ diagnosis[d].state = "idle"
        /\ Questions < events.questions /\ Happens
        /\ \E peers \in QueryPeers(n, Nobody) :
              IF local # <<>> \/ peers = {}
              THEN /\ diagnosis' = [diagnosis EXCEPT ![d] =
                                       Diagnosed(n, local)]
                   /\ calls' = calls
              ELSE /\ diagnosis' = [diagnosis EXCEPT ![d] =
                        [state |-> "pending", query |-> QueryId(n, identity),
                         waits |-> peers, providers |-> <<>>,
                         deadline |-> clock + ResolveTimeout]]
                   /\ calls' = calls \cup
                        {FindCall(n, p, "diagnosis", QueryId(n, identity),
                                  QueryTtl, clock + ResolveTimeout) : p \in peers}
        /\ UNCHANGED <<clock, books, holds, topology, found, seen, groups, asked>>

\* A call's channel, as its receiver knows it.
Channel(c) == [from |-> c.from, to |-> c.to, role |-> c.role,
               request |-> c.request]

\* send_response on a channel kept in a forward group.
RespondTo(cs, channel, providers) ==
    LET held == {x \in cs : Channel(x) = channel /\ x.stage = "held"}
    IN  (cs \ held) \cup {[x EXCEPT !.stage = "answered",
                                   !.answer = Deduped(providers, QueryLimit)] :
                             x \in held}

\* retain: the asker forgets the request ids of a query it no longer waits for.
Unmapped(cs, n, role, query) ==
    {IF x.from = n /\ x.role = role /\ x.request.query = query
     THEN [x EXCEPT !.mapped = FALSE] ELSE x : x \in cs}

\* Faulty: a query that is already open is forwarded once more.
AnswersAtOnce_Unseen(n, c, providers) ==
    \/ providers # <<>>
    \/ c.request.ttl = 0
    \/ c.request.deadline <= clock
    \/ Len(providers) >= QueryLimit

\* The early return of handle_identity_provider_query.
AnswersAtOnce(n, c, providers) ==
    \/ c.request.query \in seen[n]
    \/ providers # <<>>
    \/ c.request.ttl = 0
    \/ c.request.deadline <= clock
    \/ Len(providers) >= QueryLimit

\* handle_identity_provider_query: answered from what the node knows, or
\* forwarded to its relays but the one that asked, the channel kept in a group
\* (which replaces one of the same query).
handle_identity_provider_query(c) ==
    LET n == c.to
        query == c.request.query
        providers == Candidates(n, query.identity, QueryLimit)
        Forward(p) == FindCall(n, p, "forward", query, c.request.ttl - 1,
                               c.request.deadline)
        Group(peers) == [query |-> query, channel |-> Channel(c),
                         providers |-> providers,
                         deadline |-> clock + QueryTimeout,
                         remaining |-> Cardinality(peers)]
        Others == {g \in groups[n] : g.query # query}
        held == IF c.stage = "late" THEN {} ELSE {[c EXCEPT !.stage = "held"]}
    IN  /\ c \in calls /\ c.stage \in {"sent", "late"} /\ c.role # "gossip"
        /\ seen' = [seen EXCEPT ![n] = @ \cup {query}]
        /\ \E peers \in QueryPeers(n, c.from) :
              IF AnswersAtOnce(n, c, providers) \/ peers = {}
              THEN calls' = Replied(c, providers) /\ groups' = groups
              ELSE /\ calls' = (calls \ {c}) \cup held
                                  \cup {Forward(p) : p \in peers}
                   /\ groups' = [groups EXCEPT ![n] = Others \cup {Group(peers)}]
        /\ UNCHANGED <<clock, books, holds, topology, found, diagnosis, asked,
                       events>>

\* A forwarded request ended with `providers`: the group counts it off and is
\* answered once all are in or it has enough.
ForwardEnded(c, rest, providers, enough) ==
    LET n == c.from
        open == {g \in groups[n] : g.query = c.request.query}
        Counted(g) == [g EXCEPT !.providers = @ \o providers,
                                !.remaining = IF @ = 0 THEN 0 ELSE @ - 1]
        Done(g) == g.remaining = 0 \/ (enough /\ Len(g.providers) >= QueryLimit)
        now == {Counted(g) : g \in open}
        done == {g \in now : Done(g)}
    IN  /\ groups' = [groups EXCEPT ![n] = (@ \ open) \cup (now \ done)]
        /\ calls' = IF done = {} THEN rest
                    ELSE LET g == CHOOSE g \in done : TRUE
                         IN  RespondTo(Unmapped(rest, n, "forward", g.query),
                                       g.channel, g.providers)

\* Faulty: a peer that failed, or knew nobody, is still waited for.
DiagnosisEnded_Patient(c, rest, providers) ==
    /\ diagnosis' = [d \in Diagnoses |->
          IF /\ d[1] = c.from /\ diagnosis[d].state = "pending"
             /\ diagnosis[d].query = c.request.query /\ providers # <<>>
          THEN Diagnosed(c.from, Deduped(providers, QueryLimit))
          ELSE diagnosis[d]]
    /\ calls' = rest

\* A diagnosis request ended; finish_identity_diagnosis when none is pending or
\* enough providers are known.
DiagnosisEnded(c, rest, providers) ==
    LET open == {d \in Diagnoses : /\ d[1] = c.from
                                   /\ diagnosis[d].state = "pending"
                                   /\ diagnosis[d].query = c.request.query}
        After(d) == [diagnosis[d] EXCEPT !.waits = @ \ {c.to},
                                         !.providers = @ \o providers]
        Done(d) == After(d).waits = {} \/ Len(After(d).providers) >= QueryLimit
        Told(d) == Diagnosed(c.from, Deduped(After(d).providers, QueryLimit))
    IN  /\ diagnosis' = [d \in Diagnoses |->
              IF d \notin open THEN diagnosis[d]
              ELSE IF Done(d) THEN Told(d) ELSE After(d)]
        /\ calls' = IF \E d \in open : Done(d)
                    THEN Unmapped(rest, c.from, "diagnosis", c.request.query)
                    ELSE rest

\* record_identity_provider_candidates: new providers but this node.
WithCandidates(n, identity, providers) ==
    [found EXCEPT ![n][identity] =
        Loop(LAMBDA known, p : IF p = n \/ p \in Range(known) THEN known
                               ELSE Append(known, p), @, providers)]

\* The IdentityProviders response: for a diagnosis, for a forward group, or
\* else (a resolve's own query, or an answer whose group has closed) kept.
HandleProviders(c) ==
    /\ c \in calls /\ c.stage = "answered" /\ c.role # "gossip"
    /\ \/ /\ c.mapped /\ c.role = "diagnosis"
          /\ DiagnosisEnded(c, calls \ {c}, c.answer)
          /\ UNCHANGED <<found, groups>>
       \/ /\ c.mapped /\ c.role = "forward"
          /\ ForwardEnded(c, calls \ {c}, c.answer, TRUE)
          /\ UNCHANGED <<found, diagnosis>>
       \/ /\ ~c.mapped
          /\ calls' = calls \ {c}
          /\ found' = WithCandidates(c.from, c.request.query.identity, c.answer)
          /\ UNCHANGED <<groups, diagnosis>>
    /\ UNCHANGED <<clock, books, holds, topology, seen, asked, events>>

\* OutboundFailure: the request or its response is lost, or too late.  (A gossip
\* request given up and then delivered is one whose response is lost.)
OutboundFailure(c) ==
    LET rest == (calls \ {c}) \cup
                  (IF c.stage = "sent" /\ c.role # "gossip"
                   THEN {[c EXCEPT !.stage = "late", !.mapped = FALSE]} ELSE {})
    IN  /\ c \in calls /\ c.stage # "late"
        /\ ~events.quiet /\ Happens
        /\ \/ /\ c.mapped /\ c.role = "diagnosis"
              /\ DiagnosisEnded(c, rest, <<>>)
              /\ groups' = groups
           \/ /\ c.mapped /\ c.role = "forward"
              /\ ForwardEnded(c, rest, <<>>, FALSE)
              /\ diagnosis' = diagnosis
           \/ /\ ~c.mapped
              /\ calls' = rest
              /\ UNCHANGED <<groups, diagnosis>>
        /\ UNCHANGED <<clock, books, holds, topology, found, seen, asked>>

\* check_identity_provider_forward_timeouts.
ForwardTimesOut(n) ==
    \E g \in groups[n] :
        /\ g.deadline <= clock
        /\ groups' = [groups EXCEPT ![n] = @ \ {g}]
        /\ calls' = RespondTo(Unmapped(calls, n, "forward", g.query),
                              g.channel, g.providers)
        /\ UNCHANGED <<clock, books, holds, topology, found, seen, diagnosis,
                       asked, events>>

\* check_identity_diagnosis_timeouts.
DiagnosisTimesOut(d) ==
    /\ diagnosis[d].state = "pending" /\ diagnosis[d].deadline <= clock
    /\ diagnosis' = [diagnosis EXCEPT ![d] =
          Diagnosed(d[1], Deduped(@.providers, QueryLimit))]
    /\ calls' = Unmapped(calls, d[1], "diagnosis", diagnosis[d].query)
    /\ UNCHANGED <<clock, books, holds, topology, found, seen, groups, asked,
                   events>>

Tick ==
    /\ ~events.quiet /\ Happens
    /\ clock' = clock + 1
    /\ UNCHANGED <<books, holds, topology, queries, calls>>

-----------------------------------------------------------------------------
Next ==
    \/ \E n \in Nodes : \/ explore_relay_mesh(n)
                        \/ PublishHead(n)
                        \/ ForwardTimesOut(n)
                        \/ \E p \in Nodes : ConnectionEstablished(n, p)
                        \/ \E i \in Identities : \/ AskMesh(n, i)
                                                 \/ diagnose_identity(n, i)
    \/ \E c \in calls : \/ HandleGossip(c)
                        \/ HandleGossipResponse(c)
                        \/ handle_identity_provider_query(c)
                        \/ HandleProviders(c)
                        \/ OutboundFailure(c)
    \/ \E d \in Diagnoses : DiagnosisTimesOut(d)
    \/ Tick

\* Requests that were not given up, and responses, arrive (or libp2p reports
\* their failure), and the one-second tick of the daemon loop runs its timeouts.
\* Nothing makes a query start, time pass, or a late request arrive.
Progress ==
    \/ \E c \in calls : \/ c.stage = "sent" /\ handle_identity_provider_query(c)
                        \/ HandleProviders(c)
    \/ \E n \in Nodes : ForwardTimesOut(n)
    \/ \E d \in Diagnoses : DiagnosisTimesOut(d)

Spec == Init /\ [][Next]_vars /\ WF_vars(Progress)

-----------------------------------------------------------------------------
\* A forward group waits for exactly the requests it has out, and answers
\* somebody: its remaining_requests is the number of request ids mapped to its
\* query, every mapped id has a group, and every request a node holds back is
\* in one of its groups.  So it is through answers, failures, timeouts and the
\* same query arriving over two paths of a cyclic mesh.
GroupsAreExact ==
    /\ \A n \in Nodes :
          LET out == {c \in calls : c.from = n /\ c.role = "forward" /\ c.mapped}
          IN  /\ \A g \in groups[n] : g.remaining > 0 /\ g.remaining =
                    Cardinality({c \in out : c.request.query = g.query})
              /\ \A c \in out : \E g \in groups[n] : g.query = c.request.query
    /\ \A c \in calls : c.stage = "held" =>
          \E g \in groups[c.to] : g.channel = Channel(c)

\* A node's newest fresh head of an identity never goes back: what a peer
\* announces late, or from an older book, replaces nothing newer, and the bound
\* per identity takes an older provider's hint.  Only time and the global bound
\* take a head away, and the bound takes it only from a full book, for hints
\* that are all at least as new, and with every hint of its identity: it never
\* leaves the identity with an older head.
BestHead(n, i) == DiagnosedHints(book[n], i, clock).latest
AllHints(n) == UNION {Range(book[n][i]) : i \in Identities}
CrowdedOut(n, i) ==
    /\ book[n][i]' = <<>>
    /\ Cardinality(AllHints(n)') = GlobalMax
    /\ \A h \in AllHints(n)' : h.sequence >= BestHead(n, i)
HeadsNeverRegress ==
    [][clock' = clock => \A n \in Nodes, i \in Identities :
          BestHead(n, i) <= BestHead(n, i)' \/ CrowdedOut(n, i)]_vars

\* Every diagnosis is answered, and no node holds a peer's query for ever:
\* nodes that wait for each other around a cycle of the mesh let go, whether
\* or not a timeout helps them.
Waiting ==
    \/ \E d \in Diagnoses : diagnosis[d].state = "pending"
    \/ \E n \in Nodes : groups[n] # {}
EveryQueryEnds == Waiting ~> ~Waiting
=============================================================================
