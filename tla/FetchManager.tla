---------------------------- MODULE FetchManager ----------------------------
(***************************************************************************)
(* The fetch manager of the node's event loop (fetch_manager.rs) with the  *)
(* handlers that drive it: the Fetch command, content responses and        *)
(* failures, provider discovery, connections and the one-second tick.      *)
(*                                                                         *)
(* Every client issues one Fetch command, for the content Wanted[k], so a  *)
(* fetch is named by its client, a peer request by the client and the      *)
(* peer, and the one request a fetch sends to a discovered provider by the *)
(* client and Provider.  What a client is told is the final phase of its   *)
(* fetch; "dropped" is a response channel dropped unanswered.              *)
(***************************************************************************)
EXTENDS Naturals, FiniteSets

CONSTANTS
  Clients,    \* the Fetch commands
  Contents,   \* content ids
  Wanted,     \* the content each client asks for
  Peers,      \* the other nodes
  Provider,   \* names a fetch's request to its discovered provider
  None        \* no client, no peer

ASSUME FetchAssumption ==
  /\ IsFiniteSet(Clients) /\ IsFiniteSet(Peers)
  /\ Wanted \in [Clients -> Contents]
  /\ Provider \notin Peers
  /\ None \notin Clients \cup Peers

VARIABLES
  active,     \* the fetch that owns each content id, or None
  fetch,      \* the FetchState of each fetch, or its answer
  mapped,     \* the keys of request_to_content
  inflight,   \* the requests the network still has to answer
  connected,  \* the connected peers
  stored      \* the contents in the local store

vars == <<active, fetch, mapped, inflight, connected, stored>>

Requests == Clients \X (Peers \cup {Provider})
ContentOf(r) == Wanted[r[1]]
RequestsFor(c) == {r \in Requests : ContentOf(r) = c}

Awaiting == {"TryingPeers", "QueryingDht"}
Live == Awaiting \cup {"WaitingForProvider", "FetchingFromProvider"}
Answers == {"Ok", "ProviderNotFound", "Timeout", "dropped"}

\* The fields of the variants of FetchState; late says that the fetch is
\* older than fetch_timeout, settled that its provider has connected.
State(phase, late) ==
  [phase |-> phase, late |-> late, failed |-> 0, total |-> 0,
   provider |-> None, settled |-> FALSE]
Idle == State("idle", FALSE)
Answered(answer) == State(answer, FALSE)
Phase(k) == fetch[k].phase

Init ==
  /\ active = [c \in Contents |-> None]
  /\ fetch = [k \in Clients |-> Idle]
  /\ mapped = {}
  /\ inflight = {}
  /\ connected \in SUBSET Peers
  /\ stored = {}

-----------------------------------------------------------------------------
(* The Fetch command. *)

FetchLocally(k) ==
  /\ Phase(k) = "idle"
  /\ Wanted[k] \in stored
  /\ fetch' = [fetch EXCEPT ![k] = Answered("Ok")]
  /\ UNCHANGED <<active, mapped, inflight, connected, stored>>

\* A new fetch: every connected peer has been asked.
Started ==
  IF connected = {}
  THEN State("QueryingDht", FALSE)
  ELSE [State("TryingPeers", FALSE) EXCEPT !.total = Cardinality(connected)]

\* The command asks every connected peer and starts a fetch, which takes the
\* place of one in progress for the same content: that one's response
\* channel is dropped, its requests stay mapped.
StartFetch(k) ==
  LET c == Wanted[k]
      sent == {k} \X connected
  IN
  /\ Phase(k) = "idle"
  /\ c \notin stored
  /\ active' = [active EXCEPT ![c] = k]
  /\ fetch' = [j \in Clients |-> IF j = k THEN Started
                                 ELSE IF j = active[c] THEN Answered("dropped")
                                 ELSE fetch[j]]
  /\ mapped' = mapped \cup sent
  /\ inflight' = inflight \cup sent
  /\ UNCHANGED <<connected, stored>>

-----------------------------------------------------------------------------
(* Content responses and failures. *)

\* The failure counted by a fetch that is trying peers.
CountFailure(f) ==
  IF f.failed + 1 >= f.total
  THEN State("QueryingDht", f.late)
  ELSE [f EXCEPT !.failed = @ + 1]

\* on_request_failure: the active fetch of the content counts the failure or
\* ends.  Nothing tells its requests from those of an earlier fetch.
RequestFailure(r) ==
  LET k == active[ContentOf(r)] IN
  /\ mapped' = mapped \ {r}
  /\ IF r \notin mapped \/ k = None
     THEN UNCHANGED <<active, fetch>>
     ELSE IF Phase(k) = "TryingPeers"
     THEN /\ fetch' = [fetch EXCEPT ![k] = CountFailure(@)]
          /\ UNCHANGED active
     ELSE /\ fetch' = [fetch EXCEPT ![k] = Answered("ProviderNotFound")]
          /\ active' = [active EXCEPT ![ContentOf(r)] = None]

\* Faulty: a success forgets the answered request only.
GoodResponse_NoCleanup(r) ==
  LET c == ContentOf(r)
      k == active[c]
  IN
  /\ r \in inflight
  /\ inflight' = inflight \ {r}
  /\ mapped' = mapped \ {r}
  /\ IF r \in mapped /\ k # None
     THEN /\ fetch' = [fetch EXCEPT ![k] = Answered("Ok")]
          /\ active' = [active EXCEPT ![c] = None]
          /\ stored' \in {stored, stored \cup {c}}
     ELSE UNCHANGED <<fetch, active, stored>>
  /\ UNCHANGED connected
\* Bytes that match the content id: the fetch succeeds, all requests for the
\* content are forgotten, and the bytes are cached unless that fails.
GoodResponse(r) ==
  LET c == ContentOf(r)
      k == active[c]
  IN
  /\ r \in inflight
  /\ inflight' = inflight \ {r}
  /\ IF r \in mapped /\ k # None
     THEN /\ fetch' = [fetch EXCEPT ![k] = Answered("Ok")]
          /\ active' = [active EXCEPT ![c] = None]
          /\ mapped' = mapped \ RequestsFor(c)
          /\ stored' \in {stored, stored \cup {c}}
     ELSE /\ mapped' = mapped \ {r}
          /\ UNCHANGED <<fetch, active, stored>>
  /\ UNCHANGED connected

\* Bytes that do not match the content id.
MismatchedResponse(r) ==
  /\ r \in inflight
  /\ inflight' = inflight \ {r}
  /\ RequestFailure(r)
  /\ UNCHANGED <<connected, stored>>

\* The peer does not hold the content: the fetch manager is not told.
EmptyResponse(r) ==
  /\ r \in inflight
  /\ inflight' = inflight \ {r}
  /\ UNCHANGED <<active, fetch, mapped, connected, stored>>

\* The request fails in the network.
OutboundFailure(r) ==
  /\ r \in inflight
  /\ inflight' = inflight \ {r}
  /\ RequestFailure(r)
  /\ UNCHANGED <<connected, stored>>

-----------------------------------------------------------------------------
(* Providers and connections. *)

\* The DHT names a provider of c: only the first one is taken.
ProviderDiscovered(c, p) ==
  LET k == active[c] IN
  /\ k # None
  /\ Phase(k) \in Awaiting
  /\ fetch' = [fetch EXCEPT ![k] =
                 [State("WaitingForProvider", @.late) EXCEPT
                    !.provider = p, !.settled = p \in connected]]
  /\ UNCHANGED <<active, mapped, inflight, connected, stored>>

PeerConnected(p) ==
  /\ p \notin connected
  /\ connected' = connected \cup {p}
  /\ fetch' = [k \in Clients |->
                 [fetch[k] EXCEPT !.settled =
                    @ \/ (Phase(k) = "WaitingForProvider" /\ fetch[k].provider = p)]]
  /\ UNCHANGED <<active, mapped, inflight, stored>>

PeerDisconnected(p) ==
  /\ p \in connected
  /\ connected' = connected \ {p}
  /\ UNCHANGED <<active, fetch, mapped, inflight, stored>>

-----------------------------------------------------------------------------
(* Time. *)

\* A live fetch gets older than fetch_timeout.
Age(k) ==
  /\ Phase(k) \in Live
  /\ ~fetch[k].late
  /\ fetch' = [fetch EXCEPT ![k].late = TRUE]
  /\ UNCHANGED <<active, mapped, inflight, connected, stored>>

\* Faulty: a fetch waiting for its provider does not time out.
TimedOut_SkipsWaiting ==
  {k \in Clients : Phase(k) \in Live \ {"WaitingForProvider"} /\ fetch[k].late}
\* check_timeouts: the fetches to end.
TimedOut == {k \in Clients : Phase(k) \in Live /\ fetch[k].late}
\* ready_to_request: those whose settle delay may be over.
Ready == {k \in Clients : Phase(k) = "WaitingForProvider" /\ fetch[k].settled} \ TimedOut

\* The state of a fetch after a tick that sends the requests of ready.
Ticked(k, ready) ==
  IF k \in TimedOut THEN Answered("Timeout")
  ELSE IF k \in ready THEN State("FetchingFromProvider", fetch[k].late)
  ELSE fetch[k]

\* The tick first ends the fetches that are too old, then sends the request
\* of those whose provider has been connected for the settle delay.
Tick ==
  \E ready \in SUBSET Ready :
    LET sent == ready \X {Provider} IN
    /\ TimedOut \cup ready # {}
    /\ fetch' = [k \in Clients |-> Ticked(k, ready)]
    /\ active' = [c \in Contents |-> IF active[c] \in TimedOut THEN None ELSE active[c]]
    /\ mapped' = (mapped \ {r \in Requests : active[ContentOf(r)] \in TimedOut}) \cup sent
    /\ inflight' = inflight \cup sent
    /\ UNCHANGED <<connected, stored>>

Next ==
  \/ \E k \in Clients : FetchLocally(k) \/ StartFetch(k) \/ Age(k)
  \/ \E r \in Requests : \/ GoodResponse(r) \/ MismatchedResponse(r)
                         \/ EmptyResponse(r) \/ OutboundFailure(r)
  \/ \E c \in Contents, p \in Peers : ProviderDiscovered(c, p)
  \/ \E p \in Peers : PeerConnected(p) \/ PeerDisconnected(p)
  \/ Tick

Spec == Init /\ [][Next]_vars

\* Time passes and the tick of the event loop comes round.
FairSpec == Spec /\ WF_vars(Tick) /\ \A k \in Clients : WF_vars(Age(k))

-----------------------------------------------------------------------------
\* The shape of the state.
TypeOK ==
  /\ active \in [Contents -> Clients \cup {None}]
  /\ fetch \in [Clients ->
                  [phase : {"idle"} \cup Live \cup Answers, late : BOOLEAN,
                   failed : Nat, total : Nat,
                   provider : Peers \cup {None}, settled : BOOLEAN]]
  /\ mapped \subseteq Requests
  /\ inflight \subseteq Requests
  /\ connected \subseteq Peers
  /\ stored \subseteq Contents

\* When a fetch succeeded or timed out, late answers to its requests are not
\* taken for those of a later fetch of the same content.
LateAnswersAreIgnored == \A r \in mapped : Phase(r[1]) \notin {"Ok", "Timeout"}

\* Every Fetch command is answered.
EveryFetchEnds == \A k \in Clients : Phase(k) \in Live ~> Phase(k) \in Answers
=============================================================================
