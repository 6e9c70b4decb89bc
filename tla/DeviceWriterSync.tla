-------------------------- MODULE DeviceWriterSync --------------------------
(***************************************************************************)
(* Synchronising the device-writer state of remote identities               *)
(* (jolt-network/src/node/resolution.rs, the DeviceWriterSync arms of       *)
(* node/events.rs): commands park waiters, one request at a time goes to a  *)
(* discovered provider, its response is verified on a blocking thread, and  *)
(* the completed verification is stored in the cache and answers the        *)
(* waiters.  Everything but the verification runs on the event loop, so     *)
(* every handler is one step.                                               *)
(*                                                                         *)
(* The state of an identity is abstracted to how much of its history is     *)
(* known, a number; what verifying a response adds to the history it started *)
(* from, and whether there is more to ask for, is seen when it completes.   *)
(* The version and cursor accounting is left out.                           *)
(***************************************************************************)
EXTENDS Integers, Sequences, FiniteSets, FiniteSetsExt

CONSTANTS
    Identities,      \* remote identities
    Providers,       \* peers that may serve them
    Reach,           \* Reach[i]: the providers discovery can find for i
    Clients,         \* Enumerate and RefreshMaterializedRecordView commands
    Wants,           \* Wants[c]: the identity the command is about
    Refresh,         \* the background refresh waiter (it has no response)
    None,
    MaxConcurrency,  \* of the work queue
    QueueCapacity,
    MaxLen,          \* bound: length of an identity's history
    Slots            \* bound: requests in flight

ASSUME SyncAssumption ==
    /\ IsFiniteSet(Identities)
    /\ Reach \in [Identities -> SUBSET Providers]
    /\ Wants \in [Clients -> Identities]
    /\ Refresh \notin Clients
    /\ None \notin Nat
    /\ MaxConcurrency \in Nat \ {0}
    /\ QueueCapacity \in Nat
    /\ MaxLen \in Nat
    /\ Slots \in Nat

VARIABLES
    up,        \* the event loop runs
    cache,     \* device_writer_states: the history known of an identity
    known,     \* discovered_providers
    client,    \* what a command was answered
    waiters,   \* pending_device_writer_waiters
    requests,  \* pending_device_writer_syncs
    queued,    \* device_writer_sync_work.queued
    active,    \* device_writer_sync_work.active, with the work being verified
    owner      \* device_writer_sync_work.by_identity

vars == <<up, cache, known, client, waiters, requests, queued, active, owner>>
work == <<queued, active, owner>>

Lengths == 0..MaxLen
Outcomes == {"Ready", "NetworkUnavailable", "VerificationFailed", "Overloaded", "ShuttingDown"}

\* An id is any id not in use: only equality matters, next_id wraps at 2^64.
WorkIds == 1..(MaxConcurrency + QueueCapacity + Cardinality(Identities))

\* current: no other state was stored for the identity since base was taken,
\* so Arc::ptr_eq(base, current) holds.  A work is timely, then late (its
\* deadline has passed), and settled once its waiters need not wait for it.
Requests == [slot : 1..Slots, identity : Identities, provider : Providers, late : BOOLEAN]
Works == [id : WorkIds, identity : Identities, provider : Providers, base : Lengths,
          current : BOOLEAN, phase : {"timely", "late", "settled"}]

\* The shape of the state and the limits of the work queue
\* (schedule_device_writer_sync_verification, start_queued_device_writer_sync_work).
TypeOK ==
    /\ up \in BOOLEAN
    /\ cache \in [Identities -> Lengths]
    /\ known \in [Identities -> SUBSET Providers]
    /\ client \in [Clients -> {"idle", "waiting", "gone"} \union Outcomes]
    /\ waiters \in [Identities -> SUBSET (Clients \union {Refresh})]
    /\ requests \subseteq Requests
    /\ active \subseteq Works
    /\ \A n \in DOMAIN queued : queued[n] \in Works
    /\ owner \in [Identities -> WorkIds \union {None}]
    /\ Cardinality(active) <= MaxConcurrency
    /\ Len(queued) <= QueueCapacity

Init ==
    /\ up = TRUE
    /\ cache = [i \in Identities |-> 0]
    /\ known = [i \in Identities |-> {}]
    /\ client = [c \in Clients |-> "idle"]
    /\ waiters = [i \in Identities |-> {}]
    /\ requests = {}
    /\ queued = <<>>
    /\ active = {}
    /\ owner = [i \in Identities |-> None]

----------------------------------------------------------------------------
(* Pieces of the handlers *)

Pending(i) == {r \in requests : r.identity = i}
QueuedWork == {queued[n] : n \in DOMAIN queued}
InFlight(i) == Pending(i) # {} \/ owner[i] # None

\* peek_discovered_update_log_provider_except; which of several is first in the
\* list is left open.
Peek(i, excluded) == known[i] \ {excluded}

FreeSlot(used) == CHOOSE s \in 1..Slots : \A r \in used : r.slot # s
Request(s, i, p) == [slot |-> s, identity |-> i, provider |-> p, late |-> FALSE]
Sent(used, i, p) == used \union {Request(FreeSlot(used), i, p)}

\* answer_device_writer_waiters_with_outcome for the identities of I, where
\* parked holds the waiters and asked what their clients know.
AnswerAll(I, parked, asked, outcome) ==
    /\ waiters' = [i \in Identities |-> IF i \in I THEN {} ELSE parked[i]]
    /\ client' = [c \in Clients |->
         IF Wants[c] \in I /\ c \in parked[Wants[c]] /\ asked[c] = "waiting"
         THEN outcome
         ELSE asked[c]]

Answer(i, outcome) == AnswerAll({i}, waiters, client, outcome)

\* on_device_writer_sync_settled after an error of provider p: try another
\* known provider with a fresh deadline, or answer the waiters.
OnSettled(i, p, rest, outcome) ==
    IF Peek(i, p) # {}
    THEN /\ \E q \in Peek(i, p) : requests' = Sent(rest, i, q)
         /\ UNCHANGED <<waiters, client>>
    ELSE requests' = rest /\ Answer(i, outcome)

----------------------------------------------------------------------------
(* Commands *)

\* begin_device_writer_sync.  Without a provider the waiter is parked when a
\* connected peer or a bootstrap relay may still find one; without these too,
\* everyone parked is answered.
Begin(i, waiter) ==
    LET parked == [waiters EXCEPT ![i] = @ \union {waiter}]
        asked == [c \in Clients |-> IF c = waiter THEN "waiting" ELSE client[c]]
        Park == waiters' = parked /\ client' = asked
    IN \/ /\ InFlight(i)
          /\ waiter # Refresh
          /\ Park
          /\ UNCHANGED requests
       \/ /\ ~InFlight(i)
          /\ known[i] = {}
          /\ Park \/ AnswerAll({i}, parked, asked, "NetworkUnavailable")
          /\ UNCHANGED requests
       \/ /\ ~InFlight(i)
          /\ Park
          /\ \E p \in known[i] : requests' = Sent(requests, i, p)

BeginCommand(c) ==
    /\ up
    /\ client[c] = "idle"
    /\ Begin(Wants[c], c)
    /\ UNCHANGED <<up, cache, known, work>>

\* The cooldown only delays this step.
BeginRefresh(i) ==
    /\ up
    /\ Begin(i, Refresh)
    /\ UNCHANGED <<up, cache, known, work>>

\* The client's own timeout: it drops its end of the response channel.
GiveUp(c) ==
    /\ client[c] = "waiting"
    /\ client' = [client EXCEPT ![c] = "gone"]
    /\ UNCHANGED <<up, cache, known, waiters, requests, work>>

\* shutdown_device_writer_sync_work, after which the event loop returns.
Shutdown ==
    /\ up
    /\ up' = FALSE
    /\ AnswerAll(Identities, waiters, client, "ShuttingDown")
    /\ requests' = {}
    /\ queued' = <<>>
    /\ owner' = [i \in Identities |-> None]
    /\ active' = {[w EXCEPT !.phase = "settled"] : w \in active}
    /\ UNCHANGED <<cache, known>>

----------------------------------------------------------------------------
(* Discovery *)

\* Faulty: a provider found for parked waiters is only recorded.
Discover_NoRequest(i, p) ==
    /\ up
    /\ p \in Reach[i]
    /\ known' = [known EXCEPT ![i] = @ \union {p}]
    /\ UNCHANGED <<up, cache, client, waiters, requests, work>>
\* A provider record from the DHT, or from a relay when it is new: parked
\* waiters start a request unless one is in flight.  A verification of the
\* same identity that is queued or running does not stop it.
Discover(i, p) ==
    /\ up
    /\ p \in Reach[i]
    /\ known' = [known EXCEPT ![i] = @ \union {p}]
    /\ requests' = IF waiters[i] # {} /\ Pending(i) = {}
                   THEN Sent(requests, i, p)
                   ELSE requests
    /\ UNCHANGED <<up, cache, client, waiters, work>>

\* The update-log resolve path takes a provider out of the shared pool.
TakeProvider(i, p) ==
    /\ up
    /\ p \in known[i]
    /\ known' = [known EXCEPT ![i] = @ \ {p}]
    /\ UNCHANGED <<up, cache, client, waiters, requests, work>>

----------------------------------------------------------------------------
(* Responses and their verification *)

FreeId == CHOOSE n \in WorkIds :
    /\ \A w \in active \union QueuedWork : w.id # n
    /\ \A i \in Identities : owner[i] # n

\* schedule_device_writer_sync_verification: run it, queue it, or answer the
\* waiters Overloaded.  The new work becomes the one of its identity.
Schedule(w) ==
    \/ /\ Cardinality(active) < MaxConcurrency
       /\ active' = active \union {w}
       /\ owner' = [owner EXCEPT ![w.identity] = w.id]
       /\ UNCHANGED <<queued, waiters, client>>
    \/ /\ Cardinality(active) >= MaxConcurrency
       /\ Len(queued) < QueueCapacity
       /\ queued' = Append(queued, w)
       /\ owner' = [owner EXCEPT ![w.identity] = w.id]
       /\ UNCHANGED <<active, waiters, client>>
    \/ /\ Cardinality(active) >= MaxConcurrency
       /\ Len(queued) >= QueueCapacity
       /\ Answer(w.identity, "Overloaded")
       /\ UNCHANGED <<active, queued, owner>>

Response(r) ==
    /\ up
    /\ r \in requests
    /\ requests' = requests \ {r}
    /\ Schedule([id |-> FreeId, identity |-> r.identity, provider |-> r.provider,
                 base |-> cache[r.identity], current |-> TRUE,
                 phase |-> IF r.late THEN "late" ELSE "timely"])
    /\ UNCHANGED <<up, cache, known>>

\* An unsupported version or a response without authority records.
BadResponse(r) ==
    /\ up
    /\ r \in requests
    /\ OnSettled(r.identity, r.provider, requests \ {r}, "VerificationFailed")
    /\ UNCHANGED <<up, cache, known, work>>

RequestFailure(r) ==
    /\ up
    /\ r \in requests
    /\ OnSettled(r.identity, r.provider, requests \ {r}, "NetworkUnavailable")
    /\ UNCHANGED <<up, cache, known, work>>

\* start_queued_device_writer_sync_work when the works of rest are running.
Started(rest) ==
    LET room == Min({Len(queued), MaxConcurrency - Cardinality(rest)}) IN
    [active |-> rest \union {queued[n] : n \in 1..room},
     queued |-> SubSeq(queued, room + 1, Len(queued))]

\* The works as they are once a state was stored for i.
Outdated(i, w) == IF w.identity = i THEN [w EXCEPT !.current = FALSE] ELSE w

\* Faulty: whatever was verified is stored, even from an outdated base.
Store_Unchecked(w, n) == cache' = [cache EXCEPT ![w.identity] = n]
\* The verified state replaces the one it was computed from, and only that.
Store(w, n) == cache' = IF w.current THEN [cache EXCEPT ![w.identity] = n] ELSE cache

\* The running works and the queue after w completed.  Storing its state
\* outdates the other works of the identity.
Finish(w, stored) ==
    LET s == Started(active \ {w})
        Seen(v) == IF stored THEN Outdated(w.identity, v) ELSE v
    IN /\ active' = {Seen(v) : v \in s.active}
       /\ queued' = [n \in DOMAIN s.queued |-> Seen(s.queued[n])]

\* handle_device_writer_sync_completion of a verification that succeeded with
\* history n.  More of it is asked for before the deadline, which is looked at
\* twice: what remains timely at the first look may be late at the second.
CompleteOk(w, n) ==
    LET i == w.identity
        owns == owner[i] = w.id
    IN /\ up
       /\ w \in active
       /\ n >= w.base
       /\ owner' = IF owns THEN [owner EXCEPT ![i] = None] ELSE owner
       /\ Store(w, n)
       /\ Finish(w, w.current)
       /\ \/ /\ w.current /\ owns /\ w.phase = "timely"
             /\ requests' = Sent(requests, i, w.provider)
             /\ UNCHANGED <<waiters, client>>
          \/ /\ owns
             /\ UNCHANGED requests
             /\ Answer(i, IF w.phase = "late" THEN "NetworkUnavailable" ELSE "Ready")
          \/ /\ ~owns
             /\ UNCHANGED <<requests, waiters, client>>
       /\ UNCHANGED <<up, known>>

\* Faulty: waiters that joined after the deadline are not answered.
CompleteErr_Settled(w) ==
    LET i == w.identity
        owns == owner[i] = w.id
    IN /\ up
       /\ w \in active
       /\ owner' = IF owns THEN [owner EXCEPT ![i] = None] ELSE owner
       /\ Finish(w, FALSE)
       /\ IF owns /\ w.phase = "timely"
          THEN OnSettled(i, w.provider, requests, "VerificationFailed")
          ELSE UNCHANGED <<requests, waiters, client>>
       /\ UNCHANGED <<up, cache, known>>
\* ... and of one that failed.  When the deadline has just passed the waiters
\* are answered first, and then there is nobody to try another provider for.
CompleteErr(w) ==
    LET i == w.identity
        owns == owner[i] = w.id
    IN /\ up
       /\ w \in active
       /\ owner' = IF owns THEN [owner EXCEPT ![i] = None] ELSE owner
       /\ Finish(w, FALSE)
       /\ \/ /\ owns /\ w.phase = "late"
             /\ Answer(i, "NetworkUnavailable")
             /\ UNCHANGED requests
          \/ /\ owns /\ (w.phase = "timely" \/ (w.phase = "settled" /\ waiters[i] # {}))
             /\ OnSettled(i, w.provider, requests, "VerificationFailed")
          \/ /\ ~owns \/ (w.phase = "settled" /\ waiters[i] = {})
             /\ UNCHANGED <<requests, waiters, client>>
       /\ UNCHANGED <<up, cache, known>>

----------------------------------------------------------------------------
(* Time *)

\* Deadlines pass: a continuation keeps the one of its first request.
Expire(i) ==
    \E R \in SUBSET {r \in Pending(i) : ~r.late},
       W \in SUBSET {w \in active \union QueuedWork : w.identity = i /\ w.phase = "timely"} :
        LET Aged(w) == IF w \in W THEN [w EXCEPT !.phase = "late"] ELSE w IN
        /\ up
        /\ R \union W # {}
        /\ requests' = (requests \ R) \union {[r EXCEPT !.late = TRUE] : r \in R}
        /\ active' = {Aged(w) : w \in active}
        /\ queued' = [n \in DOMAIN queued |-> Aged(queued[n])]
        /\ UNCHANGED <<up, cache, known, client, waiters, owner>>

\* The queue s without the works of gone, in the same order (queued.retain).
Without(s, gone) ==
    LET kept == {n \in DOMAIN s : s[n] \notin gone}
        Place(n) == Cardinality({m \in kept : m <= n})
    IN [k \in 1..Cardinality(kept) |-> s[CHOOSE n \in kept : Place(n) = k]]

Due(w) == w.phase = "late"
Settled(w) == IF Due(w) THEN [w EXCEPT !.phase = "settled"] ELSE w

\* check_device_writer_sync_timeouts.  In turn: late requests go to another
\* provider or answer their waiters; late works answer theirs; waiters whose
\* client is gone are dropped, and an identity left without any is cancelled.
Tick ==
    LET late == {r \in requests : r.late}
        ended == {r.identity : r \in {q \in late : Peek(q.identity, q.provider) = {}}}
                 \union {w.identity : w \in {v \in active \union QueuedWork : Due(v)}}
        left == [i \in Identities |-> IF i \in ended THEN {} ELSE waiters[i]]
        kept == [i \in Identities |-> {x \in left[i] : x = Refresh \/ client[x] # "gone"}]
        cancelled == {i \in Identities : left[i] # {} /\ kept[i] = {}}
        retried == {r \in late : Peek(r.identity, r.provider) # {}}
    IN \E next \in [retried -> Providers] :
        /\ up
        /\ \A r \in retried : next[r] \in Peek(r.identity, r.provider)
        /\ requests' = {r \in (requests \ late) \union {Request(q.slot, q.identity, next[q]) : q \in retried} :
                            r.identity \notin cancelled}
        /\ client' = [c \in Clients |->
             IF Wants[c] \in ended /\ c \in waiters[Wants[c]] /\ client[c] = "waiting"
             THEN "NetworkUnavailable" ELSE client[c]]
        /\ waiters' = kept
        /\ LET Cancelled(w) == w.identity \in cancelled /\ owner[w.identity] = w.id
               Checked(w) == IF Cancelled(w) THEN [w EXCEPT !.phase = "settled"] ELSE Settled(w)
           IN /\ active' = {Checked(w) : w \in active}
              /\ LET q == Without(queued, {w \in QueuedWork : Cancelled(w)})
                 IN queued' = [n \in DOMAIN q |-> Settled(q[n])]
        /\ owner' = [i \in Identities |-> IF i \in cancelled THEN None ELSE owner[i]]
        /\ UNCHANGED <<up, cache, known>>

Next ==
    \/ \E c \in Clients : BeginCommand(c) \/ GiveUp(c)
    \/ \E i \in Identities :
        \/ BeginRefresh(i)
        \/ Expire(i)
        \/ \E p \in Providers : Discover(i, p) \/ TakeProvider(i, p)
    \/ \E r \in requests : Response(r) \/ BadResponse(r) \/ RequestFailure(r)
    \/ \E w \in active : CompleteErr(w) \/ \E n \in Lengths : CompleteOk(w, n)
    \/ Tick
    \/ Shutdown

Spec == Init /\ [][Next]_vars

\* The one second tick comes round, deadlines pass and verifications end.
SyncFairness ==
    /\ WF_vars(Tick)
    /\ \A i \in Identities : WF_vars(Expire(i))
    /\ \A n \in WorkIds :
        WF_vars(\E w \in active : w.id = n /\ (CompleteErr(w) \/ \E m \in Lengths : CompleteOk(w, m)))

----------------------------------------------------------------------------
(* Properties *)

\* No waiter is left to chance: once a provider of its identity is known, a
\* request is in flight or a verification is queued or running, whose end will
\* find the waiter (begin_device_writer_sync, on_device_writer_sync_settled and
\* the completion handler, in every order of their events).
WaitersAreOwned ==
    \A i \in Identities : waiters[i] # {} /\ known[i] # {} => InFlight(i)

\* Verifications finish in any order and never take known history back
\* (the snapshot check of the completion handler).
CacheNeverRegresses == [][\A i \in Identities : cache'[i] >= cache[i]]_vars

\* A command whose sync is under way is answered, with no help from the
\* client's timeout, once discovery has nothing new to tell, unless a second
\* provider of the identity is known (deadlines, check_device_writer_sync_timeouts
\* and the completion handler).
SyncSettles ==
    <>[][\A i \in Identities, p \in Providers : ~Discover(i, p)]_vars =>
        \A c \in Clients : LET i == Wants[c] IN
            client[c] = "waiting" /\ InFlight(i) ~> client[c] # "waiting" \/ Cardinality(known[i]) > 1

=============================================================================
