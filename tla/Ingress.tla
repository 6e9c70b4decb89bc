------------------------------ MODULE Ingress ------------------------------
(***************************************************************************)
(* Delivery of an ingress envelope from a sending daemon to the recipient's *)
(* daemon, and the recipient-controlled queue that keeps it for review      *)
(* (jolt-network/src/node.rs, node/ingress.rs, the /jolt/ingress/1.0.0      *)
(* arms of node/events.rs).                                                 *)
(*                                                                         *)
(* An envelope stands for its bytes, so it is also its ingress_id (a hash   *)
(* of the bytes).  The sender re-sends after a transport failure, and the   *)
(* failure may hide a request that was, or still will be, handled: a copy   *)
(* of the envelope can reach the queue once per attempt.  Before it sends,  *)
(* the sender resolves the recipient's reachability record (Reachability).  *)
(***************************************************************************)
EXTENDS Sequences, FiniteSets, Reachability

CONSTANTS
    Envelopes,      \* the envelopes in play
    Remote,         \* those a sender delivers; the others come by the local API
    Addressed,      \* those that verify and name the recipient's identity
    Expiry,         \* expires_at of an envelope, or Never
    Never,
    Retries,        \* INGRESS_SUBMIT_RETRIES
    MaxPersisted,   \* MAX_PERSISTED_INGRESS_RECORDS
    Bounds          \* [time, retries, local, saves, faults]: bounds on the clock,
                    \* retries, local submissions, failed writes and disturbances
                    \* of the record

ASSUME IngressAssumption ==
    /\ Remote \subseteq Envelopes
    /\ Addressed \subseteq Envelopes
    /\ Expiry \in [Envelopes -> Nat \union {Never}]
    /\ Retries \in Nat
    /\ MaxPersisted \in Nat \ {0}

VARIABLES
    delivery,   \* the sender's PendingIngressSubmit of an envelope
    requests,   \* requests on their way, <<envelope, attempts left>>
    responses,  \* responses on their way, [to |-> request, ok |-> BOOLEAN]
    queue,      \* IngressQueue.records
    disk,       \* ingress_queue.json
    stale,      \* whether the last write of the file failed
    local,      \* local submissions so far
    failed,     \* failed writes so far
    faults,     \* disturbances of the reachability record so far
    bound       \* the bounds of this behaviour

queueVars == <<queue, disk, stale, local, failed>>
exchangeVars == <<delivery, requests, responses>>
vars == <<clock, reachabilityVars, exchangeVars, queueVars, faults, bound>>

Statuses == {"pending", "accepted", "rejected"}
Decisions == {"accepted", "rejected"}
Requests == Envelopes \X (0..Retries)
Records == [env : Envelopes, status : Statuses, received : Nat]
Outcomes == {"queued", "refused", "undelivered", "failed", "expired", "no_receiver"}
Underway == {"resolving", "expired_once", "refreshed", "not_refreshed", "inflight"}
Deliveries == [phase : {"idle"} \union Underway \union Outcomes, left : 0..Retries]

Copies(q, e) == {i \in DOMAIN q : q[i].env = e}

\* The shape of the state; the file never exceeds its cap (to_persisted).
TypeOK ==
    /\ clock \in Nat
    /\ delivery \in [Envelopes -> Deliveries]
    /\ requests \subseteq Requests
    /\ responses \subseteq [to : Requests, ok : BOOLEAN]
    /\ \A q \in {queue, disk} : \A i \in DOMAIN q : q[i] \in Records
    /\ Len(disk) <= MaxPersisted
    /\ stale \in BOOLEAN

\* The recipient's record is fresh, or it was never published.
Init ==
    /\ clock = 0
    /\ bound \in Bounds
    /\ \/ record = NewRecord(0, TTL, TRUE) /\ known = record /\ schedule = TTL /\ nextCheck = 1
       \/ record = NoRecord /\ known = record /\ schedule = Unpublished /\ nextCheck = 0
    /\ excuses = {}
    /\ delivery = [e \in Envelopes |-> [phase |-> "idle", left |-> bound.retries]]
    /\ requests = {}
    /\ responses = {}
    /\ queue = <<>>
    /\ disk = <<>>
    /\ stale = FALSE
    /\ local = 0
    /\ failed = 0
    /\ faults = 0

----------------------------------------------------------------------------
(* The queue and its file *)

Live(e) == Expiry[e] = Never \/ Expiry[e] > clock

\* Faulty: oldest first, so the cap drops the newest arrivals.
Rank_OldestFirst(q, i) ==
    1 + Cardinality({j \in DOMAIN q : \/ q[j].received < q[i].received
                                      \/ q[j].received = q[i].received /\ j < i})

\* Where a record stands newest first; the sort is stable.
Rank(q, i) ==
    1 + Cardinality({j \in DOMAIN q : \/ q[j].received > q[i].received
                                      \/ q[j].received = q[i].received /\ j < i})

\* What the file holds: the newest MaxPersisted records, newest first.
to_persisted(q) ==
    [n \in {m \in DOMAIN q : m <= MaxPersisted} |->
        q[CHOOSE i \in DOMAIN q : Rank(q, i) = n]]

\* What the queue starts from: the records of the file that have not expired.
from_persisted(file) ==
    LET kept[n \in 0..Len(file)] ==
            IF n = 0 THEN <<>>
            ELSE IF Live(file[n].env) THEN Append(kept[n - 1], file[n])
            ELSE kept[n - 1]
    IN  kept[Len(file)]

\* The write goes through a temporary file and a rename, so it happens or it
\* does not; when it does not the caller carries on.
persist_ingress_queue ==
    \/ /\ disk' = to_persisted(queue')
       /\ stale' = FALSE
       /\ UNCHANGED failed
    \/ /\ failed < bound.saves
       /\ failed' = failed + 1
       /\ stale' = TRUE
       /\ UNCHANGED disk

\* Faulty: any copy of the envelope is as good as the first.
decide_AnyCopy(e, status) ==
    \E i \in Copies(queue, e) :
        /\ queue[i].status # status
        /\ queue' = [queue EXCEPT ![i].status = status]
        /\ persist_ingress_queue

\* accept_ingress and reject_ingress: the first record with the id is the one
\* decided.  Deciding the same way again succeeds and saves again; deciding
\* the other way is an error and changes nothing.
decide(e, status) ==
    \E i \in Copies(queue, e) :
        /\ \A j \in Copies(queue, e) : i <= j
        /\ queue[i].status \in {"pending", status}
        /\ queue' = [queue EXCEPT ![i].status = status]
        /\ persist_ingress_queue

Decide(e, status) ==
    /\ decide(e, status)
    /\ UNCHANGED <<clock, reachabilityVars, exchangeVars, local, faults, bound>>

\* submit_ingress queues a copy whether or not the envelope is queued already.
Accepts(e) == e \in Addressed /\ Live(e)

submit_ingress(e) ==
    IF Accepts(e)
    THEN /\ queue' = Append(queue, [env |-> e, status |-> "pending", received |-> clock])
         /\ persist_ingress_queue
    ELSE UNCHANGED <<queue, disk, stale, failed>>

SubmitLocally(e) ==
    /\ e \notin Remote
    /\ local < bound.local
    /\ local' = local + 1
    /\ submit_ingress(e)
    /\ UNCHANGED <<clock, reachabilityVars, exchangeVars, faults, bound>>

\* The recipient's daemon stops and starts again from its file; its
\* connections close, and what was on its way is lost.  A stop between the push
\* and the rename is this step taken before the request is handled.
Restart ==
    /\ queue' = from_persisted(disk)
    /\ stale' = FALSE
    /\ requests' = {}
    /\ responses' = {}
    /\ RenewalStartsOver
    /\ UNCHANGED <<clock, delivery, disk, local, failed, faults, bound>>

\* A sender between its refresh and its second resolve takes no time.
Tick ==
    /\ clock < bound.time
    /\ \A e \in Envelopes : delivery[e].phase # "refreshed"
    /\ PassTime
    /\ UNCHANGED <<exchangeVars, queueVars, faults, bound>>

RecipientRenews == Renew /\ UNCHANGED <<exchangeVars, queueVars, faults, bound>>

Disturbance ==
    /\ faults < bound.faults /\ faults' = faults + 1
    /\ \/ clock + 2 <= bound.time /\ (\A e \in Envelopes : delivery[e].phase # "refreshed") /\ Sleep
       \/ RenewFails
       \/ \E expires \in {clock + 1, clock + TTL}, usable \in BOOLEAN : PublishByHand(expires, usable)
    /\ UNCHANGED <<exchangeVars, queueVars, bound>>

----------------------------------------------------------------------------
(* The sender and the exchange *)

Current(e) == <<e, delivery[e].left>>

Moves(e, phase) == delivery' = [delivery EXCEPT ![e].phase = phase]

send_ingress_by_identity(e) ==
    /\ e \in Remote
    /\ delivery[e].phase = "idle"
    /\ Moves(e, "resolving")
    /\ UNCHANGED <<clock, reachabilityVars, requests, responses, queueVars, faults, bound>>

\* send_ingress_to_peer, once the record names a receiver.
send_ingress_to_peer(e) ==
    IF HasReceiver(Resolved)
    THEN Moves(e, "inflight") /\ requests' = requests \union {Current(e)}
    ELSE Moves(e, "no_receiver") /\ UNCHANGED requests

\* resolve_with_bounded_refresh: only an expired record is refreshed, once.
Resolve(e) ==
    /\ delivery[e].phase \in {"resolving", "refreshed", "not_refreshed"}
    /\ known' = Resolved
    /\ IF Attempt = "ready" THEN send_ingress_to_peer(e)
       ELSE /\ UNCHANGED requests
            /\ Moves(e, IF Attempt = "expired" /\ delivery[e].phase = "resolving"
                        THEN "expired_once" ELSE Attempt)
    /\ UNCHANGED <<clock, schedule, nextCheck, record, excuses, responses, queueVars, faults, bound>>

\* refresh_materialized_record_view; its failure is only logged.
Refresh(e) ==
    /\ delivery[e].phase = "expired_once"
    /\ \/ CatchUp /\ Moves(e, "refreshed") /\ UNCHANGED faults
       \/ /\ faults < bound.faults /\ faults' = faults + 1
          /\ Moves(e, "not_refreshed") /\ UNCHANGED <<clock, reachabilityVars>>
    /\ UNCHANGED <<requests, responses, queueVars, bound>>

BackgroundRefresh == CatchUp /\ UNCHANGED <<exchangeVars, queueVars, faults, bound>>

\* The recipient handles a request, even one the sender has given up on.  A
\* response no request waits for any more is dropped by the transport.
ReceiveRequest(r) ==
    /\ r \in requests
    /\ requests' = requests \ {r}
    /\ submit_ingress(r[1])
    /\ responses' = IF Current(r[1]) = r /\ delivery[r[1]].phase = "inflight"
                    THEN responses \union {[to |-> r, ok |-> Accepts(r[1])]}
                    ELSE responses
    /\ UNCHANGED <<clock, reachabilityVars, delivery, local, faults, bound>>

ReceiveResponse(e) ==
    /\ delivery[e].phase = "inflight"
    /\ \E m \in responses :
        /\ m.to = Current(e)
        /\ responses' = responses \ {m}
        /\ delivery' = [delivery EXCEPT ![e].phase = IF m.ok THEN "queued" ELSE "refused"]
    /\ UNCHANGED <<clock, reachabilityVars, requests, queueVars, faults, bound>>

\* Faulty: the retry does not count against attempts_left.
OutboundFailure_Uncounted(e) ==
    /\ delivery[e].phase = "inflight"
    /\ responses' = {m \in responses : m.to # Current(e)}
    /\ requests' = requests \union {Current(e)}
    /\ UNCHANGED delivery
    /\ UNCHANGED <<clock, reachabilityVars, queueVars, faults, bound>>

\* A transport failure is retried while attempts are left; a peer that does
\* not speak the protocol fails the delivery at once.
OutboundFailure(e) ==
    /\ delivery[e].phase = "inflight"
    /\ responses' = {m \in responses : m.to # Current(e)}
    /\ \/ /\ delivery[e].left > 0
          /\ delivery' = [delivery EXCEPT ![e].left = @ - 1]
          /\ requests' = requests \union {<<e, delivery[e].left - 1>>}
       \/ /\ delivery' = [delivery EXCEPT ![e].phase = "undelivered"]
          /\ UNCHANGED requests
    /\ UNCHANGED <<clock, reachabilityVars, queueVars, faults, bound>>

Next ==
    \/ \E e \in Envelopes :
        \/ send_ingress_by_identity(e)
        \/ Resolve(e)
        \/ Refresh(e)
        \/ ReceiveResponse(e)
        \/ OutboundFailure(e)
        \/ SubmitLocally(e)
        \/ \E status \in Decisions : Decide(e, status)
    \/ \E r \in Requests : ReceiveRequest(r)
    \/ Restart
    \/ Tick
    \/ RecipientRenews
    \/ Disturbance
    \/ BackgroundRefresh

Spec == Init /\ [][Next]_vars

\* The transport answers every request or reports its failure (it has a
\* request timeout), and so do a resolve and a refresh; nothing else is promised.
FairSpec ==
    /\ Spec
    /\ \A e \in Envelopes :
         WF_vars(Resolve(e) \/ Refresh(e) \/ ReceiveResponse(e) \/ OutboundFailure(e))

----------------------------------------------------------------------------
(* Properties *)

First(q, e) == q[CHOOSE i \in Copies(q, e) : \A j \in Copies(q, e) : i <= j]

\* While the daemon runs, the decision taken on an envelope stays: later
\* arrivals of the same envelope queue behind the decided record, which is the
\* one every later decision finds (decide, find_mut and push in ingress.rs).
DecisionStandsWhileUp ==
    [][Restart \/ \A e \in Envelopes :
         LET was == First(queue, e) IN
         Copies(queue, e) # {} /\ was.status # "pending" => First(queue', e) = was]_vars

\* What a restart can lose: only expired records, records with MaxPersisted
\* arrivals at least as recent, and changes whose write failed.  Every other
\* record comes back with the status it had (to_persisted and from_persisted,
\* with the saves in submit_ingress, accept_ingress and reject_ingress).
RestartKeepsTheQueue ==
    [][Restart /\ ~stale =>
         \A i \in DOMAIN queue :
            LET noOlder == {j \in DOMAIN queue \ {i} : queue[j].received >= queue[i].received} IN
            Live(queue[i].env) /\ Cardinality(noOlder) < MaxPersisted
              => \E j \in DOMAIN queue' : queue'[j] = queue[i]]_vars

\* A sender is told that the recipient's record has expired only for a reason
\* outside the two schedules: the refresh failed, the recipient slept through
\* its checks or could not publish, the record was published by hand, or it has
\* been replaced since the refresh, which a record still good then is not.  While
\* checks run on time, renewal at half of the lifetime and the one bounded
\* refresh leave no window (is_due, resolve_with_bounded_refresh).
ExpiryHasAReason ==
    [][\A e \in Envelopes :
         delivery[e].phase # "expired" /\ delivery'[e].phase = "expired"
           => \/ delivery[e].phase = "not_refreshed"
              \/ excuses # {}
              \/ known # record]_vars

\* Every delivery is eventually answered: resolved or not, queued, refused or
\* undelivered, whatever is lost and however often the recipient restarts.
DeliveryIsAnswered ==
    \A e \in Envelopes : delivery[e].phase \in Underway ~> delivery[e].phase \in Outcomes
============================================================================
