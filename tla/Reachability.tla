------------------------------ MODULE Reachability ------------------------------
(***************************************************************************)
(* The signed record by which senders find the peer that takes ingress for *)
(* an identity: its renewal by the recipient's daemon, and its resolution  *)
(* by a sender, who answers from a cache and refreshes once.               *)
(*   jolt-node/src/reachability_renewal.rs, commands/start.rs              *)
(*   jolt-core/src/reachability.rs                                         *)
(*   jolt-network/src/node/publishing.rs, routes/reachability.rs           *)
(*   jolt-server/src/routes/ingress.rs (the resolving half)                *)
(* There is one recipient.  A record is when it was issued, when it ends   *)
(* and whether it names a live receiver a sender can use; that its owner   *)
(* signed it is part of being a record.  Time is counted in renewal        *)
(* checks, and the awaits of a sender are short against one.               *)
(***************************************************************************)
EXTENDS Integers, Signing

CONSTANTS Recipient,   \* the identity, and its key
          TTL,         \* REACHABILITY_TTL_SECS, in renewal checks
          NoRecord,    \* nothing at SIGNED_REACHABILITY_PATH
          Unpublished  \* published_expires_at: None

\* A record outlives two checks (24 h and a minute in the code).
ASSUME ReachabilityAssumption == TTL \in Nat /\ TTL >= 2 /\ Unpublished \notin Nat

VARIABLES clock,      \* unix_now() everywhere
          schedule,   \* RenewalSchedule.published_expires_at
          nextCheck,  \* when the ticker fires
          record,     \* the record at the recipient's path
          known,      \* the record the sender's daemon resolves to
          excuses     \* history: what has come between record and schedule

reachabilityVars == <<schedule, nextCheck, record, known, excuses>>

----------------------------------------------------------------------------
\* Records.

\* ReachabilityRecord::new signs what it is given, once it is valid.
NewRecord(now, expires, usable) ==
  LET body == [identity |-> Recipient, issued |-> now, expires |-> expires, usable |-> usable]
  IN [body |-> body, signature |-> Sign(Recipient, body)]

\* validate_body: the owner is the identity, and the lifetime is not empty.
validate_body(body) == body.identity = Recipient /\ body.expires > body.issued

Expired(r) == r.body.expires <= clock

\* verify_reachability_record_for_identity.
Verified(r) ==
  validate_body(r.body) /\ ~Expired(r) /\ verify(Recipient, r.body, r.signature)

\* resolve_live_ingress_peer: an endpoint that speaks the protocol and takes
\* an object of this size.
HasReceiver(r) == r.body.usable

----------------------------------------------------------------------------
\* The recipient's daemon.

expires_at_for(now) == now + TTL

\* Faulty: the record is renewed one check late.
is_due_Late(now) == IF schedule = Unpublished THEN TRUE ELSE now + (TTL \div 2) > schedule

\* Half of the lifetime is left for retries.
is_due(now) == IF schedule = Unpublished THEN TRUE ELSE now + (TTL \div 2) >= schedule

\* publish_reachability: the record goes to its path.
publish_reachability(expires, usable) ==
  /\ validate_body(NewRecord(clock, expires, usable).body)
  /\ record' = NewRecord(clock, expires, usable)

\* renew_if_due, when the ticker fires; a failure leaves the schedule alone.
Renew ==
  /\ nextCheck <= clock /\ nextCheck' = clock + 1
  /\ UNCHANGED <<clock, known>>
  /\ IF is_due(clock)
     THEN /\ publish_reachability(expires_at_for(clock), TRUE)
          /\ schedule' = expires_at_for(clock) /\ excuses' = {}
     ELSE UNCHANGED <<schedule, record>> /\ excuses' = excuses \ {"asleep"}

RenewFails ==
  /\ nextCheck <= clock /\ nextCheck' = clock + 1 /\ is_due(clock)
  /\ excuses' = excuses \cup {"failed"}
  /\ UNCHANGED <<clock, schedule, record, known>>

\* publish_local_reachability: whatever the caller asks for; the schedule
\* does not learn of it.
PublishByHand(expires, usable) ==
  /\ publish_reachability(expires, usable)
  /\ excuses' = excuses \cup {"by_hand"}
  /\ UNCHANGED <<clock, schedule, nextCheck, known>>

\* keep_direct_ingress_reachability_published starts over, and checks at once.
RenewalStartsOver ==
  schedule' = Unpublished /\ nextCheck' = clock /\ UNCHANGED <<record, known, excuses>>

\* Time passes and the ticker keeps up with it.
PassTime == nextCheck > clock /\ clock' = clock + 1 /\ UNCHANGED reachabilityVars

\* The recipient's machine sleeps, or its daemon is down, for two checks.
Sleep ==
  /\ clock' = clock + 2 /\ excuses' = excuses \cup {"asleep"}
  /\ UNCHANGED <<schedule, nextCheck, record, known>>

----------------------------------------------------------------------------
\* The sender's daemon.

\* A resolve answers from the cache, and asks the network only without one.
Resolved == IF known # NoRecord THEN known ELSE record

\* The background refresh of the resolver.
CatchUp == record # NoRecord /\ known' = record /\ UNCHANGED <<clock, schedule, nextCheck, record, excuses>>

\* resolve_verified_reachability: how a resolve ends.
Attempt ==
  IF Resolved = NoRecord THEN "failed"
  ELSE IF Verified(Resolved) THEN "ready"
  ELSE IF validate_body(Resolved.body) THEN "expired" ELSE "failed"
=============================================================================
