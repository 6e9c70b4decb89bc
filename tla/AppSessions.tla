---------------------------- MODULE AppSessions ----------------------------
(***************************************************************************)
(* App sessions: an app asks, the user grants or refuses, the app uses its *)
(* token, the session expires or is revoked, alone or with its device.     *)
(* jolt-server/src/session_store.rs holds the requests, the sessions and   *)
(* their subscriptions in one state behind one lock, and rewrites one file *)
(* with all of it after every change; routes/app_sessions.rs, app_access.rs*)
(* and device_authority.rs are the user's side, routes/app_api.rs and      *)
(* ingress.rs the app's.                                                   *)
(*                                                                         *)
(* The file is rewritten in place.  A save that does not succeed leaves it *)
(* as it was or cut short; the change stays in memory and the caller is    *)
(* told of an error, or the process dies in the save.  A file that was cut *)
(* short cannot be parsed, and the daemon does not start on it.  An app's  *)
(* call authenticates under the lock and does its work after it: two       *)
(* steps, and anything in between.                                         *)
(***************************************************************************)
EXTENDS AppCapabilities, FiniteSets

CONSTANTS Requests,     \* request ids, in no order
          Daemon,       \* the identity the daemon signs with
          Asks,         \* what apps ask for: sets of capabilities
          Approvals,    \* what the user picks from it; {} takes all that was asked
          Paths,        \* paths the apps name
          MaxSubs,      \* AppSessionStore::max_data_subscriptions
          MaxFaults,    \* bound: saves that do not succeed
          None

ASSUME DaemonAssumption == Daemon \in Identities
ASSUME BoundsAssumption == MaxSubs \in Nat /\ MaxFaults \in Nat

\* Paths are sequences of segments, and scopes are what parsing leaves.
ASSUME CapabilitiesAssumption ==
    /\ Paths \subseteq Seq(STRING)
    /\ \A c \in UNION (Asks \union Approvals) :
          c.kind \in PathKinds \union {"enumerate", "subscribe"} =>
              c.scope \in [at : Seq(STRING), below : BOOLEAN]

VARIABLES mem,       \* AppSessionState: records by request, and data subscriptions
          file,      \* the state as last saved
          torn,      \* a later save cut the file short: what it held cannot be read
          up,        \* the daemon runs; while it does not, mem is what a start would read
          issued,    \* AppSessionStore::issued_tokens, by request
          late,      \* sessions whose expires_at has passed
          call,      \* an app's call past its checks, or None
          held,      \* auxiliary: apps that were given their token
          acked,     \* auxiliary: sessions whose revocation was acknowledged
          faults

vars == <<mem, file, torn, up, issued, late, call, held, acked, faults>>

NoRecord == [status |-> "none", asked |-> {}, caps |-> {}, identity |-> None]
Subscriptions == [session : Requests, of : Identities, prefix : Paths]

Init == /\ mem = [recs |-> [r \in Requests |-> NoRecord], subs |-> {}]
        /\ file = mem
        /\ torn = FALSE
        /\ up = TRUE
        /\ issued = {}
        /\ late = {}
        /\ call = None
        /\ held = {}
        /\ acked = {}
        /\ faults = 0

Fault == faults < MaxFaults /\ faults' = faults + 1

\* save_state after the state became m: std::fs::write truncates the file and
\* writes all of m.
Saved(m) == mem' = m /\ file' = m /\ torn' = FALSE /\ UNCHANGED <<up, faults>>

\* It returns an error before the file is opened or after it was truncated ...
ReturnsError(m) ==
    /\ mem' = m
    /\ torn' \in {torn, TRUE}
    /\ UNCHANGED <<file, up>>

\* ... or the process dies in it: with the file truncated, or with m written and
\* nobody told.
DiesSaving(m) ==
    /\ up' = FALSE
    /\ \/ file' = file /\ torn' = TRUE
       \/ file' = m /\ torn' = FALSE
    /\ mem' = file'

SaveFails(m) == Fault /\ (ReturnsError(m) \/ DiesSaving(m))

WithStatus(m, S, status) ==
    [m EXCEPT !.recs = [r \in Requests |->
                           IF r \in S THEN [m.recs[r] EXCEPT !.status = status] ELSE m.recs[r]],
              !.subs = {s \in m.subs : s.session \notin S}]

(***************************************************************************)
(* The request and its decision                                            *)
(***************************************************************************)
RequestSession(r, asked) ==
    /\ mem.recs[r] = NoRecord
    /\ LET m == [mem EXCEPT !.recs[r] = [NoRecord EXCEPT !.status = "pending", !.asked = asked]]
       IN  Saved(m) \/ SaveFails(m)
    /\ UNCHANGED <<issued, late, call, held, acked>>

Grantable(caps, asked) == {c \in caps : /\ is_grantable_app_capability(c)
                                        /\ capability_was_requested(c, asked)}

\* Faulty: a request that was decided is decided again.
Granted_Decided(r, caps, identity) ==
    /\ mem.recs[r] # NoRecord
    /\ caps # {}
    /\ caps \subseteq Grantable(caps, mem.recs[r].asked)

\* The conditions of an approval: those of the route, then those of the store.
Granted(r, caps, identity) ==
    /\ mem.recs[r].status = "pending"
    /\ capabilities_require_daemon_identity(caps) => identity = Daemon
    /\ caps \subseteq Grantable(caps, mem.recs[r].asked)

\* Faulty: the token is kept for the app although the session was not saved.
ApproveRequest_TokenFirst(r, picked, identity) ==
    LET caps     == IF picked = {} THEN mem.recs[r].asked ELSE picked
        m        == [mem EXCEPT !.recs[r] = [status |-> "active", asked |-> mem.recs[r].asked,
                                             caps |-> caps, identity |-> identity]]
    IN  /\ Granted(r, caps, identity)
        /\ Saved(m) \/ SaveFails(m)
        /\ issued' = issued \union {r}
        /\ late' = late \ {r}
        /\ UNCHANGED <<call, held, acked>>

\* identity: the one the user names, or the selected one.
\* The token is kept for the app's next poll once the session is saved.
ApproveRequest(r, picked, identity) ==
    LET caps     == IF picked = {} THEN mem.recs[r].asked ELSE picked
        m        == [mem EXCEPT !.recs[r] = [status |-> "active", asked |-> mem.recs[r].asked,
                                             caps |-> caps, identity |-> identity]]
    IN  /\ Granted(r, caps, identity)
        /\ \/ Saved(m) /\ issued' = issued \union {r}
           \/ SaveFails(m) /\ UNCHANGED issued
        /\ late' = late \ {r}
        /\ UNCHANGED <<call, held, acked>>

RejectRequest(r) ==
    /\ mem.recs[r].status = "pending"
    /\ LET m == WithStatus(mem, {r}, "rejected") IN Saved(m) \/ SaveFails(m)
    /\ UNCHANGED <<issued, late, call, held, acked>>

\* The app polls its request: the token, while the session is active.
PollStatus(r) ==
    /\ mem.recs[r].status = "active"
    /\ r \in issued
    /\ held' = held \union {r}
    /\ UNCHANGED <<mem, file, torn, up, issued, late, call, acked, faults>>

(***************************************************************************)
(* The end of a session                                                    *)
(***************************************************************************)
HasSession(r) == mem.recs[r].status \notin {"none", "pending", "rejected"}

\* Faulty: the revocation is acknowledged whether or not it was saved.
Acknowledged_Unsaved(m, S) ==
    /\ Saved(m) \/ SaveFails(m)
    /\ acked' = acked \union S

\* The state with S revoked is saved and the caller told so, or told of an error.
Acknowledged(m, S) ==
    \/ Saved(m) /\ acked' = acked \union S
    \/ SaveFails(m) /\ UNCHANGED acked

\* From the console, for any local identity, or for the selected one.
RevokeSession(r) ==
    /\ HasSession(r)
    /\ Acknowledged(WithStatus(mem, {r}, "revoked"), {r})
    /\ UNCHANGED <<issued, late, call, held>>

\* The device's active sessions; nothing is saved when it has none.
revoke_sessions_for_device ==
    LET S == {r \in Requests : mem.recs[r].status = "active"}
    IN  \/ S # {} /\ Acknowledged(WithStatus(mem, S, "revoked"), S)
        \/ S = {} /\ UNCHANGED <<mem, file, torn, up, acked, faults>>

\* The route revoke_device, once the authority chain has the revocation: an error
\* or a crash before this step leaves the sessions as they are.
RevokeDevice ==
    /\ revoke_sessions_for_device
    /\ UNCHANGED <<issued, late, call, held>>

\* The session's expires_at, when it was granted with one, is reached.
DeadlinePasses(r) ==
    /\ mem.recs[r].status = "active"
    /\ late' = late \union {r}
    /\ UNCHANGED <<mem, file, torn, up, issued, call, held, acked, faults>>

\* The daemon stops between two saves.
Crash ==
    /\ up' = FALSE
    /\ mem' = file
    /\ UNCHANGED <<file, torn, issued, late, call, held, acked, faults>>

\* AppSessionStore::open: load_state fails on a file that was cut short, and the
\* server does not start.
Start ==
    /\ ~up
    /\ ~torn
    /\ up' = TRUE
    /\ mem' = file
    /\ issued' = {}
    /\ call' = None
    /\ UNCHANGED <<file, torn, late, held, acked, faults>>

(***************************************************************************)
(* The app's calls.  v is the session as authenticated: its capabilities   *)
(* and its identity; q is what the call names: a path and an identity.     *)
(***************************************************************************)
require_local_identity(v) == v.identity = Daemon

resolve_address(v) == require_capability(v.caps, "resolve:public")

fetch_content(v) == require_capability(v.caps, "fetch:public")

read_local_record(v) == require_local_identity(v) /\ resolve_address(v) /\ fetch_content(v)

update_local_record(v, q) ==
    require_local_identity(v) /\ require_path_capability(v.caps, "publish", q.path)

restore_local_record(v, q) == update_local_record(v, q)

publish_file(v, q) == update_local_record(v, q)

append_record(v, q) == update_local_record(v, q)

delete_local_record(v, q) ==
    require_local_identity(v) /\ require_path_capability(v.caps, "delete", q.path)

encrypt_app_request(v, q) ==
    /\ require_path_capability(v.caps, "encrypt", q.path)
    /\ require_path_capability(v.caps, "publish:encrypted", q.path)

publish_encrypted(v, q) == require_local_identity(v) /\ encrypt_app_request(v, q)

append_encrypted(v, q) == require_local_identity(v) /\ encrypt_app_request(v, q)

\* The path checked is the one the target resolves to.
decrypt_encrypted(v, q) ==
    require_local_identity(v) /\ require_path_capability(v.caps, "decrypt", q.path)

open_encrypted(v, q) == decrypt_encrypted(v, q)

rewrap_encrypted(v, q) == decrypt_encrypted(v, q) /\ encrypt_app_request(v, q)

enumerate_append_records(v, q) ==
    require_enumerate_capability(v.caps, v.identity, q.of, q.path)

create_data_subscription(v, q) ==
    require_data_subscription_capability(v.caps, q.of, q.path)

list_published(v, q) ==
    require_local_identity(v) /\ require_path_capability(v.caps, "inventory", q.path)

pin_home_relay(v, q) ==
    require_local_identity(v) /\ require_path_capability(v.caps, "pin:own", q.path)

send_ingress_by_identity(v) ==
    require_local_identity(v) /\ require_capability(v.caps, "ingress:send")

open_ingress(v) == require_local_identity(v) /\ require_capability(v.caps, "ingress:read")

list_pending_ingress(v) == open_ingress(v)

accept_ingress(v) == require_local_identity(v) /\ require_capability(v.caps, "ingress:decide")

reject_ingress(v) == accept_ingress(v)

Operations == {"resolve", "fetch", "read", "update", "restore", "publish", "append", "delete",
               "publish_encrypted", "append_encrypted", "decrypt", "open", "rewrap",
               "enumerate", "subscribe", "unsubscribe", "inventory", "pin", "send_ingress",
               "list_ingress", "open_ingress", "accept_ingress", "reject_ingress",
               "list_subscriptions"}

Permitted(op, v, q) ==
    CASE op = "resolve" -> resolve_address(v)
      [] op = "fetch" -> fetch_content(v)
      [] op = "read" -> read_local_record(v)
      [] op = "update" -> update_local_record(v, q)
      [] op = "restore" -> restore_local_record(v, q)
      [] op = "publish" -> publish_file(v, q)
      [] op = "append" -> append_record(v, q)
      [] op = "delete" -> delete_local_record(v, q)
      [] op = "publish_encrypted" -> publish_encrypted(v, q)
      [] op = "append_encrypted" -> append_encrypted(v, q)
      [] op = "decrypt" -> decrypt_encrypted(v, q)
      [] op = "open" -> open_encrypted(v, q)
      [] op = "rewrap" -> rewrap_encrypted(v, q)
      [] op = "enumerate" -> enumerate_append_records(v, q)
      [] op = "subscribe" -> create_data_subscription(v, q)
      [] op = "unsubscribe" -> TRUE
      [] op = "inventory" -> list_published(v, q)
      [] op = "pin" -> pin_home_relay(v, q)
      [] op = "send_ingress" -> send_ingress_by_identity(v)
      [] op = "open_ingress" -> open_ingress(v)
      [] op = "list_ingress" -> list_pending_ingress(v)
      [] op = "accept_ingress" -> accept_ingress(v)
      [] op = "reject_ingress" -> reject_ingress(v)
      [] op = "list_subscriptions" -> TRUE

Allowed(v, q) == {op \in Operations : Permitted(op, v, q)}

\* session_for_token, on a session past its deadline: it expires, and the call fails.
ExpireOnUse(r) ==
    /\ r \in held
    /\ mem.recs[r].status = "active"
    /\ r \in late
    /\ LET m == WithStatus(mem, {r}, "expired") IN Saved(m) \/ SaveFails(m)
    /\ UNCHANGED <<issued, late, call, held, acked>>

\* session_for_token, on a live session.
Authenticates(r) == r \in held /\ mem.recs[r].status = "active" /\ r \notin late

\* An allowed call that leaves the store alone: it authenticates and passes its
\* checks, and last_used_at is saved with the state.
Call(r, op, q) ==
    /\ Authenticates(r)
    /\ op \notin {"subscribe", "unsubscribe"}
    /\ Saved(mem)
    /\ UNCHANGED <<issued, late, call, held, acked>>

\* A call on the app's subscriptions: the store's lock is free until FinishCall.  An
\* app removes a subscription by the id it was given.
BeginCall(r, op, q) ==
    /\ call = None
    /\ Authenticates(r)
    /\ op \in Allowed(mem.recs[r], q)
    /\ op = "unsubscribe" => [session |-> r, of |-> q.of, prefix |-> q.path] \in mem.subs
    /\ Saved(mem)
    /\ call' = [session |-> r, op |-> op, q |-> q]
    /\ UNCHANGED <<issued, late, held, acked>>

\* session_for_token cannot save: the call fails, and memory stays ahead of the file.
CallCannotSave(r) ==
    /\ Authenticates(r)
    /\ SaveFails(mem)
    /\ UNCHANGED <<issued, late, call, held, acked>>

Subscription(c) == [session |-> c.session, of |-> c.q.of, prefix |-> c.q.path]

\* register_data_subscription: a known one is answered, a new one needs room.
RegisterSubscription(c) ==
    \/ /\ Subscription(c) \in mem.subs \/ Cardinality(mem.subs) >= MaxSubs
       /\ UNCHANGED <<mem, file, torn, up, faults>>
    \/ /\ Subscription(c) \notin mem.subs
       /\ Cardinality(mem.subs) < MaxSubs
       /\ LET m == [mem EXCEPT !.subs = @ \union {Subscription(c)}] IN Saved(m) \/ SaveFails(m)

RemoveSubscription(c) ==
    \/ Subscription(c) \notin mem.subs /\ UNCHANGED <<mem, file, torn, up, faults>>
    \/ /\ Subscription(c) \in mem.subs
       /\ LET m == [mem EXCEPT !.subs = @ \ {Subscription(c)}] IN Saved(m) \/ SaveFails(m)

FinishCall ==
    /\ call # None
    /\ call' = None
    /\ \/ call.op = "subscribe" /\ RegisterSubscription(call)
       \/ call.op = "unsubscribe" /\ RemoveSubscription(call)
    /\ UNCHANGED <<issued, late, held, acked>>

Calls == [path : Paths, of : Identities]

Running ==
    \/ \E r \in Requests :
          \/ \E asked \in Asks : RequestSession(r, asked)
          \/ \E picked \in Approvals, i \in Identities : ApproveRequest(r, picked, i)
          \/ RejectRequest(r)
          \/ PollStatus(r)
          \/ RevokeSession(r)
          \/ ExpireOnUse(r)
          \/ \E q \in Calls : \E op \in Allowed(mem.recs[r], q) : Call(r, op, q)
          \/ \E q \in Calls, op \in {"subscribe", "unsubscribe"} : BeginCall(r, op, q)
          \/ CallCannotSave(r)
    \/ RevokeDevice
    \/ FinishCall
    \/ Crash

Next ==
    \/ up /\ Running
    \/ \E r \in Requests : DeadlinePasses(r)
    \/ Start

Spec == Init /\ [][Next]_vars

(***************************************************************************)
(* Properties                                                              *)
(***************************************************************************)
Caps == UNION (Asks \union Approvals)
Records == [status : {"none", "pending", "active", "rejected", "expired", "revoked"},
            asked : {{}} \union Asks, caps : SUBSET Caps,
            identity : Identities \union {None}]
States == [recs : [Requests -> Records], subs : SUBSET Subscriptions]

TypeOK ==
    /\ mem \in States /\ file \in States /\ torn \in BOOLEAN /\ up \in BOOLEAN
    /\ issued \subseteq Requests /\ late \subseteq Requests
    /\ held \subseteq Requests /\ acked \subseteq Requests
    /\ call \in [session : Requests, op : Operations, q : Calls] \union {None}
    /\ faults \in 0..MaxFaults

\* A session whose revocation the caller was told of (by revoke_session or
\* revoke_device) is revoked in the running daemon and in every file a daemon can
\* start from: no failed or interrupted save of another call and no restart
\* brings it back.
RevokedStaysRevoked ==
    \A r \in acked : /\ up => mem.recs[r].status = "revoked"
                     /\ ~torn => file.recs[r].status = "revoked"

\* Whatever an active session may do, the app's own request covers, whatever
\* part of it was granted: the wildcard rules of the grant (PathScope::contains,
\* on parsed capabilities) and of the use (path_matches, on strings) agree.
CallsWereAskedFor ==
    \A r \in Requests : mem.recs[r].status = "active" =>
        \A q \in Calls :
            Allowed(mem.recs[r], q) \subseteq
                Allowed([mem.recs[r] EXCEPT !.caps = mem.recs[r].asked], q)

\* An app that was given its token has its session in the running daemon, so that
\* the next save writes it again, and in every file a daemon can start from:
\* approve_request keeps the token for the poll only once the session is saved.
\* What a save cut short costs is the whole file, never one approval of it.
HeldTokensAreDurable ==
    \A r \in held : /\ up => mem.recs[r].status \in {"active", "expired", "revoked"}
                    /\ ~torn => file.recs[r].status \in {"active", "expired", "revoked"}

\* What the file says of a request only moves forward (GrantLifecycle), over
\* failed saves that leave memory ahead, saves that cut the file short and later
\* ones that mend it, and restarts that take memory back.
Durable == INSTANCE GrantLifecycle WITH phase <- [r \in Requests |-> file.recs[r].status],
                                        readable <- ~torn, serving <- up
DurableGrants == Durable!Spec

=============================================================================
