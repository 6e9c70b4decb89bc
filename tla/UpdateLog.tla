----------------------------- MODULE UpdateLog -----------------------------
(***************************************************************************)
(* The update log of an identity (jolt-core/src/update_log.rs): a chain of *)
(* signed entries, each naming the hash of the one before it, and the      *)
(* state that a verified log says the identity is in.  Public keys and the *)
(* identities made from them are the same thing here.                      *)
(***************************************************************************)
EXTENDS Naturals, Sequences, Signing

NoHash == [digest |-> <<>>]
Failed == [status |-> "error"]

(***************************************************************************)
(* Entries                                                                 *)
(***************************************************************************)
SetPath(p, c) == [type |-> "SetPath", path |-> p, content |-> c]
RemovePath(p) == [type |-> "RemovePath", path |-> p]
UpdateRoot(c) == [type |-> "UpdateRoot", content |-> c]
UpdateProfile(profile) == [type |-> "UpdateProfile", profile |-> profile]
SetReachability(relays) == [type |-> "SetReachability", relays |-> relays]
PublishContent(c) == [type |-> "PublishContent", content |-> c]

IsAction(a) ==
    \/ a.type = "SetPath" /\ a = SetPath(a.path, a.content)
    \/ a.type = "RemovePath" /\ a = RemovePath(a.path)
    \/ a.type = "UpdateRoot" /\ a = UpdateRoot(a.content)
    \/ a.type = "UpdateProfile" /\ a = UpdateProfile(a.profile)
    \/ a.type = "SetReachability" /\ a = SetReachability(a.relays)
    \/ a.type = "PublishContent" /\ a = PublishContent(a.content)

canonical_bytes(body) ==
    <<"jolt:update-log-entry:v1", body.owner, body.sequence, body.previous, body.action>>

entry_hash(e) == blake3(canonical_bytes(e.body))

sign_body(body, key) == [body |-> body, signature |-> Sign(key, canonical_bytes(body))]

genesis(owner, action) ==
    sign_body([owner |-> owner, sequence |-> 0, previous |-> NoHash, action |-> action], owner)

append(e, action) ==
    sign_body([owner |-> e.body.owner, sequence |-> e.body.sequence + 1,
               previous |-> entry_hash(e), action |-> action], e.body.owner)

verify_signature(e) == verify(e.body.owner, canonical_bytes(e.body), e.signature)

(***************************************************************************)
(* Logs                                                                    *)
(***************************************************************************)
\* Faulty: the hash of the entry before is not compared.
Continues_AnyHash(e, before) ==
    /\ e.body.owner = before.body.owner
    /\ e.body.sequence = before.body.sequence + 1

Continues(e, before) ==
    /\ e.body.owner = before.body.owner
    /\ e.body.sequence = before.body.sequence + 1
    /\ e.body.previous = entry_hash(before)

verify_update_log(log) ==
    \A i \in 1..Len(log) :
        /\ verify_signature(log[i])
        /\ IF i = 1 THEN log[1].body.sequence = 0 /\ log[1].body.previous = NoHash
                    ELSE Continues(log[i], log[i - 1])

\* The callers never pass the empty log, whose first entry the code reads.
verify_update_log_for_identity(identity, log) ==
    /\ verify_update_log(log)
    /\ log[1].body.owner = identity

latest_sequence(log) == log[Len(log)].body.sequence

(***************************************************************************)
(* The state a log describes                                               *)
(***************************************************************************)
NothingYet == [root |-> Failed, profile |-> Failed, paths |-> <<>>, relays |-> {}]

With(paths, p, c) == [q \in DOMAIN paths \cup {p} |-> IF q = p THEN c ELSE paths[q]]

Without(paths, p) == [q \in DOMAIN paths \ {p} |-> paths[q]]

\* Faulty: a removed path keeps its last content.
Applied_KeepsRemoved(a, state) ==
    CASE a.type = "SetPath" -> [state EXCEPT !.paths = With(@, a.path, a.content)]
      [] a.type = "UpdateRoot" -> [state EXCEPT !.root = a.content]
      [] a.type = "UpdateProfile" -> [state EXCEPT !.profile = a.profile]
      [] a.type = "SetReachability" -> [state EXCEPT !.relays = a.relays]
      [] OTHER -> state

Applied(a, state) ==
    CASE a.type = "SetPath" -> [state EXCEPT !.paths = With(@, a.path, a.content)]
      [] a.type = "RemovePath" -> [state EXCEPT !.paths = Without(@, a.path)]
      [] a.type = "UpdateRoot" -> [state EXCEPT !.root = a.content]
      [] a.type = "UpdateProfile" -> [state EXCEPT !.profile = a.profile]
      [] a.type = "SetReachability" -> [state EXCEPT !.relays = a.relays]
      [] a.type = "PublishContent" -> state

resolve_latest_record(log) ==
    LET state[n \in 0..Len(log)] ==
            IF n = 0 THEN NothingYet ELSE Applied(log[n].body.action, state[n - 1])
    IN  state[Len(log)]

\* The relays a reader may still use: expires_at 0 stands for a hint without one.
FreshRelays(relays, now) == {r \in relays : r.expires_at = 0 \/ r.expires_at > now}

\* now = 0 stands for a reader that gives no time.
resolve_jolt_address(identity, path, log, now) ==
    IF \/ log = <<>>
       \/ ~verify_update_log(log)
       \/ log[1].body.owner # identity
       \/ path \notin DOMAIN resolve_latest_record(log).paths
      THEN Failed
      ELSE LET latest == resolve_latest_record(log) IN
           [content |-> latest.paths[path],
            relays |-> IF now = 0 THEN latest.relays ELSE FreshRelays(latest.relays, now)]
=============================================================================
