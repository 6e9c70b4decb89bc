-------------------------- MODULE AppCapabilities --------------------------
(***************************************************************************)
(* The capabilities of an app session: what a capability string parses to, *)
(* when a granted capability was covered by the request, and when a        *)
(* granted capability lets an operation through.                           *)
(* jolt-server/src/session_store.rs decides at the grant, on parsed        *)
(* capabilities; routes/app_api.rs decides at every use, on the strings.   *)
(*                                                                         *)
(* A path is its sequence of segments, as normalize_path leaves it: one or *)
(* more, none of them "." or "..".  A scope is a path, with `below' a      *)
(* wildcard: [at |-> p, below |-> TRUE] is "p/*", FALSE is "p" itself.     *)
(***************************************************************************)
EXTENDS Naturals, Sequences

CONSTANT Identities      \* identities an app may name

PlainKinds == {"resolve:public", "fetch:public", "ingress:send", "ingress:read",
               "ingress:decide"}
PathKinds == {"publish", "delete", "publish:encrypted", "inventory", "pin:own",
              "encrypt", "decrypt"}

Plain(kind) == [kind |-> kind]
OnPath(kind, scope) == [kind |-> kind, scope |-> scope]
OfIdentity(kind, who, scope) == [kind |-> kind, who |-> who, scope |-> scope]
Below(path) == [at |-> path, below |-> TRUE]
Exactly(path) == [at |-> path, below |-> FALSE]

(***************************************************************************)
(* Parsing                                                                 *)
(***************************************************************************)
ValidScope(s) == /\ s.below \/ s.at # << >>
                 /\ \A i \in DOMAIN s.at : s.at[i] \notin {".", ".."}

parse_path_capability(c) == c.kind \in PathKinds /\ ValidScope(c.scope)

is_grantable_app_capability(c) ==
    \/ c.kind \in PlainKinds
    \/ /\ c.kind = "enumerate"
       /\ c.who \in {"self", "any"}
       /\ ValidScope(c.scope)
    \/ /\ c.kind = "subscribe"
       /\ c.who \in Identities \union {"any"}
       /\ ValidScope(c.scope)
    \/ parse_path_capability(c)

(***************************************************************************)
(* At the grant                                                            *)
(***************************************************************************)
\* path.starts_with(base), by segments: base is the path or above it.
StartsWith(path, base) ==
    Len(base) <= Len(path) /\ \A i \in 1..Len(base) : path[i] = base[i]

IsBelow(path, base) == StartsWith(path, base) /\ path # base

\* Faulty: the bases are compared, not what the scopes cover.
ScopeContains_Bases(requested, granted) == StartsWith(granted.at, requested.at)

ScopeContains(requested, granted) ==
    IF ~requested.below THEN granted = requested
    ELSE IF granted.below THEN StartsWith(granted.at, requested.at)
    ELSE IsBelow(granted.at, requested.at)

CapabilityContains(requested, granted) ==
    /\ requested.kind = granted.kind
    /\ granted.kind \in {"enumerate", "subscribe"} => requested.who \in {granted.who, "any"}
    /\ granted.kind \notin PlainKinds => ScopeContains(requested.scope, granted.scope)

capability_was_requested(granted, requested) ==
    \E c \in requested : is_grantable_app_capability(c) /\ CapabilityContains(c, granted)

(***************************************************************************)
(* At the use: `caps' is what the session was granted                      *)
(***************************************************************************)
AllowsPath(scope, path) ==
    IF scope.below THEN IsBelow(path, scope.at) ELSE path = scope.at

path_matches(pattern, path) == AllowsPath(pattern, path)

capability_patterns(caps, kind) == {c.scope : c \in {d \in caps : d.kind = kind}}

require_capability(caps, kind) == \E c \in caps : c.kind = kind

require_path_capability(caps, kind, path) ==
    \E pattern \in capability_patterns(caps, kind) : path_matches(pattern, path)

require_enumerate_capability(caps, own, of, path) ==
    \E c \in caps : /\ c.kind = "enumerate"
                    /\ c.who = "any" \/ (c.who = "self" /\ own = of)
                    /\ path_matches(c.scope, path)

require_data_subscription_capability(caps, of, prefix) ==
    \E c \in caps : /\ c.kind = "subscribe"
                    /\ c.who \in {of, "any"}
                    /\ AllowsPath(c.scope, prefix)

\* Granting these needs the identity the daemon signs with.
capabilities_require_daemon_identity(caps) ==
    \E c \in caps : c.kind \in {"publish", "publish:encrypted", "inventory", "pin:own",
                                "encrypt", "decrypt"}

=============================================================================
