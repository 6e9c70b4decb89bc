------------------------- MODULE AppSessionsProofs -------------------------
(***************************************************************************)
(* Proofs about AppSessions and AppCapabilities, for any requests, paths,  *)
(* identities and capabilities.                                            *)
(***************************************************************************)
EXTENDS AppSessions, TLAPS

Scopes == [at : Seq(STRING), below : BOOLEAN]

----------------------------------------------------------------------------
(* Capabilities *)

\* Paths that start with each other are equal.
LEMMA StartsWithIsAntisymmetric ==
  ASSUME NEW s \in Seq(STRING), NEW t \in Seq(STRING), StartsWith(s, t), StartsWith(t, s)
  PROVE  s = t
<1>1. /\ Len(s) = Len(t)
      /\ \A i \in 1 .. Len(s) : s[i] = t[i]
  BY DEF StartsWith
<1> QED
  BY <1>1

\* A path starts with what a part that it starts with starts with.
LEMMA StartsWithIsTransitive ==
  ASSUME NEW s \in Seq(STRING), NEW t \in Seq(STRING), NEW u \in Seq(STRING),
         StartsWith(t, s), StartsWith(u, t)
  PROVE  StartsWith(u, s)
BY DEF StartsWith

\* A path that a granted scope allows is allowed by every scope that contains
\* it: PathScope::contains and PathScope::allows_path (and path_matches) have
\* one meaning of a wildcard.
LEMMA ScopesAgree ==
  ASSUME NEW requested \in Scopes, NEW granted \in Scopes, NEW path \in Seq(STRING),
         ScopeContains(requested, granted), AllowsPath(granted, path)
  PROVE  AllowsPath(requested, path)
<1> USE DEF Scopes
<1>1. CASE ~requested.below
  BY <1>1 DEF ScopeContains, AllowsPath
<1>2. CASE requested.below /\ granted.below
  <2>1. /\ StartsWith(granted.at, requested.at)
        /\ StartsWith(path, granted.at) /\ granted.at # path
    BY <1>2 DEF ScopeContains, AllowsPath, IsBelow
  <2>2. StartsWith(path, requested.at)
    BY <2>1, StartsWithIsTransitive
  <2>3. requested.at # path
    BY <2>1, StartsWithIsAntisymmetric
  <2> QED
    BY <1>2, <2>2, <2>3 DEF AllowsPath, IsBelow
<1>3. CASE requested.below /\ ~granted.below
  BY <1>3 DEF ScopeContains, AllowsPath
<1> QED
  BY <1>1, <1>2, <1>3

\* What every granted capability is: one that can be granted, and that a
\* capability of the request contains.
Covered(caps, asked) == \A c \in caps : /\ is_grantable_app_capability(c)
                                         /\ capability_was_requested(c, asked)

\* Scopes are well-formed where the kind of capability has one.
ScopedRight(caps) ==
    \A c \in caps : c.kind \in PathKinds \union {"enumerate", "subscribe"} => c.scope \in Scopes

\* A right to a route without a path that was granted was asked for.
LEMMA CoveredKind ==
  ASSUME NEW caps, NEW asked, NEW kind, Covered(caps, asked), require_capability(caps, kind)
  PROVE  require_capability(asked, kind)
  BY DEF Covered, require_capability, capability_was_requested, CapabilityContains

\* ... and a right on a path,
LEMMA CoveredPath ==
  ASSUME NEW caps, NEW asked, NEW kind \in PathKinds, NEW path \in Seq(STRING),
         Covered(caps, asked), ScopedRight(caps), ScopedRight(asked),
         require_path_capability(caps, kind, path)
  PROVE  require_path_capability(asked, kind, path)
<1>1. PICK g \in caps : g.kind = kind /\ AllowsPath(g.scope, path)
  BY DEF require_path_capability, capability_patterns, path_matches
<1>2. PICK c \in asked : CapabilityContains(c, g)
  BY <1>1 DEF Covered, capability_was_requested
<1>3. /\ c.kind = kind
      /\ ScopeContains(c.scope, g.scope)
  BY <1>1, <1>2 DEF CapabilityContains, PathKinds, PlainKinds
<1>4. c.scope \in Scopes /\ g.scope \in Scopes
  BY <1>1, <1>3 DEF ScopedRight
<1>5. AllowsPath(c.scope, path)
  BY <1>1, <1>3, <1>4, ScopesAgree
<1> QED
  BY <1>3, <1>5 DEF require_path_capability, capability_patterns, path_matches

\* ... to enumerate an identity's records,
LEMMA CoveredEnumeration ==
  ASSUME NEW caps, NEW asked, NEW own, NEW of, NEW path \in Seq(STRING),
         Covered(caps, asked), ScopedRight(caps), ScopedRight(asked),
         require_enumerate_capability(caps, own, of, path)
  PROVE  require_enumerate_capability(asked, own, of, path)
<1>1. PICK g \in caps : /\ g.kind = "enumerate"
                        /\ g.who = "any" \/ (g.who = "self" /\ own = of)
                        /\ AllowsPath(g.scope, path)
  BY DEF require_enumerate_capability, path_matches
<1>2. PICK c \in asked : CapabilityContains(c, g)
  BY <1>1 DEF Covered, capability_was_requested
<1>3. /\ c.kind = "enumerate"
      /\ c.who \in {g.who, "any"}
      /\ ScopeContains(c.scope, g.scope)
  BY <1>1, <1>2 DEF CapabilityContains, PlainKinds
<1>4. c.scope \in Scopes /\ g.scope \in Scopes
  BY <1>1, <1>3 DEF ScopedRight
<1>5. AllowsPath(c.scope, path)
  BY <1>1, <1>3, <1>4, ScopesAgree
<1> QED
  BY <1>1, <1>3, <1>5 DEF require_enumerate_capability, path_matches

\* ... and to subscribe to them.
LEMMA CoveredSubscription ==
  ASSUME NEW caps, NEW asked, NEW of, NEW prefix \in Seq(STRING),
         Covered(caps, asked), ScopedRight(caps), ScopedRight(asked),
         require_data_subscription_capability(caps, of, prefix)
  PROVE  require_data_subscription_capability(asked, of, prefix)
<1>1. PICK g \in caps : /\ g.kind = "subscribe"
                        /\ g.who \in {of, "any"}
                        /\ AllowsPath(g.scope, prefix)
  BY DEF require_data_subscription_capability
<1>2. PICK c \in asked : CapabilityContains(c, g)
  BY <1>1 DEF Covered, capability_was_requested
<1>3. /\ c.kind = "subscribe"
      /\ c.who \in {g.who, "any"}
      /\ ScopeContains(c.scope, g.scope)
  BY <1>1, <1>2 DEF CapabilityContains, PlainKinds
<1>4. c.scope \in Scopes /\ g.scope \in Scopes
  BY <1>1, <1>3 DEF ScopedRight
<1>5. AllowsPath(c.scope, prefix)
  BY <1>1, <1>3, <1>4, ScopesAgree
<1> QED
  BY <1>1, <1>3, <1>5 DEF require_data_subscription_capability

\* Every operation a session may do with the capabilities of the grant, it
\* could do with those of the request.
LEMMA AllowedIsCovered ==
  ASSUME NEW v \in Records, NEW q \in Calls, Covered(v.caps, v.asked)
  PROVE  Allowed(v, q) \subseteq Allowed([v EXCEPT !.caps = v.asked], q)
<1> DEFINE w == [v EXCEPT !.caps = v.asked]
<1>1. w.caps = v.asked /\ w.identity = v.identity
  BY DEF Records
<1>2. ScopedRight(v.caps) /\ ScopedRight(v.asked)
  BY CapabilitiesAssumption DEF ScopedRight, Scopes, Records, Caps
<1>3. q.path \in Seq(STRING)
  BY CapabilitiesAssumption DEF Calls
<1>4. \A kind \in PathKinds :
         require_path_capability(v.caps, kind, q.path) => require_path_capability(w.caps, kind, q.path)
  BY <1>1, <1>2, <1>3, CoveredPath
<1>5. \A kind : require_capability(v.caps, kind) => require_capability(w.caps, kind)
  BY <1>1, CoveredKind
<1>6. require_enumerate_capability(v.caps, v.identity, q.of, q.path)
        => require_enumerate_capability(w.caps, w.identity, q.of, q.path)
  BY <1>1, <1>2, <1>3, CoveredEnumeration
<1>7. require_data_subscription_capability(v.caps, q.of, q.path)
        => require_data_subscription_capability(w.caps, q.of, q.path)
  BY <1>1, <1>2, <1>3, CoveredSubscription
<1> HIDE DEF w
<1>8. ASSUME NEW op \in Operations, Permitted(op, v, q) PROVE Permitted(op, w, q)
  <2>1. CASE op \in {"resolve", "fetch", "read", "send_ingress", "open_ingress", "list_ingress",
                     "accept_ingress", "reject_ingress"}
    BY <1>1, <1>5, <1>8, <2>1, Zenon
    DEF Permitted, resolve_address, fetch_content, read_local_record, send_ingress_by_identity,
        open_ingress, list_pending_ingress, accept_ingress, reject_ingress, require_local_identity
  <2>2. CASE op \in {"update", "restore", "publish", "append", "delete", "inventory", "pin"}
    BY <1>1, <1>4, <1>8, <2>2, Zenon
    DEF Permitted, update_local_record, restore_local_record, publish_file, append_record,
        delete_local_record, list_published, pin_home_relay, require_local_identity, PathKinds
  <2>3. CASE op \in {"publish_encrypted", "append_encrypted", "decrypt", "open", "rewrap"}
    BY <1>1, <1>4, <1>8, <2>3, Zenon
    DEF Permitted, publish_encrypted, append_encrypted, encrypt_app_request, decrypt_encrypted,
        open_encrypted, rewrap_encrypted, require_local_identity, PathKinds
  <2>4. CASE op \in {"enumerate", "subscribe", "unsubscribe", "list_subscriptions"}
    BY <1>6, <1>7, <1>8, <2>4, Zenon DEF Permitted, enumerate_append_records, create_data_subscription
  <2> QED
    BY <2>1, <2>2, <2>3, <2>4 DEF Operations
<1> QED
  BY <1>8 DEF Allowed, w

----------------------------------------------------------------------------
(* The inductive invariant *)

\* The states of the store in which every grant is covered.
GoodStates == {m \in States : \A r \in Requests : Covered(m.recs[r].caps, m.recs[r].asked)}

\* A status, and the ones that may follow it.
Forward(s, t) == t \in {s} \union Durable!Later[s]

\* m is reached from n by moving grants forward.
IsAhead(m, n) == \A r \in Requests : Forward(n.recs[r].status, m.recs[r].status)

Sessions == {"active", "expired", "revoked"}

\* What the store and the file hold, with the apps that were, or may be, given a
\* token, and the sessions whose end was acknowledged: both have them, so that
\* neither a save nor a restart takes one back.  Of a file that was cut short this
\* speaks of what it last held, which the next save is ahead of.
Inv ==
    /\ TypeOK
    /\ mem \in GoodStates /\ file \in GoodStates
    /\ IsAhead(mem, file)
    /\ \A r \in held \union issued : /\ mem.recs[r].status \in Sessions
                                     /\ file.recs[r].status \in Sessions
    /\ \A r \in acked : mem.recs[r].status = "revoked" /\ file.recs[r].status = "revoked"

\* A save succeeds, and the daemon may die after it.
Writes(m) == up /\ mem' = m /\ file' = m /\ torn' = FALSE /\ up' \in {up, FALSE}

\* The file stays as it is or is cut short.
Spoils(m) == up /\ mem' = m /\ file' = file /\ torn' \in {torn, TRUE} /\ up' = up

\* The daemon ends, in a save or outside.
Ends == up /\ mem' = file /\ file' = file /\ torn' \in {torn, TRUE} /\ up' = FALSE

\* A daemon starts from a file that can be read.
Starts == ~torn /\ mem' = file /\ file' = file /\ torn' = torn /\ up' = TRUE

\* A step changes the store and perhaps saves it, or takes it back to the file.
Change(m) ==
    /\ m \in GoodStates
    /\ IsAhead(m, mem)
    /\ \/ Writes(m) \/ Spoils(m) \/ Ends \/ Starts
       \/ m = mem /\ UNCHANGED <<mem, file, torn, up>>

\* Two steps forward are a step forward.
LEMMA ForwardIsTransitive ==
  ASSUME NEW s \in Durable!Phases, NEW t \in Durable!Phases, NEW u \in Durable!Phases,
         Forward(s, t), Forward(t, u)
  PROVE  Forward(s, u)
  BY DEF Forward, Durable!Later, Durable!Phases

\* Forward leads out of neither a session nor a revocation.
LEMMA ForwardKeeps ==
  ASSUME NEW s \in Durable!Phases, NEW t \in Durable!Phases, Forward(s, t)
  PROVE  /\ s \in Sessions => t \in Sessions
         /\ s = "revoked" => t = "revoked"
  BY DEF Forward, Durable!Later, Durable!Phases, Sessions

\* Statuses of the store's records are phases of the life cycle.
LEMMA StatusIsPhase ==
  ASSUME NEW m \in States, NEW r \in Requests
  PROVE  m.recs[r].status \in Durable!Phases
  BY DEF States, Records, Durable!Phases

\* Ending the sessions of S moves them forward and leaves the grants alone.
LEMMA WithStatusIsAhead ==
  ASSUME NEW m \in GoodStates, NEW S \in SUBSET Requests, NEW status \in Durable!Phases,
         \A r \in S : Forward(m.recs[r].status, status)
  PROVE  /\ WithStatus(m, S, status) \in GoodStates
         /\ IsAhead(WithStatus(m, S, status), m)
         /\ \A r \in S : WithStatus(m, S, status).recs[r].status = status
<1> DEFINE recs == [r \in Requests |-> IF r \in S THEN [m.recs[r] EXCEPT !.status = status]
                                       ELSE m.recs[r]]
           subs == {s \in m.subs : s.session \notin S}
           n == WithStatus(m, S, status)
<1>1. m \in States /\ m.recs \in [Requests -> Records] /\ subs \subseteq Subscriptions
  BY DEF GoodStates, States
<1>2. ASSUME NEW r \in Requests
      PROVE  /\ recs[r] \in Records
             /\ recs[r].status = IF r \in S THEN status ELSE m.recs[r].status
             /\ recs[r].caps = m.recs[r].caps
             /\ recs[r].asked = m.recs[r].asked
  <2> DEFINE old == m.recs[r]
  <2>1. old \in Records /\ recs[r] = IF r \in S THEN [old EXCEPT !.status = status] ELSE old
    BY <1>1
  <2> HIDE DEF old, recs
  <2>2. /\ recs[r] \in Records
        /\ recs[r].status = IF r \in S THEN status ELSE old.status
        /\ recs[r].caps = old.caps
        /\ recs[r].asked = old.asked
    BY <2>1 DEF Records, Durable!Phases
  <2> QED
    BY <2>2 DEF old
<1>3. recs \in [Requests -> Records]
  BY <1>2
<1>4. n = [m EXCEPT !.recs = recs, !.subs = subs]
  BY DEF WithStatus
<1> HIDE DEF recs, subs, n
<1>5. n \in States /\ n.recs = recs
  BY <1>1, <1>3, <1>4, Zenon DEF States
<1>6. n \in GoodStates
  BY <1>2, <1>5 DEF GoodStates
<1>7. IsAhead(n, m)
  BY <1>2, <1>5 DEF IsAhead, Forward
<1> QED
  BY <1>2, <1>5, <1>6, <1>7 DEF n

\* What a step keeps: the invariant, and the order of what the file says.
Kept == Inv' /\ [Durable!Next]_(Durable!lifecycle)

\* A change of the store keeps the invariant when those it newly acknowledges
\* are revoked, and those it newly gives a token have a session, in both places.
LEMMA ChangeKeeps ==
  ASSUME Inv, NEW m, Change(m),
         issued' \subseteq Requests, late' \subseteq Requests, held' \subseteq Requests,
         acked' \subseteq Requests, faults' \in 0 .. MaxFaults,
         call' \in [session : Requests, op : Operations, q : Calls] \union {None},
         \A r \in acked' \ acked : /\ mem'.recs[r].status = "revoked"
                                   /\ file'.recs[r].status = "revoked",
         \A r \in (held' \union issued') \ (held \union issued) :
            mem'.recs[r].status \in Sessions /\ file'.recs[r].status \in Sessions
  PROVE  Kept
<1>0. /\ \/ mem' = m /\ file' \in {file, m}
         \/ mem' = file /\ file' = file
      /\ torn' \in BOOLEAN /\ up' \in BOOLEAN
  BY DEF Inv, TypeOK, Change, Writes, Spoils, Ends, Starts
<1>1. /\ mem \in States /\ file \in States /\ m \in States
      /\ mem' \in GoodStates /\ file' \in GoodStates
      /\ mem' \in States /\ file' \in States
      /\ torn' \in BOOLEAN /\ up' \in BOOLEAN
  BY <1>0 DEF Inv, TypeOK, Change, GoodStates
<1>2. TypeOK'
  BY <1>1 DEF TypeOK
<1>3. ASSUME NEW r \in Requests
      PROVE  /\ mem.recs[r].status \in Durable!Phases /\ file.recs[r].status \in Durable!Phases
             /\ m.recs[r].status \in Durable!Phases
             /\ Forward(file.recs[r].status, mem.recs[r].status)
             /\ Forward(mem.recs[r].status, m.recs[r].status)
             /\ Forward(file.recs[r].status, m.recs[r].status)
  <2>1. /\ mem.recs[r].status \in Durable!Phases /\ file.recs[r].status \in Durable!Phases
        /\ m.recs[r].status \in Durable!Phases
    BY <1>1, StatusIsPhase
  <2>2. /\ Forward(file.recs[r].status, mem.recs[r].status)
        /\ Forward(mem.recs[r].status, m.recs[r].status)
    BY DEF Inv, Change, IsAhead
  <2> QED
    BY <2>1, <2>2, ForwardIsTransitive
<1>4. IsAhead(mem', file')
  BY <1>0, <1>1, <1>3 DEF IsAhead, Forward
<1>5. ASSUME NEW r \in Requests
      PROVE  /\ mem.recs[r].status \in Sessions /\ file.recs[r].status \in Sessions =>
                  mem'.recs[r].status \in Sessions /\ file'.recs[r].status \in Sessions
             /\ mem.recs[r].status = "revoked" /\ file.recs[r].status = "revoked" =>
                  mem'.recs[r].status = "revoked" /\ file'.recs[r].status = "revoked"
  <2>1. /\ mem.recs[r].status \in Sessions => m.recs[r].status \in Sessions
        /\ mem.recs[r].status = "revoked" => m.recs[r].status = "revoked"
    BY <1>3, ForwardKeeps
  <2> QED
    BY <1>0, <2>1
<1>6. \A r \in held' \union issued' : /\ mem'.recs[r].status \in Sessions
                                      /\ file'.recs[r].status \in Sessions
  BY <1>5 DEF Inv
<1>7. \A r \in acked' : mem'.recs[r].status = "revoked" /\ file'.recs[r].status = "revoked"
  BY <1>5 DEF Inv
<1>8. IsAhead(file', file)
  BY <1>0, <1>1, <1>3 DEF IsAhead, Forward
<1>9. [Durable!Next]_(Durable!lifecycle)
  <2> DEFINE phase == [r \in Requests |-> file.recs[r].status]
  <2>1. CASE Writes(m)
    <3>1. \A r \in Requests : /\ phase[r] = file.recs[r].status
                              /\ phase'[r] = file'.recs[r].status
                              /\ phase'[r] \in Durable!Phases
      BY <1>1, StatusIsPhase
    <3>2. phase' \in [Requests -> Durable!Phases]
      BY <3>1
    <3>3. \A r \in Requests : phase'[r] \in {phase[r]} \union Durable!Later[phase[r]]
      BY <1>8, <3>1 DEF IsAhead, Forward
    <3> HIDE DEF phase
    <3>4. up /\ (~torn)' = TRUE /\ up' \in BOOLEAN
      BY <1>1, <2>1 DEF Writes
    <3>5. Durable!Advance
      BY <3>2, <3>3, <3>4 DEF Durable!Advance, phase
    <3> QED
      BY <3>5 DEF Durable!Next
  <2>2. CASE Spoils(m) \/ Ends
    <3>1. up /\ UNCHANGED phase /\ up' \in BOOLEAN
      BY <1>1, <2>2 DEF Spoils, Ends
    <3>2. CASE torn' = TRUE
      BY <3>1, <3>2 DEF Durable!Lose, Durable!Next
    <3>3. CASE torn' = torn /\ up' = FALSE
      BY <3>1, <3>3 DEF Durable!End, Durable!Next
    <3>4. CASE torn' = torn /\ up' = up
      BY <3>1, <3>4 DEF Durable!lifecycle
    <3> QED
      BY <2>2, <3>2, <3>3, <3>4 DEF Spoils, Ends
  <2>3. CASE Starts
    BY <2>3 DEF Starts, Durable!Begin, Durable!Next
  <2>4. CASE UNCHANGED <<mem, file, torn, up>>
    BY <2>4 DEF Durable!lifecycle
  <2> QED
    BY <2>1, <2>2, <2>3, <2>4 DEF Change
<1> QED
  BY <1>1, <1>2, <1>4, <1>6, <1>7, <1>9 DEF Inv, Kept

\* Replacing one record by one further on, with a grant that is covered.
LEMMA UpdateIsAhead ==
  ASSUME NEW m \in GoodStates, NEW r \in Requests, NEW new \in Records,
         Covered(new.caps, new.asked), Forward(m.recs[r].status, new.status)
  PROVE  /\ [m EXCEPT !.recs[r] = new] \in GoodStates
         /\ IsAhead([m EXCEPT !.recs[r] = new], m)
         /\ [m EXCEPT !.recs[r] = new].recs[r] = new
<1> DEFINE n == [m EXCEPT !.recs[r] = new]
<1>1. m \in States /\ m.recs \in [Requests -> Records]
  BY DEF GoodStates, States
<1>2. n \in States /\ n.recs = [m.recs EXCEPT ![r] = new]
  BY <1>1 DEF States
<1>3. n.recs[r] = new /\ \A x \in Requests \ {r} : n.recs[x] = m.recs[x]
  BY <1>1, <1>2
<1> HIDE DEF n
<1>4. n \in GoodStates
  BY <1>2, <1>3, Zenon DEF GoodStates
<1>5. IsAhead(n, m)
  BY <1>3 DEF IsAhead, Forward
<1> QED
  BY <1>3, <1>4, <1>5 DEF n

\* Changing the subscriptions changes no grant.
LEMMA SubscriptionsAside ==
  ASSUME NEW m \in GoodStates, NEW subs \in SUBSET Subscriptions
  PROVE  /\ [m EXCEPT !.subs = subs] \in GoodStates
         /\ IsAhead([m EXCEPT !.subs = subs], m)
<1> DEFINE n == [m EXCEPT !.subs = subs]
<1>1. n \in States /\ n.recs = m.recs
  BY DEF GoodStates, States
<1> HIDE DEF n
<1>2. n \in GoodStates /\ IsAhead(n, m)
  BY <1>1 DEF GoodStates, IsAhead, Forward
<1> QED
  BY <1>2 DEF n

\* What saving, or failing to save, a state that is ahead amounts to.
LEMMA SavedOrNot ==
  ASSUME Inv, up, NEW m \in GoodStates, IsAhead(m, mem), Saved(m) \/ SaveFails(m)
  PROVE  Change(m) /\ faults' \in 0 .. MaxFaults
<1>1. Writes(m) \/ Spoils(m) \/ Ends
  BY DEF Inv, TypeOK, Writes, Spoils, Ends, Saved, SaveFails, ReturnsError, DiesSaving
<1>2. faults' = faults \/ (faults < MaxFaults /\ faults' = faults + 1)
  BY Zenon DEF Saved, SaveFails, Fault
<1>3. faults \in 0 .. MaxFaults
  BY DEF Inv, TypeOK
<1>4. faults' \in 0 .. MaxFaults
  BY <1>2, <1>3, BoundsAssumption
<1> QED
  BY <1>1, <1>4 DEF Change

\* An empty store satisfies the invariant.
LEMMA InitInv == Init => Inv
<1> SUFFICES ASSUME Init PROVE Inv
  OBVIOUS
<1>1. NoRecord \in Records /\ NoRecord.caps = {}
  BY DEF NoRecord, Records
<1>2. mem \in States /\ file = mem /\ \A r \in Requests : mem.recs[r] = NoRecord
  BY <1>1 DEF Init, States
<1>3. mem \in GoodStates /\ file \in GoodStates
  BY <1>1, <1>2 DEF GoodStates, Covered
<1>4. TypeOK
  <2>1. faults \in 0 .. MaxFaults
    BY BoundsAssumption DEF Init
  <2> QED
    BY <1>2, <2>1, Zenon DEF Init, TypeOK
<1>5. IsAhead(mem, file)
  BY <1>2 DEF IsAhead, Forward
<1> QED
  BY <1>3, <1>4, <1>5 DEF Init, Inv

\* Every operation keeps the invariant and moves the file's grants forward.
LEMMA NextInv == Inv /\ [Next]_vars => Kept
<1> SUFFICES ASSUME Inv, [Next]_vars PROVE Kept
  OBVIOUS
<1> USE DEF Inv
<1>0. /\ mem \in GoodStates /\ file \in GoodStates /\ TypeOK
      /\ issued \subseteq Requests /\ late \subseteq Requests /\ held \subseteq Requests
      /\ acked \subseteq Requests /\ faults \in 0 .. MaxFaults
      /\ call \in [session : Requests, op : Operations, q : Calls] \union {None}
  BY DEF TypeOK
<1>a. IsAhead(mem, mem)
  BY DEF IsAhead, Forward
<1>s. UNCHANGED <<mem, file, torn, up>> => Change(mem)
  BY <1>0, <1>a DEF Change
<1>1. ASSUME NEW r \in Requests, NEW asked \in Asks, up, RequestSession(r, asked) PROVE Kept
  <2> DEFINE new == [NoRecord EXCEPT !.status = "pending", !.asked = asked]
             m == [mem EXCEPT !.recs[r] = new]
  <2>1. new \in Records /\ new.caps = {} /\ new.status = "pending"
    BY Zenon DEF NoRecord, Records
  <2>2. mem.recs[r].status = "none"
    BY <1>1 DEF RequestSession, NoRecord
  <2>3. Forward("none", "pending")
    BY DEF Forward, Durable!Later, Durable!Phases
  <2>4. Saved(m) \/ SaveFails(m)
    BY <1>1 DEF RequestSession
  <2> HIDE DEF new
  <2>5. m \in GoodStates /\ IsAhead(m, mem)
    BY <1>0, <2>1, <2>2, <2>3, UpdateIsAhead DEF Covered
  <2> HIDE DEF m
  <2>6. Change(m) /\ faults' \in 0 .. MaxFaults
    BY <1>1, <2>4, <2>5, SavedOrNot
  <2> QED
    BY <1>0, <1>1, <2>6, ChangeKeeps DEF RequestSession
<1>2. ASSUME NEW r \in Requests, NEW picked \in Approvals, NEW i \in Identities,
             up, ApproveRequest(r, picked, i)
      PROVE  Kept
  <2> DEFINE caps == IF picked = {} THEN mem.recs[r].asked ELSE picked
             new == [status |-> "active", asked |-> mem.recs[r].asked, caps |-> caps, identity |-> i]
             m == [mem EXCEPT !.recs[r] = new]
  <2>1. mem.recs[r] \in Records /\ mem.recs[r].status = "pending"
    BY <1>0, <1>2 DEF ApproveRequest, Granted, GoodStates, States
  <2>2. caps \subseteq Caps /\ new \in Records /\ new.status = "active"
    BY <2>1 DEF Records, Caps
  <2>3. Covered(new.caps, new.asked)
    BY <1>2 DEF ApproveRequest, Granted, Grantable, Covered
  <2>4. Forward("pending", "active")
    BY DEF Forward, Durable!Later, Durable!Phases
  <2>5. \/ Saved(m) /\ issued' = issued \union {r}
        \/ SaveFails(m) /\ UNCHANGED issued
    BY <1>2 DEF ApproveRequest
  <2>6. late' = late \ {r} /\ UNCHANGED <<call, held, acked>>
    BY <1>2 DEF ApproveRequest
  <2> HIDE DEF caps, new
  <2>7. m \in GoodStates /\ IsAhead(m, mem) /\ m.recs[r].status = "active"
    BY <1>0, <2>1, <2>2, <2>3, <2>4, UpdateIsAhead
  <2> HIDE DEF m
  <2>8. Change(m) /\ faults' \in 0 .. MaxFaults
    BY <1>2, <2>5, <2>7, SavedOrNot
  <2>9. \A x \in issued' \ issued : mem'.recs[x].status \in Sessions /\ file'.recs[x].status \in Sessions
    BY <2>5, <2>7 DEF Saved, Sessions
  <2> QED
    BY <1>0, <2>5, <2>6, <2>8, <2>9, ChangeKeeps
<1>3. ASSUME NEW r \in Requests, up, RejectRequest(r) PROVE Kept
  <2> DEFINE m == WithStatus(mem, {r}, "rejected")
  <2>1. /\ {r} \in SUBSET Requests /\ "rejected" \in Durable!Phases
        /\ \A x \in {r} : Forward(mem.recs[x].status, "rejected")
    BY <1>3 DEF RejectRequest, Forward, Durable!Later, Durable!Phases
  <2>2. m \in GoodStates /\ IsAhead(m, mem)
    BY <1>0, <2>1, WithStatusIsAhead, Zenon
  <2>3. Saved(m) \/ SaveFails(m)
    BY <1>3 DEF RejectRequest
  <2> HIDE DEF m
  <2>4. Change(m) /\ faults' \in 0 .. MaxFaults
    BY <1>3, <2>2, <2>3, SavedOrNot
  <2> QED
    BY <1>0, <1>3, <2>4, ChangeKeeps DEF RejectRequest
<1>4. ASSUME NEW r \in Requests, up, PollStatus(r) PROVE Kept
  <2>1. Change(mem)
    BY <1>4, <1>s DEF PollStatus
  <2> QED
    BY <1>0, <1>4, <2>1, ChangeKeeps DEF PollStatus
<1>5. ASSUME NEW S \in SUBSET Requests, up, Acknowledged(WithStatus(mem, S, "revoked"), S),
             \A r \in S : HasSession(r), UNCHANGED <<issued, late, call, held>>
      PROVE  Kept
  <2> DEFINE m == WithStatus(mem, S, "revoked")
  <2>1. ASSUME NEW r \in S PROVE Forward(mem.recs[r].status, "revoked")
    <3>1. mem.recs[r].status \in {"active", "expired", "revoked"}
      BY <1>0, <1>5, StatusIsPhase DEF HasSession, GoodStates, Durable!Phases
    <3> QED
      BY <3>1 DEF Forward, Durable!Later
  <2>2. "revoked" \in Durable!Phases
    BY DEF Durable!Phases
  <2>3. m \in GoodStates /\ IsAhead(m, mem) /\ \A r \in S : m.recs[r].status = "revoked"
    BY <1>0, <2>1, <2>2, WithStatusIsAhead
  <2>4. \/ Saved(m) /\ acked' = acked \union S
        \/ SaveFails(m) /\ UNCHANGED acked
    BY <1>5 DEF Acknowledged
  <2> HIDE DEF m
  <2>5. Change(m) /\ faults' \in 0 .. MaxFaults
    BY <1>5, <2>3, <2>4, SavedOrNot
  <2>6. \A r \in acked' \ acked : mem'.recs[r].status = "revoked" /\ file'.recs[r].status = "revoked"
    BY <2>3, <2>4 DEF Saved
  <2> QED
    BY <1>0, <1>5, <2>4, <2>5, <2>6, ChangeKeeps
<1>6. ASSUME NEW r \in Requests, up, RevokeSession(r) PROVE Kept
  BY <1>5, <1>6 DEF RevokeSession
<1>7. CASE up /\ RevokeDevice
  <2> DEFINE S == {r \in Requests : mem.recs[r].status = "active"}
  <2>1. CASE Acknowledged(WithStatus(mem, S, "revoked"), S)
    BY <1>5, <1>7, <2>1 DEF RevokeDevice, HasSession
  <2>2. CASE UNCHANGED <<mem, file, torn, up, acked, faults>>
    <3>1. Change(mem)
      BY <1>s, <2>2
    <3> QED
      BY <1>0, <1>7, <2>2, <3>1, ChangeKeeps DEF RevokeDevice
  <2> QED
    BY <1>7, <2>1, <2>2 DEF RevokeDevice, revoke_sessions_for_device
<1>8. ASSUME NEW r \in Requests, DeadlinePasses(r) PROVE Kept
  <2>1. Change(mem)
    BY <1>8, <1>s DEF DeadlinePasses
  <2> QED
    BY <1>0, <1>8, <2>1, ChangeKeeps DEF DeadlinePasses
<1>9. ASSUME NEW r \in Requests, up, ExpireOnUse(r) PROVE Kept
  <2> DEFINE m == WithStatus(mem, {r}, "expired")
  <2>1. /\ {r} \in SUBSET Requests /\ "expired" \in Durable!Phases
        /\ \A x \in {r} : Forward(mem.recs[x].status, "expired")
    BY <1>9 DEF ExpireOnUse, Forward, Durable!Later, Durable!Phases
  <2>2. m \in GoodStates /\ IsAhead(m, mem)
    BY <1>0, <2>1, WithStatusIsAhead, Zenon
  <2>3. Saved(m) \/ SaveFails(m)
    BY <1>9 DEF ExpireOnUse
  <2> HIDE DEF m
  <2>4. Change(m) /\ faults' \in 0 .. MaxFaults
    BY <1>9, <2>2, <2>3, SavedOrNot
  <2> QED
    BY <1>0, <1>9, <2>4, ChangeKeeps DEF ExpireOnUse
<1>10. ASSUME NEW r \in Requests, NEW q \in Calls, NEW op, up, Call(r, op, q) PROVE Kept
  <2>1. Change(mem) /\ UNCHANGED faults
    BY <1>0, <1>10, <1>a DEF Call, Saved, Change, Writes
  <2> QED
    BY <1>0, <1>10, <2>1, ChangeKeeps DEF Call
<1>11. ASSUME NEW r \in Requests, NEW q \in Calls, NEW op \in {"subscribe", "unsubscribe"},
              up, BeginCall(r, op, q)
       PROVE  Kept
  <2>1. Change(mem) /\ UNCHANGED faults
    BY <1>0, <1>11, <1>a DEF BeginCall, Saved, Change, Writes
  <2>2. call' \in [session : Requests, op : Operations, q : Calls]
    BY <1>11 DEF BeginCall, Operations
  <2> QED
    BY <1>0, <1>11, <2>1, <2>2, ChangeKeeps DEF BeginCall
<1>12. ASSUME NEW r \in Requests, up, CallCannotSave(r) PROVE Kept
  <2>1. Change(mem) /\ faults' \in 0 .. MaxFaults
    BY <1>0, <1>12, <1>a, SavedOrNot DEF CallCannotSave
  <2> QED
    BY <1>0, <1>12, <2>1, ChangeKeeps DEF CallCannotSave
<1>13. CASE up /\ FinishCall
  <2> DEFINE s == Subscription(call)
  <2>1. call \in [session : Requests, op : Operations, q : Calls]
    BY <1>0, <1>13 DEF FinishCall
  <2>2. s \in Subscriptions /\ mem.subs \subseteq Subscriptions
    BY <1>0, <2>1 DEF Subscription, Subscriptions, Calls, GoodStates, States
  <2>3. call' = None /\ UNCHANGED <<issued, late, held, acked>>
    BY <1>13 DEF FinishCall
  <2>4. ASSUME NEW m \in {[mem EXCEPT !.subs = @ \union {s}], [mem EXCEPT !.subs = @ \ {s}]},
               Saved(m) \/ SaveFails(m)
        PROVE  Kept
    <3>1. m \in GoodStates /\ IsAhead(m, mem)
      <4>1. /\ mem.subs \union {s} \in SUBSET Subscriptions
            /\ mem.subs \ {s} \in SUBSET Subscriptions
        BY <2>2
      <4> HIDE DEF s
      <4> QED
        BY <1>0, <4>1, SubscriptionsAside
    <3>2. Change(m) /\ faults' \in 0 .. MaxFaults
      BY <1>13, <2>4, <3>1, SavedOrNot
    <3> QED
      BY <1>0, <2>3, <3>2, ChangeKeeps
  <2>5. CASE UNCHANGED <<mem, file, torn, up, faults>>
    <3>1. Change(mem)
      BY <1>s, <2>5
    <3> QED
      BY <1>0, <2>3, <2>5, <3>1, ChangeKeeps
  <2> QED
    BY <1>13, <2>4, <2>5 DEF FinishCall, RegisterSubscription, RemoveSubscription
<1>14. CASE up /\ Crash
  <2>1. Change(mem)
    BY <1>0, <1>14, <1>a DEF Crash, Change, Ends
  <2> QED
    BY <1>0, <1>14, <2>1, ChangeKeeps DEF Crash
<1>16. CASE Start
  <2>1. Change(mem)
    BY <1>0, <1>16, <1>a DEF Start, Change, Starts
  <2> QED
    BY <1>0, <1>16, <2>1, ChangeKeeps DEF Start
<1>15. CASE UNCHANGED vars
  <2>1. Change(mem)
    BY <1>15, <1>s DEF vars
  <2> QED
    BY <1>0, <1>15, <2>1, ChangeKeeps DEF vars
<1> QED
  BY <1>1, <1>2, <1>3, <1>4, <1>6, <1>7, <1>8, <1>9, <1>10, <1>11, <1>12, <1>13, <1>14, <1>15, <1>16
  DEF Next, Running

\* The invariant holds of the store and its file in every behaviour (AppSessionStore).
THEOREM Invariance == Spec => []Inv
  BY InitInv, NextInv, PTL DEF Spec, Kept

----------------------------------------------------------------------------
(* The properties *)

\* Type correctness.
THEOREM TypeCorrect == Spec => []TypeOK
  BY Invariance, PTL DEF Inv

\* A revocation that the caller was told of stands for ever, over saves that fail,
\* are cut short or kill the daemon, and over every restart that succeeds
\* (revoke_session, revoke_sessions_for_device, save_state, load_state).
THEOREM RevocationIsFinal == Spec => []RevokedStaysRevoked
<1>1. Inv => RevokedStaysRevoked
  BY DEF Inv, RevokedStaysRevoked
<1> QED
  BY <1>1, Invariance, PTL

\* A token that an app was given belongs to a session in memory and in every file
\* the daemon can start from (approve_request saves before it hands it over).
THEOREM TokensAreDurable == Spec => []HeldTokensAreDurable
<1>1. Inv => HeldTokensAreDurable
  BY DEF Inv, HeldTokensAreDurable, Sessions
<1> QED
  BY <1>1, Invariance, PTL

\* Whatever capabilities are asked for and granted, and whatever path a call
\* names, an active session may do nothing its request did not cover
\* (PathScope::contains at the grant, path_matches at the use).
THEOREM GrantsStayWithinRequests == Spec => []CallsWereAskedFor
<1>1. Inv => CallsWereAskedFor
  <2> SUFFICES ASSUME Inv, NEW r \in Requests, NEW q \in Calls
               PROVE  Allowed(mem.recs[r], q) \subseteq
                        Allowed([mem.recs[r] EXCEPT !.caps = mem.recs[r].asked], q)
    BY DEF CallsWereAskedFor
  <2>1. mem.recs[r] \in Records /\ Covered(mem.recs[r].caps, mem.recs[r].asked)
    BY DEF Inv, GoodStates, States
  <2> QED
    BY <2>1, AllowedIsCovered
<1> QED
  BY <1>1, Invariance, PTL

\* The session file implements GrantLifecycle: what it says of a grant only
\* moves forward, whatever is saved, cut short, mended or read back.
THEOREM FileImplementsLifecycle == Spec => DurableGrants
<1>1. Init => Durable!Init
  BY DEF Init, NoRecord, Durable!Init
<1> QED
  BY <1>1, NextInv, Invariance, PTL DEF Spec, DurableGrants, Durable!Spec, Kept
=============================================================================
