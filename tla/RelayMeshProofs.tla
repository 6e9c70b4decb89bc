-------------------------- MODULE RelayMeshProofs --------------------------
(***************************************************************************)
(* The forward groups of RelayMesh count their requests exactly, for any   *)
(* mesh, any number of queries and any time to live.                       *)
(***************************************************************************)
EXTENDS RelayMesh, FiniteSetTheorems, TLAPS

Roles == {"gossip", "ask", "forward", "diagnosis"}
Stages == {"sent", "held", "answered", "late"}

IsCall(c) ==
    /\ c \in [from : {c.from}, to : {c.to}, role : Roles, request : {c.request},
              stage : Stages, mapped : BOOLEAN, answer : {c.answer}]
    /\ c.role # "gossip" => c.from \in Nodes /\ c.to \in Nodes
    /\ c.stage = "held" => c.role # "gossip"
    /\ c.stage = "late" => ~c.mapped

IsGroup(g) ==
    g \in [query : {g.query}, channel : {g.channel}, providers : {g.providers},
           deadline : {g.deadline}, remaining : Nat]

\* The request ids in pending_identity_provider_forwards, each as who forwards
\* which query to whom.
Counts(c) == c.role = "forward" /\ c.mapped
Route(c) == <<c.from, c.request.query, c.to>>
SameRequest(d, c) ==
    Route(d) = Route(c) /\ d.role = c.role /\ d.request = c.request /\ d.from = c.from
Live(cs) == {Route(c) : c \in {x \in cs : Counts(x)}}
Outstanding(cs, n, q) == {p \in Nodes : <<n, q, p>> \in Live(cs)}

\* A node forwards a query that it has seen, and to a peer once.
Good(cs, s) ==
    /\ \A c \in cs : IsCall(c) /\ (c.role = "forward" => c.request.query \in s[c.from])
    /\ \A x, y \in cs : Counts(x) /\ Counts(y) /\ Route(x) = Route(y) => x = y

\* A group of an open query, the only one of that query.
GroupsOK(gs, cs, s) ==
    /\ \A n \in Nodes : \A g \in gs[n] :
          /\ IsGroup(g) /\ g.query \in s[n]
          /\ g.remaining > 0 /\ g.remaining = Cardinality(Outstanding(cs, n, g.query))
    /\ \A n \in Nodes : \A g, h \in gs[n] : g.query = h.query => g = h
    /\ \A r \in Live(cs) : \E g \in gs[r[1]] : g.query = r[2]

HeldOK(gs, cs) == \A c \in cs : c.stage = "held" => \E g \in gs[c.to] : g.channel = Channel(c)

\* GroupsAreExact alone is not kept: a query that was forwarded before must not
\* be forwarded again, which seen_identity_provider_queries prevents, and the
\* requests of a query have to differ in their receiver to be counted by it.
Inv ==
    /\ linked \in [Nodes -> SUBSET Nodes]
    /\ seen = [n \in Nodes |-> seen[n]]
    /\ groups = [n \in Nodes |-> groups[n]]
    /\ Good(calls, seen)
    /\ GroupsOK(groups, calls, seen)
    /\ HeldOK(groups, calls)

----------------------------------------------------------------------------
(* Sets of calls *)

\* Fewer calls.
LEMMA FewerCalls ==
  ASSUME NEW cs, NEW s, NEW ds \in SUBSET cs, Good(cs, s)
  PROVE  /\ Good(ds, s)
         /\ (\A c \in cs \ ds : ~Counts(c)) => Live(ds) = Live(cs)
<1>1. Good(ds, s)
  BY DEF Good
<1>2. ASSUME \A c \in cs \ ds : ~Counts(c)
      PROVE  Live(ds) = Live(cs)
  BY <1>2, Zenon DEF Live
<1> QED
  BY <1>1, <1>2

\* More calls, none of them a forward whose answer is awaited.
LEMMA MoreCalls ==
  ASSUME NEW cs, NEW s, NEW more, Good(cs, s),
         \A c \in more : IsCall(c) /\ ~Counts(c)
                         /\ (c.role = "forward" => c.request.query \in s[c.from])
  PROVE  Good(cs \cup more, s) /\ Live(cs \cup more) = Live(cs)
<1>1. Good(cs \cup more, s)
  BY Zenon DEF Good
<1>2. Live(cs \cup more) = Live(cs)
  BY Zenon DEF Live
<1> QED
  BY <1>1, <1>2

\* Calls that change and stay what they are.
LEMMA ChangedCalls ==
  ASSUME NEW cs, NEW s, NEW F, Good(cs, s),
         \A c \in cs : IsCall(F[c]) /\ SameRequest(F[c], c) /\ (Counts(F[c]) => Counts(c))
  PROVE  /\ Good({F[c] : c \in cs}, s)
         /\ Live({F[c] : c \in cs}) = {Route(c) : c \in {x \in cs : Counts(F[x])}}
<1>1. Good({F[c] : c \in cs}, s)
  <2>1. ASSUME NEW d \in {F[c] : c \in cs}
        PROVE  IsCall(d) /\ (d.role = "forward" => d.request.query \in s[d.from])
    <3>1. PICK c \in cs : d = F[c]
      BY <2>1
    <3>2. c.role = "forward" => c.request.query \in s[c.from]
      BY DEF Good
    <3> QED
      BY <3>1, <3>2 DEF SameRequest
  <2>2. ASSUME NEW x \in {F[c] : c \in cs}, NEW y \in {F[c] : c \in cs},
               Counts(x), Counts(y), Route(x) = Route(y)
        PROVE  x = y
    <3>1. PICK a \in cs : x = F[a]
      BY <2>2
    <3>2. PICK b \in cs : y = F[b]
      BY <2>2
    <3>3. Counts(a) /\ Counts(b) /\ Route(a) = Route(b)
      BY <2>2, <3>1, <3>2 DEF SameRequest
    <3>4. a = b
      BY <3>3 DEF Good
    <3> QED
      BY <3>1, <3>2, <3>4
  <2> QED
    BY <2>1, <2>2 DEF Good
<1>2. Live({F[c] : c \in cs}) = {Route(c) : c \in {x \in cs : Counts(F[x])}}
  <2>1. ASSUME NEW r \in Live({F[c] : c \in cs})
        PROVE  r \in {Route(c) : c \in {x \in cs : Counts(F[x])}}
    <3>1. PICK d \in {F[c] : c \in cs} : Counts(d) /\ r = Route(d)
      BY <2>1 DEF Live
    <3>2. PICK c \in cs : d = F[c]
      BY <3>1
    <3> QED
      BY <3>1, <3>2 DEF SameRequest
  <2>2. ASSUME NEW c \in cs, Counts(F[c])
        PROVE  Route(c) \in Live({F[x] : x \in cs})
    <3>1. F[c] \in {F[x] : x \in cs} /\ Route(F[c]) = Route(c)
      BY DEF SameRequest
    <3> QED
      BY <2>2, <3>1 DEF Live
  <2> QED
    BY <2>1, <2>2
<1> QED
  BY <1>1, <1>2

\* The answer to a call: nothing else of it changes.
LEMMA ToldCall ==
  ASSUME NEW c, IsCall(c), NEW answer, NEW d, d = [c EXCEPT !.stage = "answered", !.answer = answer]
  PROVE  IsCall(d) /\ SameRequest(d, c) /\ (Counts(d) <=> Counts(c)) /\ d.stage = "answered"
BY Zenon DEF IsCall, Stages, Roles, Route, Counts, SameRequest

\* A receiver keeps a call's channel.
LEMMA HeldCall ==
  ASSUME NEW c, IsCall(c), c.role # "gossip", c.stage # "late",
         NEW d, d = [c EXCEPT !.stage = "held"]
  PROVE  /\ IsCall(d) /\ SameRequest(d, c) /\ (Counts(d) <=> Counts(c))
         /\ d.to = c.to /\ d.stage = "held" /\ Channel(d) = Channel(c)
BY DEF IsCall, Stages, Roles, Route, Counts, SameRequest, Channel

\* The asker gives a call up.
LEMMA LateCall ==
  ASSUME NEW c, IsCall(c), NEW d, d = [c EXCEPT !.stage = "late", !.mapped = FALSE]
  PROVE  IsCall(d) /\ SameRequest(d, c) /\ ~Counts(d) /\ d.stage = "late"
BY Zenon DEF IsCall, Stages, Roles, Route, Counts, SameRequest

\* The asker forgets a call's request id.
LEMMA ForgottenCall ==
  ASSUME NEW c, IsCall(c), NEW d, d = [c EXCEPT !.mapped = FALSE]
  PROVE  /\ IsCall(d) /\ SameRequest(d, c) /\ ~Counts(d)
         /\ d.to = c.to /\ d.stage = c.stage /\ Channel(d) = Channel(c)
BY Zenon DEF IsCall, Stages, Roles, Route, Counts, SameRequest, Channel

\* A response on a kept channel.
LEMMA RespondKeeps ==
  ASSUME NEW cs, NEW s, NEW channel, NEW providers, Good(cs, s)
  PROVE  LET ds == RespondTo(cs, channel, providers)
         IN  /\ Good(ds, s) /\ Live(ds) = Live(cs)
             /\ \A d \in ds : d.stage = "held" => d \in cs /\ Channel(d) # channel
<1> DEFINE Held(x) == Channel(x) = channel /\ x.stage = "held"
           Told(x) == [x EXCEPT !.stage = "answered", !.answer = Deduped(providers, QueryLimit)]
           F == [x \in cs |-> IF Held(x) THEN Told(x) ELSE x]
           ds == RespondTo(cs, channel, providers)
<1>1. ds = {F[x] : x \in cs}
  <2>1. ds = (cs \ {x \in cs : Held(x)}) \cup {Told(x) : x \in {y \in cs : Held(y)}}
    BY DEF RespondTo
  <2> HIDE DEF ds, Held, Told
  <2> QED
    BY <2>1
<1>2. \A x \in cs : IsCall(x)
  BY DEF Good
<1>3. \A x \in cs : /\ IsCall(Told(x)) /\ SameRequest(Told(x), x)
                    /\ (Counts(Told(x)) <=> Counts(x)) /\ Told(x).stage = "answered"
  <2> SUFFICES ASSUME NEW x \in cs, NEW d, d = Told(x)
               PROVE  IsCall(d) /\ SameRequest(d, x) /\ (Counts(d) <=> Counts(x)) /\ d.stage = "answered"
    BY Zenon
  <2> DEFINE answer == Deduped(providers, QueryLimit)
  <2>1. d = [x EXCEPT !.stage = "answered", !.answer = answer]
    OBVIOUS
  <2>2. IsCall(x)
    BY <1>2
  <2> HIDE DEF answer
  <2> QED
    BY ONLY <2>1, <2>2, Zenon DEF IsCall, Stages, Roles, Route, Counts, SameRequest
<1> HIDE DEF ds, Told
<1>4. \A x \in cs : IsCall(F[x]) /\ SameRequest(F[x], x) /\ (Counts(F[x]) <=> Counts(x))
  BY <1>2, <1>3 DEF SameRequest
<1>5. \A x \in cs : F[x].stage = "held" => F[x] = x /\ Channel(x) # channel
  BY <1>3
<1> HIDE DEF F
<1>6. Good(ds, s) /\ Live(ds) = {Route(c) : c \in {x \in cs : Counts(F[x])}}
  BY <1>1, <1>4, ChangedCalls
<1>7. Live(ds) = Live(cs)
  <2>1. \A x \in cs : Counts(F[x]) <=> Counts(x)
    BY <1>4
  <2> QED
    BY <1>6, <2>1, Zenon DEF Live
<1>8. \A d \in ds : d.stage = "held" => d \in cs /\ Channel(d) # channel
  BY <1>1, <1>5
<1> QED
  BY <1>6, <1>7, <1>8 DEF ds

\* A node forgets the request ids of a query.
LEMMA UnmappedKeeps ==
  ASSUME NEW cs, NEW s, NEW n, NEW role, NEW q, Good(cs, s)
  PROVE  LET ds == Unmapped(cs, n, role, q)
         IN  /\ Good(ds, s)
             /\ role # "forward" => Live(ds) = Live(cs)
             /\ role = "forward" => Live(ds) = {r \in Live(cs) : r[1] # n \/ r[2] # q}
             /\ \A d \in ds : d.stage = "held" =>
                  \E x \in cs : x.stage = "held" /\ Channel(x) = Channel(d) /\ x.to = d.to
<1> DEFINE Its(x) == x.from = n /\ x.role = role /\ x.request.query = q
           Off(x) == [x EXCEPT !.mapped = FALSE]
           F == [x \in cs |-> IF Its(x) THEN Off(x) ELSE x]
           ds == Unmapped(cs, n, role, q)
<1>1. ds = {F[x] : x \in cs}
  BY DEF Unmapped
<1>2. \A x \in cs : IsCall(x)
  BY DEF Good
<1>3. \A x \in cs : /\ IsCall(Off(x)) /\ SameRequest(Off(x), x) /\ Off(x).to = x.to
                    /\ ~Counts(Off(x)) /\ Off(x).stage = x.stage /\ Channel(Off(x)) = Channel(x)
  BY <1>2, ForgottenCall, Zenon
<1> HIDE DEF ds, Off
<1>4. \A x \in cs : /\ IsCall(F[x]) /\ SameRequest(F[x], x) /\ F[x].to = x.to
                    /\ F[x].stage = x.stage /\ Channel(F[x]) = Channel(x)
                    /\ (Counts(F[x]) => Counts(x))
  BY <1>2, <1>3 DEF SameRequest
<1>5. \A x \in cs : Counts(F[x]) <=> Counts(x) /\ ~Its(x)
  BY <1>2, <1>3
<1> HIDE DEF F
<1>6. Good(ds, s) /\ Live(ds) = {Route(c) : c \in {x \in cs : Counts(F[x])}}
  BY <1>1, <1>4, ChangedCalls
<1>7. ASSUME role # "forward"
      PROVE  Live(ds) = Live(cs)
  <2>1. \A x \in cs : Counts(F[x]) <=> Counts(x)
    BY <1>5, <1>7 DEF Counts
  <2> QED
    BY <1>6, <2>1, Zenon DEF Live
<1>8. ASSUME role = "forward"
      PROVE  Live(ds) = {r \in Live(cs) : r[1] # n \/ r[2] # q}
  <2>1. \A x \in cs : Counts(F[x]) <=> Counts(x) /\ (Route(x)[1] # n \/ Route(x)[2] # q)
    BY <1>5, <1>8 DEF Counts, Route
  <2>2. Live(cs) = {Route(c) : c \in {x \in cs : Counts(x)}}
    BY DEF Live
  <2> HIDE DEF Its
  <2>3. \A r : r \in Live(ds) <=> \E x \in cs : Counts(F[x]) /\ r = Route(x)
    BY <1>6
  <2>4. \A r : r \in Live(cs) <=> \E x \in cs : Counts(x) /\ r = Route(x)
    BY <2>2
  <2> QED
    BY <2>1, <2>3, <2>4
<1>9. \A d \in ds : d.stage = "held" =>
        \E x \in cs : x.stage = "held" /\ Channel(x) = Channel(d) /\ x.to = d.to
  BY <1>1, <1>4
<1> QED
  BY <1>6, <1>7, <1>8, <1>9 DEF ds

HeldStays(ds, cs) ==
    \A d \in ds : d.stage = "held" =>
        \E x \in cs : x.stage = "held" /\ Channel(x) = Channel(d) /\ x.to = d.to

LEMMA UnmappedForward ==
  ASSUME NEW cs, NEW s, NEW n, NEW q, Good(cs, s), NEW ds, ds = Unmapped(cs, n, "forward", q)
  PROVE  /\ Good(ds, s) /\ HeldStays(ds, cs)
         /\ Live(ds) = {r \in Live(cs) : r[1] # n \/ r[2] # q}
  BY UnmappedKeeps DEF HeldStays

LEMMA UnmappedOther ==
  ASSUME NEW cs, NEW s, NEW n, NEW role, role # "forward", NEW q, Good(cs, s),
         NEW ds, ds = Unmapped(cs, n, role, q)
  PROVE  Good(ds, s) /\ Live(ds) = Live(cs) /\ HeldStays(ds, cs)
  BY UnmappedKeeps DEF HeldStays

\* The requests of a query are as many as the peers it was forwarded to.
LEMMA RoutesAreCounted ==
  ASSUME NEW cs, NEW s, NEW n, NEW q, Good(cs, s)
  PROVE  LET out == {c \in cs : c.from = n /\ c.role = "forward" /\ c.mapped /\ c.request.query = q}
         IN  IsFiniteSet(out) /\ Cardinality(out) = Cardinality(Outstanding(cs, n, q))
<1> DEFINE out == {c \in cs : c.from = n /\ c.role = "forward" /\ c.mapped /\ c.request.query = q}
           peers == Outstanding(cs, n, q)
           f == [c \in out |-> c.to]
<1>1. \A c \in out : Counts(c) /\ Route(c) = <<n, q, c.to>> /\ c.to \in Nodes
  BY DEF Good, IsCall, Counts, Route
<1>2. peers \subseteq Nodes /\ IsFiniteSet(peers)
  BY MeshAssumption, FS_Subset, Zenon DEF Outstanding
<1>3. f \in [out -> peers]
  BY <1>1 DEF Outstanding, Live
<1>4. \A x, y \in out : f[x] = f[y] => x = y
  BY <1>1 DEF Good
<1>5. \A p \in peers : \E c \in out : f[c] = p
  <2> SUFFICES ASSUME NEW p \in peers PROVE \E c \in out : f[c] = p
    OBVIOUS
  <2>1. PICK c \in cs : Counts(c) /\ Route(c) = <<n, q, p>>
    BY DEF Outstanding, Live
  <2> QED
    BY <2>1 DEF Counts, Route
<1>6. f \in Injection(out, peers)
  BY <1>3, <1>4, Zenon DEF Injection, IsInjective
<1>7. f \in Surjection(out, peers)
  BY <1>3, <1>5 DEF Surjection
<1> HIDE DEF f, peers, out
<1>8. IsFiniteSet(out) /\ Cardinality(out) <= Cardinality(peers)
  BY <1>2, <1>6, FS_Injection
<1>9. Cardinality(peers) <= Cardinality(out)
  BY <1>7, <1>8, FS_Surjection
<1>10. Cardinality(out) \in Nat /\ Cardinality(peers) \in Nat
  BY <1>2, <1>8, FS_CardinalityType
<1> QED
  BY <1>8, <1>9, <1>10 DEF out, peers

\* The invariant says what GroupsAreExact says.
LEMMA InvIsExact == Inv => GroupsAreExact
<1> SUFFICES ASSUME Inv PROVE GroupsAreExact
  OBVIOUS
<1>1. ASSUME NEW n \in Nodes, NEW g \in groups[n]
      PROVE  g.remaining > 0 /\ g.remaining =
               Cardinality({c \in {x \in calls : x.from = n /\ x.role = "forward" /\ x.mapped} :
                               c.request.query = g.query})
  <2>1. {c \in {x \in calls : x.from = n /\ x.role = "forward" /\ x.mapped} : c.request.query = g.query}
          = {c \in calls : c.from = n /\ c.role = "forward" /\ c.mapped /\ c.request.query = g.query}
    OBVIOUS
  <2>2. g.remaining > 0 /\ g.remaining = Cardinality(Outstanding(calls, n, g.query))
    BY DEF Inv, GroupsOK
  <2>3. Good(calls, seen)
    BY DEF Inv
  <2> QED
    BY <2>1, <2>2, <2>3, RoutesAreCounted
<1>2. ASSUME NEW n \in Nodes, NEW c \in calls, c.from = n, c.role = "forward", c.mapped
      PROVE  \E g \in groups[n] : g.query = c.request.query
  <2>1. Route(c) \in Live(calls) /\ Route(c)[1] = n /\ Route(c)[2] = c.request.query
    BY <1>2 DEF Live, Counts, Route
  <2> QED
    BY <2>1 DEF Inv, GroupsOK
<1>3. \A c \in calls : c.stage = "held" => \E g \in groups[c.to] : g.channel = Channel(c)
  BY DEF Inv, HeldOK
<1> QED
  BY <1>1, <1>2, <1>3 DEF GroupsAreExact

----------------------------------------------------------------------------
(* Steps *)

\* Initially nothing is in flight.
LEMMA InitInv == Init => Inv
<1> SUFFICES ASSUME Init PROVE Inv
  OBVIOUS
<1>1. calls = {} /\ groups = [n \in Nodes |-> {}] /\ seen = [n \in Nodes |-> {}]
      /\ linked \in [Nodes -> SUBSET Nodes]
  BY MeshAssumption DEF Init
<1>2. Live(calls) = {}
  BY <1>1 DEF Live
<1> QED
  BY <1>1, <1>2 DEF Inv, Good, GroupsOK, HeldOK

\* A step of gossip, of a resolve's own query or of a diagnosis: no group is
\* touched.
LEMMA QuietKeeps ==
  ASSUME Inv, Good(calls', seen), Live(calls') = Live(calls), UNCHANGED <<groups, seen>>,
         linked' \in [Nodes -> SUBSET Nodes],
         \A d \in calls' : d.stage = "held" =>
            \E c \in calls : c.stage = "held" /\ Channel(c) = Channel(d) /\ c.to = d.to
  PROVE  Inv'
<1>1. groups' = groups /\ seen' = seen
  OBVIOUS
<1>2. \A n, q : Outstanding(calls', n, q) = Outstanding(calls, n, q)
  BY DEF Outstanding
<1>3. GroupsOK(groups, calls', seen)
  <2>1. GroupsOK(groups, calls, seen)
    BY DEF Inv
  <2>2. \A n \in Nodes : \A g \in groups[n] :
          /\ IsGroup(g) /\ g.query \in seen[n]
          /\ g.remaining > 0 /\ g.remaining = Cardinality(Outstanding(calls', n, g.query))
    BY <1>2, <2>1 DEF GroupsOK
  <2>3. \A r \in Live(calls') : \E g \in groups[r[1]] : g.query = r[2]
    BY <2>1, Zenon DEF GroupsOK
  <2> QED
    BY <2>1, <2>2, <2>3 DEF GroupsOK
<1>4. HeldOK(groups, calls')
  <2>1. HeldOK(groups, calls)
    BY DEF Inv
  <2> SUFFICES ASSUME NEW d \in calls', d.stage = "held"
               PROVE  \E g \in groups[d.to] : g.channel = Channel(d)
    BY DEF HeldOK
  <2>2. PICK c \in calls : c.stage = "held" /\ Channel(c) = Channel(d) /\ c.to = d.to
    OBVIOUS
  <2>3. PICK g \in groups[c.to] : g.channel = Channel(c)
    BY <2>1, <2>2 DEF HeldOK
  <2> QED
    BY <2>2, <2>3
<1>5. seen' = [n \in Nodes |-> seen'[n]] /\ groups' = [n \in Nodes |-> groups'[n]]
  BY <1>1 DEF Inv
<1> QED
  BY <1>1, <1>3, <1>4, <1>5 DEF Inv

\* What a new request is.
IsNew(c, from, to, role, request) ==
    /\ IsCall(c) /\ c.stage = "sent" /\ c.from = from /\ c.to = to /\ c.role = role
    /\ c.request = request /\ (Counts(c) <=> role = "forward")

LEMMA NewCall ==
  ASSUME NEW from, NEW to, NEW role \in Roles, NEW request,
         role # "gossip" => from \in Nodes /\ to \in Nodes
  PROVE  IsNew(Call(from, to, role, request), from, to, role, request)
<1> DEFINE c == Call(from, to, role, request)
           mapped == role \in {"forward", "diagnosis"}
<1>1. c = [from |-> from, to |-> to, role |-> role, request |-> request, stage |-> "sent",
           mapped |-> mapped, answer |-> <<>>]
  BY DEF Call
<1>2. mapped \in BOOLEAN
  OBVIOUS
<1>3. role = "forward" => mapped
  OBVIOUS
<1> HIDE DEF c, mapped
<1>4. /\ c.from = from /\ c.to = to /\ c.role = role /\ c.request = request /\ c.stage = "sent"
      /\ c.mapped = mapped /\ c.answer = <<>>
      /\ c \in [from : {c.from}, to : {c.to}, role : Roles, request : {c.request}, stage : Stages,
                mapped : BOOLEAN, answer : {c.answer}]
  BY <1>1, <1>2 DEF Stages
<1>5. IsCall(c)
  BY <1>4 DEF IsCall
<1>6. Counts(c) <=> role = "forward"
  BY <1>3, <1>4 DEF Counts
<1> QED
  BY <1>4, <1>5, <1>6 DEF IsNew, c

\* A call becomes another call of the same route.
LEMMA Swapped ==
  ASSUME NEW cs, NEW s, Good(cs, s), NEW c \in cs,
         NEW d, IsCall(d), SameRequest(d, c), Counts(d) <=> Counts(c)
  PROVE  LET ds == (cs \ {c}) \cup {d}
         IN  Good(ds, s) /\ Live(ds) = Live(cs)
<1> DEFINE F == [x \in cs |-> IF x = c THEN d ELSE x]
           ds == (cs \ {c}) \cup {d}
<1>1. ds = {F[x] : x \in cs}
  OBVIOUS
<1>2. \A x \in cs : IsCall(x)
  BY DEF Good
<1>3. \A x \in cs : IsCall(F[x]) /\ SameRequest(F[x], x) /\ (Counts(F[x]) <=> Counts(x))
  BY <1>2 DEF SameRequest
<1> HIDE DEF F, ds
<1>4. Good(ds, s) /\ Live(ds) = {Route(x) : x \in {y \in cs : Counts(F[y])}}
  BY <1>1, <1>3, ChangedCalls
<1>5. Live(ds) = Live(cs)
  <2>1. \A x \in cs : Counts(F[x]) <=> Counts(x)
    BY <1>3
  <2> QED
    BY <1>4, <2>1, ZenonT(40) DEF Live
<1> QED
  BY <1>4, <1>5 DEF ds

\* A call ends.
LEMMA Ended ==
  ASSUME NEW cs, NEW s, Good(cs, s), NEW c \in cs
  PROVE  /\ Good(cs \ {c}, s)
         /\ ~Counts(c) => Live(cs \ {c}) = Live(cs)
         /\ Counts(c) => Live(cs \ {c}) = Live(cs) \ {Route(c)}
<1>1. Good(cs \ {c}, s)
  BY FewerCalls
<1>2. ~Counts(c) => Live(cs \ {c}) = Live(cs)
  BY FewerCalls
<1>3. ASSUME Counts(c)
      PROVE  Live(cs \ {c}) = Live(cs) \ {Route(c)}
  <2>1. \A r : r \in Live(cs) <=> \E x \in cs : Counts(x) /\ r = Route(x)
    BY DEF Live
  <2>2. \A r : r \in Live(cs \ {c}) <=> \E x \in cs : x # c /\ Counts(x) /\ r = Route(x)
    BY DEF Live
  <2>3. \A x \in cs : Counts(x) /\ Route(x) = Route(c) => x = c
    BY <1>3 DEF Good
  <2> QED
    BY <1>3, <2>1, <2>2, <2>3
<1> QED
  BY <1>1, <1>2, <1>3

\* The answer to a call, or to one that was given up.
LEMMA RepliedKeeps ==
  ASSUME Inv, NEW c \in calls, NEW answer
  PROVE  LET ds == Replied(c, answer)
         IN  /\ Good(ds, seen) /\ Live(ds) = Live(calls)
             /\ \A d \in ds : d.stage = "held" => d \in calls
<1>1. Good(calls, seen) /\ IsCall(c)
  BY DEF Inv, Good
<1>2. CASE c.stage = "late"
  <2>1. ~Counts(c)
    BY <1>1, <1>2 DEF IsCall, Counts
  <2>2. Replied(c, answer) = calls \ {c}
    BY <1>2 DEF Replied, Answered
  <2> QED
    BY <1>1, <2>1, <2>2, Ended
<1>3. CASE c.stage # "late"
  <2> DEFINE d == [c EXCEPT !.stage = "answered", !.answer = answer]
  <2>1. Replied(c, answer) = (calls \ {c}) \cup {d}
    BY <1>3 DEF Replied, Answered
  <2>2. IsCall(d) /\ SameRequest(d, c) /\ (Counts(d) <=> Counts(c)) /\ d.stage = "answered"
    BY <1>1, ToldCall, ZenonT(40)
  <2> HIDE DEF d
  <2> QED
    BY <1>1, <2>1, <2>2, Swapped
<1> QED
  BY <1>2, <1>3

\* start_relay_record_exchange sends gossip only.
LEMMA ExchangeKeeps ==
  ASSUME Inv, NEW n, NEW peer, Exchange(n, peer)
  PROVE  /\ Good(calls', seen) /\ Live(calls') = Live(calls)
         /\ \A d \in calls' : d.stage = "held" => d \in calls
<1>1. PICK more : /\ calls' = calls \cup more
                  /\ \A d \in more : \E r : d = Call(n, peer, "gossip", r)
  <2> DEFINE rs == SelectSeq(relay_records_for_exchange(relays[n], OwnRecord(n), RecordsMax, clock),
                             LAMBDA r : r.relay # peer)
             hs == exchange_batch(book[n], cursor[n], clock, ExchangeMax).hints
             Sent(kind, body) ==
               IF body = <<>> THEN {} ELSE {Call(n, peer, "gossip", [kind |-> kind, body |-> body])}
             a == Sent("AnnounceRelays", rs)
             b == Sent("AnnounceIdentityHeads", hs)
             g == {Call(n, peer, "gossip", [kind |-> "GetRelays"]),
                   Call(n, peer, "gossip", [kind |-> "GetIdentityHeads"])}
  <2>1. calls' = calls \cup a \cup b \cup g
    BY DEF Exchange
  <2> HIDE DEF rs, hs
  <2>2. \A d \in a \cup b \cup g : \E r : d = Call(n, peer, "gossip", r)
    BY Zenon
  <2> HIDE DEF a, b, g
  <2>3. calls' = calls \cup (a \cup b \cup g)
    BY <2>1
  <2> QED
    BY <2>2, <2>3, ZenonT(40)
<1>2. \A d \in more : IsCall(d) /\ ~Counts(d) /\ d.role # "forward" /\ d.stage = "sent"
  <2> SUFFICES ASSUME NEW d \in more
               PROVE  IsCall(d) /\ ~Counts(d) /\ d.role # "forward" /\ d.stage = "sent"
    OBVIOUS
  <2>1. PICK r : d = Call(n, peer, "gossip", r)
    BY <1>1
  <2>2. "gossip" \in Roles /\ "gossip" # "forward"
    BY DEF Roles
  <2>3. "gossip" # "gossip" => n \in Nodes /\ peer \in Nodes
    OBVIOUS
  <2>4. IsNew(Call(n, peer, "gossip", r), n, peer, "gossip", r)
    BY <2>2, <2>3, NewCall, Zenon
  <2> QED
    BY <2>1, <2>4 DEF IsNew
<1>3. Good(calls, seen)
  BY DEF Inv
<1> QED
  BY <1>1, <1>2, <1>3, MoreCalls

\* Requests to peers of the node, none of them forwarded.
Requests(more, n, role) == \A d \in more : \E p \in Nodes : \E request : d = Call(n, p, role, request)

LEMMA AsksKeep ==
  ASSUME Inv, NEW n \in Nodes, NEW role \in Roles, role # "forward", NEW more,
         Requests(more, n, role),
         calls' = calls \cup more
  PROVE  /\ Good(calls', seen) /\ Live(calls') = Live(calls)
         /\ \A d \in calls' : d.stage = "held" => d \in calls
<1>1. \A d \in more : IsCall(d) /\ ~Counts(d) /\ d.role # "forward" /\ d.stage = "sent"
  <2> SUFFICES ASSUME NEW d \in more
               PROVE  IsCall(d) /\ ~Counts(d) /\ d.role # "forward" /\ d.stage = "sent"
    OBVIOUS
  <2>0. PICK p \in Nodes : \E request : d = Call(n, p, role, request)
    BY DEF Requests
  <2>1. PICK request : d = Call(n, p, role, request)
    BY <2>0
  <2>3. IsNew(Call(n, p, role, request), n, p, role, request)
    BY NewCall, Zenon
  <2> QED
    BY <2>1, <2>3 DEF IsNew
<1>2. Good(calls, seen)
  BY DEF Inv
<1> QED
  BY <1>1, <1>2, MoreCalls

\* relay_query_peers are nodes.
LEMMA PeersAreNodes ==
  ASSUME Inv, NEW n \in Nodes, NEW x, NEW peers \in QueryPeers(n, x)
  PROVE  peers \in SUBSET Nodes
<1>1. linked[n] \subseteq Nodes
  BY DEF Inv
<1>2. peers \subseteq linked[n]
  BY DEF QueryPeers
<1> QED
  BY <1>1, <1>2

LEMMA ConnectionInv ==
  ASSUME Inv, NEW n \in Nodes, NEW peer \in Nodes, ConnectionEstablished(n, peer)
  PROVE  Inv'
<1>1. linked' \in [Nodes -> SUBSET Nodes] /\ UNCHANGED <<groups, seen>>
  BY DEF ConnectionEstablished, Inv, queries
<1>2. /\ Good(calls', seen) /\ Live(calls') = Live(calls)
      /\ \A d \in calls' : d.stage = "held" => d \in calls
  <2>1. CASE Exchange(n, peer)
    BY <2>1, ExchangeKeeps
  <2>2. CASE UNCHANGED <<calls, cursor>>
    BY <2>2 DEF Inv
  <2> QED
    BY <2>1, <2>2, Zenon DEF ConnectionEstablished
<1> QED
  BY <1>1, <1>2, QuietKeeps

LEMMA ExploreInv ==
  ASSUME Inv, NEW n \in Nodes, explore_relay_mesh(n)
  PROVE  Inv'
<1>1. linked' \in [Nodes -> SUBSET Nodes] /\ UNCHANGED <<groups, seen>>
  BY Zenon DEF explore_relay_mesh, Inv, queries
<1>2. /\ Good(calls', seen) /\ Live(calls') = Live(calls)
      /\ \A d \in calls' : d.stage = "held" => d \in calls
  <2>1. (\E peer : Exchange(n, peer)) \/ UNCHANGED <<calls, cursor>>
    BY Zenon DEF explore_relay_mesh
  <2>2. CASE \E peer : Exchange(n, peer)
    BY <2>2, ExchangeKeeps, Zenon
  <2>3. CASE UNCHANGED <<calls, cursor>>
    BY <2>3 DEF Inv
  <2> QED
    BY <2>1, <2>2, <2>3
<1> QED
  BY <1>1, <1>2, QuietKeeps

\* A step that sends and receives nothing.
LEMMA SilentInv ==
  ASSUME Inv, UNCHANGED <<calls, groups, seen, linked>>
  PROVE  Inv'
<1>1. /\ Good(calls', seen) /\ Live(calls') = Live(calls) /\ linked' \in [Nodes -> SUBSET Nodes]
      /\ \A d \in calls' : d.stage = "held" => d \in calls
  BY DEF Inv
<1> QED
  BY <1>1, QuietKeeps

LEMMA AskInv ==
  ASSUME Inv, NEW n \in Nodes, NEW identity, AskMesh(n, identity)
  PROVE  Inv'
<1>1. linked' \in [Nodes -> SUBSET Nodes] /\ UNCHANGED <<groups, seen>>
  BY DEF AskMesh, Inv, topology
<1>2. PICK peers \in QueryPeers(n, Nobody) :
        calls' = calls \cup {FindCall(n, p, "ask", QueryId(n, identity), QueryTtl,
                                      clock + QueryTimeout) : p \in peers}
  BY DEF AskMesh
<1>3. peers \in SUBSET Nodes
  BY PeersAreNodes
<1>4. /\ Good(calls', seen) /\ Live(calls') = Live(calls)
      /\ \A d \in calls' : d.stage = "held" => d \in calls
  <2> DEFINE more == {FindCall(n, p, "ask", QueryId(n, identity), QueryTtl, clock + QueryTimeout) :
                        p \in peers}
  <2>1. Requests(more, n, "ask")
    BY <1>3, Zenon DEF FindCall, Requests
  <2>2. calls' = calls \cup more
    BY <1>2
  <2> HIDE DEF more
  <2>3. "ask" \in Roles /\ "ask" # "forward"
    BY DEF Roles
  <2> QED
    BY <2>1, <2>2, <2>3, AsksKeep
<1> QED
  BY <1>1, <1>4, QuietKeeps

LEMMA DiagnoseInv ==
  ASSUME Inv, NEW n \in Nodes, NEW identity, diagnose_identity(n, identity)
  PROVE  Inv'
<1>1. linked' \in [Nodes -> SUBSET Nodes] /\ UNCHANGED <<groups, seen>>
  BY DEF diagnose_identity, Inv, topology
<1>2. PICK peers \in QueryPeers(n, Nobody) :
        \/ calls' = calls
        \/ calls' = calls \cup {FindCall(n, p, "diagnosis", QueryId(n, identity), QueryTtl,
                                         clock + ResolveTimeout) : p \in peers}
  BY Zenon DEF diagnose_identity
<1>3. peers \in SUBSET Nodes
  BY PeersAreNodes
<1>4. /\ Good(calls', seen) /\ Live(calls') = Live(calls)
      /\ \A d \in calls' : d.stage = "held" => d \in calls
  <2>1. CASE calls' = calls
    BY <2>1 DEF Inv
  <2>2. CASE calls' = calls \cup {FindCall(n, p, "diagnosis", QueryId(n, identity), QueryTtl,
                                           clock + ResolveTimeout) : p \in peers}
    <3> DEFINE more == {FindCall(n, p, "diagnosis", QueryId(n, identity), QueryTtl,
                                 clock + ResolveTimeout) : p \in peers}
    <3>1. Requests(more, n, "diagnosis")
      BY <1>3, Zenon DEF FindCall, Requests
    <3>2. calls' = calls \cup more
      BY <2>2
    <3> HIDE DEF more
    <3>3. "diagnosis" \in Roles /\ "diagnosis" # "forward"
      BY DEF Roles
    <3> QED
      BY <3>1, <3>2, <3>3, AsksKeep
  <2> QED
    BY <1>2, <2>1, <2>2
<1> QED
  BY <1>1, <1>4, QuietKeeps

LEMMA GossipInv ==
  ASSUME Inv, NEW c \in calls, HandleGossip(c) \/ HandleGossipResponse(c)
  PROVE  Inv'
<1>1. linked' \in [Nodes -> SUBSET Nodes] /\ UNCHANGED <<groups, seen>>
  BY DEF HandleGossip, HandleGossipResponse, Inv, topology, queries
<1>2. ~Counts(c) /\ Good(calls, seen)
  BY DEF HandleGossip, HandleGossipResponse, Counts, Inv
<1>3. (\E answer : calls' = Replied(c, answer)) \/ calls' = calls \ {c}
  <2>1. CASE HandleGossip(c)
    <3> DEFINE k == c.request.kind
               hs == exchange_batch(book[c.to], cursor[c.to], clock, ExchangeMax).hints
               rs == relay_records_for_exchange(relays[c.to], OwnRecord(c.to), RecordsMax, clock)
    <3>1. calls' = CASE k = "GetIdentityHeads" -> Replied(c, hs)
                     [] k = "GetRelays" -> Replied(c, rs)
                     [] OTHER -> calls \ {c}
      BY <2>1 DEF HandleGossip
    <3> HIDE DEF k, hs, rs
    <3>2. CASE k = "GetIdentityHeads"
      <4>1. calls' = Replied(c, hs)
        BY <3>1, <3>2
      <4> QED
        BY <4>1
    <3>3. CASE k # "GetIdentityHeads" /\ k = "GetRelays"
      <4>1. calls' = Replied(c, rs)
        BY <3>1, <3>3
      <4> QED
        BY <4>1
    <3>4. CASE k # "GetIdentityHeads" /\ k # "GetRelays"
      BY <3>1, <3>4
    <3> QED
      BY <3>2, <3>3, <3>4
  <2>2. CASE HandleGossipResponse(c)
    BY <2>2 DEF HandleGossipResponse
  <2> QED
    BY <2>1, <2>2
<1>4. /\ Good(calls', seen) /\ Live(calls') = Live(calls)
      /\ \A d \in calls' : d.stage = "held" => d \in calls
  <2>1. CASE \E answer : calls' = Replied(c, answer)
    <3>1. PICK answer : calls' = Replied(c, answer)
      BY <2>1
    <3> QED
      BY <3>1, RepliedKeeps
  <2>2. CASE calls' = calls \ {c}
    BY <1>2, <2>2, Ended
  <2> QED
    BY <1>3, <2>1, <2>2
<1> QED
  BY <1>1, <1>4, QuietKeeps

\* A query is not forwarded: the node has now seen it, and answers at once.
LEMMA AnsweredAtOnceInv ==
  ASSUME Inv, NEW c \in calls, c.role # "gossip", NEW providers,
         calls' = Replied(c, providers), UNCHANGED <<groups, linked>>,
         seen' = [seen EXCEPT ![c.to] = @ \cup {c.request.query}]
  PROVE  Inv'
<1>1. /\ Good(calls', seen) /\ Live(calls') = Live(calls)
      /\ \A d \in calls' : d.stage = "held" => d \in calls
  BY RepliedKeeps
<1>2. seen = [n \in Nodes |-> seen[n]] /\ c.to \in Nodes
  BY DEF Inv, Good, IsCall
<1>3. seen' = [n \in Nodes |-> seen'[n]] /\ \A n \in Nodes : seen[n] \subseteq seen'[n]
  BY <1>2
<1>4. Good(calls', seen')
  <2>1. \A d \in calls' : IsCall(d) /\ (d.role = "forward" => d.request.query \in seen[d.from])
    BY <1>1 DEF Good
  <2>2. \A d \in calls' : d.role = "forward" => d.from \in Nodes
    BY <2>1 DEF IsCall
  <2>3. \A d \in calls' : d.role = "forward" => d.request.query \in seen'[d.from]
    BY <1>3, <2>1, <2>2
  <2> QED
    BY <1>1, <2>1, <2>3 DEF Good
<1>5. GroupsOK(groups, calls, seen) /\ HeldOK(groups, calls)
  BY DEF Inv
<1>6. \A n, q : Outstanding(calls', n, q) = Outstanding(calls, n, q)
  BY <1>1 DEF Outstanding
<1>7. GroupsOK(groups', calls', seen')
  <2>1. \A n \in Nodes : \A g \in groups'[n] :
          /\ IsGroup(g) /\ g.query \in seen'[n]
          /\ g.remaining > 0 /\ g.remaining = Cardinality(Outstanding(calls', n, g.query))
    BY <1>3, <1>5, <1>6 DEF GroupsOK
  <2>2. \A n \in Nodes : \A g, h \in groups'[n] : g.query = h.query => g = h
    BY <1>5 DEF GroupsOK
  <2>3. \A r \in Live(calls') : \E g \in groups'[r[1]] : g.query = r[2]
    BY <1>1, <1>5, ZenonT(40) DEF GroupsOK
  <2> QED
    BY <2>1, <2>2, <2>3, ZenonT(40) DEF GroupsOK
<1>8. HeldOK(groups', calls')
  BY <1>1, <1>5 DEF HeldOK
<1> QED
  BY <1>3, <1>4, <1>7, <1>8 DEF Inv

\* handle_identity_provider_query forwards query q, which came with c, to peers:
\* F[p] is the request to p, and g the group.
Forwarding(c, n, q, peers, held, F, g) ==
    /\ c \in calls /\ c.role # "gossip" /\ n = c.to /\ q = c.request.query /\ q \notin seen[n]
    /\ peers \in SUBSET Nodes /\ peers # {}
    /\ held = (IF c.stage = "late" THEN {} ELSE {[c EXCEPT !.stage = "held"]})
    /\ \A p \in peers : \E request : request.query = q /\ F[p] = Call(n, p, "forward", request)
    /\ IsGroup(g) /\ g.query = q /\ g.channel = Channel(c) /\ g.remaining = Cardinality(peers)
    /\ calls' = ((calls \ {c}) \cup held) \cup {F[p] : p \in peers}
    /\ groups' = [groups EXCEPT ![n] = {h \in groups[n] : h.query # q} \cup {g}]
    /\ seen' = [seen EXCEPT ![n] = @ \cup {q}]
    /\ UNCHANGED linked

\* The requests to the peers are the only ones of the query, and their group
\* counts them.
LEMMA ForwardedInv ==
  ASSUME Inv, NEW c, NEW n, NEW q, NEW peers, NEW held, NEW F, NEW g,
         Forwarding(c, n, q, peers, held, F, g)
  PROVE  Inv'
<1>0. /\ c \in calls /\ c.role # "gossip" /\ n = c.to /\ q = c.request.query /\ q \notin seen[n]
      /\ peers \in SUBSET Nodes /\ peers # {}
      /\ held = (IF c.stage = "late" THEN {} ELSE {[c EXCEPT !.stage = "held"]})
      /\ \A p \in peers : \E request : request.query = q /\ F[p] = Call(n, p, "forward", request)
      /\ IsGroup(g) /\ g.query = q /\ g.channel = Channel(c) /\ g.remaining = Cardinality(peers)
      /\ calls' = ((calls \ {c}) \cup held) \cup {F[p] : p \in peers}
      /\ groups' = [groups EXCEPT ![n] = {h \in groups[n] : h.query # q} \cup {g}]
      /\ seen' = [seen EXCEPT ![n] = @ \cup {q}]
      /\ UNCHANGED linked
  BY DEF Forwarding
<1> USE <1>0
<1> DEFINE rest == (calls \ {c}) \cup held
           more == {F[p] : p \in peers}
<1>1. /\ Good(calls, seen) /\ IsCall(c) /\ n \in Nodes /\ seen = [m \in Nodes |-> seen[m]]
      /\ groups = [m \in Nodes |-> groups[m]] /\ GroupsOK(groups, calls, seen) /\ HeldOK(groups, calls)
  BY Zenon DEF Inv, Good, IsCall
<1>2. /\ Good(rest, seen) /\ Live(rest) = Live(calls)
      /\ \A d \in rest : d.stage = "held" => d \in calls \/ (Channel(d) = Channel(c) /\ d.to = n)
  <2>1. CASE c.stage = "late"
    <3>1. ~Counts(c) /\ rest = calls \ {c}
      BY <1>1, <2>1 DEF IsCall, Counts
    <3> HIDE DEF rest
    <3> QED
      BY <1>1, <3>1, Ended, Zenon
  <2>2. CASE c.stage # "late"
    <3> DEFINE d == [c EXCEPT !.stage = "held"]
    <3>1. rest = (calls \ {c}) \cup {d}
      BY <2>2
    <3>2. /\ IsCall(d) /\ SameRequest(d, c) /\ (Counts(d) <=> Counts(c))
          /\ d.to = c.to /\ d.stage = "held" /\ Channel(d) = Channel(c)
      BY <1>1, <2>2, HeldCall, Zenon
    <3> HIDE DEF d, rest
    <3>3. Good(rest, seen) /\ Live(rest) = Live(calls)
      BY <1>1, <3>1, <3>2, Swapped, ZenonT(40)
    <3> QED
      BY <3>1, <3>2, <3>3
  <2> QED
    BY <2>1, <2>2
<1>3. \A p \in peers : /\ IsCall(F[p]) /\ F[p].stage = "sent" /\ F[p].role = "forward" /\ Counts(F[p])
                       /\ F[p].from = n /\ F[p].to = p /\ F[p].request.query = q
                       /\ Route(F[p]) = <<n, q, p>>
  <2> SUFFICES ASSUME NEW p \in peers, NEW d, d = F[p]
               PROVE  /\ IsCall(d) /\ d.stage = "sent" /\ d.role = "forward" /\ Counts(d)
                      /\ d.from = n /\ d.to = p /\ d.request.query = q /\ Route(d) = <<n, q, p>>
    BY Zenon
  <2>1. PICK request : request.query = q /\ d = Call(n, p, "forward", request)
    OBVIOUS
  <2>3. "forward" \in Roles /\ p \in Nodes
    BY DEF Roles
  <2>4. IsNew(Call(n, p, "forward", request), n, p, "forward", request)
    BY <1>1, <2>3, NewCall, ZenonT(40)
  <2> QED
    BY <2>1, <2>4 DEF IsNew, Route
<1>4. calls' = rest \cup more
  OBVIOUS
<1>5. \A d \in more : \E p \in peers : d = F[p]
  OBVIOUS
<1>6. \A p \in peers : F[p] \in more
  OBVIOUS
<1> HIDE DEF rest, more
<1>7. /\ seen' = [m \in Nodes |-> seen'[m]] /\ q \in seen'[n]
      /\ \A m \in Nodes : seen[m] \subseteq seen'[m]
  BY <1>1, Zenon
<1>8. \A x \in rest : Counts(x) => Route(x)[1] # n \/ Route(x)[2] # q
  BY <1>2 DEF Good, Counts, Route
<1>9. Good(calls', seen')
  <2>1. ASSUME NEW d \in calls'
        PROVE  IsCall(d) /\ (d.role = "forward" => d.request.query \in seen'[d.from])
    <3>1. CASE d \in rest
      <4>1. IsCall(d) /\ (d.role = "forward" => d.request.query \in seen[d.from])
        BY <1>2, <3>1 DEF Good
      <4>2. d.role = "forward" => d.from \in Nodes
        BY <4>1 DEF IsCall
      <4> QED
        BY <1>7, <4>1, <4>2
    <3>2. CASE d \in more
      <4>1. PICK p \in peers : d = F[p]
        BY <1>5, <3>2
      <4> QED
        BY <1>3, <1>7, <4>1
    <3> QED
      BY <1>4, <3>1, <3>2
  <2>2. ASSUME NEW x \in calls', NEW y \in calls', Counts(x), Counts(y), Route(x) = Route(y)
        PROVE  x = y
    <3>1. CASE x \in rest /\ y \in rest
      BY <1>2, <2>2, <3>1 DEF Good
    <3>2. CASE x \in more /\ y \in more
      <4>1. PICK a \in peers : x = F[a]
        BY <1>5, <3>2
      <4>2. PICK b \in peers : y = F[b]
        BY <1>5, <3>2
      <4>3. a = b
        BY <1>3, <2>2, <4>1, <4>2
      <4> QED
        BY <4>1, <4>2, <4>3
    <3>3. \A z \in more : Route(z)[1] = n /\ Route(z)[2] = q
      BY <1>3, <1>5
    <3> QED
      BY <1>4, <1>8, <2>2, <3>1, <3>2, <3>3
  <2> QED
    BY <2>1, <2>2 DEF Good
<1>10. \A r : r \in Live(calls') <=> r \in Live(calls) \/ \E p \in peers : r = <<n, q, p>>
  <2>1. \A r : r \in Live(calls') <=> \E x \in rest \cup more : Counts(x) /\ r = Route(x)
    BY <1>4 DEF Live
  <2>2. \A r : r \in Live(calls) <=> \E x \in rest : Counts(x) /\ r = Route(x)
    BY <1>2 DEF Live
  <2>3. \A r : (\E x \in more : Counts(x) /\ r = Route(x)) <=> \E p \in peers : r = <<n, q, p>>
    BY <1>3, <1>5, <1>6
  <2> QED
    BY <2>1, <2>2, <2>3
<1>11. \A r \in Live(calls) : r[1] # n \/ r[2] # q
  BY <1>2, <1>8 DEF Live
<1>12. /\ Outstanding(calls', n, q) = peers
       /\ \A m, k : m # n \/ k # q => Outstanding(calls', m, k) = Outstanding(calls, m, k)
  <2>1. Outstanding(calls', n, q) = peers
    BY <1>10, <1>11 DEF Outstanding
  <2>2. ASSUME NEW m, NEW k, m # n \/ k # q
        PROVE  Outstanding(calls', m, k) = Outstanding(calls, m, k)
    BY <1>10, <2>2 DEF Outstanding
  <2> QED
    BY <2>1, <2>2
<1>13. /\ groups' = [m \in Nodes |-> groups'[m]] /\ groups'[n] = groups[n] \cup {g}
       /\ \A m \in Nodes : m # n => groups'[m] = groups[m]
  <2>1. \A h \in groups[n] : h.query # q
    BY <1>1 DEF GroupsOK
  <2>2. {h \in groups[n] : h.query # q} = groups[n]
    BY <2>1
  <2> QED
    BY <1>1, <2>2, Zenon
<1>14. GroupsOK(groups', calls', seen')
  <2>1. g.remaining > 0 /\ g.remaining = Cardinality(Outstanding(calls', n, g.query))
    <3>1. IsFiniteSet(peers)
      BY MeshAssumption, FS_Subset
    <3>2. Cardinality(peers) \in Nat /\ Cardinality(peers) # 0
      BY <3>1, FS_CardinalityType, FS_EmptySet
    <3> QED
      BY <1>12, <3>2
  <2>2. \A m \in Nodes : \A h \in groups[m] :
          /\ IsGroup(h) /\ h.query \in seen[m] /\ (m # n \/ h.query # q)
          /\ h.remaining > 0 /\ h.remaining = Cardinality(Outstanding(calls', m, h.query))
    BY <1>1, <1>12 DEF GroupsOK
  <2>3. \A m \in Nodes : \A h \in groups'[m] :
          /\ IsGroup(h) /\ h.query \in seen'[m]
          /\ h.remaining > 0 /\ h.remaining = Cardinality(Outstanding(calls', m, h.query))
    <3> SUFFICES ASSUME NEW m \in Nodes, NEW h \in groups'[m]
                 PROVE  /\ IsGroup(h) /\ h.query \in seen'[m]
                        /\ h.remaining > 0
                        /\ h.remaining = Cardinality(Outstanding(calls', m, h.query))
      BY Zenon
    <3>1. CASE h \in groups[m]
      BY <1>7, <2>2, <3>1, ZenonT(40)
    <3>2. CASE m = n /\ h = g
      BY <1>7, <2>1, <3>2
    <3> QED
      BY <1>13, <3>1, <3>2
  <2>4. \A m \in Nodes : \A h, k \in groups'[m] : h.query = k.query => h = k
    BY <1>1, <1>13, <2>2 DEF GroupsOK
  <2>5. \A r \in Live(calls') : \E h \in groups'[r[1]] : h.query = r[2]
    <3> SUFFICES ASSUME NEW r \in Live(calls') PROVE \E h \in groups'[r[1]] : h.query = r[2]
      OBVIOUS
    <3>1. CASE r \in Live(calls)
      <4>1. PICK x \in calls : Counts(x) /\ r = Route(x)
        BY <3>1 DEF Live
      <4>2. r[1] \in Nodes
        BY <1>1, <4>1, ZenonT(40) DEF Good, IsCall, Counts, Route
      <4> QED
        BY <1>1, <1>13, <3>1, <4>2 DEF GroupsOK
    <3>2. CASE \E p \in peers : r = <<n, q, p>>
      BY <1>13, <3>2
    <3> QED
      BY <1>10, <3>1, <3>2
  <2> QED
    BY <2>3, <2>4, <2>5, ZenonT(40) DEF GroupsOK
<1>15. HeldOK(groups', calls')
  <2> SUFFICES ASSUME NEW d \in calls', d.stage = "held"
               PROVE  \E h \in groups'[d.to] : h.channel = Channel(d)
    BY DEF HeldOK
  <2>1. d \in rest
    BY <1>3, <1>4, <1>5
  <2>2. CASE d \in calls
    <3>1. d.to \in Nodes
      BY <1>1, <2>2 DEF Good, IsCall
    <3> QED
      BY <1>1, <1>13, <2>2, <3>1 DEF HeldOK
  <2>3. CASE Channel(d) = Channel(c) /\ d.to = n
    BY <1>13, <2>3
  <2> QED
    BY <1>2, <2>1, <2>2, <2>3
<1> QED
  BY <1>7, <1>9, <1>13, <1>14, <1>15 DEF Inv

\* A group is closed and its channel answered: the request ids of its query are
\* forgotten.
LEMMA CloseKeeps ==
  ASSUME Inv, NEW n \in Nodes, NEW g \in groups[n], NEW rest, Good(rest, seen), NEW providers,
         \A d \in rest : d.stage = "held" => d \in calls,
         \A r : r[1] # n \/ r[2] # g.query => (r \in Live(rest) <=> r \in Live(calls)),
         groups' = [groups EXCEPT ![n] = groups[n] \ {g}],
         calls' = RespondTo(Unmapped(rest, n, "forward", g.query), g.channel, providers),
         UNCHANGED <<linked, seen>>
  PROVE  Inv'
<1> DEFINE un == Unmapped(rest, n, "forward", g.query)
<1>1. /\ groups = [m \in Nodes |-> groups[m]] /\ GroupsOK(groups, calls, seen)
      /\ HeldOK(groups, calls) /\ Good(calls, seen)
  BY DEF Inv
<1>2. /\ Good(un, seen) /\ Live(un) = {r \in Live(rest) : r[1] # n \/ r[2] # g.query}
      /\ \A d \in un : d.stage = "held" =>
           \E x \in rest : x.stage = "held" /\ Channel(x) = Channel(d) /\ x.to = d.to
  <2>1. un = Unmapped(rest, n, "forward", g.query)
    OBVIOUS
  <2> HIDE DEF un
  <2>2. /\ Good(un, seen) /\ HeldStays(un, rest)
        /\ Live(un) = {r \in Live(rest) : r[1] # n \/ r[2] # g.query}
    BY ONLY <2>1, Good(rest, seen), n \in Nodes, UnmappedForward
  <2> QED
    BY <2>2, ZenonT(40) DEF HeldStays
<1>3. calls' = RespondTo(un, g.channel, providers)
  OBVIOUS
<1> HIDE DEF un
<1>4. /\ Good(calls', seen) /\ Live(calls') = Live(un)
      /\ \A d \in calls' : d.stage = "held" => d \in un /\ Channel(d) # g.channel
  BY ONLY <1>2, <1>3, RespondKeeps
<1>5. \A r : r \in Live(calls') <=> r \in Live(calls) /\ (r[1] # n \/ r[2] # g.query)
  BY <1>2, <1>4, Zenon
<1>6. \A m, q : m # n \/ q # g.query => Outstanding(calls', m, q) = Outstanding(calls, m, q)
  <2> SUFFICES ASSUME NEW m, NEW q, m # n \/ q # g.query
               PROVE  Outstanding(calls', m, q) = Outstanding(calls, m, q)
    BY ZenonT(40)
  <2>1. \A p : <<m, q, p>> \in Live(calls') <=> <<m, q, p>> \in Live(calls)
    BY <1>5
  <2> QED
    BY <2>1 DEF Outstanding
<1>7. /\ groups' = [m \in Nodes |-> groups'[m]] /\ groups'[n] = groups[n] \ {g}
      /\ \A m \in Nodes : m # n => groups'[m] = groups[m]
  BY <1>1
<1>8. \A h \in groups[n] : h # g => h.query # g.query
  BY <1>1 DEF GroupsOK
<1>9. GroupsOK(groups', calls', seen')
  <2>1. ASSUME NEW m \in Nodes, NEW h \in groups'[m]
        PROVE  /\ IsGroup(h) /\ h.query \in seen'[m]
               /\ h.remaining > 0 /\ h.remaining = Cardinality(Outstanding(calls', m, h.query))
    <3>1. h \in groups[m] /\ (m # n \/ h.query # g.query)
      BY <1>7, <1>8
    <3>2. Outstanding(calls', m, h.query) = Outstanding(calls, m, h.query)
      BY <1>6, <3>1
    <3> QED
      BY <1>1, <3>1, <3>2 DEF GroupsOK
  <2>2. \A m \in Nodes : \A h, k \in groups'[m] : h.query = k.query => h = k
    BY <1>1, <1>7 DEF GroupsOK
  <2>3. ASSUME NEW r \in Live(calls')
        PROVE  \E h \in groups'[r[1]] : h.query = r[2]
    <3>1. r \in Live(calls) /\ (r[1] # n \/ r[2] # g.query)
      BY <1>5
    <3>2. PICK x \in calls : Counts(x) /\ r = Route(x)
      BY <3>1 DEF Live
    <3>3. r[1] \in Nodes
      BY <1>1, <3>2 DEF Good, IsCall, Counts, Route
    <3>4. PICK h \in groups[r[1]] : h.query = r[2]
      BY <1>1, <3>1 DEF GroupsOK
    <3>5. h \in groups'[r[1]]
      BY <1>7, <3>1, <3>3, <3>4
    <3> QED
      BY <3>4, <3>5, ZenonT(40)
  <2> QED
    BY <2>1, <2>2, <2>3, ZenonT(40) DEF GroupsOK
<1>10. HeldOK(groups', calls')
  <2> SUFFICES ASSUME NEW d \in calls', d.stage = "held"
               PROVE  \E h \in groups'[d.to] : h.channel = Channel(d)
    BY DEF HeldOK
  <2>1. d \in un /\ Channel(d) # g.channel
    BY <1>4
  <2>2. PICK x \in rest : x.stage = "held" /\ Channel(x) = Channel(d) /\ x.to = d.to
    BY <1>2, <2>1, ZenonT(40)
  <2>3. x \in calls
    BY <2>2
  <2>4. PICK h \in groups[x.to] : h.channel = Channel(x)
    BY <1>1, <2>2, <2>3 DEF HeldOK
  <2>5. x.to \in Nodes
    BY <1>1, <2>2, <2>3 DEF Good, IsCall
  <2>6. h \in groups'[x.to]
    BY <1>7, <2>1, <2>2, <2>4, <2>5
  <2> QED
    BY <2>2, <2>4, <2>6
<1>11. Good(calls', seen')
  BY <1>4, Zenon
<1> QED
  BY <1>7, <1>9, <1>10, <1>11, ZenonT(40) DEF Inv

\* A group counts a request off and waits for the others.
LEMMA CountOffKeeps ==
  ASSUME Inv, NEW n \in Nodes, NEW g \in groups[n], NEW k, IsGroup(k), k.query = g.query,
         k.channel = g.channel, Good(calls', seen),
         \A d \in calls' : d.stage = "held" => d \in calls,
         \A r \in Live(calls') : r \in Live(calls),
         \A r \in Live(calls) : r[1] # n \/ r[2] # g.query => r \in Live(calls'),
         k.remaining > 0, k.remaining = Cardinality(Outstanding(calls', n, g.query)),
         groups' = [groups EXCEPT ![n] = (groups[n] \ {g}) \cup {k}],
         UNCHANGED <<linked, seen>>
  PROVE  Inv'
<1>1. /\ groups = [m \in Nodes |-> groups[m]] /\ GroupsOK(groups, calls, seen)
      /\ HeldOK(groups, calls) /\ Good(calls, seen)
  BY DEF Inv
<1>2. \A m, q : m # n \/ q # g.query => Outstanding(calls', m, q) = Outstanding(calls, m, q)
  <2> SUFFICES ASSUME NEW m, NEW q, m # n \/ q # g.query
               PROVE  Outstanding(calls', m, q) = Outstanding(calls, m, q)
    OBVIOUS
  <2>1. \A p : <<m, q, p>> \in Live(calls') <=> <<m, q, p>> \in Live(calls)
    OBVIOUS
  <2> QED
    BY <2>1 DEF Outstanding
<1>3. /\ groups' = [m \in Nodes |-> groups'[m]] /\ groups'[n] = (groups[n] \ {g}) \cup {k}
      /\ \A m \in Nodes : m # n => groups'[m] = groups[m]
  BY <1>1
<1>4. \A h \in groups[n] : h # g => h.query # g.query
  BY <1>1 DEF GroupsOK
<1>5. \A m \in Nodes : \A h \in groups'[m] :
        (m = n /\ h = k) \/ (h \in groups[m] /\ (m # n \/ h.query # g.query))
  BY <1>3, <1>4
<1>6. \A m \in Nodes : \A h \in groups[m] :
        \E i \in groups'[m] : i.query = h.query /\ i.channel = h.channel
  BY <1>3
<1>7. GroupsOK(groups', calls', seen')
  <2>1. ASSUME NEW m \in Nodes, NEW h \in groups'[m]
        PROVE  /\ IsGroup(h) /\ h.query \in seen'[m]
               /\ h.remaining > 0 /\ h.remaining = Cardinality(Outstanding(calls', m, h.query))
    <3>1. CASE m = n /\ h = k
      <4>1. g.query \in seen[n]
        BY <1>1 DEF GroupsOK
      <4> QED
        BY <3>1, <4>1, ZenonT(40)
    <3>2. CASE h \in groups[m] /\ (m # n \/ h.query # g.query)
      <4>1. Outstanding(calls', m, h.query) = Outstanding(calls, m, h.query)
        BY <1>2, <3>2, ZenonT(40)
      <4> QED
        BY <1>1, <3>2, <4>1 DEF GroupsOK
    <3> QED
      BY <1>5, <3>1, <3>2, ZenonT(40)
  <2>2. \A m \in Nodes : \A h, i \in groups'[m] : h.query = i.query => h = i
    BY <1>1, <1>5 DEF GroupsOK
  <2>3. ASSUME NEW r \in Live(calls')
        PROVE  \E h \in groups'[r[1]] : h.query = r[2]
    <3>1. PICK x \in calls : Counts(x) /\ r = Route(x)
      BY DEF Live
    <3>2. r[1] \in Nodes
      BY <1>1, <3>1 DEF Good, IsCall, Counts, Route
    <3>3. PICK h \in groups[r[1]] : h.query = r[2]
      BY <1>1 DEF GroupsOK
    <3>4. PICK i \in groups'[r[1]] : i.query = h.query
      BY ONLY <1>6, <3>2, <3>3, Zenon
    <3> QED
      BY ONLY <3>3, <3>4, ZenonT(40)
  <2> QED
    BY <2>1, <2>2, <2>3, Zenon DEF GroupsOK
<1>8. HeldOK(groups', calls')
  <2> SUFFICES ASSUME NEW d \in calls', d.stage = "held"
               PROVE  \E h \in groups'[d.to] : h.channel = Channel(d)
    BY DEF HeldOK
  <2>1. d \in calls /\ d.to \in Nodes
    BY <1>1 DEF Good, IsCall
  <2>2. PICK h \in groups[d.to] : h.channel = Channel(d)
    BY <1>1, <2>1 DEF HeldOK
  <2>3. PICK i \in groups'[d.to] : i.channel = h.channel
    BY ONLY <1>6, <2>1, <2>2, ZenonT(40)
  <2> QED
    BY ONLY <2>2, <2>3, ZenonT(40)
<1>9. Good(calls', seen')
  OBVIOUS
<1> QED
  BY <1>3, <1>7, <1>8, <1>9, ZenonT(40) DEF Inv

\* A forwarded request ended: its group counts it off, and is closed when it
\* was the last or the group has enough.
LEMMA ForwardEndedKeeps ==
  ASSUME Inv, NEW c \in calls, Counts(c), NEW rest, Good(rest, seen),
         Live(rest) = Live(calls) \ {Route(c)},
         \A d \in rest : d.stage = "held" => d \in calls,
         NEW providers, NEW enough, ForwardEnded(c, rest, providers, enough),
         UNCHANGED <<linked, seen>>
  PROVE  Inv'
<1> DEFINE n == c.from
           q == c.request.query
<1>1. /\ n \in Nodes /\ c.to \in Nodes /\ Route(c) = <<n, q, c.to>> /\ Route(c) \in Live(calls)
      /\ GroupsOK(groups, calls, seen)
  <2>1. Good(calls, seen) /\ GroupsOK(groups, calls, seen)
    BY DEF Inv
  <2>2. IsCall(c) /\ c.role = "forward"
    BY <2>1, ZenonT(40) DEF Good, Counts
  <2>3. Route(c) = <<n, q, c.to>>
    BY DEF Route
  <2>4. Route(c) \in Live(calls)
    BY DEF Live
  <2> QED
    BY <2>1, <2>2, <2>3, <2>4 DEF IsCall
<1>2. PICK g \in groups[n] : g.query = q
  <2>1. \A r \in Live(calls) : \E g \in groups[r[1]] : g.query = r[2]
    BY <1>1, Zenon DEF GroupsOK
  <2> HIDE DEF n, q
  <2>2. Route(c)[1] = n /\ Route(c)[2] = q
    BY ONLY <1>1
  <2> QED
    BY ONLY <1>1, <2>1, <2>2
<1>3. /\ IsGroup(g) /\ g.remaining > 0
      /\ g.remaining = Cardinality(Outstanding(calls, n, q))
      /\ \A h \in groups[n] : h.query = q => h = g
  <2> HIDE DEF n, q
  <2>1. /\ IsGroup(g) /\ g.remaining > 0
        /\ g.remaining = Cardinality(Outstanding(calls, n, g.query))
    BY ONLY <1>1, <1>2, g \in groups[n] DEF GroupsOK
  <2>2. \A h \in groups[n] : g.query = h.query => g = h
    BY ONLY <1>1, g \in groups[n] DEF GroupsOK
  <2> QED
    BY ONLY <1>2, <2>1, <2>2
<1> DEFINE k == [g EXCEPT !.providers = @ \o providers, !.remaining = IF @ = 0 THEN 0 ELSE @ - 1]
           Done == k.remaining = 0 \/ (enough /\ Len(k.providers) >= QueryLimit)
<1>4. /\ IsGroup(k) /\ k.query = q /\ k.channel = g.channel /\ k.remaining = g.remaining - 1
      /\ k.remaining \in Nat
  <2> DEFINE all == g.providers \o providers
  <2> HIDE DEF all
  <2>2. g.remaining \in Nat /\ g.remaining # 0 /\ g.remaining - 1 \in Nat
    BY <1>3 DEF IsGroup
  <2>1. k = [g EXCEPT !.providers = all, !.remaining = g.remaining - 1]
    <3>1. (IF g.remaining = 0 THEN 0 ELSE g.remaining - 1) = g.remaining - 1
      BY <2>2
    <3>2. k = [g EXCEPT !.providers = all,
                        !.remaining = IF g.remaining = 0 THEN 0 ELSE g.remaining - 1]
      BY DEF all
    <3> QED
      BY <3>1, <3>2, ZenonT(40)
  <2> HIDE DEF k
  <2> QED
    BY <1>2, <1>3, <2>1, <2>2, ZenonT(40) DEF IsGroup
<1>5. {h \in groups[n] : h.query = c.request.query} = {g}
  BY <1>2, <1>3, ZenonT(40)
<1>6. \/ /\ Done
         /\ groups' = [groups EXCEPT ![n] = groups[n] \ {g}]
         /\ calls' = RespondTo(Unmapped(rest, n, "forward", g.query), g.channel, k.providers)
      \/ /\ ~Done
         /\ groups' = [groups EXCEPT ![n] = (groups[n] \ {g}) \cup {k}]
         /\ calls' = rest
  <2> DEFINE open == {h \in groups[n] : h.query = c.request.query}
             Counted(h) == [h EXCEPT !.providers = @ \o providers,
                                     !.remaining = IF @ = 0 THEN 0 ELSE @ - 1]
             now == {Counted(h) : h \in open}
             done == {h \in now : h.remaining = 0 \/ (enough /\ Len(h.providers) >= QueryLimit)}
  <2>1. /\ groups' = [groups EXCEPT ![n] = (groups[n] \ open) \cup (now \ done)]
        /\ calls' = IF done = {} THEN rest
                    ELSE LET h == CHOOSE h \in done : TRUE
                         IN  RespondTo(Unmapped(rest, n, "forward", h.query),
                                       h.channel, h.providers)
    BY Zenon DEF ForwardEnded
  <2>2. Counted(g) = k
    OBVIOUS
  <2> HIDE DEF Counted, k
  <2>3. open = {g} /\ now = {k}
    BY <1>5, <2>2, Zenon
  <2> HIDE DEF open, now
  <2>4. CASE Done
    <3>1. done = {k}
      BY <2>3, <2>4
    <3> HIDE DEF done
    <3>2. (CHOOSE h \in done : TRUE) = k
      BY <3>1
    <3>3. calls' = RespondTo(Unmapped(rest, n, "forward", k.query), k.channel, k.providers)
      BY <2>1, <3>1, <3>2, Zenon
    <3>4. groups' = [groups EXCEPT ![n] = groups[n] \ {g}]
      BY <2>1, <2>3, <3>1, Zenon
    <3> QED
      BY <1>2, <1>4, <2>4, <3>3, <3>4, ZenonT(40)
  <2>5. CASE ~Done
    <3>1. done = {}
      BY <2>3, <2>5
    <3> HIDE DEF done
    <3> QED
      BY <2>1, <2>3, <2>5, <3>1, ZenonT(40)
  <2> QED
    BY <2>4, <2>5
<1>7. Cardinality(Outstanding(rest, n, q)) = Cardinality(Outstanding(calls, n, q)) - 1
  <2>1. Outstanding(rest, n, q) = Outstanding(calls, n, q) \ {c.to} /\ c.to \in Outstanding(calls, n, q)
    <3> DEFINE t == c.to
    <3> HIDE DEF n, q, t
    <3>0. Live(rest) = Live(calls) \ {<<n, q, t>>}
      BY <1>1, ZenonT(40) DEF t
    <3>1. \A p : <<n, q, p>> \in Live(rest) <=> <<n, q, p>> \in Live(calls) /\ p # t
      BY ONLY <3>0
    <3>2. t \in Nodes /\ <<n, q, t>> \in Live(calls)
      BY <1>1, ZenonT(40) DEF t
    <3>3. Outstanding(rest, n, q) = Outstanding(calls, n, q) \ {t} /\ t \in Outstanding(calls, n, q)
      BY ONLY <3>1, <3>2 DEF Outstanding
    <3> QED
      BY <3>3, ZenonT(40) DEF t
  <2>2. IsFiniteSet(Outstanding(calls, n, q))
    BY MeshAssumption, FS_Subset, ZenonT(40) DEF Outstanding
  <2> QED
    BY <2>1, <2>2, FS_RemoveElement, ZenonT(40)
<1>8. \A r : r[1] # n \/ r[2] # q => (r \in Live(rest) <=> r \in Live(calls))
  <2> DEFINE x == Route(c)
  <2> HIDE DEF n, q
  <2>1. x[1] = n /\ x[2] = q
    BY ONLY <1>1
  <2>2. Live(rest) = Live(calls) \ {x}
    OBVIOUS
  <2> HIDE DEF x
  <2> QED
    BY ONLY <2>1, <2>2
<1> HIDE DEF k, n, q
<1>9. CASE /\ Done
           /\ groups' = [groups EXCEPT ![n] = groups[n] \ {g}]
           /\ calls' = RespondTo(Unmapped(rest, n, "forward", g.query), g.channel, k.providers)
  BY <1>1, <1>2, <1>8, <1>9, CloseKeeps, ZenonT(40)
<1>10. CASE /\ ~Done
            /\ groups' = [groups EXCEPT ![n] = (groups[n] \ {g}) \cup {k}]
            /\ calls' = rest
  <2>0. /\ k.remaining # 0 /\ calls' = rest
        /\ groups' = [groups EXCEPT ![n] = (groups[n] \ {g}) \cup {k}]
    BY <1>10
  <2>1. k.remaining > 0 /\ k.remaining = Cardinality(Outstanding(calls', n, g.query))
    <3>a. k.remaining \in Nat
      BY <1>4, ZenonT(40)
    <3>b. k.remaining # 0
      BY <2>0
    <3>1. k.remaining > 0
      <4> DEFINE left == k.remaining
      <4> HIDE DEF left
      <4>1. left \in Nat /\ left # 0
        BY <3>a, <3>b DEF left
      <4>2. left > 0
        BY ONLY <4>1
      <4> QED
        BY <4>2, ZenonT(40) DEF left
    <3>2. Outstanding(calls', n, g.query) = Outstanding(rest, n, q)
      BY <1>2, <2>0
    <3>3. k.remaining = Cardinality(Outstanding(rest, n, q))
      BY ONLY <1>3, <1>4, <1>7
    <3> QED
      BY <3>1, <3>2, <3>3, Zenon
  <2>2. /\ \A r \in Live(calls') : r \in Live(calls)
        /\ \A r \in Live(calls) : r[1] # n \/ r[2] # g.query => r \in Live(calls')
    BY <1>2, <1>8, <2>0
  <2>3. k.query = g.query /\ Good(calls', seen) /\ \A d \in calls' : d.stage = "held" => d \in calls
    BY <1>2, <1>4, <2>0
  <2> HIDE DEF Done
  <2> QED
    BY <1>1, <1>4, <2>0, <2>1, <2>2, <2>3, CountOffKeeps, ZenonT(40)
<1> QED
  BY <1>6, <1>9, <1>10

LEMMA ForwardTimeoutInv ==
  ASSUME Inv, NEW n \in Nodes, ForwardTimesOut(n)
  PROVE  Inv'
<1>1. PICK g \in groups[n] :
        /\ groups' = [groups EXCEPT ![n] = groups[n] \ {g}]
        /\ calls' = RespondTo(Unmapped(calls, n, "forward", g.query), g.channel, g.providers)
        /\ UNCHANGED <<linked, seen>>
  BY Zenon DEF ForwardTimesOut, topology
<1>2. Good(calls, seen)
  BY DEF Inv
<1> QED
  BY <1>1, <1>2, CloseKeeps, Zenon

LEMMA QueryInv ==
  ASSUME Inv, NEW c \in calls, handle_identity_provider_query(c)
  PROVE  Inv'
<1> DEFINE n == c.to
           q == c.request.query
           providers == Candidates(n, q.identity, QueryLimit)
           held == IF c.stage = "late" THEN {} ELSE {[c EXCEPT !.stage = "held"]}
           Group(peers) == [query |-> q, channel |-> Channel(c), providers |-> providers,
                            deadline |-> clock + QueryTimeout, remaining |-> Cardinality(peers)]
<1>1. c.role # "gossip" /\ n \in Nodes /\ UNCHANGED linked
      /\ seen' = [seen EXCEPT ![n] = @ \cup {q}]
  BY DEF handle_identity_provider_query, topology, Inv, Good, IsCall
<1>2. PICK peers \in QueryPeers(n, c.from) :
        IF AnswersAtOnce(n, c, providers) \/ peers = {}
        THEN calls' = Replied(c, providers) /\ groups' = groups
        ELSE /\ calls' = (calls \ {c}) \cup held
                            \cup {FindCall(n, p, "forward", q, c.request.ttl - 1,
                                           c.request.deadline) : p \in peers}
             /\ groups' = [groups EXCEPT ![n] =
                              {g \in groups[n] : g.query # q} \cup {Group(peers)}]
  BY DEF handle_identity_provider_query
<1>3. peers \in SUBSET Nodes
  BY <1>1, PeersAreNodes
<1>4. CASE AnswersAtOnce(n, c, providers) \/ peers = {}
  <2>1. calls' = Replied(c, providers) /\ groups' = groups
    BY <1>2, <1>4
  <2> HIDE DEF providers
  <2> QED
    BY <1>1, <2>1, AnsweredAtOnceInv, ZenonT(40)
<1>5. CASE ~(AnswersAtOnce(n, c, providers) \/ peers = {})
  <2>1. q \notin seen[n] /\ peers # {}
    BY <1>5 DEF AnswersAtOnce
  <2> DEFINE g == Group(peers)
             F == [p \in peers |-> FindCall(n, p, "forward", q, c.request.ttl - 1, c.request.deadline)]
  <2>2. /\ calls' = ((calls \ {c}) \cup held) \cup {F[p] : p \in peers}
        /\ groups' = [groups EXCEPT ![n] = {h \in groups[n] : h.query # q} \cup {g}]
    BY <1>2, <1>5
  <2>7. ASSUME NEW p \in peers
        PROVE  \E request : request.query = q /\ F[p] = Call(n, p, "forward", request)
    <3> DEFINE request == [kind |-> "FindIdentityProviders", query |-> q,
                           ttl |-> c.request.ttl - 1, deadline |-> c.request.deadline]
    <3>1. request.query = q /\ F[p] = Call(n, p, "forward", request)
      BY DEF FindCall
    <3> QED
      BY <3>1, ZenonT(40)
  <2>3. Cardinality(peers) \in Nat
    BY <1>3, MeshAssumption, FS_Subset, FS_CardinalityType
  <2> HIDE DEF providers
  <2>4. IsGroup(g) /\ g.query = q /\ g.channel = Channel(c) /\ g.remaining = Cardinality(peers)
    BY <2>3 DEF IsGroup
  <2>5. held = (IF c.stage = "late" THEN {} ELSE {[c EXCEPT !.stage = "held"]})
    OBVIOUS
  <2>6. n = c.to /\ q = c.request.query
    OBVIOUS
  <2> HIDE DEF n, q, held, g, F
  <2>8. Forwarding(c, n, q, peers, held, F, g)
    BY <1>1, <1>3, <2>1, <2>2, <2>4, <2>5, <2>6, <2>7 DEF Forwarding
  <2> QED
    BY <2>8, ForwardedInv
<1> QED
  BY <1>4, <1>5

\* A diagnosis is counted off in its own table.
LEMMA DiagnosisEndedKeeps ==
  ASSUME Inv, NEW c, NEW rest, NEW providers, DiagnosisEnded(c, rest, providers),
         Good(rest, seen), Live(rest) = Live(calls),
         \A d \in rest : d.stage = "held" => d \in calls, UNCHANGED <<groups, seen, linked>>
  PROVE  Inv'
<1>1. calls' = Unmapped(rest, c.from, "diagnosis", c.request.query) \/ calls' = rest
  BY Zenon DEF DiagnosisEnded
<1>2. linked' \in [Nodes -> SUBSET Nodes]
  BY DEF Inv
<1>3. CASE calls' = Unmapped(rest, c.from, "diagnosis", c.request.query)
  <2>1. /\ Good(calls', seen) /\ Live(calls') = Live(rest)
        /\ \A d \in calls' : d.stage = "held" =>
             \E x \in rest : x.stage = "held" /\ Channel(x) = Channel(d) /\ x.to = d.to
    <3>1. Good(calls', seen) /\ Live(calls') = Live(rest) /\ HeldStays(calls', rest)
      BY <1>3, UnmappedOther
    <3> QED
      BY <3>1 DEF HeldStays
  <2>2. \A d \in calls' : d.stage = "held" =>
          \E x \in calls : x.stage = "held" /\ Channel(x) = Channel(d) /\ x.to = d.to
    BY <2>1
  <2> QED
    BY <1>2, <2>1, <2>2, QuietKeeps
<1>4. CASE calls' = rest
  BY <1>2, <1>4, QuietKeeps
<1> QED
  BY <1>1, <1>3, <1>4

LEMMA ProvidersInv ==
  ASSUME Inv, NEW c \in calls, HandleProviders(c)
  PROVE  Inv'
<1> DEFINE rest == calls \ {c}
<1>1. UNCHANGED <<linked, seen>> /\ c.role # "gossip"
  BY DEF HandleProviders, topology
<1>2. /\ Good(rest, seen) /\ (~Counts(c) => Live(rest) = Live(calls))
      /\ (Counts(c) => Live(rest) = Live(calls) \ {Route(c)})
  BY Ended DEF Inv
<1>3. \A d \in rest : d.stage = "held" => d \in calls
  OBVIOUS
<1>4. CASE c.mapped /\ c.role = "diagnosis" /\ DiagnosisEnded(c, rest, c.answer) /\ groups' = groups
  <2>1. ~Counts(c)
    BY <1>4 DEF Counts
  <2> HIDE DEF rest
  <2> QED
    BY <1>1, <1>2, <1>3, <1>4, <2>1, DiagnosisEndedKeeps
<1>5. CASE c.mapped /\ c.role = "forward" /\ ForwardEnded(c, rest, c.answer, TRUE)
  <2>1. Counts(c)
    BY <1>5 DEF Counts
  <2> HIDE DEF rest
  <2> QED
    BY <1>1, <1>2, <1>3, <1>5, <2>1, ForwardEndedKeeps, ZenonT(40)
<1>6. CASE ~c.mapped /\ calls' = rest /\ groups' = groups
  <2>1. ~Counts(c) /\ linked' \in [Nodes -> SUBSET Nodes]
    BY <1>1, <1>6 DEF Counts, Inv
  <2> HIDE DEF rest
  <2> QED
    BY <1>1, <1>2, <1>3, <1>6, <2>1, QuietKeeps
<1> QED
  BY <1>4, <1>5, <1>6, ZenonT(40) DEF HandleProviders

LEMMA FailureInv ==
  ASSUME Inv, NEW c \in calls, OutboundFailure(c)
  PROVE  Inv'
<1> DEFINE late == [c EXCEPT !.stage = "late", !.mapped = FALSE]
           rest == (calls \ {c}) \cup (IF c.stage = "sent" /\ c.role # "gossip" THEN {late} ELSE {})
<1>1. UNCHANGED <<linked, seen>>
  BY DEF OutboundFailure, topology
<1>2. /\ Good(calls \ {c}, seen) /\ (~Counts(c) => Live(calls \ {c}) = Live(calls))
      /\ (Counts(c) => Live(calls \ {c}) = Live(calls) \ {Route(c)})
  BY Ended DEF Inv
<1>3. /\ IsCall(late) /\ SameRequest(late, c) /\ ~Counts(late) /\ late.stage = "late"
      /\ (c.role = "forward" => c.request.query \in seen[c.from])
  BY LateCall, ZenonT(40) DEF Inv, Good
<1> HIDE DEF late
<1>4. /\ Good(rest, seen) /\ Live(rest) = Live(calls \ {c})
      /\ \A d \in rest : d.stage = "held" => d \in calls
  <2>1. CASE c.stage = "sent" /\ c.role # "gossip"
    <3>1. rest = (calls \ {c}) \cup {late}
      BY <2>1
    <3>2. \A d \in {late} : IsCall(d) /\ ~Counts(d)
                            /\ (d.role = "forward" => d.request.query \in seen[d.from])
      BY <1>3, ZenonT(40) DEF SameRequest
    <3> HIDE DEF rest
    <3> QED
      BY <1>2, <1>3, <3>1, <3>2, MoreCalls, ZenonT(40)
  <2>2. CASE ~(c.stage = "sent" /\ c.role # "gossip")
    <3>1. rest = calls \ {c}
      BY <2>2
    <3> HIDE DEF rest
    <3> QED
      BY <1>2, <3>1
  <2> QED
    BY <2>1, <2>2
<1>5. \/ c.mapped /\ c.role = "diagnosis" /\ DiagnosisEnded(c, rest, <<>>) /\ groups' = groups
      \/ c.mapped /\ c.role = "forward" /\ ForwardEnded(c, rest, <<>>, FALSE)
      \/ ~c.mapped /\ calls' = rest /\ groups' = groups
  BY Zenon DEF OutboundFailure, late
<1> HIDE DEF rest
<1>6. CASE c.mapped /\ c.role = "diagnosis" /\ DiagnosisEnded(c, rest, <<>>) /\ groups' = groups
  <2>1. ~Counts(c)
    BY <1>6 DEF Counts
  <2> QED
    BY <1>1, <1>2, <1>4, <1>6, <2>1, DiagnosisEndedKeeps
<1>7. CASE c.mapped /\ c.role = "forward" /\ ForwardEnded(c, rest, <<>>, FALSE)
  <2>1. Counts(c)
    BY <1>7 DEF Counts
  <2> QED
    BY <1>1, <1>2, <1>4, <1>7, <2>1, ForwardEndedKeeps, ZenonT(40)
<1>8. CASE ~c.mapped /\ calls' = rest /\ groups' = groups
  <2>1. ~Counts(c) /\ linked' \in [Nodes -> SUBSET Nodes]
    BY <1>1, <1>8 DEF Counts, Inv
  <2> QED
    BY <1>1, <1>2, <1>4, <1>8, <2>1, QuietKeeps
<1> QED
  BY <1>5, <1>6, <1>7, <1>8, ZenonT(40)

LEMMA DiagnosisTimeoutInv ==
  ASSUME Inv, NEW d \in Diagnoses, DiagnosisTimesOut(d)
  PROVE  Inv'
<1>1. /\ calls' = Unmapped(calls, d[1], "diagnosis", diagnosis[d].query)
      /\ UNCHANGED <<groups, seen>> /\ linked' \in [Nodes -> SUBSET Nodes]
  BY DEF DiagnosisTimesOut, topology, Inv
<1>2. Good(calls, seen)
  BY DEF Inv
<1>3. /\ Good(calls', seen) /\ Live(calls') = Live(calls)
      /\ \A x \in calls' : x.stage = "held" =>
           \E y \in calls : y.stage = "held" /\ Channel(y) = Channel(x) /\ y.to = x.to
  <2>1. Good(calls', seen) /\ Live(calls') = Live(calls) /\ HeldStays(calls', calls)
    <3> DEFINE n == d[1]
               q == diagnosis[d].query
               ds == calls'
               role == "diagnosis"
    <3>1. ds = Unmapped(calls, n, role, q) /\ role # "forward"
      BY <1>1
    <3> HIDE DEF n, q, ds, role
    <3>2. Good(ds, seen) /\ Live(ds) = Live(calls) /\ HeldStays(ds, calls)
      BY ONLY <1>2, <3>1, UnmappedOther
    <3> QED
      BY <3>2 DEF ds
  <2> QED
    BY <2>1 DEF HeldStays
<1> QED
  BY <1>1, <1>3, QuietKeeps, ZenonT(40)

----------------------------------------------------------------------------
\* Every step of the mesh keeps the invariant.
LEMMA NextInv == Inv /\ [Next]_vars => Inv'
<1> SUFFICES ASSUME Inv, [Next]_vars PROVE Inv'
  OBVIOUS
<1>1. CASE UNCHANGED vars
  BY <1>1, SilentInv DEF vars, topology, queries
<1>2. CASE Tick
  BY <1>2, SilentInv DEF Tick, topology, queries
<1>3. ASSUME NEW n \in Nodes, explore_relay_mesh(n) PROVE Inv'
  BY <1>3, ExploreInv
<1>4. ASSUME NEW n \in Nodes, PublishHead(n) PROVE Inv'
  BY <1>4, SilentInv DEF PublishHead, topology, queries
<1>5. ASSUME NEW n \in Nodes, ForwardTimesOut(n) PROVE Inv'
  BY <1>5, ForwardTimeoutInv
<1>6. ASSUME NEW n \in Nodes, NEW p \in Nodes, ConnectionEstablished(n, p) PROVE Inv'
  BY <1>6, ConnectionInv
<1>7. ASSUME NEW n \in Nodes, NEW i \in Identities, AskMesh(n, i) PROVE Inv'
  BY <1>7, AskInv
<1>8. ASSUME NEW n \in Nodes, NEW i \in Identities, diagnose_identity(n, i) PROVE Inv'
  BY <1>8, DiagnoseInv
<1>9. ASSUME NEW c \in calls, HandleGossip(c) \/ HandleGossipResponse(c) PROVE Inv'
  BY <1>9, GossipInv
<1>10. ASSUME NEW c \in calls, handle_identity_provider_query(c) PROVE Inv'
  BY <1>10, QueryInv
<1>11. ASSUME NEW c \in calls, HandleProviders(c) PROVE Inv'
  BY <1>11, ProvidersInv
<1>12. ASSUME NEW c \in calls, OutboundFailure(c) PROVE Inv'
  BY <1>12, FailureInv
<1>13. ASSUME NEW d \in Diagnoses, DiagnosisTimesOut(d) PROVE Inv'
  BY <1>13, DiagnosisTimeoutInv
<1> QED
  BY <1>1, <1>2, <1>3, <1>4, <1>5, <1>6, <1>7, <1>8, <1>9, <1>10, <1>11, <1>12, <1>13, ZenonT(40)
  DEF Next

\* A forward group waits for exactly the requests it has out, is never left with
\* none, and every channel a node holds back is in one of its groups: in a mesh
\* of any size and shape, with answers, failures and timeouts in any order
\* (handle_identity_provider_query, the answers and failures of its requests, and
\* check_identity_provider_forward_timeouts).
THEOREM GroupsAlwaysExact == Spec => []GroupsAreExact
<1>1. Init => Inv
  BY InitInv
<1>2. Inv /\ [Next]_vars => Inv'
  BY NextInv
<1>3. Inv => GroupsAreExact
  BY InvIsExact
<1> QED
  BY <1>1, <1>2, <1>3, PTL DEF Spec
=============================================================================
