--------------------------- MODULE NodeSyncProofs ---------------------------
(***************************************************************************)
(* The synchronisation of NodeSync, for any number of identities,          *)
(* providers, commands and devices, and any limits of the work queue.      *)
(***************************************************************************)
EXTENDS NodeSync, FiniteSetTheorems, TLAPS

----------------------------------------------------------------------------
(* The own identity *)

Peers == [Devices -> [connected : BOOLEAN, candidate : BOOLEAN,
                      verified : BOOLEAN, authorized : BOOLEAN]]

\* OwedAreInLine alone is not kept: a new round goes to the devices that are
\* ready when it starts, so the devices that are owed have to be among them.
OwnInv ==
    /\ peer \in Peers
    /\ due \in BOOLEAN
    /\ line \in Seq(Devices)
    /\ asked \subseteq Devices
    /\ owed \subseteq Ready(peer)
    /\ OwedAreInLine

\* A round has every device that is ready in its line, once.
LEMMA RoundIsComplete ==
    ASSUME NEW S \in SUBSET Devices
    PROVE  Lined(S) \in Seq(S) /\ Range(Lined(S)) = S
<1> DEFINE n == Cardinality(S)
           r == Lined(S)
<1>1. IsFiniteSet(S)
    BY LocalSyncAssumption, FS_Subset
<1>2. n \in Nat /\ ExistsBijection(1..n, S)
    BY <1>1, FS_CardinalityType
<1>3. \E f \in [1..n -> S] : IsInjective(f)
    BY <1>2, Zenon DEF ExistsBijection, Bijection, Injection
<1>4. r \in [1..n -> S] /\ IsInjective(r)
    BY <1>3 DEF Lined
<1>5. IsFiniteSet(1..n) /\ Cardinality(1..n) = n
    BY <1>2, FS_Interval
<1> HIDE DEF r
<1>6. r \in Surjection(1..n, S)
    <2>1. r \in Injection(1..n, S)
        BY <1>4 DEF Injection
    <2> QED
        BY <2>1, <1>1, <1>5, FS_Injection
<1>7. Range(r) = S
    BY <1>6, Zenon DEF Surjection, Range
<1>8. r \in Seq(S)
    BY <1>2, <1>4
<1> QED
    BY <1>7, <1>8 DEF r

\* The line after its first device.
LEMMA LineAdvances ==
    ASSUME NEW s \in Seq(Devices), s # <<>>
    PROVE  /\ Head(s) \in Devices
           /\ Tail(s) \in Seq(Devices)
           /\ \A d \in Range(s) : d = Head(s) \/ d \in Range(Tail(s))
<1>1. Head(s) \in Devices /\ Tail(s) \in Seq(Devices)
    OBVIOUS
<1>2. ASSUME NEW k \in DOMAIN s, s[k] # Head(s)
      PROVE  s[k] \in Range(Tail(s))
    <2>1. k \in 1..Len(s) /\ k # 1
        BY <1>2
    <2>2. k - 1 \in 1..Len(Tail(s)) /\ Tail(s)[k - 1] = s[k]
        BY <2>1
    <2>3. k - 1 \in DOMAIN Tail(s)
        BY <2>2, <1>1
    <2> QED
        BY <2>2, <2>3, Zenon DEF Range
<1> QED
    BY <1>1, <1>2, Zenon DEF Range

\* Whatever a handler left due, asked for and owed, the retry that ends it
\* leaves a request behind everything that remains to do.
LEMMA RetryTakesUp ==
    ASSUME NEW wanted \in BOOLEAN, NEW p \in Peers,
           NEW others \in SUBSET Devices, NEW waiting \in SUBSET Ready(p),
           line \in Seq(Devices),
           \A d \in waiting : wanted \/ d \in Range(line),
           retry_pending_refresh(wanted, p, others, waiting),
           peer' = p
    PROVE  OwnInv'
<1> DEFINE round == IF line = <<>> /\ wanted THEN Lined(Ready(p)) ELSE line
<1>r. Ready(p) \in SUBSET Devices
    BY DEF Ready
<1>1. /\ round \in Seq(Devices)
      /\ \A d \in waiting : (wanted /\ line # <<>>) \/ d \in Range(round)
    <2>1. Lined(Ready(p)) \in Seq(Devices)
        BY <1>r, RoundIsComplete
    <2>2. Range(Lined(Ready(p))) = Ready(p)
        BY <1>r, RoundIsComplete
    <2>3. CASE line = <<>> /\ wanted
        BY <2>1, <2>2, <2>3
    <2>4. CASE ~(line = <<>> /\ wanted)
        BY <2>4
    <2> QED
        BY <2>3, <2>4
<1>3. CASE others # {}
    <2>1. due' = wanted /\ asked' = others /\ owed' = waiting /\ line' = line
        BY <1>3 DEF retry_pending_refresh
    <2> QED
        BY <2>1, <1>3 DEF OwnInv, OwedAreInLine, RetriesAreIdle, Ready
<1>4. CASE others = {} /\ round = <<>>
    <2>1. /\ due' = (wanted /\ line # <<>>) /\ line' = <<>>
          /\ asked' = {} /\ owed' = waiting
        BY <1>4 DEF retry_pending_refresh
    <2>2. line = <<>> \/ ~wanted
        BY <1>4
    <2>3. waiting = {}
        <3>1. Range(<<>>) = {}
            BY DEF Range
        <3> QED
            BY <1>1, <1>4, <2>2, <3>1
    <2>4. due' = FALSE /\ owed' = {} /\ line' \in Seq(Devices)
        <3>1. (wanted /\ line # <<>>) = FALSE
            BY <2>2, Zenon
        <3>2. due' = FALSE /\ owed' = {}
            BY <2>1, <2>3, <3>1, Zenon
        <3>3. line' \in Seq(Devices)
            BY <2>1
        <3> QED
            BY <3>2, <3>3
    <2>5. OwedAreInLine'
        BY <2>1, <2>4 DEF OwedAreInLine, RetriesAreIdle
    <2> QED
        BY <2>1, <2>4, <2>5 DEF OwnInv
<1>5. CASE others = {} /\ round # <<>>
    <2>1. /\ due' = (wanted /\ line # <<>>) /\ line' = Tail(round)
          /\ asked' = {Head(round)} /\ owed' = waiting \ {Head(round)}
        BY <1>5 DEF retry_pending_refresh
    <2> HIDE DEF round
    <2>2. /\ Head(round) \in Devices
          /\ Tail(round) \in Seq(Devices)
          /\ \A d \in Range(round) : d = Head(round) \/ d \in Range(Tail(round))
        BY <1>1, <1>5, LineAdvances
    <2> QED
        BY <2>1, <2>2, <1>1 DEF OwnInv, OwedAreInLine, RetriesAreIdle, Ready
<1> QED
    BY <1>3, <1>4, <1>5

\* A request sent to a candidate owes no other device anything.
LEMMA CandidateTakesUp ==
    ASSUME OwnInv, NEW d \in Devices, NEW explicit \in BOOLEAN,
           refresh_from_candidate(d, explicit),
           UNCHANGED <<due, line>>,
           peer' \in Peers, Ready(peer) \subseteq Ready(peer')
    PROVE  OwnInv'
<1>1. CASE UNCHANGED <<asked, owed>>
    BY <1>1 DEF OwnInv, OwedAreInLine, RetriesAreIdle
<1>2. CASE asked = {} /\ asked' = {d} /\ owed' = owed \ {d}
    BY <1>2 DEF OwnInv, OwedAreInLine, RetriesAreIdle
<1> QED
    BY <1>1, <1>2 DEF refresh_from_candidate, Ask

\* Initially nothing is owed.
LEMMA OwnInitInv == LocalInit => OwnInv
<1> SUFFICES ASSUME LocalInit PROVE OwnInv
    OBVIOUS
<1>1. peer \in Peers
    BY DEF LocalInit, Peers
<1>2. line \in Seq(Devices)
    BY DEF LocalInit
<1> QED
    BY <1>1, <1>2, Zenon DEF LocalInit, OwnInv, OwedAreInLine, RetriesAreIdle

\* Every step of the local refreshes keeps OwnInv.
LEMMA OwnNextInv == OwnInv /\ [LocalNext]_localVars => OwnInv'
<1> SUFFICES ASSUME OwnInv, [LocalNext]_localVars PROVE OwnInv'
    OBVIOUS
<1>1. CASE CompleteMutation
    <2>1. Ready(peer) \in SUBSET Ready(peer) /\ TRUE \in BOOLEAN
        OBVIOUS
    <2>2. retry_pending_refresh(TRUE, peer, asked, Ready(peer)) /\ peer' = peer
        BY <1>1, Zenon DEF CompleteMutation
    <2>3. peer \in Peers /\ asked \in SUBSET Devices /\ line \in Seq(Devices)
        BY DEF OwnInv
    <2> QED
        BY <2>1, <2>2, <2>3, RetryTakesUp, Zenon
<1>2. CASE CooldownEnds \/ UNCHANGED localVars
    BY <1>2 DEF CooldownEnds, localVars, OwnInv, OwedAreInLine, RetriesAreIdle
<1>3. ASSUME NEW d \in Devices, Discovered(d)
      PROVE  OwnInv'
    <2>1. peer' \in Peers /\ Ready(peer') = Ready(peer)
        BY <1>3, Zenon DEF Discovered, OwnInv, Peers, Ready
    <2> QED
        BY <1>3, <2>1, Zenon DEF Discovered, OwnInv, OwedAreInLine, RetriesAreIdle
<1>4. ASSUME NEW d \in Devices, connect_peer_multiaddr(d)
      PROVE  OwnInv'
    <2>1. peer' \in Peers /\ Ready(peer') = Ready(peer)
        BY <1>4, Zenon DEF connect_peer_multiaddr, OwnInv, Peers, Ready
    <2>2. refresh_from_candidate(d, TRUE) /\ UNCHANGED <<due, line>>
        BY <1>4, Zenon DEF connect_peer_multiaddr
    <2> QED
        BY <2>1, <2>2, CandidateTakesUp, Zenon
<1>5. ASSUME NEW d \in Devices, ConnectionEstablished(d)
      PROVE  OwnInv'
    <2>1. peer' \in Peers /\ Ready(peer) \subseteq Ready(peer')
        BY <1>5, Zenon DEF ConnectionEstablished, OwnInv, Peers, Ready
    <2>2. UNCHANGED <<due, line>>
        BY <1>5 DEF ConnectionEstablished
    <2>3. CASE refresh_from_candidate(d, FALSE)
        BY <2>1, <2>2, <2>3, CandidateTakesUp, Zenon
    <2>4. CASE UNCHANGED <<asked, cooling, owed>>
        BY <2>1, <2>2, <2>4 DEF OwnInv, OwedAreInLine, RetriesAreIdle
    <2> QED
        BY <1>5, <2>3, <2>4, Zenon DEF ConnectionEstablished
<1>6. ASSUME NEW d \in Devices, ConnectionClosed(d) \/ RevokeDevice(d)
      PROVE  OwnInv'
    <2>1. peer' \in Peers /\ Ready(peer) \ {d} \subseteq Ready(peer')
        <3>1. PICK v \in [connected : BOOLEAN, candidate : BOOLEAN,
                          verified : BOOLEAN, authorized : BOOLEAN] :
                  peer' = [peer EXCEPT ![d] = v]
            <4>1. peer[d] \in [connected : BOOLEAN, candidate : BOOLEAN,
                               verified : BOOLEAN, authorized : BOOLEAN]
                BY DEF OwnInv, Peers
            <4>2. CASE ConnectionClosed(d)
                <5>1. peer' = [peer EXCEPT ![d] = [peer[d] EXCEPT !.connected = FALSE]]
                    BY <4>2, Zenon DEF ConnectionClosed, Lose
                <5> QED
                    BY <4>1, <5>1, Zenon
            <4>3. CASE RevokeDevice(d)
                <5>1. peer' = [peer EXCEPT ![d] = [peer[d] EXCEPT !.authorized = FALSE]]
                    BY <4>3, Zenon DEF RevokeDevice, Lose
                <5> QED
                    BY <4>1, <5>1, Zenon
            <4> QED
                BY <1>6, <4>2, <4>3
        <3> QED
            BY <3>1 DEF OwnInv, Peers, Ready
    <2>2. owed' = owed \ {d} /\ UNCHANGED <<due, line, asked>>
        BY <1>6 DEF ConnectionClosed, RevokeDevice, Lose
    <2> QED
        BY <2>1, <2>2 DEF OwnInv, OwedAreInLine, RetriesAreIdle
<1>7. ASSUME NEW d \in Devices, LocalFailure(d)
      PROVE  OwnInv'
    <2>1. retry_pending_refresh(due, peer, asked \ {d}, owed) /\ peer' = peer
        BY <1>7 DEF LocalFailure, LocalSettled
    <2>2. /\ peer \in Peers /\ due \in BOOLEAN /\ line \in Seq(Devices)
          /\ asked \ {d} \in SUBSET Devices /\ owed \in SUBSET Ready(peer)
          /\ \A x \in owed : due \/ x \in Range(line)
        BY DEF OwnInv, OwedAreInLine
    <2> QED
        BY <2>1, <2>2, RetryTakesUp
<1>8. ASSUME NEW d \in Devices, NEW ok \in BOOLEAN, InboundOffer(d, ok)
      PROVE  OwnInv'
    <2>1. peer' \in Peers /\ Ready(peer) \subseteq Ready(peer')
        BY <1>8 DEF InboundOffer, OwnInv, Peers, Ready
    <2> QED
        BY <1>8, <2>1, Zenon DEF InboundOffer, OwnInv, OwedAreInLine, RetriesAreIdle
<1>9. ASSUME NEW d \in Devices, NEW ok \in BOOLEAN, LocalResponse(d, ok)
      PROVE  OwnInv'
    <2>1. peer' \in Peers /\ Ready(peer) \subseteq Ready(peer')
        BY <1>9 DEF LocalResponse, OwnInv, Peers, Ready
    <2>2. retry_pending_refresh(due, peer', asked \ {d}, owed)
        BY <1>9 DEF LocalResponse, LocalSettled
    <2>3. /\ due \in BOOLEAN /\ line \in Seq(Devices)
          /\ asked \ {d} \in SUBSET Devices /\ owed \in SUBSET Ready(peer')
          /\ \A x \in owed : due \/ x \in Range(line)
        BY <2>1 DEF OwnInv, OwedAreInLine
    <2> QED
        BY <2>1, <2>2, <2>3, RetryTakesUp
<1> QED
    BY <1>1, <1>2, <1>3, <1>4, <1>5, <1>6, <1>7, <1>8, <1>9 DEF LocalNext
----------------------------------------------------------------------------
(* The limits of the work queue *)

\* An image of a finite set is finite and no larger.
LEMMA ImageIsFinite ==
    ASSUME NEW S, IsFiniteSet(S), NEW T, NEW f \in [S -> T]
    PROVE  /\ IsFiniteSet({f[x] : x \in S})
           /\ Cardinality({f[x] : x \in S}) <= Cardinality(S)
<1> DEFINE I == {f[x] : x \in S}
<1>1. f \in Surjection(S, I)
    BY DEF Surjection
<1> HIDE DEF I
<1>2. IsFiniteSet(I) /\ Cardinality(I) <= Cardinality(S)
    BY <1>1, FS_Surjection
<1> QED
    BY <1>2 DEF I

\* The numbers up to n are n.
LEMMA FirstNumbers ==
    ASSUME NEW n \in Nat
    PROVE  IsFiniteSet(1..n) /\ Cardinality(1..n) = n
BY FS_Interval

\* The two sizes of a union.
LEMMA UnionIsFinite ==
    ASSUME NEW S, NEW T, IsFiniteSet(S), IsFiniteSet(T)
    PROVE  /\ IsFiniteSet(S \union T)
           /\ Cardinality(S) \in Nat /\ Cardinality(T) \in Nat
           /\ Cardinality(S \union T) \in Nat
           /\ Cardinality(S \union T) <= Cardinality(S) + Cardinality(T)
<1>1. /\ IsFiniteSet(S \union T)
      /\ Cardinality(S \union T) = Cardinality(S) + Cardinality(T) - Cardinality(S \cap T)
    BY FS_Union
<1>2. IsFiniteSet(S \cap T)
    BY FS_Intersection
<1>3. Cardinality(S) \in Nat /\ Cardinality(T) \in Nat /\ Cardinality(S \cap T) \in Nat
    BY <1>2, FS_CardinalityType
<1>4. Cardinality(S \union T) \in Nat
    BY <1>1, FS_CardinalityType
<1> QED
    BY <1>1, <1>3, <1>4

\* Leaving works out of a queue: what is left is of the queue, and not longer.
LEMMA WithoutIsOfTheQueue ==
    ASSUME NEW s \in Seq(Works), NEW gone
    PROVE  /\ Without(s, gone) \in Seq(Works)
           /\ Len(Without(s, gone)) <= Len(s)
           /\ Range(Without(s, gone)) \subseteq Range(s)
<1> DEFINE kept == {n \in DOMAIN s : s[n] \notin gone}
           Place(n) == Cardinality({m \in kept : m <= n})
           size == Cardinality(kept)
           q == Without(s, gone)
<1>1. /\ DOMAIN s = 1..Len(s) /\ Len(s) \in Nat
      /\ kept \in SUBSET (1..Len(s))
    OBVIOUS
<1>2. IsFiniteSet(kept) /\ size \in Nat /\ size <= Len(s)
    <2>1. IsFiniteSet(1..Len(s)) /\ Cardinality(1..Len(s)) = Len(s)
        BY <1>1, FirstNumbers
    <2>2. IsFiniteSet(kept) /\ size <= Len(s)
        BY <1>1, <2>1, FS_Subset
    <2> QED
        BY <2>2, FS_CardinalityType
<1>3. q = [k \in 1..size |-> s[CHOOSE n \in kept : Place(n) = k]]
    BY DEF Without
<1>4. \A k \in 1..size : \E n \in kept : Place(n) = k
    <2> DEFINE f == [n \in kept |-> Place(n)]
               Below(n) == {m \in kept : m <= n}
    <2>0. kept \subseteq Nat
        BY <1>1
    <2> HIDE DEF kept
    <2>1. \A n \in kept : IsFiniteSet(Below(n)) /\ Place(n) \in 1..size
        <3> SUFFICES ASSUME NEW n \in kept
                     PROVE  IsFiniteSet(Below(n)) /\ Place(n) \in 1..size
            OBVIOUS
        <3>1. Below(n) \in SUBSET kept /\ n \in Below(n)
            BY <2>0
        <3>2. IsFiniteSet(Below(n)) /\ Place(n) <= size
            BY <3>1, <1>2, FS_Subset
        <3>3. Place(n) \in Nat /\ Place(n) # 0
            <4>1. Place(n) \in Nat
                BY <3>2, FS_CardinalityType
            <4>2. Below(n) # {}
                BY <3>1
            <4> QED
                BY <3>2, <4>1, <4>2, FS_EmptySet
        <3> QED
            BY <1>2, <3>2, <3>3
    <2>2. \A n, m \in kept : Place(n) = Place(m) => n = m
        <3> SUFFICES ASSUME NEW n \in kept, NEW m \in kept, Place(n) = Place(m), n < m
                     PROVE  FALSE
            BY <2>0
        <3>0. n \in Nat /\ m \in Nat
            BY <2>0
        <3>1. Below(n) \in SUBSET Below(m) /\ m \in Below(m) /\ m \notin Below(n)
            <4>1. \A x \in Below(n) : x \in kept /\ x <= m
                BY <2>0, <3>0
            <4>2. m <= m /\ ~(m <= n)
                BY <3>0
            <4> QED
                BY <4>1, <4>2, Zenon
        <3>2. IsFiniteSet(Below(m)) /\ Cardinality(Below(m)) = Cardinality(Below(n))
            BY <2>1
        <3> HIDE DEF Below
        <3>3. Below(m) = Below(n)
            BY <3>1, <3>2, FS_Subset
        <3> QED
            BY <3>1, <3>3
    <2>3. f \in [kept -> 1..size]
        BY <2>1, Zenon
    <2>4. IsInjective(f)
        <3> HIDE DEF Place
        <3> QED
            BY <2>2 DEF IsInjective
    <2>5. f \in Injection(kept, 1..size)
        BY <2>3, <2>4 DEF Injection
    <2>6. IsFiniteSet(1..size) /\ Cardinality(1..size) = size
        BY <1>2, FirstNumbers
    <2> HIDE DEF f
    <2>7. f \in Surjection(kept, 1..size)
        BY <2>5, <2>6, FS_Injection
    <2>8. \A k \in 1..size : \E n \in kept : f[n] = k
        BY <2>7 DEF Surjection
    <2> HIDE DEF Place
    <2> QED
        BY <2>8 DEF f
<1> HIDE DEF Place, q
<1>5. \A k \in 1..size : \E n \in DOMAIN s : q[k] = s[n]
    <2> SUFFICES ASSUME NEW k \in 1..size
                 PROVE  \E n \in DOMAIN s : q[k] = s[n]
        OBVIOUS
    <2>1. (CHOOSE n \in kept : Place(n) = k) \in kept
        BY <1>4
    <2> QED
        BY <1>3, <2>1, Zenon
<1>6. DOMAIN q = 1..size
    BY <1>3
<1>7. q \in [1..size -> Works]
    BY <1>3, <1>5, <1>6
<1>8. q \in Seq(Works) /\ Len(q) = size
    <2> HIDE DEF size
    <2> QED
        BY <1>2, <1>7
<1>9. Range(q) \subseteq Range(s)
    BY <1>5, <1>6 DEF Range
<1> QED
    BY <1>2, <1>8, <1>9 DEF q
\* The queue keeps its limits, and owners are ids.
WorkInv ==
    /\ active \subseteq Works
    /\ IsFiniteSet(active) /\ Cardinality(active) <= MaxConcurrency
    /\ queued \in Seq(Works) /\ Len(queued) <= QueueCapacity
    /\ owner \in [Identities -> WorkIds \union {None}]

\* A work that no other has outdated started from what the cache holds now.
FromCache(w, c) == w.current => w.base = c[w.identity]
Snapshots == \A w \in active \union Range(queued) : FromCache(w, cache)

\* There is an id for every work that is run or queued: the ids in use are
\* those of the works and of the owners.
LEMMA FreeIdIsAnId ==
    ASSUME WorkInv, Cardinality(active) < MaxConcurrency \/ Len(queued) < QueueCapacity
    PROVE  FreeId \in WorkIds
<1> DEFINE N == MaxConcurrency + QueueCapacity + Cardinality(Identities)
           a == [w \in active |-> w.id]
           q == [n \in 1..Len(queued) |-> queued[n].id]
           A == {a[w] : w \in active}
           Q == {q[n] : n \in 1..Len(queued)}
           O == {owner[i] : i \in Identities}
           used == (A \union Q) \union O
<1>1. IsFiniteSet(A) /\ Cardinality(A) <= Cardinality(active)
    <2>1. a \in [active -> WorkIds]
        BY DEF WorkInv, Works
    <2>2. IsFiniteSet(active)
        BY DEF WorkInv
    <2> HIDE DEF a
    <2> QED
        BY <2>1, <2>2, ImageIsFinite, Zenon
<1>2. IsFiniteSet(Q) /\ Cardinality(Q) <= Len(queued)
    <2>0. Len(queued) \in Nat /\ \A n \in 1..Len(queued) : queued[n] \in Works
        BY DEF WorkInv
    <2>1. q \in [1..Len(queued) -> WorkIds] /\ Len(queued) \in Nat
        BY <2>0 DEF Works
    <2>2. IsFiniteSet(1..Len(queued)) /\ Cardinality(1..Len(queued)) = Len(queued)
        BY <2>1, FirstNumbers
    <2> HIDE DEF q
    <2> QED
        BY <2>1, <2>2, ImageIsFinite, Zenon
<1>3. IsFiniteSet(O) /\ Cardinality(O) <= Cardinality(Identities)
    <2>1. owner \in [Identities -> WorkIds \union {None}] /\ IsFiniteSet(Identities)
        BY SyncAssumption DEF WorkInv
    <2> QED
        BY <2>1, ImageIsFinite, Zenon
<1>4. Cardinality(active) \in Nat /\ Cardinality(Identities) \in Nat /\ Len(queued) \in Nat
    BY SyncAssumption, FS_CardinalityType DEF WorkInv
<1>5. IsFiniteSet(used) /\ Cardinality(used) < N
    <2> HIDE DEF A, Q, O
    <2>1. IsFiniteSet(A \union Q) /\ Cardinality(A \union Q) <= Cardinality(A) + Cardinality(Q)
        BY <1>1, <1>2, UnionIsFinite
    <2>2. IsFiniteSet(used) /\ Cardinality(used) <= Cardinality(A \union Q) + Cardinality(O)
        BY <1>3, <2>1, UnionIsFinite, Zenon
    <2>3. /\ Cardinality(A) \in Nat /\ Cardinality(Q) \in Nat /\ Cardinality(O) \in Nat
          /\ Cardinality(A \union Q) \in Nat /\ Cardinality(used) \in Nat
        BY <1>1, <1>2, <1>3, <2>1, <2>2, FS_CardinalityType
    <2>4. MaxConcurrency \in Nat /\ QueueCapacity \in Nat
        BY SyncAssumption
    <2>5. Cardinality(active) <= MaxConcurrency /\ Len(queued) <= QueueCapacity
        BY DEF WorkInv
    <2> HIDE DEF used
    <2> QED
        BY <1>1, <1>2, <1>3, <1>4, <2>1, <2>2, <2>3, <2>4, <2>5
<1>6. N \in Nat /\ WorkIds = 1..N
    BY <1>4, SyncAssumption DEF WorkIds
<1>7. IsFiniteSet(1..N) /\ Cardinality(1..N) = N
    BY <1>6, FirstNumbers
<1>8. ~(1..N \subseteq used)
    <2> HIDE DEF used, N
    <2> SUFFICES ASSUME 1..N \subseteq used PROVE FALSE
        OBVIOUS
    <2>1. Cardinality(1..N) <= Cardinality(used)
        BY <1>5, FS_Subset, Zenon
    <2>2. Cardinality(used) \in Nat
        BY <1>5, FS_CardinalityType
    <2> QED
        BY <1>5, <1>6, <1>7, <2>1, <2>2
<1>9. \E n \in WorkIds : /\ \A w \in active \union QueuedWork : w.id # n
                         /\ \A i \in Identities : owner[i] # n
    <2>1. PICK n \in 1..N : n \notin used
        BY <1>8
    <2>2. \A w \in active : w.id # n
        BY <2>1
    <2>3. \A w \in QueuedWork : w.id # n
        <3>1. DOMAIN queued = 1..Len(queued)
            BY DEF WorkInv
        <3> QED
            BY <2>1, <3>1 DEF QueuedWork
    <2>4. \A i \in Identities : owner[i] # n
        BY <2>1
    <2> HIDE DEF N, used
    <2> QED
        BY <1>6, <2>1, <2>2, <2>3, <2>4
<1> QED
    BY <1>9, Zenon DEF FreeId

\* A handler that leaves the works of A running and those of q queued, each as
\* g or h makes it.
LEMMA WorksKept ==
    ASSUME Snapshots,
           NEW A \in SUBSET Works, IsFiniteSet(A), Cardinality(A) <= MaxConcurrency,
           NEW q \in Seq(Works), Len(q) <= QueueCapacity,
           A \union Range(q) \subseteq active \union Range(queued),
           NEW g \in [Works -> Works], NEW h \in [Works -> Works],
           \A w \in Works : FromCache(w, cache) =>
               FromCache(g[w], cache') /\ FromCache(h[w], cache'),
           active' = {g[w] : w \in A},
           queued' = [n \in DOMAIN q |-> h[q[n]]],
           owner' \in [Identities -> WorkIds \union {None}]
    PROVE  WorkInv' /\ Snapshots'
<1>1. /\ active' \subseteq Works /\ IsFiniteSet(active')
      /\ Cardinality(active') <= MaxConcurrency
    <2> DEFINE f == [w \in A |-> g[w]]
               I == {f[w] : w \in A}
    <2>1. f \in [A -> Works] /\ active' = I
        OBVIOUS
    <2>2. IsFiniteSet(I) /\ Cardinality(I) <= Cardinality(A)
        <3>1. f \in [A -> Works]
            BY <2>1
        <3> HIDE DEF f
        <3>2. /\ IsFiniteSet({f[w] : w \in A})
              /\ Cardinality({f[w] : w \in A}) <= Cardinality(A)
            BY ONLY <3>1, IsFiniteSet(A), ImageIsFinite, Zenon
        <3> QED
            BY ONLY <3>2
    <2>3. Cardinality(I) \in Nat /\ Cardinality(A) \in Nat /\ MaxConcurrency \in Nat
        <3> HIDE DEF I
        <3> QED
            BY <2>2, FS_CardinalityType, SyncAssumption
    <2>4. I \subseteq Works
        <3> HIDE DEF f
        <3> QED
            BY <2>1
    <2> HIDE DEF I
    <2>5. Cardinality(I) <= MaxConcurrency
        BY <2>2, <2>3
    <2> QED
        BY <2>1, <2>2, <2>4, <2>5, Zenon
<1>2. queued' \in Seq(Works) /\ Len(queued') <= QueueCapacity
    <2>1. DOMAIN q = 1..Len(q) /\ Len(q) \in Nat /\ \A n \in DOMAIN q : q[n] \in Works
        OBVIOUS
    <2>2. queued' \in [1..Len(q) -> Works]
        BY <2>1
    <2>3. queued' \in Seq(Works) /\ Len(queued') = Len(q)
        BY <2>1, <2>2
    <2> QED
        BY <2>3
<1>3. ASSUME NEW v \in active' PROVE FromCache(v, cache')
    <2>1. PICK w \in A : v = g[w]
        BY <1>3
    <2>2. FromCache(w, cache) /\ w \in Works
        BY DEF Snapshots
    <2> QED
        BY <2>1, <2>2
<1>4. ASSUME NEW v \in Range(queued') PROVE FromCache(v, cache')
    <2>1. PICK n \in DOMAIN q : v = h[q[n]]
        BY <1>4 DEF Range
    <2>2. q[n] \in Range(q)
        BY Zenon DEF Range
    <2>3. q[n] \in Works
        OBVIOUS
    <2>4. FromCache(q[n], cache)
        BY <2>2 DEF Snapshots
    <2> QED
        BY <2>1, <2>3, <2>4
<1> QED
    BY <1>1, <1>2, <1>3, <1>4 DEF WorkInv, Snapshots
\* The queue's first works start when there is room.
LEMMA StartedWorks ==
    ASSUME WorkInv, NEW w \in active
    PROVE  LET s == Started(active \ {w}) IN
           /\ s.active \in SUBSET Works /\ IsFiniteSet(s.active)
           /\ Cardinality(s.active) <= MaxConcurrency
           /\ s.queued \in Seq(Works) /\ Len(s.queued) <= QueueCapacity
           /\ s.active \union Range(s.queued) \subseteq active \union Range(queued)
<1> DEFINE rest == active \ {w}
           len == Len(queued)
           free == MaxConcurrency - Cardinality(rest)
           room == Min({len, free})
           first == {queued[n] : n \in 1..room}
           later == SubSeq(queued, room + 1, len)
<1>1. IsFiniteSet(rest) /\ Cardinality(rest) \in Nat /\ free \in Nat
    <2>1. IsFiniteSet(rest) /\ Cardinality(rest) = Cardinality(active) - 1
        BY FS_RemoveElement DEF WorkInv
    <2>2. Cardinality(rest) \in Nat /\ Cardinality(active) \in Nat
        BY <2>1, FS_CardinalityType DEF WorkInv
    <2>3. Cardinality(active) <= MaxConcurrency /\ MaxConcurrency \in Nat
        BY SyncAssumption DEF WorkInv
    <2> HIDE DEF rest
    <2> QED
        BY <2>1, <2>2, <2>3
<1>2. len \in Nat /\ len <= QueueCapacity /\ QueueCapacity \in Nat /\ MaxConcurrency \in Nat
    BY SyncAssumption DEF WorkInv
<1>3. room \in Nat /\ room <= len /\ room <= free
    <2> HIDE DEF rest, len, free
    <2>1. \E x \in {len, free} : \A y \in {len, free} : x <= y
        <3>1. CASE len <= free
            BY <1>1, <1>2, <3>1
        <3>2. CASE free <= len
            BY <1>1, <1>2, <3>2
        <3> QED
            BY <1>1, <1>2, <3>1, <3>2
    <2>2. room \in {len, free} /\ \A y \in {len, free} : room <= y
        BY <2>1, Zenon DEF Min
    <2> QED
        BY <1>1, <1>2, <2>2
<1> HIDE DEF room, free, rest
<1>4. \A n \in 1..len : queued[n] \in Works /\ queued[n] \in Range(queued)
    <2>1. DOMAIN queued = 1..len /\ \A n \in 1..len : queued[n] \in Works
        BY DEF WorkInv
    <2> QED
        BY <2>1, Zenon DEF Range
<1>5. IsFiniteSet(first) /\ Cardinality(first) <= room /\ first \subseteq Works \cap Range(queued)
    <2> DEFINE f == [n \in 1..room |-> queued[n]]
               I == {f[n] : n \in 1..room}
    <2>1. \A n \in 1..room : queued[n] \in Works /\ queued[n] \in Range(queued)
        BY <1>2, <1>3, <1>4
    <2>2. f \in [1..room -> Works] /\ first = I
        BY <2>1
    <2>3. IsFiniteSet(1..room) /\ Cardinality(1..room) = room
        BY <1>3, FirstNumbers
    <2>4. first \subseteq Works \cap Range(queued)
        BY <2>1
    <2> HIDE DEF f, first
    <2>5. IsFiniteSet(I) /\ Cardinality(I) <= room
        BY <2>2, <2>3, ImageIsFinite, Zenon
    <2> QED
        BY <2>2, <2>4, <2>5, Zenon
<1>6. later \in Seq(Works) /\ Len(later) <= QueueCapacity /\ Range(later) \subseteq Range(queued)
    <2>0. queued \in Seq(Works)
        BY DEF WorkInv
    <2>1. /\ later \in Seq(Works)
          /\ Len(later) = len - room
          /\ \A n \in 1..(len - room) : later[n] = queued[room + n]
        BY <2>0, <1>2, <1>3
    <2>2. Len(later) <= QueueCapacity
        BY <2>1, <1>2, <1>3
    <2>3. \A n \in 1..(len - room) : room + n \in 1..len
        BY <1>2, <1>3
    <2>4. DOMAIN later = 1..(len - room)
        BY <2>1
    <2> HIDE DEF later, len
    <2>5. \A n \in DOMAIN later : later[n] \in Range(queued)
        BY <2>1, <2>3, <2>4, <1>4
    <2>6. Range(later) \subseteq Range(queued)
        BY <2>5, Zenon DEF Range
    <2> QED
        BY <2>1, <2>2, <2>6
<1>7. /\ rest \union first \in SUBSET Works /\ IsFiniteSet(rest \union first)
      /\ Cardinality(rest \union first) <= MaxConcurrency
    <2> HIDE DEF first
    <2>1. /\ IsFiniteSet(rest \union first)
          /\ Cardinality(rest \union first) <= Cardinality(rest) + Cardinality(first)
          /\ Cardinality(rest \union first) \in Nat /\ Cardinality(first) \in Nat
        BY <1>1, <1>5, UnionIsFinite, Zenon
    <2>2. Cardinality(rest) + room <= MaxConcurrency
        BY <1>1, <1>2, <1>3 DEF free
    <2>3. Cardinality(rest \union first) <= MaxConcurrency
        BY <2>1, <2>2, <1>1, <1>2, <1>3, <1>5
    <2>4. rest \subseteq Works
        BY DEF WorkInv, rest
    <2> QED
        BY <2>1, <2>3, <2>4, <1>5
<1>8. Started(rest) = [active |-> rest \union first, queued |-> later]
    BY DEF Started, room, free
<1> HIDE DEF first, later
<1>9. Started(rest).active = rest \union first /\ Started(rest).queued = later
    BY <1>8
<1>10. rest \subseteq active
    BY DEF rest
<1>11. rest \union first \union Range(later) \subseteq active \union Range(queued)
    <2>1. first \subseteq Range(queued) /\ Range(later) \subseteq Range(queued)
        BY <1>5, <1>6, Zenon
    <2> QED
        BY <1>10, <2>1, Zenon
<1>12. /\ Started(rest).active \in SUBSET Works /\ IsFiniteSet(Started(rest).active)
       /\ Cardinality(Started(rest).active) <= MaxConcurrency
       /\ Started(rest).queued \in Seq(Works) /\ Len(Started(rest).queued) <= QueueCapacity
       /\ Started(rest).active \union Range(Started(rest).queued) \subseteq active \union Range(queued)
    <2> DEFINE x == Started(rest).active
               y == Started(rest).queued
    <2>1. x = rest \union first /\ y = later
        BY <1>9
    <2> HIDE DEF x, y
    <2>2. /\ x \in SUBSET Works /\ IsFiniteSet(x) /\ Cardinality(x) <= MaxConcurrency
          /\ y \in Seq(Works) /\ Len(y) <= QueueCapacity
          /\ x \union Range(y) \subseteq active \union Range(queued)
        BY <2>1, <1>6, <1>7, <1>11
    <2> QED
        BY <2>2 DEF x, y
<1> QED
    BY <1>12, Zenon DEF rest
----------------------------------------------------------------------------
(* Remote identities *)

IsRequest(r) ==
    r \in [slot : {r.slot}, identity : Identities, provider : Providers, late : BOOLEAN]

Parked ==
    /\ waiters \in [Identities -> SUBSET (Clients \union {Refresh})]
    /\ \A r \in requests : IsRequest(r)

\* WaitersAreOwned needs the works to have ids, for which there has to be room,
\* and the cache's order needs Snapshots.
RemoteInv ==
    /\ cache \in [Identities -> Lengths]
    /\ known \in [Identities -> SUBSET Providers]
    /\ Parked
    /\ WorkInv
    /\ Snapshots
    /\ WaitersAreOwned

\* What sending a request adds.
LEMMA SentIsPending ==
    ASSUME NEW used, NEW i \in Identities, NEW p \in Providers
    PROVE  /\ used \subseteq Sent(used, i, p)
           /\ \E r \in Sent(used, i, p) : r.identity = i
           /\ \A r \in Sent(used, i, p) : r \in used \/ IsRequest(r)
<1> DEFINE new == Request(FreeSlot(used), i, p)
<1>1. new.identity = i /\ IsRequest(new)
    BY DEF Request, IsRequest
<1>2. Sent(used, i, p) = used \union {new}
    BY DEF Sent
<1> HIDE DEF new
<1> QED
    BY <1>1, <1>2

\* An identity's waiters are owned after a step that leaves it alone.
Untouched(i) ==
    /\ waiters'[i] \subseteq waiters[i]
    /\ known'[i] \subseteq known[i]
    /\ owner'[i] = owner[i]
    /\ \A r \in requests : r.identity = i => \E q \in requests' : q.identity = i

\* ... and of one that answers them, sends a request or has a work for it.
Settles(i) ==
    \/ waiters'[i] = {} \/ known'[i] = {} \/ owner'[i] # None
    \/ \E q \in requests' : q.identity = i

\* Every waiter is owned after a step that looks after every identity.
LEMMA OwnedByStep ==
    ASSUME WaitersAreOwned, \A i \in Identities : Untouched(i) \/ Settles(i)
    PROVE  WaitersAreOwned'
<1> SUFFICES ASSUME NEW i \in Identities, waiters'[i] # {}, known'[i] # {}, owner'[i] = None
             PROVE  Pending(i)' # {}
    BY DEF WaitersAreOwned, InFlight
<1>1. CASE Untouched(i)
    <2>1. waiters[i] # {} /\ known[i] # {} /\ owner[i] = None
        BY <1>1 DEF Untouched
    <2>2. PICK r \in requests : r.identity = i
        BY <2>1 DEF WaitersAreOwned, InFlight, Pending
    <2>3. \E q \in requests' : q.identity = i
        BY <1>1, <2>2 DEF Untouched
    <2> QED
        BY <2>3 DEF Pending
<1>2. CASE Settles(i)
    BY <1>2 DEF Settles, Pending
<1> QED
    BY <1>1, <1>2

\* An answer clears the waiters of its identity and no others.
LEMMA AnswerClears ==
    ASSUME waiters \in [Identities -> SUBSET (Clients \union {Refresh})],
           NEW i \in Identities, NEW outcome, Answer(i, outcome)
    PROVE  /\ waiters' \in [Identities -> SUBSET (Clients \union {Refresh})]
           /\ waiters'[i] = {}
           /\ \A j \in Identities \ {i} : waiters'[j] = waiters[j]
BY DEF Answer, AnswerAll

\* A settled request of i goes to another provider or ends the waits.
LEMMA SettledIsOwned ==
    ASSUME RemoteInv, NEW i \in Identities, NEW p \in Providers, NEW outcome,
           NEW rest \in SUBSET requests, \A r \in requests \ rest : r.identity = i,
           OnSettled(i, p, rest, outcome), known' = known,
           \A j \in Identities \ {i} : owner'[j] = owner[j]
    PROVE  Parked' /\ WaitersAreOwned'
<1>1. CASE Peek(i, p) # {}
    <2>1. PICK q \in Peek(i, p) : requests' = Sent(rest, i, q)
        BY <1>1 DEF OnSettled
    <2>2. waiters' = waiters
        BY <1>1 DEF OnSettled
    <2>3. q \in Providers
        BY DEF Peek, RemoteInv
    <2>4. /\ rest \subseteq requests'
          /\ \E r \in requests' : r.identity = i
          /\ \A r \in requests' : r \in rest \/ IsRequest(r)
        BY <2>1, <2>3, SentIsPending
    <2>5. \A j \in Identities : Untouched(j) \/ Settles(j)
        BY <2>2, <2>4 DEF Untouched, Settles
    <2>6. WaitersAreOwned'
        BY <2>5, OwnedByStep DEF RemoteInv
    <2> QED
        BY <2>2, <2>4, <2>6 DEF Parked, RemoteInv
<1>2. CASE Peek(i, p) = {}
    <2>1. requests' = rest /\ AnswerAll({i}, waiters, client, outcome)
        BY <1>2 DEF OnSettled, Answer
    <2>2. waiters \in [Identities -> SUBSET (Clients \union {Refresh})]
        BY DEF RemoteInv, Parked
    <2>3. /\ waiters' \in [Identities -> SUBSET (Clients \union {Refresh})]
          /\ \A j \in Identities : waiters'[j] = {} \/ (j \notin {i} /\ waiters'[j] = waiters[j])
        BY <2>1, <2>2 DEF AnswerAll
    <2>4. \A j \in Identities : Untouched(j) \/ Settles(j)
        BY <2>1, <2>3 DEF Untouched, Settles
    <2>5. WaitersAreOwned'
        BY <2>4, OwnedByStep DEF RemoteInv
    <2> QED
        BY <2>1, <2>3, <2>5 DEF Parked, RemoteInv
<1> QED
    BY <1>1, <1>2
\* A waiter joins a sync under way, is parked until a provider is found, or
\* starts one.
LEMMA BeginIsOwned ==
    ASSUME RemoteInv, NEW i \in Identities, NEW waiter \in Clients \union {Refresh},
           Begin(i, waiter), known' = known, owner' = owner
    PROVE  Parked' /\ WaitersAreOwned'
<1> DEFINE parked == [waiters EXCEPT ![i] = @ \union {waiter}]
           told == [c \in Clients |-> IF c = waiter THEN "waiting" ELSE client[c]]
<1>0. /\ parked \in [Identities -> SUBSET (Clients \union {Refresh})]
      /\ \A j \in Identities \ {i} : parked[j] = waiters[j]
    BY DEF RemoteInv, Parked
<1> HIDE DEF parked, told
<1>1. CASE InFlight(i) /\ waiters' = parked /\ requests' = requests
    <2>1. Settles(i)
        BY <1>1 DEF Settles, InFlight, Pending
    <2>2. \A j \in Identities \ {i} : Untouched(j)
        BY <1>0, <1>1 DEF Untouched
    <2>3. WaitersAreOwned'
        BY <2>1, <2>2, OwnedByStep DEF RemoteInv
    <2> QED
        BY <1>0, <1>1, <2>3 DEF Parked, RemoteInv
<1>2. CASE /\ known[i] = {} /\ requests' = requests
           /\ waiters' = parked \/ AnswerAll({i}, parked, told, "NetworkUnavailable")
    <2>1. /\ waiters' \in [Identities -> SUBSET (Clients \union {Refresh})]
          /\ \A j \in Identities \ {i} : waiters'[j] = waiters[j]
        BY <1>0, <1>2 DEF AnswerAll
    <2>2. Settles(i)
        BY <1>2 DEF Settles
    <2>3. \A j \in Identities \ {i} : Untouched(j)
        BY <1>2, <2>1 DEF Untouched
    <2>4. WaitersAreOwned'
        BY <2>2, <2>3, OwnedByStep DEF RemoteInv
    <2> QED
        BY <1>2, <2>1, <2>4 DEF Parked, RemoteInv
<1>3. ASSUME NEW p \in known[i], waiters' = parked, requests' = Sent(requests, i, p)
      PROVE  Parked' /\ WaitersAreOwned'
    <2>1. p \in Providers
        BY DEF RemoteInv
    <2>2. /\ requests \subseteq requests'
          /\ \E r \in requests' : r.identity = i
          /\ \A r \in requests' : r \in requests \/ IsRequest(r)
        BY <1>3, <2>1, SentIsPending
    <2>3. Settles(i)
        BY <2>2 DEF Settles
    <2>4. \A j \in Identities \ {i} : Untouched(j)
        BY <1>0, <1>3, <2>2 DEF Untouched
    <2>5. WaitersAreOwned'
        BY <2>3, <2>4, OwnedByStep DEF RemoteInv
    <2> QED
        BY <1>0, <1>3, <2>2, <2>5 DEF Parked, RemoteInv
<1> QED
    BY <1>1, <1>2, <1>3 DEF Begin, parked, told

\* Works, cache and known providers stay as they are.
WorksAlone == UNCHANGED <<cache, known, queued, active, owner>>

\* What such a step has to show.
LEMMA AloneKeeps ==
    ASSUME RemoteInv, WorksAlone, Parked', WaitersAreOwned'
    PROVE  RemoteInv'
BY DEF RemoteInv, WorksAlone, WorkInv, Snapshots, FromCache

\* A response is verified, queued, or turned away with its waiters.
LEMMA ResponseKeeps ==
    ASSUME RemoteInv, NEW r \in requests, Response(r)
    PROVE  RemoteInv'
<1> DEFINE i == r.identity
           w == [id |-> FreeId, identity |-> r.identity, provider |-> r.provider,
                 base |-> cache[r.identity], current |-> TRUE,
                 phase |-> IF r.late THEN "late" ELSE "timely"]
<1>0. i \in Identities /\ r.provider \in Providers
    BY DEF RemoteInv, Parked, IsRequest
<1>1. /\ Schedule(w) /\ requests' = requests \ {r}
      /\ UNCHANGED <<cache, known>>
    BY DEF Response
<1>2. \A j \in Identities \ {i} : \A q \in requests : q.identity = j => q \in requests'
    BY <1>1
<1>3. \A q \in requests' : IsRequest(q)
    BY <1>1 DEF RemoteInv, Parked
<1>w. w.identity = i /\ w.id = FreeId /\ FromCache(w, cache)
    BY DEF FromCache
<1>4. ASSUME FreeId \in WorkIds PROVE w \in Works
    BY <1>0, <1>4 DEF Works, RemoteInv
<1>5. ASSUME FreeId \in WorkIds, owner' = [owner EXCEPT ![i] = FreeId], waiters' = waiters
      PROVE  /\ owner' \in [Identities -> WorkIds \union {None}]
             /\ Parked' /\ WaitersAreOwned'
    <2>1. owner \in [Identities -> WorkIds \union {None}]
        BY DEF RemoteInv, WorkInv
    <2>2. FreeId # None
        BY <1>5, SyncAssumption DEF WorkIds
    <2>3. Settles(i)
        BY <1>0, <1>5, <2>1, <2>2 DEF Settles
    <2>4. \A j \in Identities \ {i} : Untouched(j)
        BY <1>0, <1>1, <1>2, <1>5, <2>1 DEF Untouched
    <2>5. WaitersAreOwned'
        BY <2>3, <2>4, OwnedByStep DEF RemoteInv
    <2> QED
        BY <1>0, <1>3, <1>5, <2>1, <2>5 DEF Parked, RemoteInv
<1> HIDE DEF w
<1>6. CASE /\ Cardinality(active) < MaxConcurrency
           /\ active' = active \union {w}
           /\ owner' = [owner EXCEPT ![w.identity] = w.id]
           /\ UNCHANGED <<queued, waiters, client>>
    <2>1. FreeId \in WorkIds
        BY <1>6, FreeIdIsAnId DEF RemoteInv
    <2>2. /\ owner' \in [Identities -> WorkIds \union {None}]
          /\ Parked' /\ WaitersAreOwned'
        BY <1>5, <1>6, <1>w, <2>1
    <2>3. /\ active' \subseteq Works /\ IsFiniteSet(active')
          /\ Cardinality(active') <= MaxConcurrency
        <3>1. active \subseteq Works /\ IsFiniteSet(active) /\ Cardinality(active) \in Nat
            BY FS_CardinalityType DEF RemoteInv, WorkInv
        <3>2. /\ IsFiniteSet(active \union {w})
              /\ \/ Cardinality(active \union {w}) = Cardinality(active)
                 \/ Cardinality(active \union {w}) = Cardinality(active) + 1
            BY <3>1, FS_AddElement
        <3>3. MaxConcurrency \in Nat
            BY SyncAssumption
        <3>4. Cardinality(active \union {w}) <= MaxConcurrency
            BY <1>6, <3>1, <3>2, <3>3
        <3> QED
            BY <1>4, <1>6, <2>1, <3>1, <3>2, <3>4
    <2>4. WorkInv'
        BY <1>6, <2>2, <2>3 DEF RemoteInv, WorkInv
    <2>5. Snapshots'
        BY <1>1, <1>6, <1>w DEF RemoteInv, Snapshots, FromCache
    <2> QED
        BY <1>1, <2>2, <2>4, <2>5 DEF RemoteInv
<1>7. CASE /\ Len(queued) < QueueCapacity
           /\ queued' = Append(queued, w)
           /\ owner' = [owner EXCEPT ![w.identity] = w.id]
           /\ UNCHANGED <<active, waiters, client>>
    <2>1. FreeId \in WorkIds
        BY <1>7, FreeIdIsAnId DEF RemoteInv
    <2>2. /\ owner' \in [Identities -> WorkIds \union {None}]
          /\ Parked' /\ WaitersAreOwned'
        BY <1>5, <1>7, <1>w, <2>1, Zenon
    <2>3. queued' \in Seq(Works) /\ Len(queued') <= QueueCapacity
        <3>1. queued \in Seq(Works) /\ w \in Works /\ QueueCapacity \in Nat
            BY <1>4, <2>1, SyncAssumption DEF RemoteInv, WorkInv
        <3> QED
            BY <1>7, <3>1
    <2>4. WorkInv'
        BY <1>7, <2>2, <2>3 DEF RemoteInv, WorkInv
    <2>5. \A v \in Range(queued') : v \in Range(queued) \/ v = w
        <3>1. queued \in Seq(Works)
            BY DEF RemoteInv, WorkInv
        <3>2. /\ DOMAIN queued' = 1..(Len(queued) + 1)
              /\ \A n \in DOMAIN queued' : n \in DOMAIN queued \/ n = Len(queued) + 1
              /\ \A n \in DOMAIN queued : queued'[n] = queued[n]
              /\ queued'[Len(queued) + 1] = w
            BY <1>7, <3>1
        <3> QED
            BY <3>2 DEF Range
    <2>6. Snapshots'
        BY <1>1, <1>7, <1>w, <2>5 DEF RemoteInv, Snapshots, FromCache
    <2> QED
        BY <1>1, <2>2, <2>4, <2>6 DEF RemoteInv
<1>8. CASE Answer(w.identity, "Overloaded") /\ UNCHANGED <<active, queued, owner>>
    <2>1. /\ waiters' \in [Identities -> SUBSET (Clients \union {Refresh})]
          /\ waiters'[i] = {}
          /\ \A j \in Identities \ {i} : waiters'[j] = waiters[j]
        BY <1>0, <1>8, <1>w DEF Answer, AnswerAll, RemoteInv, Parked
    <2>2. Settles(i)
        BY <2>1 DEF Settles
    <2>3. \A j \in Identities \ {i} : Untouched(j)
        BY <1>1, <1>2, <1>8, <2>1 DEF Untouched
    <2>4. WaitersAreOwned'
        BY <2>2, <2>3, OwnedByStep DEF RemoteInv
    <2>5. Parked'
        BY <1>3, <2>1 DEF Parked
    <2> QED
        BY <1>1, <1>8, <2>4, <2>5, AloneKeeps DEF WorksAlone
<1> QED
    BY <1>1, <1>6, <1>7, <1>8 DEF Schedule
\* The works after one completed: the cache moves only with the one work that
\* was computed from what it holds.
LEMMA CompletionKeepsWorks ==
    ASSUME RemoteInv, NEW w \in active, NEW n \in Lengths, NEW stored \in BOOLEAN,
           Finish(w, stored),
           cache' = IF stored THEN [cache EXCEPT ![w.identity] = n] ELSE cache,
           owner' \in {owner, [owner EXCEPT ![w.identity] = None]}
    PROVE  /\ cache' \in [Identities -> Lengths]
           /\ WorkInv' /\ Snapshots'
<1> DEFINE s == Started(active \ {w})
           g == [v \in Works |-> IF stored THEN Outdated(w.identity, v) ELSE v]
<1>1. w \in Works /\ w.identity \in Identities
    BY DEF RemoteInv, WorkInv, Works
<1>2. cache' \in [Identities -> Lengths]
    BY <1>1 DEF RemoteInv
<1>3. owner' \in [Identities -> WorkIds \union {None}]
    BY <1>1 DEF RemoteInv, WorkInv
<1>4. g \in [Works -> Works]
    BY Zenon DEF Outdated, Works
<1>4a. \A v \in Works : g[v] = IF stored THEN Outdated(w.identity, v) ELSE v
    OBVIOUS
<1>4b. \A j \in Identities : (stored /\ j = w.identity) \/ cache'[j] = cache[j]
    BY <1>1 DEF RemoteInv
<1> HIDE DEF g, s
<1>5. \A v \in Works : FromCache(v, cache) => FromCache(g[v], cache')
    <2> SUFFICES ASSUME NEW v \in Works, FromCache(v, cache)
                 PROVE  FromCache(g[v], cache')
        BY Zenon
    <2>0. g[v] = IF stored THEN Outdated(w.identity, v) ELSE v
        BY ONLY <1>4a, v \in Works
    <2>1. CASE stored /\ v.identity = w.identity
        <3>1. g[v].current = FALSE
            BY ONLY <2>0, <2>1, v \in Works DEF Outdated, Works
        <3> QED
            BY ONLY <3>1 DEF FromCache
    <2>2. CASE ~(stored /\ v.identity = w.identity)
        <3>1. g[v] = v /\ v.identity \in Identities
            BY ONLY <2>0, <2>2, v \in Works DEF Outdated, Works
        <3>2. cache'[v.identity] = cache[v.identity]
            BY ONLY <1>4b, <2>2, <3>1
        <3> QED
            BY ONLY <3>1, <3>2, FromCache(v, cache) DEF FromCache
    <2> QED
        BY <2>1, <2>2
<1>6. /\ s.active \in SUBSET Works /\ IsFiniteSet(s.active)
      /\ Cardinality(s.active) <= MaxConcurrency
      /\ s.queued \in Seq(Works) /\ Len(s.queued) <= QueueCapacity
      /\ s.active \union Range(s.queued) \subseteq active \union Range(queued)
    BY StartedWorks DEF RemoteInv, s
<1>7. /\ active' = {g[v] : v \in s.active}
      /\ queued' = [k \in DOMAIN s.queued |-> g[s.queued[k]]]
    <2>1. \A k \in DOMAIN s.queued : s.queued[k] \in Works
        BY ONLY <1>6
    <2>2. /\ active' = {IF stored THEN Outdated(w.identity, v) ELSE v : v \in s.active}
          /\ queued' = [k \in DOMAIN s.queued |->
                          IF stored THEN Outdated(w.identity, s.queued[k]) ELSE s.queued[k]]
        BY DEF Finish, s
    <2> QED
        BY ONLY <1>6, <1>4a, <2>1, <2>2, Zenon
<1>8. Snapshots
    BY DEF RemoteInv
<1>9. WorkInv' /\ Snapshots'
    BY <1>3, <1>4, <1>5, <1>6, <1>7, <1>8, WorksKept, Zenon
<1> QED
    BY <1>2, <1>9

\* A verification that succeeded.
LEMMA CompleteOkKeeps ==
    ASSUME RemoteInv, NEW w \in active, NEW n \in Lengths, CompleteOk(w, n)
    PROVE  RemoteInv'
<1> DEFINE i == w.identity
           owns == owner[i] = w.id
<1>0. Parked /\ WaitersAreOwned
    BY DEF RemoteInv
<1>1. w \in Works /\ i \in Identities /\ w.provider \in Providers /\ w.current \in BOOLEAN
    BY DEF RemoteInv, WorkInv, Works
<1>2. /\ owner' = IF owns THEN [owner EXCEPT ![i] = None] ELSE owner
      /\ Store(w, n) /\ Finish(w, w.current) /\ known' = known
    BY DEF CompleteOk
<1>3. cache' \in [Identities -> Lengths] /\ WorkInv' /\ Snapshots'
    <2>1. owner' \in {owner, [owner EXCEPT ![w.identity] = None]}
        BY <1>2
    <2>2. cache' = IF w.current THEN [cache EXCEPT ![w.identity] = n] ELSE cache
        BY <1>2 DEF Store
    <2> QED
        BY <1>1, <1>2, <2>1, <2>2, CompletionKeepsWorks
<1>4. \A j \in Identities \ {i} : owner'[j] = owner[j]
    BY <1>1, <1>2 DEF RemoteInv, WorkInv
<1>5. CASE requests' = Sent(requests, i, w.provider) /\ waiters' = waiters
    <2>1. /\ requests \subseteq requests'
          /\ \E r \in requests' : r.identity = i
          /\ \A r \in requests' : r \in requests \/ IsRequest(r)
        BY <1>1, <1>5, SentIsPending
    <2>2. Settles(i) /\ \A j \in Identities \ {i} : Untouched(j)
        BY <1>2, <1>4, <1>5, <2>1, Zenon DEF Settles, Untouched
    <2>3. WaitersAreOwned'
        BY <2>2, <1>0, OwnedByStep
    <2>4. Parked'
        BY <1>0, <1>5, <2>1, Zenon DEF Parked
    <2> QED
        BY <1>2, <1>3, <2>3, <2>4 DEF RemoteInv
<1>6. ASSUME NEW outcome, requests' = requests, Answer(i, outcome)
      PROVE  RemoteInv'
    <2>1. /\ waiters' \in [Identities -> SUBSET (Clients \union {Refresh})]
          /\ waiters'[i] = {}
          /\ \A j \in Identities \ {i} : waiters'[j] = waiters[j]
        BY <1>0, <1>1, <1>6, AnswerClears DEF Parked
    <2>2. Settles(i) /\ \A j \in Identities \ {i} : Untouched(j)
        BY <1>2, <1>4, <1>6, <2>1 DEF Settles, Untouched
    <2>3. WaitersAreOwned'
        BY <2>2, <1>0, OwnedByStep
    <2>4. Parked'
        BY <1>0, <1>6, <2>1 DEF Parked
    <2> QED
        BY <1>2, <1>3, <2>3, <2>4 DEF RemoteInv
<1>7. CASE ~owns /\ requests' = requests /\ waiters' = waiters
    <2>1. \A j \in Identities : Untouched(j)
        BY <1>2, <1>7 DEF Untouched
    <2>2. WaitersAreOwned'
        BY <2>1, <1>0, OwnedByStep
    <2>3. Parked'
        BY <1>0, <1>7 DEF Parked
    <2> QED
        BY <1>2, <1>3, <2>2, <2>3 DEF RemoteInv
<1> QED
    BY <1>5, <1>6, <1>7 DEF CompleteOk

\* A verification that failed.
LEMMA CompleteErrKeeps ==
    ASSUME RemoteInv, NEW w \in active, CompleteErr(w)
    PROVE  RemoteInv'
<1> DEFINE i == w.identity
           owns == owner[i] = w.id
<1>0. Parked /\ WaitersAreOwned
    BY DEF RemoteInv
<1>1. w \in Works /\ i \in Identities /\ w.provider \in Providers
    BY DEF RemoteInv, WorkInv, Works
<1>2. /\ owner' = IF owns THEN [owner EXCEPT ![i] = None] ELSE owner
      /\ Finish(w, FALSE) /\ cache' = cache /\ known' = known
    BY Zenon DEF CompleteErr
<1>3. cache' \in [Identities -> Lengths] /\ WorkInv' /\ Snapshots'
    <2>1. owner' \in {owner, [owner EXCEPT ![w.identity] = None]}
        BY <1>2
    <2>2. 0 \in Lengths
        BY SyncAssumption DEF Lengths
    <2>3. cache' = IF FALSE THEN [cache EXCEPT ![w.identity] = 0] ELSE cache
        BY <1>2
    <2> QED
        BY <1>2, <2>1, <2>2, <2>3, CompletionKeepsWorks, Zenon
<1>4. \A j \in Identities \ {i} : owner'[j] = owner[j]
    BY <1>1, <1>2 DEF RemoteInv, WorkInv
<1>5. CASE Answer(i, "NetworkUnavailable") /\ requests' = requests
    <2>1. /\ waiters' \in [Identities -> SUBSET (Clients \union {Refresh})]
          /\ waiters'[i] = {}
          /\ \A j \in Identities \ {i} : waiters'[j] = waiters[j]
        BY <1>0, <1>1, <1>5, AnswerClears DEF Parked
    <2>2. Settles(i) /\ \A j \in Identities \ {i} : Untouched(j)
        BY <1>2, <1>4, <1>5, <2>1 DEF Settles, Untouched
    <2>3. WaitersAreOwned'
        BY <2>2, <1>0, OwnedByStep
    <2>4. Parked'
        BY <1>0, <1>5, <2>1 DEF Parked
    <2> QED
        BY <1>2, <1>3, <2>3, <2>4 DEF RemoteInv
<1>6. CASE OnSettled(i, w.provider, requests, "VerificationFailed")
    <2>1. requests \in SUBSET requests /\ \A r \in requests \ requests : r.identity = i
        OBVIOUS
    <2>2. Parked' /\ WaitersAreOwned'
        BY <1>1, <1>2, <1>4, <1>6, <2>1, SettledIsOwned
    <2> QED
        BY <1>2, <1>3, <2>2 DEF RemoteInv
<1>7. CASE (~owns \/ waiters[i] = {}) /\ requests' = requests /\ waiters' = waiters
    <2>1. \A j \in Identities \ {i} : Untouched(j)
        BY <1>2, <1>4, <1>7 DEF Untouched
    <2>2. Untouched(i) \/ Settles(i)
        BY <1>2, <1>7 DEF Untouched, Settles
    <2>3. WaitersAreOwned'
        BY <2>1, <2>2, <1>0, OwnedByStep
    <2>4. Parked'
        BY <1>0, <1>7 DEF Parked
    <2> QED
        BY <1>2, <1>3, <2>3, <2>4 DEF RemoteInv
<1> QED
    BY <1>5, <1>6, <1>7 DEF CompleteErr
\* Deadlines pass.
LEMMA ExpireKeeps ==
    ASSUME RemoteInv, NEW i \in Identities, Expire(i)
    PROVE  RemoteInv'
<1>1. PICK R \in SUBSET {r \in Pending(i) : ~r.late},
           W \in SUBSET {w \in active \union QueuedWork : w.identity = i /\ w.phase = "timely"} :
        /\ requests' = (requests \ R) \union {[r EXCEPT !.late = TRUE] : r \in R}
        /\ active' = {IF w \in W THEN [w EXCEPT !.phase = "late"] ELSE w : w \in active}
        /\ queued' = [n \in DOMAIN queued |->
             IF queued[n] \in W THEN [queued[n] EXCEPT !.phase = "late"] ELSE queued[n]]
        /\ UNCHANGED <<up, cache, known, client, waiters, owner>>
    BY Zenon DEF Expire
<1> DEFINE g == [w \in Works |-> IF w \in W THEN [w EXCEPT !.phase = "late"] ELSE w]
<1>2. g \in [Works -> Works]
    BY DEF Works
<1>3. \A w \in Works : FromCache(w, cache) => FromCache(g[w], cache')
    <2>1. \A w \in Works : /\ g[w].current = w.current /\ g[w].base = w.base
                           /\ g[w].identity = w.identity
        BY DEF Works
    <2> HIDE DEF g
    <2> QED
        BY <1>1, <2>1 DEF FromCache
<1>4. /\ active \in SUBSET Works /\ IsFiniteSet(active) /\ Cardinality(active) <= MaxConcurrency
      /\ queued \in Seq(Works) /\ Len(queued) <= QueueCapacity
      /\ active \union Range(queued) \subseteq active \union Range(queued)
      /\ Snapshots
    BY DEF RemoteInv, WorkInv
<1>5. /\ active' = {g[w] : w \in active}
      /\ queued' = [n \in DOMAIN queued |-> g[queued[n]]]
    <2>1. \A n \in DOMAIN queued : queued[n] \in Works
        <3>1. queued \in Seq(Works)
            BY <1>4
        <3> QED
            BY ONLY <3>1
    <2> QED
        BY <1>1, <1>4, <2>1, Zenon
<1>6. owner' \in [Identities -> WorkIds \union {None}]
    BY <1>1 DEF RemoteInv, WorkInv
<1>7. WorkInv' /\ Snapshots'
    <2> HIDE DEF g
    <2> QED
        BY <1>2, <1>3, <1>4, <1>5, <1>6, WorksKept, Zenon
<1>8. \A r \in requests : \E q \in requests' : q.identity = r.identity
    <2> SUFFICES ASSUME NEW r \in requests
                 PROVE  \E q \in requests' : q.identity = r.identity
        OBVIOUS
    <2>1. CASE r \in R
        <3>1. [r EXCEPT !.late = TRUE] \in requests'
            BY <1>1, <2>1, Zenon
        <3>2. [r EXCEPT !.late = TRUE].identity = r.identity
            BY DEF RemoteInv, Parked, IsRequest
        <3> QED
            BY <3>1, <3>2, Zenon
    <2>2. CASE r \notin R
        BY <1>1, <2>2
    <2> QED
        BY <2>1, <2>2
<1>9. Parked'
    <2>1. ASSUME NEW r \in R PROVE IsRequest([r EXCEPT !.late = TRUE])
        <3>1. IsRequest(r)
            BY DEF RemoteInv, Parked, Pending
        <3> QED
            BY <3>1, Zenon DEF IsRequest
    <2>2. \A r \in requests' : IsRequest(r)
        BY <1>1, <2>1 DEF RemoteInv, Parked
    <2> QED
        BY <1>1, <2>2 DEF RemoteInv, Parked
<1>10. WaitersAreOwned'
    <2>1. \A j \in Identities : Untouched(j)
        BY <1>1, <1>8, Zenon DEF Untouched
    <2> QED
        BY <2>1, OwnedByStep DEF RemoteInv
<1> QED
    BY <1>1, <1>7, <1>9, <1>10 DEF RemoteInv

\* The shutdown answers everyone and leaves the running works to themselves.
LEMMA ShutdownKeeps ==
    ASSUME RemoteInv, Shutdown
    PROVE  RemoteInv'
<1> DEFINE g == [w \in Works |-> [w EXCEPT !.phase = "settled"]]
           none == <<>>
<1>1. g \in [Works -> Works]
    BY DEF Works
<1>2. \A w \in Works : FromCache(w, cache) => FromCache(g[w], cache')
    <2>1. \A w \in Works : /\ g[w].current = w.current /\ g[w].base = w.base
                           /\ g[w].identity = w.identity
        BY DEF Works
    <2>2. cache' = cache
        BY DEF Shutdown
    <2> HIDE DEF g
    <2> QED
        BY <2>1, <2>2 DEF FromCache
<1>3. /\ active \in SUBSET Works /\ IsFiniteSet(active) /\ Cardinality(active) <= MaxConcurrency
      /\ Snapshots
    BY DEF RemoteInv, WorkInv
<1>4. /\ none \in Seq(Works) /\ Len(none) <= QueueCapacity
      /\ active \union Range(none) \subseteq active \union Range(queued)
    <2>1. Range(none) = {}
        BY DEF Range
    <2>2. none \in Seq(Works) /\ Len(none) = 0
        OBVIOUS
    <2>3. Len(none) <= QueueCapacity
        BY <2>2, SyncAssumption
    <2> QED
        BY <2>1, <2>2, <2>3
<1>5. active' = {g[w] : w \in active} /\ queued' = [n \in DOMAIN none |-> g[none[n]]]
    <2>1. active' = {g[w] : w \in active}
        BY <1>3, Zenon DEF Shutdown
    <2>2. queued' = <<>>
        BY DEF Shutdown
    <2>3. [n \in DOMAIN none |-> g[none[n]]] = <<>>
        <3> HIDE DEF g
        <3> QED
            OBVIOUS
    <2> QED
        BY <2>1, <2>2, <2>3
<1>6. owner' \in [Identities -> WorkIds \union {None}]
    BY DEF Shutdown
<1>7. WorkInv' /\ Snapshots'
    <2> HIDE DEF g, none
    <2> QED
        BY <1>1, <1>2, <1>3, <1>4, <1>5, <1>6, WorksKept, Zenon
<1>8. Parked' /\ \A j \in Identities : waiters'[j] = {}
    BY DEF Shutdown, AnswerAll, Parked
<1>9. WaitersAreOwned'
    BY <1>8 DEF WaitersAreOwned
<1> QED
    BY <1>7, <1>8, <1>9 DEF RemoteInv, Shutdown
\* The timeouts: who is left waiting has a request that was retried, one that
\* is not late, or a work.
LEMMA TickKeeps ==
    ASSUME RemoteInv, Tick
    PROVE  RemoteInv'
<1> DEFINE late == {r \in requests : r.late}
           ended == {r.identity : r \in {q \in late : Peek(q.identity, q.provider) = {}}}
                    \union {w.identity : w \in {v \in active \union QueuedWork : Due(v)}}
           left == [i \in Identities |-> IF i \in ended THEN {} ELSE waiters[i]]
           kept == [i \in Identities |-> {x \in left[i] : x = Refresh \/ client[x] # "gone"}]
           cancelled == {i \in Identities : left[i] # {} /\ kept[i] = {}}
           retried == {r \in late : Peek(r.identity, r.provider) # {}}
           Cancelled(w) == w.identity \in cancelled /\ owner[w.identity] = w.id
           q == Without(queued, {w \in QueuedWork : Cancelled(w)})
           g == [w \in Works |-> IF Cancelled(w) THEN [w EXCEPT !.phase = "settled"] ELSE Settled(w)]
           h == [w \in Works |-> Settled(w)]
<1>1. PICK next \in [retried -> Providers] :
        /\ \A r \in retried : next[r] \in Peek(r.identity, r.provider)
        /\ requests' = {r \in (requests \ late) \union {Request(x.slot, x.identity, next[x]) : x \in retried} :
                            r.identity \notin cancelled}
    BY Zenon DEF Tick
<1>2. /\ waiters' = kept
      /\ active' = {IF Cancelled(w) THEN [w EXCEPT !.phase = "settled"] ELSE Settled(w) : w \in active}
      /\ queued' = [n \in DOMAIN q |-> Settled(q[n])]
      /\ owner' = [i \in Identities |-> IF i \in cancelled THEN None ELSE owner[i]]
      /\ UNCHANGED <<cache, known>>
    BY Zenon DEF Tick
<1>3. \A i \in Identities : kept[i] # {} => i \notin ended /\ i \notin cancelled
    <2> HIDE DEF ended
    <2> QED
        OBVIOUS
<1>4. waiters' \in [Identities -> SUBSET (Clients \union {Refresh})]
    <2> HIDE DEF ended
    <2>1. waiters \in [Identities -> SUBSET (Clients \union {Refresh})]
        BY DEF RemoteInv, Parked
    <2> QED
        BY <1>2, <2>1
<1>5. \A r \in requests : IsRequest(r)
    BY DEF RemoteInv, Parked
<1>6. \A x \in retried : /\ IsRequest(Request(x.slot, x.identity, next[x]))
                         /\ Request(x.slot, x.identity, next[x]).identity = x.identity
    <2> SUFFICES ASSUME NEW x \in retried
                 PROVE  /\ IsRequest(Request(x.slot, x.identity, next[x]))
                        /\ Request(x.slot, x.identity, next[x]).identity = x.identity
        BY Zenon
    <2>1. x.identity \in Identities /\ next[x] \in Providers
        BY <1>5 DEF IsRequest
    <2> QED
        BY <2>1 DEF Request, IsRequest
<1>7. Parked'
    <2> HIDE DEF cancelled, retried, late
    <2>1. \A r \in requests' : IsRequest(r)
        BY <1>1, <1>5, <1>6
    <2> QED
        BY <1>4, <2>1 DEF Parked
<1>8. WaitersAreOwned'
    <2>1. ASSUME NEW i \in Identities, waiters'[i] # {}
          PROVE  Untouched(i)
        <3>1. i \notin ended /\ i \notin cancelled
            BY <1>2, <1>3, <2>1, Zenon
        <3>2. waiters'[i] \subseteq waiters[i]
            <4> HIDE DEF ended
            <4> QED
                BY <1>2, <2>1
        <3>3. owner'[i] = owner[i] /\ known'[i] = known[i]
            <4> HIDE DEF cancelled
            <4> QED
                BY <1>2, <3>1
        <3>4. ASSUME NEW r \in requests, r.identity = i
              PROVE  \E x \in requests' : x.identity = i
            <4>1. CASE r \in late
                <5>1. Peek(r.identity, r.provider) # {}
                    BY <3>1, <3>4, <4>1, Zenon
                <5>2. r \in retried
                    BY <4>1, <5>1
                <5>3. Request(r.slot, r.identity, next[r]).identity = i
                    BY <1>6, <3>4, <5>2, Zenon
                <5> HIDE DEF cancelled, retried, late
                <5>4. Request(r.slot, r.identity, next[r]) \in requests'
                    BY <1>1, <3>1, <5>2, <5>3
                <5> QED
                    BY <5>3, <5>4
            <4>2. CASE r \notin late
                <5> HIDE DEF cancelled, retried, late
                <5> QED
                    BY <1>1, <3>1, <3>4, <4>2
            <4> QED
                BY <4>1, <4>2
        <3> QED
            BY <3>1, <3>2, <3>3, <3>4, Zenon DEF Untouched
    <2>2. \A i \in Identities : Untouched(i) \/ Settles(i)
        BY <2>1 DEF Settles
    <2> QED
        BY <2>2, OwnedByStep DEF RemoteInv
<1>9. g \in [Works -> Works] /\ h \in [Works -> Works]
    <2> HIDE DEF cancelled
    <2> QED
        BY DEF Works, Settled, Due
<1>10. \A w \in Works : FromCache(w, cache) => FromCache(g[w], cache') /\ FromCache(h[w], cache')
    <2> HIDE DEF cancelled
    <2>1. \A w \in Works : /\ g[w].current = w.current /\ g[w].base = w.base
                           /\ g[w].identity = w.identity
        BY DEF Works, Settled
    <2>2. \A w \in Works : /\ h[w].current = w.current /\ h[w].base = w.base
                           /\ h[w].identity = w.identity
        BY DEF Works, Settled
    <2> HIDE DEF g, h
    <2> QED
        BY <1>2, <2>1, <2>2 DEF FromCache
<1>11. /\ active \in SUBSET Works /\ IsFiniteSet(active) /\ Cardinality(active) <= MaxConcurrency
       /\ queued \in Seq(Works) /\ Len(queued) \in Nat /\ Len(queued) <= QueueCapacity
       /\ Snapshots /\ QueueCapacity \in Nat
    BY SyncAssumption DEF RemoteInv, WorkInv
<1>12. /\ q \in Seq(Works) /\ Len(q) <= QueueCapacity
       /\ active \union Range(q) \subseteq active \union Range(queued)
    <2> DEFINE gone == {w \in QueuedWork : Cancelled(w)}
    <2> HIDE DEF gone
    <2>1. /\ Without(queued, gone) \in Seq(Works)
          /\ Len(Without(queued, gone)) <= Len(queued)
          /\ Range(Without(queued, gone)) \subseteq Range(queued)
        BY <1>11, WithoutIsOfTheQueue
    <2>2. q = Without(queued, gone)
        BY Zenon DEF gone
    <2> HIDE DEF q
    <2>3. q \in Seq(Works) /\ Len(q) <= Len(queued) /\ Range(q) \subseteq Range(queued)
        BY <2>1, <2>2
    <2>4. Len(q) \in Nat
        BY <2>3
    <2> QED
        BY <1>11, <2>3, <2>4
<1>13. active' = {g[w] : w \in active} /\ queued' = [n \in DOMAIN q |-> h[q[n]]]
    <2> HIDE DEF q, cancelled
    <2>1. \A n \in DOMAIN q : q[n] \in Works
        BY <1>12
    <2> QED
        BY <1>2, <1>11, <2>1, Zenon
<1>14. owner' \in [Identities -> WorkIds \union {None}]
    <2> HIDE DEF cancelled
    <2> QED
        BY <1>2 DEF RemoteInv, WorkInv
<1>15. WorkInv' /\ Snapshots'
    <2> HIDE DEF g, h, q
    <2> QED
        BY <1>9, <1>10, <1>11, <1>12, <1>13, <1>14, WorksKept, Zenon
<1> QED
    BY <1>2, <1>7, <1>8, <1>15, Zenon DEF RemoteInv
\* Initially nobody waits and nothing is known.
LEMMA RemoteInitInv == Init => RemoteInv
<1> SUFFICES ASSUME Init PROVE RemoteInv
    OBVIOUS
<1>1. cache \in [Identities -> Lengths] /\ known \in [Identities -> SUBSET Providers]
    BY SyncAssumption DEF Init, Lengths
<1>2. Parked /\ WaitersAreOwned
    BY DEF Init, Parked, WaitersAreOwned
<1>3. queued \in Seq(Works) /\ Len(queued) = 0 /\ Range(queued) = {}
    BY DEF Init, Range
<1>4. IsFiniteSet(active) /\ Cardinality(active) = 0 /\ active = {}
    BY FS_EmptySet DEF Init
<1>5. owner \in [Identities -> WorkIds \union {None}]
    BY DEF Init
<1>6. WorkInv
    BY <1>3, <1>4, <1>5, SyncAssumption DEF WorkInv
<1>7. Snapshots
    BY <1>3, <1>4 DEF Snapshots
<1> QED
    BY <1>1, <1>2, <1>6, <1>7 DEF RemoteInv

\* Every step of the synchronisation keeps RemoteInv.
LEMMA RemoteNextInv == RemoteInv /\ [Next]_vars => RemoteInv'
<1> SUFFICES ASSUME RemoteInv, [Next]_vars PROVE RemoteInv'
    OBVIOUS
<1>1. ASSUME NEW c \in Clients, BeginCommand(c)
      PROVE  RemoteInv'
    <2>1. Wants[c] \in Identities /\ c \in Clients \union {Refresh}
        BY SyncAssumption
    <2>2. Begin(Wants[c], c) /\ WorksAlone /\ known' = known /\ owner' = owner
        BY <1>1 DEF BeginCommand, WorksAlone, work
    <2>3. Parked' /\ WaitersAreOwned'
        BY <2>1, <2>2, BeginIsOwned
    <2> QED
        BY <2>2, <2>3, AloneKeeps
<1>2. ASSUME NEW i \in Identities, BeginRefresh(i)
      PROVE  RemoteInv'
    <2>1. Refresh \in Clients \union {Refresh}
        OBVIOUS
    <2>2. Begin(i, Refresh) /\ WorksAlone /\ known' = known /\ owner' = owner
        BY <1>2 DEF BeginRefresh, WorksAlone, work
    <2>3. Parked' /\ WaitersAreOwned'
        BY <2>1, <2>2, BeginIsOwned
    <2> QED
        BY <2>2, <2>3, AloneKeeps
<1>3. ASSUME (\E c \in Clients : GiveUp(c)) \/ UNCHANGED vars
      PROVE  RemoteInv'
    <2>1. WorksAlone /\ UNCHANGED <<waiters, requests>>
        BY <1>3 DEF GiveUp, vars, WorksAlone, work
    <2>2. Parked' /\ WaitersAreOwned'
        BY <2>1, Zenon DEF RemoteInv, Parked, WaitersAreOwned, WorksAlone, InFlight, Pending
    <2> QED
        BY <2>1, <2>2, AloneKeeps
<1>4. ASSUME NEW i \in Identities, NEW p \in Providers, Discover(i, p)
      PROVE  RemoteInv'
    <2>1. known' \in [Identities -> SUBSET Providers]
        BY <1>4, Zenon DEF Discover, RemoteInv
    <2>2. UNCHANGED <<cache, waiters, queued, active, owner>>
        BY <1>4 DEF Discover, work
    <2>3. \A j \in Identities \ {i} : known'[j] = known[j]
        BY <1>4 DEF Discover, RemoteInv
    <2>4. CASE waiters[i] # {} /\ Pending(i) = {}
        <3>1. requests' = Sent(requests, i, p)
            BY <1>4, <2>4, Zenon DEF Discover
        <3>2. /\ requests \subseteq requests'
              /\ \E r \in requests' : r.identity = i
              /\ \A r \in requests' : r \in requests \/ IsRequest(r)
            BY <3>1, SentIsPending
        <3>3. Settles(i) /\ \A j \in Identities \ {i} : Untouched(j)
            BY <2>2, <2>3, <3>2 DEF Settles, Untouched
        <3>4. WaitersAreOwned'
            BY <3>3, OwnedByStep DEF RemoteInv
        <3>5. Parked'
            BY <2>2, <3>2 DEF RemoteInv, Parked
        <3> QED
            BY <2>1, <2>2, <3>4, <3>5 DEF RemoteInv, WorkInv, Snapshots, FromCache
    <2>5. CASE ~(waiters[i] # {} /\ Pending(i) = {})
        <3>1. requests' = requests
            BY <1>4, <2>5 DEF Discover
        <3>2. Settles(i)
            BY <2>2, <2>5, <3>1 DEF Settles, Pending
        <3>3. \A j \in Identities \ {i} : Untouched(j)
            BY <2>2, <2>3, <3>1 DEF Untouched
        <3>4. WaitersAreOwned'
            BY <3>2, <3>3, OwnedByStep DEF RemoteInv
        <3>5. Parked'
            BY <2>2, <3>1 DEF RemoteInv, Parked
        <3> QED
            BY <2>1, <2>2, <3>4, <3>5 DEF RemoteInv, WorkInv, Snapshots, FromCache
    <2> QED
        BY <2>4, <2>5
<1>5. ASSUME NEW i \in Identities, NEW p \in Providers, TakeProvider(i, p)
      PROVE  RemoteInv'
    <2>1. /\ known' \in [Identities -> SUBSET Providers]
          /\ \A j \in Identities : known'[j] \subseteq known[j]
        BY <1>5 DEF TakeProvider, RemoteInv
    <2>2. UNCHANGED <<cache, waiters, requests, queued, active, owner>>
        BY <1>5 DEF TakeProvider, work
    <2>3. \A j \in Identities : Untouched(j)
        BY <2>1, <2>2, Zenon DEF Untouched
    <2>4. WaitersAreOwned'
        BY <2>3, OwnedByStep DEF RemoteInv
    <2>5. Parked'
        BY <2>2 DEF RemoteInv, Parked
    <2> QED
        BY <2>1, <2>2, <2>4, <2>5 DEF RemoteInv, WorkInv, Snapshots, FromCache
<1>6. ASSUME NEW r \in requests, BadResponse(r) \/ RequestFailure(r)
      PROVE  RemoteInv'
    <2>1. r.identity \in Identities /\ r.provider \in Providers
        BY DEF RemoteInv, Parked, IsRequest
    <2>2. PICK outcome : OnSettled(r.identity, r.provider, requests \ {r}, outcome)
        BY <1>6 DEF BadResponse, RequestFailure
    <2>3. WorksAlone /\ known' = known /\ owner' = owner
        BY <1>6 DEF BadResponse, RequestFailure, WorksAlone, work
    <2>4. /\ requests \ {r} \in SUBSET requests
          /\ \A x \in requests \ (requests \ {r}) : x.identity = r.identity
        OBVIOUS
    <2>5. Parked' /\ WaitersAreOwned'
        BY <2>1, <2>2, <2>3, <2>4, SettledIsOwned
    <2> QED
        BY <2>3, <2>5, AloneKeeps
<1> QED
    BY <1>1, <1>2, <1>3, <1>4, <1>5, <1>6, ExpireKeeps, ResponseKeeps, CompleteErrKeeps,
       CompleteOkKeeps, TickKeeps, ShutdownKeeps DEF Next
----------------------------------------------------------------------------
(* The node *)

\* A step of the node is a step of one side.
LEMMA NodeStep ==
    [NodeNext]_nodeVars => [Next]_vars /\ [LocalNext]_localVars
BY DEF NodeNext, nodeVars

\* Both sides keep their invariants in every behaviour of the node.
THEOREM Invariance == NodeSpec => [](RemoteInv /\ OwnInv)
<1>1. NodeInit => RemoteInv /\ OwnInv
    BY RemoteInitInv, OwnInitInv DEF NodeInit
<1>2. (RemoteInv /\ OwnInv) /\ [NodeNext]_nodeVars => (RemoteInv /\ OwnInv)'
    BY RemoteNextInv, OwnNextInv, NodeStep
<1> QED
    BY <1>1, <1>2, PTL DEF NodeSpec

\* Whoever waits for an identity with a known provider has a request or a
\* verification under way, in every order of commands, discoveries, responses,
\* completions and timeouts (begin_device_writer_sync,
\* on_device_writer_sync_settled, handle_device_writer_sync_completion,
\* check_device_writer_sync_timeouts).
THEOREM NoWaiterIsForgotten == NodeSpec => []WaitersAreOwned
<1>1. RemoteInv /\ OwnInv => WaitersAreOwned
    BY DEF RemoteInv
<1> QED
    BY <1>1, Invariance, PTL

\* The verifications that run and that wait keep their limits
\* (schedule_device_writer_sync_verification,
\* start_queued_device_writer_sync_work).
THEOREM WorkIsBounded ==
    NodeSpec => [](Cardinality(active) <= MaxConcurrency /\ Len(queued) <= QueueCapacity)
<1>1. RemoteInv /\ OwnInv => Cardinality(active) <= MaxConcurrency /\ Len(queued) <= QueueCapacity
    BY DEF RemoteInv, WorkInv
<1> QED
    BY <1>1, Invariance, PTL

\* Verifications that finish in any order never take known history back
\* (handle_device_writer_sync_completion stores only over its own snapshot).
THEOREM HistoryOnlyGrows == NodeSpec => CacheNeverRegresses
<1>1. RemoteInv /\ [Next]_vars => [\A i \in Identities : cache'[i] >= cache[i]]_vars
    <2> SUFFICES ASSUME RemoteInv, Next
                 PROVE  \A i \in Identities : cache'[i] >= cache[i]
        OBVIOUS
    <2>0. \A i \in Identities : cache[i] \in Nat
        BY DEF RemoteInv, Lengths
    <2>1. ASSUME NEW w \in active, NEW n \in Lengths, CompleteOk(w, n), w.current
          PROVE  \A i \in Identities : cache'[i] >= cache[i]
        <3>1. w.base = cache[w.identity] /\ w.identity \in Identities
            BY <2>1 DEF RemoteInv, WorkInv, Works, Snapshots, FromCache
        <3>2. cache' = [cache EXCEPT ![w.identity] = n] /\ n >= w.base
            BY <2>1 DEF CompleteOk, Store
        <3> QED
            BY <2>0, <3>1, <3>2 DEF RemoteInv
    <2>2. CASE UNCHANGED cache
        BY <2>0, <2>2
    <2> QED
        BY <2>1, <2>2, Zenon DEF Next, BeginCommand, GiveUp, BeginRefresh, Expire, Discover, TakeProvider,
           Response, BadResponse, RequestFailure, CompleteErr, CompleteOk, Store, Tick, Shutdown
<1>2. RemoteInv /\ OwnInv /\ [NodeNext]_nodeVars => [\A i \in Identities : cache'[i] >= cache[i]]_vars
    BY <1>1, NodeStep
<1> QED
    BY <1>2, Invariance, PTL DEF NodeSpec, CacheNeverRegresses

\* A mutation reaches every device that was ready for it and stays so: it is in
\* line or a round is due, behind a request that is in flight
\* (retry_pending_local_device_writer_refresh).
THEOREM ReadyDevicesHaveATurn == NodeSpec => []OwedAreInLine
<1>1. RemoteInv /\ OwnInv => OwedAreInLine
    BY DEF OwnInv
<1> QED
    BY <1>1, Invariance, PTL
=============================================================================
