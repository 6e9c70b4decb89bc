----------------------- MODULE UpdateResolutionProofs -----------------------
(***************************************************************************)
(* Proofs about the update log (UpdateLog) and the resolution of an        *)
(* identity over it (UpdateResolution), for any number of installations,   *)
(* callers, peers and paths and for logs of any length.                    *)
(*                                                                         *)
(* What a log of any length says is shown by induction.  The principle is  *)
(* stated for a set of numbers (Climb) and rests on the well-foundedness   *)
(* of < on Nat.                                                            *)
(***************************************************************************)
EXTENDS UpdateResolution, Integers, WellFoundedInduction, TLAPS

(***************************************************************************)
(* Induction                                                               *)
(***************************************************************************)
\* A set of numbers that is not empty has a least one.
LEMMA Least ==
    ASSUME NEW T \in SUBSET Nat, T # {}
    PROVE  \E x \in T : \A y \in T : x <= y
<1> DEFINE R == OpToRel(<, Nat)
<1>1. IsWellFoundedOn(R, Nat)
  BY NatLessThanWellFounded, Zenon
<1>2. \A x, y \in Nat : <<y, x>> \in R <=> y < x
  BY DEF OpToRel
<1> HIDE DEF R
<1>3. PICK x \in T : \A y \in T : ~(<<y, x>> \in R)
  BY <1>1, WFMin, Zenon
<1>4. ASSUME NEW y \in T PROVE x <= y
  <2>1. ~(y < x)
    BY <1>2, <1>3, Zenon
  <2> QED
    BY <2>1
<1> QED
  BY <1>4

\* A set with 0 that holds the successor of each of its numbers below n has
\* every number up to n.
LEMMA Climb ==
    ASSUME NEW n \in Nat, NEW S,
           0 \in S,
           \A i \in 0..(n - 1) : i \in S => (i + 1) \in S
    PROVE  \A i \in 0..n : i \in S
<1> DEFINE T == {i \in 0..n : i \notin S}
<1> SUFFICES ASSUME T # {} PROVE FALSE
  OBVIOUS
<1>1. PICK m \in T : \A y \in T : m <= y
  <2>1. T \in SUBSET Nat
    OBVIOUS
  <2> HIDE DEF T
  <2> QED
    BY <2>1, Least
<1>2. m # 0
  OBVIOUS
<1>3. m - 1 \in 0..(n - 1) /\ m - 1 \in S
  BY <1>1, <1>2
<1>4. (m - 1) + 1 \in S
  BY <1>3
<1> QED
  BY <1>1, <1>4

\* The other way: from n down to 1.
LEMMA Descend ==
    ASSUME NEW n \in Nat, NEW S,
           n \in S,
           \A i \in 2..n : i \in S => (i - 1) \in S
    PROVE  \A i \in 1..n : i \in S
<1> DEFINE T == {k \in Nat : n - k \in S \/ n - k < 1}
<1>1. 0 \in T
  OBVIOUS
<1>2. ASSUME NEW k \in 0..(n - 1), k \in T PROVE (k + 1) \in T
  <2>1. CASE n - (k + 1) < 1
    BY <2>1
  <2>2. CASE n - (k + 1) >= 1
    <3>1. n - k \in S /\ n - k \in 2..n
      BY <1>2, <2>2
    <3>2. (n - k) - 1 \in S
      BY <3>1
    <3>3. (n - k) - 1 = n - (k + 1)
      OBVIOUS
    <3> QED
      BY <3>2, <3>3
  <2> QED
    BY <2>1, <2>2
<1>3. \A k \in 0..n : k \in T
  <2> HIDE DEF T
  <2> QED
    BY <1>1, <1>2, Climb
<1>4. ASSUME NEW i \in 1..n PROVE i \in S
  <2>1. n - i \in 0..n /\ n - (n - i) = i
    OBVIOUS
  <2>2. n - i \in T
    BY <2>1, <1>3
  <2> QED
    BY <2>1, <2>2
<1> QED
  BY <1>4

(***************************************************************************)
(* Replaying a log                                                         *)
(***************************************************************************)
IsReplay(g, log, n) ==
    g = [k \in 0..n |-> IF k = 0 THEN NothingYet ELSE Applied(log[k].body.action, g[k - 1])]

\* The states that resolve_latest_record passes through exist.
LEMMA ReplayExists ==
    ASSUME NEW log, NEW n \in Nat
    PROVE  \E g : IsReplay(g, log, n)
<1> DEFINE S == {k \in Nat : \E g : IsReplay(g, log, k)}
<1>1. 0 \in S
  <2> DEFINE g == [k \in 0..0 |-> NothingYet]
  <2>1. IsReplay(g, log, 0)
    BY DEF IsReplay
  <2> QED
    BY <2>1
<1>2. ASSUME NEW i \in 0..(n - 1), i \in S PROVE (i + 1) \in S
  <2>1. PICK g : IsReplay(g, log, i)
    BY <1>2
  <2> DEFINE m == i + 1
             h == [k \in 0..m |-> IF k < m THEN g[k] ELSE Applied(log[m].body.action, g[i])]
  <2>2. ASSUME NEW k \in 0..m
        PROVE  h[k] = IF k = 0 THEN NothingYet ELSE Applied(log[k].body.action, h[k - 1])
    <3>1. CASE k = m
      BY <3>1
    <3>2. CASE k < m
      <4>1. k \in 0..i /\ h[k] = g[k]
        BY <3>2
      <4>2. g[k] = IF k = 0 THEN NothingYet ELSE Applied(log[k].body.action, g[k - 1])
        BY <4>1, <2>1 DEF IsReplay
      <4>3. k # 0 => h[k - 1] = g[k - 1]
        BY <3>2
      <4> QED
        BY <4>1, <4>2, <4>3
    <3> QED
      BY <3>1, <3>2
  <2>3. h = [k \in 0..m |-> IF k = 0 THEN NothingYet
                                      ELSE Applied(log[k].body.action, h[k - 1])]
    <3>1. h = [k \in 0..m |-> h[k]]
      OBVIOUS
    <3> HIDE DEF h
    <3> QED
      BY <2>2, <3>1, Zenon
  <2> HIDE DEF h
  <2>4. IsReplay(h, log, i + 1)
    BY <2>3 DEF IsReplay
  <2> QED
    BY <2>4
<1>3. \A k \in 0..n : k \in S
  <2> HIDE DEF S
  <2> QED
    BY <1>1, <1>2, Climb
<1> QED
  BY <1>3

LEMMA ReplayIsDefined ==
    ASSUME NEW log, Len(log) \in Nat
    PROVE  \E g : IsReplay(g, log, Len(log)) /\ resolve_latest_record(log) = g[Len(log)]
<1> DEFINE state == CHOOSE g : IsReplay(g, log, Len(log))
<1>1. IsReplay(state, log, Len(log))
  <2>1. \E g : IsReplay(g, log, Len(log))
    BY ReplayExists
  <2> QED
    BY <2>1
<1>2. resolve_latest_record(log) = state[Len(log)]
  BY DEF resolve_latest_record, IsReplay
<1> HIDE DEF state
<1> QED
  BY <1>1, <1>2


\* The last of the first n entries about the path sets it to the content.
BoundAt(log, n, path, content) ==
    \E i \in 1..n : /\ log[i].body.action = SetPath(path, content)
                    /\ \A j \in (i + 1)..n : ~Touches(log[j], path)

LEMMA BoundStep ==
    ASSUME NEW log, NEW n \in Nat \ {0}, NEW path, NEW content
    PROVE  BoundAt(log, n, path, content)
             <=> \/ log[n].body.action = SetPath(path, content)
                 \/ ~Touches(log[n], path) /\ BoundAt(log, n - 1, path, content)
<1>1. ASSUME BoundAt(log, n, path, content), log[n].body.action # SetPath(path, content)
      PROVE  ~Touches(log[n], path) /\ BoundAt(log, n - 1, path, content)
  <2>1. PICK i \in 1..n : /\ log[i].body.action = SetPath(path, content)
                          /\ \A j \in (i + 1)..n : ~Touches(log[j], path)
    BY <1>1 DEF BoundAt
  <2>2. i \in 1..(n - 1) /\ n \in (i + 1)..n
    BY <1>1, <2>1
  <2>3. \A j \in (i + 1)..(n - 1) : ~Touches(log[j], path)
    BY <2>1
  <2> QED
    BY <2>1, <2>2, <2>3 DEF BoundAt
<1>2. ASSUME log[n].body.action = SetPath(path, content)
      PROVE  BoundAt(log, n, path, content)
  <2>1. n \in 1..n /\ (n + 1)..n = {}
    OBVIOUS
  <2> QED
    BY <1>2, <2>1 DEF BoundAt
<1>3. ASSUME ~Touches(log[n], path), BoundAt(log, n - 1, path, content)
      PROVE  BoundAt(log, n, path, content)
  <2>1. PICK i \in 1..(n - 1) : /\ log[i].body.action = SetPath(path, content)
                                /\ \A j \in (i + 1)..(n - 1) : ~Touches(log[j], path)
    BY <1>3 DEF BoundAt
  <2>2. ASSUME NEW j \in (i + 1)..n PROVE ~Touches(log[j], path)
    BY <1>3, <2>1
  <2>3. i \in 1..n
    OBVIOUS
  <2> QED
    BY <2>1, <2>2, <2>3 DEF BoundAt
<1> QED
  BY <1>1, <1>2, <1>3

IsState(s) == s = [root |-> s.root, profile |-> s.profile, paths |-> s.paths, relays |-> s.relays]

Binds(s, path, content) == path \in DOMAIN s.paths /\ s.paths[path] = content

\* One action of the replay: a path is bound to what the action sets it to, and
\* otherwise to what it was bound to unless the action is about it.
LEMMA AppliedBinds ==
    ASSUME NEW s, IsState(s), NEW e, IsAction(e.body.action)
    PROVE  LET t == Applied(e.body.action, s) IN
           /\ IsState(t)
           /\ \A path, content :
                 Binds(t, path, content)
                   <=> \/ e.body.action = SetPath(path, content)
                       \/ ~Touches(e, path) /\ Binds(s, path, content)
<1> DEFINE a == e.body.action
           t == Applied(a, s)
<1> SUFFICES /\ IsState(t)
             /\ \A path, content :
                   Binds(t, path, content)
                     <=> \/ a = SetPath(path, content)
                         \/ ~(a.type \in {"SetPath", "RemovePath"} /\ a.path = path)
                            /\ Binds(s, path, content)
  BY DEF Touches
<1>0. IsAction(a)
  OBVIOUS
<1> HIDE DEF a
<1>1. CASE a.type = "SetPath"
  <2>1. a = SetPath(a.path, a.content)
    BY <1>0, <1>1 DEF IsAction
  <2>2. t = [s EXCEPT !.paths = With(s.paths, a.path, a.content)]
    BY <1>1 DEF Applied
  <2>3. /\ t.paths = With(s.paths, a.path, a.content)
        /\ IsState(t)
    BY <2>2 DEF IsState
  <2> HIDE DEF t
  <2>4. ASSUME NEW path, NEW content
        PROVE  Binds(t, path, content) <=> (a.path = path /\ a.content = content)
                                           \/ (a.path # path /\ Binds(s, path, content))
    BY <2>3 DEF Binds, With
  <2>5. ASSUME NEW path, NEW content
        PROVE  a = SetPath(path, content) <=> a.path = path /\ a.content = content
    BY <2>1 DEF SetPath
  <2> QED
    BY <1>1, <2>3, <2>4, <2>5
<1>2. CASE a.type = "RemovePath"
  <2>2. t = [s EXCEPT !.paths = Without(s.paths, a.path)]
    BY <1>2 DEF Applied
  <2>3. /\ t.paths = Without(s.paths, a.path)
        /\ IsState(t)
    BY <2>2 DEF IsState
  <2> HIDE DEF t
  <2>4. ASSUME NEW path, NEW content
        PROVE  Binds(t, path, content) <=> (a.path # path /\ Binds(s, path, content))
    BY <2>3 DEF Binds, Without
  <2>5. ASSUME NEW path, NEW content
        PROVE  a # SetPath(path, content)
    BY <1>2 DEF SetPath
  <2> QED
    BY <1>2, <2>3, <2>4, <2>5
<1>3. CASE a.type \in {"UpdateRoot", "UpdateProfile", "SetReachability", "PublishContent"}
  <2>2. \/ t = [s EXCEPT !.root = a.content]
        \/ t = [s EXCEPT !.profile = a.profile]
        \/ t = [s EXCEPT !.relays = a.relays]
        \/ t = s
    BY <1>3 DEF Applied
  <2>3. t.paths = s.paths /\ IsState(t)
    BY <2>2 DEF IsState
  <2> HIDE DEF t
  <2>5. ASSUME NEW path, NEW content
        PROVE  a # SetPath(path, content)
    BY <1>3 DEF SetPath
  <2> QED
    BY <1>3, <2>3, <2>5 DEF Binds
<1> QED
  BY <1>0, <1>1, <1>2, <1>3 DEF IsAction

AllActions(log) == \A i \in 1..Len(log) : IsAction(log[i].body.action)

\* What resolve_latest_record computes, for a log of any length: a path is bound
\* to a content exactly when the last entry about the path sets it to it.
LEMMA ReplayBinds ==
    ASSUME NEW log, Len(log) \in Nat, AllActions(log), NEW path, NEW content
    PROVE  Binds(resolve_latest_record(log), path, content) <=> BoundIn(log, path, content)
<1>1. PICK g : IsReplay(g, log, Len(log)) /\ resolve_latest_record(log) = g[Len(log)]
  BY ReplayIsDefined
<1> DEFINE n == Len(log)
           Right(k) == IsState(g[k]) /\ \A p, c : Binds(g[k], p, c) <=> BoundAt(log, k, p, c)
           S == {k \in Nat : Right(k)}
<1>2. 0 \in S
  <2>1. g[0] = NothingYet
    BY <1>1 DEF IsReplay
  <2>2. IsState(g[0])
    BY <2>1 DEF IsState, NothingYet
  <2>3. DOMAIN g[0].paths = {}
    BY <2>1 DEF NothingYet
  <2>4. \A p, c : ~Binds(g[0], p, c) /\ ~BoundAt(log, 0, p, c)
    BY <2>3 DEF Binds, BoundAt
  <2> QED
    BY <2>2, <2>4
<1>3. ASSUME NEW k \in 0..(n - 1), k \in S PROVE (k + 1) \in S
  <2> DEFINE m == k + 1
  <2>1. m \in 1..n /\ m \in Nat \ {0} /\ m - 1 = k
    OBVIOUS
  <2>2. g[m] = Applied(log[m].body.action, g[m - 1])
    BY <1>1, <2>1 DEF IsReplay
  <2>3. IsAction(log[m].body.action)
    BY <2>1 DEF AllActions
  <2>4. Right(m - 1)
    BY <1>3, <2>1
  <2> HIDE DEF m
  <2>5. /\ IsState(g[m])
        /\ \A p, c : Binds(g[m], p, c)
                       <=> \/ log[m].body.action = SetPath(p, c)
                           \/ ~Touches(log[m], p) /\ Binds(g[m - 1], p, c)
    BY <2>2, <2>3, <2>4, AppliedBinds
  <2>6. \A p, c : BoundAt(log, m, p, c)
                       <=> \/ log[m].body.action = SetPath(p, c)
                           \/ ~Touches(log[m], p) /\ BoundAt(log, m - 1, p, c)
    BY <2>1, BoundStep
  <2>7. Right(m)
    BY <2>4, <2>5, <2>6
  <2> QED
    BY <2>1, <2>7 DEF m
<1>4. \A k \in 0..n : k \in S
  <2> HIDE DEF S
  <2> QED
    BY <1>2, <1>3, Climb
<1>5. Right(n)
  BY <1>4
<1> QED
  BY <1>1, <1>5 DEF BoundAt, BoundIn

(***************************************************************************)
(* Written and verified logs                                               *)
(***************************************************************************)
\* The i-th entry as the owner's installation makes it after the one before.
Made(log, i, owner) ==
    sign_body([owner |-> owner, sequence |-> i - 1,
               previous |-> IF i = 1 THEN NoHash ELSE entry_hash(log[i - 1]),
               action |-> log[i].body.action], owner)

IsLogOf(log, owner) ==
    /\ log \in Seq(Range(log))
    /\ \A i \in 1..Len(log) : log[i] = Made(log, i, owner) /\ IsAction(log[i].body.action)

LEMMA WiderSeq ==
    ASSUME NEW S, NEW T, S \subseteq T, NEW s \in Seq(S)
    PROVE  s \in Seq(T)
<1>1. Len(s) \in Nat /\ s \in [1..Len(s) -> S]
  OBVIOUS
<1>2. s \in [1..Len(s) -> T]
  BY <1>1
<1> QED
  BY <1>1, <1>2

LEMMA AppendIsSeq ==
    ASSUME NEW log, log \in Seq(Range(log)), NEW e
    PROVE  LET longer == Append(log, e) IN
           /\ longer \in Seq(Range(longer))
           /\ Len(longer) = Len(log) + 1
           /\ \A i \in 1..Len(log) : longer[i] = log[i]
           /\ longer[Len(log) + 1] = e
           /\ Range(longer) = Range(log) \cup {e}
<1> DEFINE S == Range(log) \cup {e}
           longer == Append(log, e)
<1>1. log \in Seq(S)
  BY WiderSeq
<1>2. longer \in Seq(S) /\ Len(longer) = Len(log) + 1
      /\ longer[Len(log) + 1] = e /\ \A i \in 1..Len(log) : longer[i] = log[i]
  BY <1>1
<1>3. DOMAIN longer = 1..(Len(log) + 1) /\ DOMAIN log = 1..Len(log) /\ Len(log) \in Nat
  BY <1>1, <1>2
<1> HIDE DEF longer
<1>4. Range(longer) = S
  BY <1>2, <1>3 DEF Range
<1> QED
  BY <1>2, <1>4 DEF longer

\* An entry that was made tells its place in the log and whose log it is.
LEMMA EntryOfLog ==
    ASSUME NEW log, NEW owner, IsLogOf(log, owner), NEW i \in 1..Len(log)
    PROVE  /\ Len(log) \in Nat
           /\ log[i] = sign_body(log[i].body, owner)
           /\ log[i].body = [owner |-> owner, sequence |-> i - 1,
                             previous |-> log[i].body.previous, action |-> log[i].body.action]
           /\ log[i].body.owner = owner
           /\ log[i].body.sequence = i - 1
           /\ i > 1 => log[i].body.previous = entry_hash(log[i - 1])
<1>1. log \in Seq(Range(log)) /\ Len(log) \in Nat
  BY DEF IsLogOf
<1>2. log[i] = Made(log, i, owner)
  BY DEF IsLogOf
<1> DEFINE b == [owner |-> owner, sequence |-> i - 1,
                 previous |-> IF i = 1 THEN NoHash ELSE entry_hash(log[i - 1]),
                 action |-> log[i].body.action]
<1>3. log[i].body = b
  BY <1>2 DEF Made, sign_body
<1>4. log[i] = sign_body(log[i].body, owner)
  BY <1>2, <1>3 DEF Made
<1> QED
  BY <1>1, <1>3, <1>4

LEMMA PlaceInLog ==
    ASSUME NEW log, NEW owner, IsLogOf(log, owner), NEW i \in 1..Len(log)
    PROVE  log[i].body.owner = owner /\ log[i].body.sequence = i - 1
<1>1. log[i] = Made(log, i, owner)
  BY DEF IsLogOf
<1> QED
  BY <1>1 DEF Made, sign_body

\* The hash of an entry determines the entry.
LEMMA HashIsInjective ==
    ASSUME NEW log1, NEW log2, NEW o1, NEW o2, IsLogOf(log1, o1), IsLogOf(log2, o2),
           NEW i \in 1..Len(log1), NEW j \in 1..Len(log2),
           entry_hash(log1[i]) = entry_hash(log2[j])
    PROVE  log1[i] = log2[j]
<1> DEFINE a == log1[i].body
           b == log2[j].body
<1>1. /\ log1[i] = sign_body(a, o1) /\ a.owner = o1
      /\ a = [owner |-> o1, sequence |-> i - 1, previous |-> a.previous, action |-> a.action]
      /\ a.sequence = i - 1
  BY EntryOfLog
<1>2. /\ log2[j] = sign_body(b, o2) /\ b.owner = o2
      /\ b = [owner |-> o2, sequence |-> j - 1, previous |-> b.previous, action |-> b.action]
      /\ b.sequence = j - 1
  BY EntryOfLog
<1>3. canonical_bytes(a) = canonical_bytes(b)
  BY DEF entry_hash, blake3
<1> HIDE DEF a, b
<1>4. /\ a.owner = b.owner
      /\ a.sequence = b.sequence
      /\ a.previous = b.previous
      /\ a.action = b.action
  BY <1>3 DEF canonical_bytes
<1>5. a = b /\ o1 = o2
  BY <1>1, <1>2, <1>4
<1> QED
  BY <1>1, <1>2, <1>5

(***************************************************************************)
(* The invariant                                                           *)
(***************************************************************************)
\* Every installation's log is a chain of its own entries.
LogsAreMade ==
    /\ DOMAIN written = Copies
    /\ \A c \in Copies : IsLogOf(written[c], Owner[c])

IsOfIdentity(log) == \E c \in Copies : Owner[c] = Identity /\ IsBeginning(log, written[c])

\* What is cached is made of written entries and is the beginning of one log.
CacheIsMade == cache \in Seq(Entries) /\ IsOfIdentity(cache)

Kinds == {"daemon", "direct", "pin", "sync"}

RequestsAreKnown ==
    \A r \in requests : r.kind \in Kinds /\ r = Request(r.kind, r.caller, r.path, r.peer)

\* What a caller may have been told.
IsTrueAnswer(a) ==
    "content" \in DOMAIN a =>
        \E w \in Copies :
            /\ Owner[w] = Identity
            /\ a.sequence \in Nat
            /\ a.sequence < Len(written[w])
            /\ BoundAt(written[w], a.sequence + 1, a.path, a.content)

AnswersAreTrue == DOMAIN answer = Callers /\ \A c \in Callers : IsTrueAnswer(answer[c])

Inv == LogsAreMade /\ CacheIsMade /\ RequestsAreKnown /\ AnswersAreTrue

LEMMA InvImplies ==
    ASSUME Inv
    PROVE  CacheWasWritten /\ AnswersWereBound
<1>1. CacheWasWritten
  BY DEF Inv, CacheIsMade, IsOfIdentity, CacheWasWritten
<1>2. ASSUME NEW c \in Callers, "content" \in DOMAIN answer[c]
      PROVE  \E w \in Copies :
                /\ Owner[w] = Identity
                /\ answer[c].sequence < Len(written[w])
                /\ BoundIn(SubSeq(written[w], 1, answer[c].sequence + 1),
                           answer[c].path, answer[c].content)
  <2> DEFINE a == answer[c]
  <2>1. PICK w \in Copies : /\ Owner[w] = Identity
                            /\ a.sequence \in Nat
                            /\ a.sequence < Len(written[w])
                            /\ BoundAt(written[w], a.sequence + 1, a.path, a.content)
    BY <1>2 DEF Inv, AnswersAreTrue, IsTrueAnswer
  <2> DEFINE log == written[w]
             n == a.sequence + 1
             start == SubSeq(log, 1, n)
  <2>2. log \in Seq(Range(log)) /\ n \in Nat /\ n <= Len(log) /\ n >= 1
    BY <2>1 DEF Inv, LogsAreMade, IsLogOf
  <2>2a. BoundAt(log, n, a.path, a.content) /\ a.sequence < Len(log)
    BY <2>1
  <2> HIDE DEF a, log, n
  <2>3. Len(start) = n /\ \A i \in 1..n : start[i] = log[i]
    BY <2>2
  <2> HIDE DEF start
  <2>4. BoundIn(start, a.path, a.content)
    <3>1. PICK i \in 1..n : /\ log[i].body.action = SetPath(a.path, a.content)
                            /\ \A j \in (i + 1)..n : ~Touches(log[j], a.path)
      BY <2>2a DEF BoundAt
    <3>2. start[i].body.action = SetPath(a.path, a.content)
      BY <2>3, <3>1
    <3>3. ASSUME NEW j \in (i + 1)..n PROVE ~Touches(start[j], a.path)
      <4>1. j \in 1..n
        BY <2>2
      <4> QED
        BY <2>3, <3>1, <4>1
    <3> QED
      BY <2>3, <3>2, <3>3 DEF BoundIn
  <2> QED
    BY <2>1, <2>2a, <2>4 DEF a, log, n, start
<1>3. AnswersWereBound
  BY <1>2 DEF AnswersWereBound
<1> QED
  BY <1>1, <1>3

LEMMA InitInv ==
    ASSUME Init
    PROVE  Inv
<1>1. LogsAreMade
  <2>1. \A c \in Copies : written[c] = <<>>
    BY DEF Init
  <2>2. ASSUME NEW c \in Copies PROVE IsLogOf(written[c], Owner[c])
    <3>1. written[c] = <<>>
      BY <2>1
    <3> QED
      BY <3>1 DEF IsLogOf
  <2> QED
    BY <2>2 DEF Init, LogsAreMade
<1>2. CacheIsMade
  <2>1. PICK c \in Copies : Owner[c] = Identity
    BY ResolutionAssumption
  <2>2. cache = <<>> /\ written[c] = <<>>
    BY DEF Init
  <2>3. IsBeginning(cache, written[c])
    BY <2>2 DEF IsBeginning
  <2> QED
    BY <2>1, <2>2, <2>3 DEF CacheIsMade, IsOfIdentity
<1>3. RequestsAreKnown
  BY DEF Init, RequestsAreKnown
<1>4. AnswersAreTrue
  <2>1. \A c \in Callers : DOMAIN answer[c] = {"status"}
    BY DEF Init, Idle
  <2> QED
    BY <2>1 DEF Init, AnswersAreTrue, IsTrueAnswer
<1> QED
  BY <1>1, <1>2, <1>3, <1>4 DEF Inv

(***************************************************************************)
(* A log that verifies was written                                         *)
(***************************************************************************)
\* Entries of any logs that verify_update_log_for_identity accepts are the
\* beginning of one log: the sequences count up and the owner is the same
\* throughout, and from the last entry back each hash names the entry before.
LEMMA VerifiedWasWritten ==
    ASSUME LogsAreMade, NEW log \in Seq(Entries), log # <<>>,
           verify_update_log_for_identity(Identity, log)
    PROVE  IsOfIdentity(log)
<1> DEFINE n == Len(log)
<1>1. n \in Nat /\ n >= 1 /\ \A i \in 1..n : log[i] \in Entries
  OBVIOUS
<1>2. ASSUME NEW i \in 1..n
      PROVE  \E c \in Copies : \E k \in 1..Len(written[c]) : log[i] = written[c][k]
  <2>1. PICK c \in Copies : log[i] \in Range(written[c])
    BY <1>1 DEF Entries
  <2>2. DOMAIN written[c] = 1..Len(written[c])
    BY DEF LogsAreMade, IsLogOf
  <2> QED
    BY <2>1, <2>2 DEF Range
<1>3. ASSUME NEW i \in 1..n, i # 1
      PROVE  /\ log[i].body.owner = log[i - 1].body.owner
             /\ log[i].body.sequence = log[i - 1].body.sequence + 1
             /\ log[i].body.previous = entry_hash(log[i - 1])
  BY <1>3 DEF verify_update_log_for_identity, verify_update_log, Continues
<1>4. log[1].body.owner = Identity /\ log[1].body.sequence = 0
  BY <1>1 DEF verify_update_log_for_identity, verify_update_log
<1>5. \A i \in 1..n : log[i].body.owner = Identity /\ log[i].body.sequence = i - 1
  <2> DEFINE S == {k \in Nat : k = 0 \/ (log[k].body.owner = Identity
                                         /\ log[k].body.sequence = k - 1)}
  <2>1. 0 \in S
    OBVIOUS
  <2>2. ASSUME NEW i \in 0..(n - 1), i \in S PROVE (i + 1) \in S
    <3>1. CASE i = 0
      BY <1>4, <3>1
    <3>2. CASE i # 0
      <4>1. i + 1 \in 1..n /\ i + 1 # 1 /\ (i + 1) - 1 = i
        BY <3>2
      <4>2. /\ log[i + 1].body.owner = log[i].body.owner
            /\ log[i + 1].body.sequence = log[i].body.sequence + 1
        BY <1>3, <4>1
      <4>3. log[i].body.owner = Identity /\ log[i].body.sequence = i - 1
        BY <2>2, <3>2
      <4>4. log[i + 1].body.owner = Identity /\ log[i + 1].body.sequence = (i + 1) - 1
        BY <4>2, <4>3
      <4> QED
        BY <4>4
    <3> QED
      BY <3>1, <3>2
  <2>3. \A i \in 0..n : i \in S
    <3> HIDE DEF S
    <3> QED
      BY <1>1, <2>1, <2>2, Climb, Zenon
  <2> QED
    BY <2>3
<1>6. ASSUME NEW i \in 1..n
      PROVE  \E c \in Copies : Owner[c] = Identity /\ i \in 1..Len(written[c])
                               /\ log[i] = written[c][i]
  <2>0. PICK c \in Copies : \E k \in 1..Len(written[c]) : log[i] = written[c][k]
    BY <1>2
  <2>1. PICK k \in 1..Len(written[c]) : log[i] = written[c][k]
    BY <2>0
  <2>2. written[c][k].body.owner = Owner[c] /\ written[c][k].body.sequence = k - 1
    <3>1. IsLogOf(written[c], Owner[c])
      BY DEF LogsAreMade
    <3> QED
      BY <3>1, PlaceInLog
  <2>3. log[i].body.owner = Identity /\ log[i].body.sequence = i - 1
    BY <1>5
  <2>4. Len(written[c]) \in Nat
    BY DEF LogsAreMade, IsLogOf
  <2>5. k = i /\ Owner[c] = Identity
    BY <2>1, <2>2, <2>3, <2>4
  <2> QED
    BY <2>1, <2>5
<1>7. PICK c \in Copies : Owner[c] = Identity /\ n \in 1..Len(written[c])
                          /\ log[n] = written[c][n]
  BY <1>1, <1>6
<1> DEFINE Same == {i \in 1..n : log[i] = written[c][i]}
<1>8. ASSUME NEW i \in 2..n, i \in Same PROVE (i - 1) \in Same
  <2>1. IsLogOf(written[c], Owner[c]) /\ Len(written[c]) \in Nat
    BY DEF LogsAreMade, IsLogOf
  <2>2. i \in 1..Len(written[c]) /\ i > 1 /\ i - 1 \in 1..Len(written[c]) /\ i - 1 \in 1..n
    BY <1>1, <1>7, <2>1
  <2>3. log[i].body.previous = entry_hash(written[c][i - 1])
    <3>1. written[c][i].body.previous = entry_hash(written[c][i - 1])
      BY <2>1, <2>2, EntryOfLog, Zenon
    <3> QED
      BY <1>8, <3>1
  <2>4. log[i].body.previous = entry_hash(log[i - 1])
    BY <1>3, <2>2
  <2>5. PICK d \in Copies : i - 1 \in 1..Len(written[d]) /\ log[i - 1] = written[d][i - 1]
    BY <1>6, <2>2, Zenon
  <2>6. entry_hash(written[d][i - 1]) = entry_hash(written[c][i - 1])
    BY <2>3, <2>4, <2>5
  <2>7. written[d][i - 1] = written[c][i - 1]
    <3>1. IsLogOf(written[d], Owner[d])
      BY DEF LogsAreMade
    <3> QED
      BY <2>1, <2>2, <2>5, <2>6, <3>1, HashIsInjective
  <2> QED
    BY <2>2, <2>5, <2>7
<1>9. \A i \in 1..n : i \in Same
  <2>1. n \in Same
    BY <1>1, <1>7
  <2> HIDE DEF Same
  <2> QED
    BY <1>1, <1>8, <2>1, Descend
<1>10. IsBeginning(log, written[c])
  <2>1. Len(written[c]) \in Nat
    BY DEF LogsAreMade, IsLogOf
  <2> QED
    BY <1>7, <1>9, <2>1 DEF IsBeginning
<1> QED
  BY <1>7, <1>10 DEF IsOfIdentity

(***************************************************************************)
(* What a caller is told                                                   *)
(***************************************************************************)
\* An answer from a log of the identity names a binding of that log.
LEMMA ResolvedIsTrue ==
    ASSUME LogsAreMade, NEW log \in Seq(Entries), log # <<>>, IsOfIdentity(log),
           NEW path, NEW now
    PROVE  IsTrueAnswer(Resolved(path, log, now))
<1> DEFINE target == resolve_jolt_address(Identity, path, log, now)
           latest == resolve_latest_record(log)
           n == Len(log)
<1>1. CASE target = Failed
  <2>1. DOMAIN Resolved(path, log, now) = {"status"}
    BY <1>1 DEF Resolved, Failed
  <2> QED
    BY <2>1 DEF IsTrueAnswer
<1>2. CASE target # Failed
  <2>1. path \in DOMAIN latest.paths /\ target.content = latest.paths[path]
    BY <1>2 DEF resolve_jolt_address
  <2>2. Binds(latest, path, target.content)
    BY <2>1 DEF Binds
  <2>3. PICK w \in Copies : Owner[w] = Identity /\ IsBeginning(log, written[w])
    BY DEF IsOfIdentity
  <2>4. IsLogOf(written[w], Identity) /\ Len(written[w]) \in Nat
    BY <2>3 DEF LogsAreMade, IsLogOf
  <2>5. n \in Nat /\ n >= 1 /\ n <= Len(written[w]) /\ \A i \in 1..n : log[i] = written[w][i]
    BY <2>3 DEF IsBeginning
  <2>6. AllActions(log)
    <3>1. ASSUME NEW i \in 1..n PROVE IsAction(log[i].body.action)
      <4>1. i \in 1..Len(written[w]) /\ log[i] = written[w][i]
        BY <2>4, <2>5
      <4> QED
        BY <2>4, <4>1 DEF IsLogOf
    <3> QED
      BY <3>1 DEF AllActions
  <2>7. BoundIn(log, path, target.content)
    <3> HIDE DEF target, latest
    <3> QED
      BY <2>2, <2>5, <2>6, ReplayBinds DEF latest
  <2>8. BoundAt(written[w], n, path, target.content)
    <3> HIDE DEF target
    <3>1. PICK i \in 1..n : /\ log[i].body.action = SetPath(path, target.content)
                            /\ \A j \in (i + 1)..n : ~Touches(log[j], path)
      BY <2>7 DEF BoundIn
    <3>2. written[w][i].body.action = SetPath(path, target.content)
      BY <2>5, <3>1
    <3>3. ASSUME NEW j \in (i + 1)..n PROVE ~Touches(written[w][j], path)
      <4>1. j \in 1..n
        BY <2>5
      <4> QED
        BY <2>5, <3>1, <4>1
    <3> QED
      BY <3>2, <3>3 DEF BoundAt
  <2>9. latest_sequence(log) = n - 1
    <3>1. n \in 1..Len(written[w]) /\ log[n] = written[w][n]
      BY <2>4, <2>5
    <3>2. written[w][n].body.sequence = n - 1
      BY <2>4, <3>1, PlaceInLog
    <3> QED
      BY <3>1, <3>2 DEF latest_sequence
  <2> DEFINE a == Resolved(path, log, now)
  <2>10. a.path = path /\ a.content = target.content /\ a.sequence = n - 1
    BY <1>2, <2>9 DEF Resolved
  <2> HIDE DEF a, target, n
  <2>11. /\ a.sequence \in Nat
         /\ a.sequence < Len(written[w])
         /\ a.sequence + 1 = n
    BY <2>4, <2>5, <2>10
  <2>12. BoundAt(written[w], a.sequence + 1, a.path, a.content)
    BY <2>8, <2>10, <2>11
  <2> QED
    BY <2>3, <2>11, <2>12 DEF IsTrueAnswer, a
<1> QED
  BY <1>1, <1>2

\* An answer without a content claims nothing.
LEMMA PlainAnswers ==
    /\ IsTrueAnswer(Failed)
    /\ IsTrueAnswer(Waiting)
    /\ \A s : IsTrueAnswer([sequence |-> s])
<1>1. /\ "content" \notin DOMAIN Failed
      /\ "content" \notin DOMAIN Waiting
      /\ \A s : "content" \notin DOMAIN [sequence |-> s]
  BY DEF Failed, Waiting
<1> QED
  BY <1>1 DEF IsTrueAnswer

\* A verified log that was stored leaves a log of the identity in the cache.
LEMMA StoredIsMade ==
    ASSUME Inv, NEW log \in Seq(Entries), log # <<>>,
           verify_update_log_for_identity(Identity, log)
    PROVE  Stored(log) \in Seq(Entries) /\ Stored(log) # <<>> /\ IsOfIdentity(Stored(log))
<1>1. IsOfIdentity(log)
  BY VerifiedWasWritten DEF Inv
<1>2. cache \in Seq(Entries) /\ IsOfIdentity(cache)
  BY DEF Inv, CacheIsMade
<1>3. Stored(log) = log \/ (cache # <<>> /\ Stored(log) = cache)
  BY DEF Stored
<1> QED
  BY <1>1, <1>2, <1>3

\* The four kinds of request.
LEMMA ResultIsTrue ==
    ASSUME LogsAreMade, NEW log \in Seq(Entries), log # <<>>, IsOfIdentity(log),
           NEW r, r.kind \in Kinds
    PROVE  IsTrueAnswer(Result(r, log))
<1>1. CASE r.kind = "daemon"
  <2>1. Result(r, log) = Resolved(r.path, log, 0)
    BY <1>1 DEF Result
  <2> QED
    BY <2>1, ResolvedIsTrue
<1>2. CASE r.kind = "direct"
  <2>1. Result(r, log) = Resolved(r.path, log, 1)
    BY <1>2 DEF Result
  <2> QED
    BY <2>1, ResolvedIsTrue
<1>3. CASE r.kind \in {"pin", "sync"}
  <2>1. Result(r, log) = [sequence |-> latest_sequence(log)]
    BY <1>3 DEF Result
  <2> QED
    BY <2>1, PlainAnswers
<1> QED
  BY <1>1, <1>2, <1>3 DEF Kinds

LEMMA CarriedIsSeq ==
    ASSUME NEW log \in Carried
    PROVE  log \in Seq(Entries)
<1>1. PICK n \in 0..MaxEntries : log \in [1..n -> Entries]
  BY DEF Carried
<1>2. n \in Nat
  BY ResolutionAssumption
<1> QED
  BY <1>1, <1>2

(***************************************************************************)
(* The steps                                                               *)
(***************************************************************************)
\* A step that writes nothing: what it caches and says has to be right.
LEMMA QuietStep ==
    ASSUME Inv, UNCHANGED written, RequestsAreKnown',
           cache' = cache \/ (cache' \in Seq(Entries) /\ IsOfIdentity(cache')),
           \/ UNCHANGED answer
           \/ \E caller, a : answer' = [answer EXCEPT ![caller] = a] /\ IsTrueAnswer(a)
    PROVE  Inv'
<1>1. LogsAreMade'
  BY DEF Inv, LogsAreMade
<1>2. CacheIsMade'
  <2>1. cache' \in Seq(Entries) /\ IsOfIdentity(cache')
    BY DEF Inv, CacheIsMade
  <2> QED
    BY <2>1 DEF CacheIsMade, IsOfIdentity, Entries
<1>3. AnswersAreTrue'
  <2>1. DOMAIN answer = Callers /\ \A c \in Callers : IsTrueAnswer(answer[c])
    BY DEF Inv, AnswersAreTrue
  <2>2. DOMAIN answer' = Callers
    BY <2>1
  <2>3. ASSUME NEW c \in Callers PROVE IsTrueAnswer(answer'[c])
    BY <2>1
  <2>4. ASSUME NEW c \in Callers PROVE IsTrueAnswer(answer[c])'
    BY <2>3 DEF IsTrueAnswer
  <2> QED
    BY <2>2, <2>4 DEF AnswersAreTrue
<1> QED
  BY <1>1, <1>2, <1>3 DEF Inv

LEMMA SilentStep ==
    ASSUME Inv, UNCHANGED <<written, cache, answer>>, RequestsAreKnown'
    PROVE  Inv'
  BY QuietStep

LEMMA TellStep ==
    ASSUME Inv, UNCHANGED <<written, cache>>, RequestsAreKnown',
           NEW caller, NEW a, IsTrueAnswer(a), answer' = [answer EXCEPT ![caller] = a]
    PROVE  Inv'
<1>1. \E x, y : answer' = [answer EXCEPT ![x] = y] /\ IsTrueAnswer(y)
  BY Zenon
<1> QED
  BY <1>1, QuietStep, Zenon

\* An installation appends an entry of its own.
LEMMA WriteInv ==
    ASSUME Inv, NEW c \in Copies, Write(c)
    PROVE  Inv'
<1> DEFINE log == written[c]
           n == Len(log)
           action == Script[c][n + 1]
           e == IF log = <<>> THEN genesis(Owner[c], action) ELSE append(log[n], action)
           longer == Append(log, e)
<1>1. /\ n < Len(Script[c])
      /\ written' = [written EXCEPT ![c] = longer]
      /\ UNCHANGED <<cache, requests, answer>>
  BY DEF Write
<1>2. IsLogOf(log, Owner[c]) /\ DOMAIN written = Copies
  BY DEF Inv, LogsAreMade
<1>3. log \in Seq(Range(log)) /\ n \in Nat
  BY <1>2 DEF IsLogOf
<1>4. IsAction(action)
  BY <1>1, <1>3, ResolutionAssumption
<1>5. e = sign_body([owner |-> Owner[c], sequence |-> n,
                     previous |-> IF n = 0 THEN NoHash ELSE entry_hash(log[n]),
                     action |-> action], Owner[c])
  <2>1. CASE n = 0
    <3>1. log = <<>>
      BY <1>3, <2>1
    <3> QED
      BY <2>1, <3>1 DEF genesis
  <2>2. CASE n # 0
    <3>1. log # <<>> /\ n \in 1..n
      BY <1>3, <2>2
    <3>2. log[n].body.owner = Owner[c] /\ log[n].body.sequence = n - 1
      <4> HIDE DEF log
      <4> QED
        BY <1>2, <3>1, PlaceInLog
    <3>3. (n - 1) + 1 = n
      BY <1>3
    <3> QED
      BY <2>2, <3>1, <3>2, <3>3 DEF append
  <2> QED
    BY <2>1, <2>2
<1>6. /\ longer \in Seq(Range(longer))
      /\ Len(longer) = n + 1
      /\ \A i \in 1..n : longer[i] = log[i]
      /\ longer[n + 1] = e
      /\ Range(longer) = Range(log) \cup {e}
  <2> HIDE DEF log, e
  <2> QED
    BY <1>3, AppendIsSeq
<1> HIDE DEF longer, e, action
<1>7. written'[c] = longer /\ DOMAIN written' = Copies
      /\ \A d \in Copies : d # c => written'[d] = written[d]
  BY <1>1, <1>2
<1>8. IsLogOf(longer, Owner[c])
  <2>1. ASSUME NEW i \in 1..n
        PROVE  longer[i] = Made(longer, i, Owner[c]) /\ IsAction(longer[i].body.action)
    <3>1. log[i] = Made(log, i, Owner[c]) /\ IsAction(log[i].body.action)
      BY <1>2 DEF IsLogOf
    <3>2. longer[i] = log[i] /\ (i # 1 => longer[i - 1] = log[i - 1])
      BY <1>3, <1>6
    <3>3. Made(longer, i, Owner[c]) = Made(log, i, Owner[c])
      BY <3>2 DEF Made
    <3> QED
      BY <3>1, <3>2, <3>3
  <2>2. longer[n + 1] = Made(longer, n + 1, Owner[c]) /\ IsAction(longer[n + 1].body.action)
    <3> DEFINE b == [owner |-> Owner[c], sequence |-> n,
                     previous |-> IF n = 0 THEN NoHash ELSE entry_hash(log[n]),
                     action |-> action]
    <3>1. longer[n + 1] = sign_body(b, Owner[c])
      BY <1>5, <1>6
    <3>2. longer[n + 1].body.action = action
      BY <3>1 DEF sign_body
    <3>3. (n + 1) - 1 = n /\ (n + 1 = 1 <=> n = 0)
      BY <1>3
    <3>4. n # 0 => longer[n] = log[n]
      BY <1>3, <1>6
    <3>5. Made(longer, n + 1, Owner[c]) = sign_body(b, Owner[c])
      BY <3>2, <3>3, <3>4 DEF Made
    <3> QED
      BY <1>4, <3>1, <3>2, <3>5
  <2>3. 1..(n + 1) = 1..n \cup {n + 1}
    BY <1>3
  <2> QED
    BY <1>6, <2>1, <2>2, <2>3 DEF IsLogOf
<1>9. LogsAreMade'
  <2>1. ASSUME NEW d \in Copies PROVE IsLogOf(written'[d], Owner[d])
    BY <1>7, <1>8 DEF Inv, LogsAreMade
  <2> QED
    BY <1>7, <2>1 DEF LogsAreMade
<1>10. ASSUME NEW d \in Copies
       PROVE  /\ Len(written[d]) \in Nat /\ Len(written'[d]) \in Nat
              /\ Len(written[d]) <= Len(written'[d])
              /\ \A i \in 1..Len(written[d]) : written'[d][i] = written[d][i]
  <2>1. CASE d = c
    BY <1>3, <1>6, <1>7, <2>1
  <2>2. CASE d # c
    BY <1>7, <2>2 DEF Inv, LogsAreMade, IsLogOf
  <2> QED
    BY <2>1, <2>2
<1>11. Entries \subseteq Entries'
  <2>1. \A d \in Copies : Range(written[d]) \subseteq Range(written'[d])
    BY <1>6, <1>7
  <2>2. Entries' = UNION {Range(written'[d]) : d \in Copies}
    BY DEF Entries
  <2> QED
    BY <2>1, <2>2 DEF Entries
<1>12. CacheIsMade'
  <2>1. cache \in Seq(Entries) /\ cache' = cache /\ Len(cache) \in Nat
    BY <1>1 DEF Inv, CacheIsMade
  <2>2. cache' \in Seq(Entries')
    BY <2>1, <1>11, WiderSeq
  <2>3. PICK d \in Copies : Owner[d] = Identity /\ IsBeginning(cache, written[d])
    BY DEF Inv, CacheIsMade, IsOfIdentity
  <2>4. IsBeginning(cache', written'[d])
    BY <2>1, <2>3, <1>10 DEF IsBeginning
  <2> QED
    BY <2>2, <2>3, <2>4 DEF CacheIsMade, IsOfIdentity
<1>13. RequestsAreKnown'
  BY <1>1 DEF Inv, RequestsAreKnown
<1>14. AnswersAreTrue'
  <2>1. ASSUME NEW d \in Callers, "content" \in DOMAIN answer[d]
        PROVE  \E w \in Copies :
                  /\ Owner[w] = Identity
                  /\ answer[d].sequence \in Nat
                  /\ answer[d].sequence < Len(written'[w])
                  /\ BoundAt(written'[w], answer[d].sequence + 1,
                             answer[d].path, answer[d].content)
    <3> DEFINE a == answer[d]
               m == a.sequence + 1
    <3>1. PICK w \in Copies : /\ Owner[w] = Identity
                              /\ a.sequence \in Nat
                              /\ a.sequence < Len(written[w])
                              /\ BoundAt(written[w], m, a.path, a.content)
      BY <2>1 DEF Inv, AnswersAreTrue, IsTrueAnswer
    <3>2. m \in Nat /\ m <= Len(written[w]) /\ a.sequence < Len(written'[w])
      BY <1>10, <3>1
    <3> HIDE DEF m, a
    <3>3. \A i \in 1..m : written'[w][i] = written[w][i]
      BY <1>10, <3>2
    <3>4. PICK i \in 1..m : /\ written[w][i].body.action = SetPath(a.path, a.content)
                            /\ \A j \in (i + 1)..m : ~Touches(written[w][j], a.path)
      BY <3>1 DEF BoundAt
    <3>5. ASSUME NEW j \in (i + 1)..m PROVE ~Touches(written'[w][j], a.path)
      <4>1. j \in 1..m
        BY <3>2
      <4> QED
        BY <3>3, <3>4, <4>1
    <3>6. written'[w][i].body.action = SetPath(a.path, a.content)
      BY <3>3, <3>4
    <3>7. BoundAt(written'[w], m, a.path, a.content)
      BY <3>5, <3>6 DEF BoundAt
    <3> QED
      BY <3>1, <3>2, <3>7 DEF m, a
  <2> QED
    BY <1>1, <2>1 DEF Inv, AnswersAreTrue, IsTrueAnswer
<1> QED
  BY <1>9, <1>12, <1>13, <1>14 DEF Inv

\* A request that stays or moves on to the next provider keeps its kind.
LEMMA RequestStep ==
    ASSUME Inv, NEW new,
           requests' \subseteq requests \cup new,
           \A r \in new : r.kind \in Kinds /\ r = Request(r.kind, r.caller, r.path, r.peer)
    PROVE  RequestsAreKnown'
  BY DEF Inv, RequestsAreKnown

LEMMA MadeRequest ==
    ASSUME NEW kind \in Kinds, NEW caller, NEW path, NEW peer
    PROVE  LET r == Request(kind, caller, path, peer) IN
           r.kind \in Kinds /\ r = Request(r.kind, r.caller, r.path, r.peer)
  BY DEF Request

\* Every command of a caller.
LEMMA AsksInv ==
    ASSUME Inv, NEW c \in Callers, Asks(c)
    PROVE  Inv'
<1> USE PlainAnswers
<1>0. "daemon" \in Kinds /\ "direct" \in Kinds /\ "pin" \in Kinds /\ "sync" \in Kinds
  BY DEF Kinds
<1>1. ASSUME NEW p \in Paths, ResolveFromCache(c, p) PROVE Inv'
  <2>1. UNCHANGED <<written, cache>> /\ cache # <<>>
        /\ answer' = [answer EXCEPT ![c] = Resolved(p, cache, 0)]
    BY <1>1 DEF ResolveFromCache, Told
  <2>2. IsTrueAnswer(Resolved(p, cache, 0))
    BY <2>1, ResolvedIsTrue DEF Inv, CacheIsMade
  <2>3. RequestsAreKnown'
    <3> DEFINE new == {Request("daemon", Nobody, p, Head(discovered))}
    <3>1. requests' \subseteq requests \cup new
      BY <1>1 DEF ResolveFromCache, RefreshInBackground
    <3>2. \A r \in new : r.kind \in Kinds /\ r = Request(r.kind, r.caller, r.path, r.peer)
      BY <1>0, MadeRequest
    <3> HIDE DEF new
    <3> QED
      BY <3>1, <3>2, RequestStep
  <2> QED
    BY <2>1, <2>2, <2>3, TellStep, Zenon
<1>2. ASSUME NEW p \in Paths, ResolveRemotely(c, p) PROVE Inv'
  <2>1. UNCHANGED <<written, cache>> /\ answer' = [answer EXCEPT ![c] = Waiting]
    BY <1>2, ZenonT(40) DEF ResolveRemotely, Told
  <2>2. RequestsAreKnown'
    <3> DEFINE new == {Request("daemon", c, p, Head(discovered))}
    <3>1. requests' \subseteq requests \cup new
      BY <1>2 DEF ResolveRemotely
    <3>2. \A r \in new : r.kind \in Kinds /\ r = Request(r.kind, r.caller, r.path, r.peer)
      BY <1>0, MadeRequest
    <3> HIDE DEF new
    <3> QED
      BY <3>1, <3>2, RequestStep
  <2> QED
    BY <2>1, <2>2, TellStep, Zenon
<1>3. ASSUME NEW q \in Peers, NEW kind \in Kinds, NEW path,
             answer' = [answer EXCEPT ![c] = Waiting],
             requests' = requests \cup {Request(kind, c, path, q)},
             UNCHANGED <<written, cache>>
      PROVE  Inv'
  <2> DEFINE new == {Request(kind, c, path, q)}
  <2>1. \A r \in new : r.kind \in Kinds /\ r = Request(r.kind, r.caller, r.path, r.peer)
    BY MadeRequest
  <2>2. requests' \subseteq requests \cup new
    BY <1>3
  <2> HIDE DEF new
  <2>3. RequestsAreKnown'
    BY <2>1, <2>2, RequestStep
  <2> QED
    BY <1>3, <2>3, TellStep, Zenon
<1>4. ASSUME NEW q \in Peers, PinRemotely(c, q) PROVE Inv'
  BY <1>0, <1>3, <1>4 DEF PinRemotely, Told
<1>5. ASSUME NEW q \in Peers, RequestUpdateLogFrom(c, q) PROVE Inv'
  BY <1>0, <1>3, <1>5 DEF RequestUpdateLogFrom, Told
<1>6. ASSUME NEW q \in Peers, NEW p \in Paths, RequestJoltAddressFromPeer(c, p, q) PROVE Inv'
  BY <1>0, <1>3, <1>6 DEF RequestJoltAddressFromPeer, Told
<1>7. ASSUME UNCHANGED requests PROVE RequestsAreKnown'
  BY <1>7 DEF Inv, RequestsAreKnown
<1>8. ASSUME PinCached(c) PROVE Inv'
  <2>1. UNCHANGED <<written, cache, requests>>
        /\ answer' = [answer EXCEPT ![c] = [sequence |-> latest_sequence(cache)]]
    BY <1>8 DEF PinCached, Told
  <2> QED
    BY <1>7, <2>1, TellStep, Zenon
<1>9. ASSUME PinWithoutPeers(c) PROVE Inv'
  <2>1. UNCHANGED <<written, cache, requests>> /\ answer' = [answer EXCEPT ![c] = Failed]
    BY <1>9 DEF PinWithoutPeers, Told
  <2> QED
    BY <1>7, <2>1, TellStep, Zenon
<1>10. ASSUME StoreUpdateLog(c) PROVE Inv'
  <2>1. PICK log \in Carried \ {<<>>} :
            IF verify_update_log_for_identity(Identity, log)
              THEN /\ cache' = Stored(log)
                   /\ Told(c, [sequence |-> latest_sequence(Stored(log))])
              ELSE Told(c, Failed) /\ UNCHANGED cache
    BY <1>10 DEF StoreUpdateLog
  <2>2. UNCHANGED <<written, requests>>
    BY <1>10 DEF StoreUpdateLog
  <2>3. log \in Seq(Entries) /\ log # <<>>
    BY CarriedIsSeq
  <2>4. CASE verify_update_log_for_identity(Identity, log)
    <3>1. cache' = Stored(log)
          /\ answer' = [answer EXCEPT ![c] = [sequence |-> latest_sequence(Stored(log))]]
      BY <2>1, <2>4 DEF Told
    <3>2. cache' \in Seq(Entries) /\ IsOfIdentity(cache')
      BY <2>3, <2>4, <3>1, StoredIsMade
    <3> QED
      BY <1>7, <2>2, <3>1, <3>2, QuietStep, ZenonT(40)
  <2>5. CASE ~verify_update_log_for_identity(Identity, log)
    <3>1. UNCHANGED cache /\ answer' = [answer EXCEPT ![c] = Failed]
      BY <2>1, <2>5 DEF Told
    <3> QED
      BY <1>7, <2>2, <3>1, TellStep, ZenonT(40)
  <2> QED
    BY <2>4, <2>5
<1> QED
  BY <1>1, <1>2, <1>4, <1>5, <1>6, <1>8, <1>9, <1>10 DEF Asks

\* A provider is found: those who waited ask it.
LEMMA ProviderInv ==
    ASSUME Inv, NEW p \in Peers, FoundProvider(p) \/ RelayNamed(p)
    PROVE  Inv'
<1>1. UNCHANGED <<written, cache, answer>> /\ requests' = requests \cup Unparked(p)
  <2>1. CASE FoundProvider(p)
    BY <2>1 DEF FoundProvider
  <2>2. CASE RelayNamed(p)
    BY <2>2 DEF RelayNamed
  <2> QED
    BY <2>1, <2>2
<1>2. ASSUME NEW r \in Unparked(p)
      PROVE  r.kind \in Kinds /\ r = Request(r.kind, r.caller, r.path, r.peer)
  <2>1. "daemon" \in Kinds
    BY DEF Kinds
  <2>2. PICK w \in parked : r = Request("daemon", w.caller, w.path, p)
    BY DEF Unparked
  <2> QED
    BY <2>1, <2>2, MadeRequest
<1>3. RequestsAreKnown'
  BY <1>1, <1>2, RequestStep
<1> QED
  BY <1>1, <1>3, SilentStep

\* A request ends.
LEMMA AnsweredStep ==
    ASSUME Inv, NEW r, NEW a, IsTrueAnswer(a), Answered(r, a),
           UNCHANGED written, RequestsAreKnown',
           cache' = cache \/ (cache' \in Seq(Entries) /\ IsOfIdentity(cache'))
    PROVE  Inv'
<1>1. \/ UNCHANGED answer
      \/ answer' = [answer EXCEPT ![r.caller] = a]
  BY DEF Answered, Told
<1> QED
  BY <1>1, QuietStep, Zenon

LEMMA RequestInv ==
    ASSUME Inv, NEW r \in requests, ProviderEnds(r) \/ RequestTimeout(r)
    PROVE  Inv'
<1> USE PlainAnswers
<1>0. r.kind \in Kinds /\ r = Request(r.kind, r.caller, r.path, r.peer)
  BY DEF Inv, RequestsAreKnown
<1>1. ASSUME requests' \subseteq requests PROVE RequestsAreKnown'
  BY <1>1 DEF Inv, RequestsAreKnown
<1>2. ASSUME NEW log \in Carried, Response(r, log) PROVE Inv'
  <2>1. log \in Seq(Entries)
    BY CarriedIsSeq
  <2>2. UNCHANGED written /\ RequestsAreKnown'
    BY <1>1, <1>2 DEF Response
  <2>3. CASE Usable(log)
    <3>1. cache' = Stored(log) /\ Answered(r, Result(r, Stored(log)))
      BY <1>2, <2>3 DEF Response
    <3>2. Stored(log) \in Seq(Entries) /\ Stored(log) # <<>> /\ IsOfIdentity(Stored(log))
      BY <2>1, <2>3, StoredIsMade DEF Usable
    <3>3. IsTrueAnswer(Result(r, Stored(log)))
      BY <1>0, <3>2, ResultIsTrue DEF Inv
    <3> QED
      BY <2>2, <3>1, <3>2, <3>3, AnsweredStep
  <2>4. CASE ~Usable(log)
    <3>1. UNCHANGED cache /\ Answered(r, Failed)
      BY <1>2, <2>4 DEF Response
    <3> QED
      BY <2>2, <3>1, AnsweredStep
  <2> QED
    BY <2>3, <2>4
<1>3. ASSUME OutboundFailure(r) PROVE Inv'
  <2>1. UNCHANGED <<written, cache>>
    BY <1>3 DEF OutboundFailure
  <2>2. CASE r.kind \in {"daemon", "direct"} /\ OthersThan(r.peer) # <<>>
    <3> DEFINE next == [r EXCEPT !.peer = Head(OthersThan(r.peer))]
               new == {next}
    <3>1. UNCHANGED answer /\ requests' \subseteq requests \cup new
      BY <1>3, <2>2 DEF OutboundFailure
    <3>2. next.kind \in Kinds /\ next = Request(next.kind, next.caller, next.path, next.peer)
      BY <1>0 DEF Request
    <3>3. \A q \in new : q.kind \in Kinds /\ q = Request(q.kind, q.caller, q.path, q.peer)
      BY <3>2, Zenon
    <3> HIDE DEF new
    <3>4. RequestsAreKnown'
      BY <3>1, <3>3, RequestStep
    <3> QED
      BY <2>1, <3>1, <3>4, SilentStep
  <2>3. CASE ~(r.kind \in {"daemon", "direct"} /\ OthersThan(r.peer) # <<>>)
    <3>1. requests' = requests \ {r} /\ Answered(r, Failed)
      BY <1>3, <2>3 DEF OutboundFailure
    <3> QED
      BY <1>1, <2>1, <3>1, AnsweredStep
  <2> QED
    BY <2>2, <2>3
<1>4. ASSUME RequestTimeout(r) PROVE Inv'
  <2>1. UNCHANGED <<written, cache>> /\ requests' = requests \ {r} /\ Answered(r, Failed)
    BY <1>4 DEF RequestTimeout
  <2> QED
    BY <1>1, <2>1, AnsweredStep
<1> QED
  BY <1>2, <1>3, <1>4 DEF ProviderEnds

LEMMA NextInv ==
    ASSUME Inv, [Next]_vars
    PROVE  Inv'
<1> USE PlainAnswers
<1>1. ASSUME UNCHANGED requests PROVE RequestsAreKnown'
  BY <1>1 DEF Inv, RequestsAreKnown
<1>2. CASE UNCHANGED vars
  <2>1. UNCHANGED <<written, cache, requests, answer>>
    BY <1>2 DEF vars
  <2> QED
    BY <1>1, <2>1, SilentStep
<1>3. CASE QueryEnds \/ RefreshIntervalEnds
  <2>1. UNCHANGED <<written, cache, requests, answer>>
    BY <1>3 DEF QueryEnds, RefreshIntervalEnds
  <2> QED
    BY <1>1, <2>1, SilentStep
<1>4. ASSUME NEW p \in parked, ParkedTimeout(p) PROVE Inv'
  <2>1. UNCHANGED <<written, cache, requests>>
        /\ answer' = [answer EXCEPT ![p.caller] = Failed]
    BY <1>4 DEF ParkedTimeout, Told
  <2> QED
    BY <1>1, <2>1, TellStep, Zenon
<1>5. ASSUME NEW c \in Copies, Write(c) PROVE Inv'
  BY <1>5, WriteInv
<1>6. ASSUME NEW c \in Callers, Asks(c) PROVE Inv'
  BY <1>6, AsksInv
<1>7. ASSUME NEW p \in Peers, FoundProvider(p) \/ RelayNamed(p) PROVE Inv'
  BY <1>7, ProviderInv
<1>8. ASSUME NEW r \in requests, ProviderEnds(r) \/ RequestTimeout(r) PROVE Inv'
  BY <1>8, RequestInv
<1> QED
  BY <1>2, <1>3, <1>4, <1>5, <1>6, <1>7, <1>8 DEF Next

(***************************************************************************)
(* The theorems                                                            *)
(***************************************************************************)
\* The cached log is always the beginning of a log that one installation of
\* the identity wrote, however long the logs are and whatever entries of whom
\* the peers put together: verify_update_log_for_identity accepts nothing else.
THEOREM CacheAlwaysWritten == Spec => []CacheWasWritten
<1>1. Init => Inv
  BY InitInv
<1>2. Inv /\ [Next]_vars => Inv'
  BY NextInv
<1>3. Inv => CacheWasWritten
  BY InvImplies
<1> QED
  BY <1>1, <1>2, <1>3, PTL DEF Spec

\* A caller is told a content only if an installation's log bound the path to
\* it at the sequence the answer names, for logs of any length: what the replay
\* of resolve_latest_record leaves at a path is what the last entry about it set.
THEOREM AnswersAlwaysBound == Spec => []AnswersWereBound
<1>1. Init => Inv
  BY InitInv
<1>2. Inv /\ [Next]_vars => Inv'
  BY NextInv
<1>3. Inv => AnswersWereBound
  BY InvImplies
<1> QED
  BY <1>1, <1>2, <1>3, PTL DEF Spec
=============================================================================
