--------------------------- MODULE IngressProofs ---------------------------
(***************************************************************************)
(* Proofs about the recipient's ingress queue, its file and its            *)
(* reachability record: for any envelopes, arrivals, decisions, restarts   *)
(* and failed writes, and for any lifetime of the record.                  *)
(***************************************************************************)
EXTENDS Ingress, FiniteSetTheorems, WellFoundedInduction, TLAPS

\* A set of numbers that is not empty has a least one.
LEMMA Least ==
    ASSUME NEW T \in SUBSET Nat, T # {}
    PROVE  \E x \in T : \A y \in T : x <= y
<1> DEFINE R == OpToRel(<, Nat)
<1>1. IsWellFoundedOn(R, Nat)
  BY NatLessThanWellFounded, Zenon
<1>2. \A x, y \in Nat : <<y, x>> \in R <=> y < x
  BY DEF OpToRel
<1> HIDE DEF R
<1>3. PICK x \in T : \A y \in T : ~(<<y, x>> \in R)
  BY <1>1, WFMin, Zenon
<1>4. ASSUME NEW y \in T PROVE x <= y
  <2>1. ~(y < x)
    BY <1>2, <1>3, Zenon
  <2> QED
    BY <2>1
<1> QED
  BY <1>4

(***************************************************************************)
(* The file                                                                *)
(***************************************************************************)
Precedes(q, j, i) == \/ q[j].received > q[i].received
                     \/ q[j].received = q[i].received /\ j < i

Before(q, i) == {j \in DOMAIN q : Precedes(q, j, i)}

LEMMA RankIsBefore ==
    ASSUME NEW q, NEW i
    PROVE  Rank(q, i) = 1 + Cardinality(Before(q, i))
  BY DEF Rank, Before, Precedes

LEMMA TimesAreNumbers ==
    ASSUME NEW q \in Seq(Records)
    PROVE  /\ Len(q) \in Nat /\ DOMAIN q = 1..Len(q)
           /\ \A i \in 1..Len(q) : q[i] \in Records
           /\ \A i \in 1..Len(q) : q[i].received \in Nat
<1>1. Len(q) \in Nat /\ DOMAIN q = 1..Len(q) /\ \A i \in 1..Len(q) : q[i] \in Records
  OBVIOUS
<1>2. \A r \in Records : r.received \in Nat
  BY DEF Records
<1> QED
  BY <1>1, <1>2

LEMMA RankInRange ==
    ASSUME NEW q \in Seq(Records), NEW i \in 1..Len(q)
    PROVE  /\ IsFiniteSet(Before(q, i)) /\ Cardinality(Before(q, i)) \in Nat
           /\ Rank(q, i) \in 1..Len(q)
<1> DEFINE n == Len(q)
           others == (1..n) \ {i}
<1>1. n \in Nat /\ DOMAIN q = 1..n /\ q[i].received \in Nat
  BY TimesAreNumbers
<1>2. IsFiniteSet(1..n) /\ Cardinality(1..n) = n
  <2>1. 1 \in Int /\ n \in Int /\ ~(1 > n)
    BY <1>1
  <2>2. Cardinality(1..n) = n - 1 + 1
    BY <2>1, FS_Interval
  <2> QED
    BY <1>1, <2>1, <2>2, FS_Interval
<1>3. IsFiniteSet(others) /\ Cardinality(others) = n - 1
  BY <1>1, <1>2, FS_RemoveElement, ZenonT(40)
<1>4. Before(q, i) \subseteq others
  BY <1>1 DEF Before, Precedes
<1>5. IsFiniteSet(Before(q, i)) /\ Cardinality(Before(q, i)) <= n - 1
  <2> HIDE DEF others
  <2> QED
    BY <1>3, <1>4, FS_Subset
<1>6. Cardinality(Before(q, i)) \in Nat
  BY <1>5, FS_CardinalityType
<1> QED
  BY <1>1, <1>5, <1>6, RankIsBefore

\* The sort is by a total order, so no two records have the same place.
LEMMA RankGrows ==
    ASSUME NEW q \in Seq(Records), NEW i \in 1..Len(q), NEW k \in 1..Len(q), Precedes(q, k, i)
    PROVE  Rank(q, k) < Rank(q, i)
<1>1. /\ DOMAIN q = 1..Len(q) /\ Len(q) \in Nat
      /\ \A j \in 1..Len(q) : q[j].received \in Nat
  BY TimesAreNumbers
<1>2. Before(q, k) \subseteq Before(q, i)
  BY <1>1 DEF Before, Precedes
<1>3. k \in Before(q, i) /\ k \notin Before(q, k)
  BY <1>1 DEF Before, Precedes
<1> DEFINE a == Before(q, k)
           b == Before(q, i)
<1>4. IsFiniteSet(a) /\ IsFiniteSet(b) /\ Cardinality(a) \in Nat /\ Cardinality(b) \in Nat
  BY RankInRange
<1> HIDE DEF a, b
<1>5. Cardinality(a) <= Cardinality(b) /\ (Cardinality(b) = Cardinality(a) => b = a)
  BY <1>2, <1>4, FS_Subset DEF a, b
<1>6. a # b
  BY <1>3 DEF a, b
<1>7. Cardinality(a) < Cardinality(b)
  BY <1>4, <1>5, <1>6
<1>8. Rank(q, k) = 1 + Cardinality(a) /\ Rank(q, i) = 1 + Cardinality(b)
  BY RankIsBefore DEF a, b
<1> QED
  BY <1>4, <1>7, <1>8

LEMMA RankIsInjective ==
    ASSUME NEW q \in Seq(Records), NEW i \in 1..Len(q), NEW k \in 1..Len(q),
           Rank(q, i) = Rank(q, k)
    PROVE  i = k
<1> SUFFICES ASSUME i # k PROVE FALSE
  OBVIOUS
<1>1. q[i].received \in Nat /\ q[k].received \in Nat
  BY TimesAreNumbers
<1>2. Precedes(q, i, k) \/ Precedes(q, k, i)
  BY <1>1 DEF Precedes
<1>3. Rank(q, i) \in 1..Len(q) /\ Rank(q, k) \in 1..Len(q)
  BY RankInRange
<1>4. ~(Rank(q, i) < Rank(q, k)) /\ ~(Rank(q, k) < Rank(q, i))
  BY <1>3
<1> QED
  BY <1>2, <1>4, RankGrows

\* Every place is taken: the records have as many places as there are records.
LEMMA RankIsOnto ==
    ASSUME NEW q \in Seq(Records), NEW m \in 1..Len(q)
    PROVE  \E i \in 1..Len(q) : Rank(q, i) = m
<1> DEFINE n == Len(q)
           f == [i \in 1..n |-> Rank(q, i)]
<1>1. IsFiniteSet(1..n)
  BY FS_Interval
<1>2. f \in [1..n -> 1..n]
  BY RankInRange
<1>3. \A i, k \in 1..n : f[i] = f[k] => i = k
  BY RankIsInjective
<1>4. \A i \in 1..n : f[i] = Rank(q, i)
  OBVIOUS
<1> HIDE DEF f
<1>5. f \in Injection(1..n, 1..n)
  BY <1>2, <1>3 DEF Injection, IsInjective
<1>6. f \in Surjection(1..n, 1..n)
  BY <1>1, <1>5, FS_Injection
<1> QED
  BY <1>4, <1>6 DEF Surjection

\* The file holds records, at most MaxPersisted of them.
LEMMA PersistedIsSeq ==
    ASSUME NEW q \in Seq(Records)
    PROVE  to_persisted(q) \in Seq(Records) /\ Len(to_persisted(q)) <= MaxPersisted
<1> DEFINE n == Len(q)
           k == IF n <= MaxPersisted THEN n ELSE MaxPersisted
           file == to_persisted(q)
<1>1. n \in Nat /\ DOMAIN q = 1..n /\ k \in Nat /\ k <= n /\ k <= MaxPersisted
  BY TimesAreNumbers, IngressAssumption
<1>2. {m \in DOMAIN q : m <= MaxPersisted} = 1..k
  BY <1>1, IngressAssumption
<1>3. ASSUME NEW m \in 1..k PROVE q[CHOOSE i \in DOMAIN q : Rank(q, i) = m] \in Records
  <2> DEFINE i == CHOOSE i \in DOMAIN q : Rank(q, i) = m
  <2>1. \E j \in DOMAIN q : Rank(q, j) = m
    <3>1. m \in 1..Len(q)
      BY <1>1
    <3> QED
      BY <1>1, <3>1, RankIsOnto, Zenon
  <2>2. i \in 1..n
    BY <1>1, <2>1
  <2> HIDE DEF i
  <2> QED
    BY <2>2, TimesAreNumbers DEF i
<1>4. file = [m \in 1..k |-> q[CHOOSE i \in DOMAIN q : Rank(q, i) = m]]
  BY <1>2 DEF to_persisted
<1> HIDE DEF k, file
<1>5. file \in [1..k -> Records]
  BY <1>3, <1>4
<1>6. file \in Seq(Records) /\ Len(file) = k
  BY <1>1, <1>5
<1> QED
  BY <1>1, <1>6 DEF file

NoOlder(q, i) == {j \in DOMAIN q \ {i} : q[j].received >= q[i].received}

OnFile(q, file) ==
    \A i \in DOMAIN q :
        Cardinality(NoOlder(q, i)) < MaxPersisted => \E j \in DOMAIN file : file[j] = q[i]

\* A record that fewer than MaxPersisted others are as recent as is written.
LEMMA PersistedKeepsNewest ==
    ASSUME NEW q \in Seq(Records)
    PROVE  OnFile(q, to_persisted(q))
<1> SUFFICES ASSUME NEW i \in DOMAIN q, Cardinality(NoOlder(q, i)) < MaxPersisted
             PROVE  \E j \in DOMAIN to_persisted(q) : to_persisted(q)[j] = q[i]
  BY DEF OnFile
<1> DEFINE n == Len(q)
           m == Rank(q, i)
           newer == NoOlder(q, i)
<1>1. /\ n \in Nat /\ DOMAIN q = 1..n /\ i \in 1..n
      /\ \A j \in 1..n : q[j].received \in Nat
  BY TimesAreNumbers
<1>2. IsFiniteSet(1..n)
  BY <1>1, FS_Interval
<1>3. Before(q, i) \subseteq newer
  BY <1>1 DEF Before, Precedes, NoOlder
<1>4. IsFiniteSet(newer)
  <2>1. newer \subseteq 1..n
    BY <1>1 DEF NoOlder
  <2> QED
    BY <1>2, <2>1, FS_Subset
<1>5. Cardinality(Before(q, i)) <= Cardinality(newer)
  BY <1>3, <1>4, FS_Subset
<1>6. Cardinality(newer) \in Nat
  BY <1>4, FS_CardinalityType
<1>7. Cardinality(Before(q, i)) \in Nat /\ m \in 1..n /\ m = 1 + Cardinality(Before(q, i))
  BY <1>1, RankInRange, RankIsBefore
<1> HIDE DEF m, newer
<1>8. m <= MaxPersisted
  BY <1>5, <1>6, <1>7, IngressAssumption DEF newer
<1>9. m \in DOMAIN to_persisted(q)
  BY <1>1, <1>7, <1>8 DEF to_persisted
<1>10. (CHOOSE k \in DOMAIN q : Rank(q, k) = m) = i
  <2>1. \A k \in DOMAIN q : Rank(q, k) = m => k = i
    BY <1>1, RankIsInjective DEF m
  <2>2. Rank(q, i) = m
    BY DEF m
  <2> QED
    BY <2>1, <2>2
<1>11. to_persisted(q)[m] = q[i]
  <2>1. m \in {k \in DOMAIN q : k <= MaxPersisted}
    BY <1>1, <1>7, <1>8
  <2> QED
    BY <2>1, <1>10, Zenon DEF to_persisted
<1> QED
  BY <1>9, <1>11

\* Reading the file back: nothing is added, and nothing live is dropped.
IsReading(g, file, n) ==
    g = [k \in 0..n |-> IF k = 0 THEN <<>>
                        ELSE IF Live(file[k].env) THEN Append(g[k - 1], file[k])
                        ELSE g[k - 1]]

LEMMA ReadingExists ==
    ASSUME NEW file, NEW n \in Nat
    PROVE  \E g : IsReading(g, file, n)
<1> DEFINE T == {k \in 0..n : ~\E g : IsReading(g, file, k)}
<1> SUFFICES ASSUME T # {} PROVE FALSE
  OBVIOUS
<1>1. PICK m \in T : \A y \in T : m <= y
  <2>1. T \in SUBSET Nat
    OBVIOUS
  <2> HIDE DEF T
  <2> QED
    BY <2>1, Least
<1>2. m # 0
  <2> DEFINE g == [k \in 0..0 |-> <<>>]
  <2>1. IsReading(g, file, 0)
    BY DEF IsReading
  <2> QED
    BY <2>1
<1>3. m - 1 \in 0..n /\ m - 1 \notin T
  BY <1>1, <1>2
<1>4. PICK g : IsReading(g, file, m - 1)
  BY <1>3
<1> DEFINE last == IF Live(file[m].env) THEN Append(g[m - 1], file[m]) ELSE g[m - 1]
           h == [k \in 0..m |-> IF k < m THEN g[k] ELSE last]
<1>5. ASSUME NEW k \in 0..m
      PROVE  h[k] = IF k = 0 THEN <<>>
                    ELSE IF Live(file[k].env) THEN Append(h[k - 1], file[k])
                    ELSE h[k - 1]
  <2>1. CASE k = m
    BY <1>2, <2>1
  <2>2. CASE k < m
    <3>1. k \in 0..(m - 1) /\ h[k] = g[k]
      BY <2>2
    <3>2. g[k] = IF k = 0 THEN <<>>
                 ELSE IF Live(file[k].env) THEN Append(g[k - 1], file[k])
                 ELSE g[k - 1]
      BY <1>4, <3>1, Zenon DEF IsReading
    <3>3. k # 0 => h[k - 1] = g[k - 1]
      BY <2>2
    <3> QED
      BY <3>1, <3>2, <3>3
  <2> QED
    BY <2>1, <2>2
<1>6. h = [k \in 0..m |-> h[k]]
  OBVIOUS
<1> HIDE DEF h
<1>7. IsReading(h, file, m)
  BY <1>5, <1>6, Zenon DEF IsReading
<1> QED
  BY <1>1, <1>7

LEMMA ReadingIsDefined ==
    ASSUME NEW file, Len(file) \in Nat
    PROVE  \E g : IsReading(g, file, Len(file)) /\ from_persisted(file) = g[Len(file)]
<1> DEFINE kept == CHOOSE g : IsReading(g, file, Len(file))
<1>1. IsReading(kept, file, Len(file))
  <2>1. \E g : IsReading(g, file, Len(file))
    BY ReadingExists
  <2> QED
    BY <2>1
<1>2. from_persisted(file) = kept[Len(file)]
  BY DEF from_persisted, IsReading
<1> HIDE DEF kept
<1> QED
  BY <1>1, <1>2

\* What is kept of the first n records of the file.
ReadsFirst(q, file, n) ==
    /\ q \in Seq(Records)
    /\ \A i \in DOMAIN q : \E j \in DOMAIN file : file[j] = q[i]
    /\ \A j \in 1..n : Live(file[j].env) => \E i \in DOMAIN q : q[i] = file[j]

LEMMA ReadingStep ==
    ASSUME NEW file \in Seq(Records), NEW n \in Nat, n + 1 \in DOMAIN file,
           NEW q, ReadsFirst(q, file, n)
    PROVE  ReadsFirst(IF Live(file[n + 1].env) THEN Append(q, file[n + 1]) ELSE q, file, n + 1)
<1>1. q \in Seq(Records) /\ DOMAIN q = 1..Len(q) /\ Len(q) \in Nat /\ file[n + 1] \in Records
  BY DEF ReadsFirst
<1>2. \A j \in 1..(n + 1) : j \in 1..n \/ j = n + 1
  OBVIOUS
<1>3. CASE Live(file[n + 1].env)
  <2> DEFINE r == file[n + 1]
             longer == Append(q, r)
  <2>1. /\ longer \in Seq(Records) /\ DOMAIN longer = 1..(Len(q) + 1)
        /\ longer[Len(q) + 1] = r /\ \A i \in 1..Len(q) : longer[i] = q[i]
    BY <1>1
  <2> HIDE DEF longer
  <2>2. ASSUME NEW i \in DOMAIN longer PROVE \E j \in DOMAIN file : file[j] = longer[i]
    <3>1. CASE i = Len(q) + 1
      BY <2>1, <3>1
    <3>2. CASE i # Len(q) + 1
      <4>1. i \in DOMAIN q /\ longer[i] = q[i]
        BY <1>1, <2>1, <3>2
      <4> QED
        BY <4>1 DEF ReadsFirst
    <3> QED
      BY <3>1, <3>2
  <2>3. ASSUME NEW j \in 1..(n + 1), Live(file[j].env)
        PROVE  \E i \in DOMAIN longer : longer[i] = file[j]
    <3>1. CASE j = n + 1
      <4>1. Len(q) + 1 \in DOMAIN longer
        BY <1>1, <2>1
      <4> QED
        BY <2>1, <3>1, <4>1
    <3>2. CASE j \in 1..n
      <4>1. PICK i \in DOMAIN q : q[i] = file[j]
        BY <2>3, <3>2 DEF ReadsFirst
      <4>2. i \in DOMAIN longer /\ longer[i] = file[j]
        BY <1>1, <2>1, <4>1
      <4> QED
        BY <4>2
    <3> QED
      BY <1>2, <3>1, <3>2
  <2>4. ReadsFirst(longer, file, n + 1)
    BY <2>1, <2>2, <2>3 DEF ReadsFirst
  <2> QED
    BY <1>3, <2>4 DEF longer
<1>4. CASE ~Live(file[n + 1].env)
  <2>1. ReadsFirst(q, file, n + 1)
    BY <1>2, <1>4 DEF ReadsFirst
  <2> QED
    BY <1>4, <2>1
<1> QED
  BY <1>3, <1>4

LEMMA ReadBack ==
    ASSUME NEW file \in Seq(Records)
    PROVE  ReadsFirst(from_persisted(file), file, Len(file))
<1> DEFINE n == Len(file)
<1>0. n \in Nat /\ DOMAIN file = 1..n
  OBVIOUS
<1>1. PICK g : IsReading(g, file, n) /\ from_persisted(file) = g[n]
  BY <1>0, ReadingIsDefined
<1> DEFINE T == {k \in 0..n : ~ReadsFirst(g[k], file, k)}
<1> SUFFICES ASSUME T # {} PROVE FALSE
  BY <1>0, <1>1
<1>2. PICK m \in T : \A y \in T : m <= y
  <2>1. T \in SUBSET Nat
    BY <1>0
  <2> HIDE DEF T
  <2> QED
    BY <2>1, Least
<1>3. m # 0
  <2>1. g[0] = <<>>
    BY <1>0, <1>1 DEF IsReading
  <2>2. ReadsFirst(g[0], file, 0)
    BY <2>1 DEF ReadsFirst
  <2> QED
    BY <2>2
<1> DEFINE k == m - 1
<1>4. k \in 0..n /\ k \in Nat /\ k + 1 = m /\ k + 1 \in DOMAIN file /\ ReadsFirst(g[k], file, k)
  BY <1>0, <1>2, <1>3
<1>5. g[m] = IF Live(file[m].env) THEN Append(g[k], file[m]) ELSE g[k]
  BY <1>0, <1>1, <1>3, Zenon DEF IsReading
<1> HIDE DEF k
<1>6. ReadsFirst(g[k + 1], file, k + 1)
  BY <1>4, <1>5, ReadingStep
<1> QED
  BY <1>2, <1>4, <1>6

(***************************************************************************)
(* The invariant                                                           *)
(***************************************************************************)
QueueOK ==
    /\ clock \in Nat
    /\ queue \in Seq(Records)
    /\ disk \in Seq(Records) /\ Len(disk) <= MaxPersisted
    /\ ~stale => OnFile(queue, disk)

DeliveryOK ==
    /\ DOMAIN delivery = Envelopes
    /\ \A e \in Envelopes : delivery[e] = [phase |-> delivery[e].phase, left |-> delivery[e].left]

Half == TTL \div 2

\* A record the recipient published is one that verifies until it expires.
IsPublished(r) ==
    \E now \in Nat, expires \in Nat, usable \in BOOLEAN :
        expires > now /\ r = NewRecord(now, expires, usable)

\* While nothing has come between, the next check is at hand and the record is
\* good beyond it.
RecordOK ==
    /\ record = NoRecord \/ IsPublished(record)
    /\ nextCheck \in Nat
    /\ schedule # Unpublished =>
          /\ schedule \in Nat
          /\ "by_hand" \notin excuses => record.body.expires = schedule
    /\ excuses = {} /\ schedule # Unpublished =>
          nextCheck \in {clock, clock + 1} /\ schedule > nextCheck - 1 + Half
    /\ excuses = {} /\ schedule = Unpublished =>
          nextCheck = clock /\ (record = NoRecord \/ record.body.expires > clock)

Inv == QueueOK /\ DeliveryOK /\ RecordOK

LEMMA HalfIsLess ==
    Half \in Nat /\ Half >= 1 /\ Half < TTL
  BY ReachabilityAssumption DEF Half

LEMMA InitInv ==
    ASSUME Init
    PROVE  Inv
<1>1. QueueOK
  <2>1. queue = <<>> /\ disk = <<>> /\ clock = 0
    BY DEF Init
  <2>2. OnFile(queue, disk)
    BY <2>1 DEF OnFile
  <2>3. Len(disk) = 0 /\ 0 <= MaxPersisted
    BY <2>1, IngressAssumption
  <2> QED
    BY <2>1, <2>2, <2>3 DEF QueueOK
<1>2. DeliveryOK
  BY DEF Init, DeliveryOK
<1>3. RecordOK
  <2>1. clock = 0 /\ excuses = {}
    BY DEF Init
  <2>2. CASE record = NewRecord(0, TTL, TRUE) /\ schedule = TTL /\ nextCheck = 1
    <3>1. 0 \in Nat /\ TTL \in Nat /\ TRUE \in BOOLEAN /\ TTL > 0 /\ TTL # Unpublished
      BY ReachabilityAssumption
    <3>2. record.body.expires = TTL
      BY <2>2 DEF NewRecord
    <3>3. 1 \in {clock, clock + 1} /\ TTL > 1 - 1 + Half
      BY <2>1, HalfIsLess, ReachabilityAssumption
    <3> QED
      BY <2>1, <2>2, <3>1, <3>2, <3>3, Zenon DEF RecordOK, IsPublished
  <2>3. CASE record = NoRecord /\ schedule = Unpublished /\ nextCheck = 0
    BY <2>1, <2>3 DEF RecordOK
  <2> QED
    BY <2>2, <2>3, Zenon DEF Init
<1> QED
  BY <1>1, <1>2, <1>3 DEF Inv

(***************************************************************************)
(* The steps                                                               *)
(***************************************************************************)
LEMMA SavedOK ==
    ASSUME QueueOK, clock' \in Nat, queue' \in Seq(Records), persist_ingress_queue
    PROVE  QueueOK'
<1>1. CASE disk' = to_persisted(queue') /\ stale' = FALSE
  <2>1. to_persisted(queue') \in Seq(Records) /\ Len(to_persisted(queue')) <= MaxPersisted
    BY PersistedIsSeq
  <2>2. OnFile(queue', to_persisted(queue'))
    BY PersistedKeepsNewest
  <2> QED
    BY <1>1, <2>1, <2>2 DEF QueueOK
<1>2. CASE UNCHANGED disk /\ stale' = TRUE
  BY <1>2 DEF QueueOK
<1> QED
  BY <1>1, <1>2, Zenon DEF persist_ingress_queue

LEMMA SubmitOK ==
    ASSUME QueueOK, NEW e \in Envelopes, submit_ingress(e), UNCHANGED clock
    PROVE  QueueOK'
<1>1. CASE Accepts(e)
  <2> DEFINE r == [env |-> e, status |-> "pending", received |-> clock]
  <2>1. r \in Records
    BY DEF QueueOK, Records, Statuses
  <2>2. queue' = Append(queue, r) /\ persist_ingress_queue
    BY <1>1 DEF submit_ingress
  <2> HIDE DEF r
  <2>3. queue' \in Seq(Records)
    BY <2>1, <2>2 DEF QueueOK
  <2>4. clock' \in Nat
    BY DEF QueueOK
  <2> QED
    BY <2>2, <2>3, <2>4, SavedOK
<1>2. CASE ~Accepts(e)
  <2>1. UNCHANGED <<queue, disk, stale>>
    BY <1>2 DEF submit_ingress
  <2> QED
    BY <2>1 DEF QueueOK
<1> QED
  BY <1>1, <1>2

LEMMA DecideOK ==
    ASSUME QueueOK, NEW e \in Envelopes, NEW status \in Decisions, decide(e, status),
           UNCHANGED clock
    PROVE  QueueOK'
<1>1. PICK i \in Copies(queue, e) : /\ queue' = [queue EXCEPT ![i].status = status]
                                    /\ persist_ingress_queue
  BY Zenon DEF decide
<1>2. queue \in Seq(Records) /\ clock' \in Nat
  BY DEF QueueOK
<1>3. i \in 1..Len(queue) /\ queue[i] \in Records
  BY <1>2, TimesAreNumbers DEF Copies
<1> DEFINE r == [queue[i] EXCEPT !.status = status]
<1>4. r \in Records
  BY <1>3 DEF Records, Statuses, Decisions
<1>5. queue' = [queue EXCEPT ![i] = r]
  BY <1>1
<1> HIDE DEF r
<1>6. queue' \in Seq(Records)
  BY <1>2, <1>3, <1>4, <1>5
<1> QED
  BY <1>1, <1>2, <1>6, SavedOK

LEMMA RestartOK ==
    ASSUME QueueOK, Restart
    PROVE  QueueOK'
<1>1. queue' = from_persisted(disk) /\ UNCHANGED <<clock, disk>> /\ disk \in Seq(Records)
  BY DEF Restart, QueueOK
<1>2. ReadsFirst(from_persisted(disk), disk, Len(disk))
  BY <1>1, ReadBack
<1>3. queue' \in Seq(Records) /\ \A i \in DOMAIN queue' : \E j \in DOMAIN disk : disk[j] = queue'[i]
  BY <1>1, <1>2 DEF ReadsFirst
<1>4. OnFile(queue', disk')
  BY <1>1, <1>3 DEF OnFile
<1> QED
  BY <1>1, <1>3, <1>4 DEF QueueOK

\* The clock and the sender's side leave the queue and its file alone.
LEMMA QueueStaysOK ==
    ASSUME QueueOK, UNCHANGED <<queue, disk, stale>>, clock' \in Nat
    PROVE  QueueOK'
  BY DEF QueueOK

LEMMA MovesOK ==
    ASSUME DeliveryOK, NEW e \in Envelopes, NEW phase, Moves(e, phase)
    PROVE  DeliveryOK' /\ delivery'[e].phase = phase
           /\ \A d \in Envelopes : d # e => delivery'[d] = delivery[d]
<1>1. DOMAIN delivery = Envelopes
      /\ delivery[e] = [phase |-> delivery[e].phase, left |-> delivery[e].left]
  BY DEF DeliveryOK
<1> DEFINE r == [delivery[e] EXCEPT !.phase = phase]
<1>2. r.phase = phase /\ r = [phase |-> r.phase, left |-> r.left]
  BY <1>1
<1>3. delivery' = [delivery EXCEPT ![e] = r]
  BY DEF Moves
<1> HIDE DEF r
<1>4. DOMAIN delivery' = Envelopes /\ delivery'[e] = r
      /\ \A d \in Envelopes : d # e => delivery'[d] = delivery[d]
  BY <1>1, <1>3
<1>5. \A d \in Envelopes : delivery'[d] = [phase |-> delivery'[d].phase, left |-> delivery'[d].left]
  BY <1>2, <1>4 DEF DeliveryOK
<1> QED
  BY <1>2, <1>4, <1>5 DEF DeliveryOK

(***************************************************************************)
(* The recipient's record                                                  *)
(***************************************************************************)
LEMMA PublishedOK ==
    ASSUME NEW expires \in Nat, NEW usable \in BOOLEAN, clock \in Nat,
           publish_reachability(expires, usable)
    PROVE  /\ IsPublished(record')
           /\ record'.body.expires = expires
<1>1. record' = NewRecord(clock, expires, usable)
      /\ validate_body(NewRecord(clock, expires, usable).body)
  BY DEF publish_reachability
<1>2. expires > clock
  BY <1>1 DEF validate_body, NewRecord
<1>3. record'.body.expires = expires
  BY <1>1 DEF NewRecord
<1> QED
  BY <1>1, <1>2, <1>3 DEF IsPublished

LEMMA RenewOK ==
    ASSUME RecordOK, clock \in Nat, Renew
    PROVE  RecordOK'
<1>0. clock' = clock /\ nextCheck' = clock + 1 /\ nextCheck' \in Nat
  BY DEF Renew
<1>1. CASE is_due(clock)
  <2> DEFINE expires == clock + TTL
  <2>1. /\ publish_reachability(expires, TRUE) /\ schedule' = expires /\ excuses' = {}
    BY <1>1, Zenon DEF Renew, expires_at_for
  <2>2. expires \in Nat /\ expires # Unpublished /\ TRUE \in BOOLEAN
    BY ReachabilityAssumption
  <2>3. expires > (clock + 1) - 1 + Half
    BY HalfIsLess, ReachabilityAssumption
  <2> HIDE DEF expires
  <2>4. /\ IsPublished(record')
        /\ record'.body.expires = expires
    BY <2>1, <2>2, PublishedOK, Zenon
  <2> QED
    BY <1>0, <2>1, <2>2, <2>3, <2>4 DEF RecordOK
<1>2. CASE ~is_due(clock)
  <2>1. UNCHANGED <<schedule, record>> /\ excuses' = excuses \ {"asleep"}
    BY <1>2 DEF Renew
  <2>2. schedule # Unpublished /\ ~(clock + Half >= schedule)
    BY <1>2 DEF is_due, Half
  <2>3. schedule \in Nat
    BY <2>2 DEF RecordOK
  <2>4. schedule > (clock + 1) - 1 + Half
    BY <2>2, <2>3, HalfIsLess
  <2>5. "by_hand" \notin excuses' => "by_hand" \notin excuses
    BY <2>1
  <2>6. schedule' # Unpublished =>
          /\ schedule' \in Nat
          /\ "by_hand" \notin excuses' => record'.body.expires = schedule'
    BY <2>1, <2>2, <2>3, <2>5 DEF RecordOK
  <2>7. record' = NoRecord \/ IsPublished(record')
    BY <2>1 DEF RecordOK
  <2> QED
    BY <1>0, <2>1, <2>2, <2>4, <2>6, <2>7 DEF RecordOK
<1> QED
  BY <1>1, <1>2

LEMMA DisturbedOK ==
    ASSUME RecordOK, clock \in Nat,
           \/ RenewFails
           \/ Sleep
           \/ \E expires \in {clock + 1, clock + TTL}, usable \in BOOLEAN :
                 PublishByHand(expires, usable)
    PROVE  RecordOK' /\ clock' \in Nat
<1>1. CASE RenewFails
  <2>1. /\ clock' = clock /\ nextCheck' = clock + 1 /\ UNCHANGED <<schedule, record>>
        /\ excuses' = excuses \cup {"failed"}
    BY <1>1 DEF RenewFails
  <2>2. excuses' # {} /\ ("by_hand" \notin excuses' => "by_hand" \notin excuses)
    BY <2>1
  <2>3. /\ record' = NoRecord \/ IsPublished(record')
        /\ nextCheck' \in Nat /\ clock' \in Nat
    <3>1. record = NoRecord \/ IsPublished(record)
      BY DEF RecordOK
    <3>2. nextCheck \in Nat
      BY DEF RecordOK
    <3>3. record' = record
      BY <2>1
    <3> QED
      BY <2>1, <3>1, <3>2, <3>3
  <2>4. schedule' # Unpublished =>
          /\ schedule' \in Nat
          /\ "by_hand" \notin excuses' => record'.body.expires = schedule'
    BY <2>1, <2>2 DEF RecordOK
  <2> QED
    BY <2>2, <2>3, <2>4, Zenon DEF RecordOK
<1>2. CASE Sleep
  <2>1. /\ clock' = clock + 2 /\ UNCHANGED <<schedule, nextCheck, record>>
        /\ excuses' = excuses \cup {"asleep"}
    BY <1>2 DEF Sleep
  <2>2. excuses' # {} /\ ("by_hand" \notin excuses' => "by_hand" \notin excuses)
    BY <2>1
  <2>3. /\ record' = NoRecord \/ IsPublished(record')
        /\ nextCheck' \in Nat /\ clock' \in Nat
    <3>1. record = NoRecord \/ IsPublished(record)
      BY DEF RecordOK
    <3>2. nextCheck \in Nat
      BY DEF RecordOK
    <3>3. record' = record
      BY <2>1
    <3> QED
      BY <2>1, <3>1, <3>2, <3>3
  <2>4. schedule' # Unpublished =>
          /\ schedule' \in Nat
          /\ "by_hand" \notin excuses' => record'.body.expires = schedule'
    BY <2>1, <2>2 DEF RecordOK
  <2> QED
    BY <2>2, <2>3, <2>4, Zenon DEF RecordOK
<1>3. ASSUME NEW expires \in {clock + 1, clock + TTL}, NEW usable \in BOOLEAN,
             PublishByHand(expires, usable)
      PROVE  RecordOK' /\ clock' \in Nat
  <2>1. /\ publish_reachability(expires, usable) /\ UNCHANGED <<clock, schedule, nextCheck>>
        /\ excuses' = excuses \cup {"by_hand"}
    BY <1>3 DEF PublishByHand
  <2>2. expires \in Nat
    BY ReachabilityAssumption
  <2>3. IsPublished(record')
    BY <2>1, <2>2, PublishedOK
  <2>4. excuses' # {} /\ "by_hand" \in excuses'
    BY <2>1
  <2> QED
    BY <2>1, <2>3, <2>4 DEF RecordOK
<1> QED
  BY <1>1, <1>2, <1>3

\* Before a check is due nobody sees the record expire: it has more than Half
\* left after a check, and the next check comes one later.
LEMMA RecordIsGood ==
    ASSUME RecordOK, clock \in Nat, excuses = {}, record # NoRecord
    PROVE  record.body.expires \in Nat /\ record.body.expires > clock
<1>0. record.body.expires \in Nat
  <2>1. PICK now \in Nat, e \in Nat, u \in BOOLEAN : record = NewRecord(now, e, u)
    BY DEF RecordOK, IsPublished
  <2>2. record.body.expires = e
    BY <2>1 DEF NewRecord
  <2> QED
    BY <2>2
<1>1. CASE schedule = Unpublished
  BY <1>0, <1>1 DEF RecordOK
<1>2. CASE schedule # Unpublished
  <2>1. /\ record.body.expires = schedule /\ schedule \in Nat /\ nextCheck \in Nat
        /\ nextCheck \in {clock, clock + 1} /\ schedule > nextCheck - 1 + Half
    BY <1>2 DEF RecordOK
  <2>2. schedule > clock
    BY <2>1, HalfIsLess
  <2> QED
    BY <1>0, <2>1, <2>2
<1> QED
  BY <1>1, <1>2

LEMMA RestartRecordOK ==
    ASSUME RecordOK, clock \in Nat, RenewalStartsOver, UNCHANGED clock
    PROVE  RecordOK'
<1>1. /\ schedule' = Unpublished /\ nextCheck' = clock /\ UNCHANGED <<record, excuses>>
  BY DEF RenewalStartsOver
<1>2. excuses = {} => record = NoRecord \/ record.body.expires > clock
  BY RecordIsGood
<1> QED
  BY <1>1, <1>2 DEF RecordOK

LEMMA PassTimeOK ==
    ASSUME RecordOK, clock \in Nat, PassTime
    PROVE  RecordOK' /\ clock' \in Nat
<1>1. nextCheck > clock /\ clock' = clock + 1
      /\ UNCHANGED <<schedule, nextCheck, record, excuses>>
  BY DEF PassTime, reachabilityVars
<1>2. excuses = {} => schedule # Unpublished /\ nextCheck = clock + 1
  BY <1>1 DEF RecordOK
<1>3. /\ nextCheck' \in Nat /\ clock' \in Nat
      /\ schedule' # Unpublished =>
           /\ schedule' \in Nat
           /\ "by_hand" \notin excuses' => record'.body.expires = schedule'
  <2>1. /\ nextCheck \in Nat
        /\ schedule # Unpublished =>
             schedule \in Nat /\ ("by_hand" \notin excuses => record.body.expires = schedule)
    BY DEF RecordOK
  <2>2. /\ schedule' = schedule /\ excuses' = excuses /\ record' = record
        /\ nextCheck' = nextCheck /\ clock' \in Nat
    BY <1>1
  <2> QED
    BY ONLY <2>1, <2>2, Zenon
<1>4. excuses' = {} => /\ schedule' # Unpublished
                       /\ nextCheck' = clock' /\ schedule' > nextCheck' - 1 + Half
  BY <1>1, <1>2 DEF RecordOK
<1>5. record' = NoRecord \/ IsPublished(record')
  <2>1. (record = NoRecord \/ IsPublished(record)) /\ record' = record
    BY <1>1 DEF RecordOK
  <2> QED
    BY <2>1
<1> QED
  BY <1>3, <1>4, <1>5, Zenon DEF RecordOK

LEMMA RecordStaysOK ==
    ASSUME RecordOK, UNCHANGED <<clock, schedule, nextCheck, record, excuses>>
    PROVE  RecordOK'
  BY DEF RecordOK

\* A resolve that sees the published record does not find it expired.
LEMMA NotExpired ==
    ASSUME RecordOK, clock \in Nat, excuses = {}, known = record
    PROVE  Attempt # "expired"
<1>1. CASE record = NoRecord
  <2>1. Resolved = NoRecord
    BY <1>1 DEF Resolved
  <2> QED
    BY <2>1 DEF Attempt
<1>2. CASE record # NoRecord
  <2>1. Resolved = record
    BY <1>2 DEF Resolved
  <2>2. PICK now \in Nat, e \in Nat, u \in BOOLEAN : e > now /\ record = NewRecord(now, e, u)
    BY <1>2, Zenon DEF RecordOK, IsPublished
  <2>3. record.body.expires > clock /\ record.body.expires \in Nat
    BY <1>2, RecordIsGood
  <2>4. ~Expired(record)
    BY <2>3 DEF Expired
  <2>5. validate_body(record.body) /\ verify(Recipient, record.body, record.signature)
    BY <2>2 DEF NewRecord, validate_body, verify
  <2>6. Verified(record)
    BY <2>4, <2>5 DEF Verified
  <2> QED
    BY <1>2, <2>1, <2>6 DEF Attempt
<1> QED
  BY <1>1, <1>2

(***************************************************************************)
(* Every step keeps the invariant                                          *)
(***************************************************************************)
LEMMA SenderInv ==
    ASSUME Inv, NEW e \in Envelopes,
           \/ send_ingress_by_identity(e)
           \/ Resolve(e)
           \/ Refresh(e)
           \/ ReceiveResponse(e)
           \/ OutboundFailure(e)
    PROVE  Inv'
<1>1. UNCHANGED <<queue, disk, stale, clock, schedule, nextCheck, record, excuses>>
  BY DEF send_ingress_by_identity, Resolve, Refresh, ReceiveResponse, OutboundFailure,
         queueVars, reachabilityVars, CatchUp
<1>2. QueueOK' /\ RecordOK'
  <2>1. QueueOK /\ RecordOK /\ clock' \in Nat
    BY <1>1 DEF Inv, QueueOK
  <2> QED
    BY <1>1, <2>1, QueueStaysOK, RecordStaysOK
<1>3. DeliveryOK
  BY DEF Inv
<1>4. \/ \E phase : Moves(e, phase)
      \/ UNCHANGED delivery
      \/ delivery' = [delivery EXCEPT ![e].left = @ - 1]
  <2>1. CASE send_ingress_by_identity(e)
    BY <2>1 DEF send_ingress_by_identity
  <2>2. CASE Resolve(e)
    BY <2>2 DEF Resolve, send_ingress_to_peer
  <2>3. CASE Refresh(e)
    BY <2>3 DEF Refresh
  <2>4. CASE ReceiveResponse(e)
    BY <2>4, Zenon DEF ReceiveResponse, Moves
  <2>5. CASE OutboundFailure(e)
    BY <2>5 DEF OutboundFailure, Moves
  <2> QED
    BY <2>1, <2>2, <2>3, <2>4, <2>5
<1>5. DeliveryOK'
  <2>1. CASE UNCHANGED delivery
    BY <1>3, <2>1 DEF DeliveryOK
  <2>2. ASSUME NEW phase, Moves(e, phase) PROVE DeliveryOK'
    BY <1>3, <2>2, MovesOK
  <2>3. CASE delivery' = [delivery EXCEPT ![e].left = @ - 1]
    BY <1>3, <2>3 DEF DeliveryOK
  <2> QED
    BY <1>4, <2>1, <2>2, <2>3
<1> QED
  BY <1>2, <1>5 DEF Inv

LEMMA NextInv ==
    ASSUME Inv, [Next]_vars
    PROVE  Inv'
<1>0. QueueOK /\ DeliveryOK /\ RecordOK /\ clock \in Nat
  BY DEF Inv, QueueOK
<1>1. ASSUME UNCHANGED delivery PROVE DeliveryOK'
  BY <1>0, <1>1 DEF DeliveryOK
<1>2. ASSUME UNCHANGED <<clock, schedule, nextCheck, record, excuses>>
      PROVE  RecordOK' /\ clock' \in Nat
  BY <1>0, <1>2, RecordStaysOK
<1>3. ASSUME UNCHANGED <<queue, disk, stale>>, clock' \in Nat PROVE QueueOK'
  BY <1>0, <1>3, QueueStaysOK
<1>4. CASE UNCHANGED vars
  <2>1. UNCHANGED <<queue, disk, stale, delivery, clock, schedule, nextCheck, record, excuses>>
    BY <1>4 DEF vars, reachabilityVars, exchangeVars, queueVars
  <2>2. RecordOK' /\ clock' \in Nat
    BY <1>2, <2>1
  <2> QED
    BY <1>1, <1>3, <2>1, <2>2 DEF Inv
<1>5. ASSUME NEW e \in Envelopes,
             \/ send_ingress_by_identity(e)
             \/ Resolve(e)
             \/ Refresh(e)
             \/ ReceiveResponse(e)
             \/ OutboundFailure(e)
      PROVE  Inv'
  BY <1>5, SenderInv, Zenon
<1>6. ASSUME NEW e \in Envelopes, SubmitLocally(e) PROVE Inv'
  <2>1. submit_ingress(e) /\ UNCHANGED <<clock, schedule, nextCheck, record, excuses, delivery>>
    BY <1>6 DEF SubmitLocally, reachabilityVars, exchangeVars
  <2> QED
    BY <1>0, <1>1, <1>2, <2>1, SubmitOK DEF Inv
<1>7. ASSUME NEW e \in Envelopes, NEW status \in Decisions, Decide(e, status) PROVE Inv'
  <2>1. decide(e, status) /\ UNCHANGED <<clock, schedule, nextCheck, record, excuses, delivery>>
    BY <1>7 DEF Decide, reachabilityVars, exchangeVars
  <2> QED
    BY <1>0, <1>1, <1>2, <2>1, DecideOK DEF Inv
<1>8. ASSUME NEW r \in Requests, ReceiveRequest(r) PROVE Inv'
  <2>1. submit_ingress(r[1]) /\ UNCHANGED <<clock, schedule, nextCheck, record, excuses, delivery>>
    BY <1>8 DEF ReceiveRequest, reachabilityVars
  <2>2. r[1] \in Envelopes
    BY DEF Requests
  <2> QED
    BY <1>0, <1>1, <1>2, <2>1, <2>2, SubmitOK DEF Inv
<1>9. CASE Restart
  <2>1. RenewalStartsOver /\ UNCHANGED <<clock, delivery>>
    BY <1>9 DEF Restart
  <2> QED
    BY <1>0, <1>1, <1>9, <2>1, RestartOK, RestartRecordOK DEF Inv
<1>10. CASE Tick
  <2>1. PassTime /\ UNCHANGED <<queue, disk, stale, delivery>>
    BY <1>10 DEF Tick, exchangeVars, queueVars
  <2> QED
    BY <1>0, <1>1, <1>3, <2>1, PassTimeOK DEF Inv
<1>11. CASE RecipientRenews
  <2>1. Renew /\ UNCHANGED <<queue, disk, stale, delivery>> /\ clock' = clock
    BY <1>11, Zenon DEF RecipientRenews, Renew, exchangeVars, queueVars
  <2> QED
    BY <1>0, <1>1, <1>3, <2>1, RenewOK DEF Inv
<1>12. CASE Disturbance
  <2>1. /\ UNCHANGED <<queue, disk, stale, delivery>>
        /\ \/ RenewFails
           \/ Sleep
           \/ \E expires \in {clock + 1, clock + TTL}, usable \in BOOLEAN :
                 PublishByHand(expires, usable)
    BY <1>12 DEF Disturbance, exchangeVars, queueVars
  <2>2. RecordOK' /\ clock' \in Nat
    BY <1>0, <2>1, DisturbedOK
  <2> QED
    BY <1>1, <1>3, <2>1, <2>2 DEF Inv
<1>13. CASE BackgroundRefresh
  <2>1. UNCHANGED <<queue, disk, stale, delivery, clock, schedule, nextCheck, record, excuses>>
    BY <1>13 DEF BackgroundRefresh, CatchUp, exchangeVars, queueVars
  <2> QED
    BY <1>1, <1>2, <1>3, <2>1 DEF Inv
<1> QED
  BY <1>4, <1>5, <1>6, <1>7, <1>8, <1>9, <1>10, <1>11, <1>12, <1>13 DEF Next

(***************************************************************************)
(* The first copy of an envelope                                           *)
(***************************************************************************)
IsFirst(q, e, i) == i \in Copies(q, e) /\ \A j \in Copies(q, e) : i <= j

LEMMA FirstIs ==
    ASSUME NEW q \in Seq(Records), NEW e, NEW i, IsFirst(q, e, i)
    PROVE  First(q, e) = q[i]
<1> DEFINE k == CHOOSE x \in Copies(q, e) : \A j \in Copies(q, e) : x <= j
<1>1. Copies(q, e) \subseteq Nat
  <2>1. DOMAIN q \subseteq Nat
    BY TimesAreNumbers
  <2> QED
    BY <2>1 DEF Copies
<1>2. k \in Copies(q, e) /\ \A j \in Copies(q, e) : k <= j
  BY DEF IsFirst
<1>3. k = i
  BY <1>1, <1>2 DEF IsFirst
<1> QED
  BY <1>3, Zenon DEF First

LEMMA FirstExists ==
    ASSUME NEW q \in Seq(Records), NEW e, Copies(q, e) # {}
    PROVE  \E i : IsFirst(q, e, i)
<1>1. Copies(q, e) \in SUBSET Nat
  <2>1. DOMAIN q \subseteq Nat
    BY TimesAreNumbers
  <2> QED
    BY <2>1 DEF Copies
<1>2. PICK i \in Copies(q, e) : \A j \in Copies(q, e) : i <= j
  BY <1>1, Least
<1> QED
  BY <1>2 DEF IsFirst

\* A decided first copy stays the first, as it is, whatever is queued or decided.
LEMMA DecisionStands ==
    ASSUME Inv, [Next]_vars, ~Restart, NEW e \in Envelopes,
           Copies(queue, e) # {}, First(queue, e).status # "pending"
    PROVE  First(queue', e) = First(queue, e)
<1>1. queue \in Seq(Records) /\ queue' \in Seq(Records)
  <2>1. Inv'
    BY NextInv
  <2> QED
    BY <2>1 DEF Inv, QueueOK
<1>2. PICK i : IsFirst(queue, e, i)
  BY <1>1, FirstExists
<1>3. First(queue, e) = queue[i] /\ queue[i].status # "pending"
  BY <1>1, <1>2, FirstIs
<1>4. i \in 1..Len(queue) /\ queue[i].env = e /\ Len(queue) \in Nat /\ DOMAIN queue = 1..Len(queue)
  BY <1>1, <1>2 DEF IsFirst, Copies
<1>5. ASSUME UNCHANGED queue PROVE First(queue', e) = First(queue, e)
  BY <1>5
<1>6. ASSUME NEW d \in Envelopes, submit_ingress(d) PROVE First(queue', e) = First(queue, e)
  <2>1. CASE UNCHANGED queue
    BY <2>1, <1>5
  <2>2. CASE Accepts(d)
    <3> DEFINE r == [env |-> d, status |-> "pending", received |-> clock]
    <3>1. queue' = Append(queue, r) /\ r \in Records
      <4>1. clock \in Nat
        BY DEF Inv, QueueOK
      <4> QED
        BY <1>6, <2>2, <4>1 DEF submit_ingress, Records, Statuses
    <3> HIDE DEF r
    <3>2. /\ DOMAIN queue' = 1..(Len(queue) + 1)
          /\ \A j \in 1..Len(queue) : queue'[j] = queue[j]
      BY <1>1, <3>1
    <3>3. i \in Copies(queue', e)
      BY <1>4, <3>2 DEF Copies
    <3>4. ASSUME NEW j \in Copies(queue', e) PROVE i <= j
      <4>1. CASE j \in 1..Len(queue)
        BY <1>2, <1>4, <3>2, <4>1 DEF Copies, IsFirst
      <4>2. CASE j \notin 1..Len(queue)
        BY <1>4, <3>2, <4>2 DEF Copies
      <4> QED
        BY <4>1, <4>2
    <3>5. IsFirst(queue', e, i)
      BY <3>3, <3>4 DEF IsFirst
    <3>6. First(queue', e) = queue'[i]
      BY <1>1, <3>5, FirstIs
    <3> QED
      BY <1>3, <1>4, <3>2, <3>6
  <2> QED
    BY <1>6, <2>1, <2>2 DEF submit_ingress
<1>7. ASSUME NEW d \in Envelopes, NEW status \in Decisions, decide(d, status)
      PROVE  First(queue', e) = First(queue, e)
  <2>1. PICK k \in Copies(queue, d) : /\ \A j \in Copies(queue, d) : k <= j
                                      /\ queue[k].status \in {"pending", status}
                                      /\ queue' = [queue EXCEPT ![k].status = status]
    BY <1>7, Zenon DEF decide
  <2>2. k \in 1..Len(queue) /\ queue[k].env = d /\ queue[k] \in Records
    BY <1>1, <1>4, TimesAreNumbers DEF Copies
  <2> DEFINE r == [queue[k] EXCEPT !.status = status]
  <2>3. r.env = d /\ (queue[k].status = status => r = queue[k])
    BY <2>2 DEF Records
  <2>4. queue' = [queue EXCEPT ![k] = r]
    BY <2>1
  <2> HIDE DEF r
  <2>5. /\ DOMAIN queue' = 1..Len(queue) /\ queue'[k] = r
        /\ \A j \in 1..Len(queue) : j # k => queue'[j] = queue[j]
    BY <1>4, <2>2, <2>4
  <2>6. \A j \in 1..Len(queue) : queue'[j].env = queue[j].env
    BY <2>2, <2>3, <2>5
  <2>7. Copies(queue', e) = Copies(queue, e)
    BY <1>4, <2>5, <2>6 DEF Copies
  <2>8. First(queue', e) = queue'[i]
    <3>1. IsFirst(queue', e, i)
      BY <1>2, <2>7 DEF IsFirst
    <3> QED
      BY <1>1, <3>1, FirstIs
  <2>9. queue'[i] = queue[i]
    <3>1. CASE k = i
      BY <1>3, <2>1, <2>3, <2>5, <3>1
    <3>2. CASE k # i
      BY <1>4, <2>5, <3>2
    <3> QED
      BY <3>1, <3>2
  <2> QED
    BY <1>3, <2>8, <2>9
<1>8. CASE \E d \in Envelopes : SubmitLocally(d)
  BY <1>6, <1>8 DEF SubmitLocally
<1>9. CASE \E r \in Requests : ReceiveRequest(r)
  <2>1. PICK r \in Requests : submit_ingress(r[1])
    BY <1>9 DEF ReceiveRequest
  <2>2. r[1] \in Envelopes
    BY DEF Requests
  <2> QED
    BY <1>6, <2>1, <2>2
<1>10. CASE \E d \in Envelopes : \E status \in Decisions : Decide(d, status)
  BY <1>7, <1>10 DEF Decide
<1>11. CASE \/ UNCHANGED vars
            \/ \E d \in Envelopes : \/ send_ingress_by_identity(d)
                                    \/ Resolve(d)
                                    \/ Refresh(d)
                                    \/ ReceiveResponse(d)
                                    \/ OutboundFailure(d)
            \/ Tick \/ RecipientRenews \/ Disturbance \/ BackgroundRefresh
  <2>1. UNCHANGED queue
    BY <1>11 DEF vars, queueVars, send_ingress_by_identity, Resolve, Refresh, ReceiveResponse,
                 OutboundFailure, Tick, RecipientRenews, Disturbance, BackgroundRefresh
  <2> QED
    BY <1>5, <2>1
<1> QED
  BY <1>8, <1>9, <1>10, <1>11 DEF Next

(***************************************************************************)
(* What a restart brings back                                              *)
(***************************************************************************)
LEMMA RestartKeeps ==
    ASSUME Inv, Restart, ~stale,
           NEW i \in DOMAIN queue, Live(queue[i].env),
           Cardinality(NoOlder(queue, i)) < MaxPersisted
    PROVE  \E j \in DOMAIN queue' : queue'[j] = queue[i]
<1>1. disk \in Seq(Records) /\ OnFile(queue, disk)
  BY DEF Inv, QueueOK
<1>2. PICK k \in DOMAIN disk : disk[k] = queue[i]
  BY <1>1 DEF OnFile
<1>3. queue' = from_persisted(disk)
  BY DEF Restart
<1>4. ReadsFirst(queue', disk, Len(disk))
  BY <1>1, <1>3, ReadBack
<1>5. k \in 1..Len(disk) /\ Live(disk[k].env)
  BY <1>1, <1>2
<1>6. \E j \in DOMAIN queue' : queue'[j] = disk[k]
  BY <1>4, <1>5 DEF ReadsFirst
<1> QED
  BY <1>2, <1>6

(***************************************************************************)
(* Who may be told that a record has expired                               *)
(***************************************************************************)
LEMMA ExpiryExplained ==
    ASSUME Inv, [Next]_vars, NEW e \in Envelopes,
           delivery[e].phase # "expired", delivery'[e].phase = "expired"
    PROVE  delivery[e].phase = "not_refreshed" \/ excuses # {} \/ known # record
<1>0. DeliveryOK /\ RecordOK /\ clock \in Nat
  BY DEF Inv, QueueOK
<1>1. delivery' # delivery
  OBVIOUS
<1>2. ASSUME NEW d \in Envelopes, NEW phase, Moves(d, phase)
      PROVE  d = e /\ phase = "expired"
  <2>1. /\ delivery'[d].phase = phase
        /\ \A x \in Envelopes : x # d => delivery'[x] = delivery[x]
    BY <1>0, <1>2, MovesOK
  <2>2. d = e
    BY <2>1
  <2> QED
    BY <2>1, <2>2
<1>3. ASSUME NEW d \in Envelopes, Resolve(d)
      PROVE  excuses # {} \/ known # record
  <2>1. Attempt # "ready"
    <3>1. SUFFICES ASSUME Attempt = "ready" PROVE FALSE
      OBVIOUS
    <3>2. Moves(d, "inflight") \/ Moves(d, "no_receiver")
      BY <1>3, <3>1 DEF Resolve, send_ingress_to_peer
    <3>3. CASE Moves(d, "inflight")
      BY <1>2, <3>3
    <3>4. CASE Moves(d, "no_receiver")
      BY <1>2, <3>4
    <3> QED
      BY <3>2, <3>3, <3>4
  <2> DEFINE p == IF Attempt = "expired" /\ delivery[d].phase = "resolving"
                  THEN "expired_once" ELSE Attempt
  <2>2. Moves(d, p)
    BY <1>3, <2>1 DEF Resolve
  <2>3. p = "expired"
    <3> HIDE DEF p
    <3> QED
      BY <1>2, <2>2
  <2>4. Attempt = "expired"
    BY <2>3
  <2> QED
    BY <1>0, <2>4, NotExpired
<1>4. ASSUME NEW d \in Envelopes,
             send_ingress_by_identity(d) \/ Refresh(d) \/ ReceiveResponse(d) \/ OutboundFailure(d)
      PROVE  FALSE
  <2>1. CASE send_ingress_by_identity(d)
    <3>1. Moves(d, "resolving")
      BY <2>1 DEF send_ingress_by_identity
    <3> QED
      BY <1>2, <3>1
  <2>2. CASE Refresh(d)
    <3>1. Moves(d, "refreshed") \/ Moves(d, "not_refreshed")
      BY <2>2 DEF Refresh
    <3>2. CASE Moves(d, "refreshed")
      BY <1>2, <3>2
    <3>3. CASE Moves(d, "not_refreshed")
      BY <1>2, <3>3
    <3> QED
      BY <3>1, <3>2, <3>3
  <2>3. CASE ReceiveResponse(d)
    <3>1. Moves(d, "queued") \/ Moves(d, "refused")
      BY <2>3 DEF ReceiveResponse, Moves
    <3>2. CASE Moves(d, "queued")
      BY <1>2, <3>2
    <3>3. CASE Moves(d, "refused")
      BY <1>2, <3>3
    <3> QED
      BY <3>1, <3>2, <3>3
  <2>4. CASE OutboundFailure(d)
    <3>1. CASE Moves(d, "undelivered")
      BY <1>2, <3>1
    <3>2. CASE delivery' = [delivery EXCEPT ![d].left = @ - 1]
      <4>1. delivery'[e].phase = delivery[e].phase
        BY <1>0, <3>2 DEF DeliveryOK
      <4> QED
        BY <4>1
    <3> QED
      BY <2>4, <3>1, <3>2 DEF OutboundFailure, Moves
  <2> QED
    BY <1>4, <2>1, <2>2, <2>3, <2>4
<1>5. \E d \in Envelopes : \/ Resolve(d)
                           \/ send_ingress_by_identity(d) \/ Refresh(d)
                           \/ ReceiveResponse(d) \/ OutboundFailure(d)
  <2>1. CASE \/ UNCHANGED vars
             \/ \E d \in Envelopes : SubmitLocally(d) \/ \E s \in Decisions : Decide(d, s)
             \/ \E r \in Requests : ReceiveRequest(r)
             \/ Restart \/ Tick \/ RecipientRenews \/ Disturbance \/ BackgroundRefresh
    <3>1. UNCHANGED delivery
      BY <2>1 DEF vars, exchangeVars, SubmitLocally, Decide, ReceiveRequest, Restart, Tick,
                  RecipientRenews, Disturbance, BackgroundRefresh
    <3> QED
      BY <1>1, <3>1
  <2> QED
    BY <2>1 DEF Next
<1> QED
  BY <1>3, <1>4, <1>5

(***************************************************************************)
(* Theorems                                                                *)
(***************************************************************************)
LEMMA AlwaysInv == Spec => []Inv
<1>1. Init => Inv
  BY InitInv
<1>2. Inv /\ [Next]_vars => Inv'
  BY NextInv
<1> QED
  BY <1>1, <1>2, PTL DEF Spec

\* While the recipient's daemon runs, the decision a person took on an envelope
\* (accept_ingress, reject_ingress) stays, for any number of envelopes and of
\* duplicate arrivals queued behind it (push and find_mut of ingress.rs).
THEOREM DecisionAlwaysStands == Spec => DecisionStandsWhileUp
<1> DEFINE A == Restart \/ \A e \in Envelopes :
                  LET was == First(queue, e) IN
                  Copies(queue, e) # {} /\ was.status # "pending" => First(queue', e) = was
<1>1. Inv /\ [Next]_vars => [A]_vars
  BY DecisionStands
<1> QED
  BY <1>1, AlwaysInv, PTL DEF Spec, DecisionStandsWhileUp

\* A restart gives back every live record that fewer than MaxPersisted others
\* are as recent as, with its status, unless the last write failed: for any cap
\* and any queue (to_persisted, from_persisted).
THEOREM RestartAlwaysKeepsTheQueue == Spec => RestartKeepsTheQueue
<1> DEFINE A == Restart /\ ~stale =>
                  \A i \in DOMAIN queue :
                    LET noOlder == {j \in DOMAIN queue \ {i} : queue[j].received >= queue[i].received} IN
                    Live(queue[i].env) /\ Cardinality(noOlder) < MaxPersisted
                      => \E j \in DOMAIN queue' : queue'[j] = queue[i]
<1>1. Inv /\ [Next]_vars => [A]_vars
  BY RestartKeeps DEF NoOlder
<1> QED
  BY <1>1, AlwaysInv, PTL DEF Spec, RestartKeepsTheQueue

\* A sender is told "expired" only when its refresh failed, the recipient's
\* schedule was disturbed, or the record has been replaced since: renewing at
\* half of any lifetime of two checks or more leaves no window (is_due,
\* resolve_with_bounded_refresh).
THEOREM ExpiryAlwaysHasAReason == Spec => ExpiryHasAReason
<1> DEFINE A == \A e \in Envelopes :
                  delivery[e].phase # "expired" /\ delivery'[e].phase = "expired"
                    => \/ delivery[e].phase = "not_refreshed"
                       \/ excuses # {}
                       \/ known # record
<1>1. Inv /\ [Next]_vars => [A]_vars
  BY ExpiryExplained
<1> QED
  BY <1>1, AlwaysInv, PTL DEF Spec, ExpiryHasAReason
=============================================================================
