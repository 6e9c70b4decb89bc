----------------------- MODULE RemotePersistenceProofs -----------------------
(***************************************************************************)
(* Proofs about RemotePersistence, for every set of identities and all     *)
(* limits: the queue never hands the worker an identity without a          *)
(* snapshot, the index is backed by files, the newest state of an identity *)
(* is always on its way to the disk, and what the worker saves never gets  *)
(* older.                                                                  *)
(***************************************************************************)
EXTENDS RemotePersistence, FiniteSetTheorems, TLAPS

\* What the worker holds: a snapshot while it saves, nothing otherwise.
WorkerShape ==
  /\ worker.pc = "saving" => worker.identity \in Identities /\ worker.version # 0
  /\ worker.pc # "saving" => worker.identity = NoIdentity

\* The main loop only enqueues while the worker accepts, and the node only
\* stops once the worker left its loop with nothing queued.
Lifecycle ==
  /\ node = "running" => accepting
  /\ node = "stopped" => worker.pc = "exited"
  /\ node = "crashed" => worker.pc = "waiting"
  /\ worker.pc = "exited" => order = <<>> /\ ~accepting

\* A saved state is no newer than the cached one and the one being saved.
DiskIsBehind ==
  \A i \in Identities \ DirectStores : node # "crashed" =>
    /\ worker.identity = i => worker.version <= cache[i]
    /\ i \notin unread => files[i] <= cache[i]
    /\ i \notin unread /\ worker.identity = i => files[i] <= worker.version

\* Both properties of one identity.
OnItsWay(i) ==
  /\ pending[i] # 0 => pending[i] = cache[i]
  /\ pending[i] = 0 /\ worker.identity = i => worker.version = cache[i]
  /\ pending[i] = 0 /\ worker.identity # i /\ i \notin failed \cup unread
       => files[i] = cache[i]
  /\ worker.identity = i => worker.version <= cache[i]
  /\ i \notin unread => files[i] <= cache[i]
  /\ i \notin unread /\ worker.identity = i => files[i] <= worker.version

\* The inductive invariant.
Inv ==
  /\ TypeOK
  /\ QueueMatchesPending
  /\ IndexIsBacked
  /\ WorkerShape
  /\ Lifecycle
  /\ NewestIsOnItsWay
  /\ DiskIsBehind

\* What any save leaves of the other identities' files, whether it succeeds
\* or not: they are untouched or evicted, and eviction is recorded.
KeepsOthers(i) ==
  \A j \in Identities \ {i} :
    /\ files'[j] = files[j] \/ (files'[j] = 0 /\ j \in failed')
    /\ j \in failed => j \in failed'
    /\ j \in unread /\ j \notin unread' => j \in failed' /\ files'[j] = 0
    /\ j \in unread' => j \in unread

\* The part of TypeOK about the directory.
DiskTypeOK ==
  /\ files \in [Identities -> Versions]
  /\ older \subseteq Identities \X Identities
  /\ indexed \subseteq Identities
  /\ totalSize \in Nat
  /\ failed \subseteq Identities
  /\ unread \subseteq Identities

\* Evicting a set of indexed entries is accounted for exactly.
LEMMA EvictionIsAccounted ==
  ASSUME DiskTypeOK, IndexIsBacked, NEW i \in Identities, NEW gone \in SUBSET Others(i)
  PROVE  /\ OthersSize(i) \in Nat
         /\ Cardinality(gone) \in Nat
         /\ Cardinality(Others(i) \ gone) \in Nat
         /\ Cardinality(Others(i) \ gone) + Cardinality(gone) <= OthersSize(i)
         /\ IsFiniteSet(Others(i) \ gone)
<1>1. IsFiniteSet(indexed)
  BY FS_Subset, PersistenceAssumption DEF DiskTypeOK
<1>2. /\ IsFiniteSet(Others(i))
      /\ Cardinality(Others(i)) = IF i \in indexed THEN Cardinality(indexed) - 1 ELSE Cardinality(indexed)
  BY <1>1, FS_RemoveElement DEF Others
<1>3. IsFiniteSet(gone) /\ gone \subseteq Others(i)
  BY <1>2, FS_Subset
<1>4. /\ IsFiniteSet(Others(i) \ gone)
      /\ Cardinality(Others(i) \ gone) = Cardinality(Others(i)) - Cardinality(Others(i) \cap gone)
  BY <1>2, FS_Difference
<1>5. Others(i) \cap gone = gone
  BY <1>3
<1>6. /\ Cardinality(indexed) \in Nat /\ Cardinality(Others(i)) \in Nat
      /\ Cardinality(gone) \in Nat /\ Cardinality(Others(i) \ gone) \in Nat
  BY <1>1, <1>2, <1>3, <1>4, FS_CardinalityType
<1>7. Cardinality(Others(i)) <= OthersSize(i) /\ OthersSize(i) \in Nat
  <2>1. totalSize \in Nat /\ Cardinality(indexed) <= totalSize
    BY DEF DiskTypeOK, IndexIsBacked
  <2>2. CASE i \in indexed
    BY <2>1, <2>2, <1>2, <1>6 DEF OthersSize
  <2>3. CASE i \notin indexed
    BY <2>1, <2>3, <1>2, <1>6 DEF OthersSize
  <2> QED BY <2>2, <2>3
<1> QED BY <1>4, <1>5, <1>6, <1>7

\* A successful save of i writes v, and forgets no other identity silently.
LEMMA SaveOkLemma ==
  ASSUME DiskTypeOK, IndexIsBacked, NEW i \in Identities, NEW v \in Versions \ {0}, SaveOk(i, v)
  PROVE  /\ DiskTypeOK' /\ IndexIsBacked' /\ KeepsOthers(i)
         /\ files'[i] = v /\ i \notin failed' /\ i \notin unread'
<1>1. PICK gone \in SUBSET Others(i) :
        /\ files' = [j \in Identities |->
                       IF j = i THEN v ELSE IF j \in gone THEN 0 ELSE files[j]]
        /\ older' = Forget(gone \cup {i}) \cup ((Written \ (gone \cup {i})) \X {i})
        /\ indexed' = (Others(i) \ gone) \cup {i}
        /\ totalSize' = OthersSize(i) - Cardinality(gone) + 1
        /\ failed' = (failed \cup gone) \ {i}
        /\ unread' = unread \ (gone \cup {i})
  BY Zenon DEF SaveOk
<1>2. i \notin gone /\ gone \subseteq indexed /\ gone \subseteq Identities
  BY DEF Others, DiskTypeOK
<1>3. /\ files' \in [Identities -> Versions]
      /\ files'[i] = v
      /\ \A j \in Identities \ {i} : files'[j] = IF j \in gone THEN 0 ELSE files[j]
  BY <1>1, PersistenceAssumption DEF DiskTypeOK, Versions
<1>4. older' \subseteq Identities \X Identities
  BY <1>1 DEF Forget, Written, DiskTypeOK
<1>5. totalSize' \in Nat /\ Cardinality(indexed') <= totalSize'
  <2>1. /\ OthersSize(i) \in Nat
        /\ Cardinality(gone) \in Nat
        /\ Cardinality(Others(i) \ gone) \in Nat
        /\ Cardinality(Others(i) \ gone) + Cardinality(gone) <= OthersSize(i)
        /\ IsFiniteSet(Others(i) \ gone)
    BY EvictionIsAccounted
  <2>2. i \notin Others(i) \ gone
    BY DEF Others
  <2>3. Cardinality(indexed') = Cardinality(Others(i) \ gone) + 1
    BY <1>1, <2>1, <2>2, FS_AddElement, Zenon
  <2> QED BY <1>1, <2>1, <2>3
<1>6. indexed' \subseteq Written'
  BY <1>1, <1>2, <1>3 DEF Written, Others, IndexIsBacked
<1>7. KeepsOthers(i)
  BY <1>1, <1>3 DEF KeepsOthers
<1> QED
  BY <1>1, <1>2, <1>3, <1>4, <1>5, <1>6, <1>7 DEF DiskTypeOK, IndexIsBacked, Others

\* A failed save of i leaves its file alone and is recorded.
LEMMA FailAfterLemma ==
  ASSUME DiskTypeOK, IndexIsBacked, NEW i \in Identities,
         NEW gone \in SUBSET Others(i), NEW forgotten, gone \subseteq forgotten,
         FailAfter(i, gone, forgotten)
  PROVE  /\ DiskTypeOK' /\ IndexIsBacked' /\ KeepsOthers(i)
         /\ files'[i] = files[i] /\ i \in failed' /\ (i \in unread' <=> i \in unread)
<1>1. i \notin gone /\ gone \subseteq indexed /\ gone \subseteq Identities
  BY DEF Others, DiskTypeOK
<1>2. /\ files' \in [Identities -> Versions]
      /\ \A j \in Identities : files'[j] = IF j \in gone THEN 0 ELSE files[j]
  BY PersistenceAssumption DEF DiskTypeOK, FailAfter, Versions
<1>3. totalSize' \in Nat /\ Cardinality(indexed') <= totalSize'
  <2>1. /\ OthersSize(i) \in Nat
        /\ Cardinality(gone) \in Nat
        /\ Cardinality(Others(i) \ gone) \in Nat
        /\ Cardinality(Others(i) \ gone) + Cardinality(gone) <= OthersSize(i)
        /\ IsFiniteSet(Others(i) \ gone)
    BY EvictionIsAccounted
  <2>2. indexed' \subseteq Others(i) \ gone
    BY DEF FailAfter
  <2>3. Cardinality(indexed') <= Cardinality(Others(i) \ gone) /\ Cardinality(indexed') \in Nat
    BY <2>1, <2>2, FS_Subset, FS_CardinalityType
  <2> QED BY <2>1, <2>3 DEF FailAfter
<1>4. indexed' \subseteq Written'
  BY <1>1, <1>2 DEF Written, Others, IndexIsBacked, FailAfter
<1>5. KeepsOthers(i)
  BY <1>2 DEF KeepsOthers, FailAfter
<1>6. older' \subseteq Identities \X Identities
  BY DEF FailAfter, Forget, DiskTypeOK
<1> QED
  BY <1>1, <1>2, <1>3, <1>4, <1>5, <1>6 DEF DiskTypeOK, IndexIsBacked, FailAfter, Others

\* A save that fails after any of its steps leaves a sound directory.
LEMMA SaveFailsLemma ==
  ASSUME DiskTypeOK, IndexIsBacked, NEW i \in Identities, SaveFails(i)
  PROVE  /\ DiskTypeOK' /\ IndexIsBacked' /\ KeepsOthers(i)
         /\ files'[i] = files[i] /\ i \in failed' /\ (i \in unread' <=> i \in unread)
<1>1. CASE SaveRefused(i)
  BY <1>1 DEF SaveRefused, DiskTypeOK, IndexIsBacked, KeepsOthers, Written
<1>2. CASE SaveCannotEvict(i)
  <2>1. PICK gone \in SUBSET Others(i) : \E next \in Others(i) \ gone :
          FailAfter(i, gone, gone \cup {next})
    BY <1>2, Zenon DEF SaveCannotEvict
  <2>2. PICK next \in Others(i) \ gone : FailAfter(i, gone, gone \cup {next})
    BY <2>1
  <2> QED BY <2>2, FailAfterLemma
<1>3. CASE SaveFindsNoRoom(i)
  BY <1>3, FailAfterLemma DEF SaveFindsNoRoom
<1>4. CASE SaveCannotRename(i)
  <2>1. PICK gone \in SUBSET Others(i) : FailAfter(i, gone, gone)
    BY <1>4 DEF SaveCannotRename
  <2> QED BY <2>1, FailAfterLemma
<1> QED BY <1>1, <1>2, <1>3, <1>4 DEF SaveFails

\* A first start satisfies the invariant.
LEMMA InitInv == Init => Inv
<1> SUFFICES ASSUME Init PROVE Inv
  OBVIOUS
<1>1. Cardinality({}) = 0
  BY FS_EmptySet
<1> QED
  BY <1>1, PersistenceAssumption
  DEF Init, Inv, TypeOK, QueueMatchesPending, IndexIsBacked, WorkerShape, Lifecycle,
      NewestIsOnItsWay, DiskIsBehind, NoVersions, Versions, Idle, Written

\* What a save does to the invariant's parts about the other identities: the
\* saved identity i is dealt with where the save is taken.
LEMMA KeepsOthersLemma ==
  ASSUME Inv, NEW i \in Identities, KeepsOthers(i), node # "crashed", node' = node,
         NEW j \in Identities \ {i}, j \notin DirectStores, cache'[j] = cache[j],
         pending' = pending, worker.identity # j, worker'.identity # j
  PROVE  /\ pending'[j] # 0 => pending'[j] = cache'[j]
         /\ pending'[j] = 0 /\ j \notin failed' \cup unread' => files'[j] = cache'[j]
         /\ j \notin unread' => files'[j] <= cache'[j]
<1>1. /\ cache[j] \in Nat /\ files[j] \in Nat
      /\ pending[j] # 0 => pending[j] = cache[j]
      /\ pending[j] = 0 /\ j \notin failed \cup unread => files[j] = cache[j]
      /\ j \notin unread => files[j] <= cache[j]
  BY DEF Inv, TypeOK, NewestIsOnItsWay, DiskIsBehind, Versions
<1> QED BY <1>1 DEF KeepsOthers

\* Every step keeps the invariant.
LEMMA NextInv == Inv /\ [Next]_vars => Inv'
<1> SUFFICES ASSUME Inv, [Next]_vars PROVE Inv'
  OBVIOUS
<1> USE PersistenceAssumption
<1>0. DiskTypeOK
  BY DEF Inv, TypeOK, DiskTypeOK
<1>1. ASSUME NEW i \in Identities, CompleteSync(i) PROVE Inv'
  <2>1. cache[i] + 1 \in Versions \ {0} /\ accepting /\ worker.pc # "exited"
    BY <1>1 DEF CompleteSync, Inv, TypeOK, Versions, Lifecycle
  <2>1a. /\ pending' = [pending EXCEPT ![i] = cache[i] + 1]
        /\ order' = IF pending[i] = 0 THEN Append(order, i) ELSE order
    BY <1>1, <2>1 DEF CompleteSync, enqueue
  <2>2. TypeOK'
    BY <1>1, <2>1, <2>1a DEF CompleteSync, Inv, TypeOK, diskVars
  <2>3. QueueMatchesPending'
    <3>1. CASE pending[i] = 0
      <4>1. /\ Len(order) \in Nat /\ Len(order') = Len(order) + 1
            /\ order'[Len(order) + 1] = i
            /\ \A n \in 1 .. Len(order) : order'[n] = order[n]
        BY <2>1a, <3>1 DEF Inv, TypeOK
      <4>2. \A n \in 1 .. Len(order) : order[n] # i
        BY <3>1 DEF Inv, QueueMatchesPending
      <4>3. \A m, n \in 1 .. Len(order') : order'[m] = order'[n] => m = n
        <5>1. \A n \in 1 .. Len(order') : n \in 1 .. Len(order) \/ n = Len(order) + 1
          BY <4>1
        <5> QED BY <4>1, <4>2, <5>1 DEF Inv, QueueMatchesPending
      <4>4. ASSUME NEW j \in Identities
            PROVE  pending'[j] # 0 <=> \E n \in 1 .. Len(order') : order'[n] = j
        <5>1. pending'[j] = IF j = i THEN cache[i] + 1 ELSE pending[j]
          BY <2>1a DEF Inv, TypeOK
        <5>2. (\E n \in 1 .. Len(order') : order'[n] = j)
                <=> (j = i \/ \E n \in 1 .. Len(order) : order[n] = j)
          BY <4>1
        <5> QED BY <2>1, <5>1, <5>2 DEF Inv, QueueMatchesPending
      <4> QED BY <4>3, <4>4 DEF QueueMatchesPending
    <3>2. CASE pending[i] # 0
      BY <2>1, <2>1a, <3>2 DEF Inv, TypeOK, QueueMatchesPending
    <3> QED BY <3>1, <3>2
  <2>4. NewestIsOnItsWay' /\ DiskIsBehind'
    BY <1>1, <2>1, <2>1a
    DEF CompleteSync, Inv, TypeOK, NewestIsOnItsWay, DiskIsBehind, diskVars, Versions
  <2> QED
    BY <1>1, <2>1, <2>2, <2>3, <2>4
    DEF CompleteSync, Inv, IndexIsBacked, Written, WorkerShape, Lifecycle, diskVars
<1>2. ASSUME NEW i \in Identities, StoreDirectly(i) PROVE Inv'
  <2>1. cache[i] + 1 \in Versions \ {0} /\ node # "crashed" /\ i \in DirectStores
    BY <1>2 DEF StoreDirectly, Inv, TypeOK, Versions
  <2>2. DiskTypeOK' /\ IndexIsBacked' /\ KeepsOthers(i)
    BY <1>0, <1>2, <2>1, SaveOkLemma, SaveFailsLemma DEF StoreDirectly, Inv
  <2>3. /\ cache' \in [Identities -> Versions]
        /\ \A j \in Identities \ {i} : cache'[j] = cache[j]
    BY <1>2, <2>1 DEF StoreDirectly, Inv, TypeOK
  <2>4. TypeOK'
    BY <1>2, <2>2, <2>3 DEF StoreDirectly, Inv, TypeOK, DiskTypeOK, queueVars
  <2>5. NewestIsOnItsWay' /\ DiskIsBehind'
    <3> SUFFICES ASSUME NEW j \in Identities, j \notin DirectStores, node' # "crashed"
                 PROVE  OnItsWay(j)'
      BY DEF NewestIsOnItsWay, DiskIsBehind, OnItsWay
    <3>1. j # i /\ cache'[j] = cache[j]
      BY <2>1, <2>3
    <3>2. /\ files'[j] = files[j] \/ (files'[j] = 0 /\ j \in failed')
          /\ j \in failed => j \in failed'
          /\ j \in unread /\ j \notin unread' => j \in failed' /\ files'[j] = 0
          /\ j \in unread' => j \in unread
      BY <2>2, <3>1 DEF KeepsOthers
    <3>3. cache[j] \in Nat /\ files[j] \in Nat /\ worker.version \in Nat
      BY DEF Inv, TypeOK, Versions
    <3>4. OnItsWay(j)
      BY <2>1 DEF Inv, NewestIsOnItsWay, DiskIsBehind, OnItsWay
    <3>5. pending' = pending /\ worker' = worker
      BY <1>2 DEF StoreDirectly, queueVars
    <3> QED BY <3>1, <3>2, <3>3, <3>4, <3>5 DEF OnItsWay
  <2> QED
    BY <1>2, <2>2, <2>4, <2>5
    DEF StoreDirectly, Inv, QueueMatchesPending, WorkerShape, Lifecycle, queueVars
<1>3. CASE BeginShutdown
  <2>1. TypeOK'
    BY <1>3 DEF BeginShutdown, Inv, TypeOK, diskVars
  <2>4. QueueMatchesPending'
    BY <1>3 DEF BeginShutdown, Inv, QueueMatchesPending, diskVars
  <2>5. IndexIsBacked'
    BY <1>3 DEF BeginShutdown, Inv, IndexIsBacked, Written, diskVars
  <2>2. WorkerShape' /\ Lifecycle'
    BY <1>3 DEF BeginShutdown, Inv, WorkerShape, Lifecycle, diskVars
  <2>3. NewestIsOnItsWay' /\ DiskIsBehind'
    BY <1>3 DEF BeginShutdown, Inv, NewestIsOnItsWay, DiskIsBehind, diskVars
  <2> QED
    BY <2>1, <2>2, <2>3, <2>4, <2>5 DEF Inv
<1>4. CASE FinishShutdown
  <2>1. TypeOK'
    BY <1>4 DEF FinishShutdown, Inv, TypeOK, diskVars, queueVars
  <2>4. QueueMatchesPending'
    BY <1>4 DEF FinishShutdown, Inv, QueueMatchesPending, diskVars, queueVars
  <2>5. IndexIsBacked'
    BY <1>4 DEF FinishShutdown, Inv, IndexIsBacked, Written, diskVars, queueVars
  <2>2. WorkerShape' /\ Lifecycle'
    BY <1>4 DEF FinishShutdown, Inv, WorkerShape, Lifecycle, diskVars, queueVars
  <2>3. NewestIsOnItsWay' /\ DiskIsBehind'
    BY <1>4 DEF FinishShutdown, Inv, NewestIsOnItsWay, DiskIsBehind, diskVars, queueVars
  <2> QED
    BY <2>1, <2>2, <2>3, <2>4, <2>5 DEF Inv
<1>5. CASE WorkerTake
  <2> DEFINE h == Head(order)
  <2>1. h \in Identities /\ pending[h] \in Versions \ {0} /\ h = order[1] /\ 1 \in 1 .. Len(order)
    BY <1>5 DEF WorkerTake, Inv, TypeOK, QueueMatchesPending
  <2>2. TypeOK'
    <3>1. order' \in Seq(Identities) /\ pending' \in [Identities -> Versions]
      BY <1>5, <2>1 DEF WorkerTake, Inv, TypeOK, Versions
    <3>2. worker' \in [pc : {"waiting", "saving", "exited"},
                       identity : Identities \cup {NoIdentity}, version : Versions]
      BY <1>5, <2>1 DEF WorkerTake
    <3> QED BY <1>5, <3>1, <3>2 DEF WorkerTake, Inv, TypeOK, diskVars
  <2>3. QueueMatchesPending'
    <3>1. /\ Len(order) \in Nat /\ Len(order') = Len(order) - 1
          /\ \A n \in 1 .. Len(order') : order'[n] = order[n + 1]
      BY <1>5 DEF WorkerTake, Inv, TypeOK
    <3>2. \A m, n \in 1 .. Len(order') : order'[m] = order'[n] => m = n
      <4> SUFFICES ASSUME NEW m \in 1 .. Len(order'), NEW n \in 1 .. Len(order'),
                          order'[m] = order'[n]
                   PROVE  m = n
        OBVIOUS
      <4>1. m + 1 \in 1 .. Len(order) /\ n + 1 \in 1 .. Len(order)
        BY <3>1
      <4>2. order[m + 1] = order[n + 1]
        BY <3>1
      <4>3. m + 1 = n + 1
        BY <4>1, <4>2 DEF Inv, QueueMatchesPending
      <4> QED BY <4>3
    <3>3. ASSUME NEW i \in Identities
          PROVE  pending'[i] # 0 <=> \E n \in 1 .. Len(order') : order'[n] = i
      <4>1. CASE i = h
        BY <1>5, <2>1, <3>1, <4>1 DEF WorkerTake, Inv, TypeOK, QueueMatchesPending
      <4>2. CASE i # h
        <5>1. pending'[i] = pending[i]
          BY <1>5, <2>1, <4>2 DEF WorkerTake, Inv, TypeOK
        <5>2. ASSUME NEW n \in 1 .. Len(order), order[n] = i
              PROVE  n - 1 \in 1 .. Len(order') /\ order'[n - 1] = i
          BY <2>1, <3>1, <4>2, <5>2 DEF Inv, TypeOK
        <5>3. ASSUME NEW n \in 1 .. Len(order'), order'[n] = i
              PROVE  n + 1 \in 1 .. Len(order) /\ order[n + 1] = i
          BY <3>1, <5>3
        <5> QED BY <5>1, <5>2, <5>3 DEF Inv, QueueMatchesPending
      <4> QED BY <4>1, <4>2
    <3> QED BY <3>2, <3>3 DEF QueueMatchesPending
  <2>4. NewestIsOnItsWay' /\ DiskIsBehind'
    <3> SUFFICES ASSUME NEW j \in Identities, j \notin DirectStores, node' # "crashed"
                 PROVE  OnItsWay(j)'
      BY DEF NewestIsOnItsWay, DiskIsBehind, OnItsWay
    <3>1. worker.identity = NoIdentity /\ node # "crashed"
      BY <1>5 DEF WorkerTake, Inv, WorkerShape
    <3>2. OnItsWay(j) /\ j # NoIdentity /\ cache[j] \in Nat
      BY <3>1 DEF Inv, TypeOK, NewestIsOnItsWay, DiskIsBehind, OnItsWay, Versions
    <3>3. CASE j = h
      BY <1>5, <2>1, <3>1, <3>2, <3>3 DEF WorkerTake, Inv, TypeOK, OnItsWay, diskVars
    <3>4. CASE j # h
      BY <1>5, <2>1, <3>1, <3>2, <3>4 DEF WorkerTake, Inv, TypeOK, OnItsWay, diskVars
    <3> QED BY <3>3, <3>4
  <2> QED
    BY <1>5, <2>1, <2>2, <2>3, <2>4
    DEF WorkerTake, Inv, IndexIsBacked, Written, WorkerShape, Lifecycle, diskVars
<1>6. CASE WorkerSave
  <2> DEFINE i == worker.identity
  <2>1. /\ i \in Identities /\ i # NoIdentity
        /\ worker.version \in Versions \ {0}
        /\ worker' = Idle /\ cache' = cache /\ pending' = pending /\ node' = node
    BY <1>6 DEF WorkerSave, Inv, TypeOK, WorkerShape, queueVars
  <2>2. \/ SaveOk(i, worker.version)
        \/ SaveFails(i)
    BY <1>6 DEF WorkerSave
  <2>3. DiskTypeOK' /\ IndexIsBacked' /\ KeepsOthers(i)
    BY <1>0, <2>1, <2>2, SaveOkLemma, SaveFailsLemma DEF Inv
  <2>4. \/ files'[i] = worker.version /\ i \notin failed' /\ i \notin unread'
        \/ files'[i] = files[i] /\ i \in failed' /\ (i \in unread' <=> i \in unread)
    BY <1>0, <2>1, <2>2, SaveOkLemma, SaveFailsLemma DEF Inv
  <2>5. TypeOK'
    <3>1. worker' \in [pc : {"waiting", "saving", "exited"},
                       identity : Identities \cup {NoIdentity}, version : Versions]
      BY <2>1 DEF Idle, Versions
    <3> QED BY <1>6, <2>1, <2>3, <3>1 DEF WorkerSave, Inv, TypeOK, DiskTypeOK, queueVars
  <2>6. NewestIsOnItsWay' /\ DiskIsBehind'
    <3> SUFFICES ASSUME NEW j \in Identities, j \notin DirectStores, node # "crashed"
                 PROVE  /\ pending'[j] # 0 => pending'[j] = cache'[j]
                        /\ pending'[j] = 0 /\ j \notin failed' \cup unread' => files'[j] = cache'[j]
                        /\ j \notin unread' => files'[j] <= cache'[j]
      BY <2>1, PersistenceAssumption DEF NewestIsOnItsWay, DiskIsBehind, Idle
    <3>1. CASE j = i
      <4>1. cache[i] \in Nat /\ files[i] \in Nat /\ worker.version \in Nat
        BY <2>1 DEF Inv, TypeOK, Versions
      <4>2. /\ pending[i] # 0 => pending[i] = cache[i]
            /\ pending[i] = 0 => worker.version = cache[i]
            /\ worker.version <= cache[i]
            /\ i \notin unread => files[i] <= cache[i]
        BY <2>1, <3>1 DEF Inv, NewestIsOnItsWay, DiskIsBehind
      <4> QED BY <2>1, <2>4, <3>1, <4>1, <4>2
    <3>2. CASE j # i
      BY <2>1, <2>3, <3>2, KeepsOthersLemma DEF Idle
    <3> QED BY <3>1, <3>2
  <2> QED
    BY <1>6, <2>1, <2>3, <2>5, <2>6
    DEF WorkerSave, Inv, QueueMatchesPending, WorkerShape, Lifecycle, queueVars, Idle
<1>7. CASE WorkerExit
  <2>1. worker' = [pc |-> "exited", identity |-> NoIdentity, version |-> 0]
    BY <1>7 DEF WorkerExit, Idle
  <2>2. TypeOK'
    <3>1. worker' \in [pc : {"waiting", "saving", "exited"},
                       identity : Identities \cup {NoIdentity}, version : Versions]
      BY <2>1 DEF Versions
    <3> QED BY <1>7, <3>1 DEF WorkerExit, Inv, TypeOK, diskVars, queueVars
  <2>3. worker.identity = NoIdentity
    BY <1>7 DEF WorkerExit, Inv, WorkerShape
  <2>4. NewestIsOnItsWay' /\ DiskIsBehind'
    BY <1>7, <2>1, <2>3
    DEF WorkerExit, Inv, NewestIsOnItsWay, DiskIsBehind, diskVars, queueVars
  <2> QED
    BY <1>7, <2>1, <2>2, <2>4
    DEF WorkerExit, Inv, QueueMatchesPending, IndexIsBacked, Written, WorkerShape,
        Lifecycle, diskVars, queueVars
<1>8. CASE Crash
  <2>1. TypeOK'
    BY <1>8 DEF Crash, Inv, TypeOK, diskVars, Idle, NoVersions, Versions
  <2>2. QueueMatchesPending'
    BY <1>8 DEF Crash, QueueMatchesPending, NoVersions
  <2> QED
    BY <1>8, <2>1, <2>2
    DEF Crash, Inv, IndexIsBacked, Written, WorkerShape, Lifecycle, NewestIsOnItsWay,
        DiskIsBehind, diskVars, Idle
<1>9. CASE Restart
  <2>1. IsFiniteSet(Written) /\ Cardinality(Written) \in Nat
    BY FS_Subset, FS_CardinalityType DEF Written
  <2>2. cache' \in [Identities -> Versions]
    BY <1>9 DEF Restart, scan, Inv, TypeOK, Versions
  <2>3. TypeOK'
    BY <1>9, <2>1, <2>2 DEF Restart, scan, Inv, TypeOK, Idle, NoVersions, Versions, Written
  <2>4. QueueMatchesPending'
    BY <1>9 DEF Restart, scan, QueueMatchesPending, NoVersions
  <2>5. IndexIsBacked'
    BY <1>9, <2>1 DEF Restart, scan, IndexIsBacked, Written
  <2>6. NewestIsOnItsWay' /\ DiskIsBehind'
    <3> SUFFICES ASSUME NEW j \in Identities
                 PROVE  OnItsWay(j)'
      BY DEF NewestIsOnItsWay, DiskIsBehind, OnItsWay
    <3>1. files[j] \in Nat /\ (files[j] # 0 => j \in Written)
      BY DEF Inv, TypeOK, Versions, Written
    <3>2. j \notin unread' => files[j] = cache'[j]
      BY <1>9, <3>1 DEF Restart, scan
    <3>3. pending'[j] = 0 /\ worker'.identity # j /\ files'[j] = files[j] /\ cache'[j] \in Nat
      BY <1>9, <2>2 DEF Restart, scan, NoVersions, Idle, Versions
    <3> QED BY <3>1, <3>2, <3>3 DEF OnItsWay
  <2> QED
    BY <1>9, <2>3, <2>4, <2>5, <2>6 DEF Restart, scan, Inv, WorkerShape, Lifecycle, Idle
<1>10. CASE UNCHANGED vars
  BY <1>10
  DEF vars, Inv, TypeOK, QueueMatchesPending, IndexIsBacked, Written, WorkerShape,
      Lifecycle, NewestIsOnItsWay, DiskIsBehind
<1> QED
  BY <1>1, <1>2, <1>3, <1>4, <1>5, <1>6, <1>7, <1>8, <1>9, <1>10 DEF Next

\* The invariant holds in every behaviour.
LEMMA AlwaysInv == Spec => []Inv
BY InitInv, NextInv, PTL DEF Spec

\* The state keeps its shape.
THEOREM TypeCorrect == Spec => []TypeOK
<1>1. Inv => TypeOK
  BY DEF Inv
<1> QED BY <1>1, AlwaysInv, PTL

\* The worker never takes an identity without a snapshot, so its `expect`
\* does not panic.
THEOREM QueueIsConsistent == Spec => []QueueMatchesPending
<1>1. Inv => QueueMatchesPending
  BY DEF Inv
<1> QED BY <1>1, AlwaysInv, PTL

\* Every index entry has a file and is accounted for, whatever fails.
THEOREM IndexIsSound == Spec => []IndexIsBacked
<1>1. Inv => IndexIsBacked
  BY DEF Inv
<1> QED BY <1>1, AlwaysInv, PTL

\* The newest verified state of an identity is queued, being saved or saved.
THEOREM NothingAcceptedIsLost == Spec => []NewestIsOnItsWay
<1>1. Inv => NewestIsOnItsWay
  BY DEF Inv
<1> QED BY <1>1, AlwaysInv, PTL

\* A node that stopped gracefully has saved what it had verified.
THEOREM GracefulShutdownIsDurable == Spec => []ShutdownIsDurable
<1>1. Inv => ShutdownIsDurable
  <2> SUFFICES ASSUME Inv, node = "stopped",
                      NEW i \in Identities, i \notin DirectStores \cup failed \cup unread
               PROVE  files[i] = cache[i]
    BY DEF ShutdownIsDurable
  <2>1. order = <<>> /\ worker.identity # i
    BY PersistenceAssumption DEF Inv, Lifecycle, WorkerShape
  <2>2. pending[i] = 0
    BY <2>1 DEF Inv, QueueMatchesPending
  <2> QED BY <2>1, <2>2 DEF Inv, NewestIsOnItsWay
<1> QED BY <1>1, AlwaysInv, PTL

\* The worker never replaces a saved state by an older one.
THEOREM WorkerKeepsOrder == Spec => DiskNeverRegresses
<1> DEFINE Safe == \A i \in Identities \ (DirectStores \cup unread) : ~Regresses(i)
<1>1. Inv /\ [Next]_vars => [Safe]_vars
  <2> SUFFICES ASSUME Inv, Next, NEW j \in Identities, j \notin DirectStores \cup unread
               PROVE  ~Regresses(j)
    BY DEF vars
  <2>0. files[j] \in Nat /\ DiskTypeOK
    BY DEF Inv, TypeOK, DiskTypeOK, Versions
  <2>1. CASE \E i \in Identities : StoreDirectly(i)
    <3>1. PICK i \in DirectStores : StoreDirectly(i) /\ i \in Identities
      BY <2>1 DEF StoreDirectly
    <3>2. cache[i] + 1 \in Versions \ {0}
      BY <3>1, PersistenceAssumption DEF StoreDirectly, Inv, TypeOK, Versions
    <3>3. KeepsOthers(i)
      BY <2>0, <3>1, <3>2, SaveOkLemma, SaveFailsLemma DEF StoreDirectly, Inv
    <3> QED BY <2>0, <3>1, <3>3 DEF KeepsOthers, Regresses
  <2>2. CASE WorkerSave
    <3>1. worker.identity \in Identities /\ worker.version \in Versions \ {0}
      BY <2>2 DEF WorkerSave, Inv, TypeOK, WorkerShape
    <3>2. /\ KeepsOthers(worker.identity)
          /\ files'[worker.identity] \in {files[worker.identity], worker.version}
      BY <2>0, <2>2, <3>1, SaveOkLemma, SaveFailsLemma DEF WorkerSave, Inv
    <3>3. CASE j = worker.identity
      <4>1. files[j] <= worker.version
        BY <2>2, <3>3 DEF WorkerSave, Inv, DiskIsBehind, Lifecycle
      <4> QED BY <2>0, <3>1, <3>2, <3>3, <4>1 DEF Regresses, Versions
    <3>4. CASE j # worker.identity
      BY <2>0, <3>2, <3>4 DEF KeepsOthers, Regresses
    <3> QED BY <3>3, <3>4
  <2>3. CASE files' = files
    BY <2>0, <2>3 DEF Regresses
  <2> QED
    BY <2>1, <2>2, <2>3
    DEF Next, CompleteSync, BeginShutdown, FinishShutdown, WorkerTake, WorkerExit, Crash,
        Restart, scan, diskVars
<1>2. Spec => [][Safe]_vars
  BY <1>1, AlwaysInv, PTL DEF Spec
<1> QED BY <1>2 DEF DiskNeverRegresses
=============================================================================
