-------------------------- MODULE RemotePersistence --------------------------
(***************************************************************************)
(* The persistence of verified remote identity states: the node's main     *)
(* loop, which merges verified states into its cache, the worker thread    *)
(* that saves them (resolution.rs, RemoteIdentityPersistenceWorker), and   *)
(* the bounded directory of JSON files both write to (store.rs,            *)
(* RemoteIdentityStateStore).                                              *)
(*                                                                         *)
(* A cached state is abstracted to its version: the number of merges that  *)
(* led to it.  Zero is the absence of a state.                             *)
(***************************************************************************)
EXTENDS Naturals, Sequences, FiniteSets

CONSTANTS
  Identities,     \* the remote identities this node follows
  DirectStores,   \* those also stored by a StoreDeviceWriterLogs command
  MaxVersion,     \* bound of the model: merges per identity
  MaxStates,      \* MAX_REMOTE_IDENTITY_STATES, the files the store keeps
  MaxSize,        \* the byte budget, in files (every file counts one)
  NoIdentity      \* the worker holds no snapshot

ASSUME PersistenceAssumption ==
  /\ IsFiniteSet(Identities)
  /\ DirectStores \subseteq Identities
  /\ MaxVersion \in Nat \ {0}
  /\ MaxStates \in Nat \ {0}
  /\ MaxSize \in Nat \ {0}
  /\ NoIdentity \notin Identities

VARIABLES
  cache,      \* device_writer_states, lost in a crash
  pending,    \* the snapshot queued for each identity
  order,      \* the queue of identities with a pending snapshot
  accepting,  \* FALSE once shutdown began
  node,       \* the main loop: "running", "joining", "stopped" or "crashed"
  worker,     \* the worker thread and the snapshot it holds
  files,      \* the version in <identity>.json, 0 when there is no file
  older,      \* <<i, j>>: the file of i was written before that of j
  indexed,    \* the entries of the in-memory index; its write order is older
  totalSize,  \* the size the index accounts for
  failed,     \* history: the last save failed, or the file was evicted since
  unread      \* history: the file was left out when the node last started

queueVars == <<pending, order, accepting>>
diskVars == <<files, older, indexed, totalSize, failed, unread>>
vars == <<cache, pending, order, accepting, node, worker,
          files, older, indexed, totalSize, failed, unread>>

Versions == 0 .. MaxVersion
Idle == [pc |-> "waiting", identity |-> NoIdentity, version |-> 0]
NoVersions == [i \in Identities |-> 0]
Written == {i \in Identities : files[i] # 0}

Init ==
  /\ cache = NoVersions
  /\ pending = NoVersions
  /\ order = <<>>
  /\ accepting = TRUE
  /\ node = "running"
  /\ worker = Idle
  /\ files = NoVersions
  /\ older = {}
  /\ indexed = {}
  /\ totalSize = 0
  /\ failed = {}
  /\ unread = {}

-----------------------------------------------------------------------------
(* The store.  A save runs under the index lock, so it is one step; the    *)
(* file is replaced by a rename, so a crash leaves the old or the new one. *)

\* The index, and the size it accounts for, once `save` took i out of it.
Others(i) == indexed \ {i}
OthersSize(i) == IF i \in indexed THEN totalSize - 1 ELSE totalSize

\* What can be evicted from S: the files written before all the others.
Prefixes(S) == {gone \in SUBSET S : \A j \in gone, k \in S \ gone : <<j, k>> \in older}

\* Evicting these entries makes room for one more file.
Fits(i, gone) ==
  /\ Cardinality(Others(i) \ gone) < MaxStates
  /\ OthersSize(i) - Cardinality(gone) < MaxSize

\* The loop of `save` evicts at least these entries.
EvictsAtLeast(i, gone) ==
  /\ gone \in Prefixes(Others(i))
  /\ \A larger \in Prefixes(Others(i)) : Fits(i, larger) => gone \subseteq larger

\* The pairs of older left when the files of S are gone.
Forget(S) == {p \in older : p[1] \notin S /\ p[2] \notin S}

\* The save of i fails when some files are gone and the index has forgotten
\* i and some entries.
FailAfter(i, gone, forgotten) ==
  /\ files' = [j \in Identities |-> IF j \in gone THEN 0 ELSE files[j]]
  /\ older' = Forget(gone)
  /\ indexed' = Others(i) \ forgotten
  /\ totalSize' = OthersSize(i) - Cardinality(gone)
  /\ failed' = failed \cup gone \cup {i}
  /\ unread' = unread \ gone

SaveOk(i, v) == \E gone \in SUBSET Others(i) :
  /\ EvictsAtLeast(i, gone) /\ Fits(i, gone)
  /\ files' = [j \in Identities |->
                 IF j = i THEN v ELSE IF j \in gone THEN 0 ELSE files[j]]
  /\ older' = Forget(gone \cup {i}) \cup ((Written \ (gone \cup {i})) \X {i})
  /\ indexed' = (Others(i) \ gone) \cup {i}
  /\ totalSize' = OthersSize(i) - Cardinality(gone) + 1
  /\ failed' = (failed \cup gone) \ {i}
  /\ unread' = unread \ (gone \cup {i})

\* The state is too large, or its temporary file cannot be written.
SaveRefused(i) ==
  /\ failed' = failed \cup {i}
  /\ UNCHANGED <<files, older, indexed, totalSize, unread>>

\* The file of the next entry to evict cannot be removed: the index has
\* forgotten the entry, its size is still accounted for.
SaveCannotEvict(i) == \E gone \in SUBSET Others(i) : \E next \in Others(i) \ gone :
  /\ gone \in Prefixes(Others(i))
  /\ EvictsAtLeast(i, gone \cup {next})
  /\ FailAfter(i, gone, gone \cup {next})

\* Every entry was evicted and the accounted size still leaves no room.
SaveFindsNoRoom(i) ==
  /\ ~Fits(i, Others(i))
  /\ FailAfter(i, Others(i), Others(i))

\* Faulty: the entry is put in the index before the rename.
SaveCannotRename_Indexed(i) == \E gone \in SUBSET Others(i) :
  /\ EvictsAtLeast(i, gone) /\ Fits(i, gone)
  /\ files' = [j \in Identities |-> IF j \in gone THEN 0 ELSE files[j]]
  /\ older' = Forget(gone)
  /\ indexed' = (Others(i) \ gone) \cup {i}
  /\ totalSize' = OthersSize(i) - Cardinality(gone) + 1
  /\ failed' = failed \cup gone \cup {i}
  /\ unread' = unread \ gone
\* The rename fails after the evictions: an old file of i is still there.
SaveCannotRename(i) == \E gone \in SUBSET Others(i) :
  /\ EvictsAtLeast(i, gone) /\ Fits(i, gone)
  /\ FailAfter(i, gone, gone)

SaveFails(i) ==
  SaveRefused(i) \/ SaveCannotEvict(i) \/ SaveFindsNoRoom(i) \/ SaveCannotRename(i)

-----------------------------------------------------------------------------
(* The main loop. *)

\* Faulty: coalescing keeps the snapshot that is waiting.
enqueue_KeepsFirst(i, version) ==
  IF accepting
  THEN /\ pending' = [pending EXCEPT ![i] = IF @ = 0 THEN version ELSE @]
       /\ order' = IF pending[i] = 0 THEN Append(order, i) ELSE order
  ELSE UNCHANGED <<pending, order>>
\* A snapshot still waiting is replaced; a worker that is stopping takes none.
enqueue(i, version) ==
  IF accepting
  THEN /\ pending' = [pending EXCEPT ![i] = version]
       /\ order' = IF pending[i] = 0 THEN Append(order, i) ELSE order
  ELSE UNCHANGED <<pending, order>>

\* A background verification completes and is merged: the new state is
\* queued for the worker.
CompleteSync(i) ==
  /\ node = "running"
  /\ cache[i] < MaxVersion
  /\ cache' = [cache EXCEPT ![i] = @ + 1]
  /\ enqueue(i, cache[i] + 1)
  /\ UNCHANGED <<accepting, node, worker>>
  /\ UNCHANGED diskVars

\* A StoreDeviceWriterLogs command saves the merged state itself, and caches
\* it only when that worked.
StoreDirectly(i) ==
  /\ node = "running"
  /\ i \in DirectStores
  /\ cache[i] < MaxVersion
  /\ \/ SaveOk(i, cache[i] + 1) /\ cache' = [cache EXCEPT ![i] = @ + 1]
     \/ SaveFails(i) /\ UNCHANGED cache
  /\ UNCHANGED <<node, worker>>
  /\ UNCHANGED queueVars

\* Faulty: the worker is joined without being told to stop.
BeginShutdown_StillAccepting ==
  /\ node = "running"
  /\ node' = "joining"
  /\ UNCHANGED <<cache, pending, order, accepting, worker>>
  /\ UNCHANGED diskVars
\* Shutdown stops accepting snapshots and joins the worker thread.
BeginShutdown ==
  /\ node = "running"
  /\ accepting' = FALSE
  /\ node' = "joining"
  /\ UNCHANGED <<cache, pending, order, worker>>
  /\ UNCHANGED diskVars

FinishShutdown ==
  /\ node = "joining"
  /\ worker.pc = "exited"
  /\ node' = "stopped"
  /\ UNCHANGED <<cache, worker>>
  /\ UNCHANGED queueVars
  /\ UNCHANGED diskVars

-----------------------------------------------------------------------------
(* The worker thread. *)

WorkerTake ==
  /\ worker.pc = "waiting"
  /\ order # <<>>
  /\ node # "crashed"
  /\ worker' = [pc |-> "saving", identity |-> Head(order), version |-> pending[Head(order)]]
  /\ order' = Tail(order)
  /\ pending' = [pending EXCEPT ![Head(order)] = 0]
  /\ UNCHANGED <<cache, accepting, node>>
  /\ UNCHANGED diskVars

\* The queue's lock is not held: the main loop keeps running.  An error is
\* only logged.
WorkerSave ==
  /\ worker.pc = "saving"
  /\ \/ SaveOk(worker.identity, worker.version)
     \/ SaveFails(worker.identity)
  /\ worker' = Idle
  /\ UNCHANGED <<cache, node>>
  /\ UNCHANGED queueVars

\* The worker stops when it is told to and has nothing left to save.
WorkerExit ==
  /\ worker.pc = "waiting"
  /\ order = <<>>
  /\ ~accepting
  /\ node # "crashed"
  /\ worker' = [Idle EXCEPT !.pc = "exited"]
  /\ UNCHANGED <<cache, node>>
  /\ UNCHANGED queueVars
  /\ UNCHANGED diskVars

-----------------------------------------------------------------------------
\* The process dies; what the files hold survives.
Crash ==
  /\ node \in {"running", "joining"}
  /\ node' = "crashed"
  /\ cache' = NoVersions
  /\ pending' = NoVersions
  /\ order' = <<>>
  /\ worker' = Idle
  /\ UNCHANGED accepting
  /\ UNCHANGED diskVars

\* As many of the files written last as the limits allow are loaded.
Loaded ==
  {i \in Written : LET newer == Cardinality({j \in Written : <<i, j>> \in older})
                   IN newer < MaxStates /\ newer < MaxSize}

\* The index as every file in the directory gives it.
scan ==
  /\ indexed' = Written
  /\ totalSize' = Cardinality(Written)

\* Faulty: the persisted states are not read back.
Restart_Empty ==
  /\ node \in {"crashed", "stopped"}
  /\ node' = "running"
  /\ cache' = NoVersions
  /\ pending' = NoVersions
  /\ order' = <<>>
  /\ accepting' = TRUE
  /\ worker' = Idle
  /\ scan
  /\ failed' = {}
  /\ unread' = Written \ Loaded
  /\ UNCHANGED <<files, older>>
\* The index is rebuilt from all the files, the cache from the loaded ones.
Restart ==
  /\ node \in {"crashed", "stopped"}
  /\ node' = "running"
  /\ cache' = [i \in Identities |-> IF i \in Loaded THEN files[i] ELSE 0]
  /\ pending' = NoVersions
  /\ order' = <<>>
  /\ accepting' = TRUE
  /\ worker' = Idle
  /\ scan
  /\ failed' = {}
  /\ unread' = Written \ Loaded
  /\ UNCHANGED <<files, older>>

Next ==
  \/ \E i \in Identities : CompleteSync(i)
  \/ \E i \in Identities : StoreDirectly(i)
  \/ BeginShutdown
  \/ FinishShutdown
  \/ WorkerTake
  \/ WorkerSave
  \/ WorkerExit
  \/ Crash
  \/ Restart

Spec == Init /\ [][Next]_vars

\* The worker is a thread of its own and the join returns once it exits.
FairSpec ==
  /\ Spec
  /\ WF_vars(WorkerTake)
  /\ WF_vars(WorkerSave)
  /\ WF_vars(WorkerExit)
  /\ WF_vars(FinishShutdown)

-----------------------------------------------------------------------------
\* The shape of the state.
TypeOK ==
  /\ cache \in [Identities -> Versions]
  /\ pending \in [Identities -> Versions]
  /\ order \in Seq(Identities)
  /\ accepting \in BOOLEAN
  /\ node \in {"running", "joining", "stopped", "crashed"}
  /\ worker \in [pc : {"waiting", "saving", "exited"},
                 identity : Identities \cup {NoIdentity}, version : Versions]
  /\ files \in [Identities -> Versions]
  /\ older \subseteq Identities \X Identities
  /\ indexed \subseteq Identities
  /\ totalSize \in Nat
  /\ failed \subseteq Identities
  /\ unread \subseteq Identities

\* The worker's `expect("queued persistence identity has a snapshot")` never
\* panics: the queue holds each identity with a pending snapshot exactly
\* once, however enqueueing, coalescing and taking interleave.
QueueMatchesPending ==
  /\ \A m, n \in 1 .. Len(order) : order[m] = order[n] => m = n
  /\ \A i \in Identities : pending[i] # 0 <=> \E n \in 1 .. Len(order) : order[n] = i

\* An indexed identity has a file, so evicting it can remove one, and the
\* accounted size never falls below the entries it stands for: the
\* subtractions in `save` do not saturate and the budget is not exceeded.
IndexIsBacked ==
  /\ indexed \subseteq Written
  /\ Cardinality(indexed) <= totalSize

\* Coalescing keeps the newest snapshot, and nothing accepted is lost: the
\* cached state of an identity is waiting, is being saved, or is on disk,
\* unless its save failed, it was evicted, or its file was not loaded.
NewestIsOnItsWay ==
  \A i \in Identities \ DirectStores : node # "crashed" =>
    /\ pending[i] # 0 => pending[i] = cache[i]
    /\ pending[i] = 0 /\ worker.identity = i => worker.version = cache[i]
    /\ pending[i] = 0 /\ worker.identity # i /\ i \notin failed \cup unread
         => files[i] = cache[i]

\* A graceful shutdown drains the queue before the node stops: the join in
\* `shutdown` waits for every accepted snapshot.
ShutdownIsDurable ==
  node = "stopped" =>
    \A i \in Identities \ (DirectStores \cup failed \cup unread) : files[i] = cache[i]

\* The file of an identity is replaced by an older state, not just evicted.
Regresses(i) == files'[i] < files[i] /\ files'[i] # 0

\* A saved state is never replaced by an older one when only the worker
\* saves it, across crashes, failed saves and restarts.
DiskNeverRegresses ==
  [][\A i \in Identities \ (DirectStores \cup unread) : ~Regresses(i)]_vars

\* The same for a state that StoreDeviceWriterLogs also saves, as RFC 0002
\* asks of cached chains: a newer one is not replaced by a stale one that
\* arrives later.
NewerChainIsKept == [][\A i \in DirectStores \ unread : ~Regresses(i)]_vars

\* Shutdown terminates: the join does not wait for ever.
ShutdownTerminates == node = "joining" ~> node \in {"stopped", "crashed"}
=============================================================================
