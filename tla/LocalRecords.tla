---------------------------- MODULE LocalRecords ----------------------------
(***************************************************************************)
(* One singleton record of an identity, written from several of its        *)
(* devices: jolt-network/src/node/publishing.rs (compare-and-set update,   *)
(* delete and restore with a mutation ledger, plain and append             *)
(* publication, device revocation), jolt-core/src/device_writer_log.rs     *)
(* (the causal merge) and the exchange of device logs between the devices. *)
(*                                                                         *)
(* Every handler runs to its end on the daemon loop, so one action is one  *)
(* handler; what can cut it short is a failing write to disk or a crash,   *)
(* and both are outcomes of the action.  The bodies of all entries ever    *)
(* made durable are kept once, in `entry': the index of an entry there     *)
(* plays the part of its hash and of its created_at.                       *)
(***************************************************************************)
EXTENDS Integers, Sequences, FiniteSets, Functions, SequencesExt, FiniteSetsExt

CONSTANTS Devices,     \* device ids, ordered as numbers
          Revocable,   \* the device a revocation names
          Cutoffs,     \* accepted_through_device_sequence; -1: absent
          Mutations,   \* mutation ids of the clients
          MaxWrites,   \* bound: entries made durable
          MaxFaults,   \* bound: failed saves, crashes and refused publications
          Scenarios,   \* bound: who takes part, and who writes what when
          None

ASSUME DevicesAssumption == Devices \subseteq Nat /\ Revocable \in Devices
ASSUME BoundsAssumption == MaxWrites \in Nat /\ MaxFaults \in Nat
ASSUME CutoffsAssumption == Cutoffs \subseteq Int /\ None \notin Cutoffs

Ops == {"set", "del", "append", "authority"}

\* The n-th entry made durable is one of writes[n]: a device and an operation.
ASSUME ScenariosAssumption ==
    \A s \in Scenarios : /\ s.devices \subseteq Devices /\ s.followed \subseteq s.devices
                         /\ s.mutations \subseteq Mutations
                         /\ s.faults \in 0..MaxFaults
                         /\ s.writes \in Seq(SUBSET (Devices \X Ops)) /\ Len(s.writes) <= MaxWrites

VARIABLES entry,    \* bodies of the entries, in the order they became durable
          node,     \* what each device's daemon holds in memory
          disk,     \* device-writer-logs/<id>.json and update-logs/<id>.json
          chain,    \* cutoff of the one revocation in the authority chain, or None
          sync,     \* device-writer state on its way to a device: at most one
          partial,  \* history: some daemon has stored a cut answer
          client,   \* per mutation id, what its client asked for and was told
          faults,
          scenario  \* the bound in force, never changed

vars == <<entry, node, disk, chain, sync, partial, client, faults, scenario>>

Ids == 1..MaxWrites
Logs == [Devices -> Seq(Ids)]
Kinds == {"update", "delete", "restore"}
Op(kind) == IF kind = "delete" THEN "del" ELSE "set"

Entries == [dev : Devices, seq : Nat, op : Ops,
            seen : SUBSET Ids, mut : Mutations \union {None}]

(***************************************************************************)
(* A daemon: device_writer_states (logs, auth), local_device_writer_logs   *)
(* (own), local_device_authority_records (localAuth),                      *)
(* local_record_mutations (ledger), blocked_local_device_writer_identities *)
(* (blocked) and the length of the local update log (updates).             *)
(***************************************************************************)
Ledgers == [Mutations -> [kind : Kinds, seen : SUBSET Ids, result : Ids] \union {None}]

Nodes == [logs : Logs, auth : BOOLEAN, own : Seq(Ids), localAuth : BOOLEAN,
          ledger : Ledgers, blocked : BOOLEAN, updates : Nat]

Disks == [logs : Logs, auth : BOOLEAN, updates : Nat, ledger : Ledgers]

NoClient == [phase |-> "new", dev |-> None, kind |-> None, seen |-> {}, result |-> None]

Clients == [phase : {"new", "sent", "acked", "refused"}, dev : Devices \union {None},
            kind : Kinds \union {None}, seen : SUBSET Ids, result : Ids \union {None}]

(***************************************************************************)
(* merge_device_writer_logs for the record's path.                         *)
(***************************************************************************)
Known(n) == UNION {Range(n.logs[d]) : d \in Devices}

device_can_write(auth, e) ==
    auth /\ entry[e].dev = Revocable => entry[e].seq <= chain

\* The operations on the record's path, and those on IDENTITY_AUTHORITY_PATH.
RecordOps == {"set", "del"}

CandidatesAt(n, ops) ==
    {e \in Known(n) : entry[e].op \in ops /\ device_can_write(n.auth, e)}

Superseded(C) ==
    UNION {entry[e].seen : e \in C}
      \union {e \in C : \E f \in C : entry[f].dev = entry[e].dev /\ entry[f].seq > entry[e].seq}

\* The winner of a path and its conflicts: every candidate nothing supersedes.
HeadsAt(n, ops) == CandidatesAt(n, ops) \ Superseded(CandidatesAt(n, ops))

Candidates(n) == CandidatesAt(n, RecordOps)

Heads(n) == HeadsAt(n, RecordOps)

\* The order of conflicting heads: device_sequence, then device_id.
entry_order(e, f) ==
    \/ entry[e].seq < entry[f].seq
    \/ entry[e].seq = entry[f].seq /\ entry[e].dev < entry[f].dev

\* singleton_paths: some head is left whenever there is a candidate (expect).
Winner(n) ==
    IF Candidates(n) = {} THEN None
    ELSE CHOOSE e \in Heads(n) : \A f \in Heads(n) \ {e} : entry_order(f, e)

resolve_merged_device_jolt_address(n) ==
    IF Winner(n) = None THEN [answer |-> "not found", entry |-> None]
    ELSE [answer |-> IF entry[Winner(n)].op = "set" THEN "content" ELSE "tombstoned",
          entry |-> Winner(n)]

\* Nothing is known of the identity before its first entry.
resolve_device_writer_response_from_cache(n) ==
    IF Known(n) = {} THEN [answer |-> "no state", entry |-> None]
    ELSE resolve_merged_device_jolt_address(n)

\* The view an app follows: the path's winner while it has content.
materialized_record_snapshot(n) ==
    {e \in {Winner(n)} : e # None /\ entry[e].op = "set"}

\* The feed under the append path; created_at is the index of the entry.
append_record_order(e, f) == e < f

enumerate_append_records(n) ==
    SetToSortSeq({e \in Known(n) : entry[e].op = "append" /\ device_can_write(n.auth, e)},
                 append_record_order)

(***************************************************************************)
(* inspect_local_record: what an app is shown of the record.               *)
(***************************************************************************)
\* Faulty: what an entry observed of other devices is not part of its history.
entry_parent_hashes_OwnLog(e) ==
    {f \in 1..Len(entry) : entry[f].dev = entry[e].dev /\ entry[f].seq + 1 = entry[e].seq}

\* previous_entry_hash and observed_heads.
entry_parent_hashes(e) ==
    entry[e].seen \union
    {f \in 1..Len(entry) : entry[f].dev = entry[e].dev /\ entry[f].seq + 1 = entry[e].seq}

\* Parents exist before their children, so the walk goes down the indexes.
ancestor_hashes(n) ==
    LET above[e \in 1..Len(entry)] ==
          IF e \notin Known(n) THEN {}
          ELSE entry_parent_hashes(e) \union UNION {above[f] : f \in entry_parent_hashes(e)}
    IN  above

entry_is_singleton_path(e) == entry[e].op \in RecordOps

\* The one latest version that all heads descend from, revoked writers included.
local_record_common_base(n, heads) ==
    LET above == ancestor_hashes(n)
        common == {c \in Known(n) : entry_is_singleton_path(c) /\ \A e \in heads : c \in above[e]}
        latest == {c \in common : ~\E o \in common : c \in above[o]}
    IN  IF Cardinality(latest) = 1 THEN CHOOSE c \in latest : TRUE ELSE None

inspect_local_record(n) ==
    LET heads == Heads(n)
        one == Winner(n)
    IN  IF heads = {} THEN [state |-> "missing"]
        ELSE IF Cardinality(heads) > 1
        THEN [state |-> "conflicted", alternatives |-> heads,
              base |-> local_record_common_base(n, heads)]
        ELSE [state |-> IF entry[one].op = "set" THEN "present" ELSE "deleted", revision |-> one]

(***************************************************************************)
(* requested_record_revisions and validate_current_record_revisions: the   *)
(* client must name exactly the current heads, and a single head must be   *)
(* of the kind the operation replaces.                                     *)
(***************************************************************************)
\* Faulty: any known revisions are accepted.
CurrentRevisions_NotCompared(n, kind, seen) == seen # {} /\ Heads(n) # {}

\* The named revisions are entries of the logs the daemon holds.
observed_record_head_hashes(n, seen) == seen \subseteq Known(n)

CurrentRevisions(n, kind, seen) ==
    /\ seen # {}
    /\ seen = Heads(n)
    /\ Cardinality(seen) = 1 =>
          \A e \in seen : entry[e].op = IF kind = "restore" THEN "del" ELSE "set"

(***************************************************************************)
(* merge_verified_device_writer_state and the guard against a local        *)
(* history that is not the one the device holds itself.                    *)
(***************************************************************************)
\* Faulty: any log that is not empty is taken.
device_log_is_newer_Any(candidate, known) == candidate # <<>>

device_log_is_newer(candidate, known) ==
    \/ Len(candidate) > Len(known)
    \/ Len(candidate) = Len(known) /\ candidate # <<>> /\ Last(candidate) > Last(known)

MergeLogs(known, offered) ==
    [d \in Devices |-> IF device_log_is_newer(offered[d], known[d]) THEN offered[d] ELSE known[d]]

Diverged(own, copy) == ~IsPrefix(own, copy) /\ ~IsPrefix(copy, own)

\* A log is one device's entries from its first on, each linked to the one
\* before it.
verify_device_log_shape(log) ==
    \A k \in DOMAIN log : /\ entry[log[k]].seq = k - 1
                          /\ entry[log[k]].dev = entry[log[1]].dev

store_verified_device_writer_logs(n, d, offered, auth) ==
    LET merged == [n EXCEPT !.logs = MergeLogs(n.logs, offered), !.auth = n.auth \/ auth]
    IN  IF Diverged(n.own, merged.logs[d]) THEN [n EXCEPT !.blocked = TRUE] ELSE merged

\* Faulty: the histories of the other devices are left out of the file.
save_device_writer_log_OwnOnly(d, k, n, own, ledger, auth) ==
    [k EXCEPT !.logs = [@ EXCEPT ![d] = own], !.ledger = ledger, !.auth = auth]

other_device_logs_for_persistence(n, d) == Restrict(n.logs, Devices \ {d})

\* The file written for the local identity: own log, the others', the ledger.
save_device_writer_log(d, k, n, own, ledger, auth) ==
    [k EXCEPT !.logs = (d :> own) @@ other_device_logs_for_persistence(n, d),
              !.ledger = ledger, !.auth = auth]

\* Faulty: the mutation ledger is not read back.
Load_NoLedger(d, k) ==
    [logs |-> k.logs, auth |-> k.auth, own |-> k.logs[d], localAuth |-> k.auth,
     ledger |-> [m \in Mutations |-> None], blocked |-> FALSE, updates |-> k.updates]

\* NetworkNode::new: what a daemon starts from.
Load(d, k) ==
    [logs |-> k.logs, auth |-> k.auth, own |-> k.logs[d], localAuth |-> k.auth,
     ledger |-> k.ledger, blocked |-> FALSE, updates |-> k.updates]

NoLogs == [d \in Devices |-> <<>>]

NewDisk == [logs |-> NoLogs, auth |-> FALSE, updates |-> 0,
            ledger |-> [m \in Mutations |-> None]]

Init ==
    /\ entry = <<>>
    /\ disk = [d \in Devices |-> NewDisk]
    /\ node = [d \in Devices |-> Load(d, NewDisk)]
    /\ chain = None
    /\ sync = None
    /\ partial = FALSE
    /\ client = [m \in Mutations |-> NoClient]
    /\ faults = 0
    /\ scenario \in Scenarios

Fault == faults < scenario.faults /\ faults' = faults + 1

\* A daemon that goes down loses what was on its way to it: the request's
\* connection, or the entry of pending_device_writer_syncs an answer is for.
Disconnected(d) == sync' = IF sync # None /\ sync.to = d THEN None ELSE sync

(***************************************************************************)
(* The two durable steps of a publication.  A singleton write first goes   *)
(* through publish_local_update_log_action, which pushes the entry in      *)
(* memory and then saves the whole update log; an append write does not.   *)
(***************************************************************************)
Logged(d, op) == [node[d] EXCEPT !.updates = IF op = "append" THEN @ ELSE @ + 1]

LoggedDisk(d, op) == [disk[d] EXCEPT !.updates = IF op = "append" THEN @ ELSE node[d].updates + 1]

Put(d, n, k) ==
    /\ node' = [node EXCEPT ![d] = n]
    /\ disk' = [disk EXCEPT ![d] = k]

\* save_update_log fails: the handler returns, the pushed entry stays in memory.
UpdateSaveFails(d, op) ==
    /\ op # "append"
    /\ Fault
    /\ Put(d, Logged(d, op), disk[d])
    /\ UNCHANGED <<entry, sync>>

\* Faulty: a revoked device may go on appending.
Refused_NotIfRevoked(d) == node[d].blocked

\* blocked_local_device_writer_identities, or authority_records_for_local_device.
Refused(d) == node[d].blocked \/ (node[d].localAuth /\ d = Revocable)

\* The update log is saved, the device-writer entry is refused or not saved.
DeviceSaveFails(d, op) ==
    /\ Fault
    /\ Put(d, Logged(d, op), LoggedDisk(d, op))
    /\ UNCHANGED <<entry, sync>>

\* A crash after the update log is saved and before the device-writer log is.
CrashBetweenLogs(d, op) ==
    /\ op # "append"
    /\ Fault
    /\ Put(d, Load(d, LoggedDisk(d, op)), LoggedDisk(d, op))
    /\ Disconnected(d)
    /\ UNCHANGED entry

\* genesis_observing, append_observing: the next entry of the device's own log.
append_observing(d, own, op, seen, m) ==
    [dev |-> d, seq |-> Len(own), op |-> op, seen |-> seen, mut |-> m]

\* The mutation ledger with the result of a mutation; None: a plain publication.
Recorded(ledger, intent, seen, id) ==
    IF intent = None THEN ledger
    ELSE [ledger EXCEPT ![intent.mut] = [kind |-> intent.kind, seen |-> seen, result |-> id]]

(***************************************************************************)
(* publish_local_device_writer_operation: sign, save, and only then merge  *)
(* into the served state and remember log and ledger.  `crash' is a crash  *)
(* between the save and the reply.                                         *)
(***************************************************************************)
Written(d, op, seen, intent, n, crash) ==
    LET id == Len(entry) + 1
        own == Append(n.own, id)
        ledger == Recorded(n.ledger, intent, seen, id)
        saved == save_device_writer_log(d, LoggedDisk(d, op), n, own, ledger, n.localAuth)
        stored == store_verified_device_writer_logs(n, d, [NoLogs EXCEPT ![d] = own], n.localAuth)
        m == IF intent = None THEN None ELSE intent.mut
    IN  /\ entry' = Append(entry, append_observing(d, n.own, op, seen, m))
        /\ IF crash
             THEN Put(d, Load(d, saved), saved) /\ Disconnected(d)
             ELSE Put(d, [stored EXCEPT !.own = own, !.ledger = ledger], saved) /\ UNCHANGED sync

\* The bound of the scenario on the entries made durable.
MayWrite(d, op) ==
    /\ Len(entry) < Len(scenario.writes)
    /\ <<d, op>> \in scenario.writes[Len(entry) + 1]

Publication(d, op, seen, intent, crash) ==
    /\ MayWrite(d, op)
    /\ ~Refused(d)
    /\ Written(d, op, seen, intent, Logged(d, op), crash)

Published(d, op, seen, intent) == Publication(d, op, seen, intent, FALSE) /\ UNCHANGED faults

CrashAfterSave(d, op, seen, intent) == Publication(d, op, seen, intent, TRUE) /\ Fault

\* Any of the ways a publication that was not refused up front can end short.
CutShort(d, op) ==
    \/ UpdateSaveFails(d, op)
    \/ DeviceSaveFails(d, op)
    \/ CrashBetweenLogs(d, op)

(***************************************************************************)
(* publish_bytes_at_path and publish_bytes_appending_path: a write without *)
(* a mutation id observes whatever heads of its path the daemon knows.     *)
(***************************************************************************)
current_singleton_heads(n, op) ==
    CASE op = "append" -> {}
      [] op = "authority" -> HeadsAt(n, {"authority"})
      [] OTHER -> Heads(n)

PublishAtPath(d) ==
    /\ \/ Published(d, "set", current_singleton_heads(node[d], "set"), None)
       \/ CutShort(d, "set")
    /\ UNCHANGED <<chain, partial, client, scenario>>

AppendingPath(d) ==
    /\ Published(d, "append", current_singleton_heads(node[d], "append"), None)
    /\ UNCHANGED <<chain, partial, client, scenario>>

(***************************************************************************)
(* update_local_record, delete_local_record, restore_local_record.  The    *)
(* client of mutation m goes on asking its device until it is told the     *)
(* result or that the record has moved on.  It may come back with another  *)
(* request under the same mutation id.                                     *)
(***************************************************************************)
Request(d, m, kind, seen) ==
    \/ client[m].phase = "new"
    \/ client[m].phase = "sent" /\ client[m].dev = d

Told(d, m, phase, kind, seen, result) ==
    client' = [client EXCEPT ![m] = [phase |-> phase, dev |-> d, kind |-> kind,
                                     seen |-> seen, result |-> result]]

\* operation, path and observed revisions of the recorded mutation.
SameMutation(previous, kind, seen) == previous.kind = kind /\ previous.seen = seen

\* The ledger knows the mutation: the recorded result is returned.
Replay(d, m, kind, seen) ==
    /\ Request(d, m, kind, seen)
    /\ node[d].ledger[m] # None
    /\ SameMutation(node[d].ledger[m], kind, seen)
    /\ Told(d, m, "acked", kind, seen, node[d].ledger[m].result)
    /\ UNCHANGED <<entry, node, disk, chain, sync, partial, faults, scenario>>

\* "mutation_id was already used for a different record mutation".
AlreadyUsed(d, m, kind, seen) ==
    /\ Request(d, m, kind, seen)
    /\ node[d].ledger[m] # None
    /\ ~SameMutation(node[d].ledger[m], kind, seen)
    /\ UNCHANGED vars

RecordConflict(d, m, kind, seen) ==
    /\ Request(d, m, kind, seen)
    /\ node[d].ledger[m] = None
    /\ ~CurrentRevisions(node[d], kind, seen)
    /\ Told(d, m, "refused", None, {}, None)
    /\ UNCHANGED <<entry, node, disk, chain, sync, partial, faults, scenario>>

Mutate(d, m, kind, seen) ==
    LET intent == [mut |-> m, kind |-> kind]
    IN  /\ Request(d, m, kind, seen)
        /\ node[d].ledger[m] = None
        /\ CurrentRevisions(node[d], kind, seen)
        /\ observed_record_head_hashes(node[d], seen)
        /\ \/ /\ Published(d, Op(kind), seen, intent)
              /\ Told(d, m, "acked", kind, seen, Len(entry) + 1)
           \/ /\ CrashAfterSave(d, Op(kind), seen, intent) \/ CutShort(d, Op(kind))
              /\ Told(d, m, "sent", kind, seen, None)
        /\ UNCHANGED <<chain, partial, scenario>>

(***************************************************************************)
(* append_local_device_authority_operation for a revocation: the chain is  *)
(* first published at the authority path, then saved with the device-      *)
(* writer state, and only then takes effect.                               *)
(***************************************************************************)
Revoked(d, cutoff, seen) ==
    /\ MayWrite(d, "authority")
    /\ ~Refused(d)
    /\ LET own == Append(node[d].own, Len(entry) + 1)
           n == [store_verified_device_writer_logs(Logged(d, "authority"), d,
                     [NoLogs EXCEPT ![d] = own], TRUE)
                   EXCEPT !.own = own, !.localAuth = TRUE]
       IN  Put(d, n, save_device_writer_log(d, LoggedDisk(d, "authority"), n, own, n.ledger, TRUE))
    /\ entry' = Append(entry, append_observing(d, node[d].own, "authority", seen, None))
    /\ chain' = cutoff
    /\ UNCHANGED <<sync, faults>>

\* persist_device_writer_state fails: the entry stands, the chain does not.
AuthoritySaveFails(d, seen) == Publication(d, "authority", seen, None, FALSE) /\ Fault

Revoke(d, cutoff) ==
    LET seen == current_singleton_heads(node[d], "authority")
    IN  /\ chain = None
        /\ \/ Revoked(d, cutoff, seen)
           \/ /\ \/ CutShort(d, "authority")
                 \/ CrashAfterSave(d, "authority", seen, None)
                 \/ AuthoritySaveFails(d, seen)
              /\ UNCHANGED chain
        /\ UNCHANGED <<partial, client, scenario>>

(***************************************************************************)
(* Device-writer state travels between the devices with a sync request,    *)
(* which offers the sender's state, and with the answer to it.             *)
(***************************************************************************)
Message(arm, from, to, logs, auth, cut) ==
    [arm |-> arm, from |-> from, to |-> to, logs |-> logs, auth |-> auth, cut |-> cut]

Messages == [arm : {"request", "answer"}, from : Devices \union {None}, to : Devices,
             logs : Logs, auth : BOOLEAN, cut : BOOLEAN]

Offer(s, d) ==
    /\ s # d
    /\ sync = None
    /\ sync' = Message("request", s, d, node[s].logs, node[s].auth, FALSE)
    /\ UNCHANGED <<entry, node, disk, chain, partial, client, faults, scenario>>

Lose ==
    /\ sync # None
    /\ sync' = None
    /\ UNCHANGED <<entry, node, disk, chain, partial, client, faults, scenario>>

\* authority_records_authorize_peer on the offered chain.
Authorizes(o) == ~(o.auth /\ o.from = Revocable)

\* persist_synced_local_device_writer_state, up to the save.
AdoptOwn(n, d) ==
    IF IsPrefix(n.own, n.logs[d]) THEN [n EXCEPT !.own = n.logs[d], !.blocked = FALSE] ELSE n

\* Both arms: store what arrived, then save it unless the own history diverged.
StoreSynced(d, o) ==
    LET stored == store_verified_device_writer_logs(node[d], d, o.logs, o.auth)
        n == AdoptOwn(stored, d)
    IN  /\ \A x \in Devices : verify_device_log_shape(o.logs[x])
        /\ IF Diverged(node[d].own, MergeLogs(node[d].logs, o.logs)[d])
             THEN Put(d, stored, disk[d]) /\ UNCHANGED faults
             ELSE \/ /\ Put(d, [n EXCEPT !.localAuth = n.auth],
                            save_device_writer_log(d, disk[d], n, n.own, n.ledger, n.auth))
                     /\ UNCHANGED faults
                  \/ Fault /\ Put(d, n, disk[d])

\* The offer is stored if its own chain lets the sender write; the answer is
\* what the daemon then holds, in full.
ReceiveRequest(d) ==
    /\ sync # None
    /\ sync.arm = "request" /\ sync.to = d
    /\ IF Authorizes(sync) THEN StoreSynced(d, sync) ELSE UNCHANGED <<node, disk, faults>>
    /\ sync' = Message("answer", d, sync.from, node'[d].logs, node'[d].auth, FALSE)
    /\ UNCHANGED <<entry, chain, partial, client, scenario>>

\* The answer is stored whoever gave it.
ReceiveAnswer(d) ==
    /\ sync # None
    /\ sync.arm = "answer" /\ sync.to = d
    /\ StoreSynced(d, sync)
    /\ partial' = (partial \/ sync.cut)
    /\ sync' = None
    /\ UNCHANGED <<entry, chain, client, scenario>>

(***************************************************************************)
(* A follower of the identity that is reading the state of device s page   *)
(* by page, in the order of device ids, keeps what it has so far and       *)
(* answers the identity's own devices with it.                             *)
(***************************************************************************)
for_sync_request_with_limits(logs, k) ==
    [d \in Devices |->
        LET before == MapThenSumSet(LAMBDA x : Len(logs[x]), {x \in Devices : x < d})
        IN  SubSeq(logs[d], 1, Min({Len(logs[d]), k - before}))]

FollowerAnswers(s, d) ==
    /\ sync = None
    /\ \E k \in 1..Cardinality(Known(node[s])) :
          sync' = Message("answer", None, d, for_sync_request_with_limits(node[s].logs, k), node[s].auth,
                          k < Cardinality(Known(node[s])))
    /\ UNCHANGED <<entry, node, disk, chain, partial, client, faults, scenario>>

Restart(d) ==
    /\ Fault
    /\ node' = [node EXCEPT ![d] = Load(d, disk[d])]
    /\ Disconnected(d)
    /\ UNCHANGED <<entry, disk, chain, partial, client, scenario>>

Next ==
    \E d \in scenario.devices :
        \/ PublishAtPath(d)
        \/ AppendingPath(d)
        \/ \E m \in scenario.mutations, kind \in Kinds, seen \in SUBSET (1..Len(entry)) :
              \/ Replay(d, m, kind, seen)
              \/ AlreadyUsed(d, m, kind, seen)
              \/ RecordConflict(d, m, kind, seen)
              \/ Mutate(d, m, kind, seen)
        \/ \E cutoff \in Cutoffs : Revoke(d, cutoff)
        \/ \E s \in scenario.devices : Offer(s, d)
        \/ \E s \in scenario.followed : FollowerAnswers(s, d)
        \/ Lose
        \/ ReceiveRequest(d)
        \/ ReceiveAnswer(d)
        \/ Restart(d)

Spec == Init /\ [][Next]_vars

-----------------------------------------------------------------------------
\* The shape of the state: the logs and the ledger of every daemon and file.
TypeOK ==
    /\ entry \in Seq(Entries) /\ Len(entry) <= MaxWrites
    /\ node \in [Devices -> Nodes]
    /\ disk \in [Devices -> Disks]
    /\ chain \in Cutoffs \union {None}
    /\ sync \in Messages \union {None}
    /\ partial \in BOOLEAN
    /\ client \in [Mutations -> Clients]
    /\ faults \in 0..MaxFaults
    /\ scenario \in Scenarios

(***************************************************************************)
(* A daemon, and the file it would restart from, hold the heads that each  *)
(* of the device's own entries was written on top of: other_device_logs    *)
(* are saved with every publication.  As long as no daemon has taken over  *)
(* a state that a follower had not finished reading, they hold those of    *)
(* every entry they know, whoever the state came from.                     *)
(***************************************************************************)
CausallyClosed ==
    \A d \in Devices : \A k \in {node[d], disk[d]} :
        /\ \A e \in Range(k.logs[d]) : entry[e].seen \subseteq Known(k)
        /\ ~partial => \A e \in Known(k) : entry[e].seen \subseteq Known(k)

(***************************************************************************)
(* What the mutation ledger promises a client that repeats its request     *)
(* after an error or a crash: the mutation is applied at most once, an     *)
(* acknowledged one is in the device's file, and one refused as            *)
(* conflicting has not been applied.                                       *)
(***************************************************************************)
ClientsAreToldTheTruth ==
    \A m \in Mutations :
        LET applied == {e \in 1..Len(entry) : entry[e].mut = m}
            c == client[m]
        IN  /\ Cardinality(applied) <= 1
            /\ c.phase = "acked" =>
                  /\ applied = {c.result}
                  /\ c.result \in Range(disk[c.dev].logs[c.dev])
                  /\ entry[c.result].seen = c.seen
            /\ c.phase = "refused" => applied = {}

\* What an entry was written on top of: directly, and through any chain.
Direct(e) ==
    entry[e].seen \union
    {f \in 1..(e - 1) : entry[f].dev = entry[e].dev /\ entry[f].seq < entry[e].seq}

Past ==
    LET past[e \in 1..Len(entry)] == Direct(e) \union UNION {past[f] : f \in Direct(e)}
    IN  past

(***************************************************************************)
(* A record shown with several alternatives has been written concurrently: *)
(* if one was written on top of another, then only through versions of the *)
(* revoked device, past its cutoff, that the daemon has rejected.  The     *)
(* base shown beside them is a version all of them were written on top of, *)
(* and every other such version lies before it; none is shown only when    *)
(* there is no such version or no latest one.  inspect_local_record works  *)
(* from the logs one daemon happens to hold; so this is promised only as   *)
(* long as no daemon has stored a cut answer.                              *)
(***************************************************************************)
ConflictsAreShownTruly ==
    \A d \in Devices :
        LET shown == inspect_local_record(node[d])
            writes == {e \in 1..Len(entry) : entry_is_singleton_path(e)}
            common == {c \in writes : \A e \in shown.alternatives : c \in Past[e]}
            covers(b) == \A c \in common : c = b \/ c \in Past[b]
            between(e, f) == {g \in writes : e \in Direct(g) /\ (g = f \/ g \in Past[f])}
        IN  shown.state = "conflicted" /\ ~partial =>
              /\ \A e, f \in shown.alternatives :
                    \A g \in between(e, f) : ~device_can_write(node[d].auth, g)
              /\ IF shown.base = None THEN ~\E b \in common : covers(b)
                 ELSE shown.base \in common /\ covers(shown.base)

(***************************************************************************)
(* A mutation that has just been applied and acknowledged leaves its entry *)
(* as the record's only head: nothing the client had not named was         *)
(* overwritten, nothing it named survives, and the view apps follow shows  *)
(* it, or nothing after a delete.  (Not so on a device that has learnt of  *)
(* its own revocation and failed to save it.)                              *)
(***************************************************************************)
AckedIsTheHead ==
    [][\A m \in Mutations, d \in Devices :
          /\ client'[m].phase = "acked" /\ client[m].phase # "acked"
          /\ client'[m].dev = d
          /\ client'[m].result > Len(entry)
          /\ node[d].auth = node[d].localAuth
          => /\ Heads(node[d])' = {client'[m].result}
             /\ materialized_record_snapshot(node[d])' =
                  IF client'[m].kind = "delete" THEN {} ELSE {client'[m].result}]_vars

(***************************************************************************)
(* Reads on a device do not go back while no revocation is known, no cut   *)
(* answer is stored, nothing restarts and no save fails: a record that was *)
(* resolved, tombstones included, is never again resolved to something it  *)
(* was written on top of, and the append feed loses no entry, whatever     *)
(* stale or lost offers and own writes come in between.                    *)
(***************************************************************************)
ReadsNeverGoBack ==
    [][\A d \in Devices :
          node'[d] # node[d] /\ ~node'[d].auth /\ ~partial' /\ UNCHANGED faults =>
              LET was == resolve_device_writer_response_from_cache(node[d])
                  now == resolve_device_writer_response_from_cache(node[d])'
              IN  /\ was.entry # None => now.entry # None /\ now.entry \notin Past'[was.entry]
                  /\ Range(enumerate_append_records(node[d]))
                       \subseteq Range(enumerate_append_records(node[d]))']_vars

(***************************************************************************)
(* A device whose own file says it is revoked adds nothing to its log, not *)
(* even after a restart.                                                   *)
(***************************************************************************)
RevokedDeviceIsSilent ==
    [][disk[Revocable].auth => disk'[Revocable].logs[Revocable] = disk[Revocable].logs[Revocable]]_vars
=============================================================================
