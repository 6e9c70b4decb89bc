------------------------------ MODULE HomeRelay ------------------------------
(***************************************************************************)
(* Pinning one's own content on a home relay, over the owner's installation *)
(* (module Installation) and the relay's content cache (ContentCache).      *)
(*   jolt-server/src/routes/home_relay.rs   the owner's pin route           *)
(*   jolt-server/src/routes/relay.rs        the relay's pin route           *)
(*   jolt-network/src/node/inventory.rs     what the owner is told          *)
(*   jolt-network/src/node/commands.rs, publishing.rs, events.rs            *)
(* The relay's route is a chain of awaits: every daemon command of it is a  *)
(* step, and other requests, fetches, unpins and crashes come in between.   *)
(* Content is an item, or a snapshot of the first n entries of an update    *)
(* log; the address of either is its content.                               *)
(***************************************************************************)
EXTENDS Installation, ContentCache, Sequences, SequencesExt, Signing

CONSTANTS Items,        \* content the owner may publish
          Others,       \* content of other people that the relay may fetch
          Paths, NoPath,
          NoLog,        \* update_log_content_id: None
          Removed,      \* the content of a RemovePath entry
          PinRelay,     \* the home relay setting that can pin and has an API URL
          Allowlist,    \* RelayPinPolicy::Allowlist of the relay
          Requests,     \* pin requests in flight at one time
          FreeSlot,
          FirstLogs,    \* the owner's update logs at the start
          MaxLog,       \* bound on the entries of an update log
          Budgets(_, _) \* by first key and log: how many events of the two sides and of
                        \* which kinds they are, [machine, home, kinds]

VARIABLES store,   \* the owner's content store
          log,     \* the owner's update logs, on disk by identity
          pins,    \* home_relay_pins.json: the records, oldest first
          reqs,    \* pin requests between the two routes
          relay,   \* the relay; seen, unpinned and cut are history
          budget   \* events still to come

homeVars == <<store, log, pins, reqs, relay>>
vars == <<machineVars, homeVars, budget>>

Snapshot(i, n) == [owner |-> i, upto |-> n]

Me == procs[Server].identity

HomeInit ==
  /\ log \in FirstLogs
  /\ store = [EmptyStore EXCEPT !.published =
                [c \in UNION {{e.cid : e \in Range(log[i])} : i \in Identities} |-> "whole"]]
  /\ pins = <<>>
  /\ reqs = [q \in Requests |-> FreeSlot]
  /\ relay = [up |-> TRUE, store |-> EmptyStore, log |-> [i \in Identities |-> 0],
              seen |-> [i \in Identities |-> 0], unpinned |-> {}, cut |-> {}]

HomeTypeOK ==
  /\ published_ids(store) \subseteq Items \cup {Snapshot(i, n) : i \in Identities, n \in 1..MaxLog}
  /\ \A i \in Identities : Len(log[i]) <= MaxLog
  /\ \A q \in Requests : reqs[q] = FreeSlot \/ reqs[q].stage \in
       {"sent", "accepted", "log fetched", "log stored", "log known", "fetched", "pinned"}

----------------------------------------------------------------------------
\* The owner's content and paths.

publish_bytes(c) ==
  /\ Serving /\ store' = publish(store, c)
  /\ UNCHANGED <<log, pins, reqs, relay>>

SetsPath(path, c) == log' = [log EXCEPT ![Me] = Append(@, [path |-> path, cid |-> c])]

\* The content first, then the entry of the identity's log.
publish_bytes_at_path(c, path) ==
  /\ Serving /\ Len(log[Me]) < MaxLog
  /\ store' = publish(store, c)
  /\ SetsPath(path, c)
  /\ UNCHANGED <<pins, reqs, relay>>

\* current_local_paths: the last entry of a path decides.
current_local_paths ==
  LET last(path) == Max({0} \cup {n \in 1..Len(log[Me]) : log[Me][n].path = path})
      set == {path \in Paths : last(path) > 0 /\ log[Me][last(path)].cid # Removed}
  IN [path \in set |-> [cid |-> log[Me][last(path)].cid, sequence |-> last(path)]]

unpublish_path(path) ==
  /\ Serving /\ Len(log[Me]) < MaxLog
  /\ path \in DOMAIN current_local_paths
  /\ SetsPath(path, Removed)
  /\ UNCHANGED <<store, pins, reqs, relay>>

----------------------------------------------------------------------------
\* The owner's pin route.

\* publish_update_log_snapshot: nothing to publish without a log.
snapshot_id(i) == IF log[i] = <<>> THEN NoLog ELSE Snapshot(i, Len(log[i]))

WithSnapshot(i) == IF log[i] = <<>> THEN store ELSE publish(store, snapshot_id(i))

\* PinRequest::with_update_log: the body names its owner, and the owner signs it.
PinRequest(i, c) ==
  LET body == [owner |-> i, cid |-> c, log |-> snapshot_id(i)]
  IN [body |-> body, signature |-> Sign(i, body)]

\* Dials the relay if need be and gives up after three seconds.
ensure_connected_to_relay == relay.up

\* home_relay::pin up to the request it sends.
CreatePin(q, c, path) ==
  /\ Serving /\ procs[Server].home = PinRelay /\ ensure_connected_to_relay
  /\ c \in published_ids(store)
  /\ reqs[q] = FreeSlot
  /\ store' = WithSnapshot(Me)
  /\ reqs' = [reqs EXCEPT ![q] = [stage |-> "sent", request |-> PinRequest(Me, c),
                                  path |-> path, seq |-> 0, waiting |-> TRUE]]
  /\ UNCHANGED <<log, pins, relay>>

\* The paths a record is written for; no path at all is an error.
RecordedPaths(c, path) ==
  LET current == current_local_paths
      here == {p \in DOMAIN current : current[p].cid = c}
  IN IF path # NoPath THEN here \cap {path}
     ELSE IF here = {} THEN {NoPath} ELSE here

\* The sequence the relay answered with.
RecordedSequence(r) == r.seq

\* record_home_relay_pin, and the answer to the user.
RecordPin(q) ==
  /\ reqs[q] # FreeSlot /\ reqs[q].stage = "pinned"
  /\ reqs' = [reqs EXCEPT ![q] = FreeSlot]
  /\ UNCHANGED <<store, log, relay>>
  /\ IF ~reqs[q].waiting THEN UNCHANGED pins
     ELSE LET body == reqs[q].request.body
              record(p) == [cid |-> body.cid, path |-> p, seq |-> RecordedSequence(reqs[q])]
          IN \E order \in SetToSeqs(RecordedPaths(body.cid, reqs[q].path)) :
               pins' = pins \o [n \in DOMAIN order |-> record(order[n])]

----------------------------------------------------------------------------
\* The relay's pin route, one daemon command at a time.

Body(q) == reqs[q].request.body

At(q, stage) == relay.up /\ reqs[q] # FreeSlot /\ reqs[q].stage = stage

To(q, stage) == reqs' = [reqs EXCEPT ![q].stage = stage]

\* The route answers with an error, or its caller is gone.
Fails(q) == reqs' = [reqs EXCEPT ![q] = FreeSlot]

RelayPinAllowed(i) == i \in Allowlist

\* PinRequest::verify: under the key the body names.
VerifyPinRequest(r) == verify(r.body.owner, r.body, r.signature)

AcceptPin(q) ==
  /\ At(q, "sent") /\ UNCHANGED <<store, log, pins, relay>>
  /\ IF VerifyPinRequest(reqs[q].request) /\ RelayPinAllowed(Body(q).owner)
     THEN To(q, "accepted") ELSE Fails(q)

\* The owner's node answers with content it holds whole.
OwnerServes(c) == Serving /\ get_content(store, c)

\* Fetch: the own copy, else a peer's, which is cached where there is room.
\* The data is answered whether or not it could be cached.
Fetch(q, c, stage) ==
  /\ UNCHANGED <<store, log, pins>>
  /\ IF get_content(relay.store, c) THEN To(q, stage) /\ UNCHANGED relay
     ELSE IF ~OwnerServes(c) THEN Fails(q) /\ UNCHANGED relay
     ELSE LET cached == cache_content(relay.store, c)
          IN /\ To(q, stage)
             /\ \E s \in (IF cached = {} THEN {relay.store} ELSE cached) :
                  relay' = [relay EXCEPT !.store = s]

FetchLog(q) ==
  At(q, "accepted") /\ Body(q).log # NoLog /\ Fetch(q, Body(q).log, "log fetched")

\* store_verified_update_log: in memory, and only a longer log replaces.
Knows(i, n) ==
  [relay EXCEPT !.log[i] = Max({@, n}), !.seen[i] = Max({@, n})]

StoreUpdateLog(q) ==
  /\ At(q, "log fetched")
  /\ relay' = Knows(Body(q).owner, Body(q).log.upto)
  /\ reqs' = [reqs EXCEPT ![q].stage = "log stored", ![q].seq = relay'.log[Body(q).owner]]
  /\ UNCHANGED <<store, log, pins>>

\* Pin: an error unless the cache index lists the content.
Pin(q, c, stage) ==
  /\ UNCHANGED <<store, log, pins>>
  /\ IF c \in cached_ids(relay.store)
     THEN /\ To(q, stage)
          /\ relay' = [relay EXCEPT !.store = pin(@, c), !.unpinned = @ \ {c}]
     ELSE Fails(q) /\ UNCHANGED relay

PinLog(q) == At(q, "log stored") /\ Pin(q, Body(q).log, "log known")

\* PinUpdateLog, for a request without a log: the log the relay knows, else
\* what a connected peer has by now, which must not be empty.
PinUpdateLog(q) ==
  LET i == Body(q).owner
      known == relay.log[i]
      answer == IF known > 0 THEN known
                ELSE IF Serving /\ Me = i THEN Len(log[i]) ELSE 0
  IN /\ At(q, "accepted") /\ Body(q).log = NoLog
     /\ UNCHANGED <<store, log, pins>>
     /\ IF answer = 0 THEN Fails(q) /\ UNCHANGED relay
        ELSE /\ relay' = Knows(i, answer)
             /\ reqs' = [reqs EXCEPT ![q].stage = "log known", ![q].seq = answer]

FetchContent(q) == At(q, "log known") /\ Fetch(q, Body(q).cid, "fetched")

PinContent(q) == At(q, "fetched") /\ Pin(q, Body(q).cid, "pinned")

\* The connection breaks, the caller gives up, or the route times out.
DropRequest(q) ==
  reqs[q] # FreeSlot /\ Fails(q) /\ UNCHANGED <<store, log, pins, relay>>

----------------------------------------------------------------------------
\* The rest of the relay's life.

OtherFetch(c) ==
  /\ relay.up /\ ~get_content(relay.store, c)
  /\ \E s \in cache_content(relay.store, c) : relay' = [relay EXCEPT !.store = s]
  /\ UNCHANGED <<store, log, pins, reqs>>

\* `jolt cache unpin` asks the daemon, and opens the store itself when none runs.
CommandStore == IF relay.up THEN relay.store ELSE Opened(relay.store)

Unpin(c) ==
  /\ ~relay.up => CanOpen(relay.store)
  /\ IsPinned(CommandStore, c)
  /\ relay' = [relay EXCEPT !.store = unpin(CommandStore, c), !.unpinned = @ \cup {c}]
  /\ UNCHANGED <<store, log, pins, reqs>>

\* What stands on the relay's disk after a crash: any rewrite of the index may
\* be torn, and a fetch may be interrupted anywhere.  An answer already sent
\* can still arrive.
RelayCrash ==
  /\ relay.up
  /\ \E s \in {relay.store, [relay.store EXCEPT !.saved = Torn]}
              \cup UNION {CacheCutShort(relay.store, c) : c \in Others} :
       relay' = [relay EXCEPT !.up = FALSE, !.store = s, !.cut = @ \cup Unbacked(s)]
  /\ reqs' = [q \in Requests |-> IF reqs[q] # FreeSlot /\ reqs[q].stage # "pinned"
                                 THEN FreeSlot ELSE reqs[q]]
  /\ UNCHANGED <<store, log, pins>>

\* The other identities' logs were only in memory.
RelayRestart ==
  /\ ~relay.up /\ CanOpen(relay.store)
  /\ relay' = [relay EXCEPT !.up = TRUE, !.store = Opened(@), !.log = [i \in Identities |-> 0]]
  /\ UNCHANGED <<store, log, pins, reqs>>

----------------------------------------------------------------------------
\* The composition.

Init == MachineInit /\ HomeInit /\ budget \in Budgets(key, log)

Spends(side) == budget[side] > 0 /\ budget' = [budget EXCEPT ![side] = @ - 1]

\* A pin route of the owner ends with its daemon; the relay's goes on.
Orphans ==
  reqs' = IF ~Serving \/ procs'[Server].at = "serving" THEN reqs
          ELSE [q \in Requests |-> IF reqs[q] = FreeSlot THEN FreeSlot
                                   ELSE [reqs[q] EXCEPT !.waiting = FALSE]]

\* The daemon dies inside publish, of content or of a snapshot.
PublishDies ==
  /\ Serving /\ "trouble" \in budget.kinds /\ Spends("home")
  /\ \E c \in Items \cup ({snapshot_id(Me)} \ {NoLog}) : store' \in PublishCutShort(store, c)
  /\ Dies(Server) /\ Orphans
  /\ UNCHANGED <<files, log, pins, relay>>

MachineStep ==
  /\ \/ MachineProgress /\ UNCHANGED budget
     \/ MachineEvent(budget.kinds) /\ Spends("machine")
  /\ Orphans
  /\ UNCHANGED <<store, log, pins, relay>>

PinStep(q) ==
  \/ AcceptPin(q) \/ FetchLog(q) \/ StoreUpdateLog(q) \/ PinLog(q) \/ PinUpdateLog(q)
  \/ FetchContent(q) \/ PinContent(q) \/ RecordPin(q)

HomeEvent(kinds) ==
  \/ /\ "publish" \in kinds
     /\ \/ \E c \in Items : publish_bytes(c) \/ \E path \in Paths : publish_bytes_at_path(c, path)
        \/ \E path \in Paths : unpublish_path(path)
  \/ "pin" \in kinds /\ \E q \in Requests, c \in Items, path \in Paths \cup {NoPath} : CreatePin(q, c, path)
  \/ /\ "trouble" \in kinds
     /\ \/ \E q \in Requests : DropRequest(q)
        \/ \E c \in Others : OtherFetch(c)
        \/ \E c \in cached_ids(relay.store) : Unpin(c)
        \/ RelayCrash \/ RelayRestart

HomeStep ==
  /\ \/ (\E q \in Requests : PinStep(q)) /\ UNCHANGED budget
     \/ HomeEvent(budget.kinds) /\ Spends("home")
  /\ UNCHANGED machineVars

Next == MachineStep \/ HomeStep \/ PublishDies

Spec == Init /\ [][Next]_vars

----------------------------------------------------------------------------
\* What the owner is told.

\* matching_pin_record: by path, or by content when the item has no path; the
\* record with the highest sequence, the later one of two.
matching_pin_record(path, c) ==
  LET fits == {n \in DOMAIN pins : IF path = NoPath THEN pins[n].cid = c
                                   ELSE pins[n].path = path}
  IN {pins[n] : n \in {n \in fits : \A m \in fits :
        pins[m].seq < pins[n].seq \/ (pins[m].seq = pins[n].seq /\ m <= n)}}

\* published_content_inventory: the pin record c is listed with, the sequence
\* of its path, and whether it shows as "relay_backed".  Content at several paths
\* is listed under one of them, which one is the hash map's choice.
published_content_inventory(c) ==
  LET current == current_local_paths
      here == {p \in DOMAIN current : current[p].cid = c}
      listed(path, n) == {[record |-> r, sequence |-> n, backed |-> r.cid = c /\ r.seq >= n] :
                            r \in matching_pin_record(path, c)}
  IN IF c \notin list_published_content(store) THEN {}
     ELSE IF here = {} THEN listed(NoPath, 0)
     ELSE UNION {listed(p, current[p].sequence) : p \in here}

\* The relay is asked about one pin.
check_relay_pin(c) ==
  IF ~relay.up THEN "relay_unreachable"
  ELSE IF IsPinned(relay.store, c) THEN "available" ELSE "missing_pin"

\* home_relay::availability, over every record that may be listed.
availability ==
  LET listed == UNION {published_content_inventory(c) : c \in Items}
      items == {check_relay_pin(item.record.cid) : item \in listed}
  IN IF items = {} THEN "unknown" ELSE IF items = {"available"} THEN "healthy" ELSE "degraded"

\* Content shown as relay_backed is pinned on the relay, unless the relay's
\* operator unpinned it; its bytes are there, unless an eviction interrupted by
\* a crash lost them; and the relay has seen the owner's log as far as the
\* entry that binds the path, as long as one identity has served (a record does
\* not say whose it is, and one of an earlier identity vouches for the path of
\* a later one).  A relay that answers and whose operator unpinned nothing is
\* never reported degraded, older versions that need a new pin included.  Pin
\* requests interleave with each other, with publishing, evictions, crashes of
\* both sides and changes of identity.
RelayBackedIsTrue ==
  Serving /\ relay.up =>
    /\ \A c \in Items : \A item \in {i \in published_content_inventory(c) : i.backed} :
         /\ check_relay_pin(c) = "available" \/ c \in relay.unpinned
         /\ c \in relay.store.files \/ c \in relay.unpinned \cup relay.cut
         /\ past.served = {Me} => relay.seen[Me] >= item.sequence
    /\ relay.unpinned = {} => availability # "degraded"
=============================================================================
