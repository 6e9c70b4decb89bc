------------------------- MODULE DataSubscriptions -------------------------
(***************************************************************************)
(* One Data Subscription of an app session and its Change Stream:          *)
(* jolt-server/src/data_change_streams.rs (the registry of streams and     *)
(* tombstones, one lock), session_store.rs (the session, the subscription  *)
(* and its refresh flags, another lock) and routes/app_api.rs (long poll,  *)
(* background refresh, announcement of local writes), with the client      *)
(* loop of sdks/js/src/data.ts that follows the cursor.                    *)
(*                                                                         *)
(* An action is what a task does between two awaits that let another task  *)
(* change what it read.  Time is nondeterministic: a deadline, an interval *)
(* or the idle timeout may pass whenever it is running.                    *)
(***************************************************************************)
EXTENDS Integers, Sequences, FiniteSets

CONSTANTS Paths,         \* record paths under the subscription's prefix
          Tasks,         \* bound: background refreshes alive at once
          Settings,      \* the journal's capacity, with the bounds it is tried under
          None

\* capacity: entries a journal keeps.  The bounds: what each change of the view
\* may do to which path, faults (failed refreshes and saves, restarts), and whether
\* streams are evicted and subscriptions end.
ASSUME SettingsAssumption ==
    Settings \subseteq [capacity : Nat \ {0}, changes : Seq(SUBSET (Paths \X {"set", "remove"})),
                      faults : Nat, evicts : BOOLEAN, ends : BOOLEAN]

VARIABLES view,       \* the daemon's materialized records: a revision by path, or None
          writes,     \* revisions handed out so far
          store,      \* AppSessionStore: the session and its subscription
          stream,     \* StreamRegistry::active[sub], or None
          terminal,   \* StreamRegistry::terminal[sub]: its event, or None
          task,       \* background refreshes
          writer,     \* a local publication announcing itself to the stream
          closing,    \* a removal or revocation between its two locks
          client,     \* the application's stream and its poll; client.lost is auxiliary:
                      \* the stream was evicted since the client's last snapshot
          faults,
          setting     \* never changed

vars == <<view, writes, store, stream, terminal, task, writer, closing, client,
          faults, setting>>

OrNone(S) == S \union {None}
Revisions == OrNone(Nat)
Views == [Paths -> Revisions]
Refreshes == {"loading", "updating", "ready", "stale", "unavailable"}

(***************************************************************************)
(* A cursor is the generation of the daemon's process and a sequence       *)
(* number: the number stands for a cursor of this process, Foreign for one *)
(* of an earlier process.                                                  *)
(***************************************************************************)
Foreign == -1
Cursors == Nat \union {Foreign, None}
Events == [seq : Nat, delta : UNION {[S -> Revisions] : S \in SUBSET Paths},
           refresh : OrNone(Refreshes)]

Idle == [phase |-> "idle", view |-> None, refresh |-> None]

Init == /\ view = [p \in Paths |-> 0]
        /\ writes = 0
        /\ store = [session |-> "active", sub |-> TRUE, refresh |-> "loading",
                    refreshing |-> FALSE,
                    disk |-> [session |-> "active", sub |-> TRUE, refresh |-> "loading"]]
        /\ stream = None
        /\ terminal = None
        /\ task = [t \in Tasks |-> Idle]
        /\ writer = Idle
        /\ closing = None
        /\ client = [phase |-> "idle", cursor |-> None, records |-> None,
                     refresh |-> None, view |-> None, known |-> None, lost |-> FALSE]
        /\ faults = 0
        /\ setting \in Settings

\* Bound: a behaviour has changes or faults, not both, and only where the
\* setting says so does a subscription that changes also end.
Undisturbed == setting.ends /\ writes = 0
Alive == store.session = "active" /\ store.sub

Fault == writes = 0 /\ faults < setting.faults /\ faults' = faults + 1
NoFault == UNCHANGED faults

(***************************************************************************)
(* The session store                                                       *)
(***************************************************************************)
\* What a reader of the subscription sees while a refresh is active.
Overlay(s) ==
    IF ~s.refreshing THEN s.refresh
    ELSE IF s.refresh \in {"ready", "stale", "updating"} THEN "updating" ELSE "loading"

\* save_state: the flags of the refresh are not part of the file.
Saved(s) == [s EXCEPT !.disk = [session |-> s.session, sub |-> s.sub, refresh |-> s.refresh]]

Unsubscribed(s) == [s EXCEPT !.sub = FALSE, !.refreshing = FALSE]

Started(s) ==
    /\ ~s.refreshing
    /\ store' = [s EXCEPT !.refreshing = TRUE]
    /\ \E t \in Tasks : /\ task[t].phase = "idle"
                        /\ task' = [task EXCEPT ![t].phase = "fetch"]

\* begin_background_data_subscription_refresh: a task is spawned, unless one
\* is active or the last began less than the refresh interval ago.
Begin(s) == Started(s) \/ (store' = s /\ UNCHANGED task)

\* The session's expires_at passes; nothing is told.
SessionExpires ==
    /\ Undisturbed
    /\ store.session = "active"
    /\ store' = [store EXCEPT !.session = "expired",
                              !.disk.session = IF @ = "active" THEN "expired" ELSE @]
    /\ UNCHANGED <<view, writes, stream, terminal, task, writer, closing, client, faults, setting>>

(***************************************************************************)
(* The stream registry                                                     *)
(***************************************************************************)
NewStream(records, refresh) ==
    [records |-> records, refresh |-> refresh, seq |-> 0, journal |-> << >>]

Last(s) == s[Len(s)]

\* push_event
Push(s, delta, refresh) ==
    LET all == Append(s.journal, [seq |-> s.seq + 1, delta |-> delta, refresh |-> refresh])
    IN  [s EXCEPT !.seq = @ + 1,
                  !.journal = IF Len(all) > setting.capacity THEN Tail(all) ELSE all]

NoDelta == [p \in {} |-> 0]

Delta(old, new) == [p \in {q \in Paths : old[q] # new[q]} |-> new[p]]

\* A State event replaces a State event at the end of the journal.
Coalesced(s) ==
    IF s.journal # << >> /\ Last(s.journal).refresh # None
    THEN [s EXCEPT !.journal = SubSeq(@, 1, Len(@) - 1)] ELSE s

\* publish_inner on an existing stream.
Published(s, records, refresh) ==
    LET delta == Delta(s.records, records)
        set == [s EXCEPT !.records = records, !.refresh = refresh]
        changed == IF delta # NoDelta THEN Push(set, delta, None) ELSE set
    IN  IF refresh # s.refresh THEN Push(Coalesced(changed), NoDelta, refresh) ELSE changed

Woken == IF client.phase = "waiting" THEN client' = [client EXCEPT !.phase = "polling"]
         ELSE UNCHANGED client

\* Faulty: only a change of the records wakes the polls.
Publish_RecordsOnly(records, refresh, register) ==
    CASE terminal # None -> UNCHANGED <<stream, client>>
      [] terminal = None /\ stream = None ->
            /\ stream' = IF register THEN NewStream(records, refresh) ELSE None
            /\ UNCHANGED client
      [] OTHER -> /\ stream' = Published(stream, records, refresh)
                  /\ IF stream.records # records THEN Woken ELSE UNCHANGED client

\* publish and publish_if_active (register: insert a missing stream).
Publish(records, refresh, register) ==
    CASE terminal # None -> UNCHANGED <<stream, client>>
      [] terminal = None /\ stream = None ->
            /\ stream' = IF register THEN NewStream(records, refresh) ELSE None
            /\ UNCHANGED client
      [] OTHER -> /\ stream' = Published(stream, records, refresh)
                  /\ IF stream'.seq # stream.seq THEN Woken ELSE UNCHANGED client

\* cancel_subscription and revoke_session: only a live stream leaves a tombstone.
Closed(event) ==
    /\ stream' = None
    /\ terminal' = IF stream = None THEN terminal ELSE event

(***************************************************************************)
(* The long poll (next_data_subscription_change, next_with_timeout)        *)
(***************************************************************************)
Following == client.phase \in {"polling", "waiting"}
InPoll == client.phase \in {"found", "read"} \/ Following

Ended == client' = [client EXCEPT !.phase = "ended", !.view = None, !.known = None]

\* The poll is over and the client keeps what it had.
Unanswered == client' = [client EXCEPT !.phase = "idle", !.view = None, !.known = None]

\* The poll is answered and the client applies the answer, or the answer is lost.
Answered(cursor, records, refresh, lost) ==
    \/ client' = [phase |-> "idle", cursor |-> cursor, records |-> records,
                  refresh |-> refresh, view |-> None, known |-> None, lost |-> lost]
    \/ Unanswered

Applied(event, records) ==
    [p \in Paths |-> IF p \in DOMAIN event.delta THEN event.delta[p] ELSE records[p]]

Snapshot(s) == Answered(s.seq, s.records, s.refresh, FALSE)
ResyncRequired == Answered(None, None, None, FALSE)
Change(event) ==
    Answered(event.seq, Applied(event, client.records),
             IF event.refresh = None THEN client.refresh ELSE event.refresh, client.lost)

\* Authentication, which saves the store, and lookup of the subscription.
StartPoll ==
    /\ client.phase = "idle"
    /\ IF store.session = "active" /\ store.sub
       THEN /\ client' = [client EXCEPT !.phase = "found", !.known = Overlay(store)]
            /\ store' = Saved(store)
       ELSE /\ Ended
            /\ store' = IF store.session = "expired"
                        THEN Saved(Unsubscribed(store)) ELSE store
    /\ UNCHANGED <<view, writes, stream, terminal, task, writer, closing, faults, setting>>

\* The snapshot the stream is created from should it be missing.
PollReads ==
    /\ client.phase = "found"
    /\ client' = [client EXCEPT !.phase = "read", !.view = view]
    /\ UNCHANGED <<view, writes, store, stream, terminal, task, writer, closing, faults, setting>>

\* A background refresh; the subscription may be gone by now.
PollBegins ==
    /\ client.phase = "read"
    /\ IF store.sub
       THEN /\ client' = [client EXCEPT !.phase = "polling"]
            /\ Begin(store)
       ELSE Ended /\ UNCHANGED <<store, task>>
    /\ UNCHANGED <<view, writes, stream, terminal, writer, closing, faults, setting>>

\* The events the journal holds beyond a sequence number.
Beyond(s, seq) == SelectSeq(s.journal, LAMBDA e : e.seq > seq)

\* Faulty: a client that misses one event is not behind the journal.
Lagging_OffByOne(s, seq) == s.journal # << >> /\ seq < s.journal[1].seq - 2

Lagging(s, seq) == s.journal # << >> /\ seq < s.journal[1].seq - 1

\* One pass of the loop in next_with_timeout, under the registry's lock.
Check ==
    /\ client.phase = "polling"
    /\ LET c == client.cursor
           created == NewStream(client.view, client.known)
       IN  IF c = Foreign THEN ResyncRequired /\ UNCHANGED stream
           ELSE IF terminal # None THEN Ended /\ UNCHANGED stream
           ELSE IF stream = None THEN stream' = created /\ Snapshot(created)
           ELSE /\ UNCHANGED stream
                /\ IF c = None THEN Snapshot(stream)
                   ELSE IF c > stream.seq THEN ResyncRequired
                   ELSE IF Lagging(stream, c) THEN Snapshot(stream)
                   ELSE IF Beyond(stream, c) # << >> THEN Change(Beyond(stream, c)[1])
                   ELSE client' = [client EXCEPT !.phase = "waiting"]
    /\ UNCHANGED <<view, writes, store, terminal, task, writer, closing, faults, setting>>

\* The long poll's deadline passes, or the client hangs up (one that does so
\* before the refresh has begun might as well not have asked).
PollTimeout ==
    /\ Following
    /\ Unanswered
    /\ UNCHANGED <<view, writes, store, stream, terminal, task, writer, closing, faults, setting>>

\* The poll's own timer for expires_at, or its periodic look at the session.
PollEnds ==
    /\ Following
    /\ store.session # "active"
    /\ Closed("revoked")
    /\ Ended
    /\ UNCHANGED <<view, writes, store, task, writer, closing, faults, setting>>

\* The periodic look at the subscription.
PollTick ==
    /\ Following
    /\ store.session = "active"
    /\ IF store.sub
       THEN Begin(store) /\ UNCHANGED <<stream, terminal, client>>
       ELSE /\ Closed("cancelled")
            /\ IF stream = None THEN UNCHANGED client ELSE Woken
            /\ UNCHANGED <<store, task>>
    /\ UNCHANGED <<view, writes, writer, closing, faults, setting>>

\* create_data_subscription (of an existing one) and get_data_subscription_view.
GetView ==
    /\ store.session = "active" /\ store.sub
    /\ Begin(Saved(store))
    /\ UNCHANGED <<view, writes, stream, terminal, writer, closing, client, faults, setting>>

(***************************************************************************)
(* The background refresh                                                  *)
(***************************************************************************)
Changed == /\ writes < Len(setting.changes) /\ faults = 0
           /\ Alive
           /\ writes' = writes + 1
           /\ \E c \in setting.changes[writes + 1] :
                 view' = [view EXCEPT ![c[1]] = IF c[2] = "set" THEN writes + 1 ELSE None]

\* complete_data_subscription_refresh
Completed(t, refresh) ==
    IF store.sub
    THEN /\ store' = Saved([store EXCEPT !.refreshing = FALSE, !.refresh = refresh])
         /\ task' = [task EXCEPT ![t] = [phase |-> "read", view |-> view', refresh |-> refresh]]
    ELSE /\ store' = [store EXCEPT !.refreshing = FALSE]
         /\ task' = [task EXCEPT ![t] = Idle]

\* The daemon's answer, which may have brought new records, is recorded, and
\* the snapshot is read again.  The store's save or the read may fail.
RefreshCompletes(t) ==
    /\ task[t].phase = "fetch"
    /\ \/ (Changed \/ UNCHANGED <<view, writes>>) /\ Completed(t, "ready") /\ NoFault
       \/ /\ UNCHANGED <<view, writes>>
          /\ \E r \in {"stale", "unavailable"} : Completed(t, r)
          /\ Fault
       \/ /\ store.sub
          /\ store' = [store EXCEPT !.refreshing = FALSE, !.refresh = "ready"]
          /\ task' = [task EXCEPT ![t] = Idle]
          /\ UNCHANGED <<view, writes>>
          /\ Fault
    /\ UNCHANGED <<stream, terminal, writer, closing, client, setting>>

\* Faulty: the records are published with a change of the refresh state only.
RefreshPublishes_StateOnly(t) ==
    /\ task[t].phase = "read"
    /\ IF stream # None /\ stream.refresh = task[t].refresh THEN UNCHANGED <<stream, client>>
       ELSE Publish(task[t].view, task[t].refresh, TRUE)
    /\ task' = [task EXCEPT ![t] = Idle]
    /\ UNCHANGED <<view, writes, store, terminal, writer, closing, faults, setting>>

RefreshPublishes(t) ==
    /\ task[t].phase = "read"
    /\ Publish(task[t].view, task[t].refresh, TRUE)
    /\ task' = [task EXCEPT ![t] = Idle]
    /\ UNCHANGED <<view, writes, store, terminal, writer, closing, faults, setting>>

(***************************************************************************)
(* A local publication (publish_local_record_change)                       *)
(***************************************************************************)
LocalWrite ==
    /\ writer.phase = "idle"
    /\ Changed
    /\ writer' = [writer EXCEPT !.phase = "written"]
    /\ UNCHANGED <<store, stream, terminal, task, closing, client, faults, setting>>

\* The subscription with its refresh state, whether its stream is active, and
\* the snapshot are read.
WriterReads ==
    /\ writer.phase = "written"
    /\ writer' = IF store.sub /\ stream # None
                 THEN [phase |-> "read", view |-> view, refresh |-> Overlay(store)]
                 ELSE Idle
    /\ UNCHANGED <<view, writes, store, stream, terminal, task, closing, client, faults, setting>>

WriterPublishes ==
    /\ writer.phase = "read"
    /\ Publish(writer.view, writer.refresh, FALSE)
    /\ writer' = Idle
    /\ UNCHANGED <<view, writes, store, terminal, task, closing, faults, setting>>

(***************************************************************************)
(* The end of a subscription                                               *)
(***************************************************************************)
\* remove_data_subscription, revoke_session and revoke_sessions_for_device:
\* the store first.  When its save fails the stream is left alone.
RemoveSubscription ==
    /\ Undisturbed
    /\ closing = None
    /\ store.session = "active" /\ store.sub
    /\ \/ /\ store' = Saved(Unsubscribed(store))
          /\ closing' = "cancelled"
          /\ NoFault
       \/ /\ store' = Unsubscribed(store)
          /\ UNCHANGED closing
          /\ Fault
    /\ UNCHANGED <<view, writes, stream, terminal, task, writer, client, setting>>

\* The route of the access manager (revoke_session_for_identity) leaves the
\* refresh flags behind.
RevokeSession ==
    /\ Undisturbed
    /\ closing = None
    /\ \E s \in {Unsubscribed(store), [store EXCEPT !.sub = FALSE]} :
         LET revoked == [s EXCEPT !.session = "revoked"]
         IN  \/ store' = Saved(revoked) /\ closing' = "revoked" /\ NoFault
             \/ store' = revoked /\ UNCHANGED closing /\ Fault
    /\ UNCHANGED <<view, writes, stream, terminal, task, writer, client, setting>>

\* ... then the stream, under the registry's lock.
CloseStream ==
    /\ closing # None
    /\ Closed(closing)
    /\ Woken
    /\ closing' = None
    /\ UNCHANGED <<view, writes, store, task, writer, faults, setting>>

\* Faulty: the registry's own reference to the notifier counts as a poll's.
EvictStream_OwnReference ==
    /\ stream # None
    /\ FALSE
    /\ UNCHANGED vars

\* evict_idle_registry: a poll that waits holds the stream's notifier.
EvictStream ==
    /\ stream # None
    /\ client.phase # "waiting"
    /\ setting.evicts
    /\ store.sub => ~client.lost   \* bound: once between two snapshots
    /\ stream' = None
    /\ client' = [client EXCEPT !.lost = client.cursor \in Nat]
    /\ UNCHANGED <<view, writes, store, terminal, task, writer, closing, faults, setting>>

EvictTombstone ==
    /\ terminal # None
    /\ terminal' = None
    /\ UNCHANGED <<view, writes, store, stream, task, writer, closing, client, faults, setting>>

\* The daemon stops and starts: streams and flags are gone, polls fail.
Restart ==
    /\ Fault
    /\ store' = [session |-> store.disk.session, sub |-> store.disk.sub,
                 refresh |-> store.disk.refresh, refreshing |-> FALSE,
                 disk |-> store.disk]
    /\ stream' = None
    /\ terminal' = None
    /\ task' = [t \in Tasks |-> Idle]
    /\ writer' = Idle
    /\ closing' = None
    /\ client' = [client EXCEPT !.phase = IF @ = "ended" THEN @ ELSE "idle",
                                !.cursor = IF @ = None THEN @ ELSE Foreign,
                                !.view = None, !.known = None, !.lost = FALSE]
    /\ UNCHANGED <<view, writes, setting>>

Next == \/ StartPoll \/ PollReads \/ PollBegins \/ Check
        \/ PollTimeout \/ PollEnds \/ PollTick \/ GetView
        \/ \E t \in Tasks : RefreshCompletes(t) \/ RefreshPublishes(t)
        \/ LocalWrite \/ WriterReads \/ WriterPublishes
        \/ RemoveSubscription \/ RevokeSession \/ CloseStream
        \/ SessionExpires \/ EvictStream \/ EvictTombstone \/ Restart

(***************************************************************************)
(* Every task of the server makes progress (tokio polls a ready task, and  *)
(* the daemon answers a refresh or times it out), and so do its clocks; an *)
(* application that follows its stream asks again after each answer.       *)
(* Failures, evictions of a live subscription, writes, removals and        *)
(* revocations need not happen.                                            *)
(***************************************************************************)
Delivered == Check /\ (client'.cursor # client.cursor \/ client'.phase # "idle")
Begun == PollBegins /\ store'.refreshing /\ ~store.refreshing

\* The steps of one task: no two of them are enabled at once.
Polls == StartPoll \/ PollReads \/ PollBegins \/ Check
Announces == WriterReads \/ WriterPublishes

Fairness ==
    /\ WF_vars(Polls) /\ SF_vars(Begun) /\ SF_vars(Delivered)
    /\ WF_vars(client.phase = "waiting" /\ PollTimeout) /\ WF_vars(PollEnds)
    /\ \A t \in Tasks : WF_vars(RefreshCompletes(t) \/ RefreshPublishes(t))
    /\ WF_vars(Announces)
    /\ WF_vars(CloseStream) /\ WF_vars(~store.sub /\ EvictStream)

Spec == Init /\ [][Next]_vars

FairSpec == Spec /\ Fairness

-----------------------------------------------------------------------------

\* The shape of the state; the journal never exceeds its capacity (push_event).
TypeOK ==
    /\ view \in Views
    /\ setting \in Settings
    /\ writes \in 0..Len(setting.changes)
    /\ store \in [session : {"active", "expired", "revoked"}, sub : BOOLEAN,
                  refresh : Refreshes, refreshing : BOOLEAN,
                  disk : [session : {"active", "expired", "revoked"}, sub : BOOLEAN,
                          refresh : Refreshes]]
    /\ stream \in OrNone([records : Views, refresh : Refreshes, seq : Nat,
                          journal : Seq(Events)])
    /\ stream # None => Len(stream.journal) <= setting.capacity
    /\ terminal \in {None, "cancelled", "revoked"}
    /\ task \in [Tasks -> [phase : {"idle", "fetch", "read"}, view : OrNone(Views),
                           refresh : OrNone(Refreshes)]]
    /\ writer \in [phase : {"idle", "written", "read"}, view : OrNone(Views),
                   refresh : OrNone(Refreshes)]
    /\ closing \in {None, "cancelled", "revoked"}
    /\ client \in [phase : {"idle", "found", "read", "polling", "waiting", "ended"}, cursor : Cursors,
                   records : OrNone(Views), refresh : OrNone(Refreshes),
                   view : OrNone(Views), known : OrNone(Refreshes), lost : BOOLEAN]
    /\ faults \in 0..setting.faults

\* The client's records and refresh state once it has applied some events.
After(events) ==
    LET Changes(p) == {i \in DOMAIN events : p \in DOMAIN events[i].delta}
        States == {i \in DOMAIN events : events[i].refresh # None}
        Latest(S) == CHOOSE i \in S : \A j \in S : j <= i
    IN  [records |-> [p \in Paths |-> IF Changes(p) = {} THEN client.records[p]
                                      ELSE events[Latest(Changes(p))].delta[p]],
         refresh |-> IF States = {} THEN client.refresh ELSE events[Latest(States)].refresh]

\* A client of the live subscription that asks with this cursor reads the
\* journal on from there.
Resumes == /\ store.sub /\ client.phase # "ended"
           /\ client.cursor \in Nat /\ stream # None
           /\ client.cursor <= stream.seq
           /\ ~Lagging(stream, client.cursor)

CatchesUp == LET now == After(Beyond(stream, client.cursor))
             IN  now.records = stream.records /\ now.refresh = stream.refresh

(***************************************************************************)
(* A client whose cursor the stream it came from still serves, without a   *)
(* snapshot, ends with that stream's records and refresh state when it     *)
(* applies the journal's deltas in order: bounding the journal, coalescing *)
(* State events (data_change_streams.rs:359) and losing answers never      *)
(* drops a delta it needs.                                                 *)
(***************************************************************************)
FollowersMissNothing ==
    Resumes /\ ~client.lost => CatchesUp

(***************************************************************************)
(* A poll that sleeps has seen everything: its stream is in the registry   *)
(* at the poll's cursor and there is no tombstone, so neither a            *)
(* publication, nor a cancellation, nor an eviction between the lock and   *)
(* the wait (data_change_streams.rs:227) loses its wake-up.                *)
(***************************************************************************)
SleepersAreCurrent ==
    client.phase = "waiting" =>
        /\ stream # None /\ terminal = None
        /\ client.cursor = stream.seq

(***************************************************************************)
(* When the view no longer changes, a client that keeps polling a live     *)
(* subscription holds it in the end, although it may have been given stale *)
(* snapshots on the way: the refresh each poll starts corrects them        *)
(* (app_api.rs:793, 948).  Excepted is a client whose cursor is that of an *)
(* evicted stream: its number may fall within the new stream's journal.    *)
(***************************************************************************)
FollowersCatchUp ==
    []<>(client.phase = "ended" \/ client.records = view \/ client.lost)

(***************************************************************************)
(* Once the subscription is gone, by removal, revocation or expiry, a poll *)
(* that was under way is answered, and a stream that a late poll or a late *)
(* refresh put back (neither finds a tombstone when there was no stream to *)
(* cancel, data_change_streams.rs:381) is collected.                       *)
(***************************************************************************)
RemovedIsForgotten ==
    /\ (~store.sub ~> (store.sub \/ ~InPoll))
    /\ (~store.sub ~> (store.sub \/ stream = None))
=============================================================================
