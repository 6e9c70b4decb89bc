----------------------------- MODULE RelayBooks -----------------------------
(***************************************************************************)
(* The two address books a node gossips: the identity-head hint book       *)
(* (jolt-network node/identity_heads.rs, in memory) and the relay address  *)
(* book (jolt-store store.rs, relay_records.json).  Both are pure          *)
(* operators here; RelayMesh holds one of each per node.                   *)
(*                                                                         *)
(* Peer ids, identities and relay ids are naturals, so that the code's     *)
(* orderings on their strings are an order here too.                       *)
(***************************************************************************)
EXTENDS Naturals, Sequences, FiniteSets, Functions

CONSTANTS Identities,      \* a finite set of naturals
          HintLife,        \* RELAY_RECORD_TTL_SECS, for hints
          RecordLife,      \* RELAY_RECORD_TTL_SECS, for relay records
          PerIdentity,     \* IDENTITY_HEAD_HINT_MAX_PER_IDENTITY
          GlobalMax,       \* IDENTITY_HEAD_HINT_MAX_GLOBAL
          ExchangeMax,     \* IDENTITY_HEAD_HINT_EXCHANGE_MAX
          RecordsMax,      \* RELAY_EXCHANGE_MAX_RECORDS
          StoredMax        \* MAX_STORED_RELAY_RECORDS

\* A loop over a list: Body takes what the loop has so far and the next element.
Loop(Body(_, _), start, list) ==
    MapThenFoldSet(LAMBDA k, sofar : Body(sofar, list[k]), start, LAMBDA k : k,
                   LAMBDA ks : CHOOSE k \in ks : \A j \in ks : j <= k, DOMAIN list)

\* The elements of a set, in a strict total order.
SortedBy(set, Before(_, _)) ==
    [k \in 1..Cardinality(set) |->
        CHOOSE x \in set : Cardinality({y \in set : Before(y, x)}) = k - 1]

(***************************************************************************)
(* Identity-head hints.  The signature is the name of the key that made it. *)
(***************************************************************************)

\* IdentityHeadHint::new, signed by the identity's owner.
NewHint(identity, provider, sequence, now) ==
    [identity |-> identity, provider |-> provider, sequence |-> sequence,
     observed |-> now, expires |-> now + HintLife, signer |-> identity]

\* verify_at: the owner's key signed the body, and it has not expired.
HintIsGood(hint, now) ==
    /\ hint.signer = hint.identity
    /\ hint.expires > hint.observed
    /\ hint.expires > now

\* The order of sort_by in record_many: newer head first, then later expiry.
RanksAtLeast(a, b) ==
    \/ a.sequence > b.sequence
    \/ a.sequence = b.sequence /\ a.expires >= b.expires

\* push or replace, the stable sort and truncate, on a list that is sorted.
Ranked(hints, hint) ==
    LET above == SelectSeq(hints, LAMBDA h : RanksAtLeast(h, hint))
        below == SelectSeq(hints, LAMBDA h : ~RanksAtLeast(h, hint))
        all == above \o <<hint>> \o below
    IN  SubSeq(all, 1, IF Len(all) < PerIdentity THEN Len(all) ELSE PerIdentity)

\* prune: what has expired is dropped.
PrunedBook(book, now) ==
    [i \in Identities |-> SelectSeq(book[i], LAMBDA h : HintIsGood(h, now))]

\* Faulty: a hint replaces the one of the same provider whatever its sequence.
RecordHint_Any(book, hint, now) ==
    LET others == SelectSeq(book[hint.identity],
                            LAMBDA h : h.provider # hint.provider)
    IN  IF ~HintIsGood(hint, now) THEN book
        ELSE [book EXCEPT ![hint.identity] = Ranked(others, hint)]

\* One round of the loop of record_many: a provider's hint is replaced only by
\* one with a newer head.
RecordHint(book, hint, now) ==
    LET known == Range(book[hint.identity])
        others == SelectSeq(book[hint.identity],
                            LAMBDA h : h.provider # hint.provider)
        stale == \E h \in known :
                    h.provider = hint.provider /\ hint.sequence <= h.sequence
    IN  IF ~HintIsGood(hint, now) \/ stale THEN book
        ELSE [book EXCEPT ![hint.identity] = Ranked(others, hint)]

\* enforce_global_bound: at most GlobalMax hints stay, the highest ranked ones;
\* the sort sees a hash map's order, so ties are broken either way.
BoundedBooks(book) ==
    LET all == UNION {Range(book[i]) : i \in Identities}
        Kept(keep) == [i \in Identities |->
                          SelectSeq(book[i], LAMBDA h : h \in keep)]
        Keeps(keep) == \A a \in keep, b \in all \ keep : RanksAtLeast(a, b)
    IN  IF Cardinality(all) <= GlobalMax THEN {book}
        ELSE {Kept(keep) : keep \in {k \in SUBSET all :
                              Cardinality(k) = GlobalMax /\ Keeps(k)}}

\* record_many: the books a batch of hints may leave behind.
record_many(book, hints, now) ==
    LET batch == SubSeq(hints, 1, IF Len(hints) < ExchangeMax
                                  THEN Len(hints) ELSE ExchangeMax)
    IN  BoundedBooks(Loop(LAMBDA b, h : RecordHint(b, h, now),
                          PrunedBook(book, now), batch))

\* The hint exchange_batch offers of an identity: newest head, latest expiry,
\* last provider.
BestHint(hints) ==
    CHOOSE best \in hints : \A h \in hints :
        \/ ~RanksAtLeast(h, best)
        \/ RanksAtLeast(best, h) /\ best.provider >= h.provider

FreshHints(book, identity, now) ==
    {h \in Range(book[identity]) : HintIsGood(h, now)}

\* exchange_batch: a window over the identities with a fresh hint, in their
\* order, from the book's one cursor; the cursor moves behind the window.
exchange_batch(book, cursor, now, limit) ==
    LET fresh == {i \in Identities : FreshHints(book, i, now) # {}}
        order == SortedBy(fresh, <)
        total == Len(order)
        start == cursor % total
        width == CHOOSE w \in {limit, ExchangeMax, total} :
                    w <= limit /\ w <= ExchangeMax /\ w <= total
        At(offset) == order[((start + offset) % total) + 1]
    IN  IF fresh = {} THEN [hints |-> <<>>, cursor |-> 0]
        ELSE [hints |-> [k \in 1..width |->
                            BestHint(FreshHints(book, At(k - 1), now))],
              cursor |-> (start + width) % total]

\* candidates: the providers of the fresh hints, best first.
HintedProviders(book, identity, now) ==
    LET fresh == SelectSeq(book[identity], LAMBDA h : HintIsGood(h, now))
    IN  [k \in 1..Len(fresh) |-> fresh[k].provider]

\* diagnose: what the book says of an identity.
DiagnosedHints(book, identity, now) ==
    LET fresh == FreshHints(book, identity, now)
    IN  [fresh |-> Cardinality(fresh),
         expired |-> Len(book[identity]) - Cardinality(fresh),
         latest |-> IF fresh = {} THEN 0 ELSE BestHint(fresh).sequence]

(***************************************************************************)
(* Relay records.                                                          *)
(***************************************************************************)

\* RelayRecord::new, as local_relay_record calls it.
NewRecord(relay, now) ==
    [relay |-> relay, observed |-> now, expires |-> now + RecordLife,
     signer |-> relay]

\* verify_at.
RecordIsGood(record, now) ==
    /\ record.signer = record.relay
    /\ record.expires > record.observed
    /\ record.expires > now

\* sort_by_key(Reverse(last_seen)) and truncate of a list in which `entry` has
\* just been seen: it moves up to, and behind, those seen at the same time.
MovedUp(stored, entry) ==
    LET above == SelectSeq(stored, LAMBDA s : s.seen >= entry.seen)
        below == SelectSeq(stored, LAMBDA s : s.seen < entry.seen)
        all == above \o <<entry>> \o below
    IN  SubSeq(all, 1, IF Len(all) < StoredMax THEN Len(all) ELSE StoredMax)

\* record_relay_record: an older record refreshes last_seen and nothing else.
record_relay_record(stored, record, now) ==
    LET known == {k \in DOMAIN stored : stored[k].record.relay = record.relay}
        old == stored[CHOOSE k \in known : TRUE]
        kept == IF record.observed >= old.record.observed
                THEN record ELSE old.record
        same == [k \in DOMAIN stored |->
                    IF k \in known THEN [record |-> kept, seen |-> now]
                    ELSE stored[k]]
    IN  IF ~RecordIsGood(record, now) THEN stored
        ELSE IF known # {} /\ old.seen = now THEN same
        ELSE MovedUp(SelectSeq(stored,
                               LAMBDA s : s.record.relay # record.relay),
                     [record |-> IF known = {} THEN record ELSE kept,
                      seen |-> now])

\* store_relay_records.
store_relay_records(stored, records, now) ==
    LET batch == SubSeq(records, 1, IF Len(records) < RecordsMax
                                    THEN Len(records) ELSE RecordsMax)
    IN  Loop(LAMBDA s, r : record_relay_record(s, r, now), stored, batch)

\* load_relay_records.
load_relay_records(stored, now) ==
    LET good == SelectSeq(stored, LAMBDA s : RecordIsGood(s.record, now))
    IN  [k \in 1..Len(good) |-> good[k].record]

\* relay_records_for_exchange: the good stored records and, in relay mode, the
\* node's own, by relay id.  dedup_by keeps the first of two, so a copy of the
\* own record that came back from a peer hides the one made now.
relay_records_for_exchange(stored, own, limit, now) ==
    LET loaded == Range(load_relay_records(stored, now))
        fresh == {r \in own : \A s \in loaded : s.relay # r.relay}
        order == SortedBy(loaded \cup fresh,
                          LAMBDA a, b : a.relay < b.relay)
        width == CHOOSE w \in {limit, RecordsMax, Len(order)} :
                    w <= limit /\ w <= RecordsMax /\ w <= Len(order)
    IN  SubSeq(order, 1, width)
=============================================================================
