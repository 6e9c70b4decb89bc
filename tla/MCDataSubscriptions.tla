------------------------ MODULE MCDataSubscriptions ------------------------
(* One subscription to two paths, as a client follows it. *)
EXTENDS DataSubscriptions

CONSTANTS p1, p2

\* A journal of one entry, which a client that pauses falls behind, evictions,
\* endings and failures.
OneEntry == [capacity |-> 1, changes |-> <<{<<p1, "remove">>}>>, faults |-> 1,
             evicts |-> TRUE, ends |-> TRUE]

\* A journal of two entries: deltas in order, coalesced states, partial trims.
TwoEntries == [capacity |-> 2, changes |-> <<{<<p1, "set">>}, {<<p2, "set">>}>>, faults |-> 0,
               evicts |-> FALSE, ends |-> FALSE]

BothJournals == {OneEntry, TwoEntries}
=============================================================================
