------------------------------ MODULE ContentCache ------------------------------
(***************************************************************************)
(* The content store of jolt-store/src/store.rs: content the user          *)
(* published, which is never evicted, and a size-bounded cache of content  *)
(* fetched from others, with an index file that is rewritten in place.     *)
(* Pure operators on a store value; the modules that own a store hold it   *)
(* in a variable.  A store is a record                                     *)
(*   published  what stands under published/<id>: "whole", or "partial"    *)
(*              when a crash left no readable manifest beside the content  *)
(*   files      the ids with a directory under cache/                      *)
(*   index      the CacheIndex in memory: entries (id -> pinned) and total *)
(*   saved      cache_index.json: an index, or Torn                        *)
(* last_accessed is wall-clock time in whole seconds, so any order of the  *)
(* unpinned entries can be the eviction order: the order is left open.     *)
(***************************************************************************)
EXTENDS Naturals, FiniteSets, FiniteSetsExt, Functions, TLC

CONSTANTS SizeOf(_),      \* the length of a content's bytes
          MaxCacheSize    \* CacheConfig.max_size_bytes

Torn == [torn |-> TRUE]

NoEntries == [c \in {} |-> FALSE]

EmptyStore ==
  LET index == [entries |-> NoEntries, total |-> 0]
  IN [published |-> NoEntries, files |-> {}, index |-> index, saved |-> index]

\* ContentStore::open: an index that does not parse stops the opening.
CanOpen(s) == s.saved # Torn

Opened(s) == [s EXCEPT !.index = s.saved]

save_index(s) == [s EXCEPT !.saved = s.index]

cached_ids(s) == DOMAIN s.index.entries

published_ids(s) == DOMAIN s.published

has_content(s, c) == c \in published_ids(s) \/ c \in cached_ids(s)

\* get_content: the published copy with its manifest, else the cached file.
\* A hit of the cache also stamps last_accessed and rewrites the index.
get_content(s, c) ==
  \/ c \in published_ids(s) /\ s.published[c] = "whole"
  \/ c \in cached_ids(s) /\ c \in s.files

publish(s, c) == [s EXCEPT !.published = (c :> "whole") @@ @]

\* A crash inside publish: the directory or the content is there, the manifest not.
PublishCutShort(s, c) == {s, [s EXCEPT !.published = (c :> "partial") @@ @]}

\* Entries a listing shows: the ones whose manifest is readable.
list_published_content(s) == {c \in published_ids(s) : s.published[c] = "whole"}

IsPinned(s, c) == c \in cached_ids(s) /\ s.index.entries[c]

TotalSize(cs) == MapThenSumSet(SizeOf, cs)

\* Faulty: every entry may be evicted, the pinned ones too.
Evictable_Pinned(s) == cached_ids(s)

Evictable(s) == {c \in cached_ids(s) : ~s.index.entries[c]}

\* The sets evict_if_needed may remove: the loop stops at the entry that frees
\* enough.  No set at all is CacheFull, before anything is removed.
Evictions(s, required) ==
  LET wanted == s.index.total + required
      needed == wanted - MaxCacheSize
  IN IF wanted <= MaxCacheSize THEN {{}}
     ELSE {cs \in SUBSET Evictable(s) :
             /\ TotalSize(cs) >= needed
             /\ \E c \in cs : TotalSize(cs \ {c}) < needed}

Evicted(s, cs) ==
  save_index([s EXCEPT !.index = [entries |-> Restrict(@.entries, cached_ids(s) \ cs),
                                  total |-> @.total - TotalSize(cs)],
                       !.files = @ \ cs])

Inserted(s, c) ==
  save_index([s EXCEPT !.index = [entries |-> (c :> FALSE) @@ @.entries,
                                  total |-> @.total + SizeOf(c)],
                       !.files = @ \cup {c}])

\* The stores cache_content can leave; the empty set is CacheFull.  Content the
\* store already lists is not written again.
cache_content(s, c) ==
  IF has_content(s, c) THEN {s}
  ELSE {Inserted(Evicted(s, cs), c) : cs \in Evictions(s, SizeOf(c))}

\* What a crash inside cache_content leaves on disk: some of the evicted
\* directories gone, one of the two index writes torn, or the content written
\* and not yet indexed.
CacheCutShort(s, c) ==
  IF has_content(s, c) THEN {s}
  ELSE UNION {LET out == Evicted(s, cs)
                  written == [out EXCEPT !.files = @ \cup {c}]
              IN {[s EXCEPT !.files = @ \ gone] : gone \in SUBSET cs}
                 \cup {[out EXCEPT !.saved = Torn], out, written,
                       [written EXCEPT !.saved = Torn]}
                : cs \in Evictions(s, SizeOf(c))}

\* pin and unpin fail on content the index does not list.
pin(s, c) == save_index([s EXCEPT !.index.entries[c] = TRUE])

unpin(s, c) == save_index([s EXCEPT !.index.entries[c] = FALSE])

\* Entries the index lists and the disk no longer holds.
Unbacked(s) == cached_ids(s) \ s.files
=============================================================================
