---------------------------- MODULE CacheAdapter ----------------------------
(***************************************************************************)
(* The in-memory cache of chat answers                                     *)
(* (api/infrastructure/adapters/cache_adapter.py), as operators on its     *)
(* dict: a function from the cached keys to entries [value, exp, last].    *)
(* No method suspends, so each is one step of whoever calls it.            *)
(***************************************************************************)
EXTENDS Naturals, FiniteSets

CONSTANT MaxEntries    \* MAX_CACHE_ENTRIES

Empty == <<>>

\* The entries of the keys in ks alone.
Kept(cache, ks) == [k \in ks |-> cache[k]]

\* Mutant of Hit: an entry is good until the clean-up finds it.
HitAnyAge(cache, k, t) == k \in DOMAIN cache

Hit(cache, k, t) == k \in DOMAIN cache /\ t < cache[k].exp

\* Mutant of AfterGets: a hit does not count as a use.
AfterIdleGets(cache, ks, t) ==
    Kept(cache, {k \in DOMAIN cache : k \in ks => Hit(cache, k, t)})

\* get of every key in ks: a hit is a use, an expired entry is dropped.
AfterGets(cache, ks, t) ==
    [k \in {k \in DOMAIN cache : k \in ks => Hit(cache, k, t)} |->
        IF k \in ks THEN [cache[k] EXCEPT !.last = t] ELSE cache[k]]

\* min(..., key=last access).  Entries used within one tick were used at
\* different times of it, or are in some order in the dict: each may be first.
Oldest(cache) == {k \in DOMAIN cache : \A x \in DOMAIN cache : cache[k].last <= cache[x].last}

\* Mutant of Room: makes room one entry too late.
RoomLate(cache, k) ==
    IF Cardinality(DOMAIN cache) > MaxEntries /\ k \notin DOMAIN cache
    THEN {Kept(cache, DOMAIN cache \ {old}) : old \in Oldest(cache)}
    ELSE {cache}

\* What may be left when there is room for k: a new key in a full cache costs
\* one entry.
Room(cache, k) ==
    IF Cardinality(DOMAIN cache) >= MaxEntries /\ k \notin DOMAIN cache
    THEN {Kept(cache, DOMAIN cache \ {old}) : old \in Oldest(cache)}
    ELSE {cache}

\* Mutant of Stored: keeps the value that is there.
StoredFirst(cache, k, v, t, ttl) ==
    [x \in DOMAIN cache \cup {k} |->
        IF x \in DOMAIN cache THEN cache[x] ELSE [value |-> v, exp |-> t + ttl, last |-> t]]

\* Mutant of Stored: a stored entry has not been used yet.
StoredUnused(cache, k, v, t, ttl) ==
    [x \in DOMAIN cache \cup {k} |->
        IF x = k THEN [value |-> v, exp |-> t + ttl, last |-> 0] ELSE cache[x]]

\* The assignment of set: an entry that is there is replaced.
Stored(cache, k, v, t, ttl) ==
    [x \in DOMAIN cache \cup {k} |->
        IF x = k THEN [value |-> v, exp |-> t + ttl, last |-> t] ELSE cache[x]]

\* set, one cache for each entry that may have to go.
AfterSet(cache, k, v, t, ttl) == {Stored(room, k, v, t, ttl) : room \in Room(cache, k)}

\* One round of _cleanup_loop.
AfterCleanup(cache, t) == Kept(cache, {k \in DOMAIN cache : t < cache[k].exp})
=============================================================================
