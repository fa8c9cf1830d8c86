----------------------------- MODULE WorkingSet -----------------------------
(***************************************************************************)
(* simulate_session_lru of analyze_v2_2_cache_working_set.py: the hits of  *)
(* an arrival trace in a cache of whole sessions that drops the least      *)
(* recently used ones.  Sizes and the capacity are in tokens; a session    *)
(* may have another size at each turn.                                     *)
(***************************************************************************)
EXTENDS Integers, Sequences, FiniteSets, SequencesExt, FiniteSetsExt

CONSTANTS Capacity

ASSUME WorkingSetAssumption == Capacity \in Nat

VARIABLES
    cache,    \* the OrderedDict: sessions with their sizes, the oldest first
    used, hits, reuses, seen,
    log       \* the uses so far (history)

simulated == <<cache, used, hits, reuses, seen, log>>

LRUInit ==
    /\ cache = <<>> /\ used = 0 /\ hits = 0 /\ reuses = 0 /\ seen = {}
    /\ log = <<>>

Uses == [session : Nat, size : Nat]
Sessions(uses) == {uses[i].session : i \in DOMAIN uses}

\* What the first n of some sizes add up to.
Sums(sizes) ==
    LET sum[n \in 0 .. Len(sizes)] == IF n = 0 THEN 0 ELSE sum[n - 1] + sizes[n]
    IN  sum
Sizes(uses) == [i \in DOMAIN uses |-> uses[i].size]
Tokens(uses) == Sums(Sizes(uses))[Len(uses)]

Place(session) == CHOOSE p \in DOMAIN cache : cache[p].session = session

\* Mutant: a hit leaves the session where it is.
RenewedInPlace(use) ==
    IF use.session \in Sessions(cache)
    THEN [cache EXCEPT ![Place(use.session)] = use] ELSE Append(cache, use)

\* pop(session), then append: the session becomes the most recent one.
Renewed(use) ==
    Append(IF use.session \in Sessions(cache) THEN RemoveAt(cache, Place(use.session)) ELSE cache,
           use)

\* used_tokens after the same.
Refilled(use) ==
    used + use.size
        - (IF use.session \in Sessions(cache) THEN cache[Place(use.session)].size ELSE 0)

\* while used > capacity and cache: popitem(last=False).  The number popped.
Evicted(entries, total) ==
    Min({n \in 0 .. Len(entries) :
            n = Len(entries) \/ total - Sums(Sizes(entries))[n] <= Capacity})

Use(use) ==
    LET entries == Renewed(use)
        n == Evicted(entries, Refilled(use))
    IN  /\ cache' = SubSeq(entries, n + 1, Len(entries))
        /\ used' = Refilled(use) - Sums(Sizes(entries))[n]
        /\ hits' = hits + (IF use.session \in Sessions(cache) THEN 1 ELSE 0)
        /\ reuses' = reuses + (IF use.session \in seen THEN 1 ELSE 0)
        /\ seen' = seen \cup {use.session}
        /\ log' = Append(log, use)

----------------------------------------------------------------------------
(* What the simulation is to count. *)

\* The session of the use k is used once more, up to j.
Again(uses, k, j) == \E m \in k + 1 .. j : uses[m].session = uses[k].session

\* The tokens of what was used from i up to j, each session as last used.
LastSizes(uses, j) == [k \in 1 .. j |-> IF Again(uses, k, j) THEN 0 ELSE uses[k].size]
Footprint(uses, i, j) == Sums(LastSizes(uses, j))[j] - Sums(LastSizes(uses, j))[i - 1]

\* A session is there at j if nothing since its last use ever needed more.
Stays(uses, i, j) == \A k \in i .. j : Footprint(uses, i, k) <= Capacity
Resident(s, j) ==
    \E i \in 1 .. j : log[i].session = s /\ ~Again(log, i, j) /\ Stays(log, i, j)

\* The cache is what an ideal LRU cache holds, whatever sizes the sessions
\* take, smaller or larger than the capacity; the running sum is that of its
\* contents; and a hit is counted for what an ideal LRU cache held, a reuse
\* for what was used before.
SimulatesLRU ==
    /\ Sessions(cache) = {s \in seen : Resident(s, Len(log))}
    /\ Cardinality(Sessions(cache)) = Len(cache)
    /\ used = Tokens(cache)
    /\ hits = Cardinality({i \in DOMAIN log : Resident(log[i].session, i - 1)})
    /\ reuses = Cardinality({i \in DOMAIN log : \E k \in 1 .. i - 1 : log[k].session = log[i].session})
=============================================================================
