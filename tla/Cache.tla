------------------------------- MODULE Cache -------------------------------
(***************************************************************************)
(* The cache executor: lookups, lazy refreshes, pruning, the periodic and  *)
(* the final dump, the load at start and the management calls              *)
(* (src/src/plugin/executor/cache/ and src/src/infra/cache/ttl.rs).        *)
(*                                                                         *)
(* Times are in seconds.  All deadlines are kept on AppClock, which starts *)
(* at 0 with the process; `uptime` is the time the service has been up     *)
(* altogether.  The key of an entry stands for its question; entries that  *)
(* the code tells apart by their identity carry an id.  An entry ages in   *)
(* the cache only (born, trueAge): what passes between a dump and its load *)
(* is in neither, since no record says when it was written.                *)
(***************************************************************************)
EXTENDS Integers, FiniteSets

CONSTANTS
    Keys,         \* the cache keys that are followed
    Clients,      \* query tasks
    Refreshers,   \* background refresh tasks
    None,         \* no entry, no task, no answer
    Ttls,         \* TTLs of the answers the next executors give
    LazyTtl,      \* lazy_cache_ttl, None when it is not set
    MinTtl,       \* min_positive_ttl
    Threshold,    \* MINIMUM_CHANGES_TO_DUMP
    Crashes,      \* whether the process may crash
    MaxUptime     \* bound: the clock stops here

ASSUME CacheAssumption ==
    /\ Ttls \subseteq Nat /\ MinTtl \in Nat
    /\ LazyTtl = None \/ LazyTtl \in Nat
    /\ Threshold \in Nat \ {0}
    /\ IsFiniteSet(Keys) /\ IsFiniteSet(Refreshers) /\ None \notin Keys

Ids == 1 .. 2 * Cardinality(Keys) + Cardinality(Refreshers)

VARIABLES
    now,        \* AppClock::elapsed_millis
    uptime,     \* the time the service has been up, over all processes
    phase,      \* "up", "closing" (destroy), "stopped" or "crashed"
    entries,    \* per key: the cached item or None
    updated,    \* updated_keys, counted up to Threshold
    inflight,   \* lazy_refresh_inflight
    asking,     \* per client: the key it asks the next executors for, or None
    refresh,    \* per refresher: its key, the item it refreshes, its stage
    overtaken,  \* ghost: refreshers whose entry was replaced or taken away since
    abandoned,  \* keys whose refresh died in a panic
    loading,    \* the load task has not run yet
    dump,       \* the snapshot being written beside the dump file, or None
    file        \* the dump file's records (the rename leaves it whole)

vars == <<now, uptime, phase, entries, updated, inflight, asking, refresh,
          overtaken, abandoned, loading, dump, file>>

Max2(a, b) == IF a > b THEN a ELSE b
Min2(a, b) == IF a < b THEN a ELSE b
Nothing == [k \in Keys |-> None]
Idle == [key |-> None, from |-> None, stage |-> "idle"]

Init ==
    /\ now = 0 /\ uptime = 0 /\ phase = "up"
    /\ entries = Nothing /\ updated = 0
    /\ inflight = {} /\ abandoned = {}
    /\ asking = [c \in Clients |-> None]
    /\ refresh = [r \in Refreshers |-> Idle] /\ overtaken = {}
    /\ loading = FALSE /\ dump = None
    /\ file = Nothing
-----------------------------------------------------------------------------
(***************************************************************************)
(* Entries.                                                                *)
(***************************************************************************)
Cached(k) == entries[k] # None
Retained(item) == now < item.expire
Fresh(item) == now < item.fresh

\* Mutant: a refresh keeps the address of its entry but not the entry, so that
\* a later one may come to lie there.
FreeIdsOfEntries == Ids \ {entries[k].id : k \in {x \in Keys : Cached(x)}}

\* Identities that neither an entry nor a refresh refers to.
FreeIds == Ids \ ({entries[k].id : k \in {x \in Keys : Cached(x)}}
                    \cup {refresh[r].from : r \in Refreshers})
NewId == CHOOSE i \in FreeIds : \A j \in FreeIds : i <= j

\* An answer: positive or negative with its TTL, or nothing to cache (an
\* error, a truncated or incomplete response, no response).
Answers == [positive : BOOLEAN, ttl : Ttls] \cup {None}
TooLow(answer) == answer # None /\ answer.positive
                    /\ answer.ttl > 0 /\ answer.ttl < MinTtl
Cacheable(answer) == answer # None /\ answer.ttl > 0 /\ ~TooLow(answer)

\* Mutant: the fresh window is the whole retention.
ItemAlwaysFresh(answer) ==
    [id |-> NewId, positive |-> answer.positive, ttl |-> answer.ttl,
     cached |-> now,
     fresh |-> now + (IF LazyTtl # None /\ answer.positive
                      THEN Max2(answer.ttl, LazyTtl) ELSE answer.ttl),
     expire |-> now + (IF LazyTtl # None /\ answer.positive
                       THEN Max2(answer.ttl, LazyTtl) ELSE answer.ttl),
     born |-> uptime, renewed |-> FALSE]

\* compute_fresh_until_ms and compute_expire_time: only positive answers are
\* retained beyond their TTL.
Item(answer) ==
    [id |-> NewId, positive |-> answer.positive, ttl |-> answer.ttl,
     cached |-> now,
     fresh |-> now + answer.ttl,
     expire |-> now + (IF LazyTtl # None /\ answer.positive
                       THEN Max2(answer.ttl, LazyTtl) ELSE answer.ttl),
     born |-> uptime, renewed |-> FALSE]

\* One more change; only the comparison with Threshold matters.
Counted == Min2(updated + 1, Threshold)

\* remove_expired_with_limit and evict_lru_sampled.  The cache is crowded by
\* keys that are not followed, so that any followed entry may be among the
\* sampled ones that are evicted, or none.
Pruned(table) ==
    {[k \in Keys |-> IF k \in S THEN table[k] ELSE None] :
        S \in SUBSET {k \in Keys : table[k] # None /\ Retained(table[k])}}

\* History: the refreshes under way whose key is written anew, or loses its
\* entry.
Overtakes(written) ==
    LET lost == {k \in Keys : Cached(k) /\ entries'[k] = None}
    IN  overtaken' = overtaken \cup
            {r \in Refreshers : refresh[r].key \in written \cup lost}
-----------------------------------------------------------------------------
(***************************************************************************)
(* Queries.                                                                *)
(***************************************************************************)
Running == phase \in {"up", "closing"}

\* Mutant: a second refresh is started for a key.
ClaimRefreshAlways(k) == TRUE

\* try_start_lazy_refresh: the key enters the in-flight set first.
ClaimRefresh(k) == k \notin inflight

StartRefresh(k) ==
    IF ClaimRefresh(k)
    THEN LET idle == {r \in Refreshers : refresh[r].stage = "idle"}
             r == CHOOSE x \in idle : TRUE
         IN  /\ idle # {}
             /\ refresh' = [refresh EXCEPT ![r] =
                    [key |-> k, from |-> entries[k].id, stage |-> "asking"]]
             /\ inflight' = inflight \cup {k}
    ELSE UNCHANGED <<refresh, inflight>>

\* A fresh hit answers from the cache and changes nothing.
FreshHit(c, k) ==
    /\ Running /\ asking[c] = None
    /\ Cached(k) /\ Retained(entries[k]) /\ Fresh(entries[k])
    /\ UNCHANGED vars

\* A stale hit answers from the cache and starts a refresh.
StaleHit(c, k) ==
    /\ Running /\ asking[c] = None
    /\ Cached(k) /\ Retained(entries[k]) /\ ~Fresh(entries[k])
    /\ LazyTtl # None
    /\ StartRefresh(k)
    /\ UNCHANGED <<now, uptime, phase, entries, updated, asking, overtaken,
                   abandoned, loading, dump, file>>

\* A miss removes an expired entry and asks the next executors.
Miss(c, k) ==
    /\ Running /\ asking[c] = None
    /\ Cached(k) => ~Retained(entries[k])
    /\ entries' = [entries EXCEPT ![k] = None]
    /\ Overtakes({})
    /\ asking' = [asking EXCEPT ![c] = k]
    /\ UNCHANGED <<now, uptime, phase, updated, inflight, refresh, abandoned,
                   loading, dump, file>>

\* update_cache_entry with maybe_prune_after_insert, which may skip the prune.
Answer(c) ==
    /\ asking[c] # None
    /\ \E answer \in Answers :
        IF Cacheable(answer)
        THEN LET table == [entries EXCEPT ![asking[c]] = Item(answer)]
             IN  /\ updated' = Counted
                 /\ entries' \in {table} \cup Pruned(table)
                 /\ Overtakes({asking[c]})
        ELSE UNCHANGED <<entries, updated, overtaken>>
    /\ asking' = [asking EXCEPT ![c] = None]
    /\ UNCHANGED <<now, uptime, phase, inflight, refresh, abandoned, loading,
                   dump, file>>
-----------------------------------------------------------------------------
(***************************************************************************)
(* Background refreshes.                                                   *)
(***************************************************************************)
Stage(r, stage) == refresh' = [refresh EXCEPT ![r].stage = stage]

\* remove_if: the entry is still the one the refresh was started for.  The same
\* Arc has the same times, so that comparing them too tells nothing more.
SameEntry(r) == Cached(refresh[r].key) /\ entries[refresh[r].key].id = refresh[r].from

\* The next executors answer in time, or fail, or the timeout strikes.
RefreshAnswer(r) ==
    /\ refresh[r].stage = "asking"
    /\ \E answer \in Answers :
        \/ /\ Cacheable(answer)
           /\ entries' = [entries EXCEPT ![refresh[r].key] = Item(answer)]
           /\ Overtakes({refresh[r].key}) /\ updated' = Counted
        \/ /\ TooLow(answer) /\ SameEntry(r)
           /\ entries' = [entries EXCEPT ![refresh[r].key] = None]
           /\ Overtakes({}) /\ updated' = Counted
        \/ /\ ~Cacheable(answer) /\ ~(TooLow(answer) /\ SameEntry(r))
           /\ UNCHANGED <<entries, updated, overtaken>>
    /\ Stage(r, "answered")
    /\ UNCHANGED <<now, uptime, phase, inflight, asking, abandoned, loading,
                   dump, file>>

\* Mutant: the key stays in flight.
RefreshEndKeeping(r) ==
    /\ refresh[r].stage = "answered"
    /\ refresh' = [refresh EXCEPT ![r] = Idle] /\ overtaken' = overtaken \ {r}
    /\ UNCHANGED <<now, uptime, phase, entries, updated, inflight, asking,
                   abandoned, loading, dump, file>>

RefreshEnd(r) ==
    /\ refresh[r].stage = "answered"
    /\ inflight' = inflight \ {refresh[r].key}
    /\ refresh' = [refresh EXCEPT ![r] = Idle] /\ overtaken' = overtaken \ {r}
    /\ UNCHANGED <<now, uptime, phase, entries, updated, asking, abandoned,
                   loading, dump, file>>

\* An executor behind the cache panics: the task ends where it stands.
RefreshPanic(r) ==
    /\ refresh[r].stage = "asking"
    /\ refresh' = [refresh EXCEPT ![r] = Idle] /\ overtaken' = overtaken \ {r}
    /\ abandoned' = abandoned \cup {refresh[r].key}
    /\ UNCHANGED <<now, uptime, phase, entries, updated, inflight, asking,
                   loading, dump, file>>
-----------------------------------------------------------------------------
(***************************************************************************)
(* Maintenance: cleanup, dump and load.                                    *)
(***************************************************************************)
\* prune_cache_periodic.
Cleanup ==
    /\ phase = "up"
    /\ entries' \in Pruned(entries)
    /\ Overtakes({})
    /\ UNCHANGED <<now, uptime, phase, updated, inflight, asking, refresh,
                   abandoned, loading, dump, file>>

\* PersistedCacheEntry; trueAge and renewed are history.
Record(item) ==
    [positive |-> item.positive, ttl |-> item.ttl, age |-> now - item.cached,
     remaining |-> item.expire - now, trueAge |-> uptime - item.born,
     renewed |-> item.renewed]

\* dump_cache_to_bytes.
Snapshot ==
    [k \in Keys |-> IF Cached(k) /\ Retained(entries[k])
                    THEN Record(entries[k]) ELSE None]

\* dump_cache_to_file writes a temporary file ...
BeginDump ==
    /\ dump' = Snapshot
    /\ UNCHANGED file

\* ... and renames it, or fails before that.
FinishDump ==
    /\ dump # None
    /\ \/ file' = dump
       \/ UNCHANGED file
    /\ dump' = None

\* One run of the periodic dump task.
PeriodicDump ==
    /\ phase = "up" /\ dump = None
    /\ updated >= Threshold
    /\ updated' = 0
    /\ BeginDump
    /\ UNCHANGED <<now, uptime, phase, entries, inflight, asking, refresh,
                   overtaken, abandoned, loading>>

PeriodicDumpEnd ==
    /\ phase = "up"
    /\ FinishDump
    /\ UNCHANGED <<now, uptime, phase, entries, updated, inflight, asking,
                   refresh, overtaken, abandoned, loading>>

\* clamp_persisted_cache_ttl for negative answers.
Remaining(record) ==
    IF record.positive THEN record.remaining
    ELSE Min2(record.remaining, record.ttl - record.age)

\* Mutant: the retention starts anew.
RestoredAnew(record, id) ==
    [id |-> id, positive |-> record.positive, ttl |-> record.ttl,
     cached |-> now, fresh |-> now + record.ttl,
     expire |-> now + (IF record.positive THEN Max2(record.ttl, LazyTtl)
                       ELSE record.ttl),
     born |-> uptime - record.trueAge, renewed |-> TRUE]

\* A record becomes an item again.  An answer older than the process gets
\* the process's start as its time of caching (saturating_sub).
Restored(record, id) ==
    LET cached == Max2(0, now - record.age)
    IN  [id |-> id, positive |-> record.positive, ttl |-> record.ttl,
         cached |-> cached, fresh |-> cached + record.ttl,
         expire |-> now + Remaining(record),
         born |-> uptime - record.trueAge,
         renewed |-> record.renewed \/ now < record.age]

\* load_cache_from_bytes over the table `base`, then prune_cache_after_load.
LoadInto(base) ==
    LET restored == {k \in Keys : file[k] # None /\ Remaining(file[k]) > 0}
        id == CHOOSE f \in [restored -> FreeIds] :
                \A j, k \in restored : f[j] = f[k] => j = k
        table == [k \in Keys |-> IF k \in restored
                                 THEN Restored(file[k], id[k]) ELSE base[k]]
    IN  entries' \in Pruned(table) /\ Overtakes(restored)

\* The load task spawned by init.
Load ==
    /\ Running /\ loading
    /\ LoadInto(entries)
    /\ loading' = FALSE
    /\ UNCHANGED <<now, uptime, phase, updated, inflight, asking, refresh,
                   abandoned, dump, file>>
-----------------------------------------------------------------------------
(***************************************************************************)
(* Management calls; none of them counts as a change.                      *)
(***************************************************************************)
Manage(table) ==
    /\ Running
    /\ table
    /\ UNCHANGED <<now, uptime, phase, updated, inflight, asking, refresh,
                   abandoned, loading, dump, file>>

Flush == Manage(entries' = Nothing /\ Overtakes({}))
Delete(k) == Manage(/\ Cached(k) /\ entries' = [entries EXCEPT ![k] = None]
                    /\ Overtakes({}))

\* POST load_dump, here with the dump that is on disk.
LoadDump == Manage(LoadInto(Nothing))
-----------------------------------------------------------------------------
(***************************************************************************)
(* The life of the instance.                                               *)
(***************************************************************************)
\* destroy stops the periodic tasks ...
Destroy ==
    /\ phase = "up"
    /\ phase' = "closing"
    /\ BeginDump
    /\ UNCHANGED <<now, uptime, entries, updated, inflight, asking, refresh,
                   overtaken, abandoned, loading>>

Gone ==
    /\ entries' = Nothing /\ updated' = 0
    /\ inflight' = {} /\ abandoned' = {}
    /\ asking' = [c \in Clients |-> None]
    /\ refresh' = [r \in Refreshers |-> Idle] /\ overtaken' = {}
    /\ loading' = FALSE

\* ... and waits for a last dump.
Destroyed ==
    /\ phase = "closing"
    /\ FinishDump
    /\ phase' = "stopped"
    /\ Gone
    /\ UNCHANGED <<now, uptime>>

Crash ==
    /\ Crashes /\ Running
    /\ phase' = "crashed"
    /\ dump' = None
    /\ Gone
    /\ UNCHANGED <<now, uptime, file>>

\* A new instance: in the same process after a reload, or in a new one.
Start ==
    /\ phase \in {"stopped", "crashed"}
    /\ now' \in {0} \cup (IF phase = "stopped" THEN {now} ELSE {})
    /\ phase' = "up"
    /\ loading' = TRUE
    /\ UNCHANGED <<uptime, entries, updated, inflight, asking, refresh,
                   overtaken, abandoned, dump, file>>

Tick ==
    /\ Running /\ uptime < MaxUptime
    /\ now' = now + 1 /\ uptime' = uptime + 1
    /\ UNCHANGED <<phase, entries, updated, inflight, asking, refresh,
                   overtaken, abandoned, loading, dump, file>>

Next ==
    \/ \E c \in Clients, k \in Keys : FreshHit(c, k) \/ StaleHit(c, k) \/ Miss(c, k)
    \/ \E c \in Clients : Answer(c)
    \/ \E r \in Refreshers : RefreshAnswer(r) \/ RefreshEnd(r) \/ RefreshPanic(r)
    \/ Cleanup \/ PeriodicDump \/ PeriodicDumpEnd \/ Load
    \/ Flush \/ LoadDump \/ \E k \in Keys : Delete(k)
    \/ Destroy \/ Destroyed \/ Crash \/ Start \/ Tick

\* A refresh task is polled until it ends; its answer is bounded by a timeout.
Fairness == \A r \in Refreshers : WF_vars(RefreshAnswer(r) \/ RefreshEnd(r))

Spec == Init /\ [][Next]_vars
FairSpec == Spec /\ Fairness
-----------------------------------------------------------------------------
(***************************************************************************)
(* Properties.                                                             *)
(***************************************************************************)
Items == [id : Ids, positive : BOOLEAN, ttl : Ttls, cached : Nat, fresh : Nat,
          expire : Nat, born : Nat, renewed : BOOLEAN]
Records == [positive : BOOLEAN, ttl : Ttls, age : Nat, remaining : Nat,
            trueAge : Nat, renewed : BOOLEAN]
Tables(S) == [Keys -> S \cup {None}]

ASSUME NoneAssumption == None \notin Items

\* Every variable keeps its type.
TypeOK ==
    /\ now \in Nat /\ uptime \in Nat
    /\ phase \in {"up", "closing", "stopped", "crashed"}
    /\ entries \in Tables(Items)
    /\ updated \in 0 .. Threshold
    /\ inflight \subseteq Keys /\ abandoned \subseteq Keys
    /\ overtaken \subseteq Refreshers
    /\ asking \in [Clients -> Keys \cup {None}]
    /\ refresh \in [Refreshers -> [key : Keys \cup {None}, from : Ids \cup {None},
                                   stage : {"idle", "asking", "answered"}]]
    /\ loading \in BOOLEAN
    /\ dump = None \/ dump \in Tables(Records)
    /\ file \in Tables(Records)

Refreshing(k) == {r \in Refreshers : refresh[r].key = k}

(***************************************************************************)
(* Stale hits of many queries cause one background query per key, and a    *)
(* key is in flight exactly as long as its refresh runs (or for ever, once *)
(* an executor has panicked under it: the entry is then not refreshed      *)
(* again before it expires).                                               *)
(***************************************************************************)
OneRefreshPerKey ==
    /\ TypeOK
    /\ \A k \in Keys :
        /\ Cardinality(Refreshing(k)) <= 1
        /\ k \in inflight <=> (Refreshing(k) # {} \/ k \in abandoned)

(***************************************************************************)
(* A low-TTL refresh takes away nothing but the entry of its key, and that *)
(* only if the entry has been there ever since the refresh began: not one  *)
(* that a query, a load or a flush and a query have put there meanwhile,   *)
(* even if the same record was loaded again.                               *)
(***************************************************************************)
EvictionSparesNewer ==
    [][\A r \in Refreshers :
        refresh[r].stage = "asking" /\ refresh'[r].stage = "answered" =>
            \A k \in Keys : Cached(k) /\ entries'[k] = None =>
                k = refresh[r].key /\ r \notin overtaken]_vars

(***************************************************************************)
(* "The original response TTL still defines the fresh-hit window": an      *)
(* entry that a lookup would serve as fresh has spent less than its TTL in *)
(* the cache.                                                              *)
(***************************************************************************)
FreshWindow ==
    \A k \in Keys : Cached(k) /\ Retained(entries[k]) /\ Fresh(entries[k]) =>
        uptime - entries[k].born < entries[k].ttl

(***************************************************************************)
(* The fresh window is kept across reloads of the instance, and lost only  *)
(* by an entry loaded into a process that is younger than its answer.      *)
(***************************************************************************)
FreshWindowInProcess ==
    \A k \in Keys : Cached(k) /\ Retained(entries[k]) /\ Fresh(entries[k]) =>
        entries[k].renewed \/ uptime - entries[k].born < entries[k].ttl

(***************************************************************************)
(* No entry is served beyond its retention of time in the cache, whatever  *)
(* dumps, loads, crashes and restarts it went through: at most its TTL, or *)
(* lazy_cache_ttl if that is longer and the answer is positive.            *)
(***************************************************************************)
Retention(item) == IF item.positive /\ LazyTtl # None
                   THEN Max2(item.ttl, LazyTtl) ELSE item.ttl
RetentionKept ==
    \A k \in Keys : Cached(k) /\ Retained(entries[k]) =>
        uptime - entries[k].born < Retention(entries[k])

\* A key does not stay in flight, unless its refresh died in a panic.
RefreshesEnd == \A k \in Keys :
    k \in inflight ~> (k \notin inflight \/ k \in abandoned)
=============================================================================
