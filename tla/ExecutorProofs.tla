--------------------------- MODULE ExecutorProofs ---------------------------
(***************************************************************************)
(* What two executors with tasks of their own guarantee: the cache with    *)
(* its background refreshes, dumps and loads, and the fallback.            *)
(***************************************************************************)
EXTENDS Cache, Fallback, FiniteSetTheorems, FunctionTheorems, WellFoundedInduction,
        TLAPS

(***************************************************************************)
(* An item at time n of the clock, after u of service: its time left and   *)
(* its age add up to no more than its retention, and its time of caching   *)
(* hides none of its age, unless a load into a younger process renewed it. *)
(***************************************************************************)
Good(item, n, u) ==
    /\ item.cached <= n /\ item.born <= u
    /\ item.fresh = item.cached + item.ttl
    /\ (item.expire - n) + (u - item.born) <= Retention(item)
    /\ item.renewed \/ u - item.born <= n - item.cached

\* The same of a record in a dump.
GoodRecord(record, u) ==
    /\ record.trueAge <= u
    /\ record.remaining + record.trueAge <= Retention(record)
    /\ record.renewed \/ record.trueAge <= record.age

ItemInv == \A k \in Keys : Cached(k) => Good(entries[k], now, uptime)

GoodDump(table) == \A k \in Keys : table[k] # None => GoodRecord(table[k], uptime)
RecordInv == GoodDump(file) /\ (dump # None => GoodDump(dump))

\* Nothing runs between two instances.
QuietInv ==
    ~Running => /\ entries = Nothing
                /\ asking = [c \in Clients |-> None]
                /\ refresh = [r \in Refreshers |-> Idle]

\* A key in flight has one refresh, or lost it to a panic.
RefreshInv ==
    /\ \A r \in Refreshers : /\ refresh[r].stage = "idle" <=> refresh[r].key = None
                             /\ refresh[r].key \notin abandoned
    /\ \A q, r \in Refreshers :
            refresh[q].key = refresh[r].key /\ refresh[r].key # None => q = r
    /\ \A k \in Keys :
            k \in inflight <=> (k \in abandoned \/ \E r \in Refreshers : refresh[r].key = k)

Inv == TypeOK /\ ItemInv /\ RecordInv /\ QuietInv /\ RefreshInv
-----------------------------------------------------------------------------
(***************************************************************************)
(* Identities: there are always as many free ones as keys.                 *)
(***************************************************************************)
LEMMA SizeFacts ==
    /\ Cardinality(Keys) \in Nat /\ Cardinality(Refreshers) \in Nat
    /\ IsFiniteSet(Ids) /\ Ids \subseteq Nat
    /\ Cardinality(Ids) = 2 * Cardinality(Keys) + Cardinality(Refreshers)
<1>1. Cardinality(Keys) \in Nat /\ Cardinality(Refreshers) \in Nat
  BY CacheAssumption, FS_CardinalityType
<1> DEFINE n == 2 * Cardinality(Keys) + Cardinality(Refreshers)
<1>2. n \in Nat /\ Ids = 1 .. n
  BY <1>1 DEF Ids
<1> HIDE DEF n
<1>3. IsFiniteSet(1 .. n) /\ Cardinality(1 .. n) = IF 1 > n THEN 0 ELSE n - 1 + 1
  BY <1>2, FS_Interval
<1>4. Cardinality(1 .. n) = n
  BY <1>2, <1>3
<1> QED
  BY <1>1, <1>2, <1>3, <1>4 DEF n

\* The image of a finite set is no larger than the set.
LEMMA ImageFacts ==
    ASSUME NEW S, IsFiniteSet(S), NEW f, DOMAIN f = S, f = [x \in S |-> f[x]]
    PROVE  /\ IsFiniteSet({f[x] : x \in S})
           /\ Cardinality({f[x] : x \in S}) <= Cardinality(S)
<1>1. f \in Surjection(S, {f[x] : x \in S})
  BY DEF Surjection
<1> QED
  BY <1>1, FS_Surjection

LEMMA FreeIdFacts ==
    ASSUME TypeOK
    PROVE  /\ FreeIds \subseteq Ids /\ IsFiniteSet(FreeIds)
           /\ Cardinality(Keys) <= Cardinality(FreeIds)
<1> DEFINE held == {x \in Keys : Cached(x)}
           used == {entries[k].id : k \in held}
           asked == {refresh[r].from : r \in Refreshers}
           taken == used \cup asked
<1>1. IsFiniteSet(held) /\ Cardinality(held) <= Cardinality(Keys)
  BY CacheAssumption, FS_Subset
<1>2. IsFiniteSet(used) /\ Cardinality(used) <= Cardinality(held)
  <2> DEFINE f == [k \in held |-> entries[k].id]
  <2>1. DOMAIN f = held /\ f = [x \in held |-> f[x]] /\ used = {f[x] : x \in held}
    OBVIOUS
  <2> HIDE DEF f, held
  <2> QED
    BY <1>1, <2>1, ImageFacts
<1>3. IsFiniteSet(asked) /\ Cardinality(asked) <= Cardinality(Refreshers)
  <2> DEFINE f == [r \in Refreshers |-> refresh[r].from]
  <2>1. DOMAIN f = Refreshers /\ f = [x \in Refreshers |-> f[x]]
        /\ asked = {f[x] : x \in Refreshers}
    OBVIOUS
  <2> HIDE DEF f
  <2> QED
    BY CacheAssumption, <2>1, ImageFacts
<1>4. FreeIds = Ids \ taken
  BY DEF FreeIds
<1> HIDE DEF held, used, asked
<1>5. /\ IsFiniteSet(taken) /\ Cardinality(taken) \in Nat
      /\ Cardinality(taken) <= Cardinality(Keys) + Cardinality(Refreshers)
  <2>1. /\ IsFiniteSet(taken) /\ IsFiniteSet(used \cap asked)
        /\ Cardinality(taken) = Cardinality(used) + Cardinality(asked)
                                  - Cardinality(used \cap asked)
    BY <1>2, <1>3, FS_Union, FS_Intersection
  <2>2. /\ Cardinality(taken) \in Nat /\ Cardinality(used) \in Nat
        /\ Cardinality(asked) \in Nat /\ Cardinality(used \cap asked) \in Nat
        /\ Cardinality(held) \in Nat
    BY <1>1, <1>2, <1>3, <2>1, FS_CardinalityType
  <2> HIDE DEF taken
  <2> QED
    BY <1>1, <1>2, <1>3, <2>1, <2>2, SizeFacts
<1> HIDE DEF taken
<1>6. /\ IsFiniteSet(FreeIds) /\ IsFiniteSet(Ids \cap taken)
      /\ Cardinality(FreeIds) = Cardinality(Ids) - Cardinality(Ids \cap taken)
      /\ Cardinality(Ids \cap taken) <= Cardinality(taken)
  BY <1>4, <1>5, SizeFacts, FS_Difference, FS_Intersection
<1>7. Cardinality(FreeIds) \in Nat /\ Cardinality(Ids \cap taken) \in Nat
  BY <1>6, FS_CardinalityType
<1>8. Cardinality(Keys) <= Cardinality(FreeIds)
  BY <1>5, <1>6, <1>7, SizeFacts
<1> QED
  BY <1>4, <1>6, <1>8

\* A new item gets an identity ...
LEMMA NewIdType ==
    ASSUME TypeOK, NEW k \in Keys
    PROVE  NewId \in Ids /\ NewId \in FreeIds
<1>1. FreeIds \subseteq Nat /\ FreeIds # {} /\ FreeIds \subseteq Ids
  <2>1. FreeIds \subseteq Ids /\ IsFiniteSet(FreeIds)
        /\ Cardinality(Keys) <= Cardinality(FreeIds)
    BY FreeIdFacts
  <2>2. Cardinality(Keys) # 0
    BY CacheAssumption, FS_EmptySet
  <2>3. FreeIds # {}
    BY <2>1, <2>2, SizeFacts, FS_EmptySet
  <2> QED BY <2>1, <2>3, SizeFacts
<1>2. \E i \in FreeIds : \A j \in FreeIds : ~ (<<j, i>> \in OpToRel(<, Nat))
  BY <1>1, NatLessThanWellFounded, WFMin
<1>3. \E i \in FreeIds : \A j \in FreeIds : i <= j
  <2>1. PICK i \in FreeIds : \A j \in FreeIds : ~ (<<j, i>> \in OpToRel(<, Nat))
    BY <1>2
  <2>2. ASSUME NEW j \in FreeIds PROVE ~ (j < i)
    BY <1>1, <2>1, <2>2 DEF OpToRel
  <2>3. \A j \in FreeIds : i <= j
    BY <1>1, <2>2
  <2> QED BY <2>3
<1>4. NewId \in FreeIds
  BY <1>3 DEF NewId
<1> QED BY <1>1, <1>4

\* ... and so do all that a load restores.
LEMMA NewIdsExist ==
    ASSUME TypeOK, NEW S \in SUBSET Keys
    PROVE  \E f \in [S -> FreeIds] : \A j, k \in S : f[j] = f[k] => j = k
<1> DEFINE m == Cardinality(S)
           n == Cardinality(FreeIds)
<1>1. /\ IsFiniteSet(S) /\ m <= Cardinality(Keys) /\ m \in Nat
      /\ ExistsBijection(1 .. m, S)
  BY CacheAssumption, FS_Subset, FS_CardinalityType
<1>2. IsFiniteSet(FreeIds) /\ n \in Nat /\ ExistsBijection(1 .. n, FreeIds) /\ m <= n
  <2>1. IsFiniteSet(FreeIds) /\ Cardinality(Keys) <= n
    BY FreeIdFacts
  <2>2. n \in Nat /\ ExistsBijection(1 .. n, FreeIds)
    BY <2>1, FS_CardinalityType
  <2> HIDE DEF m, n
  <2> QED BY <1>1, <2>1, <2>2, SizeFacts
<1>3. PICK h \in Bijection(1 .. n, FreeIds) : TRUE
  BY <1>2 DEF ExistsBijection
<1>4. PICK p \in Bijection(S, 1 .. m) : TRUE
  BY <1>1, Fun_ExistsBijSymmetric DEF ExistsBijection
<1> HIDE DEF m, n
<1>5. /\ p \in [S -> 1 .. m] /\ \A j, k \in S : p[j] = p[k] => j = k
      /\ h \in [1 .. n -> FreeIds] /\ \A i, j \in 1 .. n : h[i] = h[j] => i = j
  BY <1>3, <1>4 DEF Bijection, Injection, IsInjective
<1>6. \A k \in S : p[k] \in 1 .. n
  BY <1>1, <1>2, <1>5
<1> DEFINE f == [k \in S |-> h[p[k]]]
<1>7. f \in [S -> FreeIds]
  BY <1>5, <1>6
<1>8. \A j, k \in S : f[j] = f[k] => j = k
  BY <1>5, <1>6
<1> QED BY <1>7, <1>8
-----------------------------------------------------------------------------
(***************************************************************************)
(* Answers, items and records.                                             *)
(***************************************************************************)
LEMMA RetentionType ==
    \A item : item.positive \in BOOLEAN /\ item.ttl \in Nat => Retention(item) \in Nat
BY CacheAssumption DEF Retention, Max2

LEMMA ItemFacts ==
    ASSUME TypeOK, NEW k \in Keys, NEW answer \in Answers, Cacheable(answer)
    PROVE  Item(answer) \in Items /\ Item(answer) # None /\ Good(Item(answer), now, uptime)
<1> DEFINE e == Item(answer)
<1>1. answer.positive \in BOOLEAN /\ answer.ttl \in Ttls /\ answer.ttl \in Nat
  BY CacheAssumption DEF Answers, Cacheable
<1>2. NewId \in Ids /\ now \in Nat /\ uptime \in Nat
  BY NewIdType DEF TypeOK
<1>3. /\ e.id = NewId /\ e.positive = answer.positive /\ e.ttl = answer.ttl
      /\ e.cached = now /\ e.fresh = now + answer.ttl /\ e.born = uptime
      /\ e.renewed = FALSE
  BY DEF Item
<1>4. e.expire = now + Retention(e) /\ Retention(e) \in Nat
  <2>1. Retention(e) \in Nat
    BY <1>1, <1>3, RetentionType
  <2>2. e.expire = now + Retention(e)
    BY <1>3, Zenon DEF Item, Retention
  <2> QED BY <2>1, <2>2
<1>5. e \in Items
  <2>1. e = [id |-> e.id, positive |-> e.positive, ttl |-> e.ttl, cached |-> e.cached,
             fresh |-> e.fresh, expire |-> e.expire, born |-> e.born,
             renewed |-> e.renewed]
    BY DEF Item
  <2> HIDE DEF e
  <2>2. e.fresh \in Nat /\ e.expire \in Nat
    BY <1>1, <1>2, <1>3, <1>4
  <2> QED
    BY <1>1, <1>2, <1>3, <2>1, <2>2 DEF Items
<1> HIDE DEF e
<1>6. Good(e, now, uptime)
  BY <1>1, <1>2, <1>3, <1>4 DEF Good
<1> QED
  BY <1>5, <1>6, NoneAssumption DEF e

LEMMA RecordFacts ==
    ASSUME TypeOK, NEW item \in Items, Good(item, now, uptime), Retained(item)
    PROVE  Record(item) \in Records /\ GoodRecord(Record(item), uptime)
<1> DEFINE r == Record(item)
<1>1. /\ item.positive \in BOOLEAN /\ item.ttl \in Ttls /\ item.renewed \in BOOLEAN
      /\ item.cached \in Nat /\ item.expire \in Nat /\ item.born \in Nat
      /\ item.ttl \in Nat
  BY CacheAssumption DEF Items
<1>2. now \in Nat /\ uptime \in Nat
  BY DEF TypeOK
<1>3. /\ r = [positive |-> item.positive, ttl |-> item.ttl, age |-> now - item.cached,
               remaining |-> item.expire - now, trueAge |-> uptime - item.born,
               renewed |-> item.renewed]
      /\ r.positive = item.positive /\ r.ttl = item.ttl /\ r.age = now - item.cached
      /\ r.remaining = item.expire - now /\ r.trueAge = uptime - item.born
      /\ r.renewed = item.renewed
  BY DEF Record
<1> HIDE DEF r
<1>4. now - item.cached \in Nat /\ item.expire - now \in Nat /\ uptime - item.born \in Nat
  BY <1>1, <1>2 DEF Good, Retained
<1>5. r \in Records
  BY <1>1, <1>3, <1>4 DEF Records
<1>6. Retention(r) = Retention(item) /\ Retention(item) \in Nat
  BY <1>1, <1>3, RetentionType DEF Retention
<1>7. GoodRecord(r, uptime)
  BY <1>1, <1>2, <1>3, <1>4, <1>6 DEF GoodRecord, Good
<1> QED
  BY <1>5, <1>7 DEF r

LEMMA RestoredFacts ==
    ASSUME TypeOK, NEW record \in Records, GoodRecord(record, uptime),
           Remaining(record) > 0, NEW id \in Ids
    PROVE  Restored(record, id) \in Items /\ Good(Restored(record, id), now, uptime)
<1> DEFINE e == Restored(record, id)
           cached == Max2(0, now - record.age)
<1>1. /\ record.positive \in BOOLEAN /\ record.ttl \in Ttls /\ record.ttl \in Nat
      /\ record.age \in Nat /\ record.remaining \in Nat /\ record.trueAge \in Nat
      /\ record.renewed \in BOOLEAN
  BY CacheAssumption DEF Records
<1>2. now \in Nat /\ uptime \in Nat
  BY DEF TypeOK
<1>3. /\ cached \in Nat /\ cached <= now
      /\ now >= record.age => now - cached = record.age
  BY <1>1, <1>2 DEF Max2
<1>4. Remaining(record) \in Nat /\ Remaining(record) <= record.remaining
  BY <1>1 DEF Remaining, Min2
<1>5. /\ e = [id |-> id, positive |-> record.positive, ttl |-> record.ttl,
               cached |-> cached, fresh |-> cached + record.ttl,
               expire |-> now + Remaining(record), born |-> uptime - record.trueAge,
               renewed |-> (record.renewed \/ now < record.age)]
      /\ e.positive = record.positive /\ e.ttl = record.ttl /\ e.cached = cached
      /\ e.fresh = cached + record.ttl /\ e.expire = now + Remaining(record)
      /\ e.born = uptime - record.trueAge
      /\ e.renewed = (record.renewed \/ now < record.age)
  BY DEF Restored
<1> HIDE DEF e, cached
<1>6. /\ cached + record.ttl \in Nat /\ now + Remaining(record) \in Nat
      /\ uptime - record.trueAge \in Nat
  BY <1>1, <1>2, <1>3, <1>4 DEF GoodRecord
<1>7. (record.renewed \/ now < record.age) \in BOOLEAN
  OBVIOUS
<1>8. e \in Items
  BY <1>1, <1>3, <1>5, <1>6, <1>7 DEF Items
<1>9. Retention(e) = Retention(record) /\ Retention(record) \in Nat
  BY <1>1, <1>5, RetentionType DEF Retention
<1>10. Good(e, now, uptime)
  <2>1. e.cached <= now /\ e.born <= uptime /\ e.fresh = e.cached + e.ttl
    BY <1>1, <1>2, <1>3, <1>5
  <2>2. (e.expire - now) + (uptime - e.born) <= Retention(e)
    BY <1>1, <1>2, <1>4, <1>5, <1>9 DEF GoodRecord
  <2>3. e.renewed \/ uptime - e.born <= now - e.cached
    <3>1. CASE record.renewed \/ now < record.age
      BY <3>1, <1>5
    <3>2. CASE ~record.renewed /\ now >= record.age
      BY <3>2, <1>1, <1>2, <1>3, <1>5 DEF GoodRecord
    <3> QED BY <3>1, <3>2, <1>1, <1>2
  <2> QED BY <2>1, <2>2, <2>3 DEF Good
<1> QED
  BY <1>8, <1>10 DEF e
-----------------------------------------------------------------------------
(***************************************************************************)
(* Tables of items.                                                        *)
(***************************************************************************)
\* A table of good items.
GoodTable(table) ==
    /\ table \in Tables(Items)
    /\ \A k \in Keys : table[k] # None => Good(table[k], now, uptime)

LEMMA EntriesGood ==
    ASSUME Inv
    PROVE  /\ GoodTable(entries) /\ GoodTable(Nothing)
           /\ \A k \in Keys : GoodTable([entries EXCEPT ![k] = None])
           /\ \A k \in Keys, item \in Items :
                Good(item, now, uptime) => GoodTable([entries EXCEPT ![k] = item])
BY DEF Inv, TypeOK, ItemInv, Cached, GoodTable, Tables, Nothing

LEMMA PrunedGood ==
    ASSUME NEW table, GoodTable(table), NEW t \in Pruned(table)
    PROVE  GoodTable(t)
<1>1. PICK S \in SUBSET {k \in Keys : table[k] # None /\ Retained(table[k])} :
            t = [k \in Keys |-> IF k \in S THEN table[k] ELSE None]
  BY DEF Pruned
<1>2. t \in [Keys -> Items \cup {None}]
  BY <1>1 DEF GoodTable, Tables
<1> QED
  BY <1>1, <1>2 DEF GoodTable, Tables

LEMMA LoadGood ==
    ASSUME Inv, NEW base, GoodTable(base), LoadInto(base)
    PROVE  entries' \in Tables(Items)
           /\ \A k \in Keys : entries'[k] # None => Good(entries'[k], now, uptime)
<1> DEFINE restored == {k \in Keys : file[k] # None /\ Remaining(file[k]) > 0}
           id == CHOOSE f \in [restored -> FreeIds] :
                    \A j, k \in restored : f[j] = f[k] => j = k
           table == [k \in Keys |-> IF k \in restored
                                    THEN Restored(file[k], id[k]) ELSE base[k]]
<1>1. TypeOK
  BY DEF Inv
<1>2. id \in [restored -> FreeIds] /\ FreeIds \subseteq Ids
  <2>1. restored \in SUBSET Keys
    OBVIOUS
  <2> HIDE DEF restored
  <2> QED BY <1>1, <2>1, NewIdsExist, FreeIdFacts
<1>3. entries' \in Pruned(table)
  BY DEF LoadInto
<1>4. \A k \in restored : /\ Restored(file[k], id[k]) \in Items
                          /\ Good(Restored(file[k], id[k]), now, uptime)
  <2> HIDE DEF id
  <2>1. TAKE k \in restored
  <2>2. /\ file[k] \in Records /\ Remaining(file[k]) > 0
        /\ GoodRecord(file[k], uptime)
    BY <1>1 DEF TypeOK, Tables, Inv, RecordInv, GoodDump
  <2>3. id[k] \in Ids
    BY <1>2
  <2> QED BY <1>1, <2>2, <2>3, RestoredFacts
<1> HIDE DEF id, restored
<1>5. GoodTable(table)
  BY <1>4 DEF GoodTable, Tables
<1> HIDE DEF table
<1>6. GoodTable(entries')
  BY <1>3, <1>5, PrunedGood
<1> QED
  BY <1>6 DEF GoodTable

\* Only refreshers are overtaken.
LEMMA OvertakenType == TypeOK /\ [Next]_vars => overtaken' \subseteq Refreshers
<1> SUFFICES ASSUME TypeOK, [Next]_vars PROVE overtaken' \subseteq Refreshers
  OBVIOUS
<1>1. \A written : Overtakes(written) => overtaken' \subseteq Refreshers
  BY DEF Overtakes, TypeOK
<1>2. overtaken' = overtaken => overtaken' \subseteq Refreshers
  BY DEF TypeOK
<1>3. ASSUME NEW c \in Clients, NEW k \in Keys,
             FreshHit(c, k) \/ StaleHit(c, k) \/ Miss(c, k)
      PROVE  overtaken' \subseteq Refreshers
  BY <1>1, <1>2, <1>3 DEF FreshHit, StaleHit, Miss, vars
<1>4. ASSUME NEW c \in Clients, Answer(c) PROVE overtaken' \subseteq Refreshers
  BY <1>1, <1>2, <1>4 DEF Answer
<1>5. ASSUME NEW r \in Refreshers, RefreshAnswer(r)
      PROVE  overtaken' \subseteq Refreshers
  BY <1>1, <1>2, <1>5 DEF RefreshAnswer
<1>6. ASSUME NEW r \in Refreshers, RefreshEnd(r) \/ RefreshPanic(r)
      PROVE  overtaken' \subseteq Refreshers
  BY <1>6 DEF RefreshEnd, RefreshPanic, TypeOK
<1>7. CASE Cleanup \/ Load \/ Flush \/ LoadDump \/ \E k \in Keys : Delete(k)
  BY <1>1, <1>7 DEF Cleanup, Load, LoadInto, Flush, LoadDump, Delete, Manage
<1>8. CASE Destroyed \/ Crash
  BY <1>8 DEF Destroyed, Crash, Gone
<1>9. CASE PeriodicDump \/ PeriodicDumpEnd \/ Destroy \/ Start \/ Tick \/ UNCHANGED vars
  BY <1>2, <1>9 DEF PeriodicDump, PeriodicDumpEnd, Destroy, Start, Tick, vars
<1> QED
  BY <1>3, <1>4, <1>5, <1>6, <1>7, <1>8, <1>9 DEF Next

\* The table changes, and perhaps who waits for what; the rest stays.
LEMMA TableStep ==
    ASSUME Inv, Running, overtaken' \subseteq Refreshers, entries' \in Tables(Items),
           \A k \in Keys : entries'[k] # None => Good(entries'[k], now, uptime),
           UNCHANGED <<now, uptime, phase, inflight, refresh, abandoned, dump, file>>,
           updated' \in 0 .. Threshold, loading' \in BOOLEAN,
           asking' \in [Clients -> Keys \cup {None}]
    PROVE  Inv'
<1>1. TypeOK'
  BY DEF Inv, TypeOK
<1>2. ItemInv'
  BY DEF ItemInv, Cached
<1>3. RecordInv'
  BY DEF Inv, RecordInv, GoodDump
<1>4. QuietInv'
  BY DEF QuietInv, Running
<1>5. RefreshInv'
  BY DEF Inv, RefreshInv
<1> QED
  BY <1>1, <1>2, <1>3, <1>4, <1>5 DEF Inv

LEMMA CountedType == TypeOK => Counted \in 0 .. Threshold /\ updated \in 0 .. Threshold
BY CacheAssumption DEF TypeOK, Counted, Min2

LEMMA MissStep ==
    ASSUME Inv, overtaken' \subseteq Refreshers,
           NEW c \in Clients, NEW k \in Keys, Miss(c, k)
    PROVE  Inv'
<1>1. /\ Running /\ entries' = [entries EXCEPT ![k] = None]
      /\ asking' = [asking EXCEPT ![c] = k]
      /\ UNCHANGED <<now, uptime, phase, updated, inflight, refresh, abandoned,
                     loading, dump, file>>
  BY DEF Miss
<1>2. asking' \in [Clients -> Keys \cup {None}] /\ updated' \in 0 .. Threshold
      /\ loading' \in BOOLEAN
  BY <1>1 DEF Inv, TypeOK
<1>3. entries' \in Tables(Items)
      /\ \A j \in Keys : entries'[j] # None => Good(entries'[j], now, uptime)
  BY <1>1, EntriesGood DEF GoodTable
<1> QED
  BY <1>1, <1>2, <1>3, TableStep

LEMMA AnswerStep ==
    ASSUME Inv, overtaken' \subseteq Refreshers, NEW c \in Clients, Answer(c)
    PROVE  Inv'
<1>1. /\ asking[c] # None /\ asking' = [asking EXCEPT ![c] = None]
      /\ UNCHANGED <<now, uptime, phase, inflight, refresh, abandoned, loading,
                     dump, file>>
  BY DEF Answer
<1>2. Running /\ asking[c] \in Keys
  BY <1>1 DEF Inv, QuietInv, TypeOK
<1>3. asking' \in [Clients -> Keys \cup {None}] /\ loading' \in BOOLEAN
  BY <1>1 DEF Inv, TypeOK
<1>4. PICK answer \in Answers :
        IF Cacheable(answer)
        THEN LET table == [entries EXCEPT ![asking[c]] = Item(answer)]
             IN  /\ updated' = Counted
                 /\ entries' \in {table} \cup Pruned(table)
                 /\ Overtakes({asking[c]})
        ELSE UNCHANGED <<entries, updated, overtaken>>
  BY DEF Answer
<1>5. updated' \in 0 .. Threshold
  BY <1>4, CountedType DEF Inv
<1>6. entries' \in Tables(Items)
      /\ \A j \in Keys : entries'[j] # None => Good(entries'[j], now, uptime)
  <2>1. CASE Cacheable(answer)
    <3> DEFINE table == [entries EXCEPT ![asking[c]] = Item(answer)]
    <3>1. GoodTable(table)
      BY <1>2, <2>1, ItemFacts, EntriesGood DEF Inv
    <3>2. entries' \in {table} \cup Pruned(table)
      BY <1>4, <2>1
    <3> HIDE DEF table
    <3>3. GoodTable(entries')
      BY <3>1, <3>2, PrunedGood
    <3> QED BY <3>3 DEF GoodTable
  <2>2. CASE ~Cacheable(answer)
    BY <1>4, <2>2, EntriesGood DEF GoodTable
  <2> QED BY <2>1, <2>2
<1> QED
  BY <1>1, <1>2, <1>3, <1>5, <1>6, TableStep

LEMMA TableSteps ==
    ASSUME Inv, overtaken' \subseteq Refreshers,
           Cleanup \/ Load \/ Flush \/ LoadDump \/ \E k \in Keys : Delete(k)
    PROVE  Inv'
<1>1. /\ Running
      /\ UNCHANGED <<now, uptime, phase, updated, inflight, asking, refresh, abandoned,
                     dump, file>>
      /\ loading' \in {loading, FALSE}
  BY DEF Cleanup, Load, Flush, LoadDump, Delete, Manage, Running
<1>2. asking' \in [Clients -> Keys \cup {None}] /\ updated' \in 0 .. Threshold
      /\ loading' \in BOOLEAN
  BY <1>1 DEF Inv, TypeOK
<1>3. GoodTable(entries) /\ GoodTable(Nothing)
  BY EntriesGood
<1>4. entries' \in Tables(Items)
      /\ \A j \in Keys : entries'[j] # None => Good(entries'[j], now, uptime)
  <2>1. CASE Cleanup
    <3>1. entries' \in Pruned(entries)
      BY <2>1 DEF Cleanup
    <3>2. GoodTable(entries')
      BY <1>3, <3>1, PrunedGood
    <3> QED BY <3>2 DEF GoodTable
  <2>2. CASE Load
    <3>1. LoadInto(entries)
      BY <2>2 DEF Load
    <3> QED BY <1>3, <3>1, LoadGood
  <2>3. CASE Flush
    BY <1>3, <2>3 DEF Flush, Manage, GoodTable
  <2>4. CASE LoadDump
    <3>1. LoadInto(Nothing)
      BY <2>4 DEF LoadDump, Manage
    <3> QED BY <1>3, <3>1, LoadGood
  <2>5. CASE \E k \in Keys : Delete(k)
    BY <2>5, EntriesGood DEF Delete, Manage, GoodTable
  <2> QED BY <2>1, <2>2, <2>3, <2>4, <2>5
<1> QED
  BY <1>1, <1>2, <1>4, TableStep
-----------------------------------------------------------------------------
(***************************************************************************)
(* Background refreshes.                                                   *)
(***************************************************************************)
LEMMA RefreshFacts ==
    ASSUME Inv, NEW r \in Refreshers, refresh[r].stage # "idle"
    PROVE  /\ refresh[r].key \in Keys /\ refresh[r].from \in Ids \cup {None}
           /\ refresh[r].key \in inflight /\ refresh[r].key \notin abandoned
           /\ Running
           /\ \A q \in Refreshers : refresh[q].key = refresh[r].key => q = r
<1>1. refresh[r].key \in Keys /\ refresh[r].from \in Ids \cup {None}
  BY DEF Inv, TypeOK, RefreshInv
<1>2. refresh[r].key # None /\ refresh[r].key \in inflight /\ refresh[r].key \notin abandoned
  BY <1>1 DEF Inv, RefreshInv
<1>3. Running
  BY DEF Inv, QuietInv, Idle
<1>4. \A q \in Refreshers : refresh[q].key = refresh[r].key => q = r
  BY <1>2 DEF Inv, RefreshInv
<1> QED
  BY <1>1, <1>2, <1>3, <1>4

\* The tasks change and the table does not.
LEMMA TaskStep ==
    ASSUME Inv, Running, overtaken' \subseteq Refreshers,
           refresh' \in [Refreshers -> [key : Keys \cup {None}, from : Ids \cup {None},
                                        stage : {"idle", "asking", "answered"}]],
           inflight' \subseteq Keys, abandoned' \subseteq Keys, RefreshInv',
           UNCHANGED <<now, uptime, phase, entries, updated, asking, loading, dump, file>>
    PROVE  Inv'
<1>1. TypeOK'
  BY DEF Inv, TypeOK
<1>2. ItemInv' /\ RecordInv' /\ QuietInv'
  BY DEF Inv, ItemInv, Cached, RecordInv, GoodDump, QuietInv, Running
<1> QED
  BY <1>1, <1>2 DEF Inv

LEMMA StaleHitStep ==
    ASSUME Inv, overtaken' \subseteq Refreshers,
           NEW c \in Clients, NEW k \in Keys, StaleHit(c, k)
    PROVE  Inv'
<1>1. /\ Running /\ Cached(k) /\ StartRefresh(k)
      /\ UNCHANGED <<now, uptime, phase, entries, updated, asking, abandoned, loading,
                     dump, file>>
  BY DEF StaleHit
<1>2. CASE k \in inflight
  <2>1. UNCHANGED <<refresh, inflight>>
    BY <1>1, <1>2 DEF StartRefresh, ClaimRefresh
  <2>2. RefreshInv'
    BY <1>1, <2>1 DEF Inv, RefreshInv
  <2> QED
    BY <1>1, <2>1, <2>2, TaskStep DEF Inv, TypeOK
<1>3. CASE k \notin inflight
  <2> DEFINE idle == {r \in Refreshers : refresh[r].stage = "idle"}
             r == CHOOSE x \in idle : TRUE
             task == [key |-> k, from |-> entries[k].id, stage |-> "asking"]
  <2>1. /\ r \in Refreshers /\ refresh[r].stage = "idle"
        /\ refresh' = [refresh EXCEPT ![r] = task] /\ inflight' = inflight \cup {k}
    BY <1>1, <1>3 DEF StartRefresh, ClaimRefresh
  <2>2. task \in [key : Keys \cup {None}, from : Ids \cup {None},
                  stage : {"idle", "asking", "answered"}]
        /\ task.key = k /\ task.stage = "asking"
    BY <1>1 DEF Inv, TypeOK, Tables, Items, Cached
  <2> HIDE DEF r, task
  <2>3. /\ refresh' \in [Refreshers -> [key : Keys \cup {None}, from : Ids \cup {None},
                                        stage : {"idle", "asking", "answered"}]]
        /\ refresh'[r] = task
        /\ \A q \in Refreshers : q # r => refresh'[q] = refresh[q]
    BY <2>1, <2>2 DEF Inv, TypeOK
  <2>4. /\ k \notin abandoned /\ \A q \in Refreshers : refresh[q].key # k
        /\ k # None /\ refresh[r].key = None
    BY <1>3, <2>1, CacheAssumption DEF Inv, RefreshInv
  <2>5. RefreshInv'
    <3>1. \A q \in Refreshers : /\ refresh'[q].stage = "idle" <=> refresh'[q].key = None
                                /\ refresh'[q].key \notin abandoned'
      BY <1>1, <2>2, <2>3, <2>4 DEF Inv, RefreshInv
    <3>2. \A p, q \in Refreshers :
             refresh'[p].key = refresh'[q].key /\ refresh'[q].key # None => p = q
      BY <2>2, <2>3, <2>4 DEF Inv, RefreshInv
    <3>3. \A j \in Keys : j \in inflight' <=>
             (j \in abandoned' \/ \E q \in Refreshers : refresh'[q].key = j)
      <4>1. TAKE j \in Keys
      <4>2. CASE j = k
        BY <2>1, <2>2, <2>3, <4>2
      <4>3. CASE j # k
        <5>1. j # None
          BY CacheAssumption
        <5>2. (\E q \in Refreshers : refresh'[q].key = j)
                <=> (\E q \in Refreshers : refresh[q].key = j)
          BY <2>2, <2>3, <2>4, <4>3, <5>1
        <5> QED BY <1>1, <2>1, <4>3, <5>2 DEF Inv, RefreshInv
      <4> QED BY <4>2, <4>3
    <3> QED BY <3>1, <3>2, <3>3 DEF RefreshInv
  <2> QED
    BY <1>1, <2>1, <2>3, <2>5, TaskStep DEF Inv, TypeOK
<1> QED
  BY <1>2, <1>3

LEMMA RefreshAnswerStep ==
    ASSUME Inv, overtaken' \subseteq Refreshers, NEW r \in Refreshers, RefreshAnswer(r)
    PROVE  Inv'
<1>1. /\ refresh[r].stage = "asking"
      /\ refresh' = [refresh EXCEPT ![r].stage = "answered"]
      /\ UNCHANGED <<now, uptime, phase, inflight, asking, abandoned, loading, dump, file>>
  BY DEF RefreshAnswer, Stage
<1>2. refresh[r].key \in Keys /\ Running
  BY <1>1, RefreshFacts
<1>3. PICK answer \in Answers :
        \/ /\ Cacheable(answer)
           /\ entries' = [entries EXCEPT ![refresh[r].key] = Item(answer)]
           /\ Overtakes({refresh[r].key}) /\ updated' = Counted
        \/ /\ TooLow(answer) /\ SameEntry(r)
           /\ entries' = [entries EXCEPT ![refresh[r].key] = None]
           /\ Overtakes({}) /\ updated' = Counted
        \/ /\ ~Cacheable(answer) /\ ~(TooLow(answer) /\ SameEntry(r))
           /\ UNCHANGED <<entries, updated, overtaken>>
  BY DEF RefreshAnswer
<1>4. updated' \in 0 .. Threshold
  BY <1>3, CountedType DEF Inv
<1>5. GoodTable(entries')
  <2>1. CASE Cacheable(answer)
    <3>1. entries' = [entries EXCEPT ![refresh[r].key] = Item(answer)]
      BY <1>3, <2>1 DEF Cacheable
    <3> QED BY <1>2, <2>1, <3>1, ItemFacts, EntriesGood DEF Inv
  <2>2. CASE ~Cacheable(answer)
    <3>1. \/ entries' = [entries EXCEPT ![refresh[r].key] = None]
          \/ entries' = entries
      BY <1>3, <2>2
    <3> QED BY <1>2, <3>1, EntriesGood
  <2> QED BY <2>1, <2>2
<1>6. /\ refresh' \in [Refreshers -> [key : Keys \cup {None}, from : Ids \cup {None},
                                      stage : {"idle", "asking", "answered"}]]
      /\ \A q \in Refreshers : /\ refresh'[q].key = refresh[q].key
                               /\ refresh'[q].stage = "idle" <=> refresh[q].stage = "idle"
  BY <1>1 DEF Inv, TypeOK
<1>7. TypeOK'
  BY <1>1, <1>4, <1>5, <1>6 DEF Inv, TypeOK, GoodTable
<1>8. ItemInv' /\ RecordInv' /\ QuietInv'
  BY <1>1, <1>2, <1>5 DEF Inv, ItemInv, Cached, GoodTable, RecordInv, GoodDump,
     QuietInv,
     Running
<1>9. RefreshInv'
  BY <1>1, <1>6 DEF Inv, RefreshInv
<1> QED
  BY <1>7, <1>8, <1>9 DEF Inv

\* A refresh ends, in a panic or not.
LEMMA RefreshEndStep ==
    ASSUME Inv, overtaken' \subseteq Refreshers,
           NEW r \in Refreshers, RefreshEnd(r) \/ RefreshPanic(r)
    PROVE  Inv'
<1> DEFINE k == refresh[r].key
<1>1. /\ refresh[r].stage # "idle" /\ refresh' = [refresh EXCEPT ![r] = Idle]
      /\ \/ inflight' = inflight \ {k} /\ abandoned' = abandoned
         \/ inflight' = inflight /\ abandoned' = abandoned \cup {k}
      /\ UNCHANGED <<now, uptime, phase, entries, updated, asking, loading, dump, file>>
  BY DEF RefreshEnd, RefreshPanic
<1>2. /\ k \in Keys /\ k \in inflight /\ k \notin abandoned /\ Running
      /\ \A q \in Refreshers : refresh[q].key = k => q = r
  BY <1>1, RefreshFacts
<1> HIDE DEF k
<1>3. /\ refresh' \in [Refreshers -> [key : Keys \cup {None}, from : Ids \cup {None},
                                      stage : {"idle", "asking", "answered"}]]
      /\ refresh'[r].key = None /\ refresh'[r].stage = "idle"
      /\ \A q \in Refreshers : q # r => refresh'[q] = refresh[q]
  BY <1>1 DEF Inv, TypeOK, Idle
<1>4. k # None /\ None \notin Keys /\ refresh[r].key = k
  BY <1>2, CacheAssumption DEF k
<1>5. RefreshInv'
  <2>1. None \notin abandoned'
    BY <1>1, <1>2, <1>4 DEF Inv, TypeOK
  <2>2. \A q \in Refreshers : /\ refresh'[q].stage = "idle" <=> refresh'[q].key = None
                              /\ refresh'[q].key \notin abandoned'
    BY <1>1, <1>2, <1>3, <2>1 DEF Inv, RefreshInv
  <2>3. \A p, q \in Refreshers :
           refresh'[p].key = refresh'[q].key /\ refresh'[q].key # None => p = q
    BY <1>3 DEF Inv, RefreshInv
  <2>4. \A j \in Keys : j \in inflight' <=>
           (j \in abandoned' \/ \E q \in Refreshers : refresh'[q].key = j)
    <3>1. TAKE j \in Keys
    <3>2. CASE j = k
      <4>1. \A q \in Refreshers : refresh'[q].key # j
        BY <1>2, <1>3, <1>4, <3>2
      <4> QED BY <1>1, <1>2, <3>2, <4>1
    <3>3. CASE j # k
      <4>1. (\E q \in Refreshers : refresh'[q].key = j)
              <=> (\E q \in Refreshers : refresh[q].key = j)
        BY <1>3, <1>4, <3>3
      <4> QED BY <1>1, <3>3, <4>1 DEF Inv, RefreshInv
    <3> QED BY <3>2, <3>3
  <2> QED BY <2>2, <2>3, <2>4 DEF RefreshInv
<1>6. inflight' \subseteq Keys /\ abandoned' \subseteq Keys
  BY <1>1, <1>2 DEF Inv, TypeOK
<1> QED
  BY <1>1, <1>2, <1>3, <1>5, <1>6, TaskStep
-----------------------------------------------------------------------------
(***************************************************************************)
(* Dumps, the clock, and the life of an instance.                          *)
(***************************************************************************)
LEMMA SnapshotGood ==
    ASSUME Inv
    PROVE  Snapshot \in Tables(Records) /\ GoodDump(Snapshot)
<1>1. \A k \in Keys : Cached(k) /\ Retained(entries[k]) =>
            Record(entries[k]) \in Records /\ GoodRecord(Record(entries[k]), uptime)
  BY RecordFacts DEF Inv, TypeOK, Tables, Cached, ItemInv
<1> QED
  BY <1>1 DEF Snapshot, Tables, GoodDump

\* The dump is written, taken over or dropped.
LEMMA DumpStep ==
    ASSUME Inv,
           \/ dump' \in {Snapshot, None} /\ file' = file
           \/ dump # None /\ dump' = None /\ file' = dump,
           uptime' = uptime
    PROVE  /\ RecordInv'
           /\ dump' = None \/ dump' \in Tables(Records)
           /\ file' \in Tables(Records)
<1>1. /\ dump = None \/ dump \in Tables(Records)
      /\ file \in Tables(Records) /\ GoodDump(file)
      /\ dump # None => GoodDump(dump)
  BY DEF Inv, TypeOK, RecordInv
<1>2. Snapshot \in Tables(Records) /\ GoodDump(Snapshot)
  BY SnapshotGood
<1>3. dump' = None \/ (dump' = Snapshot /\ dump' \in Tables(Records))
  BY <1>2
<1>4. file' \in Tables(Records)
  BY <1>1 DEF Inv, TypeOK
<1>5. \A k \in Keys : file'[k] # None => GoodRecord(file'[k], uptime)
  BY <1>1 DEF GoodDump, Inv, RecordInv
<1>6. dump' # None => \A k \in Keys : dump'[k] # None => GoodRecord(dump'[k], uptime)
  BY <1>2, <1>3 DEF GoodDump
<1> QED
  BY <1>3, <1>4, <1>5, <1>6 DEF RecordInv, GoodDump

LEMMA FinishFacts ==
    FinishDump => /\ dump # None /\ dump' = None
                  /\ file' = file \/ file' = dump
BY DEF FinishDump

LEMMA PeriodicStep ==
    ASSUME Inv, overtaken' \subseteq Refreshers,
           PeriodicDump \/ PeriodicDumpEnd \/ Destroy
    PROVE  Inv'
<1>1. /\ UNCHANGED <<now, uptime, entries, inflight, asking, refresh, abandoned, loading>>
      /\ updated' \in {0, updated} /\ phase' \in {"up", "closing"}
      /\ \/ dump' \in {Snapshot, None} /\ file' = file
         \/ dump # None /\ dump' = None /\ file' = dump
  BY FinishFacts DEF PeriodicDump, PeriodicDumpEnd, Destroy, BeginDump
<1>2. /\ RecordInv' /\ file' \in Tables(Records)
      /\ dump' = None \/ dump' \in Tables(Records)
  BY <1>1, DumpStep
<1>3. updated' \in 0 .. Threshold
  BY <1>1, CacheAssumption DEF Inv, TypeOK
<1>4. TypeOK'
  BY <1>1, <1>2, <1>3 DEF Inv, TypeOK
<1>5. ItemInv' /\ QuietInv' /\ RefreshInv'
  BY <1>1 DEF Inv, ItemInv, Cached, QuietInv, Running, RefreshInv
<1> QED
  BY <1>2, <1>4, <1>5 DEF Inv

\* The instance goes with all it holds, but for what is on disk.
LEMMA GoneStep ==
    ASSUME Inv, overtaken' \subseteq Refreshers, Destroyed \/ Crash
    PROVE  Inv'
<1>1. /\ Gone /\ UNCHANGED <<now, uptime>> /\ phase' \in {"stopped", "crashed"}
      /\ \/ dump' \in {Snapshot, None} /\ file' = file
         \/ dump # None /\ dump' = None /\ file' = dump
  BY FinishFacts DEF Destroyed, Crash
<1>2. /\ RecordInv' /\ file' \in Tables(Records)
      /\ dump' = None \/ dump' \in Tables(Records)
  BY <1>1, DumpStep
<1>3. /\ entries' = Nothing /\ updated' = 0 /\ inflight' = {} /\ abandoned' = {}
      /\ asking' = [c \in Clients |-> None]
      /\ refresh' = [r \in Refreshers |-> Idle] /\ loading' = FALSE
  BY <1>1 DEF Gone
<1>4. /\ entries' \in Tables(Items) /\ \A k \in Keys : entries'[k] = None
      /\ updated' \in 0 .. Threshold
      /\ asking' \in [Clients -> Keys \cup {None}]
      /\ refresh' \in [Refreshers -> [key : Keys \cup {None}, from : Ids \cup {None},
                                      stage : {"idle", "asking", "answered"}]]
      /\ \A r \in Refreshers : refresh'[r].stage = "idle" /\ refresh'[r].key = None
  BY <1>3, CacheAssumption DEF Nothing, Tables, Idle
<1>5. TypeOK'
  BY <1>1, <1>2, <1>3, <1>4 DEF Inv, TypeOK
<1>6. ItemInv'
  BY <1>4 DEF ItemInv, Cached
<1>7. QuietInv'
  BY <1>3 DEF QuietInv, Nothing, Idle
<1>8. RefreshInv'
  BY <1>3, <1>4, CacheAssumption DEF RefreshInv
<1> QED
  BY <1>2, <1>5, <1>6, <1>7, <1>8 DEF Inv

LEMMA StartStep ==
    ASSUME Inv, overtaken' \subseteq Refreshers, Start
    PROVE  Inv'
<1>1. /\ ~Running /\ now' \in {0, now} /\ phase' = "up" /\ loading' = TRUE
      /\ UNCHANGED <<uptime, entries, updated, inflight, asking, refresh, abandoned,
                     dump, file>>
  BY DEF Start, Running
<1>2. TypeOK'
  BY <1>1 DEF Inv, TypeOK
<1>3. ItemInv'
  BY <1>1 DEF Inv, QuietInv, ItemInv, Cached, Nothing
<1>4. RecordInv' /\ QuietInv' /\ RefreshInv'
  BY <1>1 DEF Inv, RecordInv, GoodDump, QuietInv, Running, RefreshInv
<1> QED
  BY <1>2, <1>3, <1>4 DEF Inv

\* A second passes: entries age as fast as their deadlines come nearer.
LEMMA TickStep ==
    ASSUME Inv, overtaken' \subseteq Refreshers, Tick
    PROVE  Inv'
<1>1. /\ now' = now + 1 /\ uptime' = uptime + 1 /\ now \in Nat /\ uptime \in Nat
      /\ UNCHANGED <<phase, entries, updated, inflight, asking, refresh, abandoned,
                     loading, dump, file>>
  BY DEF Tick, Inv, TypeOK
<1>2. TypeOK'
  BY <1>1 DEF Inv, TypeOK
<1>3. ItemInv'
  <2>1. ASSUME NEW k \in Keys, entries[k] # None
        PROVE  Good(entries[k], now + 1, uptime + 1)
    <3>1. entries[k] \in Items /\ Good(entries[k], now, uptime)
      BY <2>1 DEF Inv, TypeOK, Tables, ItemInv, Cached
    <3>2. /\ entries[k].positive \in BOOLEAN /\ entries[k].ttl \in Nat
          /\ entries[k].cached \in Nat /\ entries[k].expire \in Nat
          /\ entries[k].born \in Nat /\ Retention(entries[k]) \in Nat
      BY <3>1, CacheAssumption, RetentionType DEF Items
    <3> QED
      BY <1>1, <3>1, <3>2 DEF Good
  <2> QED
    BY <1>1, <2>1 DEF ItemInv, Cached
<1>4. RecordInv'
  <2>1. ASSUME NEW table, table \in Tables(Records), GoodDump(table), NEW k \in Keys,
               table[k] # None
        PROVE  GoodRecord(table[k], uptime + 1)
    <3>1. table[k].trueAge \in Nat
      BY <2>1 DEF Tables, Records
    <3> QED
      BY <1>1, <2>1, <3>1 DEF GoodDump, GoodRecord
  <2>2. file \in Tables(Records) /\ (dump # None => dump \in Tables(Records))
        /\ GoodDump(file) /\ (dump # None => GoodDump(dump))
    BY DEF Inv, TypeOK, RecordInv
  <2> QED
    BY <1>1, <2>1, <2>2 DEF RecordInv, GoodDump
<1>5. QuietInv' /\ RefreshInv'
  BY <1>1 DEF Inv, QuietInv, Running, RefreshInv
<1> QED
  BY <1>2, <1>3, <1>4, <1>5 DEF Inv
-----------------------------------------------------------------------------
(***************************************************************************)
(* The cache.                                                              *)
(***************************************************************************)
LEMMA InvInit == Init => Inv
<1> SUFFICES ASSUME Init PROVE Inv
  OBVIOUS
<1>1. /\ Nothing \in Tables(Items) /\ Nothing \in Tables(Records)
      /\ \A k \in Keys : Nothing[k] = None
      /\ 0 \in 0 .. Threshold
  BY CacheAssumption DEF Nothing, Tables
<1>2. /\ asking \in [Clients -> Keys \cup {None}]
      /\ refresh \in [Refreshers -> [key : Keys \cup {None}, from : Ids \cup {None},
                                     stage : {"idle", "asking", "answered"}]]
      /\ \A r \in Refreshers : refresh[r].stage = "idle" /\ refresh[r].key = None
  BY DEF Init, Idle
<1>3. TypeOK
  BY <1>1, <1>2 DEF Init, TypeOK
<1>4. ItemInv /\ RecordInv /\ QuietInv
  BY <1>1 DEF Init, ItemInv, Cached, RecordInv, GoodDump, QuietInv, Running
<1>5. RefreshInv
  BY <1>2, CacheAssumption DEF Init, RefreshInv
<1> QED
  BY <1>3, <1>4, <1>5 DEF Inv

LEMMA StutterStep == Inv /\ UNCHANGED vars => Inv'
<1> SUFFICES ASSUME Inv, UNCHANGED vars PROVE Inv'
  OBVIOUS
<1>1. UNCHANGED <<now, uptime, phase, entries, updated, inflight, asking, refresh,
                  overtaken, abandoned, loading, dump, file>>
  BY DEF vars
<1>2. TypeOK' /\ ItemInv' /\ RecordInv'
  BY <1>1 DEF Inv, TypeOK, ItemInv, Cached, RecordInv, GoodDump
<1>3. QuietInv' /\ RefreshInv'
  BY <1>1 DEF Inv, QuietInv, Running, RefreshInv
<1> QED
  BY <1>2, <1>3 DEF Inv

LEMMA NextKeeps == Inv /\ [Next]_vars => Inv'
<1> SUFFICES ASSUME Inv, [Next]_vars PROVE Inv'
  OBVIOUS
<1>0. overtaken' \subseteq Refreshers
  BY OvertakenType DEF Inv
<1>1. ASSUME NEW c \in Clients, NEW k \in Keys,
             FreshHit(c, k) \/ StaleHit(c, k) \/ Miss(c, k)
      PROVE  Inv'
  BY <1>0, <1>1, StutterStep, StaleHitStep, MissStep DEF FreshHit
<1>2. ASSUME NEW c \in Clients, Answer(c) PROVE Inv'
  BY <1>0, <1>2, AnswerStep
<1>3. ASSUME NEW r \in Refreshers, RefreshAnswer(r) \/ RefreshEnd(r) \/ RefreshPanic(r)
      PROVE  Inv'
  BY <1>0, <1>3, RefreshAnswerStep, RefreshEndStep
<1>4. CASE Cleanup \/ Load \/ Flush \/ LoadDump \/ \E k \in Keys : Delete(k)
  BY <1>0, <1>4, TableSteps
<1>5. CASE PeriodicDump \/ PeriodicDumpEnd \/ Destroy
  BY <1>0, <1>5, PeriodicStep
<1>6. CASE Destroyed \/ Crash \/ Start \/ Tick
  BY <1>0, <1>6, GoneStep, StartStep, TickStep
<1>7. CASE UNCHANGED vars
  BY <1>7, StutterStep
<1> QED
  BY <1>1, <1>2, <1>3, <1>4, <1>5, <1>6, <1>7 DEF Next

LEMMA InvHolds == Spec => []Inv
BY InvInit, NextKeeps, PTL DEF Spec

\* try_start_lazy_refresh and the end of its task: however many queries find a
\* key stale, one refresh of it runs, and the key is in flight exactly while it
\* does, or a panic ended it.
THEOREM OneRefreshAtATime == Spec => []OneRefreshPerKey
<1>1. Inv => OneRefreshPerKey
  <2> SUFFICES ASSUME Inv, NEW k \in Keys
               PROVE  /\ Cardinality(Refreshing(k)) <= 1
                      /\ k \in inflight <=> (Refreshing(k) # {} \/ k \in abandoned)
    BY DEF OneRefreshPerKey, Inv
  <2>1. k # None
    BY CacheAssumption
  <2>2. \A q, r \in Refreshing(k) : q = r
    BY <2>1 DEF Inv, RefreshInv, Refreshing
  <2>3. Refreshing(k) = {} \/ \E r : Refreshing(k) = {r}
    BY <2>2
  <2>4. Cardinality(Refreshing(k)) \in {0, 1}
    <3>1. CASE Refreshing(k) = {}
      BY <3>1, FS_EmptySet
    <3>2. ASSUME NEW r, Refreshing(k) = {r} PROVE Cardinality(Refreshing(k)) = 1
      BY <3>2, FS_Singleton
    <3> QED BY <2>3, <3>1, <3>2
  <2>5. k \in inflight <=> (Refreshing(k) # {} \/ k \in abandoned)
    BY DEF Inv, RefreshInv, Refreshing
  <2> QED BY <2>4, <2>5
<1> QED
  BY <1>1, InvHolds, PTL

\* compute_fresh_until_ms: an entry is served as fresh for its TTL and no longer,
\* unless it was loaded into a process that is younger than the answer.
THEOREM FreshnessIsKept == Spec => []FreshWindowInProcess
<1>1. Inv => FreshWindowInProcess
  <2> SUFFICES ASSUME Inv, NEW k \in Keys, Cached(k), Fresh(entries[k]),
                      ~entries[k].renewed
               PROVE  uptime - entries[k].born < entries[k].ttl
    BY Zenon DEF FreshWindowInProcess
  <2>1. entries[k] \in Items /\ Good(entries[k], now, uptime)
        /\ now \in Nat /\ uptime \in Nat
    BY DEF Inv, TypeOK, Tables, ItemInv, Cached
  <2>2. entries[k].ttl \in Nat /\ entries[k].cached \in Nat /\ entries[k].born \in Nat
    BY <2>1, CacheAssumption DEF Items
  <2> QED
    BY <2>1, <2>2 DEF Good, Fresh
<1> QED
  BY <1>1, InvHolds, PTL

\* compute_expire_time, through every dump, load, crash and restart: nothing is
\* served beyond the retention of its answer.
THEOREM RetentionIsKept == Spec => []RetentionKept
<1>1. Inv => RetentionKept
  <2> SUFFICES ASSUME Inv, NEW k \in Keys, Cached(k), Retained(entries[k])
               PROVE  uptime - entries[k].born < Retention(entries[k])
    BY DEF RetentionKept
  <2>1. entries[k] \in Items /\ Good(entries[k], now, uptime)
        /\ now \in Nat /\ uptime \in Nat
    BY DEF Inv, TypeOK, Tables, ItemInv, Cached
  <2>2. /\ entries[k].expire \in Nat /\ entries[k].born \in Nat
        /\ Retention(entries[k]) \in Nat
    BY <2>1, CacheAssumption, RetentionType DEF Items
  <2> QED
    BY <2>1, <2>2 DEF Good, Retained
<1> QED
  BY <1>1, InvHolds, PTL
-----------------------------------------------------------------------------
(***************************************************************************)
(* Identity against history.  No identity is given out while an entry or a *)
(* refresh refers to it: what a refresh under way still finds to be its    *)
(* entry has been under its key ever since it began.                       *)
(***************************************************************************)
OvertakenInv ==
    /\ \A r \in overtaken : refresh[r].stage # "idle"
    /\ \A r \in Refreshers :
            refresh[r].stage = "asking" /\ SameEntry(r) => r \notin overtaken

\* Every key of the new table has lost its entry, kept it, or got one with a
\* free identity.
Renewed(written) ==
    \A k \in Keys : \/ entries'[k] = None
                    \/ k \notin written /\ entries'[k] = entries[k]
                    \/ entries'[k].id \in FreeIds

\* Refreshes go on or end, and none begins.
NoneBegins ==
    \A r \in Refreshers :
        /\ refresh'[r].key = refresh[r].key /\ refresh'[r].from = refresh[r].from
        /\ refresh'[r].stage = "idle" => refresh[r].stage = "idle"
        /\ refresh'[r].stage = "asking" => refresh[r].stage = "asking"

LEMMA TableHistory ==
    ASSUME Inv, OvertakenInv, NoneBegins, NEW written \in SUBSET Keys,
           Overtakes(written), Renewed(written)
    PROVE  OvertakenInv'
<1> DEFINE lost == {k \in Keys : Cached(k) /\ entries'[k] = None}
<1>1. overtaken' = overtaken \cup {r \in Refreshers : refresh[r].key \in written \cup lost}
  BY DEF Overtakes
<1>2. ASSUME NEW r \in overtaken' PROVE refresh'[r].stage # "idle"
  <2>1. r \in Refreshers /\ (r \in overtaken \/ refresh[r].key \in Keys)
    BY <1>1, <1>2 DEF Inv, TypeOK
  <2>2. refresh[r].stage # "idle"
    BY <2>1, CacheAssumption DEF OvertakenInv, Inv, RefreshInv
  <2> QED BY <2>1, <2>2 DEF NoneBegins
<1>3. ASSUME NEW r \in Refreshers, refresh'[r].stage = "asking", SameEntry(r)'
      PROVE  r \notin overtaken'
  <2> DEFINE k == refresh[r].key
  <2>1. refresh[r].stage = "asking" /\ refresh'[r].key = k
        /\ refresh'[r].from = refresh[r].from
    BY <1>3 DEF NoneBegins
  <2>2. k \in Keys
    BY <2>1, RefreshFacts
  <2> HIDE DEF k
  <2>3. entries'[k] # None /\ entries'[k].id = refresh[r].from
    BY <1>3, <2>1 DEF SameEntry, Cached
  <2>4. refresh[r].from \notin FreeIds
    BY DEF FreeIds
  <2>5. k \notin written /\ entries'[k] = entries[k]
    BY <2>2, <2>3, <2>4 DEF Renewed
  <2>6. SameEntry(r) /\ k \notin lost
    BY <2>3, <2>5 DEF SameEntry, Cached, k
  <2>7. r \notin overtaken
    BY <2>1, <2>6 DEF OvertakenInv
  <2> QED BY <1>1, <2>5, <2>6, <2>7 DEF k
<1> QED
  BY <1>2, <1>3 DEF OvertakenInv

\* Neither the table nor what the refreshes know of it changes.
LEMMA SameHistory ==
    ASSUME OvertakenInv, UNCHANGED <<entries, refresh, overtaken>>
    PROVE  OvertakenInv'
BY DEF OvertakenInv, SameEntry, Cached

LEMMA UnchangedBegins == UNCHANGED refresh => NoneBegins
BY DEF NoneBegins

LEMMA PrunedRenewed ==
    ASSUME NEW written, NEW table, entries' \in Pruned(table),
           \A k \in Keys : \/ k \notin written /\ table[k] \in {None, entries[k]}
                           \/ table[k].id \in FreeIds
    PROVE  Renewed(written)
<1>1. \A k \in Keys : entries'[k] \in {None, table[k]}
  <2>1. PICK S \in SUBSET {k \in Keys : table[k] # None /\ Retained(table[k])} :
            entries' = [k \in Keys |-> IF k \in S THEN table[k] ELSE None]
    BY DEF Pruned
  <2> QED BY <2>1
<1> QED
  BY <1>1 DEF Renewed

LEMMA LoadHistory ==
    ASSUME Inv, OvertakenInv, NEW base,
           \A k \in Keys : base[k] \in {None, entries[k]},
           UNCHANGED refresh, LoadInto(base)
    PROVE  OvertakenInv'
<1> DEFINE restored == {k \in Keys : file[k] # None /\ Remaining(file[k]) > 0}
           id == CHOOSE f \in [restored -> FreeIds] :
                    \A j, k \in restored : f[j] = f[k] => j = k
           table == [k \in Keys |-> IF k \in restored
                                    THEN Restored(file[k], id[k]) ELSE base[k]]
<1>1. entries' \in Pruned(table) /\ Overtakes(restored)
  BY DEF LoadInto
<1>2. id \in [restored -> FreeIds]
  <2>1. restored \in SUBSET Keys
    OBVIOUS
  <2> HIDE DEF restored
  <2> QED BY <2>1, NewIdsExist DEF Inv
<1>3. restored \in SUBSET Keys
  OBVIOUS
<1>4. \A k \in restored : Restored(file[k], id[k]).id \in FreeIds
  <2> HIDE DEF id, restored
  <2> QED BY <1>2 DEF Restored
<1> HIDE DEF restored, id
<1>5. \A k \in Keys : \/ k \notin restored /\ table[k] \in {None, entries[k]}
                      \/ table[k].id \in FreeIds
  BY <1>4
<1> HIDE DEF table
<1>6. Renewed(restored)
  BY <1>1, <1>5, PrunedRenewed
<1>7. NoneBegins
  BY UnchangedBegins
<1> QED
  BY <1>1, <1>3, <1>6, <1>7, TableHistory

\* An entry is removed, or an answer written, and others perhaps pruned away.
LEMMA RemoveHistory ==
    ASSUME Inv, OvertakenInv, NoneBegins, NEW k \in Keys,
           entries' = [entries EXCEPT ![k] = None], Overtakes({})
    PROVE  OvertakenInv'
<1>1. Renewed({})
  BY DEF Renewed, Inv, TypeOK, Tables
<1> QED
  BY <1>1, TableHistory

LEMMA WriteHistory ==
    ASSUME Inv, OvertakenInv, NoneBegins, NEW k \in Keys, NEW answer,
           \/ entries' = [entries EXCEPT ![k] = Item(answer)]
           \/ entries' \in Pruned([entries EXCEPT ![k] = Item(answer)]),
           Overtakes({k})
    PROVE  OvertakenInv'
<1> DEFINE table == [entries EXCEPT ![k] = Item(answer)]
<1>1. Item(answer).id \in FreeIds
  BY NewIdType DEF Item, Inv
<1>2. \A j \in Keys : \/ j \notin {k} /\ table[j] \in {None, entries[j]}
                      \/ table[j].id \in FreeIds
  BY <1>1 DEF Inv, TypeOK, Tables
<1>3. entries' = table \/ entries' \in Pruned(table)
  OBVIOUS
<1> HIDE DEF table
<1>4. Renewed({k})
  <2>1. CASE entries' = table
    BY <1>2, <2>1 DEF Renewed
  <2>2. CASE entries' \in Pruned(table)
    BY <1>2, <2>2, PrunedRenewed
  <2> QED BY <1>3, <2>1, <2>2
<1> QED
  BY <1>4, TableHistory

\* A refresh begins with the entry it finds; the task was idle and not overtaken.
LEMMA StaleHitHistory ==
    ASSUME Inv, OvertakenInv, NEW c \in Clients, NEW k \in Keys, StaleHit(c, k)
    PROVE  OvertakenInv'
<1>1. StartRefresh(k) /\ UNCHANGED <<entries, overtaken>>
  BY DEF StaleHit
<1>2. CASE k \in inflight
  BY <1>1, <1>2, SameHistory DEF StartRefresh, ClaimRefresh
<1>3. CASE k \notin inflight
  <2> DEFINE idle == {r \in Refreshers : refresh[r].stage = "idle"}
             r == CHOOSE x \in idle : TRUE
             task == [key |-> k, from |-> entries[k].id, stage |-> "asking"]
  <2>1. /\ r \in Refreshers /\ refresh[r].stage = "idle"
        /\ refresh' = [refresh EXCEPT ![r] = task]
    BY <1>1, <1>3 DEF StartRefresh, ClaimRefresh
  <2>2. task.stage = "asking"
    OBVIOUS
  <2> HIDE DEF r, task
  <2>3. /\ refresh'[r] = task /\ r \notin overtaken
        /\ \A q \in Refreshers : q # r => refresh'[q] = refresh[q]
    BY <2>1 DEF Inv, TypeOK, OvertakenInv
  <2>4. \A q \in overtaken : refresh'[q].stage # "idle"
    BY <2>3 DEF Inv, TypeOK, OvertakenInv
  <2>5. \A q \in Refreshers : refresh'[q].stage = "asking" /\ SameEntry(q)'
                                => q \notin overtaken
    BY <1>1, <2>3 DEF SameEntry, Cached, OvertakenInv
  <2> QED BY <1>1, <2>4, <2>5 DEF OvertakenInv
<1> QED
  BY <1>2, <1>3

LEMMA RefreshHistory ==
    ASSUME Inv, OvertakenInv, NEW r \in Refreshers, RefreshAnswer(r)
    PROVE  OvertakenInv'
<1>1. /\ refresh[r].stage = "asking"
      /\ refresh' = [refresh EXCEPT ![r].stage = "answered"]
  BY DEF RefreshAnswer, Stage
<1>2. refresh[r].key \in Keys
  BY <1>1, RefreshFacts
<1>3. NoneBegins
  BY <1>1 DEF NoneBegins, Inv, TypeOK
<1>4. PICK answer \in Answers :
        \/ /\ entries' = [entries EXCEPT ![refresh[r].key] = Item(answer)]
           /\ Overtakes({refresh[r].key})
        \/ /\ entries' = [entries EXCEPT ![refresh[r].key] = None]
           /\ Overtakes({})
        \/ UNCHANGED <<entries, overtaken>>
  BY DEF RefreshAnswer
<1>5. CASE /\ entries' = [entries EXCEPT ![refresh[r].key] = Item(answer)]
           /\ Overtakes({refresh[r].key})
  BY <1>2, <1>3, <1>5, WriteHistory
<1>6. CASE /\ entries' = [entries EXCEPT ![refresh[r].key] = None]
           /\ Overtakes({})
  BY <1>2, <1>3, <1>6, RemoveHistory
<1>7. CASE UNCHANGED <<entries, overtaken>>
  <2>1. \A q \in overtaken : refresh'[q].stage # "idle"
    BY <1>3 DEF Inv, TypeOK, OvertakenInv, NoneBegins
  <2>2. \A q \in Refreshers : refresh'[q].stage = "asking" /\ SameEntry(q)'
                                => q \notin overtaken
    BY <1>3, <1>7 DEF SameEntry, Cached, OvertakenInv, NoneBegins
  <2> QED BY <1>7, <2>1, <2>2 DEF OvertakenInv
<1> QED
  BY <1>4, <1>5, <1>6, <1>7

LEMMA EndHistory ==
    ASSUME Inv, OvertakenInv, NEW r \in Refreshers, RefreshEnd(r) \/ RefreshPanic(r)
    PROVE  OvertakenInv'
<1>1. /\ UNCHANGED entries /\ overtaken' = overtaken \ {r}
      /\ refresh' = [refresh EXCEPT ![r] = Idle]
  BY DEF RefreshEnd, RefreshPanic
<1>2. \A q \in Refreshers : q # r => refresh'[q] = refresh[q]
  BY <1>1 DEF Inv, TypeOK
<1> QED
  BY <1>1, <1>2 DEF OvertakenInv, SameEntry, Cached, Inv, TypeOK

LEMMA TableStepsHistory ==
    ASSUME Inv, OvertakenInv,
           Cleanup \/ Load \/ Flush \/ LoadDump \/ \E k \in Keys : Delete(k)
    PROVE  OvertakenInv'
<1>1. NoneBegins /\ UNCHANGED refresh
  BY UnchangedBegins DEF Cleanup, Load, Flush, LoadDump, Delete, Manage
<1>2. CASE Cleanup
  <2>1. Renewed({})
    BY <1>2, PrunedRenewed DEF Cleanup
  <2>2. Overtakes({})
    BY <1>2 DEF Cleanup
  <2> QED BY <1>1, <2>1, <2>2, TableHistory
<1>3. CASE Load
  BY <1>1, <1>3, LoadHistory DEF Load
<1>4. CASE Flush
  <2>1. Renewed({})
    BY <1>4 DEF Flush, Manage, Nothing, Renewed
  <2>2. Overtakes({})
    BY <1>4 DEF Flush, Manage
  <2> QED BY <1>1, <2>1, <2>2, TableHistory
<1>5. CASE LoadDump
  <2>1. LoadInto(Nothing)
    BY <1>5 DEF LoadDump, Manage
  <2>2. \A k \in Keys : Nothing[k] \in {None, entries[k]}
    BY DEF Nothing
  <2> QED BY <1>1, <2>1, <2>2, LoadHistory
<1>6. CASE \E k \in Keys : Delete(k)
  BY <1>1, <1>6, RemoveHistory DEF Delete, Manage
<1> QED
  BY <1>2, <1>3, <1>4, <1>5, <1>6

LEMMA HistoryKeeps == Inv /\ OvertakenInv /\ [Next]_vars => OvertakenInv'
<1> SUFFICES ASSUME Inv, OvertakenInv, [Next]_vars PROVE OvertakenInv'
  OBVIOUS
<1>1. ASSUME NEW c \in Clients, NEW k \in Keys, FreshHit(c, k) PROVE OvertakenInv'
  BY <1>1, SameHistory DEF FreshHit, vars
<1>2. ASSUME NEW c \in Clients, NEW k \in Keys, StaleHit(c, k) PROVE OvertakenInv'
  BY <1>2, StaleHitHistory
<1>3. ASSUME NEW c \in Clients, NEW k \in Keys, Miss(c, k) PROVE OvertakenInv'
  BY <1>3, UnchangedBegins, RemoveHistory DEF Miss
<1>4. ASSUME NEW c \in Clients, Answer(c) PROVE OvertakenInv'
  <2>1. asking[c] \in Keys /\ NoneBegins /\ UNCHANGED refresh
    BY <1>4, UnchangedBegins DEF Answer, Inv, TypeOK
  <2>2. \/ \E answer \in Answers :
              /\ \/ entries' = [entries EXCEPT ![asking[c]] = Item(answer)]
                 \/ entries' \in Pruned([entries EXCEPT ![asking[c]] = Item(answer)])
              /\ Overtakes({asking[c]})
        \/ UNCHANGED <<entries, overtaken>>
    BY <1>4 DEF Answer
  <2> QED BY <2>1, <2>2, WriteHistory, SameHistory
<1>5. ASSUME NEW r \in Refreshers, RefreshAnswer(r) PROVE OvertakenInv'
  BY <1>5, RefreshHistory
<1>6. ASSUME NEW r \in Refreshers, RefreshEnd(r) \/ RefreshPanic(r) PROVE OvertakenInv'
  BY <1>6, EndHistory
<1>7. CASE Cleanup \/ Load \/ Flush \/ LoadDump \/ \E k \in Keys : Delete(k)
  BY <1>7, TableStepsHistory
<1>8. CASE Destroyed \/ Crash
  BY <1>8 DEF Destroyed, Crash, Gone, OvertakenInv
<1>9. CASE PeriodicDump \/ PeriodicDumpEnd \/ Destroy \/ Start \/ Tick \/ UNCHANGED vars
  BY <1>9, SameHistory DEF PeriodicDump, PeriodicDumpEnd, Destroy, Start, Tick, vars
<1> QED
  BY <1>1, <1>2, <1>3, <1>4, <1>5, <1>6, <1>7, <1>8, <1>9 DEF Next

LEMMA HistoryHolds == Spec => [](Inv /\ OvertakenInv)
<1>1. Init => OvertakenInv
  BY DEF Init, OvertakenInv
<1> QED
  BY <1>1, InvHolds, HistoryKeeps, PTL DEF Spec

\* remove_if: a refresh whose answer has too low a TTL takes away no entry but that
\* of its key, and only one that has been there ever since the refresh began.
THEOREM EvictionsSpareNewer == Spec => EvictionSparesNewer
<1> DEFINE Spares ==
        \A r \in Refreshers :
            refresh[r].stage = "asking" /\ refresh'[r].stage = "answered" =>
                \A k \in Keys : Cached(k) /\ entries'[k] = None =>
                    k = refresh[r].key /\ r \notin overtaken
<1>1. Inv /\ OvertakenInv /\ [Next]_vars => Spares
  <2> SUFFICES ASSUME Inv, OvertakenInv, [Next]_vars, NEW r \in Refreshers,
                      refresh[r].stage = "asking", refresh'[r].stage = "answered",
                      NEW k \in Keys, Cached(k), entries'[k] = None
               PROVE  k = refresh[r].key /\ r \notin overtaken
    BY DEF Spares
  <2>1. RefreshAnswer(r)
    <3>1. ~ UNCHANGED refresh
      OBVIOUS
    <3>2. ASSUME NEW q \in Refreshers,
                 \E t : t.stage # "answered" /\ refresh' = [refresh EXCEPT ![q] = t]
          PROVE  FALSE
      BY <3>2 DEF Inv, TypeOK
    <3>3. ASSUME NEW q \in Refreshers, RefreshAnswer(q), q # r PROVE FALSE
      BY <3>3 DEF RefreshAnswer, Stage, Inv, TypeOK
    <3>4. ASSUME NEW q \in Refreshers, RefreshEnd(q) \/ RefreshPanic(q) PROVE FALSE
      BY <3>2, <3>4 DEF RefreshEnd, RefreshPanic, Idle
    <3>5. ASSUME NEW c \in Clients, NEW j \in Keys, StaleHit(c, j) PROVE FALSE
      <4> DEFINE idle == {x \in Refreshers : refresh[x].stage = "idle"}
                 q == CHOOSE x \in idle : TRUE
                 task == [key |-> j, from |-> entries[j].id, stage |-> "asking"]
      <4>1. q \in Refreshers /\ refresh' = [refresh EXCEPT ![q] = task]
        BY <3>1, <3>5 DEF StaleHit, StartRefresh
      <4>2. task.stage # "answered"
        OBVIOUS
      <4> HIDE DEF q, task
      <4> QED BY <3>2, <4>1, <4>2
    <3>6. CASE Gone
      BY <3>6 DEF Gone, Idle
    <3>7. CASE UNCHANGED vars
      BY <3>1, <3>7 DEF vars
    <3> QED
      BY <3>1, <3>3, <3>4, <3>5, <3>6, <3>7
         DEF Next, FreshHit, Miss, Answer, Cleanup, PeriodicDump, PeriodicDumpEnd, Load,
             Flush, LoadDump, Delete, Manage, Destroy, Destroyed, Crash, Start, Tick, vars
  <2>2. refresh[r].key \in Keys
    BY RefreshFacts
  <2>3. PICK answer \in Answers :
          \/ /\ Cacheable(answer)
             /\ entries' = [entries EXCEPT ![refresh[r].key] = Item(answer)]
          \/ /\ SameEntry(r)
             /\ entries' = [entries EXCEPT ![refresh[r].key] = None]
          \/ UNCHANGED entries
    BY <2>1 DEF RefreshAnswer
  <2>4. CASE Cacheable(answer) /\ entries' = [entries EXCEPT ![refresh[r].key] = Item(answer)]
    <3>1. Item(answer) # None
      BY <2>2, <2>4, ItemFacts DEF Inv
    <3> QED
      BY <2>2, <2>4, <3>1 DEF Inv, TypeOK, Tables, Cached
  <2>5. CASE SameEntry(r) /\ entries' = [entries EXCEPT ![refresh[r].key] = None]
    <3>1. k = refresh[r].key
      BY <2>2, <2>5 DEF Inv, TypeOK, Tables, Cached
    <3> QED BY <2>5, <3>1 DEF OvertakenInv
  <2>6. CASE UNCHANGED entries
    BY <2>6 DEF Cached
  <2> QED
    BY <2>3, <2>4, <2>5, <2>6
<1>2. UNCHANGED vars => Spares
  BY DEF vars, Cached, Spares
<1> QED
  BY <1>1, HistoryHolds, PTL DEF Spec, EvictionSparesNewer, Spares
-----------------------------------------------------------------------------
(***************************************************************************)
(* The fallback executor: one inductive invariant on what the query knows  *)
(* of the tasks it has joined.                                             *)
(***************************************************************************)
Failed(s) == branch[s] \in {"failed", "panicked"}

\* No response was taken and the future was not dropped.
Open == Pending \/ Fruitless

\* Which statuses go together, and what standby mode implies.
BranchInv ==
    /\ branch.primary \notin {"waiting", "skipped"}
    /\ branch.secondary = "skipped" => branch.primary = "answered"
    /\ ~standby => reached /\ ~buffered
    /\ buffered => branch.secondary = "answered"

\* What is known of the outcomes joined so far.
JoinedInv ==
    Open =>
        /\ "primary" \in joined => branch.primary # "answered"
        /\ "secondary" \in joined /\ ~buffered => branch.secondary # "answered"
        /\ ~(buffered /\ reached)
        /\ erred <=> \E s \in joined : Failed(s)

FallbackInv ==
    /\ FallbackTypeOK /\ BranchInv /\ JoinedInv /\ StandbyWaits
    /\ Fruitless => joined = Sources /\ (result = "Err" <=> erred)

LEMMA FallbackStart == FallbackInit => FallbackInv
<1> SUFFICES ASSUME FallbackInit PROVE FallbackInv
  OBVIOUS
<1>1. /\ branch \in [Sources -> Outcomes \cup {"waiting", "running", "skipped"}]
      /\ branch.primary = "running" /\ branch.secondary \in {"waiting", "running"}
  <2>1. CASE standby
    BY <2>1 DEF FallbackInit, Sources
  <2>2. CASE ~standby
    BY <2>2 DEF FallbackInit, Sources
  <2> QED
    BY <2>1, <2>2
<1>2. FallbackTypeOK
  <2>1. reached \in BOOLEAN
    BY Zenon DEF FallbackInit
  <2> QED
    BY <1>1, <2>1 DEF FallbackInit, FallbackTypeOK
<1>3. BranchInv
  BY <1>1 DEF FallbackInit, BranchInv
<1> QED
  BY <1>2, <1>3 DEF FallbackInit, FallbackInv, JoinedInv, StandbyWaits, Open, Pending,
     Fruitless

\* A task ends or starts.
LEMMA RunStep ==
    ASSUME FallbackInv, NEW s \in Sources, Run(s)
    PROVE  FallbackInv'
<1>1. s \notin joined
  BY DEF FallbackInv, FallbackTypeOK, Run, Ended, Outcomes
<1>2. PICK outcome \in Outcomes : branch' = [branch EXCEPT ![s] = outcome]
  BY DEF Run, Become
<1>3. /\ \A r \in joined : branch'[r] = branch[r]
      /\ branch'[s] \in Outcomes /\ branch[s] = "running"
  BY <1>1, <1>2 DEF FallbackInv, FallbackTypeOK, Run
<1>4. FallbackTypeOK'
  BY <1>1, <1>2, <1>3 DEF FallbackInv, FallbackTypeOK, Run, Outcomes, Ended
<1>5. BranchInv'
  BY <1>2, <1>3 DEF FallbackInv, FallbackTypeOK, BranchInv, Run, Sources, Outcomes
<1>6. JoinedInv'
  BY <1>1, <1>2, <1>3 DEF FallbackInv, FallbackTypeOK, JoinedInv, Run, Open, Pending,
     Fruitless,
                          Failed
<1> QED
  BY <1>4, <1>5, <1>6 DEF FallbackInv, StandbyWaits, Run, Pending, Fruitless

LEMMA TurnStep ==
    ASSUME FallbackInv, StartSecondary \/ SkipSecondary
    PROVE  FallbackInv'
<1>1. /\ "secondary" \notin joined /\ Pending /\ branch.secondary = "waiting"
      /\ ~buffered
  BY DEF FallbackInv, FallbackTypeOK, BranchInv, StartSecondary, SkipSecondary,
     Ended, Outcomes
<1>2. PICK status \in {"running", "skipped"} :
        /\ branch' = [branch EXCEPT !["secondary"] = status]
        /\ status = "skipped" => branch.primary = "answered"
  BY DEF StartSecondary, SkipSecondary, Become
<1>3. UNCHANGED <<standby, joined, reached, buffered, erred, result>>
  BY DEF StartSecondary, SkipSecondary
<1>4. /\ branch'.primary = branch.primary /\ branch'.secondary = status
      /\ \A r \in joined : branch'[r] = branch[r]
  BY <1>1, <1>2 DEF FallbackInv, FallbackTypeOK, Sources
<1>5. FallbackTypeOK'
  BY <1>1, <1>2, <1>3, <1>4 DEF FallbackInv, FallbackTypeOK, Outcomes, Ended, Sources
<1>6. BranchInv'
  BY <1>1, <1>2, <1>3, <1>4 DEF FallbackInv, BranchInv
<1>7. JoinedInv'
  BY <1>1, <1>3, <1>4 DEF FallbackInv, JoinedInv, Open, Pending, Fruitless, Failed
<1> QED
  BY <1>1, <1>3, <1>5, <1>6, <1>7 DEF FallbackInv, StandbyWaits, Pending,
     Fruitless

\* The query's loop.
LEMMA ThresholdStep ==
    ASSUME FallbackInv, ThresholdPasses
    PROVE  FallbackInv'
BY DEF FallbackInv, FallbackTypeOK, BranchInv, JoinedInv, StandbyWaits, ThresholdPasses, Open,
       Pending, Fruitless, Failed, Ended, Sources

LEMMA JoinPrimaryStep ==
    ASSUME FallbackInv, JoinPrimary
    PROVE  FallbackInv'
<1>1. /\ joined' = joined \cup {"primary"} /\ Pending
      /\ branch.primary \in Outcomes /\ "primary" \in Sources
      /\ UNCHANGED <<standby, branch, reached>>
  BY DEF FallbackInv, FallbackTypeOK, BranchInv, JoinPrimary, Join, Ended, Sources
<1>2. FallbackTypeOK'
  BY <1>1 DEF FallbackInv, FallbackTypeOK, JoinPrimary, Join, Win, Note, Ended,
     Sources
<1>3. BranchInv'
  BY <1>1 DEF FallbackInv, BranchInv, JoinPrimary, Win, Note
<1>4. JoinedInv'
  BY <1>1 DEF FallbackInv, JoinedInv, JoinPrimary, Win, Note, Open, Pending,
              Fruitless, Failed
<1>5. StandbyWaits'
  BY <1>1 DEF FallbackInv, BranchInv, StandbyWaits, JoinPrimary, Win, Note,
     Pending
<1> QED
  BY <1>1, <1>2, <1>3, <1>4, <1>5
     DEF FallbackInv, JoinPrimary, Win, Note, Pending, Fruitless

LEMMA JoinSecondaryStep ==
    ASSUME FallbackInv, JoinSecondary
    PROVE  FallbackInv'
<1>1. /\ joined' = joined \cup {"secondary"} /\ Pending
      /\ branch.secondary \in Outcomes \cup {"skipped"} /\ "secondary" \in Sources
      /\ UNCHANGED <<standby, branch, reached>>
  BY DEF FallbackInv, FallbackTypeOK, JoinSecondary, Join, Ended, Sources
<1>2. FallbackTypeOK'
  BY <1>1 DEF FallbackInv, FallbackTypeOK, JoinSecondary, Join, Win, Note,
     Ended, Sources
<1>3. BranchInv'
  BY <1>1 DEF FallbackInv, BranchInv, JoinSecondary, Win, Note
<1>4. JoinedInv'
  BY <1>1 DEF FallbackInv, BranchInv, JoinedInv, JoinSecondary, Win, Note, Open,
              Pending, Fruitless, Failed
<1>5. StandbyWaits'
  BY <1>1 DEF FallbackInv, BranchInv, StandbyWaits, JoinSecondary, Win,
     Note, Pending
<1> QED
  BY <1>1, <1>2, <1>3, <1>4, <1>5
     DEF FallbackInv, JoinSecondary, Win, Note, Pending, Fruitless

LEMMA JoinNoneStep ==
    ASSUME FallbackInv, JoinNone
    PROVE  FallbackInv'
BY DEF FallbackInv, FallbackTypeOK, BranchInv, JoinedInv, StandbyWaits, JoinNone, Open,
       Pending, Fruitless, Failed, Ended, Sources

LEMMA DropStep ==
    ASSUME FallbackInv, Drop
    PROVE  FallbackInv'
BY DEF FallbackInv, FallbackTypeOK, BranchInv, JoinedInv, StandbyWaits, Drop, Open,
       Pending, Fruitless, Failed, Ended, Sources

LEMMA FallbackKeeps == FallbackInv /\ [FallbackNext]_fallbackVars => FallbackInv'
<1> SUFFICES ASSUME FallbackInv, [FallbackNext]_fallbackVars PROVE FallbackInv'
  OBVIOUS
<1>1. CASE \E s \in Sources : Run(s)
  BY <1>1, RunStep
<1>2. CASE StartSecondary \/ SkipSecondary
  BY <1>2, TurnStep
<1>3. CASE Loop
  BY <1>3, ThresholdStep, JoinPrimaryStep, JoinSecondaryStep, JoinNoneStep DEF Loop
<1>4. CASE Drop
  BY <1>4, DropStep
<1>5. CASE UNCHANGED fallbackVars
  BY <1>5 DEF fallbackVars, FallbackInv, FallbackTypeOK, BranchInv, JoinedInv, StandbyWaits,
     Open,
              Pending, Fruitless, Failed, Ended
<1> QED
  BY <1>1, <1>2, <1>3, <1>4, <1>5 DEF FallbackNext

LEMMA FallbackInvHolds == FallbackSpec => []FallbackInv
BY FallbackStart, FallbackKeeps, PTL DEF FallbackSpec

\* The variables keep their types, and only ended tasks are joined.
THEOREM FallbackTypes == FallbackSpec => []FallbackTypeOK
<1>1. FallbackInv => FallbackTypeOK
  BY DEF FallbackInv
<1> QED
  BY <1>1, FallbackInvHolds, PTL

\* Outside standby mode a query that ends without a response has tried both
\* executors: a fruitless end has joined both tasks, the primary among them did
\* not answer, so that the secondary was not skipped, and it did not answer.
THEOREM BothAreTried == FallbackSpec => []BothTried
<1>1. FallbackInv => BothTried
  <2> SUFFICES ASSUME FallbackInv, Fruitless, ~standby, NEW s \in Sources
               PROVE  branch[s] \in Outcomes \ {"answered"}
    BY DEF BothTried
  <2>1. joined = Sources /\ Ended(s)
    BY DEF FallbackInv, FallbackTypeOK
  <2>2. branch.primary # "answered" /\ branch.secondary # "answered"
    BY <2>1 DEF FallbackInv, BranchInv, JoinedInv, Open, Sources
  <2> QED
    BY <2>1, <2>2 DEF FallbackInv, BranchInv, Ended, Sources
<1> QED
  BY <1>1, FallbackInvHolds, PTL

\* A query ends in an error exactly when an executor failed, if no response ended it.
THEOREM ErrorsAreReported == FallbackSpec => []ErrorReported
<1>1. FallbackInv => ErrorReported
  BY DEF FallbackInv, JoinedInv, Open, ErrorReported, Failed
<1> QED
  BY <1>1, FallbackInvHolds, PTL

\* In standby mode the secondary does not win before its time.
THEOREM StandbyIsPatient == FallbackSpec => []StandbyWaits
<1>1. FallbackInv => StandbyWaits
  BY DEF FallbackInv
<1> QED
  BY <1>1, FallbackInvHolds, PTL

\* Once the threshold has passed no response of the secondary is dropped: what
\* is buffered wins at the threshold, what comes later wins at once, so that the
\* secondary of a fruitless end had none.
THEOREM BackupIsUsed == FallbackSpec => []BackupUsed
<1>1. FallbackInv => BackupUsed
  BY DEF FallbackInv, JoinedInv, Open, BackupUsed, Sources
<1> QED
  BY <1>1, FallbackInvHolds, PTL

\* A query loses no answer, outside standby mode or once its threshold passed.
THEOREM NoAnswerIsLost == FallbackSpec => []NoAnswerLost
<1>1. BothTried /\ BackupUsed => NoAnswerLost
  BY DEF NoAnswerLost
<1> QED
  BY <1>1, BothAreTried, BackupIsUsed, PTL
=============================================================================
