------------------------- MODULE PipelinePoolProofs -------------------------
(***************************************************************************)
(* Machine-checked facts about PipelinePool for any number of queries, any *)
(* sizes and any load limit: the counters are exact, no connection is      *)
(* forgotten or reopened, the pool keeps to max_size, and no query is left *)
(* waiting beside a slot with room.                                        *)
(***************************************************************************)
EXTENDS PipelinePool, FiniteSetTheorems, TLAPS

TaskLabels == {"idle", "load", "scan", "count", "recheck", "leased",
               "reserve", "prune", "cas", "enable", "park", "backoff",
               "connect", "insert", "commit", "release", "drain", "notify"}
Expanding == {"reserve", "prune", "cas", "connect", "insert", "commit"}
Sweeping == {"classify", "inflight", "judge", "evict", "evictCas"}
AtWork == {"count", "recheck", "leased", "release", "drain", "notify",
           "insert", "commit", "inflight", "judge", "evictCas"}

Known == 1 .. created

\* Thread p may be at l with locals m when k connections have been created.
Placed(p, l, m, k) ==
    /\ m \in Locals /\ m.todo \subseteq 1 .. k /\ m.at \in 0 .. k
    /\ p \in Tasks => l \in TaskLabels
    /\ p = Maintainer =>
        /\ l \in {"idle", "expand"} \cup Expanding \cup Sweeping
        /\ l \in Expanding => m.want >= 1
    /\ l \in AtWork => m.at # 0
    /\ l \in {"classify", "evict"} => m.at = 0
    /\ l \in {"evict", "evictCas"} => m.todo = {}

PlaceInv == \A p \in Procs : Placed(p, pc[p], loc[p], created)

\* Only connections that exist are anywhere, and one that is closed is dead.
KnownInv ==
    /\ slots \subseteq Known
    /\ sweep.keep \cup sweep.idle \cup sweep.drop \subseteq Known
    /\ \A c \in Conns : /\ state[c] = "none" <=> c > created
                        /\ alive[c] => state[c] \notin {"none", "CLOSED"}

Counted == {"recheck", "leased", "release"}
Building == {"connect", "insert", "commit"}
Users(c) == {t \in Tasks : loc[t].at = c /\ pc[t] \in Counted}
Builders == {p \in Procs : pc[p] \in Building}
CountInv ==
    /\ \A c \in Conns : inflight[c] = Cardinality(Users(c)) /\ inflight[c] <= MaxLoad
    /\ reserved = Cardinality(Builders)

\* A retired connection that nobody uses has somebody about to close it.
Draining(c) == \E p \in Procs : loc[p].at = c /\ pc[p] = "drain"
RetireInv ==
    \A c \in Conns : state[c] = "RETIRING" /\ inflight[c] = 0 => Draining(c)

\* A connection outside the vector is closed, or about to be inserted or closed.
Inserting(c) == \E p \in Procs : loc[p].at = c /\ pc[p] = "insert"
OpenInv ==
    \A c \in Known \ slots :
        \/ state[c] = "CLOSED" \/ Inserting(c)
        \/ state[c] = "RETIRING" /\ Draining(c)

SizeInv == Cardinality(slots) <= MaxSize

\* A sweep whose vector is still installed has every slot of it in one of its
\* sets, and has closed those it drops.
Seen == LET m == loc[Maintainer]
        IN  m.todo \cup ({m.at} \ {0}) \cup sweep.keep \cup sweep.idle \cup sweep.drop
SweepInv ==
    pc[Maintainer] \in Sweeping =>
        /\ sweep.current => slots = Seen
        /\ \A c \in sweep.drop : state[c] = "CLOSED"

Inv == /\ TypeOK /\ PlaceInv /\ KnownInv /\ CountInv
       /\ RetireInv /\ OpenInv /\ SizeInv /\ SweepInv
-----------------------------------------------------------------------------
(***************************************************************************)
(* The counters, when thread p goes to l with locals m.                    *)
(***************************************************************************)
Moves(p, l, m) ==
    /\ p \in Procs
    /\ pc' = [pc EXCEPT ![p] = l]
    /\ loc' = [loc EXCEPT ![p] = m]

Uses(p, c) == pc[p] \in Counted /\ loc[p].at = c

\* inflight follows p: no change, or in, or out of connection c.
Inflights(p, l, m) ==
    \/ /\ inflight' = inflight
       /\ \A c \in Conns : Uses(p, c) <=> (l \in Counted /\ m.at = c)
    \/ \E c \in Conns :
        /\ inflight' = [inflight EXCEPT ![c] = @ + 1]
        /\ inflight[c] < MaxLoad
        /\ pc[p] \notin Counted /\ l \in Counted /\ m.at = c
    \/ \E c \in Conns :
        /\ inflight' = [inflight EXCEPT ![c] = @ - 1]
        /\ Uses(p, c) /\ l \notin Counted

Reservations(p, l) ==
    \/ reserved' = reserved /\ (pc[p] \in Building <=> l \in Building)
    \/ reserved' = reserved + 1 /\ pc[p] \notin Building /\ l \in Building
    \/ reserved' = reserved - 1 /\ pc[p] \in Building /\ l \notin Building

LEMMA InflightStep ==
    ASSUME Inv, NEW p, NEW l, NEW m, Moves(p, l, m),
           p \in Tasks => Inflights(p, l, m),
           p \notin Tasks => inflight' = inflight
    PROVE  /\ inflight' \in [Conns -> Nat]
           /\ \A c \in Conns : inflight'[c] = Cardinality(Users(c))' /\ inflight'[c] <= MaxLoad
           /\ \A c \in Conns : Users(c) # {} => inflight[c] > 0
<1>1. \A c \in Conns : IsFiniteSet(Users(c)) /\ Cardinality(Users(c)) \in Nat
  BY PoolAssumption, FS_Subset, FS_CardinalityType DEF Users
<1>2. \A c \in Conns : inflight[c] \in Nat /\ inflight[c] = Cardinality(Users(c))
                       /\ inflight[c] <= MaxLoad
  BY DEF Inv, TypeOK, CountInv
<1>3. \A c \in Conns : Users(c) # {} => inflight[c] > 0
  BY <1>1, <1>2, FS_EmptySet
<1>4. \A t \in Tasks : t \in Procs /\ t # Maintainer
  BY PoolAssumption DEF Procs
<1>5. \A c \in Conns, t \in Tasks : t \in Users(c) <=> Uses(t, c)
  BY DEF Users, Uses
<1>6. \A c \in Conns, t \in Tasks : t \in Users(c)' <=>
            IF t = p THEN l \in Counted /\ m.at = c ELSE Uses(t, c)
  BY <1>4 DEF Users, Uses, Moves, Inv, TypeOK
<1>7. \A c \in Conns : Users(c) \subseteq Tasks /\ Users(c)' \subseteq Tasks
  BY DEF Users
<1>8. CASE inflight' = inflight /\ (p \in Tasks =>
                \A c \in Conns : Uses(p, c) <=> (l \in Counted /\ m.at = c))
  <2>1. \A c \in Conns : Users(c)' = Users(c)
    BY <1>5, <1>6, <1>7, <1>8
  <2> QED
    BY <1>2, <1>3, <1>8, <2>1 DEF Inv, TypeOK
<1>9. ASSUME p \in Tasks, NEW c \in Conns, inflight' = [inflight EXCEPT ![c] = @ + 1],
             inflight[c] < MaxLoad, pc[p] \notin Counted, l \in Counted, m.at = c
      PROVE  /\ inflight' \in [Conns -> Nat]
             /\ \A d \in Conns : inflight'[d] = Cardinality(Users(d))' /\ inflight'[d] <= MaxLoad
  <2>1. Users(c)' = Users(c) \cup {p} /\ p \notin Users(c)
    BY <1>5, <1>6, <1>7, <1>9 DEF Uses
  <2>2. ASSUME NEW d \in Conns \ {c} PROVE Users(d)' = Users(d)
    <3>1. \A t \in Tasks : t \in Users(d)' <=> t \in Users(d)
      BY <1>5, <1>6, <1>9 DEF Uses
    <3> QED
      BY <1>7, <3>1
  <2>3. Cardinality(Users(c)') = inflight[c] + 1
    BY <1>1, <1>2, <2>1, FS_AddElement
  <2>4. inflight[c] + 1 <= MaxLoad /\ inflight' \in [Conns -> Nat]
    BY <1>2, <1>9, PoolAssumption DEF Inv, TypeOK
  <2> QED
    BY <1>2, <1>9, <2>2, <2>3, <2>4 DEF Inv, TypeOK
<1>10. ASSUME p \in Tasks, NEW c \in Conns, inflight' = [inflight EXCEPT ![c] = @ - 1],
              Uses(p, c), l \notin Counted
       PROVE  /\ inflight' \in [Conns -> Nat]
              /\ \A d \in Conns : inflight'[d] = Cardinality(Users(d))' /\ inflight'[d] <= MaxLoad
  <2>1. Users(c)' = Users(c) \ {p} /\ p \in Users(c)
    BY <1>5, <1>6, <1>7, <1>10
  <2>2. ASSUME NEW d \in Conns \ {c} PROVE Users(d)' = Users(d)
    <3>1. \A t \in Tasks : t \in Users(d)' <=> t \in Users(d)
      BY <1>5, <1>6, <1>10 DEF Uses
    <3> QED
      BY <1>7, <3>1
  <2>3. Cardinality(Users(c)') = inflight[c] - 1
    BY <1>1, <1>2, <2>1, FS_RemoveElement
  <2>4. inflight[c] > 0 /\ inflight[c] - 1 <= MaxLoad /\ inflight' \in [Conns -> Nat]
    BY <1>2, <1>3, <1>10, <2>1, PoolAssumption DEF Inv, TypeOK
  <2> QED
    BY <1>2, <1>10, <2>2, <2>3, <2>4 DEF Inv, TypeOK
<1> QED
  BY <1>3, <1>8, <1>9, <1>10 DEF Inflights

LEMMA ReservedStep ==
    ASSUME Inv, NEW p, NEW l, NEW m, Moves(p, l, m), Reservations(p, l)
    PROVE  reserved' \in Nat /\ reserved' = Cardinality(Builders)'
<1>1. IsFiniteSet(Procs)
  BY PoolAssumption, FS_AddElement DEF Procs
<1>2. IsFiniteSet(Builders) /\ Cardinality(Builders) \in Nat
  BY <1>1, FS_Subset, FS_CardinalityType DEF Builders
<1>3. reserved \in Nat /\ reserved = Cardinality(Builders)
  BY DEF Inv, TypeOK, CountInv
<1>4. p \in Procs /\ DOMAIN pc = Procs
  BY DEF Inv, TypeOK, Moves
<1>5. CASE reserved' = reserved /\ (pc[p] \in Building <=> l \in Building)
  <2>1. Builders' = Builders
    BY <1>4, <1>5 DEF Builders, Moves
  <2> QED
    BY <1>3, <1>5, <2>1
<1>6. CASE reserved' = reserved + 1 /\ pc[p] \notin Building /\ l \in Building
  <2>1. Builders' = Builders \cup {p} /\ p \notin Builders
    BY <1>4, <1>6 DEF Builders, Moves
  <2> QED
    BY <1>2, <1>3, <1>6, <2>1, FS_AddElement
<1>7. CASE reserved' = reserved - 1 /\ pc[p] \in Building /\ l \notin Building
  <2>1. Builders' = Builders \ {p} /\ p \in Builders
    BY <1>4, <1>7 DEF Builders, Moves
  <2>2. IsFiniteSet(Builders') /\ Cardinality(Builders') = Cardinality(Builders) - 1
    BY <1>2, <2>1, FS_RemoveElement
  <2>3. Cardinality(Builders') \in Nat
    BY <2>2, FS_CardinalityType
  <2> QED
    BY <1>3, <1>7, <2>2, <2>3
<1> QED
  BY <1>5, <1>6, <1>7 DEF Reservations
-----------------------------------------------------------------------------
(***************************************************************************)
(* What every step does, of whatever thread: p goes to l with locals m.    *)
(***************************************************************************)
\* A slot's state falls, when it is retired while somebody uses it, or one more
\* connection is created, which p will insert.
StateStep(l, m) ==
    /\ created' \in {created, created + 1} /\ created' \in 0 .. MaxConns
    /\ created' # created => state'[created'] = "ACTIVE"
    /\ state' \in [Conns -> {"none", "ACTIVE", "RETIRING", "CLOSED"}]
    /\ alive' \in [Conns -> BOOLEAN]
    /\ \A c \in Conns :
        \/ state'[c] = state[c] /\ (alive'[c] => alive[c])
        \/ state'[c] = "CLOSED" /\ ~alive'[c] /\ c \in Known
        \/ /\ state[c] = "ACTIVE" /\ state'[c] = "RETIRING"
           /\ (alive'[c] => alive[c]) /\ inflight'[c] # 0
        \/ c = created + 1 /\ created' = c /\ state'[c] = "ACTIVE" /\ l = "insert" /\ m.at = c

\* Who leaves a slot without queries that was retired is about to close it.
DrainStep(p, l, m) ==
    /\ \A c \in Conns : inflight'[c] = 0 /\ inflight[c] # 0 /\ state'[c] = "RETIRING" =>
            l = "drain" /\ m.at = c
    /\ pc[p] = "drain" /\ l # "drain" => state'[loc[p].at] # "RETIRING"

\* Only what is closed, or retired and without queries, leaves the vector, and
\* a new connection goes into it or is closed.
SlotStep(p, l) ==
    /\ slots' \subseteq 1 .. created' /\ Cardinality(slots') <= MaxSize
    /\ \A c \in slots \ slots' : DrainedUnusable(c) \/ state'[c] = "CLOSED"
    /\ pc[p] = "insert" /\ l # "insert" =>
            loc[p].at \in slots' \/ state'[loc[p].at] = "CLOSED"

Sweeps == [keep : SUBSET Conns, idle : SUBSET Conns, drop : SUBSET Conns,
           current : BOOLEAN, state : {"none", "ACTIVE", "RETIRING", "CLOSED"}]

Step(p, l, m) ==
    /\ Moves(p, l, m) /\ Placed(p, l, m, created') /\ l \in Labels
    /\ NotifyTypeOK'
    /\ p \in Tasks => Inflights(p, l, m)
    /\ p \notin Tasks => inflight' = inflight
    /\ Reservations(p, l)
    /\ StateStep(l, m) /\ DrainStep(p, l, m) /\ SlotStep(p, l)
    /\ l = pc[p] /\ l \in {"insert", "drain"} => m.at = loc[p].at
    /\ sweep' \in Sweeps
    /\ sweep'.keep \cup sweep'.idle \cup sweep'.drop \subseteq Known

LEMMA TypeStep ==
    ASSUME Inv, NEW p, NEW l, NEW m, Step(p, l, m)
    PROVE  TypeOK' /\ PlaceInv' /\ KnownInv' /\ CountInv' /\ SizeInv'
<1>1. /\ inflight' \in [Conns -> Nat]
      /\ \A c \in Conns : inflight'[c] = Cardinality(Users(c))' /\ inflight'[c] <= MaxLoad
  BY InflightStep DEF Step
<1>2. reserved' \in Nat /\ reserved' = Cardinality(Builders)'
  BY ReservedStep DEF Step
<1>3. created \in Nat /\ created' \in 0 .. MaxConns /\ created <= created'
      /\ Known \subseteq Known' /\ Known' \subseteq Conns
  BY PoolAssumption DEF Inv, TypeOK, Step, StateStep, Known, Conns
<1>4. TypeOK'
  <2>1. pc' \in [Procs -> Labels] /\ loc' \in [Procs -> Locals]
    BY DEF Inv, TypeOK, Step, Moves, Placed
  <2>2. slots' \subseteq Conns
    BY <1>3 DEF Step, SlotStep, Known
  <2> QED
    BY <1>1, <1>2, <1>3, <2>1, <2>2 DEF TypeOK, Step, StateStep, Sweeps
<1>5. PlaceInv'
  <2>1. ASSUME NEW r \in Procs PROVE Placed(r, pc'[r], loc'[r], created')
    <3>1. CASE r = p
      BY <3>1 DEF Inv, TypeOK, Step, Moves
    <3>2. CASE r # p
      <4>1. pc'[r] = pc[r] /\ loc'[r] = loc[r] /\ Placed(r, pc[r], loc[r], created)
        BY <3>2 DEF Inv, TypeOK, Step, Moves, PlaceInv
      <4> QED
        BY <1>3, <4>1 DEF Placed
    <3> QED
      BY <3>1, <3>2
  <2> QED
    BY <2>1 DEF PlaceInv
<1>6. KnownInv'
  <2>1. slots' \subseteq Known' /\ (sweep.keep \cup sweep.idle \cup sweep.drop)' \subseteq Known'
    BY <1>3 DEF Step, SlotStep, Known
  <2>2. ASSUME NEW c \in Conns
        PROVE  /\ state'[c] = "none" <=> c > created'
               /\ alive'[c] => state'[c] \notin {"none", "CLOSED"}
    <3>1. /\ state[c] = "none" <=> c > created
          /\ alive[c] => state[c] \notin {"none", "CLOSED"}
          /\ c \in Nat
      BY DEF Inv, KnownInv, Conns
    <3> QED
      BY <1>3, <3>1 DEF Step, StateStep, Known, Inv, TypeOK
  <2> QED
    BY <2>1, <2>2 DEF KnownInv
<1> QED
  BY <1>1, <1>2, <1>4, <1>5, <1>6 DEF CountInv, SizeInv, Step, SlotStep

LEMMA OpenStep ==
    ASSUME Inv, NEW p, NEW l, NEW m, Step(p, l, m)
    PROVE  RetireInv' /\ OpenInv'
<1>0. p \in Procs /\ \A r \in Procs :
        /\ r # p => pc'[r] = pc[r] /\ loc'[r] = loc[r]
        /\ r = p => pc'[r] = l /\ loc'[r] = m
  BY DEF Inv, TypeOK, Step, Moves
<1>1. ASSUME NEW c \in Conns, Draining(c), state'[c] = "RETIRING"
      PROVE  Draining(c)'
  BY <1>0, <1>1 DEF Draining, Step, DrainStep
<1>2. RetireInv'
  <2>1. ASSUME NEW c \in Conns, state'[c] = "RETIRING", inflight'[c] = 0
        PROVE  Draining(c)'
    <3>1. CASE inflight[c] # 0
      BY <1>0, <2>1, <3>1 DEF Step, DrainStep, Draining
    <3>2. CASE inflight[c] = 0
      <4>1. state[c] = "RETIRING"
        BY <2>1, <3>2 DEF Step, StateStep
      <4> QED
        BY <1>1, <2>1, <3>2, <4>1 DEF Inv, RetireInv
    <3> QED
      BY <3>1, <3>2
  <2> QED
    BY <2>1 DEF RetireInv
<1>3. ASSUME NEW c \in Known' \ slots', state'[c] # "CLOSED"
      PROVE  Inserting(c)' \/ (state'[c] = "RETIRING" /\ Draining(c)')
  <2>0. c \in Conns /\ c \in Nat /\ created \in Nat
    BY PoolAssumption DEF Inv, TypeOK, Known, Conns, Step, StateStep
  <2>1. CASE c \notin Known
    <3>1. c = created + 1 /\ created' = created + 1 /\ state[c] = "none"
      BY <2>0, <2>1 DEF Inv, KnownInv, Known, Step, StateStep
    <3>2. l = "insert" /\ m.at = c
      BY <2>0, <3>1, <1>3 DEF Step, StateStep
    <3> QED
      BY <1>0, <3>2 DEF Inserting
  <2>2. CASE c \in Known /\ c \in slots
    <3>1. DrainedUnusable(c)
      BY <1>3, <2>2 DEF Step, SlotStep
    <3>2. inflight[c] = 0 /\ state[c] # "ACTIVE" /\ state[c] # "none"
      BY <2>0, <2>2, <3>1 DEF DrainedUnusable, Inv, KnownInv, Known
    <3>3. state[c] = "RETIRING" /\ state'[c] = "RETIRING"
      BY <1>3, <2>0, <2>2, <3>2 DEF Inv, TypeOK, Step, StateStep, Known
    <3> QED
      BY <1>1, <2>0, <3>2, <3>3 DEF Inv, RetireInv
  <2>3. CASE c \in Known /\ c \notin slots
    <3>1. state'[c] = state[c] \/ (state[c] = "ACTIVE" /\ state'[c] = "RETIRING")
      BY <1>3, <2>0, <2>3 DEF Step, StateStep, Known
    <3>2. CASE Inserting(c)
      BY <1>0, <1>3, <3>2 DEF Inserting, Step, SlotStep
    <3>3. CASE state[c] = "RETIRING" /\ Draining(c)
      BY <1>1, <2>0, <3>1, <3>3
    <3> QED
      BY <1>3, <2>3, <3>1, <3>2, <3>3 DEF Inv, OpenInv
  <2> QED
    BY <2>1, <2>2, <2>3
<1> QED
  BY <1>2, <1>3 DEF OpenInv

LEMMA StepKeeps ==
    ASSUME Inv, NEW p, NEW l, NEW m, Step(p, l, m), SweepInv'
    PROVE  Inv'
BY TypeStep, OpenStep DEF Inv

\* A step of a query, or of maintenance outside a sweep, leaves the sweep right:
\* a vector it replaces is no longer the sweep's.
LEMMA SweepAside ==
    ASSUME Inv, NEW p, NEW l, NEW m, Step(p, l, m),
           p = Maintainer => l \notin Sweeping,
           \/ sweep' = sweep /\ slots' = slots
           \/ Install(slots')
    PROVE  SweepInv'
<1>1. /\ sweep'.keep = sweep.keep /\ sweep'.idle = sweep.idle /\ sweep'.drop = sweep.drop
      /\ sweep'.current => sweep.current /\ slots' = slots
  BY DEF Install, Inv, TypeOK
<1>2. CASE p = Maintainer
  BY <1>2, PoolAssumption DEF SweepInv, Step, Moves, Inv, TypeOK, Procs
<1>3. CASE p # Maintainer
  <2>1. pc'[Maintainer] = pc[Maintainer] /\ loc'[Maintainer] = loc[Maintainer]
    BY <1>3 DEF Step, Moves, Inv, TypeOK
  <2>2. ASSUME NEW c \in sweep.drop, state[c] = "CLOSED" PROVE state'[c] = "CLOSED"
    <3>1. c \in Conns /\ c \in Nat /\ created \in Nat /\ c <= created
      BY PoolAssumption DEF Inv, TypeOK, KnownInv, Known, Conns
    <3> QED
      BY <2>2, <3>1 DEF Step, StateStep
  <2> QED
    BY <1>1, <2>1, <2>2 DEF SweepInv, Seen, Inv
<1> QED
  BY <1>2, <1>3
-----------------------------------------------------------------------------
(***************************************************************************)
(* Facts for the actions.                                                  *)
(***************************************************************************)
LEMMA NotifyFacts ==
    ASSUME NotifyTypeOK
    PROVE  /\ NotifyWaiters => NotifyTypeOK'
           /\ UNCHANGED notify => NotifyTypeOK'
           /\ \A t \in Tasks : Enable(t) \/ Notified(t) \/ DropWaiter(t) => NotifyTypeOK'
           /\ NotifyOne(wait) => NotifyTypeOK'
<1>1. ASSUME NEW w \in [Tasks -> {"none", "waiting", "one", "woken"}], NotifyOne(w)
      PROVE  NotifyTypeOK'
  BY <1>1 DEF NotifyTypeOK, NotifyOne, Waiting
<1>2. \A t \in Tasks : [wait EXCEPT ![t] = "none"] \in
            [Tasks -> {"none", "waiting", "one", "woken"}]
  BY DEF NotifyTypeOK
<1>3. ASSUME NEW t \in Tasks, DropWaiter(t) PROVE NotifyTypeOK'
  BY <1>1, <1>2, <1>3 DEF NotifyTypeOK, DropWaiter
<1>4. ASSUME NEW t \in Tasks, Enable(t) \/ Notified(t) PROVE NotifyTypeOK'
  BY <1>4 DEF NotifyTypeOK, Enable, Notified
<1>5. NotifyWaiters => NotifyTypeOK'
  BY DEF NotifyTypeOK, NotifyWaiters
<1>6. UNCHANGED notify => NotifyTypeOK'
  BY DEF NotifyTypeOK, notify
<1> QED
  BY <1>1, <1>3, <1>4, <1>5, <1>6 DEF NotifyTypeOK

\* A query, or maintenance outside a sweep, moves without touching the pool.
LEMMA QuietStep ==
    ASSUME Inv, NEW p, NEW l \in Labels, NEW m, Moves(p, l, m),
           Placed(p, l, m, created), NotifyTypeOK',
           UNCHANGED <<slots, reserved, conns, sweep>>,
           l \in Counted \/ pc[p] \in Counted =>
               l \in Counted /\ pc[p] \in Counted /\ m.at = loc[p].at,
           pc[p] \in Building <=> l \in Building,
           pc[p] \notin {"insert", "drain"}, l \notin Sweeping
    PROVE  Inv'
<1>1. p \in Tasks => Inflights(p, l, m)
  BY DEF Inflights, Uses, conns
<1>2. StateStep(l, m) /\ DrainStep(p, l, m)
  BY DEF Inv, TypeOK, StateStep, DrainStep, conns
<1>3. SlotStep(p, l)
  BY DEF Inv, KnownInv, Known, SizeInv, SlotStep, conns
<1>4. sweep' \in Sweeps /\ sweep'.keep \cup sweep'.idle \cup sweep'.drop \subseteq Known
  BY DEF Inv, TypeOK, KnownInv, Sweeps
<1>5. Reservations(p, l)
  BY DEF Reservations
<1>6. Step(p, l, m)
  BY <1>1, <1>2, <1>3, <1>4, <1>5 DEF Step, conns
<1>7. SweepInv'
  BY <1>6, SweepAside
<1> QED
  BY <1>6, <1>7, StepKeeps

LEMMA ConnSets ==
    \A S \in SUBSET Conns : IsFiniteSet(S) /\ Cardinality(S) \in Nat
<1>1. IsFiniteSet(Conns)
  BY FS_Interval, PoolAssumption DEF Conns
<1> QED
  BY <1>1, FS_Subset, FS_CardinalityType

LEMMA LocalsFacts ==
    \A l \in Locals :
        /\ l.todo \in SUBSET Conns /\ l.at \in 0 .. MaxConns
        /\ \A S \in SUBSET Conns : /\ [l EXCEPT !.todo = S] \in Locals
                                   /\ [l EXCEPT !.todo = S].todo = S
                                   /\ [l EXCEPT !.todo = S].at = l.at
        /\ \A c \in 0 .. MaxConns : /\ [l EXCEPT !.at = c] \in Locals
                                    /\ [l EXCEPT !.at = c].todo = l.todo
                                    /\ [l EXCEPT !.at = c].at = c
                                    /\ [l EXCEPT !.at = c].want = l.want
        /\ \A n \in Nat : /\ [l EXCEPT !.seen = n] \in Locals
                          /\ [l EXCEPT !.seen = n].todo = l.todo
                          /\ [l EXCEPT !.seen = n].at = l.at
                          /\ [l EXCEPT !.seen = n].want = l.want
                          /\ [l EXCEPT !.want = n] \in Locals
                          /\ [l EXCEPT !.want = n].todo = l.todo
                          /\ [l EXCEPT !.want = n].at = l.at
                          /\ [l EXCEPT !.want = n].want = n
BY DEF Locals

\* Two locals changed at once.
Scanned(l, S) == [l EXCEPT !.todo = S, !.at = 0]
Taken(l, S, c) == [l EXCEPT !.todo = S, !.at = c]
Judged(l) == [l EXCEPT !.at = 0, !.seen = 0]
LEMMA LocalsPairs ==
    ASSUME NEW l \in Locals, NEW S \in SUBSET Conns, NEW c \in 0 .. MaxConns
    PROVE  /\ Scanned(l, S) \in Locals /\ Scanned(l, S).todo = S /\ Scanned(l, S).at = 0
           /\ Taken(l, S, c) \in Locals /\ Taken(l, S, c).todo = S /\ Taken(l, S, c).at = c
           /\ Judged(l) \in Locals /\ Judged(l).todo = l.todo /\ Judged(l).at = 0
<1>1. 0 \in 0 .. MaxConns
  BY PoolAssumption
<1>2. Scanned(l, S) \in Locals /\ Scanned(l, S).todo = S /\ Scanned(l, S).at = 0
  BY <1>1 DEF Locals, Scanned
<1>3. Taken(l, S, c) \in Locals /\ Taken(l, S, c).todo = S /\ Taken(l, S, c).at = c
  BY <1>1 DEF Locals, Taken
<1>4. Judged(l) \in Locals /\ Judged(l).todo = l.todo /\ Judged(l).at = 0
  BY <1>1 DEF Locals, Judged
<1> QED
  BY <1>2, <1>3, <1>4

LEMMA PlaceFacts ==
    ASSUME Inv
    PROVE  /\ \A p \in Procs : Placed(p, pc[p], loc[p], created)
           /\ \A t \in Tasks : t \in Procs /\ t # Maintainer
           /\ Maintainer \in Procs /\ Maintainer \notin Tasks
           /\ Blank \in Locals /\ Blank.todo = {} /\ Blank.at = 0 /\ Blank.want = 0
           /\ created \in Nat /\ created <= MaxConns /\ slots \subseteq 1 .. created
           /\ NotifyTypeOK /\ reserved \in Nat
           /\ \A c \in 1 .. created : c \in Conns /\ c # 0
BY PoolAssumption DEF Inv, TypeOK, PlaceInv, Procs, Blank, Locals, KnownInv, Known, Conns

\* A slot that a query did not get: it goes on, retries or parks.
LEMMA TryNextFacts ==
    ASSUME Inv, NEW t \in Tasks, NEW c, TryNext(t, c), pc[t] \in TaskLabels
    PROVE  \E l, m :
                /\ l \in {"scan", "load", "park"} /\ Moves(t, l, m)
                /\ Placed(t, l, m, created) /\ NotifyTypeOK'
                /\ m.at = 0
<1>1. CASE loc[t].fresh
  <2>1. Moves(t, IF wait[t] = "none" THEN "load" ELSE "park", Blank)
    BY <1>1, PlaceFacts DEF TryNext, Moves, Goto
  <2>2. NotifyTypeOK'
    BY <1>1, PlaceFacts, NotifyFacts DEF TryNext
  <2>3. \A l \in {"load", "park"} : Placed(t, l, Blank, created)
    BY PlaceFacts DEF Placed, TaskLabels, AtWork
  <2> QED
    BY <2>1, <2>2, <2>3, PlaceFacts
<1>2. CASE ~loc[t].fresh
  <2> DEFINE m == Scanned(loc[t], loc[t].todo \ {c})
  <2>1. loc[t] \in Locals /\ loc[t].todo \subseteq 1 .. created
    BY PlaceFacts DEF Placed
  <2>2. m \in Locals /\ m.at = 0 /\ m.todo \subseteq 1 .. created
    <3>1. loc[t].todo \ {c} \in SUBSET Conns /\ 0 \in 0 .. MaxConns
      BY <2>1, PoolAssumption DEF Locals
    <3>2. m \in Locals /\ m.todo = loc[t].todo \ {c} /\ m.at = 0
      BY <2>1, <3>1, LocalsPairs
    <3> QED
      BY <2>1, <3>2
  <2>3. Moves(t, "scan", m)
    BY <1>2, PlaceFacts DEF TryNext, Moves, Goto, Inv, TypeOK, Scanned
  <2> HIDE DEF m
  <2>4. Placed(t, "scan", m, created)
    BY <2>2, PlaceFacts DEF Placed, TaskLabels, AtWork
  <2>5. NotifyTypeOK'
    BY <1>2, PlaceFacts, NotifyFacts DEF TryNext
  <2> QED
    BY <2>2, <2>3, <2>4, <2>5
<1> QED
  BY <1>1, <1>2
-----------------------------------------------------------------------------
(***************************************************************************)
(* The actions of a query that leave the pool alone.                       *)
(***************************************************************************)
LEMMA LoadSlotsKeeps == ASSUME Inv, NEW t \in Tasks, LoadSlots(t) PROVE Inv'
<1> DEFINE m == [Blank EXCEPT !.todo = slots]
<1>1. m \in Locals /\ m.todo = slots /\ m.at = 0
  <2>1. slots \in SUBSET Conns
    BY DEF Inv, TypeOK
  <2> QED
    BY <2>1, LocalsFacts, PlaceFacts
<1>2. Moves(t, "scan", m)
  BY PlaceFacts DEF LoadSlots, Goto, Moves
<1>3. NotifyTypeOK'
  BY PlaceFacts, NotifyFacts DEF LoadSlots
<1> HIDE DEF m
<1>4. Placed(t, "scan", m, created)
  BY <1>1, PlaceFacts DEF Placed, TaskLabels, AtWork
<1> QED
  BY <1>2, <1>3, <1>4, QuietStep DEF LoadSlots, Labels, Counted, Building, Sweeping

LEMMA TryKeeps == ASSUME Inv, NEW t \in Tasks, NEW c \in Conns, Try(t, c) PROVE Inv'
<1>1. CASE Usable(c)
  <2> DEFINE m == [loc[t] EXCEPT !.at = c]
  <2>1. loc[t] \in Locals /\ loc[t].todo \subseteq 1 .. created /\ c \in loc[t].todo
        /\ c \in 1 .. created
    BY PlaceFacts DEF Placed, Try
  <2>2. m \in Locals /\ m.todo = loc[t].todo /\ m.at = c /\ c \in 0 .. created
    BY <2>1, LocalsFacts, PlaceFacts, PoolAssumption DEF Conns
  <2>3. Moves(t, "count", m)
    BY <1>1, PlaceFacts DEF Try, Goto, Moves
  <2>4. NotifyTypeOK'
    BY <1>1, PlaceFacts, NotifyFacts DEF Try
  <2> HIDE DEF m
  <2>5. Placed(t, "count", m, created)
    BY <2>1, <2>2, PlaceFacts DEF Placed, TaskLabels, AtWork
  <2> QED
    BY <2>3, <2>4, <2>5, QuietStep DEF Try, Labels, Counted, Building, Sweeping
<1>2. CASE ~Usable(c)
  <2>1. PICK l, m :
            /\ l \in {"scan", "load", "park"} /\ Moves(t, l, m)
            /\ Placed(t, l, m, created) /\ NotifyTypeOK' /\ m.at = 0
    BY <1>2, TryNextFacts DEF Try, TaskLabels
  <2>2. l \in Labels \ (Counted \cup Building \cup Sweeping)
    BY <2>1 DEF Labels, Counted, Building, Sweeping
  <2> QED
    BY <2>1, <2>2, QuietStep DEF Try, Counted, Building
<1> QED
  BY <1>1, <1>2

LEMMA LeaseKeeps == ASSUME Inv, NEW t \in Tasks, Lease(t) PROVE Inv'
<1> DEFINE m == [Blank EXCEPT !.at = loc[t].at]
<1>1. loc[t] \in Locals /\ loc[t].at # 0 /\ loc[t].at \in 0 .. created
      /\ loc[t].at \in 0 .. MaxConns
  BY PlaceFacts, LocalsFacts DEF Placed, Lease, AtWork
<1>2. m \in Locals /\ m.todo = {} /\ m.at = loc[t].at
  BY <1>1, LocalsFacts, PlaceFacts
<1>3. Moves(t, "leased", m)
  BY PlaceFacts DEF Lease, Goto, Moves
<1>4. NotifyTypeOK'
  BY PlaceFacts, NotifyFacts DEF Lease
<1> HIDE DEF m
<1>5. Placed(t, "leased", m, created)
  BY <1>1, <1>2, PlaceFacts DEF Placed, TaskLabels, AtWork
<1> QED
  BY <1>2, <1>3, <1>4, <1>5, QuietStep DEF Lease, Labels, Counted, Building, Sweeping

\* The steps that move on with the same locals, or with none.
LEMMA TurnKeeps ==
    ASSUME Inv, NEW t \in Tasks,
           Register(t) \/ Wake(t) \/ Retry(t) \/ GiveUp(t) \/ Cancelled(t) \/ NotifyReleased(t)
    PROVE  Inv'
<1>1. Placed(t, pc[t], loc[t], created) /\ pc \in [Procs -> Labels]
      /\ loc \in [Procs -> Locals] /\ t \in Procs /\ t # Maintainer
  BY PlaceFacts DEF Inv, TypeOK
<1>2. NotifyTypeOK'
  BY PlaceFacts, NotifyFacts
     DEF Register, Wake, Retry, GiveUp, Cancelled, NotifyReleased
<1>3. Placed(t, "idle", Blank, created)
  BY <1>1, PlaceFacts DEF Placed, TaskLabels, AtWork
<1>4. CASE Register(t) \/ Wake(t) \/ Retry(t)
  <2>1. Moves(t, "load", loc[t])
    BY <1>1, <1>4 DEF Register, Wake, Retry, Goto, Moves
  <2>2. Placed(t, "load", loc[t], created)
    BY <1>1 DEF Placed, TaskLabels, AtWork
  <2> QED
    BY <1>2, <1>4, <2>1, <2>2, QuietStep
       DEF Register, Wake, Retry, Labels, Counted, Building, Sweeping
<1>5. CASE GiveUp(t) \/ NotifyReleased(t)
  <2>1. Moves(t, "idle", Blank)
    BY <1>1, <1>5 DEF GiveUp, NotifyReleased, Goto, Moves
  <2> QED
    BY <1>2, <1>3, <1>5, <2>1, QuietStep
       DEF GiveUp, NotifyReleased, Labels, Counted, Building, Sweeping
<1>6. CASE Cancelled(t)
  <2>1. Moves(t, "release", loc[t])
    BY <1>1, <1>6 DEF Cancelled, Goto, Moves
  <2>2. Placed(t, "release", loc[t], created)
    BY <1>1, <1>6 DEF Placed, TaskLabels, AtWork, Cancelled
  <2> QED
    BY <1>2, <1>6, <2>1, <2>2, QuietStep
       DEF Cancelled, Labels, Counted, Building, Sweeping
<1> QED
  BY <1>4, <1>5, <1>6

LEMMA ReadReservedKeeps == ASSUME Inv, NEW p \in Procs, ReadReserved(p) PROVE Inv'
<1> DEFINE m == [loc[p] EXCEPT !.seen = reserved]
<1>1. Placed(p, pc[p], loc[p], created) /\ loc[p] \in Locals
  BY PlaceFacts DEF Placed
<1>2. m \in Locals /\ m.todo = loc[p].todo /\ m.at = loc[p].at /\ m.want = loc[p].want
  BY <1>1, LocalsFacts, PlaceFacts
<1>3. Moves(p, "prune", m)
  BY DEF ReadReserved, Goto, Moves
<1>4. NotifyTypeOK'
  BY PlaceFacts, NotifyFacts DEF ReadReserved
<1>5. p = Maintainer => pc[p] = "reserve"
  BY <1>1 DEF ReadReserved, Placed, Expanding, Sweeping
<1> HIDE DEF m
<1>6. Placed(p, "prune", m, created)
  BY <1>1, <1>2, <1>5, PlaceFacts DEF Placed, TaskLabels, AtWork, Expanding
<1> QED
  BY <1>3, <1>4, <1>6, QuietStep DEF ReadReserved, Labels, Counted, Building, Sweeping

LEMMA MaintainQuietlyKeeps == ASSUME Inv, MaintainEmpty \/ Expand PROVE Inv'
<1> DEFINE m == [Blank EXCEPT !.want = Wanted(Cardinality(slots))]
<1>1. Placed(Maintainer, pc[Maintainer], loc[Maintainer], created)
      /\ pc \in [Procs -> Labels] /\ loc \in [Procs -> Locals] /\ Maintainer \in Procs
  BY PlaceFacts DEF Inv, TypeOK
<1>2. NotifyTypeOK'
  BY PlaceFacts, NotifyFacts DEF MaintainEmpty, Expand
<1>3. CASE MaintainEmpty \/ (Expand /\ Cardinality(slots) >= MaxSize)
  <2>1. PICK l \in {"idle", "expand"} : Moves(Maintainer, l, loc[Maintainer])
    BY <1>1, <1>3 DEF MaintainEmpty, Expand, Goto, Moves
  <2>2. Placed(Maintainer, l, loc[Maintainer], created)
    BY <1>1, PlaceFacts DEF Placed, AtWork, Expanding
  <2>3. l \in Labels \ (Counted \cup Building \cup Sweeping)
    BY DEF Labels, Counted, Building, Sweeping
  <2> QED
    BY <1>2, <1>3, <2>1, <2>2, <2>3, QuietStep
       DEF MaintainEmpty, Expand, Counted, Building
<1>4. CASE Expand /\ ~(Cardinality(slots) >= MaxSize)
  <2>2. Cardinality(slots) \in Nat
    BY ConnSets DEF Inv, TypeOK
  <2>3. Wanted(Cardinality(slots)) \in Nat /\ Wanted(Cardinality(slots)) >= 1
    BY <2>2, PoolAssumption DEF Wanted
  <2>4. m \in Locals /\ m.todo = {} /\ m.at = 0 /\ m.want >= 1
    BY <2>3, LocalsFacts, PlaceFacts
  <2>5. Moves(Maintainer, "reserve", m)
    BY <1>1, <1>4 DEF Expand, Goto, Moves
  <2> HIDE DEF m
  <2>6. Placed(Maintainer, "reserve", m, created)
    BY <2>4, PlaceFacts DEF Placed, AtWork, Expanding
  <2> QED
    BY <1>2, <1>4, <2>5, <2>6, QuietStep
       DEF Expand, Labels, Counted, Building, Sweeping
<1> QED
  BY <1>3, <1>4
-----------------------------------------------------------------------------
(***************************************************************************)
(* The actions that change connections, counters or reservations.          *)
(***************************************************************************)
LEMMA InUse ==
    ASSUME Inv, NEW t \in Tasks, pc[t] \in Counted
    PROVE  loc[t].at \in Conns /\ loc[t].at \in Known /\ inflight[loc[t].at] > 0
<1>1. loc[t].at \in Conns /\ loc[t].at \in Known
  BY PlaceFacts DEF Placed, Counted, AtWork, Known
<1>2. Users(loc[t].at) \subseteq Tasks /\ t \in Users(loc[t].at)
  BY DEF Users
<1>3. IsFiniteSet(Users(loc[t].at)) /\ Cardinality(Users(loc[t].at)) \in Nat
      /\ Cardinality(Users(loc[t].at)) # 0
  BY <1>2, PoolAssumption, FS_Subset, FS_CardinalityType, FS_EmptySet
<1>4. inflight[loc[t].at] = Cardinality(Users(loc[t].at))
  BY <1>1 DEF Inv, CountInv
<1> QED
  BY <1>1, <1>3, <1>4

\* A step that leaves the vector alone, by a thread that builds no slot.
LEMMA StayStep ==
    ASSUME Inv, NEW p, NEW l \in Labels, NEW m, Moves(p, l, m),
           Placed(p, l, m, created'), NotifyTypeOK', UNCHANGED <<slots, sweep>>,
           p \in Tasks => Inflights(p, l, m), p \notin Tasks => inflight' = inflight,
           Reservations(p, l), StateStep(l, m), DrainStep(p, l, m),
           pc[p] # "insert", pc[p] # l, p = Maintainer => l \notin Sweeping
    PROVE  Inv'
<1>1. created \in Nat /\ created' \in Nat /\ created <= created'
  BY PlaceFacts, PoolAssumption DEF StateStep
<1>2. SlotStep(p, l)
  BY <1>1 DEF Inv, KnownInv, Known, SizeInv, SlotStep
<1>3. sweep' \in Sweeps /\ sweep'.keep \cup sweep'.idle \cup sweep'.drop \subseteq Known
  BY DEF Inv, TypeOK, KnownInv, Sweeps
<1>4. Step(p, l, m)
  BY <1>2, <1>3 DEF Step
<1>5. SweepInv'
  BY <1>4, SweepAside
<1> QED
  BY <1>4, <1>5, StepKeeps

LEMMA StateFacts ==
    ASSUME Inv, UNCHANGED created, NEW l, NEW m
    PROVE  /\ UNCHANGED <<state, alive>> => StateStep(l, m)
           /\ \A c \in Known : Close(c) => StateStep(l, m) /\ state'[c] = "CLOSED"
<1>1. created \in 0 .. MaxConns /\ Known \subseteq Conns
      /\ state \in [Conns -> {"none", "ACTIVE", "RETIRING", "CLOSED"}]
      /\ alive \in [Conns -> BOOLEAN]
  BY PlaceFacts DEF Inv, TypeOK, Known
<1>2. UNCHANGED <<state, alive>> => StateStep(l, m)
  BY <1>1 DEF StateStep
<1>3. ASSUME NEW c \in Known, Close(c) PROVE StateStep(l, m) /\ state'[c] = "CLOSED"
  <2>1. /\ state' \in [Conns -> {"none", "ACTIVE", "RETIRING", "CLOSED"}]
        /\ alive' \in [Conns -> BOOLEAN] /\ state'[c] = "CLOSED" /\ ~alive'[c]
        /\ \A d \in Conns : d # c => state'[d] = state[d] /\ alive'[d] = alive[d]
    BY <1>1, <1>3 DEF Close
  <2> QED
    BY <1>1, <1>3, <2>1 DEF StateStep
<1> QED
  BY <1>2, <1>3

LEMMA CountInKeeps == ASSUME Inv, NEW t \in Tasks, CountIn(t) PROVE Inv'
<1>1. Placed(t, pc[t], loc[t], created) /\ loc[t].at \in Conns /\ t # Maintainer
      /\ pc \in [Procs -> Labels] /\ loc \in [Procs -> Locals] /\ t \in Procs
  BY PlaceFacts DEF Inv, TypeOK, Placed, CountIn, AtWork
<1>2. CASE inflight[loc[t].at] < MaxLoad
  <2>1. Moves(t, "recheck", loc[t])
    BY <1>1, <1>2 DEF CountIn, Goto, Moves
  <2>2. Placed(t, "recheck", loc[t], created)
    BY <1>1 DEF Placed, CountIn, AtWork, TaskLabels
  <2>3. NotifyTypeOK'
    BY <1>2, PlaceFacts, NotifyFacts DEF CountIn
  <2>4. Inflights(t, "recheck", loc[t])
    BY <1>1, <1>2 DEF CountIn, Inflights, Counted
  <2>5. StateStep("recheck", loc[t])
    BY StateFacts DEF CountIn
  <2>6. DrainStep(t, "recheck", loc[t])
    BY <1>1, <1>2 DEF CountIn, DrainStep, Inv, TypeOK
  <2> QED
    BY <1>1, <2>1, <2>2, <2>3, <2>4, <2>5, <2>6, StayStep
       DEF CountIn, Labels, Reservations, Building
<1>3. CASE ~(inflight[loc[t].at] < MaxLoad)
  <2>1. PICK l, m :
            /\ l \in {"scan", "load", "park"} /\ Moves(t, l, m)
            /\ Placed(t, l, m, created) /\ NotifyTypeOK' /\ m.at = 0
    BY <1>3, TryNextFacts DEF CountIn, TaskLabels
  <2>2. l \in Labels \ (Counted \cup Building \cup Sweeping)
    BY <2>1 DEF Labels, Counted, Building, Sweeping
  <2> QED
    BY <1>3, <2>1, <2>2, QuietStep DEF CountIn, Counted, Building, conns
<1> QED
  BY <1>2, <1>3

LEMMA UndoKeeps == ASSUME Inv, NEW t \in Tasks, Undo(t) PROVE Inv'
<1> DEFINE c == loc[t].at
<1>1. c \in Conns /\ c \in Known /\ inflight[c] > 0 /\ Uses(t, c) /\ pc[t] = "recheck"
  BY InUse DEF Undo, Counted, Uses
<1>2. PICK l, m :
          /\ l \in {"scan", "load", "park"} /\ Moves(t, l, m)
          /\ Placed(t, l, m, created) /\ NotifyTypeOK' /\ m.at = 0
  BY <1>1, TryNextFacts DEF Undo, TaskLabels
<1>3. l \in Labels \ (Counted \cup Building \cup Sweeping)
  BY <1>2 DEF Labels, Counted, Building, Sweeping
<1>4. UNCHANGED <<created, slots, sweep, reserved>>
      /\ inflight' = [inflight EXCEPT ![c] = @ - 1]
      /\ IF inflight[c] = 1 /\ state[c] # "ACTIVE"
              THEN Close(c) ELSE UNCHANGED <<state, alive>>
  BY DEF Undo
<1> HIDE DEF c
<1>5. Inflights(t, l, m)
  BY <1>1, <1>3, <1>4 DEF Inflights
<1>6. StateStep(l, m)
  BY <1>1, <1>4, StateFacts
<1>7. DrainStep(t, l, m)
  <2>1. inflight \in [Conns -> Nat]
    BY DEF Inv, TypeOK
  <2>2. ASSUME NEW d \in Conns, inflight'[d] = 0, inflight[d] # 0
        PROVE  state'[d] # "RETIRING"
    <3>1. d = c /\ inflight[c] = 1
      BY <1>1, <1>4, <2>1, <2>2
    <3>2. CASE state[c] # "ACTIVE"
      BY <1>1, <1>4, <3>1, <3>2, StateFacts
    <3>3. CASE state[c] = "ACTIVE"
      BY <1>4, <3>1, <3>3
    <3> QED
      BY <3>2, <3>3
  <2> QED
    BY <1>1, <2>2 DEF DrainStep
<1> QED
  BY <1>1, <1>2, <1>3, <1>4, <1>5, <1>6, <1>7, PlaceFacts, StayStep
     DEF Reservations, Building

LEMMA CompletedKeeps == ASSUME Inv, NEW t \in Tasks, Completed(t) \/ Expired(t) PROVE Inv'
<1> DEFINE c == loc[t].at
<1>1. c \in Conns /\ c \in Known /\ inflight[c] > 0 /\ pc[t] = "leased"
  BY InUse DEF Completed, Expired, Counted
<1>2. Placed(t, pc[t], loc[t], created) /\ t # Maintainer /\ t \in Procs
      /\ loc \in [Procs -> Locals]
  BY PlaceFacts DEF Inv, TypeOK
<1>3. Moves(t, "release", loc[t])
  BY <1>2 DEF Completed, Expired, Goto, Moves
<1>4. Placed(t, "release", loc[t], created)
  BY <1>1, <1>2 DEF Placed, TaskLabels, AtWork
<1>5. NotifyTypeOK'
  BY PlaceFacts, NotifyFacts DEF Completed, Expired
<1>6. UNCHANGED <<created, slots, sweep, reserved, inflight>>
  BY DEF Completed, Expired
<1>7. \/ UNCHANGED <<state, alive>> \/ Close(c)
      \/ /\ state' = [state EXCEPT ![c] = IF @ = "ACTIVE" THEN "RETIRING" ELSE @]
         /\ UNCHANGED alive
  BY DEF Completed, Expired
<1> HIDE DEF c
<1>8. StateStep("release", loc[t])
  <2>1. CASE UNCHANGED <<state, alive>> \/ Close(c)
    BY <1>1, <1>6, <2>1, StateFacts
  <2>2. CASE /\ state' = [state EXCEPT ![c] = IF @ = "ACTIVE" THEN "RETIRING" ELSE @]
             /\ UNCHANGED alive
    BY <1>1, <1>6, <2>2 DEF StateStep, Inv, TypeOK
  <2> QED
    BY <1>7, <2>1, <2>2
<1>9. Inflights(t, "release", loc[t])
  BY <1>1, <1>6 DEF Inflights, Uses, Counted
<1>10. DrainStep(t, "release", loc[t])
  BY <1>1, <1>6 DEF DrainStep
<1> QED
  BY <1>1, <1>2, <1>3, <1>4, <1>5, <1>6, <1>8, <1>9, <1>10, StayStep
     DEF Reservations, Building, Labels

LEMMA ReleaseKeeps == ASSUME Inv, NEW t \in Tasks, Release(t) PROVE Inv'
<1> DEFINE c == loc[t].at
           l == IF inflight[c] = 1 THEN "drain" ELSE "notify"
<1>1. c \in Conns /\ inflight[c] > 0 /\ pc[t] = "release" /\ Uses(t, c)
  BY InUse DEF Release, Counted, Uses
<1>2. Placed(t, pc[t], loc[t], created) /\ t # Maintainer /\ t \in Procs
      /\ loc \in [Procs -> Locals]
  BY PlaceFacts DEF Inv, TypeOK
<1>3. Moves(t, l, loc[t])
  BY <1>2 DEF Release, Goto, Moves
<1>4. l \in {"drain", "notify"}
  OBVIOUS
<1>5. NotifyTypeOK'
  BY PlaceFacts, NotifyFacts DEF Release
<1>6. UNCHANGED <<created, slots, sweep, reserved, state, alive>>
      /\ inflight' = [inflight EXCEPT ![c] = @ - 1]
  BY DEF Release
<1>7. DrainStep(t, l, loc[t])
  <2>1. \A d \in Conns : inflight'[d] = 0 /\ inflight[d] # 0 => d = c /\ inflight[c] = 1
    BY <1>1, <1>6 DEF Inv, TypeOK
  <2> QED
    BY <1>1, <2>1 DEF DrainStep
<1> HIDE DEF c, l
<1>8. Placed(t, l, loc[t], created)
  BY <1>1, <1>2, <1>4 DEF Placed, TaskLabels, AtWork
<1>9. StateStep(l, loc[t])
  BY <1>6, StateFacts
<1>10. Inflights(t, l, loc[t])
  BY <1>1, <1>4, <1>6 DEF Inflights, Counted
<1>11. l \in Labels \ Building
  BY <1>4 DEF Labels, Building
<1> QED
  BY <1>1, <1>2, <1>3, <1>4, <1>5, <1>6, <1>7, <1>8, <1>9, <1>10, <1>11, StayStep
     DEF Reservations, Building

LEMMA CloseDrainedKeeps == ASSUME Inv, NEW t \in Tasks, CloseDrained(t) PROVE Inv'
<1> DEFINE c == loc[t].at
<1>1. c \in Conns /\ c \in Known /\ pc[t] = "drain"
  BY PlaceFacts DEF CloseDrained, Placed, AtWork, Known
<1>2. Placed(t, pc[t], loc[t], created) /\ t # Maintainer /\ t \in Procs
      /\ loc \in [Procs -> Locals]
  BY PlaceFacts DEF Inv, TypeOK
<1>3. Moves(t, "notify", loc[t])
  BY <1>2 DEF CloseDrained, Goto, Moves
<1>4. Placed(t, "notify", loc[t], created)
  BY <1>1, <1>2 DEF Placed, TaskLabels, AtWork
<1>5. NotifyTypeOK'
  BY PlaceFacts, NotifyFacts DEF CloseDrained
<1>6. UNCHANGED <<created, slots, sweep, reserved, inflight>>
      /\ IF state[c] # "ACTIVE" THEN Close(c) ELSE UNCHANGED <<state, alive>>
  BY DEF CloseDrained
<1> HIDE DEF c
<1>7. StateStep("notify", loc[t]) /\ state'[c] # "RETIRING"
  <2>1. CASE state[c] # "ACTIVE"
    BY <1>1, <1>6, <2>1, StateFacts
  <2>2. CASE state[c] = "ACTIVE"
    BY <1>6, <2>2, StateFacts
  <2> QED
    BY <2>1, <2>2
<1>8. DrainStep(t, "notify", loc[t])
  BY <1>6, <1>7 DEF DrainStep, c
<1>9. Inflights(t, "notify", loc[t])
  BY <1>1, <1>6 DEF Inflights, Uses, Counted
<1> QED
  BY <1>1, <1>2, <1>3, <1>4, <1>5, <1>6, <1>7, <1>8, <1>9, StayStep
     DEF Reservations, Building, Labels

LEMMA ReserveKeeps == ASSUME Inv, NEW p \in Procs, Reserve(p) PROVE Inv'
<1>1. Placed(p, pc[p], loc[p], created) /\ loc \in [Procs -> Locals] /\ pc[p] = "cas"
  BY PlaceFacts DEF Inv, TypeOK, Reserve
<1>2. NotifyTypeOK'
  BY PlaceFacts, NotifyFacts DEF Reserve
<1>3. PICK l \in {"connect", "reserve"} : Moves(p, l, loc[p]) /\ Reservations(p, l)
  <2>1. CASE reserved = loc[p].seen
    BY <1>1, <2>1 DEF Reserve, Moves, Goto, Reservations, Building
  <2>2. CASE reserved # loc[p].seen
    BY <1>1, <2>2 DEF Reserve, Moves, Goto, Reservations, Building
  <2> QED
    BY <2>1, <2>2
<1>4. Placed(p, l, loc[p], created)
  BY <1>1, PlaceFacts DEF Placed, TaskLabels, AtWork, Expanding, Sweeping
<1>5. Inflights(p, l, loc[p])
  BY <1>1 DEF Inflights, Uses, Counted, Reserve, conns
<1>6. StateStep(l, loc[p])
  BY StateFacts DEF Reserve, conns
<1>7. DrainStep(p, l, loc[p])
  BY <1>1 DEF DrainStep, Reserve, conns
<1>8. l \in Labels \ Sweeping
  BY DEF Labels, Sweeping
<1> QED
  BY <1>1, <1>2, <1>3, <1>4, <1>5, <1>6, <1>7, <1>8, StayStep DEF Reserve, conns

LEMMA ConnectFailedKeeps == ASSUME Inv, NEW p \in Procs, ConnectFailed(p) PROVE Inv'
<1>1. Placed(p, pc[p], loc[p], created) /\ loc \in [Procs -> Locals] /\ pc[p] = "connect"
  BY PlaceFacts DEF Inv, TypeOK, ConnectFailed
<1>2. NotifyTypeOK'
  BY PlaceFacts, NotifyFacts DEF ConnectFailed
<1>3. PICK l : l = (IF p = Maintainer THEN "idle" ELSE "backoff")
  OBVIOUS
<1>4. Moves(p, l, Blank)
  BY <1>3 DEF ConnectFailed, Moves, Goto
<1>5. Placed(p, l, Blank, created)
  BY <1>1, <1>3, PlaceFacts DEF Placed, TaskLabels, AtWork, Expanding, Procs
<1>6. l \in Labels \ (Sweeping \cup Building \cup Counted)
  BY <1>3 DEF Labels, Sweeping, Building, Counted
<1>7. Inflights(p, l, Blank)
  BY <1>1, <1>6 DEF Inflights, Uses, Counted, ConnectFailed, conns
<1>8. StateStep(l, Blank)
  BY StateFacts DEF ConnectFailed, conns
<1>9. DrainStep(p, l, Blank)
  BY <1>1 DEF DrainStep, ConnectFailed, conns
<1>10. Reservations(p, l)
  BY <1>1, <1>6 DEF Reservations, ConnectFailed, Building
<1> QED
  BY <1>1, <1>2, <1>4, <1>5, <1>6, <1>7, <1>8, <1>9, <1>10, StayStep
     DEF ConnectFailed, conns, Building

LEMMA ConnectedKeeps == ASSUME Inv, NEW p \in Procs, Connected(p) PROVE Inv'
<1> DEFINE n == created + 1
           m == [loc[p] EXCEPT !.at = n]
<1>1. Placed(p, pc[p], loc[p], created) /\ loc[p] \in Locals /\ pc[p] = "connect"
  BY PlaceFacts DEF Placed, Connected
<1>2. n \in Conns /\ n \in 0 .. MaxConns /\ n # 0 /\ created' = n /\ n \notin Known
      /\ created' \in 0 .. MaxConns
  BY PlaceFacts, PoolAssumption DEF Connected, Conns, Known
<1>3. m \in Locals /\ m.todo = loc[p].todo /\ m.at = n /\ m.want = loc[p].want
  BY <1>1, <1>2, LocalsFacts
<1>4. Moves(p, "insert", m)
  BY DEF Connected, Moves, Goto
<1>5. NotifyTypeOK'
  BY PlaceFacts, NotifyFacts DEF Connected
<1> HIDE DEF m
<1>6. Placed(p, "insert", m, created')
  BY <1>1, <1>2, <1>3, PlaceFacts DEF Placed, TaskLabels, AtWork, Expanding, Sweeping
<1>7. Inflights(p, "insert", m)
  BY <1>1 DEF Inflights, Uses, Counted, Connected
<1>8. StateStep("insert", m)
  <2>1. /\ state' = [state EXCEPT ![n] = "ACTIVE"] /\ alive' = [alive EXCEPT ![n] = TRUE]
    BY DEF Connected
  <2> HIDE DEF n
  <2>2. /\ state' \in [Conns -> {"none", "ACTIVE", "RETIRING", "CLOSED"}]
        /\ alive' \in [Conns -> BOOLEAN] /\ state'[n] = "ACTIVE"
        /\ \A c \in Conns : c # n => state'[c] = state[c] /\ alive'[c] = alive[c]
    BY <1>2, <2>1 DEF Inv, TypeOK
  <2> QED
    BY <1>2, <1>3, <2>2 DEF StateStep, n
<1>9. DrainStep(p, "insert", m)
  BY <1>1 DEF DrainStep, Connected
<1>10. Reservations(p, "insert")
  BY <1>1 DEF Reservations, Connected, Building
<1> QED
  BY <1>1, <1>4, <1>5, <1>6, <1>7, <1>8, <1>9, <1>10, StayStep
     DEF Connected, Labels, Sweeping

\* A maintenance run goes on after one of its expansions.
LEMMA AfterFacts ==
    ASSUME Inv, pc[Maintainer] \in Expanding, AfterExpansion(Maintainer)
    PROVE  \E l, m :
               /\ l \in {"reserve", "idle"} /\ Moves(Maintainer, l, m)
               /\ Placed(Maintainer, l, m, created)
<1> DEFINE m == [Blank EXCEPT !.want = loc[Maintainer].want - 1]
           l == IF loc[Maintainer].want > 1 THEN "reserve" ELSE "idle"
<1>1. loc[Maintainer] \in Locals /\ loc[Maintainer].want >= 1
  BY PlaceFacts DEF Placed
<1>2. loc[Maintainer].want \in Nat /\ loc[Maintainer].want - 1 \in Nat
  BY <1>1 DEF Locals
<1>3. m \in Locals /\ m.todo = {} /\ m.at = 0 /\ m.want = loc[Maintainer].want - 1
  BY <1>2, LocalsFacts, PlaceFacts
<1>4. Moves(Maintainer, l, m)
  BY PlaceFacts DEF AfterExpansion, Moves, Goto
<1> HIDE DEF m
<1>5. l \in {"reserve", "idle"} /\ (l = "reserve" => m.want >= 1)
  BY <1>2, <1>3
<1> HIDE DEF l
<1>6. Placed(Maintainer, l, m, created)
  BY <1>3, <1>5, PlaceFacts DEF Placed, AtWork, Expanding
<1> QED
  BY <1>4, <1>5, <1>6

LEMMA CommitKeeps == ASSUME Inv, NEW p \in Procs, Commit(p) PROVE Inv'
<1>1. Placed(p, pc[p], loc[p], created) /\ loc[p] \in Locals /\ pc[p] = "commit"
  BY PlaceFacts DEF Commit, Placed
<1>2. NotifyTypeOK'
  BY PlaceFacts, NotifyFacts DEF Commit
<1>3. \E l, m :
          /\ l \in {"reserve", "idle", "scan"} /\ Moves(p, l, m)
          /\ Placed(p, l, m, created)
  <2>1. CASE p = Maintainer
    BY <1>1, <2>1, AfterFacts DEF Commit, Expanding
  <2>2. CASE p # Maintainer
    <3> DEFINE c == loc[p].at
               m == [Blank EXCEPT !.todo = {c}, !.at = c, !.fresh = TRUE]
    <3>1. c \in 0 .. created /\ c # 0 /\ c \in Conns /\ c \in 0 .. MaxConns /\ c \in 1 .. created
      BY <1>1, PlaceFacts, PoolAssumption DEF Placed, AtWork, Conns
    <3>2. Moves(p, "scan", m)
      BY <2>2 DEF Commit, Moves, Goto
    <3> HIDE DEF c
    <3>3. m \in Locals /\ m.todo = {c} /\ m.at = c
      BY <3>1, PlaceFacts DEF Locals
    <3> HIDE DEF m
    <3>4. Placed(p, "scan", m, created)
      BY <2>2, <3>1, <3>3, PlaceFacts DEF Placed, AtWork, TaskLabels
    <3> QED
      BY <3>2, <3>4
  <2> QED
    BY <2>1, <2>2
<1>4. PICK l, m :
          /\ l \in {"reserve", "idle", "scan"} /\ Moves(p, l, m)
          /\ Placed(p, l, m, created)
  BY <1>3
<1>5. l \in Labels \ (Sweeping \cup Building \cup Counted)
  BY <1>4 DEF Labels, Sweeping, Building, Counted
<1>6. Inflights(p, l, m)
  BY <1>1, <1>5 DEF Inflights, Uses, Counted, Commit, conns
<1>7. StateStep(l, m)
  BY StateFacts DEF Commit, conns
<1>8. DrainStep(p, l, m)
  BY <1>1 DEF DrainStep, Commit, conns
<1>9. Reservations(p, l)
  BY <1>1, <1>5 DEF Reservations, Commit, Building
<1> QED
  BY <1>1, <1>2, <1>4, <1>5, <1>6, <1>7, <1>8, <1>9, StayStep
     DEF Commit, conns

LEMMA KeptFacts ==
    ASSUME Inv
    PROVE  /\ Kept(slots) \subseteq slots
           /\ Kept(slots) \in SUBSET Conns /\ slots \in SUBSET Conns
           /\ Cardinality(Kept(slots)) <= MaxSize
<1>1. Kept(slots) \subseteq slots /\ slots \in SUBSET Conns
  BY DEF Kept, Inv, TypeOK
<1>2. IsFiniteSet(slots) /\ Cardinality(slots) \in Nat /\ Cardinality(Kept(slots)) \in Nat
  BY <1>1, ConnSets
<1>3. Cardinality(Kept(slots)) <= Cardinality(slots)
  BY <1>1, <1>2, FS_Subset
<1> QED
  BY <1>1, <1>2, <1>3, PoolAssumption DEF Inv, SizeInv

\* A step of an expansion that replaces the vector.
LEMMA InstallStep ==
    ASSUME Inv, NEW p, NEW l \in Labels, NEW m, Moves(p, l, m),
           Placed(p, l, m, created), NotifyTypeOK', UNCHANGED <<created, inflight>>,
           Install(slots'), Kept(slots) \subseteq slots', slots' \subseteq Known,
           Cardinality(slots') <= MaxSize,
           pc[p] = "insert" => loc[p].at \in slots' \/ state'[loc[p].at] = "CLOSED",
           pc[p] \notin Counted, l \notin Counted, pc[p] # "drain", l # pc[p],
           Reservations(p, l), StateStep(l, m), l \notin Sweeping
    PROVE  Inv'
<1>1. Inflights(p, l, m)
  BY DEF Inflights, Uses
<1>2. DrainStep(p, l, m)
  BY DEF DrainStep
<1>3. SlotStep(p, l)
  BY DEF SlotStep, Known, Kept
<1>4. sweep' \in Sweeps /\ sweep'.keep \cup sweep'.idle \cup sweep'.drop \subseteq Known
  <2>1. sweep \in Sweeps /\ sweep.keep \cup sweep.idle \cup sweep.drop \subseteq Known
    BY DEF Inv, TypeOK, KnownInv, Sweeps
  <2> QED
    BY <2>1 DEF Install, Sweeps
<1>5. Step(p, l, m)
  BY <1>1, <1>2, <1>3, <1>4 DEF Step
<1>6. SweepInv'
  BY <1>5, SweepAside
<1> QED
  BY <1>5, <1>6, StepKeeps

LEMMA PruneKeeps == ASSUME Inv, NEW p \in Procs, Prune(p) PROVE Inv'
<1>1. Placed(p, pc[p], loc[p], created) /\ loc \in [Procs -> Locals] /\ pc[p] = "prune"
  BY PlaceFacts DEF Prune, Inv, TypeOK
<1>2. NotifyTypeOK'
  BY PlaceFacts, NotifyFacts DEF Prune
<1>3. PICK l \in {"cas", "idle", "enable", "park"} :
          Moves(p, l, loc[p]) /\ (p = Maintainer => l \in {"cas", "idle"})
             /\ (p # Maintainer => l # "idle")
  <2> DEFINE l == IF Cardinality(Kept(slots)) + loc[p].seen < MaxSize THEN "cas"
                  ELSE IF p = Maintainer THEN "idle"
                  ELSE IF wait[p] = "none" THEN "enable" ELSE "park"
  <2>1. Moves(p, l, loc[p])
    BY <1>1 DEF Prune, Moves, Goto
  <2>2. l \in {"cas", "idle", "enable", "park"} /\ (p = Maintainer => l \in {"cas", "idle"})
        /\ (p # Maintainer => l # "idle")
    OBVIOUS
  <2> HIDE DEF l
  <2> QED
    BY <2>1, <2>2
<1>4. Placed(p, l, loc[p], created)
  BY <1>1, <1>3, PlaceFacts DEF Placed, TaskLabels, AtWork, Expanding
<1>5. l \in Labels \ (Sweeping \cup Building \cup Counted)
  BY DEF Labels, Sweeping, Building, Counted
<1>6. StateStep(l, loc[p]) /\ UNCHANGED <<created, inflight, reserved>>
  BY StateFacts DEF Prune, conns
<1>7. Reservations(p, l)
  BY <1>1, <1>5, <1>6 DEF Reservations, Building
<1>8. CASE Install(Kept(slots))
  <2>1. slots' = Kept(slots) /\ Install(slots') /\ slots' \subseteq Known
        /\ Cardinality(slots') <= MaxSize
    BY <1>8, KeptFacts DEF Install, Inv, KnownInv
  <2> QED
    BY <1>1, <1>2, <1>3, <1>4, <1>5, <1>6, <1>7, <2>1, InstallStep DEF Counted
<1>9. CASE UNCHANGED <<slots, notify, sweep>>
  BY <1>1, <1>2, <1>3, <1>4, <1>5, <1>6, <1>9, QuietStep DEF Counted, Building, conns, Prune
<1> QED
  BY <1>8, <1>9 DEF Prune

LEMMA InsertKeeps == ASSUME Inv, NEW p \in Procs, Insert(p) PROVE Inv'
<1> DEFINE c == loc[p].at
<1>1. Placed(p, pc[p], loc[p], created) /\ loc \in [Procs -> Locals] /\ pc[p] = "insert"
  BY PlaceFacts DEF Insert, Inv, TypeOK
<1>2. c \in Known /\ c \in Conns
  BY <1>1, PlaceFacts DEF Placed, AtWork, Known
<1>3. NotifyTypeOK'
  BY PlaceFacts, NotifyFacts DEF Insert
<1>4. Moves(p, "commit", loc[p])
  BY <1>1 DEF Insert, Moves, Goto
<1>5. Placed(p, "commit", loc[p], created)
  BY <1>1, PlaceFacts DEF Placed, TaskLabels, AtWork, Expanding, Sweeping
<1>6. StateStep("commit", loc[p]) /\ UNCHANGED <<created, inflight, reserved>>
  BY StateFacts DEF Insert, conns
<1>7. Reservations(p, "commit")
  BY <1>1, <1>6 DEF Reservations, Building
<1>8. slots' = Kept(slots) \cup {c} /\ Cardinality(Kept(slots)) < MaxSize /\ Install(slots')
  BY DEF Insert, Install
<1>9. Cardinality(slots') <= MaxSize
  <2>1. IsFiniteSet(Kept(slots)) /\ Cardinality(Kept(slots)) \in Nat
    BY KeptFacts, ConnSets
  <2>2. Cardinality(slots') = Cardinality(Kept(slots))
        \/ Cardinality(slots') = Cardinality(Kept(slots)) + 1
    BY <1>8, <2>1, FS_AddElement
  <2> QED
    BY <1>8, <2>1, <2>2, PoolAssumption
<1>10. slots' \subseteq Known
  BY <1>2, <1>8, KeptFacts DEF Inv, KnownInv
<1> HIDE DEF c
<1> QED
  BY <1>1, <1>3, <1>4, <1>5, <1>6, <1>7, <1>8, <1>9, <1>10, InstallStep
     DEF Counted, Labels, Sweeping, c

LEMMA InsertRefusedKeeps == ASSUME Inv, NEW p \in Procs, InsertRefused(p) PROVE Inv'
<1> DEFINE c == loc[p].at
<1>1. Placed(p, pc[p], loc[p], created) /\ loc \in [Procs -> Locals] /\ pc[p] = "insert"
  BY PlaceFacts DEF InsertRefused, Inv, TypeOK
<1>2. c \in Known /\ c \in Conns
  BY <1>1, PlaceFacts DEF Placed, AtWork, Known
<1>3. NotifyTypeOK'
  BY PlaceFacts, NotifyFacts DEF InsertRefused
<1>4. PICK l, m :
          /\ l \in {"reserve", "idle", "backoff"} /\ Moves(p, l, m)
          /\ Placed(p, l, m, created)
  <2>1. CASE p = Maintainer
    BY <1>1, <2>1, AfterFacts DEF InsertRefused, Expanding
  <2>2. CASE p # Maintainer
    <3>1. Moves(p, "backoff", Blank)
      BY <2>2 DEF InsertRefused, BackOff, Moves, Goto
    <3>2. Placed(p, "backoff", Blank, created)
      BY <2>2, PlaceFacts DEF Placed, AtWork, TaskLabels
    <3> QED
      BY <3>1, <3>2
  <2> QED
    BY <2>1, <2>2
<1>5. l \in Labels \ (Sweeping \cup Building \cup Counted)
  BY <1>4 DEF Labels, Sweeping, Building, Counted
<1>6. StateStep(l, m) /\ state'[c] = "CLOSED" /\ UNCHANGED <<created, inflight>>
  BY <1>2, StateFacts DEF InsertRefused
<1>7. Reservations(p, l)
  BY <1>1, <1>5 DEF Reservations, Building, InsertRefused
<1>8. slots' = Kept(slots) /\ Install(slots') /\ slots' \subseteq Known
      /\ Cardinality(slots') <= MaxSize
  BY KeptFacts DEF InsertRefused, Install, Inv, KnownInv
<1> HIDE DEF c
<1> QED
  BY <1>1, <1>3, <1>4, <1>5, <1>6, <1>7, <1>8, InstallStep DEF Counted, c
-----------------------------------------------------------------------------
(***************************************************************************)
(* A maintenance sweep, and a connection that dies by itself.              *)
(***************************************************************************)
LEMMA SweepStep ==
    ASSUME Inv, NEW l, NEW m, Moves(Maintainer, l, m),
           Placed(Maintainer, l, m, created), l \in Sweeping \cup {"idle", "expand"},
           pc[Maintainer] \in Sweeping \cup {"idle", "expand"},
           UNCHANGED <<created, inflight, reserved>>, NotifyTypeOK', StateStep(l, m),
           slots' = slots \/
              (slots' \subseteq slots /\ \A c \in slots \ slots' : state'[c] = "CLOSED"),
           sweep' \in Sweeps, sweep'.keep \cup sweep'.idle \cup sweep'.drop \subseteq Known,
           SweepInv'
    PROVE  Inv'
<1>1. l \in Labels /\ l \notin Counted \cup Building \cup {"drain", "insert"}
      /\ pc[Maintainer] \notin Counted \cup Building \cup {"drain", "insert"}
  BY DEF Sweeping, Labels, Counted, Building
<1>2. Reservations(Maintainer, l) /\ DrainStep(Maintainer, l, m)
  BY <1>1 DEF Reservations, DrainStep
<1>3. SlotStep(Maintainer, l)
  <2>1. slots' \subseteq slots /\ slots \in SUBSET Conns
    BY DEF Inv, TypeOK
  <2>2. Cardinality(slots') <= MaxSize
    <3>1. IsFiniteSet(slots) /\ Cardinality(slots) \in Nat /\ Cardinality(slots') \in Nat
      BY <2>1, ConnSets
    <3>2. Cardinality(slots') <= Cardinality(slots)
      BY <2>1, <3>1, FS_Subset
    <3> QED
      BY <3>1, <3>2, PoolAssumption DEF Inv, SizeInv
  <2> QED
    BY <1>1, <2>1, <2>2 DEF SlotStep, Inv, KnownInv, Known
<1>4. Step(Maintainer, l, m)
  BY <1>1, <1>2, <1>3, PlaceFacts DEF Step
<1> QED
  BY <1>4, StepKeeps

\* What a sweep knows: its sets, and the slot it looks at.
LEMMA SweepFacts ==
    ASSUME Inv
    PROVE  /\ Maintainer \in Procs /\ pc \in [Procs -> Labels] /\ loc \in [Procs -> Locals]
           /\ loc[Maintainer] \in Locals /\ Placed(Maintainer, pc[Maintainer], loc[Maintainer], created)
           /\ loc[Maintainer].todo \subseteq Known /\ loc[Maintainer].todo \in SUBSET Conns
           /\ sweep \in Sweeps
           /\ sweep.keep \cup sweep.idle \cup sweep.drop \subseteq Known
           /\ Known \subseteq Conns /\ slots \subseteq Known /\ slots \in SUBSET Conns
           /\ state \in [Conns -> {"none", "ACTIVE", "RETIRING", "CLOSED"}]
           /\ NoSweep \in Sweeps /\ NoSweep.keep = {} /\ NoSweep.idle = {}
           /\ NoSweep.drop = {} /\ NoSweep.current
BY PlaceFacts DEF Inv, TypeOK, KnownInv, Known, Placed, Sweeps, NoSweep, Locals

LEMMA DieKeeps == ASSUME Inv, NEW c \in Conns, Die(c) PROVE Inv'
<1> DEFINE l == pc[Maintainer]
           m == loc[Maintainer]
<1>1. Moves(Maintainer, l, m)
  BY SweepFacts DEF Die, Moves
<1>2. Placed(Maintainer, l, m, created') /\ l \in Labels
  BY SweepFacts DEF Die
<1>3. NotifyTypeOK'
  BY PlaceFacts, NotifyFacts DEF Die
<1>4. StateStep(l, m)
  <2>1. alive' \in [Conns -> BOOLEAN] /\ \A d \in Conns : alive'[d] => alive[d]
    BY DEF Die, Inv, TypeOK
  <2> QED
    BY <2>1 DEF StateStep, Die, Inv, TypeOK
<1>5. DrainStep(Maintainer, l, m) /\ Reservations(Maintainer, l)
  BY DEF DrainStep, Reservations, Die
<1>6. SlotStep(Maintainer, l)
  BY DEF SlotStep, Die, Inv, KnownInv, Known, SizeInv
<1>7. Step(Maintainer, l, m)
  BY <1>1, <1>2, <1>3, <1>4, <1>5, <1>6, SweepFacts, PlaceFacts DEF Step, Die
<1>8. SweepInv'
  BY DEF SweepInv, Seen, Inv, Die
<1> QED
  BY <1>7, <1>8, StepKeeps

LEMMA MaintainStartKeeps == ASSUME Inv, MaintainStart PROVE Inv'
<1> DEFINE m == [Blank EXCEPT !.todo = slots]
<1>1. m \in Locals /\ m.todo = slots /\ m.at = 0
  <2>1. slots \in SUBSET Conns
    BY SweepFacts
  <2> QED
    BY <2>1, LocalsFacts, PlaceFacts
<1>2. Moves(Maintainer, "classify", m)
  BY SweepFacts DEF MaintainStart, Goto, Moves
<1>3. NotifyTypeOK'
  BY PlaceFacts, NotifyFacts DEF MaintainStart
<1> HIDE DEF m
<1>4. Placed(Maintainer, "classify", m, created)
  BY <1>1, PlaceFacts DEF Placed, AtWork, Expanding, Sweeping
<1>5. StateStep("classify", m) /\ UNCHANGED <<slots, reserved, conns>> /\ sweep' = NoSweep
      /\ pc[Maintainer] = "idle"
  BY StateFacts DEF MaintainStart, conns
<1>6. SweepInv'
  <2>1. loc'[Maintainer] = m
    BY <1>2, SweepFacts DEF Moves
  <2> QED
    BY <1>1, <1>5, <2>1, SweepFacts DEF SweepInv, Seen
<1> QED
  BY <1>2, <1>3, <1>4, <1>5, <1>6, SweepFacts, SweepStep DEF conns, Sweeping

LEMMA InspectKeeps == ASSUME Inv, NEW c \in Conns, Inspect(c) PROVE Inv'
<1> DEFINE m == Taken(loc[Maintainer], loc[Maintainer].todo \ {c}, c)
<1>1. c \in Known /\ c # 0 /\ c \in 0 .. MaxConns /\ c \in 0 .. created
      /\ c \in loc[Maintainer].todo
  BY SweepFacts, PlaceFacts, PoolAssumption DEF Inspect, Known, Conns
<1>2. m \in Locals /\ m.todo = loc[Maintainer].todo \ {c} /\ m.at = c
  <2>1. loc[Maintainer] \in Locals /\ loc[Maintainer].todo \ {c} \in SUBSET Conns
    BY SweepFacts
  <2>2. PICK k \in Locals, S \in SUBSET Conns :
            k = loc[Maintainer] /\ S = loc[Maintainer].todo \ {c}
    BY <2>1
  <2>3. /\ Taken(k, S, c) \in Locals
        /\ Taken(k, S, c).todo = S
        /\ Taken(k, S, c).at = c
    BY <1>1, LocalsPairs
  <2>4. m = Taken(k, S, c)
    BY <2>2
  <2> QED
    BY <2>2, <2>3, <2>4
<1>3. Moves(Maintainer, "inflight", m)
  BY SweepFacts DEF Inspect, Goto, Moves, Taken
<1>4. NotifyTypeOK'
  BY PlaceFacts, NotifyFacts DEF Inspect
<1> HIDE DEF m
<1>5. Placed(Maintainer, "inflight", m, created)
  BY <1>1, <1>2, SweepFacts, PlaceFacts DEF Placed, AtWork, Expanding, Sweeping, Known
<1>6. StateStep("inflight", m) /\ UNCHANGED <<slots, reserved, conns>>
      /\ sweep' = [sweep EXCEPT !.state = state[c]] /\ pc[Maintainer] = "classify"
  BY StateFacts DEF Inspect, conns
<1>7. sweep' \in Sweeps /\ sweep'.keep = sweep.keep /\ sweep'.idle = sweep.idle
      /\ sweep'.drop = sweep.drop /\ sweep'.current = sweep.current
  BY <1>6, SweepFacts DEF Sweeps
<1>8. SweepInv'
  <2>1. loc'[Maintainer] = m /\ loc[Maintainer].at = 0
    BY <1>3, <1>6, SweepFacts DEF Moves, Placed
  <2>2. Seen' = Seen
    BY <1>1, <1>2, <1>7, <2>1 DEF Seen
  <2> QED
    BY <1>6, <1>7, <2>2 DEF SweepInv, Inv, conns, Sweeping
<1> QED
  BY <1>3, <1>4, <1>5, <1>6, <1>7, <1>8, SweepFacts, SweepStep DEF conns, Sweeping

LEMMA ReadInflightKeeps == ASSUME Inv, ReadInflight PROVE Inv'
<1> DEFINE n == inflight[loc[Maintainer].at]
           m == [loc[Maintainer] EXCEPT !.seen = n]
<1>1. pc[Maintainer] = "inflight" /\ loc[Maintainer].at \in Conns /\ loc[Maintainer].at # 0
  BY SweepFacts, PlaceFacts DEF ReadInflight, Placed, AtWork
<1>2. n \in Nat
  BY <1>1 DEF Inv, TypeOK
<1> HIDE DEF n
<1>3. m \in Locals /\ m.todo = loc[Maintainer].todo /\ m.at = loc[Maintainer].at
  BY <1>2, SweepFacts, LocalsFacts
<1>4. Moves(Maintainer, "judge", m)
  BY SweepFacts DEF ReadInflight, Goto, Moves, n
<1>5. NotifyTypeOK'
  BY PlaceFacts, NotifyFacts DEF ReadInflight
<1> HIDE DEF m
<1>6. Placed(Maintainer, "judge", m, created)
  BY <1>1, <1>3, SweepFacts, PlaceFacts DEF Placed, AtWork, Expanding, Sweeping
<1>7. StateStep("judge", m) /\ UNCHANGED <<slots, reserved, conns, sweep>>
  BY StateFacts DEF ReadInflight, conns
<1>8. SweepInv'
  <2>1. loc'[Maintainer] = m
    BY <1>4, SweepFacts DEF Moves
  <2> QED
    BY <1>1, <1>3, <1>7, <2>1 DEF SweepInv, Seen, Inv, conns, Sweeping
<1> QED
  BY <1>1, <1>4, <1>5, <1>6, <1>7, <1>8, SweepFacts, SweepStep DEF conns, Sweeping

LEMMA ClassifyKeeps == ASSUME Inv, Classify PROVE Inv'
<1> DEFINE c == loc[Maintainer].at
           m == Judged(loc[Maintainer])
<1>1. c \in Known /\ c \in Conns /\ c # 0 /\ pc[Maintainer] = "judge"
  BY SweepFacts, PlaceFacts DEF Classify, Placed, AtWork, Known
<1>2. m \in Locals /\ m.todo = loc[Maintainer].todo /\ m.at = 0
  <2>1. loc[Maintainer] \in Locals /\ {} \in SUBSET Conns /\ 0 \in 0 .. MaxConns
    BY SweepFacts, PoolAssumption
  <2> QED
    BY <2>1, LocalsPairs
<1>3. Moves(Maintainer, "classify", m)
  BY SweepFacts DEF Classify, Goto, Moves, Judged
<1> HIDE DEF m
<1>4. Placed(Maintainer, "classify", m, created)
  BY <1>2, SweepFacts, PlaceFacts DEF Placed, AtWork, Expanding, Sweeping
<1>5. NotifyTypeOK' /\ UNCHANGED <<created, inflight, reserved, slots>>
  BY PlaceFacts, NotifyFacts DEF Classify
<1>6. \/ /\ sweep' = [sweep EXCEPT !.keep = @ \cup {c}]
         /\ UNCHANGED <<state, alive>> \/ Close(c)
      \/ /\ sweep' = [sweep EXCEPT !.idle = @ \cup {c}]
         /\ UNCHANGED <<state, alive>>
      \/ sweep' = [sweep EXCEPT !.drop = @ \cup {c}] /\ Close(c)
  BY DEF Classify
<1> HIDE DEF c
<1>7. StateStep("classify", m) /\ (Close(c) => state'[c] = "CLOSED")
  BY <1>1, <1>5, <1>6, StateFacts
<1>8. ASSUME NEW d \in Known, state[d] = "CLOSED" PROVE state'[d] = "CLOSED"
  BY <1>5, <1>7, <1>8, SweepFacts DEF StateStep, Known
<1>9. /\ sweep' \in Sweeps /\ sweep'.current = sweep.current
      /\ sweep'.keep \cup sweep'.idle \cup sweep'.drop
            = sweep.keep \cup sweep.idle \cup sweep.drop \cup {c}
      /\ sweep'.drop = sweep.drop \/ (sweep'.drop = sweep.drop \cup {c} /\ Close(c))
  BY <1>1, <1>6, SweepFacts DEF Sweeps
<1>10. SweepInv'
  <2>1. loc'[Maintainer] = m /\ loc[Maintainer].at = c
    BY <1>3, SweepFacts DEF Moves, c
  <2>2. Seen' = Seen
    BY <1>1, <1>2, <1>9, <2>1 DEF Seen
  <2>3. \A d \in sweep'.drop : state'[d] = "CLOSED"
    BY <1>1, <1>7, <1>8, <1>9, SweepFacts DEF SweepInv, Inv, Sweeping
  <2>4. sweep'.current => slots' = Seen'
    BY <1>1, <1>5, <1>9, <2>2 DEF SweepInv, Inv, Sweeping
  <2> QED
    BY <2>3, <2>4 DEF SweepInv
<1>11. sweep'.keep \cup sweep'.idle \cup sweep'.drop \subseteq Known
  BY <1>1, <1>9, SweepFacts
<1> QED
  BY <1>1, <1>3, <1>4, <1>5, <1>7, <1>9, <1>10, <1>11, SweepStep DEF Sweeping

LEMMA TopUpKeeps == ASSUME Inv, TopUp PROVE Inv'
<1> DEFINE m == loc[Maintainer]
<1>1. pc[Maintainer] = "classify" /\ m.todo = {} /\ m.at = 0 /\ m \in Locals
  BY SweepFacts DEF TopUp, Placed
<1>2. Moves(Maintainer, "evict", m)
  BY SweepFacts DEF TopUp, Goto, Moves
<1>3. Placed(Maintainer, "evict", m, created)
  BY <1>1, SweepFacts, PlaceFacts DEF Placed, AtWork, Expanding, Sweeping
<1>4. NotifyTypeOK' /\ UNCHANGED <<created, inflight, reserved, slots, state, alive, loc>>
  BY PlaceFacts, NotifyFacts DEF TopUp, conns
<1>5. PICK S \in SUBSET sweep.idle :
          sweep' = [sweep EXCEPT !.keep = @ \cup S, !.idle = @ \ S]
  BY DEF TopUp
<1>6. /\ sweep' \in Sweeps /\ sweep'.current = sweep.current /\ sweep'.drop = sweep.drop
      /\ sweep'.keep \cup sweep'.idle = sweep.keep \cup sweep.idle
  BY <1>5, SweepFacts DEF Sweeps
<1>7. StateStep("evict", m)
  BY <1>4, StateFacts
<1>8. Seen' = Seen
  BY <1>4, <1>6 DEF Seen
<1>9. SweepInv'
  BY <1>1, <1>4, <1>6, <1>8 DEF SweepInv, Inv, Sweeping
<1>10. sweep'.keep \cup sweep'.idle \cup sweep'.drop \subseteq Known
  BY <1>6, SweepFacts
<1> HIDE DEF m
<1> QED
  BY <1>1, <1>2, <1>3, <1>4, <1>6, <1>7, <1>9, <1>10, SweepStep DEF Sweeping

LEMMA IdleCheckKeeps == ASSUME Inv, NEW c \in Conns, IdleCheck(c) PROVE Inv'
<1>1. pc[Maintainer] = "evict" /\ loc[Maintainer].at = 0 /\ loc[Maintainer].todo = {}
      /\ c \in Known /\ c # 0 /\ c \in 0 .. MaxConns /\ c \in 0 .. created /\ c \in sweep.idle
  BY SweepFacts, PlaceFacts, PoolAssumption DEF IdleCheck, Placed, Known, Conns
<1>2. NotifyTypeOK' /\ UNCHANGED <<created, inflight, reserved, slots, state, alive>>
  BY PlaceFacts, NotifyFacts DEF IdleCheck, conns
<1>3. CASE inflight[c] # 0
  <2> DEFINE m == loc[Maintainer]
  <2>1. Moves(Maintainer, "evict", m)
    BY <1>1, <1>3, SweepFacts DEF IdleCheck, Moves
  <2>2. Placed(Maintainer, "evict", m, created)
    BY <1>1, SweepFacts
  <2>3. sweep' = [sweep EXCEPT !.keep = @ \cup {c}, !.idle = @ \ {c}] /\ UNCHANGED loc
    BY <1>3 DEF IdleCheck
  <2>4. /\ sweep' \in Sweeps /\ sweep'.current = sweep.current /\ sweep'.drop = sweep.drop
        /\ sweep'.keep \cup sweep'.idle = sweep.keep \cup sweep.idle
    BY <1>1, <2>3, SweepFacts DEF Sweeps
  <2>5. Seen' = Seen
    BY <2>3, <2>4 DEF Seen
  <2>6. SweepInv'
    BY <1>1, <1>2, <2>4, <2>5 DEF SweepInv, Inv, Sweeping
  <2>7. StateStep("evict", m)
    BY <1>2, StateFacts
  <2>8. sweep'.keep \cup sweep'.idle \cup sweep'.drop \subseteq Known
    BY <2>4, SweepFacts
  <2> HIDE DEF m
  <2> QED
    BY <1>1, <1>2, <2>1, <2>2, <2>4, <2>6, <2>7, <2>8, SweepStep DEF Sweeping
<1>4. CASE inflight[c] = 0
  <2> DEFINE m == [loc[Maintainer] EXCEPT !.at = c]
  <2>1. Moves(Maintainer, "evictCas", m)
    BY <1>4, SweepFacts DEF IdleCheck, Moves, Goto
  <2>2. m \in Locals /\ m.todo = loc[Maintainer].todo /\ m.at = c
    BY <1>1, SweepFacts, LocalsFacts
  <2> HIDE DEF m
  <2>3. Placed(Maintainer, "evictCas", m, created)
    BY <1>1, <2>2, SweepFacts, PlaceFacts DEF Placed, AtWork, Expanding, Sweeping
  <2>4. UNCHANGED sweep
    BY <1>4 DEF IdleCheck
  <2>5. loc'[Maintainer] = m
    BY <2>1, SweepFacts DEF Moves
  <2>6. Seen' = Seen
    BY <1>1, <2>2, <2>4, <2>5 DEF Seen
  <2>7. SweepInv'
    BY <1>1, <1>2, <2>4, <2>6 DEF SweepInv, Inv, Sweeping
  <2>8. StateStep("evictCas", m)
    BY <1>2, StateFacts
  <2> QED
    BY <1>1, <1>2, <2>1, <2>3, <2>4, <2>7, <2>8, SweepFacts, SweepStep DEF Sweeping
<1> QED
  BY <1>3, <1>4

LEMMA IdleCloseKeeps == ASSUME Inv, IdleClose PROVE Inv'
<1> DEFINE c == loc[Maintainer].at
           m == [loc[Maintainer] EXCEPT !.at = 0]
<1>1. c \in Known /\ c \in Conns /\ c # 0 /\ pc[Maintainer] = "evictCas"
      /\ loc[Maintainer].todo = {}
  BY SweepFacts, PlaceFacts DEF IdleClose, Placed, AtWork, Known
<1>2. m \in Locals /\ m.todo = {} /\ m.at = 0
  <2>1. 0 \in 0 .. MaxConns
    BY PoolAssumption
  <2> QED
    BY <1>1, <2>1, SweepFacts, LocalsFacts
<1>3. Moves(Maintainer, "evict", m)
  BY SweepFacts DEF IdleClose, Goto, Moves
<1> HIDE DEF m
<1>4. Placed(Maintainer, "evict", m, created)
  BY <1>2, SweepFacts, PlaceFacts DEF Placed, AtWork, Expanding, Sweeping
<1>5. NotifyTypeOK' /\ UNCHANGED <<created, inflight, reserved, slots>>
  BY PlaceFacts, NotifyFacts DEF IdleClose
<1>6. \/ /\ sweep' = [sweep EXCEPT !.keep = @ \cup {c}, !.idle = @ \ {c}]
         /\ UNCHANGED <<state, alive>>
      \/ sweep' = [sweep EXCEPT !.drop = @ \cup {c}, !.idle = @ \ {c}] /\ Close(c)
  BY DEF IdleClose
<1> HIDE DEF c
<1>7. StateStep("evict", m) /\ (Close(c) => state'[c] = "CLOSED")
  BY <1>1, <1>5, <1>6, StateFacts
<1>8. ASSUME NEW d \in Known, state[d] = "CLOSED" PROVE state'[d] = "CLOSED"
  BY <1>5, <1>7, <1>8, SweepFacts DEF StateStep, Known
<1>9. /\ sweep' \in Sweeps /\ sweep'.current = sweep.current
      /\ sweep'.keep \cup sweep'.idle \cup sweep'.drop
            = sweep.keep \cup sweep.idle \cup sweep.drop \cup {c}
      /\ sweep'.drop = sweep.drop \/ (sweep'.drop = sweep.drop \cup {c} /\ Close(c))
  <2>1. \/ /\ sweep'.keep = sweep.keep \cup {c} /\ sweep'.idle = sweep.idle \ {c}
           /\ sweep'.drop = sweep.drop
        \/ /\ sweep'.keep = sweep.keep /\ sweep'.idle = sweep.idle \ {c}
           /\ sweep'.drop = sweep.drop \cup {c} /\ Close(c)
    BY <1>6, SweepFacts DEF Sweeps
  <2>2. sweep' \in Sweeps /\ sweep'.current = sweep.current
    <3>1. /\ sweep.keep \cup {c} \in SUBSET Conns /\ sweep.drop \cup {c} \in SUBSET Conns
          /\ sweep.idle \ {c} \in SUBSET Conns /\ sweep \in Sweeps
      BY <1>1, SweepFacts DEF Sweeps
    <3>2. CASE sweep' = [sweep EXCEPT !.keep = @ \cup {c}, !.idle = @ \ {c}]
      BY <3>1, <3>2 DEF Sweeps
    <3>3. CASE sweep' = [sweep EXCEPT !.drop = @ \cup {c}, !.idle = @ \ {c}]
      BY <3>1, <3>3 DEF Sweeps
    <3> QED
      BY <1>6, <3>2, <3>3
  <2> QED
    BY <2>1, <2>2
<1>10. SweepInv'
  <2>1. loc'[Maintainer] = m /\ loc[Maintainer].at = c
    BY <1>3, SweepFacts DEF Moves, c
  <2>2. Seen' = Seen
    BY <1>1, <1>2, <1>9, <2>1 DEF Seen
  <2>3. \A d \in sweep'.drop : state'[d] = "CLOSED"
    BY <1>1, <1>7, <1>8, <1>9, SweepFacts DEF SweepInv, Inv, Sweeping
  <2>4. sweep'.current => slots' = Seen'
    BY <1>1, <1>5, <1>9, <2>2 DEF SweepInv, Inv, Sweeping
  <2> QED
    BY <2>3, <2>4 DEF SweepInv
<1>11. sweep'.keep \cup sweep'.idle \cup sweep'.drop \subseteq Known
  BY <1>1, <1>9, SweepFacts
<1> QED
  BY <1>1, <1>3, <1>4, <1>5, <1>7, <1>9, <1>10, <1>11, SweepStep DEF Sweeping

LEMMA SwapKeeps == ASSUME Inv, Swap PROVE Inv'
<1>1. pc[Maintainer] = "evict" /\ loc[Maintainer].at = 0 /\ loc[Maintainer].todo = {}
      /\ sweep.idle = {}
  BY SweepFacts DEF Swap, Placed
<1>2. NotifyTypeOK' /\ UNCHANGED <<created, inflight, reserved, state, alive>>
  BY PlaceFacts, NotifyFacts DEF Swap, conns
<1>3. PICK l \in {"expand", "idle"} : Moves(Maintainer, l, Blank)
  BY SweepFacts DEF Swap, Moves, Goto
<1>4. Placed(Maintainer, l, Blank, created)
  BY PlaceFacts DEF Placed, AtWork, Expanding
<1>5. StateStep(l, Blank)
  BY <1>2, StateFacts
<1>6. /\ sweep.current => slots = sweep.keep \cup sweep.drop
      /\ \A d \in sweep.drop : state[d] = "CLOSED"
  BY <1>1 DEF SweepInv, Seen, Inv, Sweeping
<1>7. slots' = slots \/
         (slots' \subseteq slots /\ \A d \in slots \ slots' : state'[d] = "CLOSED")
  BY <1>2, <1>6 DEF Swap
<1>8. sweep' = NoSweep
  BY DEF Swap
<1>9. SweepInv'
  BY <1>3, SweepFacts DEF SweepInv, Moves, Sweeping
<1> QED
  BY <1>1, <1>2, <1>3, <1>4, <1>5, <1>7, <1>8, <1>9, SweepFacts, SweepStep DEF Sweeping
-----------------------------------------------------------------------------
(***************************************************************************)
(* The invariant.                                                          *)
(***************************************************************************)
LEMMA Initially == Init => Inv
<1> SUFFICES ASSUME Init PROVE Inv
  OBVIOUS
<1>1. /\ slots = {} /\ reserved = 0 /\ created = 0 /\ sweep = NoSweep
      /\ \A c \in Conns : state[c] = "none" /\ ~alive[c] /\ inflight[c] = 0
      /\ \A p \in Procs : pc[p] \in {"idle", "expand"} /\ loc[p] = Blank
      /\ \A t \in Tasks : pc[t] = "idle"
  BY PoolAssumption DEF Init, Procs
<1>2. Blank \in Locals /\ Blank.todo = {} /\ Blank.at = 0
  BY PoolAssumption DEF Blank, Locals
<1>3. TypeOK
  <2>1. pc \in [Procs -> Labels] /\ loc \in [Procs -> Locals]
    BY <1>2 DEF Init, Labels
  <2>2. NotifyTypeOK
    BY DEF Init, NotifyInit, NotifyTypeOK
  <2>3. sweep \in [keep : SUBSET Conns, idle : SUBSET Conns,
                   drop : SUBSET Conns, current : BOOLEAN,
                   state : {"none", "ACTIVE", "RETIRING", "CLOSED"}]
    BY DEF Init, NoSweep
  <2> QED
    BY <1>1, <2>1, <2>2, <2>3, PoolAssumption DEF Init, TypeOK
<1>4. PlaceInv
  BY <1>1, <1>2, PoolAssumption DEF PlaceInv, Placed, TaskLabels, AtWork, Expanding
<1>5. KnownInv
  BY <1>1, PoolAssumption DEF KnownInv, Known, NoSweep, Conns
<1>6. CountInv
  <2>1. \A c \in Conns : Users(c) = {}
    BY <1>1 DEF Users, Counted
  <2>2. Builders = {}
    BY <1>1 DEF Builders, Building
  <2> QED
    BY <1>1, <2>1, <2>2, FS_EmptySet, PoolAssumption DEF CountInv
<1>7. RetireInv /\ OpenInv /\ SweepInv
  BY <1>1, PoolAssumption DEF RetireInv, OpenInv, Known, SweepInv, Sweeping, Procs
<1>8. SizeInv
  BY <1>1, FS_EmptySet, PoolAssumption DEF SizeInv
<1> QED
  BY <1>3, <1>4, <1>5, <1>6, <1>7, <1>8 DEF Inv

LEMMA StutterKeeps == ASSUME Inv, UNCHANGED vars PROVE Inv'
<1>1. UNCHANGED <<slots, reserved, created, state, alive, inflight, wait, permit,
                  pc, loc, sweep>>
  BY DEF vars
<1>2. TypeOK' /\ NotifyTypeOK'
  BY <1>1 DEF Inv, TypeOK, NotifyTypeOK
<1>3. PlaceInv' /\ KnownInv' /\ SizeInv'
  BY <1>1 DEF Inv, PlaceInv, Placed, KnownInv, Known, SizeInv
<1>4. CountInv'
  BY <1>1 DEF Inv, CountInv, Users, Builders
<1>5. RetireInv' /\ OpenInv' /\ SweepInv'
  BY <1>1 DEF Inv, RetireInv, OpenInv, Known, Draining, Inserting, SweepInv, Seen
<1> QED
  BY <1>2, <1>3, <1>4, <1>5 DEF Inv

LEMMA Inductive == Inv /\ [Next]_vars => Inv'
<1> SUFFICES ASSUME Inv, [Next]_vars PROVE Inv'
  OBVIOUS
<1>1. ASSUME NEW t \in Tasks, Acquire(t) PROVE Inv'
  BY <1>1, LoadSlotsKeeps, CountInKeeps, LeaseKeeps, UndoKeeps, TurnKeeps, TryKeeps
     DEF Acquire
<1>2. ASSUME NEW t \in Tasks, UseLease(t) PROVE Inv'
  BY <1>2, CompletedKeeps, TurnKeeps, ReleaseKeeps, CloseDrainedKeeps DEF UseLease
<1>3. ASSUME NEW p \in Procs, ExpandOne(p) PROVE Inv'
  BY <1>3, ReadReservedKeeps, PruneKeeps, ReserveKeeps, ConnectedKeeps,
     ConnectFailedKeeps, InsertKeeps, InsertRefusedKeeps, CommitKeeps DEF ExpandOne
<1>4. ASSUME Maintain PROVE Inv'
  BY <1>4, MaintainQuietlyKeeps, MaintainStartKeeps, ReadInflightKeeps, ClassifyKeeps,
     TopUpKeeps, IdleCloseKeeps, SwapKeeps, InspectKeeps, IdleCheckKeeps DEF Maintain
<1>5. ASSUME NEW c \in Conns, Die(c) PROVE Inv'
  BY <1>5, DieKeeps
<1>6. CASE UNCHANGED vars
  BY <1>6, StutterKeeps
<1> QED
  BY <1>1, <1>2, <1>3, <1>4, <1>5, <1>6 DEF Next

LEMMA Invariant == Spec => []Inv
BY Initially, Inductive, PTL DEF Spec
-----------------------------------------------------------------------------
(***************************************************************************)
(* The theorems.                                                           *)
(***************************************************************************)

\* PipelineSlot::inflight is the number of queries counted in and not out, and never
\* exceeds max_load; reserved_slots is the number of connections being built: the
\* compare-and-swap loops and the undo after a failed re-check lose no count.
THEOREM CountersAreExact == Spec => []CountersExact
<1>1. Inv => CountersExact
  <2> SUFFICES ASSUME Inv PROVE CountersExact
    OBVIOUS
  <2>1. \A c \in Conns : Users(c) = {t \in Tasks : loc[t].at = c /\
                              pc[t] \in {"recheck", "leased", "release"}}
    BY DEF Users, Counted
  <2>2. Builders = {p \in Procs : pc[p] \in {"connect", "insert", "commit"}}
    BY DEF Builders, Building
  <2> QED
    BY <2>1, <2>2 DEF CountersExact, Inv, CountInv
<1> QED
  BY Invariant, <1>1, PTL

\* A slot that leaves the vector (pruned, swapped out, refused) is closed, or the
\* thread that will close it still has it: no open connection is lost to the pool.
THEOREM NothingIsForgotten == Spec => []NoForgottenConnection
<1>1. Inv => NoForgottenConnection
  BY DEF Inv, OpenInv, Known, Inserting, Draining, NoForgottenConnection
<1> QED
  BY Invariant, <1>1, PTL

\* The pool never holds more than max_size open connections, the ones being
\* inserted or closed at this moment apart: the count is taken again when a slot is
\* inserted, so the stale count a reservation rests on does no harm.
THEOREM PoolIsBounded == Spec => []PoolBounded
<1>1. Inv => PoolBounded
  <2> SUFFICES ASSUME Inv PROVE PoolBounded
    OBVIOUS
  <2> DEFINE Open == {c \in Conns : alive[c]}
             Late == {p \in Procs : pc[p] \in {"insert", "drain"}}
             f == [p \in Late |-> loc[p].at]
             Held == {loc[p].at : p \in Late}
  <2>1. Open \subseteq slots \cup Held
    <3>1. ASSUME NEW c \in Conns, alive[c], c \notin slots PROVE c \in Held
      <4>1. state[c] \notin {"none", "CLOSED"} /\ c \in Known
        BY <3>1, PlaceFacts DEF Inv, KnownInv, Known, Conns
      <4>2. Inserting(c) \/ Draining(c)
        BY <3>1, <4>1 DEF Inv, OpenInv
      <4> QED
        BY <4>2 DEF Inserting, Draining
    <3> QED
      BY <3>1
  <2>2. IsFiniteSet(Procs)
    BY PoolAssumption, FS_AddElement DEF Procs
  <2>3. IsFiniteSet(Late) /\ Cardinality(Late) \in Nat
    BY <2>2, FS_Subset, FS_CardinalityType
  <2>4. f \in Surjection(Late, Held)
    BY DEF Surjection
  <2> HIDE DEF f, Held, Late, Open
  <2>5. IsFiniteSet(Held) /\ Cardinality(Held) <= Cardinality(Late)
    BY <2>3, <2>4, FS_Surjection
  <2>6. IsFiniteSet(slots) /\ Cardinality(slots) \in Nat /\ Cardinality(slots) <= MaxSize
    BY ConnSets DEF Inv, TypeOK, SizeInv
  <2>7. /\ IsFiniteSet(slots \cup Held)
        /\ Cardinality(slots \cup Held) =
              Cardinality(slots) + Cardinality(Held) - Cardinality(slots \cap Held)
    BY <2>5, <2>6, FS_Union
  <2>8. Cardinality(slots \cap Held) \in Nat /\ Cardinality(Held) \in Nat
    BY <2>5, <2>6, FS_Subset, FS_CardinalityType
  <2>9. Cardinality(Open) <= Cardinality(slots \cup Held) /\ Cardinality(Open) \in Nat
        /\ Cardinality(slots \cup Held) \in Nat
    BY <2>1, <2>7, FS_Subset, FS_CardinalityType
  <2>10. Cardinality(Open) <= MaxSize + Cardinality(Late)
    BY <2>3, <2>5, <2>6, <2>7, <2>8, <2>9, PoolAssumption
  <2> QED
    BY <2>10 DEF PoolBounded, Open, Late
<1> QED
  BY Invariant, <1>1, PTL

\* No step takes a slot out of CLOSED, neither the compare-and-swap of retire nor a
\* close that comes second nor the slot of a new connection.
LEMMA ClosedStep ==
    ASSUME Inv, [Next]_vars, NEW c \in Conns, state[c] = "CLOSED"
    PROVE  state'[c] = "CLOSED"
<1>1. state \in [Conns -> {"none", "ACTIVE", "RETIRING", "CLOSED"}] /\ c \in Nat
      /\ created \in Nat /\ c <= created
  BY PlaceFacts DEF Inv, TypeOK, KnownInv, Conns
<1>2. \A d : Close(d) => state'[c] = "CLOSED"
  BY <1>1 DEF Close
<1>3. ASSUME NEW t \in Tasks, Acquire(t) PROVE state'[c] = "CLOSED"
  BY <1>2, <1>3 DEF Acquire, LoadSlots, Try, CountIn, Lease, Undo, Register, Wake,
                    GiveUp, Retry, conns
<1>4. ASSUME NEW t \in Tasks, UseLease(t) PROVE state'[c] = "CLOSED"
  <2>1. CASE Expired(t)
    BY <1>1, <1>2, <2>1 DEF Expired
  <2>2. CASE ~Expired(t)
    BY <1>2, <1>4, <2>2 DEF UseLease, Completed, Cancelled, Release, CloseDrained,
                            NotifyReleased, conns
  <2> QED
    BY <2>1, <2>2
<1>5. ASSUME NEW p \in Procs, ExpandOne(p) PROVE state'[c] = "CLOSED"
  <2>1. CASE Connected(p)
    BY <1>1, <2>1 DEF Connected
  <2>2. CASE ~Connected(p)
    BY <1>2, <1>5, <2>2 DEF ExpandOne, ReadReserved, Prune, Reserve, ConnectFailed,
                            Insert, InsertRefused, Commit, conns
  <2> QED
    BY <2>1, <2>2
<1>6. ASSUME Maintain PROVE state'[c] = "CLOSED"
  BY <1>2, <1>6 DEF Maintain, MaintainEmpty, Expand, MaintainStart, ReadInflight,
                    Classify, TopUp, IdleClose, Swap, Inspect, IdleCheck, conns
<1>7. ASSUME NEW d \in Conns, Die(d) PROVE state'[c] = "CLOSED"
  BY <1>7 DEF Die
<1>8. CASE UNCHANGED vars
  BY <1>8 DEF vars
<1> QED
  BY <1>3, <1>4, <1>5, <1>6, <1>7, <1>8 DEF Next

\* A closed slot never serves again, whatever retires, closes and sweeps meet at it.
THEOREM ClosedStaysClosed == Spec => ClosedIsFinal
<1>1. Inv /\ [Next]_vars =>
          [\A c \in Conns : state[c] = "CLOSED" => state'[c] = "CLOSED"]_vars
  BY ClosedStep
<1> QED
  BY Invariant, <1>1, PTL DEF Spec, ClosedIsFinal

-----------------------------------------------------------------------------
(***************************************************************************)
(* No waiter is stranded.  A chance is a slot with room for one more query *)
(* or (written 0) an empty vector.  While somebody waits un-notified and   *)
(* nobody is building a connection, which ends by waking all, somebody     *)
(* minds each chance: will notify, will look again from the start, or is   *)
(* registered and has not looked there yet.                                *)
(***************************************************************************)
Waiters == Waiting(wait)

Chance(c) == IF c = 0 THEN slots = {}
             ELSE c \in slots /\ Usable(c) /\ inflight[c] < MaxLoad

\* The places where no registration is held.
Unregistered == {"idle", "leased", "release", "drain", "notify", "enable"}

Awake(t) ==
    \/ wait[t] = "one"
    \/ pc[t] \in {"leased", "release", "drain", "notify"}
    \/ /\ wait[t] = "none"
       /\ pc[t] \in {"load", "scan", "count", "recheck", "reserve", "prune", "cas",
                     "enable"}

\* t is registered and has yet to look at chance c.
Looking(t, c) ==
    /\ wait[t] = "waiting"
    /\ \/ pc[t] = "load"
       \/ pc[t] \in {"scan", "count", "recheck"} /\ c \in loc[t].todo \cup {0}
       \/ pc[t] \in {"reserve", "prune", "cas"} /\ c = 0

Minding(p, c) == p \in Tasks /\ (Awake(p) \/ Looking(p, c))

PermitInv == permit => Waiters = {}
WaitInv == \A t \in Tasks : pc[t] \in Unregistered => wait[t] = "none"
\* A reservation that ends wakes whoever has seen it and waits.
SeenInv == \A t \in Tasks :
    wait[t] = "waiting" /\ pc[t] \in {"prune", "cas"} => loc[t].seen <= reserved
ChanceInv ==
    Builders = {} /\ Waiters # {} =>
        \A c \in Conns \cup {0} : Chance(c) => \E t \in Tasks : Minding(t, c)

WakeInv == PermitInv /\ WaitInv /\ SeenInv /\ ChanceInv

\* Registrations but p's stay, or are chosen by a notify_one.
Gently(p) == \A u \in Tasks \ {p} :
    wait'[u] = wait[u] \/ (wait[u] = "waiting" /\ wait'[u] = "one")

LEMMA NotifyOneEffect ==
    ASSUME NEW w \in [Tasks -> {"none", "waiting", "one", "woken"}], NotifyOne(w),
           permit => Waiting(w) = {}
    PROVE  /\ \A u \in Tasks : wait'[u] = w[u] \/ (w[u] = "waiting" /\ wait'[u] = "one")
           /\ permit' => Waiters' = {}
           /\ Waiters' # {} => \E u \in Tasks : wait'[u] = "one"
<1>1. CASE Waiting(w) = {}
  BY <1>1 DEF NotifyOne, Waiters, Waiting
<1>2. CASE Waiting(w) # {}
  <2>1. PICK t \in Waiting(w) : wait' = [w EXCEPT ![t] = "one"] /\ permit' = permit
    BY <1>2 DEF NotifyOne
  <2> QED
    BY <1>2, <2>1 DEF Waiting
<1> QED
  BY <1>1, <1>2

LEMMA DropEffect ==
    ASSUME NotifyTypeOK, PermitInv, NEW t \in Tasks, DropWaiter(t)
    PROVE  /\ Gently(t) /\ wait'[t] = "none"
           /\ permit' => Waiters' = {}
           /\ wait[t] = "one" /\ Waiters' # {} => \E u \in Tasks : wait'[u] = "one"
<1> DEFINE w == [wait EXCEPT ![t] = "none"]
<1>1. /\ w \in [Tasks -> {"none", "waiting", "one", "woken"}] /\ w[t] = "none"
      /\ \A u \in Tasks \ {t} : w[u] = wait[u]
      /\ permit => Waiting(w) = {}
  BY DEF NotifyTypeOK, PermitInv, Waiters, Waiting
<1>2. CASE wait[t] = "one"
  <2>1. NotifyOne(w)
    BY <1>2 DEF DropWaiter
  <2> HIDE DEF w
  <2> QED
    BY <1>1, <2>1, NotifyOneEffect DEF Gently
<1>3. CASE wait[t] # "one"
  <2>1. wait' = w /\ permit' = permit
    BY <1>3 DEF DropWaiter
  <2> QED
    BY <1>1, <1>3, <2>1 DEF Gently, Waiters
<1> QED
  BY <1>2, <1>3

LEMMA EnableEffect ==
    ASSUME NotifyTypeOK, PermitInv, NEW t \in Tasks, Enable(t) \/ Notified(t)
    PROVE  /\ Gently(t) /\ (permit' => Waiters' = {})
           /\ Notified(t) => wait'[t] = "none"
           /\ Enable(t) /\ Waiters' # {} => wait'[t] = "waiting"
BY DEF NotifyTypeOK, PermitInv, Waiters, Waiting, Enable, Notified, Gently

LEMMA BroadcastEffect ==
    ASSUME NotifyTypeOK, NotifyWaiters
    PROVE  /\ Waiters' = {}
           /\ \A u \in Tasks : wait[u] = "none" => wait'[u] = "none"
BY DEF NotifyTypeOK, NotifyWaiters, Waiters, Waiting

\* Thread p goes to l with locals m, the others stay.
Goes(p, l, m) == \A q \in Procs :
    /\ pc'[q] = IF q = p THEN l ELSE pc[q]
    /\ loc'[q] = IF q = p THEN m ELSE loc[q]

\* What happens to p's chances and duties: a chance that is there after a step
\* is minded by p, or by somebody whom a notification has chosen, or was there
\* before and p gave up nothing.
Minded(p, c) ==
    \/ Minding(p, c)'
    \/ \E u \in Tasks : wait'[u] = "one"
    \/ Chance(c) /\ ~Minding(p, c) /\ Waiters # {} /\ Builders = {}

LEMMA GentleStep ==
    ASSUME Inv, WakeInv, NEW p \in Procs, NEW l, NEW m, Goes(p, l, m),
           Gently(p), permit' => Waiters' = {},
           p \in Tasks /\ l \in Unregistered => wait'[p] = "none",
           reserved' >= reserved, reserved' \in Nat,
           p \in Tasks /\ wait'[p] = "waiting" /\ l \in {"prune", "cas"} => m.seen <= reserved',
           Builders' = {} /\ Waiters' # {} =>
                \A c \in Conns \cup {0} : Chance(c)' => Minded(p, c)
    PROVE  WakeInv'
<1>1. Tasks \subseteq Procs
  BY DEF Procs
<1>2. WaitInv'
  BY <1>1 DEF WakeInv, WaitInv, Gently, Unregistered, Goes
<1>3. SeenInv'
  <2>1. ASSUME NEW t \in Tasks, wait'[t] = "waiting", pc'[t] \in {"prune", "cas"}
        PROVE  loc'[t].seen <= reserved'
    <3>1. CASE t = p
      BY <1>1, <2>1, <3>1 DEF Goes
    <3>2. CASE t # p
      <4>1. wait[t] = "waiting" /\ pc[t] \in {"prune", "cas"} /\ loc'[t] = loc[t]
        BY <1>1, <2>1, <3>2 DEF Goes, Gently
      <4>2. loc[t].seen <= reserved /\ loc[t].seen \in Nat /\ reserved \in Nat
        BY <1>1, <4>1 DEF WakeInv, SeenInv, Inv, TypeOK, Locals
      <4> QED
        BY <4>1, <4>2
    <3> QED
      BY <3>1, <3>2
  <2> QED
    BY <2>1 DEF SeenInv
<1>4. ChanceInv'
  <2>1. ASSUME NEW q, NEW c, Minding(q, c), q # p PROVE Minding(q, c)'
    BY <1>1, <2>1 DEF Minding, Awake, Looking, Gently, Goes
  <2>2. \A u \in Tasks : wait'[u] = "one" => \A c : Minding(u, c)'
    BY DEF Minding, Awake
  <2>3. ASSUME NEW c \in Conns \cup {0}, Builders' = {}, Waiters' # {}, Chance(c)'
        PROVE  \E t \in Tasks : Minding(t, c)'
    <3>1. Minded(p, c)
      BY <2>3
    <3>2. CASE Minding(p, c)'
      BY <3>2 DEF Minding
    <3>3. CASE \E u \in Tasks : wait'[u] = "one"
      BY <2>2, <3>3
    <3>4. CASE Chance(c) /\ ~Minding(p, c) /\ Waiters # {} /\ Builders = {}
      BY <2>1, <3>4 DEF WakeInv, ChanceInv
    <3> QED
      BY <3>1, <3>2, <3>3, <3>4 DEF Minded
  <2> QED
    BY <2>3 DEF ChanceInv
<1> QED
  BY <1>2, <1>3, <1>4 DEF WakeInv, PermitInv

\* A step of p that leaves nobody waiting un-notified.
LEMMA WakingStep ==
    ASSUME Inv, WakeInv, NEW p \in Procs, NEW l, pc' = [pc EXCEPT ![p] = l],
           NotifyWaiters,
           p \in Tasks /\ l \in Unregistered => wait[p] = "none"
    PROVE  WakeInv'
<1>1. Waiters' = {} /\ \A u \in Tasks : wait[u] = "none" => wait'[u] = "none"
  BY BroadcastEffect DEF Inv, TypeOK
<1>2. WaitInv'
  BY <1>1 DEF Inv, TypeOK, Procs, WakeInv, WaitInv
<1>3. SeenInv'
  BY <1>1 DEF SeenInv, Waiters, Waiting
<1> QED
  BY <1>1, <1>2, <1>3 DEF WakeInv, PermitInv, ChanceInv

LEMMA WakeFacts ==
    ASSUME Inv, WakeInv
    PROVE  /\ NotifyTypeOK /\ PermitInv /\ WaitInv /\ SeenInv /\ (permit => Waiting(wait) = {})
           /\ \A t \in Tasks : /\ t \in Procs /\ t # Maintainer
                               /\ wait[t] \in {"none", "waiting", "one", "woken"}
           /\ \A p \in Procs \ Tasks : p = Maintainer
           /\ Maintainer \in Procs /\ Maintainer \notin Tasks
           /\ reserved \in Nat /\ reserved >= reserved /\ 0 \notin Conns
           /\ UNCHANGED notify => /\ permit' => Waiters' = {}
                                  /\ Waiters' = Waiters /\ wait' = wait
                                  /\ \A p : Gently(p)
BY PlaceFacts
DEF WakeInv, PermitInv, Waiters, Waiting, Gently, notify, NotifyTypeOK, Procs, Conns

LEMMA GoesFacts ==
    ASSUME Inv, NEW p \in Procs, NEW l, pc' = [pc EXCEPT ![p] = l]
    PROVE  /\ loc' = loc => Goes(p, l, loc[p])
           /\ \A m : loc' = [loc EXCEPT ![p] = m] => Goes(p, l, m)
           /\ Builders' = {} => l \notin Building /\ (pc[p] \notin Building => Builders = {})
BY DEF Inv, TypeOK, Goes, Builders

\* Chances only come by a release, or with the vector.
LEMMA ChanceFalls ==
    ASSUME Inv, slots' = slots, inflight' \in [Conns -> Int],
           \A c \in slots : Usable(c)' => Usable(c) /\ inflight[c] <= inflight'[c]
    PROVE  \A c \in Conns \cup {0} : Chance(c)' => Chance(c)
<1>1. \A c \in slots : c \in Conns /\ inflight[c] \in Int /\ inflight'[c] \in Int
  BY DEF Inv, TypeOK
<1>2. MaxLoad \in Int
  BY PoolAssumption
<1> QED
  BY <1>1, <1>2 DEF Chance

\* PipelineSlot::retire.
Retires(d) ==
    /\ state' = [state EXCEPT ![d] = IF @ = "ACTIVE" THEN "RETIRING" ELSE @]
    /\ alive' = alive

\* A slot's state and its connection, where they change at all, fall.
LEMMA UsableFalls ==
    ASSUME Inv
    PROVE  /\ state' = state /\ alive' = alive => \A c : Usable(c)' => Usable(c)
           /\ \A d : Close(d) => \A c \in Conns : Usable(c)' => Usable(c)
           /\ \A d : alive' = [alive EXCEPT ![d] = FALSE] /\ state' = state =>
                         \A c \in Conns : Usable(c)' => Usable(c)
           /\ \A d : Retires(d) => \A c \in Conns : Usable(c)' => Usable(c)
           /\ inflight \in [Conns -> Int] /\ \A c \in Conns : inflight[c] <= inflight[c]
           /\ slots \subseteq Conns
<1>1. /\ state' = state /\ alive' = alive => \A c : Usable(c)' => Usable(c)
      /\ inflight \in [Conns -> Int] /\ \A c \in Conns : inflight[c] <= inflight[c]
      /\ slots \subseteq Conns
  BY DEF Usable, Inv, TypeOK
<1>2. \A d : Close(d) => \A c \in Conns : Usable(c)' => Usable(c)
  BY DEF Close, Usable, Inv, TypeOK
<1>3. \A d : alive' = [alive EXCEPT ![d] = FALSE] /\ state' = state =>
                         \A c \in Conns : Usable(c)' => Usable(c)
  BY DEF Usable, Inv, TypeOK
<1>4. \A d : Retires(d) => \A c \in Conns : Usable(c)' => Usable(c)
  BY DEF Retires, Usable, Inv, TypeOK
<1> QED
  BY <1>1, <1>2, <1>3, <1>4

LEMMA ChanceStays ==
    ASSUME Inv, UNCHANGED <<slots, conns>>
    PROVE  \A c \in Conns \cup {0} : Chance(c)' => Chance(c)
BY DEF Chance, Usable, conns

\* A step that notifies nobody.
LEMMA SilentStep ==
    ASSUME Inv, WakeInv, NEW p \in Procs, NEW l, NEW m,
           pc' = [pc EXCEPT ![p] = l], Goes(p, l, m), UNCHANGED notify,
           pc[p] \in Building => l \in Building,
           reserved' >= reserved, reserved' \in Nat,
           p \in Tasks /\ l \in Unregistered => wait[p] = "none",
           p \in Tasks /\ wait[p] = "waiting" /\ l \in {"prune", "cas"} => m.seen <= reserved',
           Builders' = {} =>
               \A c \in Conns \cup {0} : Chance(c)' =>
                   \/ Minding(p, c)'
                   \/ Chance(c) /\ ~Minding(p, c)
    PROVE  WakeInv'
<1>1. Builders' = {} => Builders = {}
  BY GoesFacts
<1>2. Builders' = {} /\ Waiters' # {} =>
          \A c \in Conns \cup {0} : Chance(c)' => Minded(p, c)
  BY <1>1, WakeFacts DEF Minded
<1> QED
  BY <1>2, WakeFacts, GentleStep

LEMMA LoadSlotsWakes == ASSUME Inv, WakeInv, NEW t \in Tasks, LoadSlots(t) PROVE WakeInv'
<1> DEFINE m == [Blank EXCEPT !.todo = slots]
<1>1. /\ pc' = [pc EXCEPT ![t] = "scan"] /\ loc' = [loc EXCEPT ![t] = m]
      /\ UNCHANGED <<slots, reserved, conns, notify>> /\ pc[t] \in {"idle", "load"}
  BY DEF LoadSlots, Goto
<1>2. Goes(t, "scan", m) /\ m.todo = slots
  BY <1>1, GoesFacts, WakeFacts DEF Blank
<1> HIDE DEF m
<1>3. pc[t] = "idle" => wait[t] = "none"
  BY WakeFacts DEF WaitInv, Unregistered
<1>4. \A c \in Conns \cup {0} : Chance(c)' => Chance(c)
  BY <1>1, ChanceStays
<1>5. ASSUME NEW c \in Conns \cup {0}, Chance(c), Minding(t, c) PROVE Minding(t, c)'
  <2>1. c \in slots \cup {0}
    BY <1>5 DEF Chance
  <2>2. pc'[t] = "scan" /\ loc'[t].todo = slots /\ wait'[t] = wait[t]
    BY <1>1, <1>2, WakeFacts DEF Goes
  <2> QED
    BY <1>1, <1>3, <1>5, <2>1, <2>2 DEF Minding, Awake, Looking
<1> QED
  BY <1>1, <1>2, <1>4, <1>5, WakeFacts, SilentStep DEF Unregistered, Building

LEMMA TryNextWakes ==
    ASSUME Inv, WakeInv, NEW t \in Tasks, NEW c \in Conns, TryNext(t, c),
           pc[t] \in {"scan", "count", "recheck"}, reserved' = reserved,
           \A d \in Conns \cup {0} : Chance(d)' => Chance(d) /\ d # c
    PROVE  WakeInv'
<1>1. CASE loc[t].fresh
  <2>1. PICK l \in {"load", "park"} : pc' = [pc EXCEPT ![t] = l]
    BY <1>1 DEF TryNext, Goto
  <2> QED
    BY <1>1, <2>1, WakeFacts, WakingStep DEF TryNext, Unregistered
<1>2. CASE ~loc[t].fresh
  <2> DEFINE m == Scanned(loc[t], loc[t].todo \ {c})
  <2>1. pc' = [pc EXCEPT ![t] = "scan"] /\ UNCHANGED notify
    BY <1>2 DEF TryNext, Goto
  <2>2. loc' = [loc EXCEPT ![t] = m]
    BY <1>2, WakeFacts DEF TryNext, Scanned, Inv, TypeOK
  <2>3. m.todo = loc[t].todo \ {c}
    BY WakeFacts DEF Scanned, Inv, TypeOK, Locals
  <2>4. Goes(t, "scan", m)
    BY <2>1, <2>2, GoesFacts, WakeFacts
  <2> HIDE DEF m
  <2>5. ASSUME NEW d \in Conns \cup {0}, d # c, Minding(t, d) PROVE Minding(t, d)'
    <3>1. pc'[t] = "scan" /\ loc'[t].todo = loc[t].todo \ {c} /\ wait'[t] = wait[t]
      BY <2>1, <2>3, <2>4, WakeFacts DEF Goes
    <3> QED
      BY <2>5, <3>1 DEF Minding, Awake, Looking
  <2> QED
    BY <2>1, <2>4, <2>5, WakeFacts, SilentStep DEF Unregistered, Building
<1> QED
  BY <1>1, <1>2

LEMMA TryWakes == ASSUME Inv, WakeInv, NEW t \in Tasks, NEW c \in Conns, Try(t, c) PROVE WakeInv'
<1>1. pc[t] = "scan" /\ UNCHANGED <<slots, reserved, conns>>
  BY DEF Try
<1>2. \A d \in Conns \cup {0} : Chance(d)' => Chance(d)
  BY <1>1, ChanceStays
<1>3. CASE Usable(c)
  <2> DEFINE m == [loc[t] EXCEPT !.at = c]
  <2>1. /\ pc' = [pc EXCEPT ![t] = "count"] /\ UNCHANGED notify
        /\ loc' = [loc EXCEPT ![t] = m]
    BY <1>3 DEF Try, Goto
  <2>2. m.todo = loc[t].todo
    BY WakeFacts DEF Inv, TypeOK, Locals
  <2> HIDE DEF m
  <2>4. Goes(t, "count", m)
    BY <2>1, GoesFacts, WakeFacts
  <2>3. ASSUME NEW d, Minding(t, d) PROVE Minding(t, d)'
    <3>1. pc'[t] = "count" /\ loc'[t].todo = loc[t].todo /\ wait'[t] = wait[t]
      BY <2>1, <2>2, <2>4, WakeFacts DEF Goes
    <3> QED
      BY <1>1, <2>3, <3>1 DEF Minding, Awake, Looking
  <2> QED
    BY <1>1, <1>2, <2>1, <2>3, <2>4, WakeFacts, SilentStep DEF Unregistered, Building
<1>4. CASE ~Usable(c)
  <2>1. ~Chance(c)
    BY <1>4, WakeFacts DEF Chance
  <2> QED
    BY <1>1, <1>2, <1>4, <2>1, TryNextWakes DEF Try
<1> QED
  BY <1>3, <1>4

LEMMA CountInWakes == ASSUME Inv, WakeInv, NEW t \in Tasks, CountIn(t) PROVE WakeInv'
<1>1. pc[t] = "count" /\ UNCHANGED <<slots, reserved, created, state, alive>>
  BY DEF CountIn
<1>2. loc[t].at \in Conns
  BY <1>1, PlaceFacts, WakeFacts DEF Placed, AtWork, Inv, TypeOK
<1>3. CASE inflight[loc[t].at] < MaxLoad
  <2>1. /\ pc' = [pc EXCEPT ![t] = "recheck"] /\ UNCHANGED notify /\ loc' = loc
        /\ inflight' = [inflight EXCEPT ![loc[t].at] = @ + 1]
    BY <1>3 DEF CountIn, Goto
  <2>2. Goes(t, "recheck", loc[t])
    BY <2>1, GoesFacts, WakeFacts
  <2>3. inflight' \in [Conns -> Int] /\ \A d \in Conns : inflight[d] <= inflight'[d]
    BY <1>2, <2>1 DEF Inv, TypeOK
  <2>4. \A d \in Conns \cup {0} : Chance(d)' => Chance(d)
    BY <1>1, <2>3, UsableFalls, ChanceFalls
  <2>5. ASSUME NEW d, Minding(t, d) PROVE Minding(t, d)'
    <3>1. pc'[t] = "recheck" /\ loc'[t] = loc[t] /\ wait'[t] = wait[t]
      BY <2>1, <2>2, WakeFacts DEF Goes
    <3> QED
      BY <1>1, <2>5, <3>1 DEF Minding, Awake, Looking
  <2> QED
    BY <1>1, <2>1, <2>2, <2>4, <2>5, WakeFacts, SilentStep DEF Unregistered, Building
<1>4. CASE ~(inflight[loc[t].at] < MaxLoad)
  <2>1. TryNext(t, loc[t].at) /\ inflight' = inflight
    BY <1>4 DEF CountIn
  <2>2. \A d \in Conns \cup {0} : Chance(d)' => Chance(d)
    BY <1>1, <2>1, ChanceStays DEF conns
  <2>3. ~Chance(loc[t].at)
    BY <1>2, <1>4, WakeFacts DEF Chance
  <2> QED
    BY <1>1, <1>2, <2>1, <2>2, <2>3, TryNextWakes
<1> QED
  BY <1>3, <1>4

LEMMA UndoWakes == ASSUME Inv, WakeInv, NEW t \in Tasks, Undo(t) PROVE WakeInv'
<1> DEFINE c == loc[t].at
<1>1. pc[t] = "recheck" /\ UNCHANGED <<slots, reserved>> /\ ~Usable(c) /\ TryNext(t, c)
      /\ inflight' = [inflight EXCEPT ![c] = @ - 1]
      /\ (Close(c) \/ UNCHANGED <<state, alive>>)
  BY DEF Undo
<1>2. c \in Conns
  BY <1>1, PlaceFacts, WakeFacts DEF Placed, AtWork, Inv, TypeOK
<1> HIDE DEF c
<1>3. \A d \in Conns : Usable(d)' => Usable(d)
  BY <1>1, UsableFalls
<1>4. inflight' \in [Conns -> Int] /\ \A d \in Conns \ {c} : inflight[d] <= inflight'[d]
  BY <1>1, <1>2 DEF Inv, TypeOK
<1>5. \A d \in slots : Usable(d)' => Usable(d) /\ inflight[d] <= inflight'[d]
  BY <1>1, <1>3, <1>4, UsableFalls
<1>6. \A d \in Conns \cup {0} : Chance(d)' => Chance(d)
  BY <1>1, <1>4, <1>5, ChanceFalls
<1>7. ~Chance(c)
  BY <1>1, <1>2, WakeFacts DEF Chance
<1> QED
  BY <1>1, <1>2, <1>6, <1>7, TryNextWakes

\* A step after which t itself will notify or look again, and that notifies
\* nobody or one.
LEMMA AwakeStep ==
    ASSUME Inv, WakeInv, NEW t \in Tasks, NEW l, NEW m, pc' = [pc EXCEPT ![t] = l],
           Goes(t, l, m), l \notin {"prune", "cas"}, reserved' = reserved,
           Gently(t), permit' => Waiters' = {},
           l \in Unregistered => wait'[t] = "none",
           Waiters' # {} => Awake(t)' \/ \A c : Looking(t, c)'
    PROVE  WakeInv'
<1>1. Waiters' # {} => \A c : Minding(t, c)'
  BY DEF Minding
<1> QED
  BY <1>1, WakeFacts, GentleStep DEF Minded

LEMMA LeaseWakes == ASSUME Inv, WakeInv, NEW t \in Tasks, Lease(t) PROVE WakeInv'
<1> DEFINE m == [Blank EXCEPT !.at = loc[t].at]
<1>1. /\ pc' = [pc EXCEPT ![t] = "leased"] /\ loc' = [loc EXCEPT ![t] = m]
      /\ DropWaiter(t) /\ reserved' = reserved
  BY DEF Lease, Goto
<1>2. Gently(t) /\ wait'[t] = "none" /\ (permit' => Waiters' = {})
  BY <1>1, WakeFacts, DropEffect
<1> HIDE DEF m
<1>3. Goes(t, "leased", m)
  BY <1>1, GoesFacts, WakeFacts
<1>4. Awake(t)'
  BY <1>3, WakeFacts DEF Awake, Goes
<1> QED
  BY <1>1, <1>2, <1>3, <1>4, AwakeStep

LEMMA RegisterWakes ==
    ASSUME Inv, WakeInv, NEW t \in Tasks, Register(t) \/ Wake(t)
    PROVE  WakeInv'
<1>1. /\ pc' = [pc EXCEPT ![t] = "load"] /\ loc' = loc /\ reserved' = reserved
      /\ Enable(t) \/ Notified(t)
  BY DEF Register, Wake, Goto
<1>2. Gently(t) /\ (permit' => Waiters' = {})
      /\ (Waiters' # {} => wait'[t] \in {"none", "waiting"})
  BY <1>1, WakeFacts, EnableEffect
<1>3. Goes(t, "load", loc[t])
  BY <1>1, GoesFacts, WakeFacts
<1>4. Waiters' # {} => Awake(t)' \/ \A c : Looking(t, c)'
  BY <1>2, <1>3, WakeFacts DEF Awake, Looking, Goes
<1>5. "load" \notin Unregistered /\ "load" \notin {"prune", "cas"}
  BY DEF Unregistered
<1> QED
  BY <1>1, <1>2, <1>3, <1>4, <1>5, AwakeStep

LEMMA GiveUpWakes ==
    ASSUME Inv, WakeInv, NEW t \in Tasks, GiveUp(t) \/ Retry(t)
    PROVE  WakeInv'
<1>1. /\ pc[t] \in {"park", "backoff"} /\ DropWaiter(t)
      /\ UNCHANGED <<slots, reserved, conns>>
  BY DEF GiveUp, Retry
<1>2. PICK l, m : /\ l \in {"load", "idle"}
                   /\ pc' = [pc EXCEPT ![t] = l] /\ Goes(t, l, m)
  <2>1. CASE GiveUp(t)
    BY <2>1, GoesFacts, WakeFacts DEF GiveUp, Goto
  <2>2. CASE Retry(t)
    BY <2>2, GoesFacts, WakeFacts DEF Retry, Goto
  <2> QED
    BY <2>1, <2>2
<1>3. /\ Gently(t) /\ wait'[t] = "none" /\ (permit' => Waiters' = {})
      /\ wait[t] = "one" /\ Waiters' # {} => \E u \in Tasks : wait'[u] = "one"
  BY <1>1, WakeFacts, DropEffect
<1>4. Waiters' \subseteq Waiters
  BY <1>3 DEF Waiters, Waiting, Gently
<1>5. wait[t] # "one" => \A c : ~Minding(t, c)
  BY <1>1 DEF Minding, Awake, Looking
<1>6. Builders' = {} => Builders = {}
  BY <1>1, <1>2, GoesFacts, WakeFacts DEF Building
<1>7. \A c \in Conns \cup {0} : Chance(c)' => Chance(c)
  BY <1>1, ChanceStays
<1>8. Builders' = {} /\ Waiters' # {} =>
          \A c \in Conns \cup {0} : Chance(c)' => Minded(t, c)
  BY <1>3, <1>4, <1>5, <1>6, <1>7 DEF Minded
<1>9. t \in Procs /\ l \notin {"prune", "cas"} /\ reserved' >= reserved /\ reserved' \in Nat
  BY <1>1, <1>2, WakeFacts
<1> QED
  BY <1>2, <1>3, <1>8, <1>9, GentleStep

LEMMA ReadReservedWakes ==
    ASSUME Inv, WakeInv, NEW p \in Procs, ReadReserved(p)
    PROVE  WakeInv'
<1> DEFINE m == [loc[p] EXCEPT !.seen = reserved]
<1>1. /\ pc[p] = "reserve" \/ (pc[p] = "scan" /\ loc[p].todo = {})
      /\ pc' = [pc EXCEPT ![p] = "prune"] /\ loc' = [loc EXCEPT ![p] = m]
      /\ UNCHANGED <<slots, reserved, conns, notify>>
  BY DEF ReadReserved, Goto
<1>2. m.seen = reserved
  BY DEF Inv, TypeOK, Locals
<1> HIDE DEF m
<1>3. Goes(p, "prune", m)
  BY <1>1, GoesFacts
<1>4. \A c \in Conns \cup {0} : Chance(c)' => Chance(c)
  BY <1>1, ChanceStays
<1>5. ASSUME NEW c \in Conns \cup {0}, Minding(p, c) PROVE Minding(p, c)'
  <2>1. pc'[p] = "prune" /\ wait' = wait
    BY <1>1, <1>3, WakeFacts DEF Goes
  <2> QED
    BY <1>1, <1>5, <2>1 DEF Minding, Awake, Looking
<1>6. reserved' >= reserved /\ reserved' \in Nat /\ m.seen <= reserved'
  BY <1>1, <1>2, WakeFacts
<1>7. pc[p] \notin Building /\ "prune" \notin Unregistered
  BY <1>1 DEF Building, Unregistered
<1> QED
  BY <1>1, <1>3, <1>4, <1>5, <1>6, <1>7, SilentStep

LEMMA PruneWakes == ASSUME Inv, WakeInv, NEW p \in Procs, Prune(p) PROVE WakeInv'
<1> DEFINE room == Cardinality(Kept(slots)) + loc[p].seen < MaxSize
           l == IF room THEN "cas" ELSE IF p = Maintainer THEN "idle"
                ELSE IF wait[p] = "none" THEN "enable" ELSE "park"
<1>1. pc[p] = "prune" /\ pc' = [pc EXCEPT ![p] = l] /\ UNCHANGED <<reserved, conns, loc>>
  BY DEF Prune, Goto
<1>2. p \in Tasks /\ l \in Unregistered => wait[p] = "none"
  BY WakeFacts DEF Unregistered
<1>3. CASE NotifyWaiters
  <2> HIDE DEF l
  <2> QED
    BY <1>1, <1>2, <1>3, WakingStep
<1>4. CASE ~NotifyWaiters
  <2>1. slots' = slots /\ UNCHANGED notify
    BY <1>4 DEF Prune, Install
  <2>2. \A c \in Conns \cup {0} : Chance(c)' => Chance(c)
    BY <1>1, <2>1, ChanceStays
  <2>3. ASSUME NEW c \in Conns \cup {0}, Builders = {}, Chance(c), Looking(p, c), p \in Tasks
        PROVE  room
    <3>1. c = 0 /\ slots = {} /\ wait[p] = "waiting"
      BY <1>1, <2>3 DEF Looking, Chance
    <3>2. reserved = 0
      BY <2>3, FS_EmptySet DEF Inv, CountInv
    <3>3. loc[p].seen <= reserved /\ loc[p].seen \in Nat
      BY <1>1, <2>3, <3>1, WakeFacts DEF SeenInv, Inv, TypeOK, Locals
    <3>4. Kept(slots) = {} /\ Cardinality(Kept(slots)) = 0
      BY <3>1, FS_EmptySet DEF Kept
    <3> QED
      BY <3>2, <3>3, <3>4, PoolAssumption
  <2>4. wait' = wait /\ pc'[p] = l
    BY <1>1, <2>1, WakeFacts DEF Inv, TypeOK
  <2>5. Awake(p) /\ p \in Tasks => Awake(p)'
    BY <1>1, <2>4, WakeFacts DEF Awake
  <2>6. ASSUME NEW c \in Conns \cup {0}, Builders = {}, Chance(c), Minding(p, c)
        PROVE  Minding(p, c)'
    <3>1. CASE Awake(p)
      BY <2>5, <2>6, <3>1 DEF Minding
    <3>2. CASE Looking(p, c)
      <4>1. room /\ c = 0 /\ wait'[p] = "waiting"
        BY <1>1, <2>3, <2>4, <2>6, <3>2 DEF Minding, Looking
      <4>2. pc'[p] = "cas"
        BY <2>4, <4>1
      <4> QED
        BY <2>6, <4>1, <4>2 DEF Minding, Looking
    <3> QED
      BY <2>6, <3>1, <3>2 DEF Minding
  <2>7. p \in Tasks /\ wait[p] = "waiting" => loc[p].seen <= reserved'
    BY <1>1, WakeFacts DEF SeenInv
  <2> HIDE DEF l
  <2>8. Goes(p, l, loc[p]) /\ (Builders' = {} => Builders = {})
    BY <1>1, GoesFacts DEF Building
  <2>9. reserved' >= reserved /\ reserved' \in Nat /\ pc[p] \notin Building
    BY <1>1, WakeFacts DEF Building
  <2> QED
    BY <1>1, <1>2, <2>1, <2>2, <2>6, <2>7, <2>8, <2>9, SilentStep
<1> QED
  BY <1>3, <1>4

LEMMA ReserveWakes == ASSUME Inv, WakeInv, NEW p \in Procs, Reserve(p) PROVE WakeInv'
<1> DEFINE l == IF reserved = loc[p].seen THEN "connect" ELSE "reserve"
<1>1. /\ pc[p] = "cas" /\ pc' = [pc EXCEPT ![p] = l] /\ UNCHANGED notify
      /\ UNCHANGED <<slots, conns, loc>>
      /\ reserved' \in {reserved, reserved + 1}
  BY DEF Reserve, Goto
<1>2. Goes(p, l, loc[p]) /\ pc'[p] = l /\ (Builders' = {} => l = "reserve")
  <2>1. pc'[p] = l
    BY <1>1 DEF Inv, TypeOK
  <2> QED
    BY <1>1, <2>1, GoesFacts DEF Building
<1>3. \A c \in Conns \cup {0} : Chance(c)' => Chance(c)
  BY <1>1, ChanceStays
<1>4. ASSUME NEW c, l = "reserve", Minding(p, c) PROVE Minding(p, c)'
  BY <1>1, <1>2, <1>4, WakeFacts DEF Minding, Awake, Looking
<1>5. reserved' >= reserved /\ reserved' \in Nat
  BY <1>1, WakeFacts
<1>6. l \notin Unregistered /\ l \notin {"prune", "cas"} /\ pc[p] \notin Building
  BY <1>1 DEF Unregistered, Building
<1> HIDE DEF l
<1> QED
  BY <1>1, <1>2, <1>3, <1>4, <1>5, <1>6, SilentStep

\* A thread with a connection in the making will wake all.
LEMMA BuildingWakes ==
    ASSUME Inv, WakeInv, NEW p \in Procs, Connected(p) \/ Insert(p)
    PROVE  WakeInv'
<1>1. PICK l \in {"insert", "commit"} : pc' = [pc EXCEPT ![p] = l]
  BY DEF Connected, Insert, Goto
<1>2. UNCHANGED notify /\ reserved' = reserved /\ \E m : Goes(p, l, m)
  <2>1. CASE Connected(p)
    BY <1>1, <2>1, GoesFacts DEF Connected
  <2>2. CASE Insert(p)
    BY <1>1, <2>2, GoesFacts DEF Insert
  <2> QED
    BY <2>1, <2>2
<1>3. l \in Building /\ l \notin Unregistered /\ l \notin {"prune", "cas"} /\ Builders' # {}
  BY <1>1, GoesFacts DEF Building, Unregistered
<1>4. reserved' >= reserved /\ reserved' \in Nat
  BY <1>2, WakeFacts
<1>5. PICK m : Goes(p, l, m)
  BY <1>2
<1> QED
  BY <1>1, <1>2, <1>3, <1>4, <1>5, SilentStep

LEMMA BuiltWakes ==
    ASSUME Inv, WakeInv, NEW p \in Procs, ConnectFailed(p) \/ InsertRefused(p) \/ Commit(p)
    PROVE  WakeInv'
<1>1. PICK l : /\ pc' = [pc EXCEPT ![p] = l]
               /\ p # Maintainer => l \in {"backoff", "scan"}
  BY DEF ConnectFailed, InsertRefused, Commit, AfterExpansion, BackOff, Goto
<1>2. NotifyWaiters
  BY DEF ConnectFailed, InsertRefused, Commit
<1>3. p \in Tasks => l \notin Unregistered
  BY <1>1, WakeFacts DEF Unregistered
<1> QED
  BY <1>1, <1>2, <1>3, WakingStep

LEMMA UseWakes ==
    ASSUME Inv, WakeInv, NEW t \in Tasks,
           Completed(t) \/ Expired(t) \/ Cancelled(t) \/ Release(t) \/ CloseDrained(t)
    PROVE  WakeInv'
<1>1. PICK l \in {"release", "drain", "notify"} : pc' = [pc EXCEPT ![t] = l]
  BY DEF Completed, Expired, Cancelled, Release, CloseDrained, Goto
<1>2. pc[t] \in {"leased", "release", "drain"} /\ loc' = loc /\ reserved' = reserved
      /\ (UNCHANGED notify \/ NotifyWaiters)
  BY DEF Completed, Expired, Cancelled, Release, CloseDrained
<1>3. wait[t] = "none"
  BY <1>2, WakeFacts DEF WaitInv, Unregistered
<1>4. CASE NotifyWaiters
  BY <1>1, <1>3, <1>4, WakeFacts, WakingStep
<1>5. CASE UNCHANGED notify
  <2>1. Goes(t, l, loc[t])
    BY <1>1, <1>2, GoesFacts, WakeFacts
  <2>2. Awake(t)' /\ wait'[t] = "none"
    BY <1>1, <1>3, <1>5, <2>1, WakeFacts DEF Awake, Goes
  <2>3. Gently(t) /\ (permit' => Waiters' = {})
    BY <1>5, WakeFacts
  <2> QED
    BY <1>1, <1>2, <2>1, <2>2, <2>3, AwakeStep
<1> QED
  BY <1>2, <1>4, <1>5

LEMMA NotifyReleasedWakes ==
    ASSUME Inv, WakeInv, NEW t \in Tasks, NotifyReleased(t)
    PROVE  WakeInv'
<1>1. /\ pc[t] = "notify" /\ pc' = [pc EXCEPT ![t] = "idle"] /\ NotifyOne(wait)
      /\ loc' = [loc EXCEPT ![t] = Blank] /\ reserved' = reserved
  BY DEF NotifyReleased, Goto
<1>2. wait[t] = "none"
  BY <1>1, WakeFacts DEF WaitInv, Unregistered
<1>3. /\ \A u \in Tasks : wait'[u] = wait[u] \/ (wait[u] = "waiting" /\ wait'[u] = "one")
      /\ permit' => Waiters' = {}
      /\ Waiters' # {} => \E u \in Tasks : wait'[u] = "one"
  BY <1>1, WakeFacts, NotifyOneEffect DEF NotifyTypeOK
<1>4. Gently(t) /\ wait'[t] = "none"
  BY <1>2, <1>3 DEF Gently
<1>5. Goes(t, "idle", Blank)
  BY <1>1, GoesFacts, WakeFacts
<1>6. t \in Procs /\ reserved' >= reserved /\ reserved' \in Nat
  BY <1>1, WakeFacts
<1>7. Waiters' # {} => \A c : Minded(t, c)
  BY <1>3 DEF Minded
<1> QED
  BY <1>3, <1>4, <1>5, <1>6, <1>7, GentleStep

LEMMA DieWakes == ASSUME Inv, WakeInv, NEW c \in Conns, Die(c) PROVE WakeInv'
<1>1. UNCHANGED <<slots, reserved, inflight, wait, permit, pc, loc, state>>
      /\ alive' = [alive EXCEPT ![c] = FALSE]
  BY DEF Die, notify
<1>2. \A d \in Conns \cup {0} : Chance(d)' => Chance(d)
  BY <1>1, UsableFalls, ChanceFalls
<1>3. Waiters' = Waiters /\ Builders' = Builders
      /\ \A p, d : Minding(p, d) => Minding(p, d)'
  BY <1>1 DEF Waiters, Builders, Minding, Awake, Looking
<1> QED
  BY <1>1, <1>2, <1>3 DEF WakeInv, PermitInv, WaitInv, SeenInv, ChanceInv

\* A step of the maintenance task that leaves the queries and their chances alone.
LEMMA AsideStep ==
    ASSUME Inv, WakeInv, UNCHANGED notify, reserved' = reserved,
           \A t \in Tasks : pc'[t] = pc[t] /\ loc'[t] = loc[t],
           pc[Maintainer] \notin Building,
           \A c \in Conns \cup {0} : Chance(c)' => Chance(c)
    PROVE  WakeInv'
<1>1. wait' = wait /\ Waiters' = Waiters /\ permit' = permit
  BY WakeFacts DEF notify
<1>2. Builders' = {} => Builders = {}
  BY WakeFacts DEF Builders
<1>3. \A t \in Tasks, c \in Conns \cup {0} : Minding(t, c) => Minding(t, c)'
  BY <1>1 DEF Minding, Awake, Looking
<1> QED
  BY <1>1, <1>2, <1>3 DEF WakeInv, PermitInv, WaitInv, SeenInv, ChanceInv

LEMMA SweepWakes ==
    ASSUME Inv, WakeInv,
           \/ MaintainEmpty \/ Expand \/ MaintainStart \/ ReadInflight \/ Classify
           \/ TopUp \/ IdleClose \/ \E c \in Conns : Inspect(c) \/ IdleCheck(c)
    PROVE  WakeInv'
<1>1. UNCHANGED notify /\ UNCHANGED <<slots, reserved, inflight>>
  BY DEF MaintainEmpty, Expand, MaintainStart, ReadInflight, Classify, TopUp, IdleClose,
         Inspect, IdleCheck, conns
<1>2. pc[Maintainer] \notin Building
  BY DEF MaintainEmpty, Expand, MaintainStart, ReadInflight, Classify, TopUp, IdleClose,
         Inspect, IdleCheck, Building
<1>3. /\ pc' = pc \/ \E l : pc' = [pc EXCEPT ![Maintainer] = l]
      /\ loc' = loc \/ \E m : loc' = [loc EXCEPT ![Maintainer] = m]
  <2>1. CASE MaintainEmpty \/ Expand \/ MaintainStart
    BY <2>1 DEF MaintainEmpty, Expand, MaintainStart, Goto
  <2>2. CASE ReadInflight \/ Classify \/ TopUp \/ IdleClose
    BY <2>2 DEF ReadInflight, Classify, TopUp, IdleClose, Goto
  <2>3. CASE \E c \in Conns : Inspect(c) \/ IdleCheck(c)
    BY <2>3 DEF Inspect, IdleCheck, Goto
  <2> QED
    BY <2>1, <2>2, <2>3
<1>4. \A t \in Tasks : pc'[t] = pc[t] /\ loc'[t] = loc[t]
  BY <1>3, WakeFacts DEF Inv, TypeOK
<1>5. \A c \in Conns : Usable(c)' => Usable(c)
  <2>1. UNCHANGED <<state, alive>> \/ \E d : Close(d)
    BY DEF MaintainEmpty, Expand, MaintainStart, ReadInflight, Classify, TopUp,
           IdleClose, Inspect, IdleCheck, conns
  <2> QED
    BY <2>1, UsableFalls
<1>6. \A c \in Conns \cup {0} : Chance(c)' => Chance(c)
  BY <1>1, <1>5, UsableFalls, ChanceFalls
<1> QED
  BY <1>1, <1>2, <1>4, <1>6, AsideStep

LEMMA SwapWakes == ASSUME Inv, WakeInv, Swap PROVE WakeInv'
<1>1. /\ pc[Maintainer] = "evict" /\ UNCHANGED <<reserved, conns>>
      /\ loc' = [loc EXCEPT ![Maintainer] = Blank]
  BY DEF Swap
<1>2. PICK l : pc' = [pc EXCEPT ![Maintainer] = l]
  BY DEF Swap, Goto
<1>3. CASE NotifyWaiters
  BY <1>2, <1>3, WakeFacts, WakingStep
<1>4. CASE ~NotifyWaiters
  <2>1. UNCHANGED notify /\ sweep.current /\ sweep.drop = {} /\ sweep.idle = {}
        /\ slots' = sweep.keep
    BY <1>4 DEF Swap
  <2>2. slots = sweep.keep
    <3>1. slots = Seen
      BY <1>1, <2>1 DEF Inv, SweepInv, Sweeping
    <3>2. loc[Maintainer].todo = {} /\ loc[Maintainer].at = 0
      BY <1>1, PlaceFacts DEF Placed
    <3> QED
      BY <2>1, <3>1, <3>2 DEF Seen
  <2>3. \A c \in Conns \cup {0} : Chance(c)' => Chance(c)
    BY <1>1, <2>1, <2>2, ChanceStays
  <2>4. \A t \in Tasks : pc'[t] = pc[t] /\ loc'[t] = loc[t]
    BY <1>1, <1>2, WakeFacts DEF Inv, TypeOK
  <2> QED
    BY <1>1, <2>1, <2>3, <2>4, AsideStep DEF Building
<1> QED
  BY <1>3, <1>4

LEMMA NextWakes == ASSUME Inv, WakeInv, [Next]_vars PROVE WakeInv'
<1>1. ASSUME NEW t \in Tasks, Acquire(t) PROVE WakeInv'
  BY <1>1, LoadSlotsWakes, CountInWakes, LeaseWakes, UndoWakes, RegisterWakes,
     GiveUpWakes, TryWakes DEF Acquire
<1>2. ASSUME NEW t \in Tasks, UseLease(t) PROVE WakeInv'
  BY <1>2, UseWakes, NotifyReleasedWakes DEF UseLease
<1>3. ASSUME NEW p \in Procs, ExpandOne(p) PROVE WakeInv'
  BY <1>3, ReadReservedWakes, PruneWakes, ReserveWakes, BuildingWakes, BuiltWakes
     DEF ExpandOne
<1>4. ASSUME Maintain PROVE WakeInv'
  BY <1>4, SweepWakes, SwapWakes DEF Maintain
<1>5. ASSUME NEW c \in Conns, Die(c) PROVE WakeInv'
  BY <1>5, DieWakes
<1>6. CASE UNCHANGED vars
  <2>1. \A t \in Tasks, c \in Conns \cup {0} : Minding(t, c) => Minding(t, c)'
    BY <1>6 DEF vars, Minding, Awake, Looking
  <2>2. \A c \in Conns \cup {0} : Chance(c)' => Chance(c)
    BY <1>6 DEF vars, Chance, Usable
  <2>3. Waiters' = Waiters /\ Builders' = Builders
        /\ UNCHANGED <<wait, permit, pc, loc, reserved>>
    BY <1>6 DEF vars, Waiters, Builders
  <2> QED
    BY <2>1, <2>2, <2>3 DEF WakeInv, PermitInv, WaitInv, SeenInv, ChanceInv
<1> QED
  BY <1>1, <1>2, <1>3, <1>4, <1>5, <1>6 DEF Next

LEMMA InitWakes == ASSUME Init PROVE WakeInv
<1>1. Waiters = {} /\ permit = FALSE /\ \A t \in Tasks : wait[t] = "none"
  BY DEF Init, NotifyInit, Waiters, Waiting
<1> QED
  BY <1>1 DEF WakeInv, PermitInv, WaitInv, SeenInv, ChanceInv

\* No query is left parked and un-notified while all others are idle or parked too,
\* unless a connection of the vector has died: no capacity that the pool could use
\* is freed or built without somebody who will take it or tell the waiters.
THEOREM NobodyIsStranded == Spec => []NoStrandedWaiter
<1>1. ASSUME Inv, WakeInv PROVE NoStrandedWaiter
  <2> SUFFICES ASSUME pc[Maintainer] = "idle", NEW s \in Tasks, Parked(s),
                      \A t \in Tasks : Parked(t) \/ pc[t] = "idle",
                      \A c \in slots : alive[c]
               PROVE  FALSE
    BY DEF NoStrandedWaiter, Stranded
  <2>1. \A p \in Procs : pc[p] \in {"idle", "park"}
    BY <1>1, WakeFacts DEF Parked
  <2>2. Builders = {} /\ s \in Waiters
    BY <2>1 DEF Builders, Building, Parked, Waiters, Waiting
  <2>3. \A c : \A t \in Tasks : ~Minding(t, c)
    BY <1>1, <2>1, WakeFacts DEF Minding, Awake, Looking, Parked, WaitInv, Unregistered
  <2>4. \A c \in Conns \cup {0} : ~Chance(c)
    BY <1>1, <2>2, <2>3 DEF WakeInv, ChanceInv
  <2>5. PICK c \in slots : TRUE
    BY <2>4 DEF Chance
  <2>6. c \in Conns /\ c # 0 /\ alive[c] /\ state[c] \notin {"none", "CLOSED"}
    BY <1>1, <2>5, UsableFalls, WakeFacts DEF Inv, KnownInv
  <2>7. inflight[c] = 0
    <3>1. Users(c) = {}
      BY <2>1, WakeFacts, <1>1 DEF Users, Counted
    <3> QED
      BY <1>1, <2>6, <3>1, FS_EmptySet DEF Inv, CountInv
  <2>8. state[c] # "RETIRING"
    BY <1>1, <2>1, <2>6, <2>7 DEF Inv, RetireInv, Draining
  <2>9. state[c] = "ACTIVE"
    BY <1>1, <2>6, <2>8 DEF Inv, TypeOK
  <2>10. Chance(c)
    BY <2>5, <2>6, <2>7, <2>9, PoolAssumption DEF Chance, Usable
  <2> QED
    BY <2>4, <2>6, <2>10
<1>2. Init => WakeInv
  BY InitWakes
<1>3. Inv /\ WakeInv /\ [Next]_vars => WakeInv'
  BY NextWakes
<1> QED
  BY Invariant, <1>1, <1>2, <1>3, PTL DEF Spec
=============================================================================
