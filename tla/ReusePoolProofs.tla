--------------------------- MODULE ReusePoolProofs ---------------------------
(***************************************************************************)
(* Machine-checked facts about ReusePool for any number of queries and any *)
(* sizes: a connection is in one place at a time, active_count is exact up *)
(* to the window of maintenance, the pool keeps to max_size but for the    *)
(* one connection that maintenance may put back, and the queries leave no  *)
(* query waiting beside a queued connection.                               *)
(***************************************************************************)
EXTENDS ReusePool, FiniteSetTheorems, TLAPS

\* The places of a thread that has a connection in its hands, or a place
\* reserved for one.
Holding == {"check", "borrowed", "release", "discard", "judge", "putBack",
            "overflow", "put"}
Occupied == Holding \cup {"connect"}
\* The places of maintenance while it looks through the queue, and while it
\* adds connections (left counts those it still wants).
Sweeping == {"lack", "sweep", "judge", "putBack", "overflow", "topUp",
             "spare", "recount", "close"}
Expanding == {"reserve", "connect", "put", "notify", "discard"}

\* Where a thread may be, and when it holds a connection.
Placed(p, l, c) ==
    /\ p \in Tasks => l \in TaskLabels
    /\ p = Maintainer => l \in MaintainerLabels
    /\ c # 0 <=> l \in Holding

PlaceInv ==
    /\ \A p \in Procs : Placed(p, pc[p], at[p])
    /\ pc[Maintainer] \in Expanding => left >= 1
    /\ sweeps = 0 => pc[Maintainer] \notin Sweeping

HomeTypes ==
    /\ queue \in Seq(Conns) /\ created \in 0 .. MaxConns
    /\ alive \subseteq Conns /\ drops \subseteq Conns
    /\ at \in [Procs -> 0 .. MaxConns]

\* The queue, the threads' hands and drops share no connection, and a
\* connection in none of them is closed.
HomeInv ==
    /\ \A i \in 1 .. Len(queue) : queue[i] \in 1 .. created
    /\ \A p \in Procs : at[p] \in 0 .. created
    /\ drops \subseteq 1 .. created /\ alive \subseteq 1 .. created
    /\ \A i, k \in 1 .. Len(queue) : queue[i] = queue[k] => i = k
    /\ \A p, q \in Procs : at[p] = at[q] /\ at[p] # 0 => p = q
    /\ \A i \in 1 .. Len(queue) :
        queue[i] \notin drops /\ \A p \in Procs : at[p] # queue[i]
    /\ \A p \in Procs : at[p] \notin drops
    /\ \A c \in alive : \/ c \in drops
                        \/ \E p \in Procs : at[p] = c
                        \/ \E i \in 1 .. Len(queue) : queue[i] = c

Occupants == {p \in Procs : pc[p] \in Occupied}
Size == Len(queue) + Cardinality(Occupants)

\* While maintenance has put a connection back and not counted it yet, the
\* counter is one short, and may have wrapped.
CountInv ==
    /\ IsFiniteSet(Occupants)
    /\ active = IF pc[Maintainer] # "recount" THEN Size
                ELSE IF Size = 0 THEN CountRange - 1 ELSE Size - 1
    /\ Size <= MaxSize + 1
    /\ pc[Maintainer] = "spare" \/ sweeps = 0 => Size <= MaxSize

Inv == TypeOK /\ PlaceInv /\ HomeInv /\ CountInv
-----------------------------------------------------------------------------
(***************************************************************************)
(* Arithmetic, sequences, threads.                                         *)
(***************************************************************************)
LEMMA WrapFacts ==
    ASSUME NEW r \in Nat, r > 1
    PROVE  \A a \in 0 .. r - 1 :
              /\ a % r = a
              /\ (a + 1) % r = IF a = r - 1 THEN 0 ELSE a + 1
              /\ (a - 1) % r = IF a = 0 THEN r - 1 ELSE a - 1
<1>1. \A x \in Int : /\ x % r \in 0 .. r - 1
                     /\ x = r * (x \div r) + (x % r) /\ x \div r \in Int
  OBVIOUS
<1>2. ASSUME NEW a \in 0 .. r - 1 PROVE a % r = a
  OBVIOUS
<1>3. ASSUME NEW a \in 0 .. r - 1 PROVE (a + 1) % r = IF a = r - 1 THEN 0 ELSE a + 1
  OBVIOUS
<1>4. ASSUME NEW a \in 0 .. r - 1 PROVE (a - 1) % r = IF a = 0 THEN r - 1 ELSE a - 1
  OBVIOUS
<1> QED
  BY <1>2, <1>3, <1>4

LEMMA SeqFacts ==
    ASSUME NEW S, NEW s \in Seq(S)
    PROVE  /\ Len(s) \in Nat
           /\ \A i \in 1 .. Len(s) : s[i] \in S
           /\ s # <<>> => /\ Head(s) \in S /\ Head(s) = s[1] /\ 1 \in 1 .. Len(s)
                          /\ Tail(s) \in Seq(S) /\ Len(Tail(s)) = Len(s) - 1
                          /\ \A i \in 1 .. Len(s) - 1 : /\ Tail(s)[i] = s[i + 1]
                                                        /\ i + 1 \in 1 .. Len(s)
           /\ \A x \in S : /\ Append(s, x) \in Seq(S) /\ Len(Append(s, x)) = Len(s) + 1
                           /\ Append(s, x)[Len(s) + 1] = x
                           /\ \A i \in 1 .. Len(s) : Append(s, x)[i] = s[i]
OBVIOUS

LEMMA ProcFacts ==
    /\ Maintainer \in Procs /\ Maintainer \notin Tasks
    /\ \A t \in Tasks : t \in Procs /\ t # Maintainer
    /\ \A p \in Procs : p \in Tasks \/ p = Maintainer
BY ReuseAssumption DEF Procs

LEMMA NotifyFacts ==
    ASSUME NotifyTypeOK
    PROVE  /\ NotifyWaiters => NotifyTypeOK'
           /\ UNCHANGED notify => NotifyTypeOK'
           /\ \A t \in Tasks : Enable(t) \/ Notified(t) \/ DropWaiter(t) => NotifyTypeOK'
           /\ NotifyOne(wait) => NotifyTypeOK'
<1>1. ASSUME NEW w \in [Tasks -> {"none", "waiting", "one", "woken"}], NotifyOne(w)
      PROVE  NotifyTypeOK'
  BY <1>1 DEF NotifyTypeOK, NotifyOne, Waiting
<1>2. ASSUME NEW t \in Tasks, DropWaiter(t) PROVE NotifyTypeOK'
  <2>1. [wait EXCEPT ![t] = "none"] \in [Tasks -> {"none", "waiting", "one", "woken"}]
    BY DEF NotifyTypeOK
  <2> QED
    BY <1>1, <1>2, <2>1 DEF NotifyTypeOK, DropWaiter
<1>3. ASSUME NEW t \in Tasks, Enable(t) \/ Notified(t) PROVE NotifyTypeOK'
  BY <1>3 DEF NotifyTypeOK, Enable, Notified
<1>4. NotifyWaiters => NotifyTypeOK'
  BY DEF NotifyTypeOK, NotifyWaiters
<1>5. UNCHANGED notify => NotifyTypeOK'
  BY DEF NotifyTypeOK, notify
<1> QED
  BY <1>1, <1>2, <1>3, <1>4, <1>5 DEF NotifyTypeOK
-----------------------------------------------------------------------------
(***************************************************************************)
(* The ways a connection moves between the queue, a thread and drops.      *)
(***************************************************************************)
Home == HomeTypes /\ HomeInv

LEMMA HomeFacts ==
    ASSUME Home
    PROVE  /\ Len(queue) \in Nat /\ created \in Nat /\ created <= MaxConns
           /\ MaxConns \in Nat
           /\ \A i \in 1 .. Len(queue) : queue[i] \in Conns /\ queue[i] # 0
           /\ 0 \notin drops
BY SeqFacts, ReuseAssumption DEF Home, HomeTypes, HomeInv, Conns

\* Nothing moves, though connections may die.
LEMMA HomeStay ==
    ASSUME Home, UNCHANGED <<queue, created, at, drops>>, alive' \subseteq alive
    PROVE  Home'
<1>1. HomeTypes'
  BY DEF Home, HomeTypes
<1>2. HomeInv'
  BY DEF Home, HomeInv
<1> QED
  BY <1>1, <1>2 DEF Home

\* A thread takes the head of the queue.
LEMMA HomePop ==
    ASSUME Home, NEW p \in Procs, at[p] = 0, queue # <<>>,
           Take(p, Head(queue)), queue' = Tail(queue),
           UNCHANGED <<created, alive, drops>>
    PROVE  Home' /\ at'[p] # 0 /\ Len(queue') = Len(queue) - 1
<1>1. /\ Head(queue) = queue[1] /\ 1 \in 1 .. Len(queue) /\ queue[1] \in Conns
      /\ queue' \in Seq(Conns) /\ Len(queue') = Len(queue) - 1 /\ Len(queue) \in Nat
      /\ \A i \in 1 .. Len(queue') : queue'[i] = queue[i + 1] /\ i + 1 \in 1 .. Len(queue)
  BY SeqFacts DEF Home, HomeTypes
<1>2. at \in [Procs -> 0 .. MaxConns] /\ \A q \in Procs :
          at'[q] = IF q = p THEN queue[1] ELSE at[q]
  BY <1>1 DEF Home, HomeTypes, Take
<1>3. HomeTypes'
  BY <1>1 DEF Home, HomeTypes, Take, Conns
<1>4. /\ \A i \in 1 .. Len(queue') : queue'[i] \in 1 .. created
      /\ \A i, k \in 1 .. Len(queue') : queue'[i] = queue'[k] => i = k
      /\ \A i \in 1 .. Len(queue') : queue'[i] # queue[1] /\ queue'[i] \notin drops
  BY <1>1 DEF Home, HomeInv
<1>5. /\ \A q \in Procs : at'[q] \in 0 .. created /\ at'[q] \notin drops
      /\ \A i \in 1 .. Len(queue') : \A q \in Procs : at'[q] # queue'[i]
  BY <1>1, <1>2, <1>4 DEF Home, HomeInv
<1>6. \A q, r \in Procs : at'[q] = at'[r] /\ at'[q] # 0 => q = r
  BY <1>1, <1>2 DEF Home, HomeInv
<1>7. ASSUME NEW c \in alive
      PROVE  \/ c \in drops
             \/ \E q \in Procs : at'[q] = c
             \/ \E i \in 1 .. Len(queue') : queue'[i] = c
  <2>1. CASE \E q \in Procs : at[q] = c
    <3>1. c # 0
      BY DEF Home, HomeTypes, Conns
    <3> QED
      BY <1>2, <2>1, <3>1
  <2>2. CASE \E i \in 1 .. Len(queue) : queue[i] = c
    <3>1. PICK i \in 1 .. Len(queue) : queue[i] = c
      BY <2>2
    <3>2. CASE i = 1
      BY <1>2, <3>1, <3>2
    <3>3. CASE i # 1
      <4>1. i - 1 \in 1 .. Len(queue') /\ (i - 1) + 1 = i
        BY <1>1, <3>3
      <4> QED
        BY <1>1, <3>1, <4>1
    <3> QED
      BY <3>2, <3>3
  <2> QED
    BY <2>1, <2>2 DEF Home, HomeInv
<1>8. HomeInv'
  BY <1>4, <1>5, <1>6, <1>7 DEF Home, HomeInv
<1> QED
  BY <1>1, <1>2, <1>3, <1>8, HomeFacts DEF Home

\* A connection from outside the queue goes to its end: one that thread p
\* holds, or one of drops.
LEMMA HomeAppend ==
    ASSUME Home, NEW c \in 1 .. created, queue' = Append(queue, c),
           \A i \in 1 .. Len(queue) : queue[i] # c,
           at' \in [Procs -> 0 .. MaxConns],
           \A p \in Procs : at'[p] = (IF at[p] = c THEN 0 ELSE at[p]),
           drops' = drops \ {c},
           UNCHANGED <<created, alive>>
    PROVE  Home' /\ Len(queue') = Len(queue) + 1
<1>1. /\ queue' \in Seq(Conns) /\ Len(queue') = Len(queue) + 1 /\ Len(queue) \in Nat
      /\ queue'[Len(queue) + 1] = c /\ c \in Conns
      /\ \A i \in 1 .. Len(queue) : queue'[i] = queue[i]
  BY HomeFacts, SeqFacts DEF Home, HomeTypes, Conns
<1>2. HomeTypes'
  BY <1>1 DEF Home, HomeTypes
<1>3. \A i \in 1 .. Len(queue') : \/ i \in 1 .. Len(queue)
                                  \/ i = Len(queue) + 1
  BY <1>1
<1>4. /\ \A i \in 1 .. Len(queue') : queue'[i] \in 1 .. created
      /\ \A i, k \in 1 .. Len(queue') : queue'[i] = queue'[k] => i = k
      /\ \A i \in 1 .. Len(queue') : queue'[i] \notin drops'
  BY <1>1, <1>3 DEF Home, HomeInv
<1>5. /\ \A q \in Procs : at'[q] \in 0 .. created /\ at'[q] \notin drops'
      /\ \A i \in 1 .. Len(queue') : \A q \in Procs : at'[q] # queue'[i]
  BY <1>1, <1>3, HomeFacts DEF Home, HomeInv
<1>6. \A q, r \in Procs : at'[q] = at'[r] /\ at'[q] # 0 => q = r
  BY DEF Home, HomeInv
<1>7. \A d \in alive : \/ d \in drops'
                       \/ \E q \in Procs : at'[q] = d
                       \/ \E i \in 1 .. Len(queue') : queue'[i] = d
  <2>1. ASSUME NEW d \in alive, d # c
        PROVE  \/ d \in drops'
               \/ \E q \in Procs : at'[q] = d
               \/ \E i \in 1 .. Len(queue') : queue'[i] = d
    BY <1>1, <2>1 DEF Home, HomeInv
  <2>2. Len(queue) + 1 \in 1 .. Len(queue')
    BY <1>1
  <2> QED
    BY <1>1, <2>1, <2>2
<1>8. drops' \subseteq 1 .. created /\ alive \subseteq 1 .. created
  BY DEF Home, HomeInv
<1>9. HomeInv'
  BY <1>4, <1>5, <1>6, <1>7, <1>8 DEF HomeInv
<1> QED
  BY <1>1, <1>2, <1>9 DEF Home

LEMMA HomePush ==
    ASSUME Home, NEW p \in Procs, at[p] # 0,
           queue' = Append(queue, at[p]), Take(p, 0),
           UNCHANGED <<created, alive, drops>>
    PROVE  Home' /\ at'[p] = 0 /\ Len(queue') = Len(queue) + 1
<1>1. at[p] \in 1 .. created /\ \A i \in 1 .. Len(queue) : queue[i] # at[p]
  BY HomeFacts DEF Home, HomeInv
<1>2. at' \in [Procs -> 0 .. MaxConns] /\ at'[p] = 0
  BY HomeFacts DEF Home, HomeTypes, Take
<1>3. \A q \in Procs : at'[q] = (IF at[q] = at[p] THEN 0 ELSE at[q])
  BY DEF Home, HomeTypes, HomeInv, Take
<1>4. drops' = drops \ {at[p]}
  BY DEF Home, HomeInv
<1> QED
  BY <1>1, <1>2, <1>3, <1>4, HomeAppend

LEMMA HomeSpare ==
    ASSUME Home, NEW c \in drops, queue' = Append(queue, c), drops' = drops \ {c},
           UNCHANGED <<created, alive, at>>
    PROVE  Home' /\ Len(queue') = Len(queue) + 1
<1>1. c \in 1 .. created /\ \A i \in 1 .. Len(queue) : queue[i] # c
  BY DEF Home, HomeInv
<1>2. at' \in [Procs -> 0 .. MaxConns]
      /\ \A q \in Procs : at'[q] = (IF at[q] = c THEN 0 ELSE at[q])
  BY DEF Home, HomeTypes, HomeInv
<1> QED
  BY <1>1, <1>2, HomeAppend

\* A thread has created a connection.
LEMMA HomeNew ==
    ASSUME Home, NEW p \in Procs, at[p] = 0, created < MaxConns,
           created' = created + 1, alive' = alive \cup {created + 1},
           Take(p, created + 1), UNCHANGED <<queue, drops>>
    PROVE  Home' /\ at'[p] # 0
<1>1. created \in Nat /\ created + 1 \in Conns /\ created + 1 \in 0 .. MaxConns
      /\ created + 1 \in 1 .. created'
  BY HomeFacts DEF Conns
<1>2. HomeTypes'
  BY <1>1, HomeFacts DEF Home, HomeTypes, Take
<1>3. \A q \in Procs : at'[q] = IF q = p THEN created + 1 ELSE at[q]
  BY <1>1 DEF Home, HomeTypes, Take
<1>4. \A n \in 0 .. created : n \in 0 .. created' /\ n # created + 1 /\ (n # 0 => n \in 1 .. created')
  BY <1>1
<1>5. /\ \A i \in 1 .. Len(queue) : queue[i] \in 1 .. created' /\ queue[i] # created + 1
      /\ \A q \in Procs : at[q] \in 0 .. created' /\ at[q] # created + 1
      /\ drops \subseteq 1 .. created' /\ alive' \subseteq 1 .. created'
      /\ created + 1 \notin drops
  BY <1>1 DEF Home, HomeInv
<1>6. /\ \A q \in Procs : at'[q] \in 0 .. created' /\ at'[q] \notin drops
      /\ \A i \in 1 .. Len(queue) : \A q \in Procs : at'[q] # queue[i]
      /\ \A q, r \in Procs : at'[q] = at'[r] /\ at'[q] # 0 => q = r
  BY <1>1, <1>3, <1>5 DEF Home, HomeInv
<1>7. \A c \in alive' : \/ c \in drops
                        \/ \E q \in Procs : at'[q] = c
                        \/ \E i \in 1 .. Len(queue) : queue[i] = c
  <2>1. \A c \in alive : c # 0
    BY DEF Home, HomeTypes, Conns
  <2> QED
    BY <1>3, <2>1 DEF Home, HomeInv
<1>8. HomeInv'
  BY <1>5, <1>6, <1>7 DEF Home, HomeInv
<1> QED
  BY <1>1, <1>2, <1>3, <1>8 DEF Home

\* A thread lets a connection go that is, or is being, closed.
LEMMA HomeShed ==
    ASSUME Home, NEW p \in Procs, at[p] # 0, Take(p, 0),
           alive' \subseteq alive, at[p] \notin alive',
           UNCHANGED <<queue, created, drops>>
    PROVE  Home' /\ at'[p] = 0
<1>1. \A q \in Procs : at'[q] = IF q = p THEN 0 ELSE at[q]
  BY DEF Home, HomeTypes, Take
<1>2. HomeTypes'
  BY HomeFacts DEF Home, HomeTypes, Take
<1>3. /\ \A q \in Procs : at'[q] \in 0 .. created /\ at'[q] \notin drops
      /\ \A i \in 1 .. Len(queue) : \A q \in Procs : at'[q] # queue[i]
      /\ \A q, r \in Procs : at'[q] = at'[r] /\ at'[q] # 0 => q = r
  BY <1>1, HomeFacts DEF Home, HomeInv
<1>4. \A c \in alive' : \/ c \in drops
                        \/ \E q \in Procs : at'[q] = c
                        \/ \E i \in 1 .. Len(queue) : queue[i] = c
  BY <1>1 DEF Home, HomeInv
<1>5. HomeInv'
  BY <1>3, <1>4 DEF Home, HomeInv
<1> QED
  BY <1>1, <1>2, <1>5 DEF Home

\* A thread puts what it holds among the dropped.
LEMMA HomeDrop ==
    ASSUME Home, NEW p \in Procs, at[p] # 0, Take(p, 0),
           drops' = drops \cup {at[p]}, UNCHANGED <<queue, created, alive>>
    PROVE  Home' /\ at'[p] = 0
<1>1. \A q \in Procs : at'[q] = IF q = p THEN 0 ELSE at[q]
  BY DEF Home, HomeTypes, Take
<1>2. at[p] \in 1 .. created /\ at[p] \in Conns
  BY HomeFacts DEF Home, HomeTypes, HomeInv, Conns
<1>3. HomeTypes'
  BY <1>2, HomeFacts DEF Home, HomeTypes, Take
<1>4. /\ \A q \in Procs : at'[q] \in 0 .. created /\ at'[q] \notin drops'
      /\ \A i \in 1 .. Len(queue) : \A q \in Procs : at'[q] # queue[i]
      /\ \A q, r \in Procs : at'[q] = at'[r] /\ at'[q] # 0 => q = r
      /\ \A i \in 1 .. Len(queue) : queue[i] \notin drops'
  BY <1>1, <1>2, HomeFacts DEF Home, HomeInv
<1>5. \A c \in alive : \/ c \in drops'
                       \/ \E q \in Procs : at'[q] = c
                       \/ \E i \in 1 .. Len(queue) : queue[i] = c
  BY <1>1 DEF Home, HomeInv
<1>6. drops' \subseteq 1 .. created /\ alive \subseteq 1 .. created
  BY <1>2 DEF Home, HomeInv
<1>7. HomeInv'
  BY <1>4, <1>5, <1>6 DEF Home, HomeInv
<1> QED
  BY <1>1, <1>3, <1>7 DEF Home

\* The dropped connections are closed.
LEMMA HomeClose ==
    ASSUME Home, alive' = alive \ drops, drops' = {}, UNCHANGED <<queue, created, at>>
    PROVE  Home'
<1>1. HomeTypes'
  BY DEF Home, HomeTypes
<1>2. HomeInv'
  BY DEF Home, HomeInv
<1> QED
  BY <1>1, <1>2 DEF Home
-----------------------------------------------------------------------------
(***************************************************************************)
(* active_count follows the thread that moves.                             *)
(***************************************************************************)
Held(l) == IF l \in Occupied THEN 1 ELSE 0

LEMMA OccupantStep ==
    ASSUME IsFiniteSet(Occupants), pc \in [Procs -> TaskLabels \cup MaintainerLabels],
           NEW p \in Procs, NEW l, Goto(p, l)
    PROVE  /\ IsFiniteSet(Occupants)'
           /\ Cardinality(Occupants) \in Nat /\ Cardinality(Occupants)' \in Nat
           /\ Cardinality(Occupants)' = Cardinality(Occupants) + Held(l) - Held(pc[p])
           /\ pc[p] \in Occupied => Cardinality(Occupants) >= 1
<1>1. \A q \in Procs : pc'[q] = IF q = p THEN l ELSE pc[q]
  BY DEF Goto
<1>2. Cardinality(Occupants) \in Nat
  BY FS_CardinalityType
<1>3. pc[p] \in Occupied => Cardinality(Occupants) >= 1
  BY <1>2, FS_EmptySet DEF Occupants
<1>4. CASE l \in Occupied /\ pc[p] \notin Occupied
  <2>1. Occupants' = Occupants \cup {p} /\ p \notin Occupants
    BY <1>1, <1>4 DEF Occupants
  <2>2. IsFiniteSet(Occupants') /\ Cardinality(Occupants') = Cardinality(Occupants) + 1
    BY <2>1, FS_AddElement
  <2> QED
    BY <1>2, <1>3, <1>4, <2>2 DEF Held
<1>5. CASE l \notin Occupied /\ pc[p] \in Occupied
  <2>1. Occupants' = Occupants \ {p} /\ p \in Occupants
    BY <1>1, <1>5 DEF Occupants
  <2>2. IsFiniteSet(Occupants') /\ Cardinality(Occupants') = Cardinality(Occupants) - 1
    BY <2>1, FS_RemoveElement
  <2> QED
    BY <1>2, <1>3, <1>5, <2>2 DEF Held
<1>6. CASE l \in Occupied <=> pc[p] \in Occupied
  <2>1. Occupants' = Occupants
    BY <1>1, <1>6 DEF Occupants
  <2>2. Held(l) = Held(pc[p]) /\ Held(l) \in Nat
    BY <1>6 DEF Held
  <2> QED
    BY <1>2, <1>3, <2>1, <2>2
<1> QED
  BY <1>4, <1>5, <1>6

\* The counter stays, takes one in below max_size, or gives one back.
Counted(p, l) ==
    \/ /\ Len(queue') + Held(l) = Len(queue) + Held(pc[p])
       /\ active' = active
    \/ /\ Len(queue') + Held(l) = Len(queue) + Held(pc[p]) + 1
       /\ active < MaxSize /\ active' = active + 1
    \/ /\ Len(queue') + Held(l) + 1 = Len(queue) + Held(pc[p])
       /\ active' = (active - 1) % CountRange

LEMMA CountStep ==
    ASSUME Inv, NEW p \in Procs, NEW l, Goto(p, l), Len(queue') \in Nat, Counted(p, l),
           p = Maintainer => /\ pc[p] # "recount" /\ l # "recount"
                             /\ l = "spare" => active < MinSize /\ active' = active,
           sweeps' = 0 => sweeps = 0
    PROVE  CountInv'
<1>1. /\ IsFiniteSet(Occupants)' /\ Cardinality(Occupants)' \in Nat
      /\ Cardinality(Occupants) \in Nat
      /\ Cardinality(Occupants)' = Cardinality(Occupants) + Held(l) - Held(pc[p])
  BY OccupantStep DEF Inv, CountInv, TypeOK
<1>2. Held(l) \in Nat /\ Held(pc[p]) \in Nat /\ Len(queue) \in Nat
  BY SeqFacts DEF Held, Inv, TypeOK
<1>3. /\ Size \in Nat /\ Size' \in Nat
      /\ Size' = Size + (Len(queue') - Len(queue)) + Held(l) - Held(pc[p])
  BY <1>1, <1>2 DEF Size
<1>4. \/ Size' = Size /\ active' = active
      \/ Size' = Size + 1 /\ active < MaxSize /\ active' = active + 1
      \/ Size' = Size - 1 /\ active' = (active - 1) % CountRange
  BY <1>2, <1>3 DEF Counted
<1>5. /\ active = IF pc[Maintainer] # "recount" THEN Size
                  ELSE IF Size = 0 THEN CountRange - 1 ELSE Size - 1
      /\ Size <= MaxSize + 1
      /\ pc[Maintainer] = "spare" \/ sweeps = 0 => Size <= MaxSize
  BY DEF Inv, CountInv
<1>6. /\ pc'[Maintainer] = "recount" <=> pc[Maintainer] = "recount"
      /\ pc'[Maintainer] = "spare" => \/ pc[Maintainer] = "spare"
                                      \/ /\ active < MinSize /\ active' = active
                                         /\ pc[Maintainer] # "recount"
      /\ sweeps = 0 => pc[Maintainer] # "recount"
  BY ProcFacts DEF Goto, Inv, TypeOK, PlaceInv, Sweeping
<1>7. /\ MaxSize \in Nat /\ MinSize \in Nat /\ MinSize <= MaxSize
      /\ CountRange \in Nat /\ CountRange > MaxSize + 1 /\ CountRange > 1
  BY ReuseAssumption
<1>8. active \in 0 .. CountRange - 1
  BY DEF Inv, TypeOK
<1>9. (active - 1) % CountRange = IF active = 0 THEN CountRange - 1 ELSE active - 1
  BY <1>7, <1>8, WrapFacts
<1>10. active' = IF pc'[Maintainer] # "recount" THEN Size'
                 ELSE IF Size' = 0 THEN CountRange - 1 ELSE Size' - 1
  BY <1>3, <1>4, <1>5, <1>6, <1>7, <1>8, <1>9
<1>11. Size' <= MaxSize + 1
  BY <1>3, <1>4, <1>5, <1>6, <1>7
<1>12. pc'[Maintainer] = "spare" \/ sweeps' = 0 => Size' <= MaxSize
  BY <1>3, <1>4, <1>5, <1>6, <1>7
<1> QED
  BY <1>1, <1>10, <1>11, <1>12 DEF CountInv

LEMMA PlaceStep ==
    ASSUME Inv, NEW p \in Procs, NEW l, Goto(p, l), Placed(p, l, at'[p]),
           \A q \in Procs : q # p => at'[q] = at[q],
           p \in Tasks => UNCHANGED <<left, sweeps>>,
           p = Maintainer => /\ l \in Expanding => left' >= 1
                             /\ sweeps' = 0 => l \notin Sweeping
    PROVE  PlaceInv' /\ pc' \in [Procs -> TaskLabels \cup MaintainerLabels]
<1>1. \A q \in Procs : pc'[q] = IF q = p THEN l ELSE pc[q]
  BY DEF Goto, Inv, TypeOK
<1>2. \A q \in Procs : Placed(q, pc'[q], at'[q])
  BY <1>1 DEF Inv, PlaceInv
<1>3. pc' \in [Procs -> TaskLabels \cup MaintainerLabels]
  BY ProcFacts DEF Goto, Inv, TypeOK, Placed
<1>4. /\ pc'[Maintainer] \in Expanding => left' >= 1
      /\ sweeps' = 0 => pc'[Maintainer] \notin Sweeping
  BY <1>1, ProcFacts DEF Inv, PlaceInv
<1> QED
  BY <1>2, <1>3, <1>4 DEF PlaceInv

\* The parts of the invariant make the whole.
LEMMA Together ==
    ASSUME Home', PlaceInv', CountInv', NotifyTypeOK', Len(queue') <= MaxSize,
           pc' \in [Procs -> TaskLabels \cup MaintainerLabels],
           left' \in Nat, sweeps' \in 0 .. MaxSweeps
    PROVE  Inv'
<1>1. Size' \in Nat
  <2>1. Cardinality(Occupants') \in Nat
    BY FS_CardinalityType DEF CountInv
  <2>2. Len(queue') \in Nat
    BY SeqFacts DEF Home, HomeTypes
  <2> QED
    BY <2>1, <2>2 DEF Size
<1>2. active' \in 0 .. CountRange - 1
  <2>1. /\ Size' <= MaxSize + 1
        /\ \/ active' = Size'
           \/ active' = CountRange - 1
           \/ Size' # 0 /\ active' = Size' - 1
    BY DEF CountInv
  <2>2. MaxSize \in Nat /\ CountRange \in Nat /\ CountRange > MaxSize + 1
    BY ReuseAssumption
  <2> QED
    BY <1>1, <2>1, <2>2
<1> QED
  BY <1>2 DEF Inv, TypeOK, Home, HomeTypes

\* One step of a thread, in one piece.
LEMMA Step ==
    ASSUME Inv, NEW p \in Procs, NEW l, Goto(p, l), Home', Placed(p, l, at'[p]),
           \A q \in Procs : q # p => at'[q] = at[q],
           Counted(p, l), Len(queue') <= MaxSize, NotifyTypeOK',
           p \in Tasks => UNCHANGED <<left, sweeps>>,
           p = Maintainer =>
              /\ left' \in Nat /\ sweeps' \in 0 .. MaxSweeps /\ (sweeps' = 0 => sweeps = 0)
              /\ l \in Expanding => left' >= 1
              /\ sweeps' = 0 => l \notin Sweeping
              /\ pc[p] # "recount" /\ l # "recount"
              /\ l = "spare" => active < MinSize /\ active' = active
    PROVE  Inv'
<1>1. Len(queue') \in Nat
  BY SeqFacts DEF Home, HomeTypes
<1>2. /\ left' \in Nat /\ sweeps' \in 0 .. MaxSweeps
      /\ sweeps' = 0 => sweeps = 0
  BY ProcFacts DEF Inv, TypeOK
<1>3. CountInv'
  BY <1>1, <1>2, CountStep
<1>4. PlaceInv' /\ pc' \in [Procs -> TaskLabels \cup MaintainerLabels]
  BY PlaceStep
<1> QED
  BY <1>2, <1>3, <1>4, Together

\* What the invariant says at a place.
LEMMA InvFacts ==
    ASSUME Inv
    PROVE  /\ Home /\ NotifyTypeOK /\ Len(queue) \in Nat /\ Len(queue) <= MaxSize
           /\ left \in Nat /\ sweeps \in 0 .. MaxSweeps /\ MaxSize \in Nat
           /\ \A p \in Procs : Placed(p, pc[p], at[p])
           /\ \A p \in Procs : pc[p] \in Holding <=> at[p] # 0
           /\ pc[Maintainer] \in Expanding => left >= 1
           /\ sweeps = 0 => pc[Maintainer] \notin Sweeping
           /\ queue = <<>> <=> Len(queue) = 0
BY SeqFacts, ReuseAssumption DEF Inv, TypeOK, PlaceInv, Home, HomeTypes, Placed
\* A thread moves, and neither the connections nor the counter take part.
LEMMA QuietStep ==
    ASSUME Inv, NEW p \in Procs, NEW l, Goto(p, l),
           UNCHANGED <<queue, active, created, at, drops>>, alive' \subseteq alive,
           p \in Tasks => l \in TaskLabels,
           p = Maintainer => l \in MaintainerLabels,
           l \in Holding <=> pc[p] \in Holding, l = "connect" <=> pc[p] = "connect",
           NotifyTypeOK',
           p \in Tasks => UNCHANGED <<left, sweeps>>,
           p = Maintainer =>
              /\ left' \in Nat /\ sweeps' \in 0 .. MaxSweeps /\ (sweeps' = 0 => sweeps = 0)
              /\ l \in Expanding => left' >= 1
              /\ sweeps' = 0 => l \notin Sweeping
              /\ pc[p] # "recount" /\ l # "recount"
              /\ l = "spare" => active < MinSize
    PROVE  Inv'
<1>1. Home'
  BY InvFacts, HomeStay
<1>2. Placed(p, l, at'[p])
  BY InvFacts DEF Placed
<1>3. Held(l) = Held(pc[p])
  BY DEF Held, Occupied
<1>4. Counted(p, l)
  BY <1>3 DEF Counted
<1>5. Len(queue') <= MaxSize
  BY InvFacts
<1> QED
  BY <1>1, <1>2, <1>4, <1>5, Step
-----------------------------------------------------------------------------
(***************************************************************************)
(* get.                                                                    *)
(***************************************************************************)
LEMMA PopKeeps == ASSUME Inv, NEW t \in Tasks, Pop(t) PROVE Inv'
<1>1. /\ t \in Procs /\ t # Maintainer /\ NotifyTypeOK' /\ UNCHANGED <<left, sweeps>>
      /\ pc[t] \in {"idle", "get"} /\ at[t] = 0
  BY ProcFacts, InvFacts, NotifyFacts DEF Pop, locals, Holding
<1>2. CASE queue = <<>>
  BY <1>1, <1>2, QuietStep DEF Pop, conns, locals, TaskLabels, Holding
<1>3. CASE queue # <<>>
  <2>1. Goto(t, "check") /\ Take(t, Head(queue)) /\ queue' = Tail(queue)
        /\ UNCHANGED <<active, created, alive, drops>>
    BY <1>3 DEF Pop, conns, locals
  <2>2. Home' /\ at'[t] # 0 /\ Len(queue') = Len(queue) - 1
    BY <1>1, <1>3, <2>1, InvFacts, HomePop
  <2>3. \A q \in Procs : q # t => at'[q] = at[q]
    BY <2>1, InvFacts DEF Take, Home, HomeTypes
  <2>4. Counted(t, "check")
    BY <1>1, <2>1, <2>2, InvFacts DEF Counted, Held, Occupied, Holding
  <2>5. Placed(t, "check", at'[t])
    BY <1>1, <2>2 DEF Placed, TaskLabels, Holding
  <2> QED
    BY <1>1, <2>1, <2>2, <2>3, <2>4, <2>5, InvFacts, Step
<1> QED
  BY <1>2, <1>3

LEMMA BorrowKeeps == ASSUME Inv, NEW t \in Tasks, Borrow(t) PROVE Inv'
<1>1. t \in Procs /\ t # Maintainer /\ NotifyTypeOK'
  BY ProcFacts, InvFacts, NotifyFacts DEF Borrow
<1> QED
  BY <1>1, QuietStep DEF Borrow, conns, locals, TaskLabels, Holding

\* A thread gives a connection and its place up.
LEMMA ShedKeeps ==
    ASSUME Inv, NEW p \in Procs, pc[p] \in Holding, NEW l, Goto(p, l),
           Take(p, 0), CountDown, alive' \subseteq alive, at[p] \notin alive',
           UNCHANGED <<queue, created, drops>>, NotifyTypeOK',
           p \in Tasks => l \in TaskLabels /\ UNCHANGED <<left, sweeps>>,
           l \notin Occupied, l \notin {"spare", "recount"},
           p = Maintainer =>
              /\ l \in MaintainerLabels
              /\ left' \in Nat /\ sweeps' = sweeps
              /\ l \in Expanding => left' >= 1
              /\ sweeps' = 0 => l \notin Sweeping
    PROVE  Inv'
<1>1. at[p] # 0
  BY InvFacts
<1>2. Home' /\ at'[p] = 0
  BY <1>1, InvFacts, HomeShed
<1>3. \A q \in Procs : q # p => at'[q] = at[q]
  BY InvFacts DEF Take, Home, HomeTypes
<1>4. Held(l) = 0 /\ Held(pc[p]) = 1
  BY DEF Held, Occupied
<1>5. Counted(p, l)
  BY <1>4, InvFacts DEF Counted, CountDown
<1>6. Placed(p, l, at'[p])
  BY <1>2 DEF Placed, Occupied
<1>7. Len(queue') <= MaxSize /\ pc[p] # "recount" /\ sweeps' \in 0 .. MaxSweeps
  BY ProcFacts, InvFacts DEF Holding
<1> QED
  BY <1>2, <1>3, <1>5, <1>6, <1>7, Step

LEMMA DiscardDeadKeeps == ASSUME Inv, NEW t \in Tasks, DiscardDead(t) PROVE Inv'
<1>1. t \in Procs /\ t # Maintainer
  BY ProcFacts
<1>2. NotifyTypeOK'
  BY InvFacts DEF DiscardDead, NotifyTypeOK
<1>3. PICK l \in {"reserve", "get"} : Goto(t, l)
  BY DEF DiscardDead
<1> QED
  BY <1>1, <1>2, <1>3, ShedKeeps
     DEF DiscardDead, conns, locals, TaskLabels, Occupied, Holding

LEMMA ReserveKeeps == ASSUME Inv, NEW p \in Procs, Reserve(p) PROVE Inv'
<1>1. /\ pc[p] = "reserve" /\ NotifyTypeOK'
      /\ UNCHANGED <<queue, created, alive, at, drops, left, sweeps>>
  BY InvFacts, NotifyFacts DEF Reserve, conns, locals
<1>2. p = Maintainer => left >= 1
  BY <1>1, InvFacts DEF Expanding
<1>3. p \in Tasks \/ p = Maintainer
  BY ProcFacts
<1>4. CASE active < MaxSize
  <2>1. active' = active + 1 /\ Goto(p, "connect")
    BY <1>4 DEF Reserve
  <2>2. Home'
    BY <1>1, InvFacts, HomeStay
  <2>3. Counted(p, "connect")
    BY <1>1, <1>4, <2>1, InvFacts DEF Counted, Held, Occupied, Holding
  <2>4. Placed(p, "connect", at'[p])
    BY <1>1, InvFacts DEF Placed, TaskLabels, MaintainerLabels, Holding
  <2> QED
    BY <1>1, <1>2, <2>1, <2>2, <2>3, <2>4, InvFacts, ProcFacts, Step DEF Sweeping
<1>5. CASE ~(active < MaxSize) /\ p = Maintainer
  BY <1>1, <1>5, InvFacts, ProcFacts, QuietStep
     DEF Reserve, MaintainerLabels, Holding, Expanding, Sweeping
<1>6. CASE ~(active < MaxSize) /\ p # Maintainer
  <2>1. PICK l \in {"enable", "park"} : Goto(p, l)
    BY <1>6 DEF Reserve
  <2> QED
    BY <1>1, <1>3, <1>6, <2>1, QuietStep DEF Reserve, TaskLabels, Holding
<1> QED
  BY <1>4, <1>5, <1>6

LEMMA RegisterKeeps == ASSUME Inv, NEW t \in Tasks, Register(t) PROVE Inv'
<1>1. t \in Procs /\ t # Maintainer /\ NotifyTypeOK'
  BY ProcFacts, InvFacts, NotifyFacts DEF Register
<1> QED
  BY <1>1, QuietStep DEF Register, conns, locals, TaskLabels, Holding

LEMMA ConnectedKeeps == ASSUME Inv, NEW p \in Procs, Connected(p) PROVE Inv'
<1>1. /\ pc[p] = "connect" /\ at[p] = 0
      /\ UNCHANGED <<queue, active, drops, left, sweeps>>
  BY InvFacts DEF Connected, locals, Holding
<1>2. Home' /\ at'[p] # 0
  BY <1>1, InvFacts, HomeNew DEF Connected
<1>3. \A q \in Procs : q # p => at'[q] = at[q]
  BY InvFacts DEF Connected, Take, Home, HomeTypes
<1>4. CASE p = Maintainer
  <2>1. Goto(p, "put") /\ NotifyTypeOK' /\ left >= 1 /\ p \notin Tasks
    BY <1>1, <1>4, InvFacts, NotifyFacts, ProcFacts DEF Connected, Expanding
  <2>2. Counted(p, "put")
    BY <1>1 DEF Counted, Held, Occupied, Holding
  <2>3. Placed(p, "put", at'[p])
    BY <1>2, <2>1 DEF Placed, MaintainerLabels, Holding
  <2> QED
    BY <1>1, <1>2, <1>3, <2>1, <2>2, <2>3, InvFacts, Step DEF Sweeping
<1>5. CASE p # Maintainer
  <2>1. Goto(p, "borrowed") /\ NotifyTypeOK' /\ p \in Tasks
    BY <1>5, InvFacts, NotifyFacts, ProcFacts DEF Connected
  <2>2. Counted(p, "borrowed")
    BY <1>1 DEF Counted, Held, Occupied, Holding
  <2>3. Placed(p, "borrowed", at'[p])
    BY <1>2, <1>5 DEF Placed, TaskLabels, Holding
  <2> QED
    BY <1>1, <1>2, <1>3, <1>5, <2>1, <2>2, <2>3, InvFacts, Step
<1> QED
  BY <1>4, <1>5

\* Where maintenance goes after one connection of an expansion.
LEMMA AfterExpansion ==
    ASSUME Inv, pc[Maintainer] \in Expanding,
           NextExpansion \/ (left' = 0 /\ Goto(Maintainer, "idle"))
    PROVE  \E l \in {"reserve", "idle"} :
              /\ Goto(Maintainer, l) /\ left' \in Nat
              /\ l \in Expanding => left' >= 1
<1>1. left \in Nat /\ left >= 1
  BY InvFacts
<1>2. CASE left' = 0 /\ Goto(Maintainer, "idle")
  BY <1>2 DEF Expanding
<1>3. CASE NextExpansion /\ left > 1
  BY <1>1, <1>3 DEF NextExpansion, Expanding
<1>4. CASE NextExpansion /\ ~(left > 1)
  BY <1>1, <1>4 DEF NextExpansion, Expanding
<1> QED
  BY <1>2, <1>3, <1>4

LEMMA ConnectFailedKeeps == ASSUME Inv, NEW p \in Procs, ConnectFailed(p) PROVE Inv'
<1>1. /\ pc[p] = "connect" /\ NotifyTypeOK' /\ at[p] = 0
      /\ UNCHANGED <<queue, created, alive, at, drops, sweeps>>
  BY InvFacts, NotifyFacts DEF ConnectFailed, conns, Holding
<1>2. Home'
  BY <1>1, InvFacts, HomeStay
<1>3. PICK l \in {"reserve", "idle", "backoff"} :
          /\ Goto(p, l)
          /\ p # Maintainer => l = "backoff" /\ UNCHANGED left
          /\ p = Maintainer => l \in {"reserve", "idle"} /\ left' \in Nat
                               /\ (l \in Expanding => left' >= 1)
  <2>1. CASE p = Maintainer
    <3>1. pc[Maintainer] \in Expanding
      BY <1>1, <2>1 DEF Expanding
    <3>2. NextExpansion \/ (left' = 0 /\ Goto(Maintainer, "idle"))
      BY <2>1 DEF ConnectFailed
    <3> QED
      BY <2>1, <3>1, <3>2, AfterExpansion
  <2>2. CASE p # Maintainer
    BY <2>2 DEF ConnectFailed
  <2> QED
    BY <2>1, <2>2
<1>4. Counted(p, l)
  BY <1>1, InvFacts DEF ConnectFailed, CountDown, Counted, Held, Occupied, Holding
<1>5. Placed(p, l, at'[p])
  BY <1>1, <1>3, ProcFacts DEF Placed, TaskLabels, MaintainerLabels, Holding
<1> QED
  BY <1>1, <1>2, <1>3, <1>4, <1>5, InvFacts, ProcFacts, Step DEF Sweeping

LEMMA WaitKeeps ==
    ASSUME Inv, NEW t \in Tasks, Wake(t) \/ Retry(t) \/ GiveUp(t)
    PROVE  Inv'
<1>1. /\ t \in Procs /\ t # Maintainer /\ NotifyTypeOK'
      /\ UNCHANGED <<queue, active, created, alive, at, drops, left, sweeps>>
      /\ pc[t] \in {"park", "backoff"}
  BY ProcFacts, InvFacts, NotifyFacts DEF Wake, Retry, GiveUp, conns, locals
<1>2. PICK l \in {"get", "idle"} : Goto(t, l)
  BY DEF Wake, Retry, GiveUp
<1> QED
  BY <1>1, <1>2, QuietStep DEF TaskLabels, Holding
-----------------------------------------------------------------------------
(***************************************************************************)
(* query.                                                                  *)
(***************************************************************************)
LEMMA EndUseKeeps ==
    ASSUME Inv, NEW t \in Tasks, Completed(t) \/ Abandoned(t)
    PROVE  Inv'
<1>1. /\ t \in Procs /\ t # Maintainer /\ NotifyTypeOK' /\ pc[t] = "borrowed"
      /\ UNCHANGED <<queue, active, created, alive, at, drops, left, sweeps>>
  BY ProcFacts, InvFacts, NotifyFacts DEF Completed, Abandoned, conns, locals
<1>2. PICK l \in {"release", "discard"} : Goto(t, l)
  BY DEF Completed, Abandoned
<1> QED
  BY <1>1, <1>2, QuietStep DEF TaskLabels, Holding

\* A thread puts the connection it holds back into the queue.
LEMMA PushKeeps ==
    ASSUME Inv, NEW p \in Procs, pc[p] \in Holding, ~Full, NEW l, Goto(p, l),
           queue' = Append(queue, at[p]), Take(p, 0),
           UNCHANGED <<active, created, alive, drops>>, NotifyTypeOK',
           p \in Tasks => l \in TaskLabels,
           p = Maintainer => l \in MaintainerLabels,
           l \notin Occupied, l \notin {"spare", "recount"},
           UNCHANGED <<left, sweeps>>,
           p = Maintainer =>
              /\ l \in Expanding => left >= 1
              /\ sweeps = 0 => l \notin Sweeping
    PROVE  Inv'
<1>1. at[p] # 0
  BY InvFacts
<1>2. Home' /\ at'[p] = 0 /\ Len(queue') = Len(queue) + 1
  BY <1>1, InvFacts, HomePush
<1>3. \A q \in Procs : q # p => at'[q] = at[q]
  BY InvFacts DEF Take, Home, HomeTypes
<1>4. Held(l) = 0 /\ Held(pc[p]) = 1
  BY DEF Held, Occupied
<1>5. Counted(p, l)
  BY <1>2, <1>4, InvFacts DEF Counted
<1>6. Placed(p, l, at'[p])
  BY <1>2 DEF Placed, Occupied
<1>7. Len(queue') <= MaxSize /\ pc[p] # "recount"
  BY <1>2, InvFacts DEF Holding, Full
<1> QED
  BY <1>2, <1>3, <1>5, <1>6, <1>7, InvFacts, Step

LEMMA ReleaseKeeps == ASSUME Inv, NEW t \in Tasks, Release(t) PROVE Inv'
<1>1. t \in Procs /\ t # Maintainer /\ NotifyTypeOK' /\ pc[t] = "release"
  BY ProcFacts, InvFacts, NotifyFacts DEF Release
<1>2. CASE at[t] \in alive /\ ~Full
  BY <1>1, <1>2, PushKeeps DEF Release, conns, locals, TaskLabels, Occupied, Holding
<1>3. CASE ~(at[t] \in alive /\ ~Full)
  BY <1>1, <1>3, QuietStep DEF Release, conns, locals, TaskLabels, Holding
<1> QED
  BY <1>2, <1>3

LEMMA NotifyReleasedKeeps == ASSUME Inv, NEW t \in Tasks, NotifyReleased(t) PROVE Inv'
<1>1. t \in Procs /\ t # Maintainer /\ NotifyTypeOK'
  BY ProcFacts, InvFacts, NotifyFacts DEF NotifyReleased
<1> QED
  BY <1>1, QuietStep DEF NotifyReleased, conns, locals, TaskLabels, Holding

LEMMA DiscardKeeps == ASSUME Inv, NEW p \in Procs, Discard(p) PROVE Inv'
<1>1. /\ pc[p] = "discard" /\ NotifyTypeOK' /\ Take(p, 0) /\ CountDown
      /\ alive' \subseteq alive /\ at[p] \notin alive'
      /\ UNCHANGED <<queue, created, drops, sweeps>>
  BY InvFacts, NotifyFacts DEF Discard
<1>2. CASE p = Maintainer
  <2>1. pc[Maintainer] \in Expanding
    BY <1>1, <1>2 DEF Expanding
  <2>2. PICK l \in {"reserve", "idle"} :
            /\ Goto(Maintainer, l) /\ left' \in Nat
            /\ l \in Expanding => left' >= 1
    BY <1>2, <2>1, AfterExpansion DEF Discard
  <2> QED
    BY <1>1, <1>2, <2>2, ProcFacts, ShedKeeps
       DEF Occupied, Holding, MaintainerLabels, Sweeping
<1>3. CASE p # Maintainer
  <2>1. p \in Tasks /\ Goto(p, "idle") /\ left' = left
    BY <1>3, ProcFacts DEF Discard
  <2> QED
    BY <1>1, <1>3, <2>1, ShedKeeps DEF Occupied, Holding, TaskLabels
<1> QED
  BY <1>2, <1>3

LEMMA DieKeeps == ASSUME Inv, NEW c \in Conns, Die(c) PROVE Inv'
<1>1. /\ alive' \subseteq alive /\ NotifyTypeOK'
      /\ UNCHANGED <<queue, active, created, pc, at, left, drops, sweeps>>
  BY InvFacts, NotifyFacts DEF Die, locals
<1>2. Home'
  BY <1>1, InvFacts, HomeStay
<1>3. PlaceInv' /\ CountInv'
  BY <1>1 DEF Inv, PlaceInv, CountInv, Size, Occupants
<1> QED
  BY <1>1, <1>2, <1>3, InvFacts, Together DEF Inv, TypeOK
-----------------------------------------------------------------------------
(***************************************************************************)
(* maintain.                                                               *)
(***************************************************************************)
\* Maintenance goes on without touching a connection.
LEMMA MaintainQuiet ==
    ASSUME Inv, NEW l \in MaintainerLabels, Goto(Maintainer, l),
           UNCHANGED <<queue, active, created, alive, at, drops>>, NotifyTypeOK',
           l \in Holding <=> pc[Maintainer] \in Holding,
           l # "connect", pc[Maintainer] # "connect",
           left' \in Nat, sweeps' \in 0 .. MaxSweeps, sweeps' = 0 => sweeps = 0,
           l \in Expanding => left' >= 1,
           l \in Sweeping => sweeps' # 0,
           pc[Maintainer] # "recount", l # "recount",
           l = "spare" => active < MinSize
    PROVE  Inv'
BY ProcFacts, QuietStep

LEMMA SweepStartKeeps == ASSUME Inv, MaintainStart PROVE Inv'
<1>1. /\ pc[Maintainer] = "idle" /\ NotifyTypeOK' /\ left' \in Nat
      /\ sweeps' \in 0 .. MaxSweeps /\ sweeps' # 0
      /\ UNCHANGED <<queue, active, created, alive, at, drops>>
  BY InvFacts, NotifyFacts, ReuseAssumption DEF MaintainStart, conns
<1>2. PICK l \in {"lack", "sweep"} : Goto(Maintainer, l)
  BY DEF MaintainStart
<1> QED
  BY <1>1, <1>2, MaintainQuiet DEF MaintainerLabels, Holding, Expanding

LEMMA SweepPopKeeps == ASSUME Inv, SweepPop PROVE Inv'
<1>1. /\ Maintainer \in Procs /\ Maintainer \notin Tasks /\ NotifyTypeOK'
      /\ UNCHANGED <<active, created, alive, drops, sweeps>>
      /\ pc[Maintainer] = "sweep" /\ at[Maintainer] = 0 /\ sweeps # 0
  BY ProcFacts, InvFacts, NotifyFacts DEF SweepPop, conns, Holding, Sweeping
<1>2. CASE left = 0 \/ queue = <<>>
  BY <1>1, <1>2, MaintainQuiet, InvFacts
     DEF SweepPop, conns, MaintainerLabels, Holding, Expanding
<1>3. CASE ~(left = 0 \/ queue = <<>>)
  <2>1. /\ Goto(Maintainer, "judge") /\ Take(Maintainer, Head(queue))
        /\ queue' = Tail(queue) /\ left' \in Nat
    BY <1>3, InvFacts DEF SweepPop
  <2>2. Home' /\ at'[Maintainer] # 0 /\ Len(queue') = Len(queue) - 1
    BY <1>1, <1>3, <2>1, InvFacts, HomePop
  <2>3. \A q \in Procs : q # Maintainer => at'[q] = at[q]
    BY <2>1, InvFacts DEF Take, Home, HomeTypes
  <2>4. Counted(Maintainer, "judge")
    BY <1>1, <2>1, <2>2, InvFacts DEF Counted, Held, Occupied, Holding
  <2>5. Placed(Maintainer, "judge", at'[Maintainer])
    BY <1>1, <2>2 DEF Placed, MaintainerLabels, Holding
  <2> QED
    BY <1>1, <2>1, <2>2, <2>3, <2>4, <2>5, InvFacts, Step DEF Expanding
<1> QED
  BY <1>2, <1>3

\* A connection that maintenance will close loses its place.
LEMMA DropKeeps ==
    ASSUME Inv, pc[Maintainer] \in {"judge", "overflow"}, Goto(Maintainer, "sweep"),
           Take(Maintainer, 0), CountDown, drops' = drops \cup {at[Maintainer]},
           UNCHANGED <<queue, created, alive, notify, left, sweeps>>
    PROVE  Inv'
<1>1. /\ Maintainer \in Procs /\ Maintainer \notin Tasks /\ NotifyTypeOK'
      /\ at[Maintainer] # 0 /\ sweeps # 0
  BY ProcFacts, InvFacts, NotifyFacts DEF Holding, Sweeping
<1>2. Home' /\ at'[Maintainer] = 0
  BY <1>1, InvFacts, HomeDrop
<1>3. \A q \in Procs : q # Maintainer => at'[q] = at[q]
  BY InvFacts DEF Take, Home, HomeTypes
<1>4. Counted(Maintainer, "sweep")
  BY InvFacts DEF Counted, CountDown, Held, Occupied, Holding
<1>5. Placed(Maintainer, "sweep", at'[Maintainer])
  BY <1>1, <1>2 DEF Placed, MaintainerLabels, Holding
<1> QED
  BY <1>1, <1>2, <1>3, <1>4, <1>5, InvFacts, Step DEF Expanding

LEMMA JudgeKeeps == ASSUME Inv, Judge PROVE Inv'
<1>1. /\ pc[Maintainer] = "judge" /\ NotifyTypeOK' /\ sweeps # 0
      /\ UNCHANGED <<queue, created, alive, notify, left, sweeps>>
  BY InvFacts, NotifyFacts DEF Judge, conns, Sweeping
<1>2. CASE Goto(Maintainer, "putBack") /\ UNCHANGED <<active, at, drops>>
  BY <1>1, <1>2, MaintainQuiet, InvFacts DEF MaintainerLabels, Holding, Expanding
<1>3. CASE /\ CountDown /\ Take(Maintainer, 0) /\ Goto(Maintainer, "sweep")
           /\ drops' = IF at[Maintainer] \in alive THEN drops \cup {at[Maintainer]}
                                                   ELSE drops
  <2>1. CASE at[Maintainer] \in alive
    BY <1>1, <1>3, <2>1, DropKeeps
  <2>2. CASE at[Maintainer] \notin alive
    BY <1>1, <1>3, <2>2, ProcFacts, InvFacts, ShedKeeps
       DEF Occupied, Holding, MaintainerLabels, Expanding
  <2> QED
    BY <2>1, <2>2
<1> QED
  BY <1>2, <1>3 DEF Judge

LEMMA PutBackKeeps == ASSUME Inv, PutBack PROVE Inv'
<1>1. /\ pc[Maintainer] = "putBack" /\ NotifyTypeOK' /\ sweeps # 0
      /\ UNCHANGED <<active, created, alive, left, drops, sweeps>>
  BY InvFacts, NotifyFacts DEF PutBack, conns, locals, Sweeping
<1>2. CASE Full
  BY <1>1, <1>2, MaintainQuiet, InvFacts DEF PutBack, MaintainerLabels, Holding, Expanding
<1>3. CASE ~Full
  BY <1>1, <1>3, PushKeeps, ProcFacts
     DEF PutBack, MaintainerLabels, Occupied, Holding, Expanding
<1> QED
  BY <1>2, <1>3

LEMMA OverflowKeeps == ASSUME Inv, Overflow PROVE Inv'
BY DropKeeps DEF Overflow, conns

LEMMA TopUpKeeps == ASSUME Inv, TopUp PROVE Inv'
<1>1. /\ pc[Maintainer] = "topUp" /\ NotifyTypeOK' /\ sweeps # 0
      /\ UNCHANGED <<queue, active, created, alive, at, left, drops, sweeps>>
  BY InvFacts, NotifyFacts DEF TopUp, conns, locals, Sweeping
<1>2. PICK l \in {"spare", "close"} :
          Goto(Maintainer, l) /\ (l = "spare" => active < MinSize)
  BY DEF TopUp
<1> QED
  BY <1>1, <1>2, MaintainQuiet, InvFacts DEF MaintainerLabels, Holding, Expanding

\* The connection put back is one more than the counter knows of.
LEMMA SpareKeeps == ASSUME Inv, Spare PROVE Inv'
<1>1. /\ pc[Maintainer] = "spare" /\ NotifyTypeOK' /\ sweeps # 0
      /\ UNCHANGED <<active, created, alive, at, left, sweeps>>
      /\ Maintainer \in Procs /\ Maintainer \notin Tasks
  BY ProcFacts, InvFacts, NotifyFacts DEF Spare, conns, Sweeping
<1>2. CASE Full
  BY <1>1, <1>2, MaintainQuiet, InvFacts DEF Spare, MaintainerLabels, Holding, Expanding
<1>3. CASE ~Full
  <2>1. PICK c \in drops : /\ queue' = Append(queue, c) /\ drops' = drops \ {c}
                           /\ Goto(Maintainer, "recount")
    BY <1>3 DEF Spare
  <2>2. Home' /\ Len(queue') = Len(queue) + 1
    BY <1>1, <2>1, InvFacts, HomeSpare
  <2>3. PlaceInv' /\ pc' \in [Procs -> TaskLabels \cup MaintainerLabels]
    <3>1. Placed(Maintainer, "recount", at'[Maintainer])
      BY <1>1, InvFacts DEF Placed, MaintainerLabels, Holding
    <3> QED
      BY <1>1, <2>1, <3>1, PlaceStep DEF Expanding
  <2>4. /\ IsFiniteSet(Occupants)' /\ Cardinality(Occupants) \in Nat
        /\ Cardinality(Occupants)' = Cardinality(Occupants)
    <3>1. Held("recount") = 0 /\ Held(pc[Maintainer]) = 0
      BY <1>1 DEF Held, Occupied, Holding
    <3> QED
      BY <1>1, <2>1, <3>1, OccupantStep DEF Inv, TypeOK, CountInv
  <2>5. Size \in Nat /\ Size' = Size + 1
    BY <2>2, <2>4, InvFacts DEF Size
  <2>6. active = Size /\ Size <= MaxSize
    BY <1>1 DEF Inv, CountInv
  <2>7. pc'[Maintainer] = "recount"
    BY <1>1, <2>1 DEF Goto, Inv, TypeOK
  <2>8. CountInv'
    BY <1>1, <2>4, <2>5, <2>6, <2>7, InvFacts DEF CountInv
  <2>9. Len(queue') <= MaxSize
    BY <1>3, <2>2, InvFacts DEF Full
  <2> QED
    BY <1>1, <2>2, <2>3, <2>8, <2>9, InvFacts, Together
<1> QED
  BY <1>2, <1>3

\* Counting it again makes the counter exact, from wherever it has wrapped to.
LEMMA RecountKeeps == ASSUME Inv, Recount PROVE Inv'
<1>1. /\ pc[Maintainer] = "recount" /\ NotifyTypeOK' /\ sweeps # 0
      /\ Goto(Maintainer, "topUp")
      /\ UNCHANGED <<queue, created, alive, at, left, drops, sweeps>>
      /\ Maintainer \in Procs /\ Maintainer \notin Tasks
  BY ProcFacts, InvFacts, NotifyFacts DEF Recount, conns, locals, Sweeping
<1>2. Home'
  BY <1>1, InvFacts, HomeStay
<1>3. PlaceInv' /\ pc' \in [Procs -> TaskLabels \cup MaintainerLabels]
  <2>1. Placed(Maintainer, "topUp", at'[Maintainer])
    BY <1>1, InvFacts DEF Placed, MaintainerLabels, Holding
  <2> QED
    BY <1>1, <2>1, PlaceStep DEF Expanding
<1>4. /\ IsFiniteSet(Occupants)' /\ Cardinality(Occupants) \in Nat
      /\ Cardinality(Occupants)' = Cardinality(Occupants)
  <2>1. Held("topUp") = 0 /\ Held(pc[Maintainer]) = 0
    BY <1>1 DEF Held, Occupied, Holding
  <2> QED
    BY <1>1, <2>1, OccupantStep DEF Inv, TypeOK, CountInv
<1>5. Size \in Nat /\ Size' = Size
  BY <1>1, <1>4, InvFacts DEF Size
<1>6. /\ active = (IF Size = 0 THEN CountRange - 1 ELSE Size - 1)
      /\ Size <= MaxSize + 1 /\ active \in 0 .. CountRange - 1
  BY <1>1 DEF Inv, CountInv, TypeOK
<1>7. MaxSize \in Nat /\ CountRange \in Nat /\ CountRange > MaxSize + 1 /\ CountRange > 1
  BY ReuseAssumption
<1>8. active' = IF active = CountRange - 1 THEN 0 ELSE active + 1
  BY <1>6, <1>7, WrapFacts DEF Recount, CountUp
<1>9. active' = Size'
  BY <1>5, <1>6, <1>7, <1>8
<1>10. pc'[Maintainer] = "topUp"
  BY <1>1 DEF Goto, Inv, TypeOK
<1>11. CountInv'
  BY <1>1, <1>4, <1>5, <1>6, <1>9, <1>10 DEF CountInv
<1> QED
  BY <1>1, <1>2, <1>3, <1>11, InvFacts, Together

LEMMA CloseDroppedKeeps == ASSUME Inv, CloseDropped PROVE Inv'
<1>1. /\ pc[Maintainer] = "close" /\ NotifyTypeOK' /\ sweeps # 0
      /\ Goto(Maintainer, "lack")
      /\ UNCHANGED <<queue, active, created, at, left, sweeps>>
      /\ Maintainer \in Procs /\ Maintainer \notin Tasks
  BY ProcFacts, InvFacts, NotifyFacts DEF CloseDropped, Sweeping
<1>2. Home'
  BY <1>1, InvFacts, HomeClose DEF CloseDropped
<1>3. Placed(Maintainer, "lack", at'[Maintainer])
  BY <1>1, InvFacts DEF Placed, MaintainerLabels, Holding
<1>4. Counted(Maintainer, "lack")
  BY <1>1 DEF Counted, Held, Occupied, Holding
<1> QED
  BY <1>1, <1>2, <1>3, <1>4, InvFacts, Step DEF Expanding

LEMMA LackKeeps == ASSUME Inv, Lack PROVE Inv'
<1>1. /\ pc[Maintainer] = "lack" /\ NotifyTypeOK'
      /\ UNCHANGED <<queue, active, created, alive, at, left, drops, sweeps>>
  BY InvFacts, NotifyFacts DEF Lack, conns, locals
<1>2. PICK l \in {"expand", "idle"} : Goto(Maintainer, l)
  BY DEF Lack
<1> QED
  BY <1>1, <1>2, MaintainQuiet, InvFacts DEF MaintainerLabels, Holding, Expanding, Sweeping

LEMMA ExpandKeeps == ASSUME Inv, Expand PROVE Inv'
<1>1. /\ pc[Maintainer] = "expand" /\ NotifyTypeOK'
      /\ UNCHANGED <<queue, active, created, alive, at, drops, sweeps>>
  BY InvFacts, NotifyFacts DEF Expand, conns
<1>2. active \in Nat /\ MinSize \in Nat
  BY ReuseAssumption DEF Inv, TypeOK
<1>3. PICK l \in {"reserve", "idle"} :
          /\ Goto(Maintainer, l) /\ left' \in Nat
          /\ l = "reserve" => left' >= 1
  BY <1>2, InvFacts DEF Expand
<1> QED
  BY <1>1, <1>3, MaintainQuiet, InvFacts DEF MaintainerLabels, Holding, Expanding, Sweeping

LEMMA PutKeeps == ASSUME Inv, Put PROVE Inv'
<1>1. /\ pc[Maintainer] = "put" /\ NotifyTypeOK' /\ left >= 1
      /\ UNCHANGED <<active, created, alive, left, drops, sweeps>>
  BY InvFacts, NotifyFacts DEF Put, conns, locals, Expanding
<1>2. CASE Full
  BY <1>1, <1>2, MaintainQuiet, InvFacts DEF Put, MaintainerLabels, Holding, Sweeping
<1>3. CASE ~Full
  BY <1>1, <1>3, PushKeeps, ProcFacts DEF Put, MaintainerLabels, Occupied, Holding, Sweeping
<1> QED
  BY <1>2, <1>3

LEMMA NotifyPutKeeps == ASSUME Inv, NotifyPut PROVE Inv'
<1>1. /\ pc[Maintainer] = "notify" /\ NotifyTypeOK'
      /\ UNCHANGED <<queue, active, created, alive, at, drops, sweeps>>
  BY InvFacts, NotifyFacts DEF NotifyPut, conns
<1>2. PICK l \in {"reserve", "idle"} :
          /\ Goto(Maintainer, l) /\ left' \in Nat
          /\ l \in Expanding => left' >= 1
  BY <1>1, AfterExpansion DEF NotifyPut, Expanding
<1> QED
  BY <1>1, <1>2, MaintainQuiet, InvFacts DEF MaintainerLabels, Holding, Sweeping
-----------------------------------------------------------------------------
(***************************************************************************)
(* The invariant, and what it says.                                        *)
(***************************************************************************)
LEMMA InitInv == ASSUME Init PROVE Inv
<1>1. TypeOK
  <2>1. /\ MaxSize \in Nat /\ MaxConns \in Nat /\ MaxSweeps \in Nat
        /\ CountRange \in Nat /\ CountRange > 0
    BY ReuseAssumption
  <2>2. queue \in Seq(Conns) /\ Len(queue) = 0
    BY DEF Init
  <2>3. active = 0 /\ created = 0 /\ alive = {} /\ left = 0 /\ drops = {} /\ sweeps = 0
    BY DEF Init
  <2>4. pc \in [Procs -> TaskLabels \cup MaintainerLabels] /\ at \in [Procs -> 0 .. MaxConns]
    BY <2>1 DEF Init, TaskLabels, MaintainerLabels
  <2>5. NotifyTypeOK
    BY DEF Init, NotifyInit, NotifyTypeOK
  <2> QED
    BY <2>1, <2>2, <2>3, <2>4, <2>5 DEF TypeOK
<1>2. PlaceInv
  <2>1. \A p \in Procs : Placed(p, pc[p], at[p])
    BY ProcFacts DEF Init, Placed, TaskLabels, MaintainerLabels, Holding
  <2> QED
    BY <2>1, ProcFacts DEF Init, PlaceInv, Expanding, Sweeping
<1>3. HomeInv
  BY DEF Init, HomeInv
<1>4. CountInv
  <2>1. Occupants = {}
    BY DEF Init, Occupants, Occupied, Holding
  <2>2. IsFiniteSet(Occupants) /\ Cardinality(Occupants) = 0
    BY <2>1, FS_EmptySet
  <2>3. Size = 0 /\ active = 0 /\ pc[Maintainer] # "recount"
    BY <2>2, ProcFacts DEF Init, Size
  <2> QED
    BY <2>2, <2>3, ReuseAssumption DEF CountInv
<1> QED
  BY <1>1, <1>2, <1>3, <1>4 DEF Inv

LEMMA StutterKeeps == ASSUME Inv, UNCHANGED vars PROVE Inv'
BY DEF vars, conns, locals, notify, Inv, TypeOK, NotifyTypeOK, PlaceInv, HomeInv,
       CountInv, Size, Occupants

LEMMA NextKeeps == ASSUME Inv, Next PROVE Inv'
<1>1. ASSUME NEW t \in Tasks, Get(t) \/ Use(t) PROVE Inv'
  BY <1>1, PopKeeps, BorrowKeeps, DiscardDeadKeeps, RegisterKeeps, WaitKeeps,
     EndUseKeeps, ReleaseKeeps, NotifyReleasedKeeps DEF Get, Use
<1>2. ASSUME NEW p \in Procs,
             Reserve(p) \/ Connected(p) \/ ConnectFailed(p) \/ Discard(p)
      PROVE  Inv'
  BY <1>2, ReserveKeeps, ConnectedKeeps, ConnectFailedKeeps, DiscardKeeps
<1>3. ASSUME Maintain PROVE Inv'
  BY <1>3, SweepStartKeeps, SweepPopKeeps, JudgeKeeps, PutBackKeeps, OverflowKeeps,
     TopUpKeeps, SpareKeeps, RecountKeeps, CloseDroppedKeeps, LackKeeps, ExpandKeeps,
     PutKeeps, NotifyPutKeeps DEF Maintain
<1>4. ASSUME NEW c \in Conns, Die(c) PROVE Inv'
  BY <1>4, DieKeeps
<1> QED
  BY <1>1, <1>2, <1>3, <1>4 DEF Next

\* The invariant the properties follow from holds in every state.
THEOREM Invariant == Spec => []Inv
<1>1. Init => Inv
  BY InitInv
<1>2. Inv /\ [Next]_vars => Inv'
  BY NextKeeps, StutterKeeps
<1> QED
  BY <1>1, <1>2, PTL DEF Spec

\* Every variable of the borrowing pool keeps its type: active_count in
\* particular stays a usize, and the queue within max_size.
THEOREM PoolTypes == Spec => []TypeOK
<1>1. Inv => TypeOK
  BY DEF Inv
<1> QED
  BY Invariant, <1>1, PTL

LEMMA PlacesFacts ==
    ASSUME Inv, NEW c \in Conns
    PROVE  /\ Cardinality({i \in 1 .. Len(queue) : queue[i] = c})
                = IF \E i \in 1 .. Len(queue) : queue[i] = c THEN 1 ELSE 0
           /\ Cardinality(Holders(c)) = IF \E p \in Procs : at[p] = c THEN 1 ELSE 0
<1>1. Cardinality({i \in 1 .. Len(queue) : queue[i] = c})
        = IF \E i \in 1 .. Len(queue) : queue[i] = c THEN 1 ELSE 0
  <2>1. CASE \E i \in 1 .. Len(queue) : queue[i] = c
    <3>1. PICK i \in 1 .. Len(queue) : queue[i] = c
      BY <2>1
    <3>2. {k \in 1 .. Len(queue) : queue[k] = c} = {i}
      BY <3>1 DEF Inv, HomeInv
    <3> QED
      BY <2>1, <3>2, FS_Singleton
  <2>2. CASE ~ \E i \in 1 .. Len(queue) : queue[i] = c
    <3>1. {k \in 1 .. Len(queue) : queue[k] = c} = {}
      BY <2>2
    <3> QED
      BY <2>2, <3>1, FS_EmptySet
  <2> QED
    BY <2>1, <2>2
<1>2. Cardinality(Holders(c)) = IF \E p \in Procs : at[p] = c THEN 1 ELSE 0
  <2>1. CASE \E p \in Procs : at[p] = c
    <3>1. PICK p \in Procs : at[p] = c
      BY <2>1
    <3>2. c # 0
      BY DEF Conns
    <3>3. Holders(c) = {p}
      BY <3>1, <3>2 DEF Inv, HomeInv, Holders
    <3> QED
      BY <2>1, <3>3, FS_Singleton
  <2>2. CASE ~ \E p \in Procs : at[p] = c
    <3>1. Holders(c) = {}
      BY <2>2 DEF Holders
    <3> QED
      BY <2>2, <3>1, FS_EmptySet
  <2> QED
    BY <2>1, <2>2
<1> QED
  BY <1>1, <1>2

\* get never hands one connection to two queries, and no open connection falls
\* out of the pool: each is queued once, or held by one thread, or in drop_vec.
THEOREM OneUserPerConnection == Spec => []OnePlace
<1>1. ASSUME Inv PROVE OnePlace
  <2>1. ASSUME NEW c \in Conns
        PROVE  LET places == Cardinality({i \in 1 .. Len(queue) : queue[i] = c})
                             + Cardinality(Holders(c)) + (IF c \in drops THEN 1 ELSE 0)
               IN  places <= 1 /\ (c \in alive => places = 1)
    <3>1. /\ ~ ((\E i \in 1 .. Len(queue) : queue[i] = c) /\ \E p \in Procs : at[p] = c)
          /\ ~ ((\E i \in 1 .. Len(queue) : queue[i] = c) /\ c \in drops)
          /\ ~ ((\E p \in Procs : at[p] = c) /\ c \in drops)
          /\ c \in alive => \/ c \in drops
                            \/ \E p \in Procs : at[p] = c
                            \/ \E i \in 1 .. Len(queue) : queue[i] = c
      BY <1>1 DEF Inv, HomeInv
    <3> QED
      BY <1>1, <3>1, PlacesFacts
  <2> QED
    BY <1>1, <2>1 DEF OnePlace, Inv
<1> QED
  BY Invariant, <1>1, PTL

LEMMA OccupantsAre ==
    ASSUME Inv
    PROVE  Occupants = {p \in Procs : at[p] # 0 \/ pc[p] = "connect"}
BY InvFacts DEF Occupants, Occupied

\* active_count is the number of connections queued or held and of places
\* reserved, however often the window of maintenance wrapped it below zero.
THEOREM CountIsExact == Spec => []ActiveExact
<1>1. ASSUME Inv PROVE ActiveExact
  <2>1. Size = Len(queue) + Cardinality({p \in Procs : at[p] # 0 \/ pc[p] = "connect"})
    BY <1>1, OccupantsAre DEF Size
  <2>2. Size \in Nat
    BY <1>1, FS_CardinalityType, InvFacts DEF Size, Inv, CountInv
  <2>3. MaxSize \in Nat /\ CountRange \in Nat /\ CountRange > MaxSize + 1 /\ CountRange > 1
    BY ReuseAssumption
  <2>4. \A a \in 0 .. CountRange - 1 :
            /\ (a + 0) % CountRange = a
            /\ (a + 1) % CountRange = IF a = CountRange - 1 THEN 0 ELSE a + 1
    <3>1. \A a \in 0 .. CountRange - 1 : a + 0 = a
      BY <2>3
    <3>2. \A a \in 0 .. CountRange - 1 :
              /\ a % CountRange = a
              /\ (a + 1) % CountRange = IF a = CountRange - 1 THEN 0 ELSE a + 1
      BY <2>3, WrapFacts
    <3> QED
      BY <3>1, <3>2
  <2>5. active \in 0 .. CountRange - 1 /\ Size <= MaxSize + 1
    BY <1>1 DEF Inv, TypeOK, CountInv
  <2>6. CASE pc[Maintainer] = "recount"
    <3>1. active = IF Size = 0 THEN CountRange - 1 ELSE Size - 1
      BY <1>1, <2>6 DEF Inv, CountInv
    <3>2. (active + 1) % CountRange = Size
      BY <2>2, <2>3, <2>4, <2>5, <3>1
    <3> QED
      BY <2>1, <2>6, <3>2 DEF ActiveExact
  <2>7. CASE pc[Maintainer] # "recount"
    <3>1. active = Size
      BY <1>1, <2>7 DEF Inv, CountInv
    <3>2. (active + 0) % CountRange = Size
      BY <2>4, <2>5, <3>1
    <3> QED
      BY <2>1, <2>7, <3>2 DEF ActiveExact
  <2> QED
    BY <2>6, <2>7
<1> QED
  BY Invariant, <1>1, PTL

\* The open connections keep to max_size, but for the one that maintenance may
\* put back over a place that a query has taken.
THEOREM PoolKeepsItsSize == Spec => []WithinMaxSize
<1>1. ASSUME Inv PROVE WithinMaxSize
  <2> DEFINE Lent == {p \in Procs : at[p] # 0}
             f == [p \in Lent |-> at[p]]
             g == [i \in 1 .. Len(queue) |-> queue[i]]
             InHand == {at[p] : p \in Lent}
             InQueue == {queue[i] : i \in 1 .. Len(queue)}
  <2>1. alive \ drops \subseteq InHand \cup InQueue
    <3>1. \A c \in alive : c # 0
      BY <1>1 DEF Inv, TypeOK, Conns
    <3> QED
      BY <1>1, <3>1 DEF Inv, HomeInv
  <2>2. Lent \subseteq Occupants
    BY <1>1, OccupantsAre
  <2>3. f \in Surjection(Lent, InHand) /\ g \in Surjection(1 .. Len(queue), InQueue)
    BY DEF Surjection
  <2>4. IsFiniteSet(Occupants) /\ Cardinality(Occupants) \in Nat /\ Len(queue) \in Nat
    BY <1>1, FS_CardinalityType, InvFacts DEF Inv, CountInv
  <2>5. IsFiniteSet(1 .. Len(queue)) /\ Cardinality(1 .. Len(queue)) = Len(queue)
    <3>1. 1 \in Int /\ Len(queue) \in Int
      BY <2>4
    <3>2. /\ IsFiniteSet(1 .. Len(queue))
          /\ Cardinality(1 .. Len(queue)) = IF 1 > Len(queue) THEN 0 ELSE Len(queue) - 1 + 1
      BY <3>1, FS_Interval
    <3> QED
      BY <2>4, <3>2
  <2> HIDE DEF f, g, Lent, InHand, InQueue
  <2>6. IsFiniteSet(Lent) /\ Cardinality(Lent) <= Cardinality(Occupants)
        /\ Cardinality(Lent) \in Nat
    BY <2>2, <2>4, FS_Subset, FS_CardinalityType
  <2>7. IsFiniteSet(InHand) /\ Cardinality(InHand) <= Cardinality(Lent)
        /\ Cardinality(InHand) \in Nat
    BY <2>3, <2>6, FS_Surjection, FS_CardinalityType
  <2>8. IsFiniteSet(InQueue) /\ Cardinality(InQueue) <= Len(queue)
        /\ Cardinality(InQueue) \in Nat
    BY <2>3, <2>5, FS_Surjection, FS_CardinalityType
  <2>9. /\ IsFiniteSet(InHand \cup InQueue)
        /\ Cardinality(InHand \cup InQueue) =
              Cardinality(InHand) + Cardinality(InQueue) - Cardinality(InHand \cap InQueue)
    BY <2>7, <2>8, FS_Union
  <2>10. Cardinality(InHand \cap InQueue) \in Nat
    BY <2>7, FS_Subset, FS_CardinalityType
  <2>11. /\ Cardinality(alive \ drops) <= Cardinality(InHand \cup InQueue)
         /\ Cardinality(alive \ drops) \in Nat
    BY <2>1, <2>9, FS_Subset, FS_CardinalityType
  <2>12. Cardinality(alive \ drops) <= Size
    BY <2>4, <2>6, <2>7, <2>8, <2>9, <2>10, <2>11 DEF Size
  <2>13. /\ Size \in Nat /\ Size <= MaxSize + 1 /\ MaxSize \in Nat
         /\ sweeps = 0 => Size <= MaxSize
    BY <1>1, <2>4, InvFacts DEF Inv, CountInv, Size
  <2> QED
    BY <2>11, <2>12, <2>13 DEF WithinMaxSize
<1> QED
  BY Invariant, <1>1, PTL
-----------------------------------------------------------------------------
(***************************************************************************)
(* No waiter is stranded by queries.  Whenever a connection is queued and  *)
(* somebody waits un-notified, somebody is awake: will look at the queue,  *)
(* or has something in hand whose end notifies.  A waiter parks only after *)
(* it has seen the pool full, and what frees a place wakes all of them.    *)
(***************************************************************************)
Waiters == Waiting(wait)

\* The places where no registration is held.
Unregistered == {"idle", "enable", "borrowed", "release", "notify", "discard"}

Awake(p) ==
    \/ pc[p] \in {"get", "check", "connect", "borrowed", "release", "notify",
                  "discard", "put"}
    \/ p \in Tasks /\ wait[p] = "one"
    \/ p \in Tasks /\ wait[p] = "none" /\ pc[p] \in {"reserve", "enable"}

PermitInv == permit => Waiters = {}
WaitInv == \A t \in Tasks : pc[t] \in Unregistered => wait[t] = "none"
FullInv == sweeps = 0 /\ (\E t \in Tasks : Parked(t)) => active >= MaxSize
QueueInv == sweeps = 0 /\ Waiters # {} /\ queue # <<>> => \E p \in Procs : Awake(p)

WakeInv == PermitInv /\ WaitInv /\ FullInv /\ QueueInv

\* Registrations but p's stay, or are chosen by a notify_one.
Gently(p) == \A u \in Tasks \ {p} :
    wait'[u] = wait[u] \/ (wait[u] = "waiting" /\ wait'[u] = "one")

LEMMA NotifyOneEffect ==
    ASSUME NEW w \in [Tasks -> {"none", "waiting", "one", "woken"}], NotifyOne(w),
           permit => Waiting(w) = {}
    PROVE  /\ \A u \in Tasks : wait'[u] = w[u] \/ (w[u] = "waiting" /\ wait'[u] = "one")
           /\ permit' => Waiters' = {}
           /\ Waiters' # {} => \E u \in Tasks : wait'[u] = "one"
<1>1. CASE Waiting(w) = {}
  BY <1>1 DEF NotifyOne, Waiters, Waiting
<1>2. CASE Waiting(w) # {}
  <2>1. PICK t \in Waiting(w) : wait' = [w EXCEPT ![t] = "one"] /\ permit' = permit
    BY <1>2 DEF NotifyOne
  <2> QED
    BY <1>2, <2>1 DEF Waiting
<1> QED
  BY <1>1, <1>2

LEMMA DropEffect ==
    ASSUME NotifyTypeOK, PermitInv, NEW t \in Tasks, DropWaiter(t)
    PROVE  /\ Gently(t) /\ wait'[t] = "none"
           /\ permit' => Waiters' = {}
           /\ wait[t] = "one" /\ Waiters' # {} => \E u \in Tasks : wait'[u] = "one"
<1> DEFINE w == [wait EXCEPT ![t] = "none"]
<1>1. /\ w \in [Tasks -> {"none", "waiting", "one", "woken"}] /\ w[t] = "none"
      /\ \A u \in Tasks \ {t} : w[u] = wait[u]
      /\ permit => Waiting(w) = {}
  BY DEF NotifyTypeOK, PermitInv, Waiters, Waiting
<1>2. CASE wait[t] = "one"
  <2>1. NotifyOne(w)
    BY <1>2 DEF DropWaiter
  <2> HIDE DEF w
  <2> QED
    BY <1>1, <2>1, NotifyOneEffect DEF Gently
<1>3. CASE wait[t] # "one"
  <2>1. wait' = w /\ permit' = permit
    BY <1>3 DEF DropWaiter
  <2> QED
    BY <1>1, <1>3, <2>1 DEF Gently, Waiters
<1> QED
  BY <1>2, <1>3

LEMMA EnableEffect ==
    ASSUME NotifyTypeOK, PermitInv, NEW t \in Tasks, Enable(t) \/ Notified(t)
    PROVE  Gently(t) /\ (permit' => Waiters' = {})
BY DEF NotifyTypeOK, PermitInv, Waiters, Waiting, Enable, Notified, Gently

\* A step of p that wakes nobody but by a notify_one.
LEMMA GentleStep ==
    ASSUME Inv, WakeInv, NEW p \in Procs, NEW l, pc' = [pc EXCEPT ![p] = l],
           Gently(p), permit' => Waiters' = {},
           p \in Tasks /\ l \in Unregistered => wait'[p] = "none",
           sweeps' = 0 => sweeps = 0,
           sweeps = 0 /\ p \in Tasks /\ Parked(p)' => active' >= MaxSize,
           active >= MaxSize => active' >= MaxSize,
           sweeps = 0 /\ Waiters' # {} /\ queue' # <<>> =>
                \/ Awake(p)'
                \/ \E u \in Tasks : wait'[u] = "one"
                \/ ~Awake(p) /\ Waiters # {} /\ queue # <<>>
    PROVE  WakeInv'
<1>1. \A q \in Procs : pc'[q] = IF q = p THEN l ELSE pc[q]
  BY DEF Inv, TypeOK
<1>2. Tasks \subseteq Procs
  BY DEF Procs
<1>3. WaitInv'
  BY <1>1, <1>2 DEF WakeInv, WaitInv, Gently, Unregistered
<1>4. FullInv'
  <2>1. ASSUME sweeps = 0, NEW t \in Tasks, Parked(t)', t # p PROVE Parked(t)
    BY <1>1, <1>2, <2>1 DEF Parked, Gently
  <2> QED
    BY <2>1 DEF WakeInv, FullInv
<1>5. QueueInv'
  <2>1. ASSUME NEW q \in Procs, Awake(q), q # p PROVE Awake(q)'
    BY <1>1, <2>1 DEF Awake, Gently
  <2>2. \A u \in Tasks : wait'[u] = "one" => Awake(u)' /\ u \in Procs
    BY <1>2 DEF Awake
  <2> QED
    BY <2>1, <2>2 DEF WakeInv, QueueInv
<1> QED
  BY <1>3, <1>4, <1>5 DEF WakeInv, PermitInv

\* A step of p that leaves nobody waiting un-notified.
LEMMA WakingStep ==
    ASSUME Inv, WakeInv, NEW p \in Procs, NEW l, pc' = [pc EXCEPT ![p] = l],
           Waiters' = {},
           \A u \in Tasks \ {p} : wait[u] = "none" => wait'[u] = "none",
           p \in Tasks /\ l \in Unregistered => wait'[p] = "none"
    PROVE  WakeInv'
<1>1. \A t \in Tasks : ~Parked(t)'
  BY DEF Waiters, Waiting, Parked
<1>2. WaitInv'
  BY DEF Inv, TypeOK, Procs, WakeInv, WaitInv
<1> QED
  BY <1>1, <1>2 DEF WakeInv, PermitInv, FullInv, QueueInv

LEMMA BroadcastEffect ==
    ASSUME NotifyTypeOK, NotifyWaiters
    PROVE  /\ Waiters' = {}
           /\ \A u \in Tasks : wait[u] = "none" => wait'[u] = "none"
BY DEF NotifyTypeOK, NotifyWaiters, Waiters, Waiting

LEMMA WakeFacts ==
    ASSUME Inv, WakeInv
    PROVE  /\ NotifyTypeOK /\ PermitInv /\ WaitInv
           /\ \A t \in Tasks : t \in Procs /\ t # Maintainer /\ pc[t] \in TaskLabels
           /\ \A p \in Procs \ Tasks : p = Maintainer
           /\ Maintainer \in Procs /\ Maintainer \notin Tasks
           /\ active \in Nat /\ MaxSize \in Nat
           /\ UNCHANGED notify => /\ permit' => Waiters' = {}
                                  /\ Waiters' = Waiters
                                  /\ \A p : Gently(p)
BY ProcFacts, ReuseAssumption
DEF Inv, TypeOK, PlaceInv, Placed, WakeInv, PermitInv, Waiters, Waiting, Gently, notify

LEMMA PopWakes == ASSUME Inv, WakeInv, NEW t \in Tasks, Pop(t) PROVE WakeInv'
<1> DEFINE l == IF queue = <<>> THEN "reserve" ELSE "check"
<1>1. pc[t] \in {"idle", "get"} /\ pc' = [pc EXCEPT ![t] = l]
      /\ UNCHANGED notify /\ active' = active /\ sweeps' = sweeps
      /\ (queue = <<>> => queue' = <<>>)
  BY DEF Pop, Goto, locals
<1>2. l \notin Unregistered /\ ~Parked(t)'
  BY <1>1, WakeFacts DEF Unregistered, Parked, Inv, TypeOK
<1>3. queue # <<>> => Awake(t)'
  BY <1>1, WakeFacts DEF Awake, Inv, TypeOK
<1> HIDE DEF l
<1> QED
  BY <1>1, <1>2, <1>3, WakeFacts, GentleStep

LEMMA BorrowWakes == ASSUME Inv, WakeInv, NEW t \in Tasks, Borrow(t) PROVE WakeInv'
<1>1. pc' = [pc EXCEPT ![t] = "borrowed"] /\ DropWaiter(t)
      /\ active' = active /\ sweeps' = sweeps
  BY DEF Borrow, Goto, locals
<1>2. Gently(t) /\ wait'[t] = "none" /\ (permit' => Waiters' = {})
  BY <1>1, WakeFacts, DropEffect
<1>3. Awake(t)' /\ ~Parked(t)'
  BY <1>1, WakeFacts DEF Awake, Parked, Inv, TypeOK
<1> QED
  BY <1>1, <1>2, <1>3, WakeFacts, GentleStep

LEMMA DiscardDeadWakes == ASSUME Inv, WakeInv, NEW t \in Tasks, DiscardDead(t) PROVE WakeInv'
<1> DEFINE l == IF wait[t] = "none" THEN "reserve" ELSE "get"
<1>1. pc' = [pc EXCEPT ![t] = l] /\ l \notin Unregistered
  BY DEF DiscardDead, Goto, Unregistered
<1>2. wait' = [u \in Tasks |-> IF u = t THEN "none"
                               ELSE IF wait[u] = "waiting" THEN "woken" ELSE wait[u]]
  BY DEF DiscardDead
<1>3. Waiters' = {} /\ \A u \in Tasks \ {t} : wait[u] = "none" => wait'[u] = "none"
  BY <1>2 DEF Waiters, Waiting
<1> HIDE DEF l
<1> QED
  BY <1>1, <1>3, WakeFacts, WakingStep

LEMMA ReserveWakes == ASSUME Inv, WakeInv, NEW p \in Procs, Reserve(p) PROVE WakeInv'
<1> DEFINE l == IF active < MaxSize THEN "connect"
                ELSE IF p = Maintainer THEN "idle"
                ELSE IF wait[p] = "none" THEN "enable" ELSE "park"
<1>1. pc[p] = "reserve" /\ pc' = [pc EXCEPT ![p] = l] /\ UNCHANGED notify
      /\ queue' = queue /\ sweeps' = sweeps
      /\ active' = IF active < MaxSize THEN active + 1 ELSE active
  BY DEF Reserve, Goto, locals
<1>2. active >= MaxSize => active' >= MaxSize
  BY <1>1, WakeFacts
<1>3. pc'[p] = l /\ (l = "park" => active' >= MaxSize)
  BY <1>1, <1>2, WakeFacts DEF Inv, TypeOK
<1>4. p \in Tasks /\ l \in Unregistered => wait'[p] = "none"
  BY <1>1, WakeFacts DEF Unregistered, notify
<1>5. Awake(p) => Awake(p)'
  BY <1>1, <1>3, WakeFacts DEF Awake, notify
<1>6. p \in Tasks /\ Parked(p)' => active' >= MaxSize
  BY <1>3 DEF Parked
<1> HIDE DEF l
<1> QED
  BY <1>1, <1>2, <1>4, <1>5, <1>6, WakeFacts, GentleStep

LEMMA RegisterWakes ==
    ASSUME Inv, WakeInv, NEW t \in Tasks, Register(t) \/ Wake(t)
    PROVE  WakeInv'
<1>1. pc' = [pc EXCEPT ![t] = "get"] /\ (Enable(t) \/ Notified(t))
      /\ queue' = queue /\ active' = active /\ sweeps' = sweeps
  BY DEF Register, Wake, Goto, locals
<1>2. Gently(t) /\ (permit' => Waiters' = {})
  BY <1>1, WakeFacts, EnableEffect
<1>3. Awake(t)' /\ ~Parked(t)'
  BY <1>1, WakeFacts DEF Awake, Parked, Inv, TypeOK
<1> QED
  BY <1>1, <1>2, <1>3, WakeFacts, GentleStep DEF Unregistered

LEMMA ConnectedWakes == ASSUME Inv, WakeInv, NEW p \in Procs, Connected(p) PROVE WakeInv'
<1> DEFINE l == IF p = Maintainer THEN "put" ELSE "borrowed"
<1>1. pc' = [pc EXCEPT ![p] = l] /\ queue' = queue /\ active' = active /\ sweeps' = sweeps
  BY DEF Connected, Goto, locals
<1>2. /\ Gently(p) /\ (permit' => Waiters' = {})
      /\ p \in Tasks => wait'[p] = "none"
  <2>1. CASE p = Maintainer
    BY <2>1, WakeFacts DEF Connected
  <2>2. CASE p # Maintainer
    <3>1. p \in Tasks /\ DropWaiter(p)
      BY <2>2, WakeFacts DEF Connected
    <3> QED
      BY <3>1, WakeFacts, DropEffect
  <2> QED
    BY <2>1, <2>2
<1>3. Awake(p)' /\ ~Parked(p)'
  BY <1>1, WakeFacts DEF Awake, Parked, Inv, TypeOK
<1> HIDE DEF l
<1> QED
  BY <1>1, <1>2, <1>3, WakeFacts, GentleStep

\* What frees a place, of a failed attempt or of a connection, wakes all.
LEMMA FreeWakes ==
    ASSUME Inv, WakeInv, NEW p \in Procs, ConnectFailed(p) \/ Discard(p)
    PROVE  WakeInv'
<1>1. PICK l : pc' = [pc EXCEPT ![p] = l] /\ (p # Maintainer => l \in {"backoff", "idle"})
               /\ (p # Maintainer /\ l = "idle" => pc[p] = "discard")
  BY DEF ConnectFailed, Discard, NextExpansion, Goto
<1>2. Waiters' = {} /\ \A u \in Tasks : wait[u] = "none" => wait'[u] = "none"
  BY WakeFacts, BroadcastEffect DEF ConnectFailed, Discard
<1>3. p \in Tasks /\ l \in Unregistered => wait'[p] = "none"
  BY <1>1, <1>2, WakeFacts DEF WaitInv, Unregistered
<1> QED
  BY <1>1, <1>2, <1>3, WakingStep

LEMMA DropWakes ==
    ASSUME Inv, WakeInv, NEW t \in Tasks, Retry(t) \/ GiveUp(t)
    PROVE  WakeInv'
<1> DEFINE l == IF Retry(t) THEN "get" ELSE "idle"
<1>1. pc' = [pc EXCEPT ![t] = l] /\ DropWaiter(t) /\ pc[t] \in {"park", "backoff"}
      /\ queue' = queue /\ active' = active /\ sweeps' = sweeps
  BY DEF Retry, GiveUp, Goto, locals
<1>2. /\ Gently(t) /\ wait'[t] = "none"
      /\ permit' => Waiters' = {}
      /\ wait[t] = "one" /\ Waiters' # {} => \E u \in Tasks : wait'[u] = "one"
  BY <1>1, WakeFacts, DropEffect
<1>3. wait[t] # "one" => ~Awake(t)
  BY <1>1, WakeFacts DEF Awake
<1>4. Waiters' \subseteq Waiters /\ ~Parked(t)'
  BY <1>2 DEF Waiters, Waiting, Gently, Parked
<1> HIDE DEF l
<1> QED
  BY <1>1, <1>2, <1>3, <1>4, WakeFacts, GentleStep

\* The end of a query and the start of its release keep its task awake.
LEMMA UseWakes ==
    ASSUME Inv, WakeInv, NEW t \in Tasks, Completed(t) \/ Abandoned(t) \/ Release(t)
    PROVE  WakeInv'
<1>1. PICK l \in {"release", "discard", "notify"} : pc' = [pc EXCEPT ![t] = l]
  BY DEF Completed, Abandoned, Release, Goto
<1>2. UNCHANGED notify /\ active' = active /\ sweeps' = sweeps
      /\ pc[t] \in {"borrowed", "release"}
  BY DEF Completed, Abandoned, Release, locals
<1>3. wait'[t] = "none"
  BY <1>2, WakeFacts DEF WaitInv, Unregistered, notify
<1>4. Awake(t)' /\ ~Parked(t)'
  BY <1>1, WakeFacts DEF Awake, Parked, Inv, TypeOK
<1> QED
  BY <1>1, <1>2, <1>3, <1>4, WakeFacts, GentleStep

LEMMA NotifyReleasedWakes ==
    ASSUME Inv, WakeInv, NEW t \in Tasks, NotifyReleased(t)
    PROVE  WakeInv'
<1>1. pc' = [pc EXCEPT ![t] = "idle"] /\ NotifyOne(wait) /\ pc[t] = "notify"
      /\ active' = active /\ sweeps' = sweeps
  BY DEF NotifyReleased, Goto, locals
<1>2. wait[t] = "none"
  BY <1>1, WakeFacts DEF WaitInv, Unregistered
<1>3. /\ \A u \in Tasks : wait'[u] = wait[u] \/ (wait[u] = "waiting" /\ wait'[u] = "one")
      /\ permit' => Waiters' = {}
      /\ Waiters' # {} => \E u \in Tasks : wait'[u] = "one"
  <2>1. permit => Waiting(wait) = {}
    BY WakeFacts DEF PermitInv, Waiters
  <2> QED
    BY <1>1, <2>1, WakeFacts, NotifyOneEffect DEF NotifyTypeOK
<1>4. Gently(t) /\ wait'[t] = "none" /\ ~Parked(t)'
  BY <1>2, <1>3 DEF Gently, Parked
<1> QED
  BY <1>1, <1>3, <1>4, WakeFacts, GentleStep

LEMMA DieWakes == ASSUME Inv, WakeInv, NEW c \in Conns, Die(c) PROVE WakeInv'
<1>1. UNCHANGED <<queue, active, wait, permit, pc, sweeps>>
  BY DEF Die, notify, locals
<1> QED
  BY <1>1 DEF WakeInv, PermitInv, WaitInv, FullInv, QueueInv, Waiters, Parked, Awake

\* Once maintenance looks through the queue nothing is promised any more.
LEMMA SweepWakes ==
    ASSUME Inv, WakeInv,
           \/ MaintainStart \/ SweepPop \/ Judge \/ PutBack \/ Overflow \/ TopUp
           \/ Spare \/ Recount \/ CloseDropped \/ Lack
    PROVE  WakeInv'
<1>1. UNCHANGED notify /\ sweeps' # 0 /\ \E l : pc' = [pc EXCEPT ![Maintainer] = l]
  <2>1. CASE MaintainStart
    <3>1. sweeps' # 0
      BY <2>1, ReuseAssumption DEF MaintainStart, Inv, TypeOK
    <3>2. UNCHANGED notify /\ \E l : pc' = [pc EXCEPT ![Maintainer] = l]
      BY <2>1 DEF MaintainStart, Goto
    <3> QED
      BY <3>1, <3>2
  <2>2. CASE ~MaintainStart
    <3>1. pc[Maintainer] \in Sweeping /\ sweeps' = sweeps
      BY <2>2 DEF SweepPop, Judge, PutBack, Overflow, TopUp, Spare, Recount,
                  CloseDropped, Lack, Sweeping, locals
    <3>2. UNCHANGED notify /\ \E l : pc' = [pc EXCEPT ![Maintainer] = l]
      BY <2>2 DEF SweepPop, Judge, PutBack, Overflow, TopUp, Spare, Recount,
                  CloseDropped, Lack, Goto
    <3> QED
      BY <3>1, <3>2 DEF Inv, PlaceInv
  <2> QED
    BY <2>1, <2>2
<1>2. \A t \in Tasks : pc'[t] = pc[t]
  BY <1>1, WakeFacts
<1> QED
  BY <1>1, <1>2, WakeFacts DEF WakeInv, PermitInv, WaitInv, FullInv, QueueInv, notify

LEMMA ExpandWakes == ASSUME Inv, WakeInv, Expand \/ Put PROVE WakeInv'
<1>1. PICK l : pc' = [pc EXCEPT ![Maintainer] = l]
  BY DEF Expand, Put, Goto
<1>2. UNCHANGED notify /\ active' = active /\ sweeps' = sweeps
  BY DEF Expand, Put, locals
<1>3. CASE Expand
  <2>1. ~Awake(Maintainer) /\ queue' = queue
    BY <1>3, WakeFacts DEF Expand, Awake
  <2> QED
    BY <1>1, <1>2, <2>1, WakeFacts, GentleStep
<1>4. CASE Put
  <2>1. Awake(Maintainer)'
    BY <1>4, WakeFacts DEF Put, Goto, Awake, Inv, TypeOK
  <2> QED
    BY <1>1, <1>2, <2>1, WakeFacts, GentleStep
<1> QED
  BY <1>3, <1>4

LEMMA NotifyPutWakes == ASSUME Inv, WakeInv, NotifyPut PROVE WakeInv'
<1>1. PICK l : pc' = [pc EXCEPT ![Maintainer] = l]
  BY DEF NotifyPut, NextExpansion, Goto
<1>2. NotifyOne(wait) /\ active' = active /\ sweeps' = sweeps
  BY DEF NotifyPut
<1>3. permit => Waiting(wait) = {}
  BY WakeFacts DEF PermitInv, Waiters
<1>4. /\ Gently(Maintainer) /\ (permit' => Waiters' = {})
      /\ Waiters' # {} => \E u \in Tasks : wait'[u] = "one"
  BY <1>2, <1>3, WakeFacts, NotifyOneEffect DEF NotifyTypeOK, Gently
<1> QED
  BY <1>1, <1>2, <1>4, WakeFacts, GentleStep

LEMMA NextWakes == ASSUME Inv, WakeInv, [Next]_vars PROVE WakeInv'
<1>1. ASSUME NEW t \in Tasks, Get(t) \/ Use(t) PROVE WakeInv'
  BY <1>1, PopWakes, BorrowWakes, DiscardDeadWakes, RegisterWakes, DropWakes,
     UseWakes, NotifyReleasedWakes DEF Get, Use
<1>2. ASSUME NEW p \in Procs, Reserve(p) \/ Connected(p) \/ ConnectFailed(p) \/ Discard(p)
      PROVE  WakeInv'
  BY <1>2, ReserveWakes, ConnectedWakes, FreeWakes
<1>3. ASSUME Maintain PROVE WakeInv'
  BY <1>3, SweepWakes, ExpandWakes, NotifyPutWakes DEF Maintain
<1>4. ASSUME NEW c \in Conns, Die(c) PROVE WakeInv'
  BY <1>4, DieWakes
<1>5. CASE UNCHANGED vars
  BY <1>5 DEF vars, WakeInv, PermitInv, WaitInv, FullInv, QueueInv, Waiters, Parked, Awake
<1> QED
  BY <1>1, <1>2, <1>3, <1>4, <1>5 DEF Next

LEMMA InitWakes == ASSUME Init PROVE WakeInv
<1>1. Waiters = {} /\ permit = FALSE /\ \A t \in Tasks : wait[t] = "none" /\ ~Parked(t)
  BY DEF Init, NotifyInit, Waiters, Waiting, Parked
<1> QED
  BY <1>1 DEF WakeInv, PermitInv, WaitInv, FullInv, QueueInv

\* As long as only queries use the pool, a parked and un-notified one never finds
\* all the others idle or parked like itself: no release or close is lost on it,
\* whatever order the look at the pool, the registration and the wake-ups come in.
THEOREM QueriesWakeEachOther == Spec => []QueriesStrandNoWaiter
<1>1. ASSUME Inv, WakeInv PROVE QueriesStrandNoWaiter
  <2> SUFFICES ASSUME sweeps = 0, pc[Maintainer] = "idle", NEW s \in Tasks, Parked(s),
                      \A t \in Tasks : Parked(t) \/ pc[t] = "idle"
               PROVE  FALSE
    BY DEF QueriesStrandNoWaiter
  <2>1. \A p \in Procs : pc[p] \in {"idle", "park"}
    BY <1>1, WakeFacts DEF Parked
  <2>2. Occupants = {}
    BY <2>1 DEF Occupants, Occupied, Holding
  <2>3. \A p \in Procs : ~Awake(p)
    BY <1>1, <2>1, WakeFacts DEF Awake, Parked, WaitInv, Unregistered
  <2>4. queue = <<>>
    BY <1>1, <2>3 DEF WakeInv, QueueInv, Waiters, Waiting, Parked
  <2>5. Size = 0
    BY <2>2, <2>4, FS_EmptySet DEF Size
  <2>6. active = 0
    BY <1>1, <2>5 DEF Inv, CountInv
  <2> QED
    BY <1>1, <2>6, ReuseAssumption DEF WakeInv, FullInv
<1>2. Init => WakeInv
  BY InitWakes
<1>3. Inv /\ WakeInv /\ [Next]_vars => WakeInv'
  BY NextWakes
<1> QED
  BY Invariant, <1>1, <1>2, <1>3, PTL DEF Spec
=============================================================================
