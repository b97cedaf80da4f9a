-------------------------- MODULE ConnectionProofs --------------------------
(***************************************************************************)
(* Machine-checked facts about Connection for any kinds, any number of     *)
(* calls and any ids: type correctness, that no query and no task is left  *)
(* behind by a close, that using_count is exact, and that the connection   *)
(* uses its request map as RequestTable allows.                            *)
(***************************************************************************)
EXTENDS Connection, FiniteSetTheorems, TLAPS

Actors == Calls \cup Tasks \cup {"pool"}

\* Some places are reached by some kinds only: the second look at the flag after
\* queueing by TCP, the next attempt by UDP.
KindInv ==
    \A q \in Calls :
        /\ pc[q] = "retry" => kind = "udp"
        /\ pc[q] = "sent" => kind = "tcp"
        /\ pc[q] \notin {"top", "armed", "select", "draining", "ended"}

\* The queries that have counted themselves in.
Under == {q \in Calls : ~Over(q) /\ pc[q] # "register"}

CountInv == ~Mapped => count = Cardinality(Under)

Registered == {"recheck", "send", "sent", "await"}
Waits(q) == rx[Chan(q)] = "open"
Held(q, table_) == \E id \in Ids : <<Chan(q), id>> \in table_

\* A registered query whose channel is open has an entry, which a close finds
\* when it comes later, and has found when the query went on after its check.
HeldInv ==
    Mapped => \A q \in Calls :
        /\ pc[q] \in Registered /\ Waits(q) => Held(q, entries)
        /\ closed /\ pc[q] \in Registered \ {"recheck"} /\ Waits(q)
               => Held(q, entries \cap due)

\* What a close found and has not yet dropped, its closer is still clearing.
ClearInv == due # {} => \E a \in Actors : pc[a] = "clear"

Inv == TypeOK /\ KindInv /\ CountInv /\ HeldInv /\ ClearInv
-----------------------------------------------------------------------------
\* Every step on the table leaves entries alone, or ends their channels.
TableStep ==
    /\ entries' \subseteq Channels \X Ids
    /\ guard' \in [Channels -> Ids \cup {NoId}]
    /\ rx' \in [Channels -> {"open", "answered", "dropped"}]
    /\ \A c \in Channels : rx'[c] = "open" =>
        /\ rx[c] = "open"
        /\ \A id \in Ids : <<c, id>> \in entries => <<c, id>> \in entries'

LEMMA LeaveFacts ==
    ASSUME TypeOK, NEW c \in Channels, NEW id \in Ids \cup {NoId},
           NEW outcome \in {"answered", "dropped"}, Table!Leave(c, id, outcome)
    PROVE  /\ entries' \subseteq Channels \X Ids
           /\ rx' \in [Channels -> {"open", "answered", "dropped"}]
           /\ \A d \in Channels : rx'[d] = "open" =>
                /\ rx[d] = "open"
                /\ \A i \in Ids : <<d, i>> \in entries => <<d, i>> \in entries'
BY DEF TypeOK, Table!Leave

LEMMA TableFacts ==
    ASSUME TypeOK
    PROVE  /\ UNCHANGED table => TableStep
           /\ \A c \in Channels, id \in Ids : Table!Store(c, id) => TableStep
           /\ \A c \in Channels : Table!StoreFails(c) => TableStep
           /\ \A c \in Channels : Table!Disarm(c) => TableStep
           /\ \A c \in Channels : Table!Remove(c) => TableStep
           /\ \A id \in Ids : Table!Take(id) => TableStep
           /\ Table!ClearOne => TableStep
<1>1. UNCHANGED table => TableStep
  BY DEF TypeOK, TableStep, table
<1>2. ASSUME NEW c \in Channels, NEW id \in Ids, Table!Store(c, id) PROVE TableStep
  BY <1>2 DEF TypeOK, TableStep, Table!Store
<1>3. ASSUME NEW c \in Channels, Table!StoreFails(c) PROVE TableStep
  BY <1>3 DEF TypeOK, TableStep, Table!StoreFails
<1>4. ASSUME NEW c \in Channels, Table!Disarm(c) PROVE TableStep
  BY <1>4 DEF TypeOK, TableStep, Table!Disarm
<1>5. ASSUME NEW c \in Channels, Table!Remove(c) PROVE TableStep
  <2>1. guard[c] \in Ids \cup {NoId} /\ guard' \in [Channels -> Ids \cup {NoId}]
    BY <1>5 DEF TypeOK, Table!Remove
  <2>2. PICK d \in Channels : Table!Leave(d, guard[c], "dropped")
    BY <1>5 DEF Table!Remove
  <2> QED
    BY <2>1, <2>2, LeaveFacts DEF TableStep
<1>6. ASSUME NEW id \in Ids, Table!Take(id) PROVE TableStep
  <2>1. PICK d \in Channels : Table!Leave(d, id, "answered")
    BY <1>6 DEF Table!Take
  <2> QED
    BY <1>6, <2>1, LeaveFacts DEF TableStep, TypeOK, Table!Take
<1>7. ASSUME Table!ClearOne PROVE TableStep
  <2>1. PICK d \in Channels, id \in Ids : Table!Leave(d, id, "dropped")
    BY <1>7 DEF Table!ClearOne
  <2> QED
    BY <1>7, <2>1, LeaveFacts DEF TableStep, TypeOK, Table!ClearOne
<1> QED
  BY <1>1, <1>2, <1>3, <1>4, <1>5, <1>6, <1>7
-----------------------------------------------------------------------------
\* A step of actor a, which is at no place of clear, on an open connection or a
\* closed one, keeps the entries of the queries that wait.
LEMMA HeldStep ==
    ASSUME Inv, TableStep, kind' = kind, UNCHANGED <<closed, due>>,
           NEW a \in Actors, NEW l, pc' = [pc EXCEPT ![a] = l],
           pc[a] = "clear" => l = "clear",
           \A q \in Calls : attempt'[q] # attempt[q] =>
               a = q /\ l \notin Registered,
           a \in Calls /\ l \in Registered =>
               \/ pc[a] \in Registered
               \/ l = "recheck" /\ (Mapped => Held(a, entries)'),
           a \in Calls /\ l \in Registered \ {"recheck"} /\ closed =>
               pc[a] \in Registered \ {"recheck"}
    PROVE  HeldInv' /\ ClearInv'
<1>1. ASSUME Mapped', NEW q \in Calls, pc'[q] \in Registered, Waits(q)'
      PROVE  Held(q, entries)'
  <2>1. CASE attempt'[q] = attempt[q] /\ pc[q] \in Registered
    <3>1. Chan(q) \in Channels /\ Chan(q)' = Chan(q)
      BY <2>1 DEF Inv, TypeOK, Chan, Channels
    <3>2. Waits(q)
      BY <1>1, <3>1 DEF Waits, TableStep
    <3>3. PICK id \in Ids : <<Chan(q), id>> \in entries
      BY <1>1, <2>1, <3>2 DEF Inv, HeldInv, Held, Mapped
    <3> QED
      BY <1>1, <3>1, <3>3 DEF Waits, TableStep, Held
  <2>2. CASE ~(attempt'[q] = attempt[q] /\ pc[q] \in Registered)
    <3>1. q \in Actors /\ q = a /\ l \in Registered /\ pc[q] \notin Registered
      BY <1>1, <2>2 DEF Inv, TypeOK, Actors
    <3> QED
      BY <1>1, <3>1 DEF Mapped
  <2> QED
    BY <2>1, <2>2
<1>2. ASSUME Mapped', NEW q \in Calls, closed', pc'[q] \in Registered \ {"recheck"},
             Waits(q)'
      PROVE  Held(q, entries \cap due)'
  <2>1. attempt'[q] = attempt[q] /\ pc[q] \in Registered \ {"recheck"} /\ closed
    BY <1>2 DEF Inv, TypeOK, Actors, Registered
  <2>2. Chan(q) \in Channels /\ Chan(q)' = Chan(q)
    BY <2>1 DEF Inv, TypeOK, Chan, Channels
  <2>3. Waits(q)
    BY <1>2, <2>2 DEF Waits, TableStep
  <2>4. PICK id \in Ids : <<Chan(q), id>> \in entries \cap due
    BY <1>2, <2>1, <2>3 DEF Inv, HeldInv, Held, Mapped
  <2> QED
    BY <1>2, <2>2, <2>4 DEF Waits, TableStep, Held
<1>3. HeldInv'
  BY <1>1, <1>2 DEF HeldInv
<1>4. ClearInv'
  BY DEF Inv, TypeOK, ClearInv, Actors
<1> QED
  BY <1>3, <1>4
-----------------------------------------------------------------------------
(***************************************************************************)
(* The count.                                                              *)
(***************************************************************************)
Uncounted == {"idle", "register", "ok", "failed"}

\* The place l of actor a, and the count, change together.
Counts(a, l) ==
    \/ count' = count /\ (a \in Calls => (pc[a] \in Uncounted <=> l \in Uncounted))
    \/ count' = count + 1 /\ a \in Calls /\ pc[a] \in Uncounted /\ l \notin Uncounted
    \/ count' = count - 1 /\ a \in Calls /\ pc[a] \notin Uncounted /\ l \in Uncounted

LEMMA CountStep ==
    ASSUME Inv, kind' = kind, NEW a \in Actors, NEW l,
           pc' = [pc EXCEPT ![a] = l],
           IF Mapped THEN count' = count ELSE Counts(a, l)
    PROVE  CountInv' /\ count' \in Nat
<1>1. CASE Mapped
  BY <1>1 DEF Inv, TypeOK, CountInv, Mapped
<1>2. CASE ~Mapped
  <2>1. Under = {q \in Calls : pc[q] \notin Uncounted}
    BY DEF Under, Over, Uncounted
  <2>2. Under' = {q \in Calls : pc'[q] \notin Uncounted}
    BY DEF Under, Over, Uncounted
  <2>3. DOMAIN pc = Actors /\ Calls \subseteq Actors
    BY DEF Inv, TypeOK, Actors
  <2>4. IsFiniteSet(Under) /\ Cardinality(Under) \in Nat
    BY <2>1, ConnectionAssumption, FS_Subset, FS_CardinalityType
  <2>5. count = Cardinality(Under)
    BY <1>2 DEF Inv, CountInv
  <2>6. CASE count' = count /\ (a \in Calls => (pc[a] \in Uncounted <=> l \in Uncounted))
    <3>1. Under' = Under
      BY <2>1, <2>2, <2>3, <2>6
    <3> QED
      BY <2>4, <2>5, <2>6, <3>1 DEF CountInv
  <2>7. CASE count' = count + 1 /\ a \in Calls /\ pc[a] \in Uncounted /\ l \notin Uncounted
    <3>1. Under' = Under \cup {a} /\ a \notin Under
      BY <2>1, <2>2, <2>3, <2>7
    <3> QED
      BY <2>4, <2>5, <2>7, <3>1, FS_AddElement DEF CountInv
  <2>8. CASE count' = count - 1 /\ a \in Calls /\ pc[a] \notin Uncounted /\ l \in Uncounted
    <3>1. Under' = Under \ {a} /\ a \in Under
      BY <2>1, <2>2, <2>3, <2>8
    <3>2. IsFiniteSet(Under') /\ Cardinality(Under') = Cardinality(Under) - 1
      BY <2>4, <3>1, FS_RemoveElement
    <3>3. Cardinality(Under') \in Nat
      BY <3>2, FS_CardinalityType
    <3> QED
      BY <2>4, <2>5, <2>8, <3>2, <3>3 DEF CountInv
  <2> QED
    BY <1>2, <2>6, <2>7, <2>8 DEF Counts
<1> QED
  BY <1>1, <1>2
-----------------------------------------------------------------------------
(***************************************************************************)
(* Steps that leave the flag and the work of a close alone: actor a goes   *)
(* to l.                                                                   *)
(***************************************************************************)
Places == {"idle", "register", "recheck", "send", "sent", "await",
           "retry", "leave", "ok", "failed", "close", "clear",
           "top", "armed", "select", "draining", "ended"}

Step(a, l) ==
    /\ TableStep /\ UNCHANGED <<kind, closed, due>>
    /\ l \in Places /\ pc' = [pc EXCEPT ![a] = l]
    /\ pc[a] = "clear" => l = "clear"
    /\ fut' \in [Tasks -> {"none", "live", "woken"}] /\ link' \in BOOLEAN
    /\ queue' \subseteq Calls /\ writing' \in Calls \cup {NoCall}
    /\ IF Mapped THEN count' = count ELSE Counts(a, l)
    /\ attempt' \in [Calls -> {1, 2}]
    /\ \A q \in Calls : attempt'[q] # attempt[q] => a = q /\ l \notin Registered
    /\ a \in Calls =>
        /\ l = "retry" => kind = "udp"
        /\ l = "sent" => kind = "tcp"
        /\ l \notin {"top", "armed", "select", "draining", "ended"}
        /\ l \in Registered => \/ pc[a] \in Registered
                               \/ l = "recheck" /\ (Mapped => Held(a, entries)')
        /\ l \in Registered \ {"recheck"} /\ closed =>
               pc[a] \in Registered \ {"recheck"}

LEMMA StepKeeps ==
    ASSUME Inv, NEW a \in Actors, NEW l, Step(a, l)
    PROVE  Inv'
<1>1. HeldInv' /\ ClearInv'
  <2>1. /\ TableStep /\ kind' = kind /\ UNCHANGED <<closed, due>>
        /\ pc' = [pc EXCEPT ![a] = l] /\ (pc[a] = "clear" => l = "clear")
        /\ \A q \in Calls : attempt'[q] # attempt[q] => a = q /\ l \notin Registered
    BY DEF Step
  <2>2. a \in Calls /\ l \in Registered =>
               \/ pc[a] \in Registered
               \/ l = "recheck" /\ (Mapped => Held(a, entries)')
    BY DEF Step
  <2>3. a \in Calls /\ l \in Registered \ {"recheck"} /\ closed =>
               pc[a] \in Registered \ {"recheck"}
    BY DEF Step
  <2> QED
    BY <2>1, <2>2, <2>3, HeldStep
<1>2. CountInv' /\ count' \in Nat
  BY CountStep DEF Step
<1>3. KindInv'
  BY DEF Inv, TypeOK, KindInv, Step, Actors
<1>4. TypeOK'
  BY <1>2 DEF Inv, TypeOK, Step, TableStep, Actors, Places
<1> QED
  BY <1>1, <1>2, <1>3, <1>4 DEF Inv
-----------------------------------------------------------------------------
(***************************************************************************)
(* Each action is such a step, or one of the two that close.               *)
(***************************************************************************)
LEMMA ActorFacts ==
    /\ \A q \in Calls : q \in Actors /\ q \notin Tasks /\ q # "pool"
    /\ \A t \in Tasks : t \in Actors /\ t \notin Calls
    /\ "pool" \in Actors \ Calls
    /\ {"listener", "sender", "driver"} = Tasks
BY ConnectionAssumption DEF Actors, Tasks

LEMMA DropGuardFacts ==
    ASSUME Inv, NEW q \in Calls, DropGuard(q)
    PROVE  TableStep /\ closed' = closed
<1>1. Chan(q) \in Channels
  BY DEF Inv, TypeOK, Chan, Channels
<1> QED
  BY <1>1, TableFacts DEF Inv, DropGuard, Table!Remove, Table!Disarm, table


\* A call only moves, having counted itself in before and not out.
LEMMA QuietStep ==
    ASSUME Inv, NEW q \in Calls, NEW l \in Places, Goto(q, l),
           UNCHANGED <<kind, table, shared, tcp, attempt>>,
           pc[q] # "clear", pc[q] \in Uncounted <=> l \in Uncounted,
           l = "retry" => kind = "udp", l = "sent" => kind = "tcp",
           l \notin {"top", "armed", "select", "draining", "ended"},
           l \in Registered => pc[q] \in Registered,
           l \in Registered \ {"recheck"} /\ closed =>
               pc[q] \in Registered \ {"recheck"}
    PROVE  Inv'
<1>1. TableStep
  BY TableFacts DEF Inv
<1>2. Step(q, l)
  BY <1>1 DEF Inv, TypeOK, Step, Goto, shared, tcp, Counts
<1> QED
  BY <1>2, ActorFacts, StepKeeps

LEMMA CallMoves ==
    ASSUME Inv, NEW q \in Calls,
           \/ Begin(q) \/ Recheck(q) \/ RecheckSent(q) \/ Send(q)
           \/ AttemptElapsed(q) \/ Cancelled(q) \/ StreamBreaks(q)
    PROVE  Inv'
<1> USE DEF Places, Registered, Uncounted
<1>1. CASE Begin(q)
  <2>1. PICK l \in {"failed", "register"} : Goto(q, l)
    BY <1>1 DEF Begin
  <2> QED
    BY <1>1, <2>1, QuietStep DEF Begin
<1>2. CASE Recheck(q)
  <2>1. PICK l \in {"leave", "send"} : Goto(q, l) /\ (closed => l = "leave")
    BY <1>2 DEF Recheck
  <2> QED
    BY <1>2, <2>1, QuietStep DEF Recheck
<1>3. CASE RecheckSent(q)
  <2>1. PICK l \in {"leave", "await"} : Goto(q, l)
    BY <1>3 DEF RecheckSent
  <2> QED
    BY <1>3, <2>1, QuietStep DEF RecheckSent
<1>4. CASE Send(q)
  <2>1. PICK l \in {"await", "close", "leave"} : Goto(q, l)
    BY <1>4 DEF Send
  <2> QED
    BY <1>4, <2>1, QuietStep DEF Send
<1>5. CASE AttemptElapsed(q)
  BY <1>5, QuietStep DEF AttemptElapsed
<1>6. CASE Cancelled(q)
  <2>1. pc[q] \in {"send", "await"}
    BY <1>6 DEF Cancelled
  <2> QED
    BY <1>6, <2>1, QuietStep DEF Cancelled
<1>7. CASE StreamBreaks(q)
  BY <1>7, QuietStep DEF StreamBreaks
<1> QED
  BY <1>1, <1>2, <1>3, <1>4, <1>5, <1>6, <1>7

LEMMA RegisterStep ==
    ASSUME Inv, NEW q \in Calls, Register(q)
    PROVE  Inv'
<1> USE DEF Places, Registered, Uncounted
<1>1. Chan(q) \in Channels /\ Chan(q)' = Chan(q)
  BY DEF Inv, TypeOK, Chan, Channels, Register
<1>2. TableStep /\ closed' = closed
  BY <1>1, TableFacts DEF Inv, Register, Table!Store, Table!StoreFails, table
<1>3. CASE Mapped /\ \E id \in Ids : Table!Store(Chan(q), id)
  <2>1. PICK id \in Ids : Table!Store(Chan(q), id)
    BY <1>3
  <2>2. Held(q, entries)'
    BY <1>1, <2>1 DEF Held, Table!Store
  <2>3. CASE Goto(q, "recheck") /\ count' = count
    <3>1. Step(q, "recheck")
      BY <1>2, <1>3, <2>2, <2>3 DEF Step, Inv, TypeOK, Register, Goto, tcp
    <3> QED
      BY <3>1, ActorFacts, StepKeeps
  <2>4. CASE Goto(q, "failed") /\ count' = count
    <3>1. Step(q, "failed")
      BY <1>2, <1>3, <2>4 DEF Step, Inv, TypeOK, Register, Goto, tcp
    <3> QED
      BY <3>1, ActorFacts, StepKeeps
  <2> QED
    BY <1>3, <2>3, <2>4 DEF Register
<1>4. CASE Mapped /\ Table!StoreFails(Chan(q)) /\ Goto(q, "failed") /\ count' = count
  <2>1. Step(q, "failed")
    BY <1>2, <1>4 DEF Step, Inv, TypeOK, Register, Goto, tcp
  <2> QED
    BY <2>1, ActorFacts, StepKeeps
<1>5. CASE ~Mapped /\ count' = count + 1 /\ Goto(q, "recheck")
  <2>1. Step(q, "recheck")
    BY <1>2, <1>5 DEF Step, Inv, TypeOK, Register, Goto, tcp, Counts
  <2> QED
    BY <2>1, ActorFacts, StepKeeps
<1> QED
  BY <1>3, <1>4, <1>5 DEF Register

LEMMA EnqueueStep ==
    ASSUME Inv, NEW q \in Calls, Enqueue(q)
    PROVE  Inv'
<1> USE DEF Places, Registered, Uncounted
<1>1. TableStep /\ closed' = closed
  BY DropGuardFacts, TableFacts DEF Inv, Enqueue, table
<1>2. PICK l \in {"close", "sent"} : Goto(q, l)
  BY DEF Enqueue
<1>3. Step(q, l)
  BY <1>1, <1>2 DEF Step, Inv, TypeOK, Enqueue, Goto, Mapped
<1> QED
  BY <1>3, ActorFacts, StepKeeps

\* The call is answered, fails, or turns to its next attempt.
LEMMA CallEnds ==
    ASSUME Inv, NEW q \in Calls,
           Received(q) \/ StreamAnswered(q) \/ Leave(q) \/ Retry(q)
    PROVE  Inv'
<1> USE DEF Places, Registered, Uncounted
<1>0. Chan(q) \in Channels
  BY DEF Inv, TypeOK, Chan, Channels
<1>1. CASE Received(q)
  <2>1. TableStep /\ closed' = closed
    BY <1>0, <1>1, TableFacts DEF Inv, Received, Table!Disarm, table
  <2>2. PICK l \in {"ok", "retry", "leave"} : Goto(q, l) /\ (l = "retry" => kind = "udp")
    BY <1>1 DEF Received
  <2>3. Step(q, l)
    BY <1>1, <2>1, <2>2 DEF Step, Inv, TypeOK, Received, Goto, tcp
  <2> QED
    BY <2>3, ActorFacts, StepKeeps
<1>2. CASE StreamAnswered(q)
  <2>1. TableStep
    BY <1>2, TableFacts DEF Inv, StreamAnswered
  <2>2. PICK l \in {"ok", "leave"} : Goto(q, l) /\ count' = IF l = "ok" THEN count - 1 ELSE count
    BY <1>2 DEF StreamAnswered
  <2>3. Step(q, l)
    BY <1>2, <2>1, <2>2 DEF Step, Inv, TypeOK, StreamAnswered, Goto, tcp, Counts
  <2> QED
    BY <2>3, ActorFacts, StepKeeps
<1>3. CASE Leave(q)
  <2>1. TableStep /\ closed' = closed
    BY <1>3, DropGuardFacts, TableFacts DEF Inv, Leave, table
  <2>2. Step(q, "failed")
    BY <1>3, <2>1 DEF Step, Inv, TypeOK, Leave, Goto, tcp, Counts
  <2> QED
    BY <2>2, ActorFacts, StepKeeps
<1>4. CASE Retry(q)
  <2>1. TableStep /\ closed' = closed
    BY <1>4, DropGuardFacts DEF Retry
  <2>2. PICK l \in {"register", "failed"} : Goto(q, l)
    BY <1>4 DEF Retry
  <2>3. attempt' \in [Calls -> {1, 2}] /\ \A r \in Calls : attempt'[r] # attempt[r] => r = q
    BY <1>4 DEF Inv, TypeOK, Retry
  <2>4. Mapped
    BY <1>4 DEF Inv, KindInv, Retry, Mapped
  <2>5. Step(q, l)
    BY <1>4, <2>1, <2>2, <2>3, <2>4 DEF Step, Inv, TypeOK, Retry, Goto, tcp
  <2> QED
    BY <2>5, ActorFacts, StepKeeps
<1> QED
  BY <1>1, <1>2, <1>3, <1>4

LEMMA AfterCloseFacts ==
    ASSUME NEW a \in Actors
    PROVE  /\ a \in Calls => AfterClose(a) = "leave"
           /\ a \notin Calls => AfterClose(a) \in {"draining", "ended"}
BY ConnectionAssumption DEF AfterClose, Actors, Tasks

\* The swap that closes: what is stored becomes due, and its closer clears.
LEMMA CloseSwapStep ==
    ASSUME Inv, NEW a \in Actors, CloseSwap(a)
    PROVE  Inv'
<1> USE DEF Places, Registered, Uncounted
<1>0. TableStep
  BY TableFacts DEF Inv, CloseSwap
<1>1. CASE closed
  <2>1. Step(a, AfterClose(a))
    BY <1>0, <1>1, AfterCloseFacts DEF Step, Inv, TypeOK, CloseSwap, Goto, tcp, Counts
  <2> QED
    BY <2>1, StepKeeps
<1>2. CASE ~closed
  <2>1. /\ closed' = TRUE /\ due' = entries /\ pc' = [pc EXCEPT ![a] = "clear"]
        /\ UNCHANGED <<kind, table, count, fut, tcp, attempt>> /\ link' \in BOOLEAN
        /\ pc[a] = "close"
    BY <1>2 DEF CloseSwap, Goto, Inv, TypeOK
  <2>2. TypeOK'
    BY <2>1 DEF Inv, TypeOK, Actors, table, tcp
  <2>3. KindInv'
    BY <2>1 DEF Inv, TypeOK, KindInv, Actors
  <2>4. CountInv'
    BY <2>1, CountStep DEF Counts
  <2>5. HeldInv'
    <3>1. ASSUME Mapped', NEW q \in Calls, pc'[q] \in Registered, Waits(q)'
          PROVE  Held(q, entries)' /\ Held(q, entries \cap due)'
      <4>1. pc[q] \in Registered /\ Waits(q)
        BY <2>1, <3>1 DEF Inv, TypeOK, Waits, Chan, table
      <4>2. Held(q, entries)
        BY <2>1, <3>1, <4>1 DEF Inv, HeldInv, Mapped
      <4> QED
        BY <2>1, <4>2 DEF Held, Chan, table
    <3> QED
      BY <3>1 DEF HeldInv
  <2>6. ClearInv'
    BY <2>1 DEF Inv, TypeOK, ClearInv, Actors
  <2> QED
    BY <2>2, <2>3, <2>4, <2>5, <2>6 DEF Inv
<1> QED
  BY <1>1, <1>2

LEMMA ClearStepKeeps ==
    ASSUME Inv, NEW a \in Actors, ClearStep(a)
    PROVE  Inv'
<1>1. TableStep /\ closed' = closed
  BY TableFacts DEF Inv, ClearStep, Table!ClearOne
<1>2. Step(a, "clear")
  BY <1>1 DEF Step, Inv, TypeOK, KindInv, ClearStep, tcp, Counts, Places, Registered, Actors
<1> QED
  BY <1>2, StepKeeps

\* The end of a close: no query that went on after its check is left waiting.
LEMMA CloseNotifyStep ==
    ASSUME Inv, NEW a \in Actors, CloseNotify(a)
    PROVE  Inv'
<1> USE DEF Places, Registered, Uncounted
<1>1. /\ due \cap entries = {} /\ due' = {} /\ pc[a] = "clear"
      /\ pc' = [pc EXCEPT ![a] = AfterClose(a)]
      /\ UNCHANGED <<kind, closed, table, count, link, tcp, attempt>>
      /\ fut' \in [Tasks -> {"none", "live", "woken"}]
  BY DEF CloseNotify, Goto, Inv, TypeOK
<1>2. TypeOK'
  BY <1>1, AfterCloseFacts DEF Inv, TypeOK, Actors, table, tcp
<1>3. KindInv'
  BY <1>1, AfterCloseFacts DEF Inv, TypeOK, KindInv, Actors
<1>4. CountInv'
  <2>1. Counts(a, AfterClose(a))
    BY <1>1, AfterCloseFacts DEF Counts
  <2> QED
    BY <1>1, <2>1, CountStep
<1>5. HeldInv'
  <2>1. ASSUME Mapped', NEW q \in Calls, pc'[q] \in Registered, Waits(q)'
        PROVE  Held(q, entries)' /\ ~(closed' /\ pc'[q] # "recheck")
    <3>1. pc[q] \in Registered /\ pc'[q] = pc[q] /\ Waits(q)
      BY <1>1, <2>1, AfterCloseFacts DEF Inv, TypeOK, Waits, Chan, table, Actors
    <3>2. Held(q, entries) /\ ~(closed /\ pc[q] # "recheck")
      BY <1>1, <2>1, <3>1 DEF Inv, HeldInv, Mapped, Held
    <3> QED
      BY <1>1, <3>1, <3>2 DEF Held, Chan, table
  <2> QED
    BY <2>1 DEF HeldInv
<1>6. ClearInv'
  BY <1>1 DEF ClearInv
<1> QED
  BY <1>2, <1>3, <1>4, <1>5, <1>6 DEF Inv

LEMMA CloseKeeps ==
    ASSUME Inv, NEW a \in Actors, CloseStep(a)
    PROVE  Inv'
BY CloseSwapStep, ClearStepKeeps, CloseNotifyStep DEF CloseStep, Closing

\* A task goes to l and leaves the queries alone.
Moves(t, l) ==
    /\ Goto(t, l) /\ pc[t] # "clear"
    /\ UNCHANGED <<kind, due, count, attempt>>
    /\ fut' \in [Tasks -> {"none", "live", "woken"}] /\ link' \in BOOLEAN
    /\ queue' \subseteq Calls /\ writing' \in Calls \cup {NoCall}

\* The background tasks only move, or take an entry out of the table.
LEMMA TaskMoves ==
    ASSUME Inv,
           \/ \E t \in Tasks : Arm(t) \/ ReadFlag(t) \/ Woken(t)
           \/ Listen \/ ListenFails \/ Dequeue \/ Write
           \/ DriverLinkDown \/ DriverDrained
    PROVE  Inv'
<1>1. PICK t \in Tasks, l \in Places \ {"clear"} : Moves(t, l)
  <2> USE DEF Places, Moves
  <2>1. ASSUME NEW t \in Tasks, Arm(t) \/ ReadFlag(t) \/ Woken(t)
        PROVE  \E l \in Places \ {"clear"} : Moves(t, l)
    <3>1. PICK l \in {"select", "armed", "draining", "ended"} : Goto(t, l)
      BY <2>1 DEF Arm, ReadFlag, Woken, End, Goto
    <3>2. fut' \in [Tasks -> {"none", "live", "woken"}] /\ link' \in BOOLEAN
      BY <2>1 DEF Inv, TypeOK, Arm, ReadFlag, Woken, End
    <3>3. Moves(t, l)
      BY <2>1, <3>1, <3>2 DEF Inv, TypeOK, Arm, ReadFlag, Woken, tcp
    <3> QED
      BY <3>1, <3>3
  <2>2. CASE Listen \/ ListenFails
    <3>1. PICK l \in {"top", "close", "ended"} : Goto("listener", l)
      BY <2>2 DEF Listen, ListenFails, End, Goto
    <3>2. Moves("listener", l)
      BY <2>2, <3>1 DEF Inv, TypeOK, Listen, ListenFails, End, tcp
    <3> QED
      BY <3>1, <3>2, ActorFacts
  <2>3. CASE Dequeue \/ Write
    BY <2>3, ActorFacts DEF Inv, TypeOK, Dequeue, Write, Goto, shared
  <2>4. CASE DriverLinkDown \/ DriverDrained
    BY <2>4, ActorFacts DEF Inv, TypeOK, DriverLinkDown, DriverDrained, Goto, shared, tcp
  <2> QED
    BY <2>1, <2>2, <2>3, <2>4
<1>2. TableStep /\ closed' = closed
  BY TableFacts DEF Inv, Arm, ReadFlag, Woken, Listen, ListenFails, Dequeue, Write,
     DriverLinkDown, DriverDrained, Table!Take, table, shared
<1>3. t \in Actors \ Calls
  BY ActorFacts
<1>4. Step(t, l)
  BY <1>1, <1>2, <1>3 DEF Step, Inv, TypeOK, Goto, Counts, Moves
<1> QED
  BY <1>3, <1>4, StepKeeps

LEMMA LinkDownStep ==
    ASSUME Inv, LinkDown
    PROVE  Inv'
<1>1. TableStep
  BY TableFacts DEF Inv, LinkDown
<1>2. Step("pool", pc["pool"])
  BY <1>1, ActorFacts DEF Step, Inv, TypeOK, LinkDown, tcp, Counts, Places, Actors
<1> QED
  BY <1>2, ActorFacts, StepKeeps

LEMMA StutterStep ==
    ASSUME Inv, UNCHANGED vars
    PROVE  Inv'
<1>1. TableStep
  BY TableFacts DEF Inv, vars, table
<1>2. Step("pool", pc["pool"])
  BY <1>1, ActorFacts DEF Step, Inv, TypeOK, vars, Counts, Places, Actors
<1> QED
  BY <1>2, ActorFacts, StepKeeps

LEMMA Inductive == Inv /\ [Next]_vars => Inv'
<1> SUFFICES ASSUME Inv, [Next]_vars PROVE Inv'
  OBVIOUS
<1>1. ASSUME NEW q \in Calls, Begin(q) \/ CallStep(q) \/ AttemptElapsed(q)
             \/ Cancelled(q) \/ StreamAnswered(q) \/ StreamBreaks(q)
      PROVE  Inv'
  BY <1>1, CallMoves, RegisterStep, EnqueueStep, CallEnds, CloseKeeps, ActorFacts
  DEF CallStep
<1>2. ASSUME NEW t \in Tasks, TaskStep(t) PROVE Inv'
  BY <1>2, TaskMoves, CloseKeeps, ActorFacts DEF TaskStep
<1>3. CASE Listen \/ ListenFails \/ Dequeue \/ Write
  BY <1>3, TaskMoves
<1>4. CASE CloseStep("pool") \/ LinkDown
  BY <1>4, CloseKeeps, LinkDownStep, ActorFacts
<1>5. CASE UNCHANGED vars
  BY <1>5, StutterStep
<1> QED
  BY <1>1, <1>2, <1>3, <1>4, <1>5 DEF Next

LEMMA Initially == Init => Inv
<1> SUFFICES ASSUME Init PROVE Inv
  OBVIOUS
<1>1. TypeOK
  BY DEF Init, Table!Init, TypeOK, Tasks, TasksOf
<1>2. \A q \in Calls : pc[q] = "idle"
  BY ConnectionAssumption DEF Init, TasksOf, Tasks
<1>3. CountInv
  <2>1. Under = {}
    BY <1>2 DEF Under, Over
  <2> QED
    BY <2>1, FS_EmptySet DEF CountInv, Init
<1> QED
  BY <1>1, <1>2, <1>3 DEF Inv, KindInv, HeldInv, ClearInv, Registered, Init

LEMMA Invariant == Spec => []Inv
BY Initially, Inductive, PTL DEF Spec

\* However the close of a TCP or UDP connection falls between the looks at the
\* flag, the store and the wait of its queries, none waits on a channel that
\* neither the close nor anybody else will end.
THEOREM NobodyIsLeftBehind == Spec => []NoQueryLeftBehind
<1>1. Inv => NoQueryLeftBehind
  <2> SUFFICES ASSUME Inv, Mapped, closed, \A a \in DOMAIN pc : pc[a] # "clear",
                      NEW q \in Calls, pc[q] = "await"
               PROVE  rx[Chan(q)] # "open"
    BY DEF NoQueryLeftBehind, Inv
  <2>1. due = {}
    BY DEF Inv, TypeOK, ClearInv, Actors
  <2> QED
    BY <2>1 DEF Inv, HeldInv, Held, Waits, Registered
<1> QED
  BY <1>1, Invariant, PTL

\* using_count is the number of queries under way, and never below zero.
THEOREM UsingCountIsExact == Spec => []UsingCountExact
<1>1. Inv => UsingCountExact
  BY DEF Inv, CountInv, UsingCountExact, Under
<1> QED
  BY <1>1, Invariant, PTL
-----------------------------------------------------------------------------
(***************************************************************************)
(* No task of a connection misses the close.  A task of TCP or UDP creates *)
(* its future before it reads the flag: a close it has not seen then finds *)
(* the future.  The driver of QUIC reads no flag; it sees the connection   *)
(* fail that the close has closed.                                         *)
(***************************************************************************)
Asleep(t) == pc[t] = "select" /\ fut[t] # "woken"
TaskInv ==
    /\ \A t \in Tasks : t \notin TasksOf(kind) => pc[t] = "idle"
    /\ \A t \in Tasks : pc[t] \in {"armed", "select"} => fut[t] # "none"
    /\ kind = "quic" /\ closed => ~link
    /\ Mapped /\ closed /\ (\A a \in Actors : pc[a] # "clear") =>
         \A t \in Tasks : ~Asleep(t)

\* A call moves, and a task away from what it waits for.
LEMMA AsideKeeps ==
    ASSUME Inv, TaskInv, NEW a \in Actors, NEW l, pc' = [pc EXCEPT ![a] = l],
           pc[a] # "clear" \/ l = "clear", UNCHANGED <<kind, closed>>, link' => link,
           \A t \in Tasks : fut'[t] = fut[t] \/ (t = a /\ l \notin {"armed", "select"}),
           a \in Tasks => pc[a] # "idle" /\ l \notin {"armed", "select"}
    PROVE  TaskInv'
<1>1. \A b \in Actors : pc'[b] = IF b = a THEN l ELSE pc[b]
  BY DEF Inv, TypeOK, Actors
<1>2. \A t \in Tasks : t \in Actors
  BY ActorFacts
<1>3. (\A b \in Actors : pc'[b] # "clear") => \A b \in Actors : pc[b] # "clear"
  BY <1>1
<1>4. \A t \in Tasks : pc'[t] \in {"armed", "select"} => pc'[t] = pc[t] /\ fut'[t] = fut[t]
  BY <1>1, <1>2
<1> QED
  BY <1>1, <1>2, <1>3, <1>4 DEF TaskInv, Asleep, Mapped

LEMMA CallAside ==
    ASSUME Inv, TaskInv, NEW q \in Calls,
           \/ Begin(q) \/ Register(q) \/ Recheck(q) \/ Enqueue(q) \/ RecheckSent(q) \/ Send(q)
           \/ Received(q) \/ Leave(q) \/ Retry(q) \/ AttemptElapsed(q) \/ Cancelled(q)
           \/ StreamAnswered(q) \/ StreamBreaks(q)
    PROVE  TaskInv'
<1>1. /\ \E l : pc' = [pc EXCEPT ![q] = l]
      /\ pc[q] # "clear" /\ UNCHANGED <<kind, fut, link>>
  BY DEF Begin, Register, Recheck, Enqueue, RecheckSent, Send, Received, Leave, Retry,
     AttemptElapsed, Cancelled, StreamAnswered, StreamBreaks, Goto, shared
<1>2. closed' = closed
  BY DropGuardFacts DEF Begin, Register, Recheck, Enqueue, RecheckSent, Send, Received, Leave, Retry,
     AttemptElapsed, Cancelled, StreamAnswered, StreamBreaks, shared, Table!Store,
     Table!StoreFails, Table!Disarm
<1> QED
  BY <1>1, <1>2, ActorFacts, AsideKeeps

LEMMA CloseAwakes ==
    ASSUME Inv, TaskInv, NEW a \in Actors, CloseStep(a)
    PROVE  TaskInv'
<1>0. \A b \in Actors : \A l :
        pc' = [pc EXCEPT ![a] = l] => pc'[b] = IF b = a THEN l ELSE pc[b]
  BY DEF Inv, TypeOK, Actors
<1>1. CASE CloseSwap(a) /\ closed
  <2>1. /\ pc' = [pc EXCEPT ![a] = AfterClose(a)] /\ pc[a] = "close"
        /\ UNCHANGED <<kind, closed, link, fut>>
    BY <1>1 DEF CloseSwap, Goto
  <2>2. a \in Tasks => AfterClose(a) \in {"draining", "ended"}
    BY AfterCloseFacts, ActorFacts
  <2> QED BY <2>1, <2>2, AsideKeeps
<1>2. CASE CloseSwap(a) /\ ~closed
  <2>1. /\ pc' = [pc EXCEPT ![a] = "clear"] /\ pc[a] = "close" /\ closed' = TRUE
        /\ UNCHANGED <<kind, fut>> /\ link' = (link /\ kind # "quic")
    BY <1>2 DEF CloseSwap, Goto
  <2>2. pc'[a] = "clear" /\ \A t \in Tasks : t \in Actors /\ pc'[t] \in {"clear", pc[t]}
    BY <1>0, <2>1, ActorFacts
  <2>3. \A t \in Tasks : pc[t] = "idle" => pc'[t] = "idle"
    BY <1>0, <2>1, ActorFacts
  <2>4. \A t \in Tasks : fut'[t] = fut[t]
    BY <2>1
  <2> QED BY <2>1, <2>2, <2>3, <2>4 DEF TaskInv
<1>3. CASE ClearStep(a)
  <2>1. pc' = pc /\ pc[a] = "clear" /\ UNCHANGED <<kind, fut, link, closed>>
    BY <1>3 DEF ClearStep, Table!ClearOne
  <2> QED BY <2>1 DEF TaskInv, Asleep, Mapped
<1>4. CASE CloseNotify(a)
  <2>1. /\ pc' = [pc EXCEPT ![a] = AfterClose(a)] /\ pc[a] = "clear"
        /\ UNCHANGED <<kind, closed, link>>
        /\ fut' = [t \in Tasks |-> IF fut[t] = "live" THEN "woken" ELSE fut[t]]
    BY <1>4 DEF CloseNotify, Goto
  <2>2. \A t \in Tasks : /\ pc'[t] \in {"armed", "select"} => pc'[t] = pc[t]
                         /\ pc[t] = "idle" => pc'[t] = "idle"
    BY <1>0, <2>1, AfterCloseFacts, ActorFacts
  <2>3. \A t \in Tasks : fut'[t] # "none" <=> fut[t] # "none"
    BY <2>1 DEF Inv, TypeOK
  <2>4. \A t \in Tasks : fut[t] # "none" => fut'[t] = "woken"
    BY <2>1 DEF Inv, TypeOK
  <2> QED BY <2>1, <2>2, <2>3, <2>4 DEF TaskInv, Asleep
<1> QED
  BY <1>1, <1>2, <1>3, <1>4 DEF CloseStep, Closing

LEMMA TaskAside ==
    ASSUME Inv, TaskInv,
           \/ \E t \in Tasks : Woken(t)
           \/ Listen \/ ListenFails \/ Dequeue \/ Write \/ DriverLinkDown \/ DriverDrained
    PROVE  TaskInv'
<1> DEFINE Gone(t, l) ==
        /\ l \in {"top", "close", "ended", "draining"}
        /\ pc' = [pc EXCEPT ![t] = l] /\ pc[t] \in {"select", "draining"}
        /\ fut' = fut \/ fut' = [fut EXCEPT ![t] = "none"]
        /\ kind' = kind /\ (link' => link)
<1>1. \E t \in Tasks : \E l : Gone(t, l)
  <2>1. ASSUME NEW t \in Tasks, Woken(t) PROVE \E l : Gone(t, l)
    BY <2>1 DEF Woken, End, Goto
  <2>2. CASE Listen \/ ListenFails
    <3>1. \E l : Gone("listener", l)
      BY <2>2 DEF Listen, ListenFails, End, Goto
    <3> QED BY <3>1, ActorFacts
  <2>3. CASE Dequeue \/ Write
    <3>1. \E l : Gone("sender", l)
      BY <2>3 DEF Dequeue, Write, Goto, shared
    <3> QED BY <3>1, ActorFacts
  <2>4. CASE DriverLinkDown \/ DriverDrained
    <3>1. \E l : Gone("driver", l)
      BY <2>4 DEF DriverLinkDown, DriverDrained, Goto, shared
    <3> QED BY <3>1, ActorFacts
  <2> QED BY <2>1, <2>2, <2>3, <2>4
<1>2. closed' = closed
  BY DEF Woken, Listen, ListenFails, Dequeue, Write, DriverLinkDown, DriverDrained,
     shared, Table!Take
<1>3. PICK t \in Tasks : \E l : Gone(t, l)
  BY <1>1
<1>4. PICK l : Gone(t, l)
  BY <1>3
<1>5. \A u \in Tasks : fut'[u] = fut[u] \/ u = t
  BY <1>4 DEF Inv, TypeOK
<1>6. t \in Actors /\ pc[t] # "clear" /\ pc[t] # "idle" /\ l \notin {"armed", "select"}
  BY <1>4, ActorFacts
<1> QED
  BY <1>2, <1>4, <1>5, <1>6, AsideKeeps

\* Where a task goes to wait.
LEMMA ArmKeeps ==
    ASSUME Inv, TaskInv, NEW t \in Tasks, Arm(t) \/ ReadFlag(t)
    PROVE  TaskInv'
<1>0. \A b \in Actors : \A l :
        pc' = [pc EXCEPT ![t] = l] => pc'[b] = IF b = t THEN l ELSE pc[b]
  BY ActorFacts DEF Inv, TypeOK, Actors
<1>1. CASE Arm(t)
  <2>1. /\ pc[t] = "top" /\ fut' = [fut EXCEPT ![t] = "live"]
        /\ pc' = [pc EXCEPT ![t] = IF t = "driver" THEN "select" ELSE "armed"]
        /\ UNCHANGED <<kind, closed, link>>
    BY <1>1 DEF Arm, Goto
  <2>2. Mapped => t # "driver"
    BY <2>1 DEF TaskInv, Mapped, TasksOf
  <2>3. /\ \A u \in Tasks : fut'[u] = IF u = t THEN "live" ELSE fut[u]
        /\ \A u \in Tasks : u # t => pc'[u] = pc[u]
        /\ Mapped => pc'[t] = "armed"
        /\ \A b \in Actors : pc'[b] # "clear" => pc[b] # "clear"
    BY <1>0, <2>1, <2>2, ActorFacts DEF Inv, TypeOK
  <2>4. t \in TasksOf(kind)
    BY <2>1 DEF TaskInv
  <2>5. Mapped /\ closed /\ (\A a \in Actors : pc'[a] # "clear") =>
          \A u \in Tasks : ~(pc'[u] = "select" /\ fut'[u] # "woken")
    BY <2>3 DEF TaskInv, Asleep
  <2>6. /\ \A u \in Tasks : u \notin TasksOf(kind) => pc'[u] = "idle"
        /\ \A u \in Tasks : pc'[u] \in {"armed", "select"} => fut'[u] # "none"
    BY <2>3, <2>4 DEF TaskInv
  <2> QED BY <2>1, <2>5, <2>6 DEF TaskInv, Asleep, Mapped
<1>2. CASE ReadFlag(t) /\ closed
  <2>1. PICK l \in {"ended", "draining"} :
           /\ pc' = [pc EXCEPT ![t] = l] /\ pc[t] = "armed"
           /\ fut' = [fut EXCEPT ![t] = "none"] /\ UNCHANGED <<kind, closed, link>>
    BY <1>2 DEF ReadFlag, End, Goto
  <2>2. \A u \in Tasks : fut'[u] = fut[u] \/ u = t
    BY <2>1 DEF Inv, TypeOK
  <2>3. t \in Actors /\ pc[t] # "clear" /\ pc[t] # "idle" /\ l \notin {"armed", "select"}
    BY <2>1, ActorFacts
  <2> QED BY <2>1, <2>2, <2>3, AsideKeeps
<1>3. CASE ReadFlag(t) /\ ~closed
  <2>1. /\ pc' = [pc EXCEPT ![t] = "select"] /\ pc[t] = "armed"
        /\ UNCHANGED <<kind, closed, link, fut>>
    BY <1>3 DEF ReadFlag, Goto
  <2>2. t \in TasksOf(kind) /\ fut[t] # "none"
    BY <2>1 DEF TaskInv
  <2>3. \A u \in Tasks : u # t => pc'[u] = pc[u]
    BY <1>0, <2>1, ActorFacts
  <2> QED BY <1>3, <2>1, <2>2, <2>3 DEF TaskInv, Asleep
<1> QED
  BY <1>1, <1>2, <1>3 DEF ReadFlag

LEMMA TasksInductive == Inv /\ TaskInv /\ [Next]_vars => TaskInv'
<1> SUFFICES ASSUME Inv, TaskInv, [Next]_vars PROVE TaskInv'
  OBVIOUS
<1>1. ASSUME NEW q \in Calls, Begin(q) \/ CallStep(q) \/ AttemptElapsed(q)
             \/ Cancelled(q) \/ StreamAnswered(q) \/ StreamBreaks(q)
      PROVE  TaskInv'
  BY <1>1, CallAside, CloseAwakes, ActorFacts DEF CallStep
<1>2. ASSUME NEW t \in Tasks, TaskStep(t) PROVE TaskInv'
  BY <1>2, ArmKeeps, TaskAside, CloseAwakes, ActorFacts DEF TaskStep
<1>3. CASE Listen \/ ListenFails \/ Dequeue \/ Write
  BY <1>3, TaskAside
<1>4. CASE CloseStep("pool")
  BY <1>4, CloseAwakes, ActorFacts
<1>5. CASE LinkDown \/ UNCHANGED vars
  <2>1. UNCHANGED <<kind, closed, fut, pc>> /\ (link' => link)
    BY <1>5 DEF LinkDown, vars
  <2> QED BY <2>1 DEF TaskInv, Asleep, Mapped
<1> QED
  BY <1>1, <1>2, <1>3, <1>4, <1>5 DEF Next

(***************************************************************************)
(* Once a close of a TCP or UDP connection has notified, none of its tasks *)
(* sits in a select! whose wait_for_close has not been notified; and the   *)
(* driver of a closed QUIC connection sits beside a transport that is gone.*)
(***************************************************************************)
NoTaskMissesClose ==
    closed /\ (\A a \in Actors : pc[a] # "clear") =>
        \A t \in TasksOf(kind) :
            Asleep(t) => ~Mapped /\ (kind = "quic" => ~link)

\* wait_for_close, which creates its future before it reads the flag, loses no
\* close, wherever the swap, the clear and the notification fall.
THEOREM CloseReachesTheTasks == Spec => []NoTaskMissesClose
<1>1. Init => TaskInv
  BY ConnectionAssumption DEF Init, Table!Init, TaskInv, Mapped, Tasks, TasksOf
<1>2. TaskInv => NoTaskMissesClose
  BY DEF TaskInv, NoTaskMissesClose, TasksOf, Tasks
<1> QED
  BY <1>1, <1>2, Invariant, TasksInductive, PTL DEF Spec
-----------------------------------------------------------------------------
(***************************************************************************)
(* The connection uses the request map as its abstraction allows.          *)
(***************************************************************************)
TableMoves == Table!Next \/ UNCHANGED <<entries, guard, rx, closed>>

LEMMA DropGuardMoves ==
    ASSUME Inv, NEW q \in Calls, DropGuard(q)
    PROVE  TableMoves
<1>1. Chan(q) \in Channels
  BY DEF Inv, TypeOK, Chan, Channels
<1> QED
  BY <1>1 DEF DropGuard, TableMoves, Table!Next, table

LEMMA CallUsesTable ==
    ASSUME Inv, NEW q \in Calls,
           \/ Begin(q) \/ Register(q) \/ Recheck(q) \/ Enqueue(q) \/ RecheckSent(q)
           \/ Send(q) \/ Received(q) \/ Leave(q) \/ Retry(q)
           \/ AttemptElapsed(q) \/ Cancelled(q) \/ StreamAnswered(q) \/ StreamBreaks(q)
    PROVE  TableMoves
<1>1. Chan(q) \in Channels
  BY DEF Inv, TypeOK, Chan, Channels
<1>2. CASE Register(q) \/ Received(q)
  BY <1>1, <1>2 DEF Register, Received, TableMoves, Table!Next, table
<1>3. CASE Enqueue(q) \/ Leave(q) \/ Retry(q)
  BY <1>3, DropGuardMoves DEF Enqueue, Leave, Retry, TableMoves, table
<1>4. CASE \/ Begin(q) \/ Recheck(q) \/ RecheckSent(q) \/ Send(q) \/ AttemptElapsed(q)
           \/ Cancelled(q) \/ StreamAnswered(q) \/ StreamBreaks(q)
  BY <1>4 DEF Begin, Recheck, RecheckSent, Send, AttemptElapsed, Cancelled,
     StreamAnswered, StreamBreaks, TableMoves, table, shared
<1> QED
  BY <1>2, <1>3, <1>4

LEMMA CloseUsesTable ==
    ASSUME Inv, NEW a \in Actors, CloseStep(a)
    PROVE  TableMoves
<1>1. CASE CloseSwap(a)
  BY <1>1 DEF Inv, TypeOK, CloseSwap, TableMoves, Table!Next, Table!ClearStart, table
<1>2. CASE ClearStep(a)
  BY <1>2 DEF ClearStep, TableMoves, Table!Next
<1>3. CASE CloseNotify(a)
  BY <1>3 DEF CloseNotify, TableMoves, table
<1> QED
  BY <1>1, <1>2, <1>3 DEF CloseStep, Closing

LEMMA EveryStepUsesTable == Inv /\ [Next]_vars => TableMoves
<1> SUFFICES ASSUME Inv, [Next]_vars PROVE TableMoves
  OBVIOUS
<1>1. ASSUME NEW q \in Calls, Begin(q) \/ CallStep(q) \/ AttemptElapsed(q)
             \/ Cancelled(q) \/ StreamAnswered(q) \/ StreamBreaks(q)
      PROVE  TableMoves
  BY <1>1, CallUsesTable, CloseUsesTable, ActorFacts DEF CallStep
<1>2. ASSUME NEW t \in Tasks, TaskStep(t) PROVE TableMoves
  <2>1. CASE CloseStep(t)
    BY <2>1, CloseUsesTable, ActorFacts
  <2>2. CASE Arm(t) \/ ReadFlag(t) \/ Woken(t) \/ DriverLinkDown \/ DriverDrained
    BY <2>2 DEF Arm, ReadFlag, Woken, DriverLinkDown, DriverDrained, TableMoves,
       table, shared
  <2> QED
    BY <1>2, <2>1, <2>2 DEF TaskStep
<1>3. CASE Listen
  BY <1>3 DEF Listen, TableMoves, Table!Next, table
<1>4. CASE ListenFails \/ Dequeue \/ Write \/ LinkDown
  BY <1>4 DEF ListenFails, Dequeue, Write, LinkDown, TableMoves, table, shared
<1>5. CASE CloseStep("pool")
  BY <1>5, CloseUsesTable, ActorFacts
<1>6. CASE UNCHANGED vars
  BY <1>6 DEF vars, TableMoves
<1> QED
  BY <1>1, <1>2, <1>3, <1>4, <1>5, <1>6 DEF Next

\* What the connection does with its request map (store, take, disarm, remove,
\* clear, in any interleaving with the close) is what the abstract table allows:
\* its assumptions are those under which the map was shown to implement it.
THEOREM ConnectionUsesTable == Spec => Table!Spec
<1>1. Init => Table!Init
  BY DEF Init
<1>2. Inv /\ [Next]_vars => [Table!Next]_(Table!vars)
  BY EveryStepUsesTable DEF TableMoves, Table!vars
<1> QED
  BY <1>1, <1>2, Invariant, PTL DEF Spec, Table!Spec
=============================================================================
