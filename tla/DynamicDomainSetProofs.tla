----------------------- MODULE DynamicDomainSetProofs -----------------------
(***************************************************************************)
(* What the writable domain provider keeps, for any rules, callers, queue  *)
(* and batch: its listing, its matcher and its file agree, what a caller   *)
(* was told lasts, a drained provider is not reloaded, and nobody waits    *)
(* for a worker that does not know of it.                                  *)
(***************************************************************************)
EXTENDS DynamicDomainSet, TLAPS

\* The rule an append or a removal is about.
WellFormed(c) ==
    /\ c.kind # "none"
    /\ c.kind \in {"append", "remove"} => c.rule \in Rules

Mutations == {"remove", "clear", "reload"}

\* Where the worker is tells what it has in hand: the command it executes, and
\* that the batch was flushed before.
PlaceInv ==
    /\ \A i \in DOMAIN queue : WellFormed(queue[i])
    /\ cmd # NoCommand => WellFormed(cmd) /\ cmd.kind # "append"
    /\ worker \in {"idle", "stopped", "down"} => cmd = NoCommand
    /\ worker \in {"execute", "install"} => cmd # NoCommand
    /\ worker = "install" => cmd.kind \in Mutations
    /\ worker \in {"execute", "install", "stopped", "down"} => pending = <<>>

\* The three copies of the rules in memory and on file.
RuleInv ==
    /\ PendingRules \subseteq known
    /\ snapshot = known \ PendingRules
    /\ worker \notin {"install", "publish", "down"} /\ ~edited =>
         file \cup unsettled = snapshot \cup unsettled
    /\ worker = "publish" /\ ~edited =>
         /\ file \cup unsettled = known \cup unsettled
         /\ PendingRules \subseteq file
    /\ worker = "install" =>
         /\ ~edited => next = file
         /\ cmd.kind = "remove" => cmd.rule \notin next
         /\ gone \cap next = {}
    /\ AcknowledgedLasts

\* One reload at a time is with the worker, and only while its caller waits.
Reloads == {i \in DOMAIN queue : queue[i].kind = "reload"}
ReloadInv ==
    /\ reload # "wait" => cmd.kind # "reload" /\ Reloads = {}
    /\ cmd.kind = "reload" => Reloads = {}
    /\ \A i, j \in Reloads : i = j
    /\ accepting => teardown = "none"
    /\ worker = "down" => teardown = "none"
    /\ teardown \in {"destroy", "join"} => reload \in {"none", "locked"}

Inv == TypeOK /\ PlaceInv /\ RuleInv /\ ReloadInv
-----------------------------------------------------------------------------
(***************************************************************************)
(* Sequences, commands, counters.                                          *)
(***************************************************************************)
LEMMA SeqFacts ==
    ASSUME NEW S, NEW s \in Seq(S)
    PROVE  /\ Len(s) \in Nat /\ DOMAIN s = 1 .. Len(s)
           /\ \A i \in 1 .. Len(s) : s[i] \in S
           /\ s # <<>> => /\ Head(s) = s[1] /\ s[1] \in S /\ 1 \in 1 .. Len(s)
                          /\ Tail(s) \in Seq(S) /\ Len(Tail(s)) = Len(s) - 1
                          /\ \A i \in 1 .. Len(s) - 1 :
                                Tail(s)[i] = s[i + 1] /\ i + 1 \in 1 .. Len(s)
           /\ \A x \in S : /\ Append(s, x) \in Seq(S) /\ Len(Append(s, x)) = Len(s) + 1
                           /\ Append(s, x)[Len(s) + 1] = x
                           /\ \A i \in 1 .. Len(s) : Append(s, x)[i] = s[i]
OBVIOUS

LEMMA MapFacts ==
    ASSUME NEW S, NEW s \in Seq(S), NEW t,
           t = [i \in DOMAIN s |-> t[i]], \A i \in DOMAIN s : t[i] \in S
    PROVE  t \in Seq(S) /\ Len(t) = Len(s) /\ DOMAIN t = DOMAIN s
<1>1. DOMAIN s = 1 .. Len(s) /\ Len(s) \in Nat
  OBVIOUS
<1>2. t \in [1 .. Len(s) -> S]
  BY <1>1
<1> QED
  BY <1>1, <1>2

Entries == [rule : Rules, wait : Clients \cup {Nobody}]

LEMMA CommandFacts ==
    /\ NoCommand \in Commands /\ NoCommand.kind = "none"
    /\ \A kind \in {"append", "remove", "clear", "reload", "shutdown"},
          rule \in Rules \cup {Nobody}, wait \in Clients \cup {Nobody} :
        LET c == Command(kind, rule, wait)
        IN  /\ c \in Commands /\ c.kind = kind /\ c.rule = rule /\ c.wait = wait
            /\ kind \in {"append", "remove"} /\ rule \in Rules => WellFormed(c)
            /\ kind \notin {"append", "remove"} => WellFormed(c)
    /\ \A c \in Commands : /\ c.kind \in {"none", "append", "remove", "clear",
                                          "reload", "shutdown"}
                           /\ c.rule \in Rules \cup {Nobody}
                           /\ c.wait \in Clients \cup {Nobody}
                           /\ [c EXCEPT !.wait = Nobody] \in Commands
                           /\ [c EXCEPT !.wait = Nobody].kind = c.kind
                           /\ [c EXCEPT !.wait = Nobody].rule = c.rule
BY DEF NoCommand, Command, Commands, WellFormed

LEMMA BoundFacts ==
    ASSUME TypeOK
    PROVE  /\ Count => commands' \in 0 .. MaxCommands
           /\ Fault => faults' \in 0 .. MaxFaults
BY DynamicDomainSetAssumption DEF TypeOK, Count, Fault

LEMMA AnsweredFacts ==
    ASSUME TypeOK, NEW waits, NEW how \in {"ok", "err"}
    PROVE  Answered(waits, how) \in [Clients -> {"idle", "waiting", "ok", "err"}]
BY DEF TypeOK, Answered

\* What the batch holds, as rules.
LEMMA PendingFacts ==
    ASSUME TypeOK
    PROVE  /\ PendingRules \subseteq Rules
           /\ pending = <<>> => PendingRules = {}
           /\ \A i \in DOMAIN pending : pending[i].rule \in PendingRules
           /\ \A n \in 0 .. Len(pending) :
                {pending[i].rule : i \in 1 .. n} \subseteq PendingRules
<1>1. pending \in Seq(Entries)
  BY DEF TypeOK, Entries
<1>2. Len(pending) \in Nat /\ DOMAIN pending = 1 .. Len(pending)
      /\ \A i \in 1 .. Len(pending) : pending[i] \in Entries
  BY <1>1, SeqFacts
<1>3. \A i \in 1 .. Len(pending) : pending[i].rule \in Rules
  BY <1>2 DEF Entries
<1>4. \A n \in 0 .. Len(pending) : \A i \in 1 .. n : i \in 1 .. Len(pending)
  BY <1>2
<1> QED
  BY <1>2, <1>3, <1>4 DEF PendingRules
-----------------------------------------------------------------------------
(***************************************************************************)
(* The queue.                                                              *)
(***************************************************************************)
QueueWell == \A i \in DOMAIN queue : WellFormed(queue[i])

LEMMA Enqueue ==
    ASSUME TypeOK, QueueWell, NEW c \in Commands, WellFormed(c),
           Len(queue) < QueueSize, queue' = Append(queue, c)
    PROVE  /\ queue' \in Seq(Commands) /\ Len(queue') <= QueueSize
           /\ QueueWell'
           /\ c.kind # "reload" => Reloads' = Reloads
           /\ Reloads = {} => \A i, j \in Reloads' : i = j
<1>1. queue \in Seq(Commands) /\ QueueSize \in Nat
  BY DynamicDomainSetAssumption DEF TypeOK
<1>2. /\ Len(queue) \in Nat /\ DOMAIN queue = 1 .. Len(queue)
      /\ queue' \in Seq(Commands) /\ Len(queue') = Len(queue) + 1
      /\ DOMAIN queue' = 1 .. Len(queue')
      /\ queue'[Len(queue) + 1] = c /\ \A i \in 1 .. Len(queue) : queue'[i] = queue[i]
  BY <1>1, SeqFacts
<1>3. \A i \in DOMAIN queue' : i = Len(queue) + 1 \/ i \in DOMAIN queue
  BY <1>2
<1>4. Len(queue') <= QueueSize
  BY <1>1, <1>2
<1>5. QueueWell'
  BY <1>2, <1>3 DEF QueueWell, WellFormed
<1>6. \A i \in Reloads' : (c.kind = "reload" /\ i = Len(queue) + 1) \/ i \in Reloads
  BY <1>2, <1>3 DEF Reloads
<1>7. Reloads \subseteq Reloads'
  BY <1>2 DEF Reloads
<1> QED
  BY <1>2, <1>4, <1>5, <1>6, <1>7

LEMMA Dequeue ==
    ASSUME TypeOK, QueueWell, queue # <<>>, queue' = Tail(queue),
           \A i, j \in Reloads : i = j
    PROVE  /\ queue' \in Seq(Commands) /\ Len(queue') <= QueueSize
           /\ QueueWell'
           /\ Head(queue) \in Commands /\ WellFormed(Head(queue))
           /\ \A i, j \in Reloads' : i = j
           /\ Head(queue).kind = "reload" => Reloads' = {}
           /\ Reloads = {} => Reloads' = {} /\ Head(queue).kind # "reload"
<1>1. queue \in Seq(Commands) /\ QueueSize \in Nat /\ Len(queue) <= QueueSize
  BY DynamicDomainSetAssumption DEF TypeOK
<1>2. /\ Len(queue) \in Nat /\ DOMAIN queue = 1 .. Len(queue)
      /\ queue' \in Seq(Commands) /\ Len(queue') = Len(queue) - 1
      /\ DOMAIN queue' = 1 .. Len(queue')
      /\ Head(queue) = queue[1] /\ 1 \in DOMAIN queue /\ queue[1] \in Commands
      /\ \A i \in DOMAIN queue' : queue'[i] = queue[i + 1] /\ i + 1 \in DOMAIN queue
  BY <1>1, SeqFacts
<1>3. Len(queue') <= QueueSize
  BY <1>1, <1>2
<1>4. QueueWell' /\ WellFormed(Head(queue))
  BY <1>2 DEF QueueWell, WellFormed
<1>5. \A i \in Reloads' : i + 1 \in Reloads /\ i \in Nat /\ i > 0
  BY <1>2 DEF Reloads
<1>6. Head(queue).kind = "reload" => 1 \in Reloads
  BY <1>2 DEF Reloads
<1>7. \A i, j \in Reloads' : i = j
  <2>1. \A i, j \in Reloads' : i + 1 = j + 1
    BY <1>5
  <2> QED BY <1>5, <2>1
<1>8. Head(queue).kind = "reload" => Reloads' = {}
  <2>1. ASSUME NEW i \in Reloads', 1 \in Reloads PROVE FALSE
    <3>1. i + 1 = 1
      BY <1>5, <2>1
    <3> QED BY <1>5, <2>1, <3>1
  <2> QED BY <1>6, <2>1
<1> QED
  BY <1>2, <1>3, <1>4, <1>5, <1>6, <1>7, <1>8

\* A caller that gives up leaves its commands and rules as they are.
LEMMA Abandon ==
    ASSUME TypeOK, QueueWell, NEW c \in Clients, AppendTimesOut(c)
    PROVE  /\ queue' \in Seq(Commands) /\ Len(queue') <= QueueSize
           /\ pending' \in Seq(Entries) /\ Len(pending') = Len(pending)
           /\ QueueWell' /\ Reloads' = Reloads
           /\ PendingRules' = PendingRules
           /\ pending = <<>> => pending' = <<>>
<1>1. queue \in Seq(Commands) /\ pending \in Seq(Entries) /\ Len(queue) <= QueueSize
  BY DEF TypeOK, Entries
<1>2. /\ DOMAIN queue = 1 .. Len(queue) /\ \A i \in DOMAIN queue : queue[i] \in Commands
      /\ DOMAIN pending = 1 .. Len(pending) /\ \A i \in DOMAIN pending : pending[i] \in Entries
      /\ Len(pending) \in Nat
  BY <1>1, SeqFacts
<1>3. /\ queue' = [i \in DOMAIN queue |-> queue'[i]]
      /\ \A i \in DOMAIN queue : \/ queue'[i] = queue[i]
                                 \/ queue'[i] = [queue[i] EXCEPT !.wait = Nobody]
  BY DEF AppendTimesOut
<1>4. /\ pending' = [i \in DOMAIN pending |-> pending'[i]]
      /\ \A i \in DOMAIN pending : \/ pending'[i] = pending[i]
                                   \/ pending'[i] = [pending[i] EXCEPT !.wait = Nobody]
  BY DEF AppendTimesOut
<1>5. \A i \in DOMAIN queue : /\ queue'[i] \in Commands /\ queue'[i].kind = queue[i].kind
                              /\ queue'[i].rule = queue[i].rule
  <2>1. TAKE i \in DOMAIN queue
  <2>2. queue[i] \in Commands
    BY <1>2
  <2>3. CASE queue'[i] = queue[i]
    BY <2>2, <2>3
  <2>4. CASE queue'[i] = [queue[i] EXCEPT !.wait = Nobody]
    BY <2>2, <2>4 DEF Commands
  <2> QED BY <1>3, <2>3, <2>4
<1>6. \A e \in Entries : /\ [e EXCEPT !.wait = Nobody] \in Entries
                         /\ [e EXCEPT !.wait = Nobody].rule = e.rule
  BY DEF Entries
<1>7. \A i \in DOMAIN pending : pending'[i] \in Entries /\ pending'[i].rule = pending[i].rule
  BY <1>2, <1>4, <1>6
<1>8. queue' \in Seq(Commands) /\ Len(queue') = Len(queue) /\ DOMAIN queue' = DOMAIN queue
  BY <1>1, <1>3, <1>5, MapFacts
<1>9. pending' \in Seq(Entries) /\ Len(pending') = Len(pending)
      /\ DOMAIN pending' = DOMAIN pending
  BY <1>1, <1>4, <1>7, MapFacts
<1>10. QueueWell' /\ Reloads' = Reloads
  BY <1>5, <1>8 DEF QueueWell, Reloads, WellFormed
<1>11. PendingRules' = PendingRules
  BY <1>7, <1>9 DEF PendingRules
<1>12. pending = <<>> => pending' = <<>>
  BY <1>1, <1>9
<1> QED
  BY <1>1, <1>8, <1>9, <1>10, <1>11, <1>12
-----------------------------------------------------------------------------
(***************************************************************************)
(* Callers and control: what they do to the rules and the worker.          *)
(***************************************************************************)
\* Nothing that the rules depend on has changed.
LEMMA RulesStay ==
    ASSUME RuleInv, PendingRules' = PendingRules, cmd' = cmd, worker' = worker,
           UNCHANGED <<file, known, snapshot, next, ghosts>>
    PROVE  RuleInv'
BY DEF RuleInv, AcknowledgedLasts, FlushedIsDurable, RemovedStaysRemoved, ghosts

LEMMA PendingSame == pending' = pending => PendingRules' = PendingRules
BY DEF PendingRules

\* A command other than a reload is put into the queue.
LEMMA CallerStep ==
    ASSUME Inv, NEW c \in Commands, WellFormed(c), c.kind # "reload",
           \/ Len(queue) < QueueSize /\ queue' = Append(queue, c)
           \/ queue' = queue,
           client' \in [Clients -> {"idle", "waiting", "ok", "err"}],
           teardown' = teardown \/ (teardown = "destroy" /\ teardown' = "join"),
           commands' \in 0 .. MaxCommands,
           UNCHANGED <<file, memory, worker, cmd, next, accepting, reload,
                       faults, starts, ghosts>>
    PROVE  Inv'
<1>1. /\ queue' \in Seq(Commands) /\ Len(queue') <= QueueSize
      /\ QueueWell' /\ Reloads' = Reloads
  <2>1. CASE queue' = queue
    BY <2>1 DEF Inv, PlaceInv, TypeOK, QueueWell, Reloads
  <2>2. CASE Len(queue) < QueueSize /\ queue' = Append(queue, c)
    BY <2>2, Enqueue DEF Inv, PlaceInv, QueueWell
  <2> QED BY <2>1, <2>2
<1>2. TypeOK'
  BY <1>1 DEF Inv, TypeOK, memory, ghosts
<1>3. PlaceInv'
  BY <1>1 DEF Inv, PlaceInv, QueueWell, WellFormed, memory
<1>4. RuleInv'
  BY RulesStay, PendingSame DEF Inv, memory
<1>5. ReloadInv'
  BY <1>1 DEF Inv, ReloadInv
<1> QED
  BY <1>2, <1>3, <1>4, <1>5 DEF Inv

LEMMA AppendAsyncStep ==
    ASSUME Inv, NEW r \in Rules, AppendAsync(r)
    PROVE  Inv'
<1> DEFINE c == Command("append", r, Nobody)
<1>1. c \in Commands /\ WellFormed(c) /\ c.kind # "reload"
  BY CommandFacts
<1>2. commands' \in 0 .. MaxCommands
  BY BoundFacts DEF Inv, AppendAsync
<1>3. client' \in [Clients -> {"idle", "waiting", "ok", "err"}]
  BY DEF Inv, TypeOK, AppendAsync
<1> HIDE DEF c
<1>4. Len(queue) < QueueSize /\ queue' = Append(queue, c)
  BY DEF AppendAsync, c
<1>5. UNCHANGED <<file, memory, worker, cmd, next, accepting, reload, teardown,
                  faults, starts, ghosts>>
  BY DEF AppendAsync, control
<1> QED
  BY <1>1, <1>2, <1>3, <1>4, <1>5, CallerStep

LEMMA CallStep ==
    ASSUME Inv, NEW t \in Clients, NEW kind \in {"append", "remove", "clear"},
           NEW r \in Rules \cup {Nobody}, kind # "clear" => r \in Rules,
           Call(t, kind, r)
    PROVE  Inv'
<1> DEFINE c == Command(kind, r, t)
<1>1. c \in Commands /\ WellFormed(c) /\ c.kind # "reload"
  BY CommandFacts
<1>2. commands' \in 0 .. MaxCommands
  BY BoundFacts DEF Inv, Call
<1>3. client' \in [Clients -> {"idle", "waiting", "ok", "err"}]
  BY DEF Inv, TypeOK, Call
<1> HIDE DEF c
<1>4. \/ Len(queue) < QueueSize /\ queue' = Append(queue, c)
      \/ queue' = queue
  BY DEF Call, c
<1>5. UNCHANGED <<file, memory, worker, cmd, next, accepting, reload, teardown,
                  faults, starts, ghosts>>
  BY DEF Call, control
<1> QED
  BY <1>1, <1>2, <1>3, <1>4, <1>5, CallerStep

LEMMA AppendTimesOutStep ==
    ASSUME Inv, NEW c \in Clients, AppendTimesOut(c)
    PROVE  Inv'
<1>1. /\ queue' \in Seq(Commands) /\ Len(queue') <= QueueSize
      /\ pending' \in Seq(Entries)
      /\ QueueWell' /\ Reloads' = Reloads
      /\ PendingRules' = PendingRules
      /\ pending = <<>> => pending' = <<>>
  BY Abandon DEF Inv, PlaceInv, QueueWell
<1>2. TypeOK'
  BY <1>1 DEF Inv, TypeOK, AppendTimesOut, Entries, bounds, ghosts, control
<1>3. PlaceInv'
  BY <1>1 DEF Inv, PlaceInv, QueueWell, WellFormed, AppendTimesOut
<1>4. RuleInv'
  BY <1>1, RulesStay DEF Inv, AppendTimesOut
<1>5. ReloadInv'
  BY <1>1 DEF Inv, ReloadInv, AppendTimesOut, control
<1> QED
  BY <1>2, <1>3, <1>4, <1>5 DEF Inv

\* Steps of the control that leave queue, rules and worker alone.
LEMMA ControlStep ==
    ASSUME Inv, UNCHANGED <<file, memory, queue, worker, cmd, next, client,
                            faults, starts, ghosts>>,
           commands' \in 0 .. MaxCommands,
           accepting' \in BOOLEAN,
           reload' \in {"none", "locked", "send"},
           teardown' \in {"none", "drain", "destroy", "join"},
           reload' = reload \/ reload # "wait",
           accepting' => teardown' = "none",
           worker = "down" => teardown' = "none",
           teardown' \in {"destroy", "join"} => reload' \in {"none", "locked"}
    PROVE  Inv'
<1>1. TypeOK'
  BY DEF Inv, TypeOK, memory, ghosts
<1>2. PlaceInv'
  BY DEF Inv, PlaceInv, WellFormed, memory
<1>3. RuleInv'
  BY RulesStay, PendingSame DEF Inv, memory
<1>4. Reloads' = Reloads
  BY DEF Reloads
<1>5. ReloadInv'
  BY <1>4 DEF Inv, ReloadInv
<1> QED
  BY <1>1, <1>2, <1>3, <1>5 DEF Inv

LEMMA ReloadCheckStep == Inv /\ (ReloadCheck \/ ReloadLateCheck) => Inv'
<1> SUFFICES ASSUME Inv, ReloadCheck \/ ReloadLateCheck PROVE Inv'
  OBVIOUS
<1>1. commands' \in 0 .. MaxCommands
  BY BoundFacts DEF Inv, ReloadCheck, ReloadLateCheck
<1>2. /\ reload = "none" /\ reload' = "locked"
      /\ UNCHANGED <<file, memory, queue, worker, cmd, next, client, accepting,
                     teardown, faults, starts, ghosts>>
  BY DEF ReloadCheck, ReloadLateCheck
<1>3. /\ accepting \in BOOLEAN /\ teardown \in {"none", "drain", "destroy", "join"}
      /\ accepting => teardown = "none"
      /\ worker = "down" => teardown = "none"
  BY DEF Inv, TypeOK, ReloadInv
<1> QED
  BY <1>1, <1>2, <1>3, ControlStep

\* The second look lets a reload through only before the drain.
LEMMA ReloadRecheckStep == Inv /\ ReloadRecheck => Inv'
<1> SUFFICES ASSUME Inv, ReloadRecheck PROVE Inv'
  OBVIOUS
<1>1. commands' \in 0 .. MaxCommands /\ faults' = faults /\ starts' = starts
  BY DEF Inv, TypeOK, ReloadRecheck, bounds
<1>2. /\ reload = "locked" /\ reload' = (IF accepting THEN "send" ELSE "none")
      /\ UNCHANGED <<file, memory, queue, worker, cmd, next, client, accepting,
                     teardown, ghosts>>
  BY DEF ReloadRecheck
<1>3. /\ accepting \in BOOLEAN /\ teardown \in {"none", "drain", "destroy", "join"}
      /\ accepting => teardown = "none"
      /\ worker = "down" => teardown = "none"
  BY DEF Inv, TypeOK, ReloadInv
<1> QED
  BY <1>1, <1>2, <1>3, ControlStep

LEMMA ReloadSendStep == Inv /\ ReloadSend => Inv'
<1> SUFFICES ASSUME Inv, ReloadSend PROVE Inv'
  OBVIOUS
<1> DEFINE c == Command("reload", Nobody, Nobody)
<1>c. c \in Commands /\ WellFormed(c) /\ c.kind = "reload"
  BY CommandFacts
<1> HIDE DEF c
<1>1. CASE reload' = "none"
  <2>1. /\ queue' = queue
        /\ UNCHANGED <<file, memory, worker, cmd, next, client, accepting,
                       teardown, bounds, ghosts>>
    BY <1>1 DEF ReloadSend
  <2>2. commands' \in 0 .. MaxCommands /\ faults' = faults /\ starts' = starts
    BY <2>1 DEF Inv, TypeOK, bounds
  <2>3. /\ accepting \in BOOLEAN /\ teardown \in {"none", "drain", "destroy", "join"}
        /\ accepting => teardown = "none"
        /\ worker = "down" => teardown = "none"
    BY DEF Inv, TypeOK, ReloadInv
  <2>4. reload = "send"
    BY DEF ReloadSend
  <2> QED BY <1>1, <2>1, <2>2, <2>3, <2>4, ControlStep
<1>2. CASE reload' = "wait"
  <2>1. /\ Len(queue) < QueueSize /\ queue' = Append(queue, c) /\ reload = "send"
        /\ UNCHANGED <<file, memory, worker, cmd, next, client, accepting,
                       teardown, bounds, ghosts>>
    BY <1>2 DEF ReloadSend, c
  <2>2. Reloads = {} /\ cmd.kind # "reload" /\ teardown \notin {"destroy", "join"}
    BY <2>1 DEF Inv, ReloadInv
  <2>3. /\ queue' \in Seq(Commands) /\ Len(queue') <= QueueSize
        /\ QueueWell' /\ \A i, j \in Reloads' : i = j
    BY <1>c, <2>1, <2>2, Enqueue DEF Inv, PlaceInv, QueueWell
  <2>4. TypeOK'
    BY <1>2, <2>1, <2>3 DEF Inv, TypeOK, memory, ghosts, bounds
  <2>5. PlaceInv'
    BY <2>1, <2>3 DEF Inv, PlaceInv, QueueWell, WellFormed, memory
  <2>6. RuleInv'
    BY <2>1, RulesStay, PendingSame DEF Inv, memory
  <2>7. ReloadInv'
    BY <1>2, <2>1, <2>2, <2>3 DEF Inv, ReloadInv
  <2> QED BY <2>4, <2>5, <2>6, <2>7 DEF Inv
<1> QED
  BY <1>1, <1>2 DEF ReloadSend

LEMMA DrainStep == Inv /\ (Drain \/ Drained) => Inv'
<1> SUFFICES ASSUME Inv, Drain \/ Drained PROVE Inv'
  OBVIOUS
<1>1. /\ commands' \in 0 .. MaxCommands /\ faults' = faults /\ starts' = starts
      /\ UNCHANGED <<file, memory, queue, worker, cmd, next, client, reload, ghosts>>
  BY DEF Inv, TypeOK, Drain, Drained, bounds
<1>2. /\ accepting \in BOOLEAN
      /\ worker = "down" => teardown = "none"
      /\ reload \in {"none", "locked", "send", "wait"}
      /\ accepting => teardown = "none"
  BY DEF Inv, TypeOK, ReloadInv
<1>3. CASE Drain
  <2>1. /\ teardown = "none" /\ worker # "down" /\ teardown' = "drain" /\ accepting' = FALSE
    BY <1>3 DEF Drain
  <2>2. TypeOK'
    BY <1>1, <2>1 DEF Inv, TypeOK, memory, ghosts
  <2>3. PlaceInv'
    BY <1>1 DEF Inv, PlaceInv, WellFormed, memory
  <2>4. RuleInv'
    BY <1>1, RulesStay, PendingSame DEF Inv, memory
  <2>5. ReloadInv'
    BY <1>1, <2>1 DEF Inv, ReloadInv, Reloads
  <2> QED BY <2>2, <2>3, <2>4, <2>5 DEF Inv
<1>4. CASE Drained
  <2>1. /\ teardown = "drain" /\ reload = "none" /\ teardown' = "destroy"
        /\ accepting' = accepting
    BY <1>4 DEF Drained
  <2>2. /\ accepting' \in BOOLEAN /\ ~accepting' /\ worker # "down"
        /\ reload' = "none" /\ reload' = reload
    BY <1>1, <1>2, <2>1
  <2> QED
    BY <1>1, <2>1, <2>2, ControlStep
<1> QED
  BY <1>3, <1>4

LEMMA DestroyStep == Inv /\ Destroy => Inv'
<1> SUFFICES ASSUME Inv, Destroy PROVE Inv'
  OBVIOUS
<1> DEFINE c == Command("shutdown", Nobody, Nobody)
<1>1. c \in Commands /\ WellFormed(c) /\ c.kind # "reload"
  BY CommandFacts
<1> HIDE DEF c
<1>2. /\ Len(queue) < QueueSize /\ queue' = Append(queue, c)
      /\ teardown = "destroy" /\ teardown' = "join"
      /\ UNCHANGED <<file, memory, worker, cmd, next, client, accepting, reload,
                     bounds, ghosts>>
  BY DEF Destroy, c
<1>3. /\ commands' \in 0 .. MaxCommands /\ faults' = faults /\ starts' = starts
      /\ client' \in [Clients -> {"idle", "waiting", "ok", "err"}]
  BY <1>2 DEF Inv, TypeOK, bounds
<1> QED
  BY <1>1, <1>2, <1>3, CallerStep

\* The place of the worker matters to the rules only in these places.
LEMMA RulesMove ==
    ASSUME RuleInv, PendingRules' = PendingRules,
           worker \notin {"install", "publish", "down"},
           worker' \notin {"install", "publish"},
           UNCHANGED <<file, known, snapshot, ghosts>>
    PROVE  RuleInv'
BY DEF RuleInv, AcknowledgedLasts, FlushedIsDurable, RemovedStaysRemoved, ghosts

LEMMA JoinedStep == Inv /\ Joined => Inv'
<1> SUFFICES ASSUME Inv, Joined PROVE Inv'
  OBVIOUS
<1>1. /\ worker = "stopped" /\ worker' = "down" /\ teardown = "join" /\ teardown' = "none"
      /\ UNCHANGED <<file, memory, queue, cmd, next, client, accepting, reload,
                     bounds, ghosts>>
  BY DEF Joined
<1>2. TypeOK'
  BY <1>1 DEF Inv, TypeOK, memory, bounds, ghosts, Places
<1>3. PlaceInv'
  BY <1>1 DEF Inv, PlaceInv, WellFormed, memory
<1>4. RuleInv'
  BY <1>1, RulesMove, PendingSame DEF Inv, memory
<1>5. ReloadInv'
  BY <1>1 DEF Inv, ReloadInv, Reloads
<1> QED
  BY <1>2, <1>3, <1>4, <1>5 DEF Inv
-----------------------------------------------------------------------------
(***************************************************************************)
(* The worker.                                                             *)
(***************************************************************************)
LEMMA ReloadStay ==
    ASSUME ReloadInv, UNCHANGED <<queue, cmd, reload, accepting, teardown>>,
           worker' # "down"
    PROVE  ReloadInv'
BY DEF ReloadInv, Reloads

LEMMA ReloadFinish ==
    ASSUME ReloadInv, UNCHANGED <<queue, accepting, teardown>>, worker' # "down",
           NEW how, Finish(how)
    PROVE  ReloadInv'
<1>1. cmd'.kind = "none" /\ Reloads' = Reloads
  BY CommandFacts DEF Finish, Reloads
<1>2. reload' = IF cmd.kind = "reload" THEN "none" ELSE reload
  BY DEF Finish
<1> QED
  BY <1>1, <1>2 DEF ReloadInv

LEMMA QueueStays ==
    ASSUME PlaceInv, queue' = queue
    PROVE  \A i \in DOMAIN queue' : WellFormed(queue'[i])
BY DEF PlaceInv, WellFormed

\* An append joins the batch, unless its rule is there already.
LEMMA StageStep == Inv /\ Stage => Inv'
<1> SUFFICES ASSUME Inv, Stage PROVE Inv'
  OBVIOUS
<1> DEFINE c == Head(queue)
<1>1. /\ worker = "idle" /\ queue # <<>> /\ c.kind = "append" /\ queue' = Tail(queue)
      /\ UNCHANGED <<file, snapshot, cmd, next, control, bounds, edited, unsettled,
                     durable>>
  BY DEF Stage, Take
<1>2. /\ queue' \in Seq(Commands) /\ Len(queue') <= QueueSize /\ QueueWell'
      /\ c \in Commands /\ WellFormed(c)
      /\ \A i, j \in Reloads' : i = j
      /\ Reloads = {} => Reloads' = {}
  BY <1>1, Dequeue DEF Inv, PlaceInv, QueueWell, ReloadInv
<1>3. c.rule \in Rules /\ c.wait \in Clients \cup {Nobody} /\ cmd = NoCommand
  BY <1>1, <1>2, CommandFacts DEF WellFormed, Inv, PlaceInv
<1>4. CASE c.rule \in known
  <2>1. client' = Answered({c.wait}, "ok") /\ UNCHANGED <<known, pending, worker, gone>>
    BY <1>4 DEF Stage
  <2>2. client' \in [Clients -> {"idle", "waiting", "ok", "err"}]
    BY <2>1, AnsweredFacts DEF Inv
  <2>3. TypeOK'
    BY <1>1, <1>2, <2>1, <2>2 DEF Inv, TypeOK, control, bounds
  <2>4. PlaceInv'
    BY <1>1, <1>2, <2>1 DEF Inv, PlaceInv, QueueWell, WellFormed
  <2>5. RuleInv'
    BY <1>1, <2>1, RulesMove, PendingSame DEF Inv, ghosts
  <2>6. ReloadInv'
    BY <1>1, <1>2, <2>1 DEF Inv, ReloadInv, control
  <2> QED BY <2>3, <2>4, <2>5, <2>6 DEF Inv
<1>5. CASE c.rule \notin known
  <2> DEFINE e == [rule |-> c.rule, wait |-> c.wait]
  <2>1. /\ known' = known \cup {c.rule} /\ pending' = Append(pending, e)
        /\ worker' \in {"flush", "idle"} /\ gone' = gone \ {c.rule} /\ client' = client
    BY <1>5 DEF Stage
  <2>2. e \in Entries /\ e.rule = c.rule
    BY <1>3 DEF Entries
  <2>3. pending \in Seq(Entries)
    BY DEF Inv, TypeOK, Entries
  <2>4. /\ pending' \in Seq(Entries)
        /\ DOMAIN pending = 1 .. Len(pending) /\ DOMAIN pending' = 1 .. Len(pending) + 1
        /\ pending'[Len(pending) + 1] = e /\ Len(pending) \in Nat
        /\ \A i \in 1 .. Len(pending) : pending'[i] = pending[i]
    BY <2>1, <2>2, <2>3, SeqFacts
  <2>5. PendingRules' = PendingRules \cup {c.rule}
    <3>1. \A i \in DOMAIN pending' : i \in DOMAIN pending \/ i = Len(pending) + 1
      BY <2>4
    <3>2. \A x : x \in PendingRules' <=> x \in PendingRules \cup {c.rule}
      BY <2>2, <2>4, <3>1 DEF PendingRules
    <3> QED BY <3>2
  <2>6. TypeOK'
    BY <1>1, <1>2, <1>3, <2>1, <2>4 DEF Inv, TypeOK, Entries, control, bounds, Places, Lines
  <2>7. PlaceInv'
    BY <1>1, <1>2, <1>3, <2>1, CommandFacts DEF Inv, PlaceInv, QueueWell, WellFormed
  <2>8. RuleInv'
    <3>1. PendingRules \subseteq known /\ snapshot = known \ PendingRules
      BY DEF Inv, RuleInv
    <3>2. snapshot' = known' \ PendingRules' /\ PendingRules' \subseteq known'
      BY <1>1, <1>5, <2>1, <2>5, <3>1
    <3>3. AcknowledgedLasts'
      BY <1>1, <2>1 DEF Inv, RuleInv, AcknowledgedLasts, FlushedIsDurable, RemovedStaysRemoved
    <3> QED
      BY <1>1, <2>1, <3>2, <3>3 DEF Inv, RuleInv
  <2>9. ReloadInv'
    BY <1>1, <1>2, <2>1 DEF Inv, ReloadInv, control
  <2> QED BY <2>6, <2>7, <2>8, <2>9 DEF Inv
<1> QED
  BY <1>4, <1>5

LEMMA TickStep == Inv /\ Tick => Inv'
<1> SUFFICES ASSUME Inv, Tick PROVE Inv'
  OBVIOUS
<1>1. /\ worker = "idle" /\ worker' = "flush"
      /\ UNCHANGED <<file, memory, queue, cmd, next, client, control, bounds, ghosts>>
  BY DEF Tick
<1>2. TypeOK'
  BY <1>1 DEF Inv, TypeOK, memory, control, bounds, ghosts, Places
<1>3. PlaceInv'
  BY <1>1, QueueStays DEF Inv, PlaceInv, WellFormed
<1>4. RuleInv'
  BY <1>1, RulesMove, PendingSame DEF Inv, memory
<1>5. ReloadInv'
  BY <1>1, ReloadStay DEF Inv, control
<1> QED
  BY <1>2, <1>3, <1>4, <1>5 DEF Inv

\* Another command waits until the batch is flushed.
LEMMA TakeOtherStep == Inv /\ TakeOther => Inv'
<1> SUFFICES ASSUME Inv, TakeOther PROVE Inv'
  OBVIOUS
<1>1. /\ worker = "idle" /\ queue # <<>> /\ queue' = Tail(queue)
      /\ Head(queue).kind \in {"remove", "clear", "reload", "shutdown"}
      /\ cmd' = Head(queue)
      /\ worker' = IF pending = <<>> THEN "execute" ELSE "flush"
      /\ UNCHANGED <<file, memory, next, client, control, bounds, ghosts>>
  BY DEF TakeOther, Take
<1>2. /\ queue' \in Seq(Commands) /\ Len(queue') <= QueueSize /\ QueueWell'
      /\ cmd' \in Commands /\ WellFormed(cmd')
      /\ \A i, j \in Reloads' : i = j
      /\ cmd'.kind = "reload" => Reloads' = {}
      /\ Reloads = {} => Reloads' = {} /\ cmd'.kind # "reload"
  BY <1>1, Dequeue DEF Inv, PlaceInv, QueueWell, ReloadInv
<1>3. TypeOK'
  BY <1>1, <1>2 DEF Inv, TypeOK, memory, control, bounds, ghosts, Places
<1>4. cmd' # NoCommand /\ WellFormed(cmd)' /\ cmd'.kind # "append"
  BY <1>1, <1>2, CommandFacts DEF WellFormed
<1>5. PlaceInv'
  BY <1>1, <1>2, <1>4 DEF Inv, PlaceInv, QueueWell, memory
<1>6. RuleInv'
  BY <1>1, RulesMove, PendingSame DEF Inv, memory
<1>7. ReloadInv'
  BY <1>1, <1>2 DEF Inv, ReloadInv, control
<1> QED
  BY <1>3, <1>5, <1>6, <1>7 DEF Inv

\* The flush writes the batch, all of it or a part.
LEMMA FlushStep == Inv /\ (FlushWritten \/ FlushBroken) => Inv'
<1> SUFFICES ASSUME Inv, FlushWritten \/ FlushBroken PROVE Inv'
  OBVIOUS
<1>1. /\ worker = "flush"
      /\ UNCHANGED <<memory, queue, cmd, next, client, control, commands, starts,
                     edited, durable, gone>>
  BY DEF FlushWritten, FlushBroken, bounds, ghosts
<1>2. PendingRules' = PendingRules
  BY <1>1, PendingSame DEF memory
<1>3. /\ PendingRules \subseteq known /\ snapshot = known \ PendingRules
      /\ ~edited => file \cup unsettled = snapshot \cup unsettled
      /\ gone \cap known = {} /\ gone \subseteq Rules /\ AcknowledgedLasts
      /\ PendingRules \subseteq Lines /\ Torn \notin Rules
  BY <1>1, PendingFacts, DynamicDomainSetAssumption
  DEF Inv, RuleInv, AcknowledgedLasts, RemovedStaysRemoved, TypeOK, Lines
<1>4. CASE FlushWritten
  <2>1. /\ file' = file \cup PendingRules /\ worker' = "publish" /\ faults' = faults
        /\ unsettled' = unsettled
    BY <1>4 DEF FlushWritten, bounds, ghosts
  <2>2. TypeOK'
    BY <1>1, <1>3, <2>1 DEF Inv, TypeOK, memory, control, Places
  <2>3. PlaceInv'
    BY <1>1, <2>1, QueueStays DEF Inv, PlaceInv, WellFormed
  <2>4. AcknowledgedLasts'
    BY <1>1, <1>3, <2>1 DEF AcknowledgedLasts, FlushedIsDurable, RemovedStaysRemoved,
       memory
  <2>5. ~edited' => /\ file' \cup unsettled' = known' \cup unsettled'
                    /\ PendingRules \subseteq file'
    BY <1>1, <1>3, <2>1 DEF memory
  <2>6. RuleInv'
    BY <1>1, <1>2, <1>3, <2>1, <2>4, <2>5 DEF RuleInv, memory
  <2>7. ReloadInv'
    BY <1>1, <2>1, ReloadStay DEF Inv, control
  <2> QED BY <2>2, <2>3, <2>6, <2>7 DEF Inv
<1>5. CASE FlushBroken
  <2>1. worker' = "rollback"
    BY <1>5 DEF FlushBroken
  <2>2. faults' \in 0 .. MaxFaults
    BY <1>5, BoundFacts DEF FlushBroken, Inv, TypeOK
  <2>3. PICK new \in SUBSET (PendingRules \cup {Torn}) :
            /\ file' = file \cup new
            /\ unsettled \cup new \subseteq unsettled'
            /\ unsettled' \subseteq unsettled \cup PendingRules \cup {Torn}
    <3>1. CASE known \cap Bad # {} /\ UNCHANGED <<file, faults, unsettled>>
      <4> WITNESS {} \in SUBSET (PendingRules \cup {Torn})
      <4> QED BY <3>1
    <3>2. CASE ~(known \cap Bad # {} /\ UNCHANGED <<file, faults, unsettled>>)
      <4>1. PICK n \in 0 .. Len(pending), cut \in {{}, {Torn}} :
                /\ file' = file \cup {pending[i].rule : i \in 1 .. n} \cup cut
                /\ unsettled' = unsettled \cup PendingRules \cup cut
        BY <1>5, <3>2 DEF FlushBroken
      <4> DEFINE new == {pending[i].rule : i \in 1 .. n} \cup cut
      <4>2. {pending[i].rule : i \in 1 .. n} \subseteq PendingRules
        BY <4>1, PendingFacts DEF Inv
      <4>3. /\ new \in SUBSET (PendingRules \cup {Torn}) /\ file' = file \cup new
            /\ new \subseteq PendingRules \cup cut /\ cut \subseteq {Torn}
        BY <4>1, <4>2
      <4> HIDE DEF new
      <4> QED BY <4>1, <4>3
    <3> QED BY <3>1, <3>2
  <2>4. TypeOK'
    <3>1. file' \subseteq Lines /\ unsettled' \subseteq Lines
      BY <1>3, <2>3 DEF Inv, TypeOK, Lines
    <3> QED
      BY <1>1, <2>1, <2>2, <3>1 DEF Inv, TypeOK, memory, control, Places
  <2>5. PlaceInv'
    BY <1>1, <2>1, QueueStays DEF Inv, PlaceInv, WellFormed
  <2>6. AcknowledgedLasts'
    BY <1>1, <1>3, <2>3 DEF AcknowledgedLasts, FlushedIsDurable, RemovedStaysRemoved,
       memory
  <2>7. RuleInv'
    <3>1. ~edited => file' \cup unsettled' = snapshot \cup unsettled'
      BY <1>3, <2>3
    <3> QED
      BY <1>1, <1>2, <1>3, <2>1, <2>6, <3>1 DEF RuleInv, memory
  <2>8. ReloadInv'
    BY <1>1, <2>1, ReloadStay DEF Inv, control
  <2> QED BY <2>4, <2>5, <2>7, <2>8 DEF Inv
<1> QED
  BY <1>4, <1>5

LEMMA AfterFlushFacts ==
    ASSUME PlaceInv, worker' = AfterFlush, cmd' = cmd, queue' = queue, pending' = <<>>
    PROVE  worker' \in {"idle", "execute"} /\ PlaceInv'
<1>1. \/ cmd = NoCommand /\ worker' = "idle"
      \/ cmd # NoCommand /\ worker' = "execute"
  BY DEF AfterFlush
<1> QED
  BY <1>1, QueueStays DEF PlaceInv, WellFormed, NoCommand, Command

\* A written batch is published.
LEMMA PublishStep == Inv /\ Publish => Inv'
<1> SUFFICES ASSUME Inv, Publish PROVE Inv'
  OBVIOUS
<1>1. /\ worker = "publish" /\ snapshot' = known /\ pending' = <<>>
      /\ client' = Answered(Waiters, "ok")
      /\ durable' = IF edited THEN durable ELSE durable \cup PendingRules
      /\ unsettled' = unsettled \ PendingRules
      /\ worker' = AfterFlush
      /\ UNCHANGED <<file, known, queue, cmd, next, control, bounds, edited, gone>>
  BY DEF Publish
<1>2. worker' \in {"idle", "execute"} /\ PlaceInv'
  BY <1>1, AfterFlushFacts DEF Inv
<1>3. PendingRules' = {}
  BY <1>1 DEF PendingRules
<1>4. /\ PendingRules \subseteq known /\ PendingRules \subseteq Lines
      /\ ~edited => /\ file \cup unsettled = known \cup unsettled
                    /\ PendingRules \subseteq file
      /\ AcknowledgedLasts
  BY <1>1, PendingFacts DEF Inv, RuleInv, Lines
<1>5. TypeOK'
  <2>1. client' \in [Clients -> {"idle", "waiting", "ok", "err"}]
    BY <1>1, AnsweredFacts DEF Inv
  <2>2. pending' \in Seq([rule : Rules, wait : Clients \cup {Nobody}])
    BY <1>1
  <2>3. durable' \subseteq Lines /\ unsettled' \subseteq Lines
    BY <1>1, <1>4 DEF Inv, TypeOK
  <2> QED
    BY <1>1, <1>2, <2>1, <2>2, <2>3 DEF Inv, TypeOK, control, bounds, Places
<1>6. AcknowledgedLasts'
  <2>1. durable' \subseteq file'
    BY <1>1, <1>4 DEF AcknowledgedLasts, FlushedIsDurable
  <2> QED
    BY <1>1, <1>4, <2>1 DEF AcknowledgedLasts, FlushedIsDurable, RemovedStaysRemoved
<1>7. RuleInv'
  <2>1. ~edited => file' \cup unsettled' = snapshot' \cup unsettled'
    BY <1>1, <1>4
  <2> QED
    BY <1>1, <1>2, <1>3, <1>6, <2>1 DEF RuleInv
<1>8. ReloadInv'
  BY <1>1, <1>2, ReloadStay DEF Inv, control
<1> QED
  BY <1>2, <1>5, <1>7, <1>8 DEF Inv

\* A batch that failed leaves memory as it was before.
LEMMA RollbackStep == Inv /\ Rollback => Inv'
<1> SUFFICES ASSUME Inv, Rollback PROVE Inv'
  OBVIOUS
<1>1. /\ worker = "rollback" /\ known' = known \ PendingRules /\ pending' = <<>>
      /\ client' = Answered(Waiters, "err")
      /\ worker' = AfterFlush
      /\ UNCHANGED <<file, snapshot, queue, cmd, next, control, bounds, ghosts>>
  BY DEF Rollback
<1>2. worker' \in {"idle", "execute"} /\ PlaceInv'
  BY <1>1, AfterFlushFacts DEF Inv
<1>3. PendingRules' = {}
  BY <1>1 DEF PendingRules
<1>4. /\ snapshot = known \ PendingRules
      /\ ~edited => file \cup unsettled = snapshot \cup unsettled
      /\ AcknowledgedLasts
  BY <1>1 DEF Inv, RuleInv
<1>5. TypeOK'
  <2>1. client' \in [Clients -> {"idle", "waiting", "ok", "err"}]
    BY <1>1, AnsweredFacts DEF Inv
  <2>2. pending' \in Seq([rule : Rules, wait : Clients \cup {Nobody}])
    BY <1>1
  <2>3. known' \subseteq Lines
    BY <1>1 DEF Inv, TypeOK
  <2> QED
    BY <1>1, <1>2, <2>1, <2>2, <2>3 DEF Inv, TypeOK, control, bounds, ghosts, Places
<1>6. AcknowledgedLasts'
  BY <1>1, <1>4 DEF AcknowledgedLasts, FlushedIsDurable, RemovedStaysRemoved, ghosts
<1>7. RuleInv'
  BY <1>1, <1>2, <1>3, <1>4, <1>6 DEF RuleInv, ghosts
<1>8. ReloadInv'
  BY <1>1, <1>2, ReloadStay DEF Inv, control
<1> QED
  BY <1>2, <1>5, <1>7, <1>8 DEF Inv

LEMMA FinishFacts ==
    ASSUME Inv, NEW how \in {"ok", "err"}, Finish(how), queue' = queue,
           pending' = pending, worker = "execute" \/ worker = "install", worker' = "idle"
    PROVE  /\ client' \in [Clients -> {"idle", "waiting", "ok", "err"}]
           /\ reload' \in {"none", "locked", "send", "wait"}
           /\ cmd' = NoCommand /\ cmd' \in Commands
           /\ PlaceInv' /\ PendingRules = {} /\ PendingRules' = {}
<1>1. pending = <<>> /\ PlaceInv
  BY DEF Inv, PlaceInv
<1>2. client' = Answered({cmd.wait}, how) /\ cmd' = NoCommand
      /\ reload' = IF cmd.kind = "reload" THEN "none" ELSE reload
  BY DEF Finish
<1>3. PlaceInv'
  BY <1>1, <1>2, QueueStays DEF PlaceInv, WellFormed
<1> QED
  BY <1>1, <1>2, <1>3, AnsweredFacts, CommandFacts DEF Inv, TypeOK, PendingRules

\* Commands that change no rule: a removal of nothing, and one that failed.
LEMMA FailStep == Inv /\ (RemoveNothing \/ ExecuteFails) => Inv'
<1> SUFFICES ASSUME Inv, RemoveNothing \/ ExecuteFails PROVE Inv'
  OBVIOUS
<1>1. /\ worker = "execute" /\ worker' = "idle"
      /\ UNCHANGED <<file, memory, queue, next, accepting, teardown, commands,
                     starts, ghosts>>
  BY DEF RemoveNothing, ExecuteFails, Mutation, bounds
<1>2. PICK how \in {"ok", "err"} : Finish(how)
  BY DEF RemoveNothing, ExecuteFails
<1>3. faults' \in 0 .. MaxFaults
  BY BoundFacts DEF RemoveNothing, ExecuteFails, Inv, TypeOK, bounds
<1>4. /\ client' \in [Clients -> {"idle", "waiting", "ok", "err"}]
      /\ reload' \in {"none", "locked", "send", "wait"}
      /\ cmd' = NoCommand /\ cmd' \in Commands
      /\ PlaceInv' /\ PendingRules' = PendingRules
  BY <1>1, <1>2, FinishFacts DEF memory
<1>5. TypeOK'
  BY <1>1, <1>3, <1>4 DEF Inv, TypeOK, memory, ghosts, Places
<1>6. RuleInv'
  BY <1>1, <1>4, RulesMove DEF Inv, memory
<1>7. ReloadInv'
  BY <1>1, <1>2, ReloadFinish DEF Inv
<1> QED
  BY <1>4, <1>5, <1>6, <1>7 DEF Inv

\* What a command leaves is written to the file, or read from it.
LEMMA ExecuteStep == Inv /\ Execute => Inv'
<1> SUFFICES ASSUME Inv, Execute PROVE Inv'
  OBVIOUS
<1>1. /\ worker = "execute" /\ worker' = "install" /\ cmd.kind \in Mutations
      /\ next' = Outcome /\ file' = Outcome /\ edited' = FALSE /\ unsettled' = {}
      /\ durable' = IF cmd.kind = "reload" THEN durable ELSE durable \cap Outcome
      /\ UNCHANGED <<memory, queue, cmd, client, control, bounds, gone>>
  BY DEF Execute, Mutation, Mutations
<1>2. /\ cmd.kind = "remove" => Outcome = known \ {cmd.rule}
      /\ cmd.kind = "clear" => Outcome = {}
      /\ cmd.kind = "reload" => Outcome = file
  BY DEF Outcome
<1>3. /\ file \subseteq Lines /\ known \subseteq Lines /\ durable \subseteq file
      /\ gone \cap (file \cup snapshot \cup known) = {}
  BY DEF Inv, TypeOK, RuleInv, AcknowledgedLasts, FlushedIsDurable, RemovedStaysRemoved
<1>4. /\ Outcome \subseteq Lines /\ gone \cap Outcome = {}
      /\ cmd.kind = "remove" => cmd.rule \notin Outcome
      /\ durable' \subseteq Outcome
  BY <1>1, <1>2, <1>3 DEF Mutations
<1> HIDE DEF Outcome
<1>5. TypeOK'
  <2>1. next' \subseteq Lines /\ file' \subseteq Lines /\ durable' \subseteq Lines
    BY <1>1, <1>4
  <2> QED
    BY <1>1, <2>1 DEF Inv, TypeOK, memory, control, bounds, Places
<1>6. PlaceInv'
  BY <1>1, QueueStays DEF Inv, PlaceInv, WellFormed, memory
<1>7. AcknowledgedLasts'
  BY <1>1, <1>3, <1>4 DEF AcknowledgedLasts, FlushedIsDurable, RemovedStaysRemoved, memory
<1>8. PendingRules' = PendingRules
  BY <1>1, PendingSame DEF memory
<1>9. RuleInv'
  BY <1>1, <1>4, <1>7, <1>8 DEF Inv, RuleInv, memory
<1>10. ReloadInv'
  BY <1>1, ReloadStay DEF Inv, control
<1> QED
  BY <1>5, <1>6, <1>9, <1>10 DEF Inv

\* The file is replaced, and then the command fails: what memory has and the
\* file lacks is unsettled.
LEMMA FailLateStep == Inv /\ ExecuteFailsLate => Inv'
<1> SUFFICES ASSUME Inv, ExecuteFailsLate PROVE Inv'
  OBVIOUS
<1>1. /\ worker = "execute" /\ worker' = "idle" /\ cmd.kind \in {"remove", "clear"}
      /\ file' = Outcome /\ edited' = FALSE /\ unsettled' = known \ Outcome
      /\ durable' = durable \cap Outcome
      /\ UNCHANGED <<memory, queue, next, accepting, teardown, commands, starts, gone>>
  BY DEF ExecuteFailsLate, Mutation
<1>2. Finish("err")
  BY DEF ExecuteFailsLate
<1>3. faults' \in 0 .. MaxFaults
  BY BoundFacts DEF ExecuteFailsLate, Inv, TypeOK
<1>4. /\ client' \in [Clients -> {"idle", "waiting", "ok", "err"}]
      /\ reload' \in {"none", "locked", "send", "wait"}
      /\ cmd' = NoCommand /\ cmd' \in Commands
      /\ PlaceInv' /\ PendingRules = {} /\ PendingRules' = {}
  BY <1>1, <1>2, FinishFacts DEF memory
<1>5. /\ cmd.kind = "remove" => Outcome = known \ {cmd.rule}
      /\ cmd.kind = "clear" => Outcome = {}
  BY DEF Outcome
<1>6. /\ Outcome \subseteq known /\ known \subseteq Lines /\ durable \subseteq Lines
      /\ gone \cap (file \cup snapshot \cup known) = {}
      /\ snapshot = known
  BY <1>1, <1>4, <1>5 DEF Inv, TypeOK, RuleInv, AcknowledgedLasts, RemovedStaysRemoved
<1> HIDE DEF Outcome
<1>7. TypeOK'
  <2>1. file' \subseteq Lines /\ unsettled' \subseteq Lines /\ durable' \subseteq Lines
    BY <1>1, <1>6
  <2> QED
    BY <1>1, <1>3, <1>4, <2>1 DEF Inv, TypeOK, memory, Places
<1>8. AcknowledgedLasts'
  BY <1>1, <1>6 DEF AcknowledgedLasts, FlushedIsDurable, RemovedStaysRemoved, memory
<1>9. RuleInv'
  <2>1. known' = known /\ snapshot' = known
    BY <1>1, <1>6 DEF memory
  <2>2. file' \cup unsettled' = snapshot' \cup unsettled'
    BY <1>1, <1>6, <2>1
  <2> QED
    BY <1>1, <1>4, <1>8, <2>1, <2>2 DEF RuleInv
<1>10. ReloadInv'
  BY <1>1, <1>2, ReloadFinish DEF Inv
<1> QED
  BY <1>4, <1>7, <1>9, <1>10 DEF Inv

\* Memory takes over what the file was given.
LEMMA InstallStep == Inv /\ Install => Inv'
<1> SUFFICES ASSUME Inv, Install PROVE Inv'
  OBVIOUS
<1>1. /\ worker = "install" /\ worker' = "idle" /\ Finish("ok")
      /\ known' = next /\ snapshot' = next /\ next' = {}
      /\ gone' = IF cmd.kind = "remove" /\ ~edited
                 THEN gone \cup {cmd.rule} ELSE gone \ next
      /\ UNCHANGED <<file, pending, queue, accepting, teardown, bounds, edited,
                     unsettled, durable>>
  BY DEF Install
<1>2. /\ client' \in [Clients -> {"idle", "waiting", "ok", "err"}]
      /\ reload' \in {"none", "locked", "send", "wait"}
      /\ cmd' = NoCommand /\ cmd' \in Commands
      /\ PlaceInv' /\ PendingRules' = {}
  BY <1>1, FinishFacts
<1>3. /\ ~edited => next = file
      /\ cmd.kind = "remove" => cmd.rule \notin next
      /\ gone \cap next = {} /\ gone \cap file = {} /\ durable \subseteq file
      /\ gone \subseteq Rules /\ next \subseteq Lines
  BY <1>1 DEF Inv, TypeOK, RuleInv, AcknowledgedLasts, FlushedIsDurable, RemovedStaysRemoved
<1>4. cmd.kind = "remove" => cmd.rule \in Rules
  BY <1>1 DEF Inv, PlaceInv, WellFormed
<1>5. gone' \subseteq Rules /\ gone' \cap (file' \cup snapshot' \cup known') = {}
  BY <1>1, <1>3, <1>4
<1>6. TypeOK'
  <2>1. known' \subseteq Lines /\ snapshot' \subseteq Lines /\ next' \subseteq Lines
    BY <1>1, <1>3
  <2> QED
    BY <1>1, <1>2, <1>5, <2>1 DEF Inv, TypeOK, bounds, Places
<1>7. AcknowledgedLasts'
  BY <1>1, <1>3, <1>5 DEF AcknowledgedLasts, FlushedIsDurable, RemovedStaysRemoved
<1>8. RuleInv'
  BY <1>1, <1>2, <1>3, <1>7 DEF RuleInv
<1>9. ReloadInv'
  BY <1>1, ReloadFinish DEF Inv
<1> QED
  BY <1>2, <1>6, <1>8, <1>9 DEF Inv

\* The worker stops and drops what is behind the shutdown.
LEMMA StopStep == Inv /\ Stop => Inv'
<1> SUFFICES ASSUME Inv, Stop PROVE Inv'
  OBVIOUS
<1>1. /\ worker = "execute" /\ worker' = "stopped" /\ cmd' = NoCommand /\ queue' = <<>>
      /\ client' = Answered({queue[i].wait : i \in DOMAIN queue}, "err")
      /\ reload' \in {"none", reload} /\ cmd.kind = "shutdown"
      /\ Reloads # {} => reload' = "none"
      /\ UNCHANGED <<file, memory, next, accepting, teardown, bounds, ghosts>>
  BY DEF Stop, Reloads
<1>2. client' \in [Clients -> {"idle", "waiting", "ok", "err"}]
  BY <1>1, AnsweredFacts DEF Inv
<1>3. queue' \in Seq(Commands) /\ DOMAIN queue' = {} /\ Len(queue') <= QueueSize
  BY <1>1, DynamicDomainSetAssumption
<1>4. TypeOK'
  BY <1>1, <1>2, <1>3, CommandFacts DEF Inv, TypeOK, memory, bounds, ghosts, Places
<1>5. PlaceInv'
  BY <1>1, <1>3 DEF Inv, PlaceInv, WellFormed, memory
<1>6. RuleInv'
  BY <1>1, RulesMove, PendingSame DEF Inv, memory
<1>7. Reloads' = {} /\ cmd'.kind = "none"
  BY <1>1, <1>3, CommandFacts DEF Reloads
<1>8. ReloadInv'
  BY <1>1, <1>7 DEF Inv, ReloadInv
<1> QED
  BY <1>4, <1>5, <1>6, <1>8 DEF Inv
-----------------------------------------------------------------------------
(***************************************************************************)
(* What happens around the provider.                                       *)
(***************************************************************************)
\* After an edit the file is not held against memory until it is read.
LEMMA EditStep == Inv /\ Edit => Inv'
<1> SUFFICES ASSUME Inv, Edit PROVE Inv'
  OBVIOUS
<1>1. /\ file' \subseteq Lines /\ edited' = TRUE /\ unsettled' = {}
      /\ durable' = {} /\ gone' = {}
      /\ UNCHANGED <<memory, queue, worker, cmd, next, client, control, commands,
                     starts>>
  BY DEF Edit
<1>2. faults' \in 0 .. MaxFaults
  BY BoundFacts DEF Inv, Edit
<1>3. TypeOK'
  BY <1>1, <1>2 DEF Inv, TypeOK, memory, control
<1>4. PlaceInv'
  BY <1>1, QueueStays DEF Inv, PlaceInv, WellFormed, memory
<1>5. AcknowledgedLasts' /\ PendingRules' = PendingRules
  BY <1>1, PendingSame DEF AcknowledgedLasts, FlushedIsDurable, RemovedStaysRemoved, memory
<1>6. RuleInv'
  BY <1>1, <1>5 DEF Inv, RuleInv, memory
<1>7. ReloadInv'
  BY <1>1 DEF Inv, ReloadInv, Reloads, control
<1> QED
  BY <1>3, <1>4, <1>6, <1>7 DEF Inv

\* A crash loses memory, and leaves of an append under way what it wrote.
LEMMA CrashStep == Inv /\ Crash => Inv'
<1> SUFFICES ASSUME Inv, Crash PROVE Inv'
  OBVIOUS
<1>1. /\ worker' = "down" /\ cmd' = NoCommand /\ next' = {}
      /\ known' = {} /\ snapshot' = {} /\ pending' = <<>> /\ queue' = <<>>
      /\ client' = [c \in Clients |-> "idle"]
      /\ accepting' = FALSE /\ reload' = "none" /\ teardown' = "none"
      /\ UNCHANGED <<commands, starts, ghosts>>
  BY DEF Crash
<1>2. faults' \in 0 .. MaxFaults
  BY BoundFacts DEF Inv, Crash
<1>3. file \subseteq file' /\ file' \subseteq file \cup known \cup {Torn}
  <2>1. CASE file' = file
    BY <2>1
  <2>2. CASE file' # file
    <3>1. PICK n \in 0 .. Len(pending), cut \in {{}, {Torn}} :
              file' = file \cup {pending[i].rule : i \in 1 .. n} \cup cut
      BY <2>2 DEF Crash
    <3>2. {pending[i].rule : i \in 1 .. n} \subseteq PendingRules
      BY <3>1, PendingFacts DEF Inv
    <3>3. PendingRules \subseteq known
      BY DEF Inv, RuleInv
    <3> QED BY <3>1, <3>2, <3>3
  <2> QED BY <2>1, <2>2
<1>4. file' \subseteq Lines
  BY <1>3 DEF Inv, TypeOK, Lines
<1>5. /\ queue' \in Seq(Commands) /\ DOMAIN queue' = {} /\ Len(queue') <= QueueSize
      /\ pending' \in Seq([rule : Rules, wait : Clients \cup {Nobody}])
      /\ DOMAIN pending' = {}
  BY <1>1, DynamicDomainSetAssumption
<1>6. TypeOK'
  BY <1>1, <1>2, <1>4, <1>5, CommandFacts DEF Inv, TypeOK, ghosts, Places
<1>7. PlaceInv'
  BY <1>1, <1>5 DEF Inv, PlaceInv, WellFormed
<1>8. AcknowledgedLasts'
  <2>1. /\ durable \subseteq file /\ gone \cap (file \cup known) = {}
        /\ gone \subseteq Rules /\ Torn \notin Rules
    BY DynamicDomainSetAssumption
    DEF Inv, TypeOK, RuleInv, AcknowledgedLasts, FlushedIsDurable, RemovedStaysRemoved
  <2> QED
    BY <1>1, <1>3, <2>1 DEF AcknowledgedLasts, FlushedIsDurable, RemovedStaysRemoved, ghosts
<1>9. PendingRules' = {}
  BY <1>5 DEF PendingRules
<1>10. RuleInv'
  BY <1>1, <1>8, <1>9 DEF RuleInv
<1>11. Reloads' = {} /\ cmd'.kind = "none"
  BY <1>1, <1>5, CommandFacts DEF Reloads
<1>12. ReloadInv'
  BY <1>1, <1>11 DEF ReloadInv
<1> QED
  BY <1>6, <1>7, <1>10, <1>12 DEF Inv

\* The next provider knows what is on file.
LEMMA StartStep == Inv /\ Start => Inv'
<1> SUFFICES ASSUME Inv, Start PROVE Inv'
  OBVIOUS
<1>1. /\ worker = "down" /\ starts' = starts + 1 /\ starts < MaxStarts
      /\ known' = file /\ snapshot' = file /\ pending' = <<>>
      /\ worker' = "idle" /\ accepting' = TRUE
      /\ edited' = FALSE /\ unsettled' = {} /\ gone' = gone \ file
      /\ UNCHANGED <<file, queue, cmd, next, client, reload, teardown, commands,
                     faults, durable>>
  BY DEF Start
<1>2. starts' \in 0 .. MaxStarts
  BY <1>1, DynamicDomainSetAssumption DEF Inv, TypeOK
<1>3. /\ pending' \in Seq([rule : Rules, wait : Clients \cup {Nobody}])
      /\ DOMAIN pending' = {}
  BY <1>1
<1>4. TypeOK'
  BY <1>1, <1>2, <1>3 DEF Inv, TypeOK, Places
<1>5. PlaceInv'
  BY <1>1, QueueStays DEF Inv, PlaceInv, WellFormed
<1>6. AcknowledgedLasts'
  BY <1>1 DEF Inv, RuleInv, AcknowledgedLasts, FlushedIsDurable, RemovedStaysRemoved
<1>7. PendingRules' = {}
  BY <1>3 DEF PendingRules
<1>8. RuleInv'
  BY <1>1, <1>6, <1>7 DEF RuleInv
<1>9. ReloadInv'
  BY <1>1 DEF Inv, ReloadInv, Reloads
<1> QED
  BY <1>4, <1>5, <1>8, <1>9 DEF Inv
-----------------------------------------------------------------------------
(***************************************************************************)
(* The invariant.                                                          *)
(***************************************************************************)
LEMMA InvInit == Init => Inv
<1> SUFFICES ASSUME Init PROVE Inv
  OBVIOUS
<1>1. DOMAIN queue = {} /\ DOMAIN pending = {}
  BY DEF Init
<1>2. TypeOK
  <2>1. 0 \in 0 .. MaxCommands /\ 0 \in 0 .. MaxFaults /\ 0 \in 0 .. MaxStarts
    BY DynamicDomainSetAssumption
  <2>2. /\ queue \in Seq(Commands) /\ Len(queue) = 0 /\ QueueSize \in Nat
        /\ pending \in Seq([rule : Rules, wait : Clients \cup {Nobody}])
    BY DynamicDomainSetAssumption DEF Init
  <2>3. file \subseteq Lines /\ Len(queue) <= QueueSize
    BY <2>2 DEF Init, Lines
  <2>4. client \in [Clients -> {"idle", "waiting", "ok", "err"}]
    BY DEF Init
  <2>5. cmd \in Commands
    BY CommandFacts DEF Init
  <2> QED
    BY <2>1, <2>2, <2>3, <2>4, <2>5 DEF Init, TypeOK, Places
<1>3. PlaceInv
  BY <1>1 DEF Init, PlaceInv
<1>4. RuleInv
  BY <1>1 DEF Init, RuleInv, PendingRules, AcknowledgedLasts, FlushedIsDurable,
     RemovedStaysRemoved
<1>5. ReloadInv
  BY <1>1, CommandFacts DEF Init, ReloadInv, Reloads
<1> QED
  BY <1>2, <1>3, <1>4, <1>5 DEF Inv

LEMMA WorkerKeeps == Inv /\ WorkerStep => Inv'
BY StageStep, TickStep, TakeOtherStep, FlushStep, PublishStep, RollbackStep, FailStep,
   ExecuteStep, FailLateStep, InstallStep, StopStep DEF WorkerStep

LEMMA RuntimeKeeps == Inv /\ RuntimeStep => Inv'
BY ReloadRecheckStep, ReloadSendStep, DrainStep, DestroyStep, JoinedStep DEF RuntimeStep

LEMMA NextKeeps == Inv /\ [Next]_vars => Inv'
<1> SUFFICES ASSUME Inv, [Next]_vars PROVE Inv'
  OBVIOUS
<1>1. CASE UNCHANGED vars
  BY <1>1 DEF vars, memory, control, bounds, ghosts, Inv, TypeOK, PlaceInv, WellFormed,
     RuleInv, AcknowledgedLasts, FlushedIsDurable, RemovedStaysRemoved, PendingRules,
     ReloadInv, Reloads
<1>2. CASE \E r \in Rules : AppendAsync(r)
  BY <1>2, AppendAsyncStep
<1>3. CASE \E c \in Clients :
              \/ \E r \in Rules : Call(c, "append", r) \/ Call(c, "remove", r)
              \/ Call(c, "clear", Nobody)
              \/ AppendTimesOut(c)
  <2>1. PICK c \in Clients :
              \/ \E r \in Rules : Call(c, "append", r) \/ Call(c, "remove", r)
              \/ Call(c, "clear", Nobody)
              \/ AppendTimesOut(c)
    BY <1>3
  <2>2. ASSUME NEW r \in Rules, Call(c, "append", r) \/ Call(c, "remove", r) PROVE Inv'
    BY <2>2, CallStep
  <2>3. CASE Call(c, "clear", Nobody)
    BY <2>3, CallStep
  <2>4. CASE AppendTimesOut(c)
    BY <2>4, AppendTimesOutStep
  <2> QED
    BY <2>1, <2>2, <2>3, <2>4
<1>4. CASE ReloadCheck \/ ReloadLateCheck \/ Drain
  BY <1>4, ReloadCheckStep, DrainStep
<1>5. CASE WorkerStep \/ RuntimeStep
  BY <1>5, WorkerKeeps, RuntimeKeeps
<1>6. CASE Edit \/ Crash \/ Start
  BY <1>6, EditStep, CrashStep, StartStep
<1> QED
  BY <1>1, <1>2, <1>3, <1>4, <1>5, <1>6 DEF Next

\* The provider keeps its invariant, whatever its callers, the runtime, the
\* disk and the operator's editor do.
THEOREM InvariantHolds == Spec => []Inv
<1>1. Init => Inv
  BY InvInit
<1>2. Inv /\ [Next]_vars => Inv'
  BY NextKeeps
<1> QED
  BY <1>1, <1>2, PTL DEF Spec

\* After every command of run_worker the listing is what matches, and the file
\* holds the same, no less and no more, save for lines of flushes and rewrites
\* that failed since it was last replaced or read (or after an edit by hand).
THEOREM RulesAlwaysAgree == Spec => []RulesAgree
<1>1. Inv => RulesAgree
  <2>1. Inv => ListedIsMatched
    BY DEF Inv, RuleInv, ListedIsMatched
  <2>2. Inv => FileIsMatched
    BY DEF Inv, RuleInv, FileIsMatched
  <2> QED
    BY <2>1, <2>2 DEF Inv, RulesAgree
<1> QED
  BY <1>1, InvariantHolds, PTL

\* What append_rules_sync and remove_rules_sync told their callers lasts: a
\* flushed rule stays on file, a removed one comes back from nowhere.
THEOREM AcknowledgementsLast == Spec => []AcknowledgedLasts
<1>1. Inv => AcknowledgedLasts
  BY DEF Inv, RuleInv
<1> QED
  BY <1>1, InvariantHolds, PTL

\* ProviderRuntimeControl::drain: when it has returned, no reload is with the
\* worker of the provider that is destroyed, nor on its way there.
THEOREM NoReloadOfDrained == Spec => []NoReloadAfterDrain
<1>1. Inv => NoReloadAfterDrain
  BY DEF Inv, ReloadInv, Reloads, NoReloadAfterDrain
<1> QED
  BY <1>1, InvariantHolds, PTL
-----------------------------------------------------------------------------
(***************************************************************************)
(* Nobody who waits is forgotten.  What a caller waits for is in the       *)
(* queue, in the batch or in the worker's hands; a batch somebody waits    *)
(* for is on its way to the file, and does not wait for the tick; a        *)
(* stopped worker has left nothing in its queue.                           *)
(***************************************************************************)
Queued == {queue[i] : i \in DOMAIN queue}
Batch == {pending[i] : i \in DOMAIN pending}
Sent == Queued \cup {cmd}
Flushing == {"flush", "publish", "rollback"}

CallerInv ==
    /\ \A c \in Clients : client[c] = "waiting" => \E x \in Sent \cup Batch : x.wait = c
    /\ \A x \in Batch : x.wait # Nobody => worker \in Flushing
    /\ reload = "wait" => \E x \in Sent : x.kind = "reload"

\* The teardown is in join from the Shutdown it sends to the worker's end.
StopSent == worker = "stopped" \/ \E x \in Sent : x.kind = "shutdown"
StopInv ==
    /\ ~Running => Queued = {}
    /\ (teardown = "join") <=> StopSent
    /\ \A x \in Sent : x.kind = "shutdown" => x.wait = Nobody

HandInv == Inv /\ CallerInv /\ StopInv

LEMMA Contents ==
    ASSUME TypeOK
    PROVE  /\ Queued \subseteq Commands /\ Batch \subseteq Entries
           /\ pending = <<>> => Batch = {}
           /\ queue' = queue => Queued' = Queued
           /\ pending' = pending => Batch' = Batch
           /\ queue' = <<>> => Queued' = {}
           /\ pending' = <<>> => Batch' = {}
           /\ \A c \in Commands : queue' = Append(queue, c) => Queued' = Queued \cup {c}
           /\ \A e \in Entries : pending' = Append(pending, e) => Batch' = Batch \cup {e}
           /\ queue # <<>> /\ queue' = Tail(queue) =>
                /\ Head(queue) \in Commands
                /\ Queued = Queued' \cup {Head(queue)}
<1>1. queue \in Seq(Commands) /\ pending \in Seq(Entries)
  BY DEF TypeOK, Entries
<1>2. /\ Len(queue) \in Nat /\ DOMAIN queue = 1 .. Len(queue)
      /\ \A i \in DOMAIN queue : queue[i] \in Commands
      /\ Len(pending) \in Nat /\ DOMAIN pending = 1 .. Len(pending)
      /\ \A i \in DOMAIN pending : pending[i] \in Entries
  BY <1>1, SeqFacts
<1>3. Queued \subseteq Commands /\ Batch \subseteq Entries
  BY <1>2 DEF Queued, Batch
<1>4. pending = <<>> => Batch = {}
  BY <1>2 DEF Batch
<1>8. /\ queue' = queue => Queued' = Queued
      /\ pending' = pending => Batch' = Batch
  BY DEF Queued, Batch
<1>9. /\ queue' = <<>> => Queued' = {}
      /\ pending' = <<>> => Batch' = {}
  BY DEF Queued, Batch
<1>5. ASSUME NEW c \in Commands, queue' = Append(queue, c)
      PROVE  Queued' = Queued \cup {c}
  <2>1. /\ DOMAIN queue' = 1 .. Len(queue) + 1 /\ queue'[Len(queue) + 1] = c
        /\ \A i \in 1 .. Len(queue) : queue'[i] = queue[i]
    BY <1>1, <1>5, SeqFacts
  <2>2. \A i \in DOMAIN queue' : i \in DOMAIN queue \/ i = Len(queue) + 1
    BY <1>2, <2>1
  <2>3. \A x : x \in Queued' <=> x \in Queued \cup {c}
    BY <1>2, <2>1, <2>2 DEF Queued
  <2> QED BY <2>3
<1>6. ASSUME NEW e \in Entries, pending' = Append(pending, e)
      PROVE  Batch' = Batch \cup {e}
  <2>1. /\ DOMAIN pending' = 1 .. Len(pending) + 1 /\ pending'[Len(pending) + 1] = e
        /\ \A i \in 1 .. Len(pending) : pending'[i] = pending[i]
    BY <1>1, <1>6, SeqFacts
  <2>2. \A i \in DOMAIN pending' : i \in DOMAIN pending \/ i = Len(pending) + 1
    BY <1>2, <2>1
  <2>3. \A x : x \in Batch' <=> x \in Batch \cup {e}
    BY <1>2, <2>1, <2>2 DEF Batch
  <2> QED BY <2>3
<1>7. ASSUME queue # <<>>, queue' = Tail(queue)
      PROVE  Head(queue) \in Commands /\ Queued = Queued' \cup {Head(queue)}
  <2>1. /\ Head(queue) = queue[1] /\ queue[1] \in Commands /\ 1 \in DOMAIN queue
        /\ DOMAIN queue' = 1 .. Len(queue) - 1
        /\ \A i \in 1 .. Len(queue) - 1 : queue'[i] = queue[i + 1] /\ i + 1 \in DOMAIN queue
    BY <1>1, <1>2, <1>7, SeqFacts
  <2>2. \A i \in DOMAIN queue : i = 1 \/ (i - 1 \in DOMAIN queue' /\ queue'[i - 1] = queue[i])
    BY <1>2, <2>1
  <2>3. \A x : x \in Queued <=> x \in Queued' \cup {Head(queue)}
    BY <2>1, <2>2 DEF Queued
  <2> QED BY <2>1, <2>3
<1> QED
  BY <1>3, <1>4, <1>5, <1>6, <1>7, <1>8, <1>9

LEMMA HandFacts ==
    ASSUME HandInv
    PROVE  /\ TypeOK /\ Nobody \notin Clients
           /\ NoCommand.kind = "none" /\ NoCommand.wait = Nobody
           /\ \A x \in Sent : x.kind # "none" \/ x = NoCommand
           /\ worker \in {"execute", "install", "stopped", "down"} => Batch = {}
           /\ worker \in {"idle", "stopped", "down"} => cmd = NoCommand
           /\ worker = "down" => teardown = "none"
<1>1. worker \in {"execute", "install", "stopped", "down"} => Batch = {}
  BY Contents DEF HandInv, Inv, PlaceInv
<1>2. \A x \in Sent : x.kind # "none" \/ x = NoCommand
  BY DEF HandInv, Inv, PlaceInv, Sent, Queued, WellFormed
<1> QED
  BY <1>1, <1>2, DynamicDomainSetAssumption DEF HandInv, Inv, PlaceInv, ReloadInv, NoCommand, Command

-----------------------------------------------------------------------------
\* A command is sent; its caller waits, if it has one.
LEMMA SendKeeps ==
    ASSUME HandInv, NEW x \in Commands, queue' = Append(queue, x), Running,
           \A c \in Clients : client'[c] = "waiting" => client[c] = "waiting" \/ x.wait = c,
           reload' = "wait" => reload = "wait" \/ x.kind = "reload",
           IF x.kind = "shutdown" THEN teardown' = "join" /\ x.wait = Nobody
                                  ELSE teardown' = teardown,
           UNCHANGED <<pending, worker, cmd>>
    PROVE  CallerInv' /\ StopInv'
<1>1. Queued' = Queued \cup {x} /\ Batch' = Batch
  BY HandFacts, Contents
<1>2. Sent' = Sent \cup {x}
  BY <1>1 DEF Sent
<1>3. CallerInv'
  BY <1>1, <1>2 DEF HandInv, CallerInv
<1>4. StopInv'
  BY <1>2 DEF HandInv, StopInv, StopSent, Running
<1> QED BY <1>3, <1>4

\* Steps that send nothing and take nothing.
LEMMA QuietKeeps ==
    ASSUME HandInv, UNCHANGED <<queue, pending, cmd>>,
           \A c \in Clients : client'[c] = "waiting" => client[c] = "waiting",
           reload' = "wait" => reload = "wait",
           teardown' = teardown \/ "join" \notin {teardown, teardown'},
           \/ worker' = worker
           \/ /\ Running
              /\ worker' \in Flushing \/ (worker' \in {"execute", "install"} /\ Batch = {})
    PROVE  CallerInv' /\ StopInv'
<1>1. Queued' = Queued /\ Batch' = Batch /\ Sent' = Sent
  BY HandFacts, Contents DEF Sent
<1>2. CallerInv'
  BY <1>1 DEF HandInv, CallerInv
<1>3. StopInv'
  BY <1>1 DEF HandInv, StopInv, StopSent, Running, Flushing
<1> QED BY <1>2, <1>3

\* The command in hand is over, and its caller has its answer.
LEMMA FinishKeeps ==
    ASSUME HandInv, UNCHANGED <<queue, pending, teardown>>, NEW how \in {"ok", "err"},
           Finish(how), worker \in {"execute", "install"}, worker' = "idle",
           cmd.kind # "shutdown"
    PROVE  CallerInv' /\ StopInv'
<1>1. /\ Queued' = Queued /\ Batch' = Batch /\ Batch = {} /\ cmd' = NoCommand
      /\ NoCommand.kind = "none"
  BY HandFacts, Contents DEF Finish
<1>2. Sent' = Queued \cup {NoCommand} /\ Sent = Queued \cup {cmd}
  BY <1>1 DEF Sent
<1>3. \A c \in Clients : client'[c] = "waiting" => client[c] = "waiting" /\ c # cmd.wait
  BY DEF Finish, Answered
<1>4. reload' = "wait" => reload = "wait" /\ cmd.kind # "reload"
  BY DEF Finish
<1>5. CallerInv'
  BY <1>1, <1>2, <1>3, <1>4 DEF HandInv, CallerInv
<1>6. StopInv'
  BY <1>1, <1>2, HandFacts DEF HandInv, StopInv, StopSent, Running
<1> QED BY <1>5, <1>6

LEMMA CallersKeep ==
    ASSUME HandInv, NEW c \in Clients,
           \/ \E r \in Rules : Call(c, "append", r) \/ Call(c, "remove", r)
           \/ Call(c, "clear", Nobody)
    PROVE  CallerInv' /\ StopInv'
<1>1. PICK kind \in {"append", "remove", "clear"}, r \in Rules \cup {Nobody} :
        Call(c, kind, r)
  OBVIOUS
<1> DEFINE x == Command(kind, r, c)
<1>2. x \in Commands /\ x.kind = kind /\ x.wait = c
  BY CommandFacts
<1> HIDE DEF x
<1>3. UNCHANGED <<pending, worker, cmd, teardown, reload>>
  BY <1>1 DEF Call, memory, control
<1>4. client \in [Clients -> {"idle", "waiting", "ok", "err"}]
  BY HandFacts DEF TypeOK
<1>5. CASE Running /\ queue' = Append(queue, x) /\ client' = [client EXCEPT ![c] = "waiting"]
  <2>1. \A d \in Clients : client'[d] = "waiting" => client[d] = "waiting" \/ x.wait = d
    BY <1>2, <1>4, <1>5
  <2> QED BY <1>2, <1>3, <1>5, <2>1, SendKeeps
<1>6. CASE queue' = queue /\ client' = [client EXCEPT ![c] = "err"]
  <2>1. \A d \in Clients : client'[d] = "waiting" => client[d] = "waiting"
    BY <1>4, <1>6
  <2> QED BY <1>3, <1>6, <2>1, QuietKeeps
<1> QED
  BY <1>1, <1>5, <1>6 DEF Call, x

LEMMA AppendAsyncKeeps ==
    ASSUME HandInv, NEW r \in Rules, AppendAsync(r)
    PROVE  CallerInv' /\ StopInv'
<1> DEFINE x == Command("append", r, Nobody)
<1>1. x \in Commands /\ x.kind = "append"
  BY CommandFacts
<1> HIDE DEF x
<1>2. Running /\ queue' = Append(queue, x)
  BY DEF AppendAsync, x
<1>3. UNCHANGED <<pending, worker, cmd, teardown, reload, client>>
  BY DEF AppendAsync, memory, control
<1> QED
  BY <1>1, <1>2, <1>3, SendKeeps

\* A caller that gives up no longer waits; the others' commands keep their
\* callers.
LEMMA TimeoutKeeps ==
    ASSUME HandInv, NEW c \in Clients, AppendTimesOut(c)
    PROVE  CallerInv' /\ StopInv'
<1> DEFINE Without(x) == IF x.wait = c THEN [x EXCEPT !.wait = Nobody] ELSE x
<1>1. /\ queue' = [i \in DOMAIN queue |-> Without(queue[i])]
      /\ pending' = [i \in DOMAIN pending |-> Without(pending[i])]
  BY DEF AppendTimesOut
<1>2. /\ client' = [client EXCEPT ![c] = "err"]
      /\ UNCHANGED <<worker, cmd, teardown, reload>>
  BY DEF AppendTimesOut, control
<1>3. client \in [Clients -> {"idle", "waiting", "ok", "err"}]
  BY HandFacts DEF TypeOK
<1>4. /\ Queued' = {Without(x) : x \in Queued}
      /\ Batch' = {Without(x) : x \in Batch}
  BY <1>1 DEF Queued, Batch
<1>5. /\ \A x \in Commands : /\ Without(x).kind = x.kind
                             /\ Without(x).wait = IF x.wait = c THEN Nobody ELSE x.wait
      /\ \A x \in Entries : Without(x).wait = IF x.wait = c THEN Nobody ELSE x.wait
  BY DEF Commands, Entries
<1> HIDE DEF Without
<1>6. Queued \subseteq Commands /\ Batch \subseteq Entries
  BY HandFacts, Contents
<1>7. \A d \in Clients : client'[d] = "waiting" => client[d] = "waiting" /\ d # c
  BY <1>2, <1>3
<1>8. \A d \in Clients : client'[d] = "waiting" => \E x \in (Sent \cup Batch)' : x.wait = d
  <2>1. SUFFICES ASSUME NEW d \in Clients, client'[d] = "waiting"
                 PROVE  \E x \in (Sent \cup Batch)' : x.wait = d
    OBVIOUS
  <2>2. PICK x \in Sent \cup Batch : x.wait = d
    BY <1>7, <2>1 DEF HandInv, CallerInv
  <2>3. d # c
    BY <1>7, <2>1
  <2>4. CASE x = cmd
    BY <1>2, <2>2, <2>4 DEF Sent
  <2>5. CASE x \in Queued
    <3>1. Without(x).wait = d /\ Without(x) \in Queued'
      BY <1>4, <1>5, <1>6, <2>2, <2>3, <2>5
    <3> QED BY <3>1 DEF Sent
  <2>6. CASE x \in Batch
    <3>1. Without(x).wait = d /\ Without(x) \in Batch'
      BY <1>4, <1>5, <1>6, <2>2, <2>3, <2>6
    <3> QED BY <3>1
  <2> QED BY <2>2, <2>4, <2>5, <2>6 DEF Sent
<1>9. \A y \in Batch' : y.wait # Nobody => worker' \in Flushing
  BY <1>2, <1>4, <1>5, <1>6 DEF HandInv, CallerInv
<1>10. /\ \A y \in Queued' : \E x \in Queued : y.kind = x.kind /\ (y.wait = x.wait \/ y.wait = Nobody)
       /\ \A x \in Queued : \E y \in Queued' : y.kind = x.kind
  BY <1>4, <1>5, <1>6
<1>11. CallerInv'
  BY <1>2, <1>8, <1>9, <1>10 DEF HandInv, CallerInv, Sent
<1>12. StopInv'
  BY <1>2, <1>10 DEF HandInv, StopInv, StopSent, Running, Sent
<1> QED BY <1>11, <1>12

LEMMA ControlKeeps ==
    ASSUME HandInv,
           \/ ReloadCheck \/ ReloadLateCheck \/ ReloadRecheck
           \/ Drain \/ Drained \/ Edit
    PROVE  CallerInv' /\ StopInv'
<1>1. /\ UNCHANGED <<queue, pending, cmd, client, worker>>
      /\ reload' = "wait" => reload = "wait"
      /\ teardown' = teardown \/ "join" \notin {teardown, teardown'}
  BY DEF ReloadCheck, ReloadLateCheck, ReloadRecheck, Drain, Drained, Edit, memory, control
<1> QED
  BY <1>1, QuietKeeps

LEMMA ReloadSendKeeps ==
    ASSUME HandInv, ReloadSend
    PROVE  CallerInv' /\ StopInv'
<1> DEFINE x == Command("reload", Nobody, Nobody)
<1>1. x \in Commands /\ x.kind = "reload"
  BY CommandFacts
<1> HIDE DEF x
<1>2. UNCHANGED <<pending, worker, cmd, teardown, client>>
  BY DEF ReloadSend, memory
<1>3. \/ Running /\ queue' = Append(queue, x) /\ reload' = "wait"
      \/ queue' = queue /\ reload' = "none"
  BY DEF ReloadSend, x
<1> QED
  BY <1>1, <1>2, <1>3, SendKeeps, QuietKeeps

LEMMA DestroyKeeps ==
    ASSUME HandInv, Destroy
    PROVE  CallerInv' /\ StopInv'
<1> DEFINE x == Command("shutdown", Nobody, Nobody)
<1>1. x \in Commands /\ x.kind = "shutdown" /\ x.wait = Nobody
  BY CommandFacts
<1> HIDE DEF x
<1>2. /\ UNCHANGED <<pending, worker, cmd, client, reload>>
      /\ teardown = "destroy" /\ teardown' = "join" /\ queue' = Append(queue, x)
  BY DEF Destroy, memory, x
<1>3. Running
  BY <1>2, HandFacts DEF HandInv, StopInv, StopSent, Running
<1> QED
  BY <1>1, <1>2, <1>3, SendKeeps

\* The worker has ended with nothing in its hands.
LEMMA JoinedKeeps ==
    ASSUME HandInv, Joined
    PROVE  CallerInv' /\ StopInv'
<1>1. /\ worker = "stopped" /\ worker' = "down" /\ teardown' = "none"
      /\ UNCHANGED <<queue, pending, cmd, client, reload>>
  BY DEF Joined, memory
<1>2. Queued' = Queued /\ Batch' = Batch /\ Sent' = Sent
  BY <1>1, HandFacts, Contents DEF Sent
<1>3. Queued = {} /\ Batch = {} /\ cmd = NoCommand
  BY <1>1, HandFacts DEF HandInv, StopInv, Running
<1>4. CallerInv'
  BY <1>1, <1>2, <1>3 DEF HandInv, CallerInv
<1>5. StopInv'
  BY <1>1, <1>2, <1>3, HandFacts DEF HandInv, StopInv, StopSent, Running, Sent
<1> QED BY <1>4, <1>5

\* A staged append is answered, or its caller's batch goes to the file.
LEMMA StageKeeps ==
    ASSUME HandInv, Stage
    PROVE  CallerInv' /\ StopInv'
<1> DEFINE h == Head(queue)
<1>1. /\ worker = "idle" /\ queue # <<>> /\ h.kind = "append" /\ queue' = Tail(queue)
      /\ UNCHANGED <<cmd, reload, teardown>>
  BY DEF Stage, Take, control
<1>2. /\ h \in Commands /\ Queued = Queued' \cup {h}
      /\ pending' = pending => Batch' = Batch
      /\ \A e \in Entries : pending' = Append(pending, e) => Batch' = Batch \cup {e}
  BY <1>1, HandFacts, Contents
<1>3. h.rule \in Rules /\ h.wait \in Clients \cup {Nobody}
  <2>1. h = queue[1] /\ 1 \in DOMAIN queue
    BY <1>1, HandFacts, SeqFacts DEF TypeOK
  <2> QED
    BY <1>1, <1>2, <2>1 DEF HandInv, Inv, PlaceInv, WellFormed, Commands
<1> HIDE DEF h
<1>4. Sent = Sent' \cup {h}
  BY <1>1, <1>2 DEF Sent
<1>5. CASE h.rule \in known
  <2>1. client' = Answered({h.wait}, "ok") /\ UNCHANGED <<pending, worker>>
    BY <1>5 DEF Stage, h
  <2>2. \A c \in Clients : client'[c] = "waiting" => client[c] = "waiting" /\ c # h.wait
    BY <2>1 DEF Answered
  <2>3. CallerInv'
    BY <1>1, <1>2, <1>4, <2>1, <2>2 DEF HandInv, CallerInv
  <2>4. StopInv'
    BY <1>1, <1>2, <1>4, <2>1 DEF HandInv, StopInv, StopSent, Running
  <2> QED BY <2>3, <2>4
<1>6. CASE h.rule \notin known
  <2> DEFINE e == [rule |-> h.rule, wait |-> h.wait]
  <2>1. /\ pending' = Append(pending, e) /\ client' = client
        /\ worker' \in {"flush", "idle"} /\ (h.wait # Nobody => worker' = "flush")
    BY <1>6 DEF Stage, h
  <2>2. e \in Entries /\ e.wait = h.wait
    BY <1>3 DEF Entries
  <2> HIDE DEF e
  <2>3. Batch' = Batch \cup {e}
    BY <1>2, <2>1, <2>2
  <2>4. \A x \in Batch : x.wait = Nobody
    BY <1>1 DEF HandInv, CallerInv, Flushing
  <2>5. CallerInv'
    BY <1>1, <1>2, <1>4, <2>1, <2>2, <2>3, <2>4 DEF HandInv, CallerInv, Flushing
  <2>6. StopInv'
    BY <1>1, <1>2, <1>4, <2>1 DEF HandInv, StopInv, StopSent, Running
  <2> QED BY <2>5, <2>6
<1> QED BY <1>5, <1>6

LEMMA MovesKeep ==
    ASSUME HandInv, Tick \/ FlushWritten \/ FlushBroken \/ Execute
    PROVE  CallerInv' /\ StopInv'
<1>1. UNCHANGED <<queue, pending, cmd, client, reload, teardown>>
  BY DEF Tick, FlushWritten, FlushBroken, Execute, memory, control
<1>2. Running /\ (worker' \in Flushing \/ (worker' = "install" /\ Batch = {}))
  BY HandFacts DEF Tick, FlushWritten, FlushBroken, Execute, Mutation, Running, Flushing
<1> QED
  BY <1>1, <1>2, QuietKeeps

\* The head of the queue is now in the worker's hands.
LEMMA TakeOtherKeeps ==
    ASSUME HandInv, TakeOther
    PROVE  CallerInv' /\ StopInv'
<1>1. /\ worker = "idle" /\ queue # <<>> /\ queue' = Tail(queue) /\ cmd' = Head(queue)
      /\ worker' = IF pending = <<>> THEN "execute" ELSE "flush"
      /\ UNCHANGED <<pending, client, reload, teardown>>
  BY DEF TakeOther, Take, memory, control
<1>2. /\ Queued = Queued' \cup {cmd'} /\ Batch' = Batch
      /\ pending = <<>> => Batch = {}
  BY <1>1, HandFacts, Contents
<1>3. cmd = NoCommand /\ NoCommand.kind = "none" /\ NoCommand.wait \notin Clients
  BY <1>1, HandFacts
<1>4. Sent' = Queued /\ Sent = Queued \cup {cmd}
  BY <1>2 DEF Sent
<1>5. CallerInv'
  BY <1>1, <1>2, <1>3, <1>4 DEF HandInv, CallerInv, Flushing
<1>6. StopInv'
  BY <1>1, <1>2, <1>3, <1>4 DEF HandInv, StopInv, StopSent, Running
<1> QED BY <1>5, <1>6

\* A batch ends with an answer for everybody who waits for it.
LEMMA BatchEndKeeps ==
    ASSUME HandInv, Publish \/ Rollback
    PROVE  CallerInv' /\ StopInv'
<1>1. PICK how \in {"ok", "err"} : client' = Answered(Waiters, how)
  BY DEF Publish, Rollback
<1>2. /\ worker \in {"publish", "rollback"} /\ worker' \in {"idle", "execute"} /\ pending' = <<>>
      /\ UNCHANGED <<queue, cmd, reload, teardown>>
  BY DEF Publish, Rollback, AfterFlush, control
<1>3. Queued' = Queued /\ Batch' = {} /\ Sent' = Sent
  BY <1>2, HandFacts, Contents DEF Sent
<1>4. Waiters = {x.wait : x \in Batch}
  BY DEF Waiters, Batch
<1>5. \A c \in Clients : client'[c] = "waiting" =>
        client[c] = "waiting" /\ \A x \in Batch : x.wait # c
  BY <1>1, <1>4 DEF Answered
<1>6. CallerInv'
  BY <1>2, <1>3, <1>5 DEF HandInv, CallerInv
<1>7. StopInv'
  BY <1>2, <1>3 DEF HandInv, StopInv, StopSent, Running
<1> QED BY <1>6, <1>7

LEMMA CommandEndKeeps ==
    ASSUME HandInv, RemoveNothing \/ ExecuteFails \/ ExecuteFailsLate \/ Install
    PROVE  CallerInv' /\ StopInv'
<1>1. PICK how \in {"ok", "err"} : Finish(how)
  BY DEF RemoveNothing, ExecuteFails, ExecuteFailsLate, Install
<1>2. /\ UNCHANGED <<queue, pending, teardown>>
      /\ worker \in {"execute", "install"} /\ worker' = "idle"
  BY DEF RemoveNothing, ExecuteFails, ExecuteFailsLate, Install, Mutation, memory
<1>3. cmd.kind # "shutdown"
  BY DEF RemoveNothing, ExecuteFails, ExecuteFailsLate, Install, Mutation, HandInv,
     Inv, PlaceInv, Mutations
<1> QED
  BY <1>1, <1>2, <1>3, FinishKeeps

\* A worker that stops answers those behind the Shutdown.
LEMMA StopKeeps ==
    ASSUME HandInv, Stop
    PROVE  CallerInv' /\ StopInv'
<1>1. /\ worker = "execute" /\ cmd.kind = "shutdown" /\ worker' = "stopped"
      /\ cmd' = NoCommand /\ queue' = <<>>
      /\ client' = Answered({queue[i].wait : i \in DOMAIN queue}, "err")
      /\ reload' = (IF \E i \in DOMAIN queue : queue[i].kind = "reload" THEN "none" ELSE reload)
      /\ UNCHANGED <<pending, teardown>>
  BY DEF Stop, memory
<1>2. Queued' = {} /\ Batch' = {} /\ Batch = {} /\ Sent' = {NoCommand} /\ Sent = Queued \cup {cmd}
  BY <1>1, HandFacts, Contents DEF Sent
<1>3. cmd.wait = Nobody /\ Nobody \notin Clients /\ teardown = "join"
      /\ NoCommand.kind = "none"
  BY <1>1, HandFacts DEF HandInv, StopInv, StopSent, Sent
<1>4. \A c \in Clients : client'[c] = "waiting" =>
        client[c] = "waiting" /\ \A x \in Queued : x.wait # c
  BY <1>1 DEF Answered, Queued
<1>5. \A c \in Clients : client'[c] # "waiting"
  BY <1>2, <1>3, <1>4 DEF HandInv, CallerInv
<1>6. reload' # "wait"
  <2>1. reload' = "wait" => reload = "wait" /\ \A x \in Queued : x.kind # "reload"
    BY <1>1 DEF Queued
  <2> QED BY <1>1, <1>2, <2>1 DEF HandInv, CallerInv
<1>7. CallerInv'
  BY <1>2, <1>5, <1>6 DEF CallerInv
<1>8. StopInv'
  BY <1>1, <1>2, <1>3 DEF StopInv, StopSent, Running
<1> QED BY <1>7, <1>8

\* With the process its callers are gone.
LEMMA CrashKeeps ==
    ASSUME HandInv, Crash
    PROVE  CallerInv' /\ StopInv'
<1>1. /\ worker' = "down" /\ cmd' = NoCommand /\ pending' = <<>> /\ queue' = <<>>
      /\ client' = [c \in Clients |-> "idle"] /\ reload' = "none" /\ teardown' = "none"
  BY DEF Crash
<1>2. Queued' = {} /\ Batch' = {} /\ Sent' = {NoCommand} /\ NoCommand.kind = "none"
  BY <1>1, HandFacts, Contents DEF Sent
<1>3. CallerInv'
  BY <1>1, <1>2 DEF CallerInv
<1>4. StopInv'
  BY <1>1, <1>2 DEF StopInv, StopSent, Running
<1> QED BY <1>3, <1>4

LEMMA StartKeeps ==
    ASSUME HandInv, Start
    PROVE  CallerInv' /\ StopInv'
<1>1. /\ worker = "down" /\ worker' = "idle" /\ pending' = <<>>
      /\ UNCHANGED <<queue, cmd, client, reload, teardown>>
  BY DEF Start
<1>2. /\ Queued' = Queued /\ Batch' = {} /\ Sent' = Sent
      /\ Batch = {}
  BY <1>1, HandFacts, Contents DEF Sent
<1>3. CallerInv'
  BY <1>1, <1>2 DEF HandInv, CallerInv
<1>4. StopInv'
  BY <1>1, <1>2 DEF HandInv, StopInv, StopSent, Running
<1> QED BY <1>3, <1>4

LEMMA HandInit == Init => HandInv
<1> SUFFICES ASSUME Init PROVE HandInv
  OBVIOUS
<1>1. /\ Queued = {} /\ Batch = {} /\ Sent = {NoCommand}
      /\ NoCommand.kind = "none"
  BY CommandFacts DEF Init, Queued, Batch, Sent
<1>2. CallerInv
  BY <1>1 DEF Init, CallerInv
<1>3. StopInv
  BY <1>1 DEF Init, StopInv, StopSent, Running
<1> QED
  BY <1>2, <1>3, InvInit DEF HandInv

LEMMA HandKeeps == HandInv /\ [Next]_vars => HandInv'
<1> SUFFICES ASSUME HandInv, [Next]_vars PROVE CallerInv' /\ StopInv'
  BY NextKeeps DEF HandInv
<1>1. CASE UNCHANGED vars
  <2>1. UNCHANGED <<queue, pending, cmd, client, reload, teardown, worker>>
    BY <1>1 DEF vars, memory, control
  <2> QED BY <2>1, QuietKeeps
<1>2. CASE \E r \in Rules : AppendAsync(r)
  BY <1>2, AppendAsyncKeeps
<1>3. CASE \E c \in Clients :
              \/ \E r \in Rules : Call(c, "append", r) \/ Call(c, "remove", r)
              \/ Call(c, "clear", Nobody)
              \/ AppendTimesOut(c)
  BY <1>3, CallersKeep, TimeoutKeeps
<1>4. CASE ReloadCheck \/ ReloadLateCheck \/ Drain \/ RuntimeStep \/ Edit
  BY <1>4, ControlKeeps, ReloadSendKeeps, DestroyKeeps, JoinedKeeps DEF RuntimeStep
<1>5. CASE WorkerStep
  BY <1>5, StageKeeps, MovesKeep, TakeOtherKeeps, BatchEndKeeps, CommandEndKeeps, StopKeeps
  DEF WorkerStep
<1>6. CASE Crash \/ Start
  BY <1>6, CrashKeeps, StartKeeps
<1> QED
  BY <1>1, <1>2, <1>3, <1>4, <1>5, <1>6 DEF Next

(***************************************************************************)
(* append_rules_sync, remove_rules_sync, clear_sync, reload_sync and the   *)
(* provider's destroy hold a oneshot receiver or a join handle: while one  *)
(* of them waits, the sender is in a place that a living worker will come  *)
(* to, and a batch with a waiting caller needs no tick to be written.      *)
(***************************************************************************)
NoCallerForgotten ==
    /\ \A c \in Clients : client[c] = "waiting" =>
        /\ Running
        /\ \/ \E x \in Sent : x.wait = c
           \/ worker \in Flushing /\ \E x \in Batch : x.wait = c
    /\ reload = "wait" => Running /\ \E x \in Sent : x.kind = "reload"
    /\ teardown = "join" =>
        worker = "stopped" \/ (Running /\ \E x \in Sent : x.kind = "shutdown")

\* Nobody waits for a worker that does not have the command, or is gone: what
\* the liveness of callers rests on.
THEOREM NobodyIsForgotten == Spec => []NoCallerForgotten
<1>1. ASSUME HandInv PROVE NoCallerForgotten
  <2>1. ~Running => Queued = {} /\ Batch = {} /\ cmd = NoCommand /\ Sent = {NoCommand}
    BY <1>1, HandFacts DEF HandInv, StopInv, Running, Sent
  <2>2. NoCommand.kind = "none" /\ NoCommand.wait = Nobody /\ Nobody \notin Clients
    BY <1>1, HandFacts
  <2>3. ASSUME NEW c \in Clients, client[c] = "waiting"
        PROVE  /\ Running
               /\ \/ \E x \in Sent : x.wait = c
                  \/ worker \in Flushing /\ \E x \in Batch : x.wait = c
    BY <1>1, <2>1, <2>2, <2>3 DEF HandInv, CallerInv
  <2>4. reload = "wait" => Running /\ \E x \in Sent : x.kind = "reload"
    BY <1>1, <2>1, <2>2 DEF HandInv, CallerInv
  <2>5. teardown = "join" =>
          worker = "stopped" \/ (Running /\ \E x \in Sent : x.kind = "shutdown")
    BY <1>1, <2>1, <2>2 DEF HandInv, StopInv, StopSent
  <2> QED BY <2>3, <2>4, <2>5 DEF NoCallerForgotten
<1> QED
  BY <1>1, HandInit, HandKeeps, PTL DEF Spec
=============================================================================
