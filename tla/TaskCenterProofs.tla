-------------------------- MODULE TaskCenterProofs --------------------------
(***************************************************************************)
(* Machine-checked facts about TaskCenter for any tasks, requests, periods *)
(* and clock jumps: runs of a task never overlap, a stop that was          *)
(* acknowledged is final, a trigger reported as started did start a run of *)
(* its own, and the table of deadlines stays right.                        *)
(***************************************************************************)
EXTENDS TaskCenter, TLAPS

(***************************************************************************)
(* What travels over the channels.                                         *)
(***************************************************************************)
Commands ==
    [kind : {"register"}, task : Tasks, next : Deadlines]
        \cup [kind : {"remove"}, task : Tasks, ack : Requests]
        \cup [kind : {"detached"}, task : Tasks]
        \cup [kind : {"stopAll"}, ack : Requests]
ChannelTypes == control \in Seq(Commands) /\ triggers \in Seq(Requests)
Typed == TypeOK /\ ChannelTypes

\* Command i registers task t, or is the stop of request q.
Registers(i, t) ==
    i \in 1 .. Len(control) /\ control[i].kind = "register" /\ control[i].task = t
Stops(i, q) ==
    /\ i \in 1 .. Len(control) /\ control[i].kind \in {"remove", "stopAll"}
    /\ control[i].ack = q
Stopper(q, t) == request[q].kind \in {"stop", "stopAll"} /\ t \in request[q].tasks

(***************************************************************************)
(* Runs: the only one of a task that has not ended is the one whose handle *)
(* the scheduler holds, and ids are used once.                             *)
(***************************************************************************)
RunInv ==
    /\ \A j \in Jobs : ~Ended(j) => j[2] = running[j[1]]
    /\ \A j \in Jobs : job[j] # "none" => j[2] < nextRunId[j[1]]

(***************************************************************************)
(* Deadlines: those on their way in registrations are on the grid, too.    *)
(***************************************************************************)
SentOnGrid ==
    \A i \in 1 .. Len(control) :
        control[i].kind = "register" /\ control[i].task \in FixedTasks
            => control[i].next.unix = control[i].next.instant
RecheckInv == CronRechecked /\ (recheckAt # None => recheckAt <= now + Recheck)
DeadlineInv == DeadlinesOnHeap /\ FixedOnGrid /\ RecheckInv /\ SentOnGrid

(***************************************************************************)
(* Requests: a trigger is in the channel, or one run has its reply sender, *)
(* or it is settled; a stop is pending until its command is handled.       *)
(***************************************************************************)
ChannelInv ==
    \A i \in 1 .. Len(triggers) :
        /\ request[triggers[i]].kind = "trigger" /\ request[triggers[i]].status = "pending"
        /\ \E t \in Tasks : request[triggers[i]].tasks = {t}
        /\ \A k \in 1 .. Len(triggers) : triggers[i] = triggers[k] => i = k
        /\ \A j \in Jobs : replyOf[j] # triggers[i]
SenderInv ==
    \A j \in Jobs : replyOf[j] # None =>
        /\ request[replyOf[j]].kind = "trigger" /\ request[replyOf[j]].status = "pending"
        /\ request[replyOf[j]].tasks = {j[1]}
        /\ job[j] \in {"spawned", "building"}
        /\ \A i \in Jobs : replyOf[i] = replyOf[j] => i = j
StartedInv ==
    \A q \in Requests : request[q].status = "started" =>
        /\ request[q].kind = "trigger" /\ request[q].run # 0
        /\ \E t \in Tasks : /\ request[q].tasks = {t}
                            /\ job[<<t, request[q].run>>] \in {"live", "ended"}
        /\ \A p \in Requests : request[p].status = "started"
                /\ request[p].tasks = request[q].tasks
                /\ request[p].run = request[q].run => p = q
KindInv == \A q \in Requests : request[q].status = "unused" <=> request[q].kind = "none"
StopSent ==
    \A q \in Requests, k \in 1 .. Len(control) : Stops(k, q) =>
        /\ request[q].kind \in {"stop", "stopAll"} /\ request[q].status = "pending"
        /\ \A i \in 1 .. Len(control) : Stops(i, q) => i = k
ReplyInv == ChannelInv /\ SenderInv /\ StartedInv /\ KindInv /\ StopSent

(***************************************************************************)
(* Stops: commands keep their order, so that a task's registration is      *)
(* always handled before the stops of it; after one of them the task is    *)
(* gone, and the stop waits for what is left of it.                        *)
(***************************************************************************)
OwnerInv ==
    /\ \A t \in registered : owner[t] # "new"
    /\ \A i \in 1 .. Len(control) :
        control[i].kind = "detached" => owner[control[i].task] = "released"
    /\ \A q \in Requests : \A t \in request[q].tasks : owner[t] # "new"
RegisterOrder ==
    \A t \in Tasks, i \in 1 .. Len(control) : Registers(i, t) =>
        /\ owner[t] # "new" /\ t \notin registered
        /\ \A k \in 1 .. Len(control) : Registers(k, t) => i = k
        /\ \A q \in Requests : Stopper(q, t) => request[q].status = "pending"
StopOrder ==
    \A q \in Requests, k \in 1 .. Len(control) : Stops(k, q) =>
        /\ control[k].kind = "remove" => request[q].tasks = {control[k].task}
        /\ control[k].kind = "stopAll" => registered \subseteq request[q].tasks
        /\ \A t \in Tasks, i \in 1 .. Len(control) : Registers(i, t) =>
              /\ t \in request[q].tasks => i < k
              /\ control[k].kind = "stopAll" /\ i < k => t \in request[q].tasks
Stopped ==
    \A q \in Requests, t \in Tasks :
        Stopper(q, t) /\ request[q].status # "pending" => t \notin registered
Awaited(j) ==
    \E q \in Requests : /\ Stopper(q, j[1]) /\ request[q].status = "stopping"
                        /\ j \in request[q].waits
RunsAwaited ==
    \A j \in Jobs : ~Ended(j) => \/ j[1] \in registered
                                 \/ owner[j[1]] = "released"
                                 \/ Awaited(j)
StopInv == OwnerInv /\ RegisterOrder /\ StopOrder /\ Stopped /\ RunsAwaited

Inv == Typed /\ RunInv /\ DeadlineInv /\ ReplyInv /\ StopInv
-----------------------------------------------------------------------------
(***************************************************************************)
(* Schedules.                                                              *)
(***************************************************************************)
LEMMA Division ==
    ASSUME NEW a \in Nat, NEW b \in Nat \ {0}
    PROVE  /\ a \div b \in Nat /\ a % b \in 0 .. b - 1
           /\ a = (b * (a \div b)) + (a % b)
           /\ a < (a \div b + 1) * b
           /\ b * (a \div b + 1) = (b * (a \div b)) + b
           /\ (a \div b + 1) * b \in Nat /\ b * (a \div b + 1) \in Nat
<1>1. a \div b \in Nat /\ a % b \in 0 .. b - 1 /\ a = (b * (a \div b)) + (a % b)
  OBVIOUS
<1>2. \A n \in Nat : /\ (n + 1) * b \in Nat /\ b * (n + 1) \in Nat
                     /\ b * (n + 1) = (b * n) + b /\ (n + 1) * b = b * (n + 1)
  OBVIOUS
<1> QED
  BY <1>1, <1>2

LEMMA Clock == ASSUME TypeOK PROVE now \in Nat /\ offset \in Nat /\ wall \in Nat
BY TimeAssumption DEF TypeOK, wall

LEMMA CronAfterFacts ==
    ASSUME TypeOK, NEW p, CronAfter(p) # None
    PROVE  CronAfter(p) \in Deadlines
<1> DEFINE unix == (wall \div Period + 1) * Period
<1>1. wall \in Nat /\ now \in Nat /\ Period \in Nat \ {0}
  BY Clock, TimeAssumption
<1>2. unix \in Nat /\ wall < unix
  BY <1>1, Division
<1>3. CronAfter(p) = At(now + (unix - wall), unix)
  BY DEF CronAfter
<1> HIDE DEF unix
<1>4. now + (unix - wall) \in Nat
  BY <1>1, <1>2
<1> QED
  BY <1>2, <1>3, <1>4 DEF Deadlines, At

LEMMA FixedAfterFacts ==
    ASSUME TypeOK, NEW p \in Deadlines
    PROVE  /\ FixedAfter(p) \in Deadlines
           /\ p.unix = p.instant /\ p.instant <= now =>
                 FixedAfter(p).unix = FixedAfter(p).instant
<1> DEFINE e == IF now < p.instant THEN 0 ELSE now - p.instant
           s == e \div Interval + 1
<1>1. now \in Nat /\ p.instant \in Nat /\ p.unix \in Nat /\ Interval \in Nat \ {0}
  BY Clock, TimeAssumption DEF Deadlines
<1>2. e \in Nat /\ (p.instant <= now => e = now - p.instant)
  BY <1>1
<1>3. FixedAfter(p) = At(now + (Interval - (e % Interval)), p.unix + Interval * s)
  BY DEF FixedAfter
<1> HIDE DEF e
<1>4. /\ e % Interval \in 0 .. Interval - 1
      /\ e = (Interval * (e \div Interval)) + (e % Interval)
      /\ Interval * s = (Interval * (e \div Interval)) + Interval
      /\ Interval * s \in Nat
  BY <1>1, <1>2, Division
<1> HIDE DEF s
<1>5. now + (Interval - (e % Interval)) \in Nat /\ p.unix + Interval * s \in Nat
  BY <1>1, <1>4
<1>6. FixedAfter(p) \in Deadlines
  BY <1>3, <1>5 DEF Deadlines, At
<1>7. FixedAfter(p).unix = p.unix + Interval * s
      /\ FixedAfter(p).instant = now + (Interval - (e % Interval))
  BY <1>3 DEF At
<1>8. ASSUME p.unix = p.instant, p.instant <= now
      PROVE  p.unix + Interval * s = now + (Interval - (e % Interval))
  <2> DEFINE x == Interval * s
             y == Interval * (e \div Interval)
             r == e % Interval
  <2>1. x \in Nat /\ r \in Nat /\ y = e - r /\ x = y + Interval /\ y \in Int
    BY <1>1, <1>2, <1>4
  <2>2. e = now - p.instant
    BY <1>2, <1>8
  <2> HIDE DEF x, y, r
  <2>3. p.unix + x = now + (Interval - r)
    BY <1>1, <1>2, <1>8, <2>1, <2>2
  <2> QED
    BY <2>3 DEF x, r
<1> QED
  BY <1>6, <1>7, <1>8

LEMMA NextAfterFacts ==
    ASSUME TypeOK, NEW t \in Tasks, NEW p \in Deadlines
    PROVE  /\ NextAfter(t, p) \in Deadlines \cup {None}
           /\ t \in FixedTasks /\ p.unix = p.instant /\ p.instant <= now =>
                 NextAfter(t, p).unix = NextAfter(t, p).instant
BY CronAfterFacts, FixedAfterFacts, TaskAssumption DEF NextAfter, Tasks

\* Re-anchoring a deadline moves its instant only, and makes it due when its
\* wall-clock time has come and not before.
LEMMA ReanchoredFacts ==
    ASSUME TypeOK, NEW d \in Deadlines
    PROVE  /\ Reanchored(d) \in Deadlines /\ Reanchored(d).unix = d.unix
           /\ Reanchored(d).instant <= now => d.unix <= wall
<1>1. now \in Nat /\ wall \in Nat /\ d.unix \in Nat
  BY Clock DEF Deadlines
<1>2. (IF d.unix <= wall THEN now ELSE now + (d.unix - wall)) \in Nat
  BY <1>1
<1>3. Reanchored(d).unix = d.unix /\ Reanchored(d) \in Deadlines
      /\ Reanchored(d).instant = IF d.unix <= wall THEN now ELSE now + (d.unix - wall)
  BY <1>1, <1>2 DEF Reanchored, At, Deadlines
<1> QED
  BY <1>1, <1>3

LEMMA RefreshedFacts ==
    ASSUME TypeOK
    PROVE  /\ Refreshed \in [Tasks -> Deadlines \cup {None}]
           /\ \A t \in Tasks :
                /\ Refreshed[t] = None <=> nextRun[t] = None
                /\ nextRun[t] # None => Refreshed[t].unix = nextRun[t].unix
                /\ t \notin CronTasks \/ recheckAt = None => Refreshed[t] = nextRun[t]
                /\ t \in registered \cap CronTasks /\ recheckAt # None
                        /\ nextRun[t] # None /\ Refreshed[t].instant <= now
                     => nextRun[t].unix <= wall
<1>1. \A t \in Tasks : nextRun[t] \in Deadlines \cup {None}
  BY DEF TypeOK
<1>2. None \notin Deadlines
  BY TaskAssumption DEF Deadlines
<1>3. ASSUME NEW t \in Tasks
      PROVE  /\ Refreshed[t] \in Deadlines \cup {None}
             /\ Refreshed[t] = None <=> nextRun[t] = None
             /\ nextRun[t] # None => Refreshed[t].unix = nextRun[t].unix
             /\ t \notin CronTasks \/ recheckAt = None => Refreshed[t] = nextRun[t]
             /\ t \in registered \cap CronTasks /\ recheckAt # None
                     /\ nextRun[t] # None /\ Refreshed[t].instant <= now
                  => nextRun[t].unix <= wall
  <2>1. Refreshed[t] = IF t \in registered \cap CronTasks /\ nextRun[t] # None
                            /\ recheckAt # None
                       THEN Reanchored(nextRun[t]) ELSE nextRun[t]
    BY DEF Refreshed
  <2> QED
    BY <1>1, <1>2, <2>1, ReanchoredFacts
<1>4. Refreshed \in [Tasks -> Deadlines \cup {None}]
  BY <1>3 DEF Refreshed
<1> QED
  BY <1>3, <1>4
-----------------------------------------------------------------------------
(***************************************************************************)
(* run_due_tasks over the deadlines next and the heap h, task by task.     *)
(***************************************************************************)
Due(next, h, t) ==
    t \in registered /\ next[t] # None /\ next[t].instant <= now
        /\ <<next[t].instant, t>> \in h
Starts(next, h, t) == Due(next, h, t) /\ Free(t) /\ HasRunId(t)
Pauses(next, h, t) == Due(next, h, t) /\ Free(t) /\ ~HasRunId(t)

LEMMA RunDueFacts ==
    ASSUME TypeOK, NEW next, NEW h, RunDue(next, h)
    PROVE  /\ nextRun' = [t \in Tasks |->
                 IF Pauses(next, h, t) THEN None
                 ELSE IF Due(next, h, t) THEN NextAfter(t, next[t]) ELSE next[t]]
           /\ \A e : e \in heap' <=>
                 \/ e \in h /\ e[1] > now
                 \/ \E t \in Tasks : Due(next, h, t) /\ NextAfter(t, next[t]) # None
                                     /\ e = <<NextAfter(t, next[t]).instant, t>>
           /\ running' = [t \in Tasks |->
                 IF Starts(next, h, t) THEN nextRunId[t]
                 ELSE IF Pauses(next, h, t) THEN 0 ELSE running[t]]
           /\ nextRunId' = [t \in Tasks |->
                 IF Starts(next, h, t) THEN nextRunId[t] + 1 ELSE nextRunId[t]]
           /\ job' = [j \in Jobs |->
                 IF Starts(next, h, j[1]) /\ j[2] = nextRunId[j[1]]
                 THEN "spawned" ELSE job[j]]
<1> DEFINE due == {t \in registered : next[t] # None /\ next[t].instant <= now
                                   /\ <<next[t].instant, t>> \in h}
           after == [t \in due |-> NextAfter(t, next[t])]
           starts == {t \in due : Free(t) /\ HasRunId(t)}
           paused == {t \in due : Free(t) /\ ~HasRunId(t)}
<1>1. registered \subseteq Tasks
  BY DEF TypeOK
<1>2. \A t : /\ t \in due <=> Due(next, h, t)
             /\ t \in starts <=> Starts(next, h, t)
             /\ t \in paused <=> Pauses(next, h, t)
  BY DEF Due, Starts, Pauses
<1>3. /\ nextRun' = [t \in Tasks |->
                IF t \in paused THEN None
                ELSE IF t \in due THEN after[t] ELSE next[t]]
      /\ heap' = Advanced(h, due, after)
      /\ running' = [t \in Tasks |->
                IF t \in starts THEN nextRunId[t]
                ELSE IF t \in paused THEN 0 ELSE running[t]]
      /\ nextRunId' = [t \in Tasks |->
                IF t \in starts THEN nextRunId[t] + 1 ELSE nextRunId[t]]
      /\ job' = [j \in Jobs |->
                IF j[1] \in starts /\ j[2] = nextRunId[j[1]]
                THEN "spawned" ELSE job[j]]
  BY DEF RunDue
<1>4. \A t \in due : t \in Tasks /\ after[t] = NextAfter(t, next[t])
  BY <1>1
<1> HIDE DEF due, after, starts, paused
<1>5. \A e : e \in heap' <=>
         \/ e \in h /\ e[1] > now
         \/ \E t \in Tasks : Due(next, h, t) /\ NextAfter(t, next[t]) # None
                             /\ e = <<NextAfter(t, next[t]).instant, t>>
  <2>1. \A e : e \in heap' <=> \/ e \in h /\ e[1] > now
                               \/ \E t \in due : after[t] # None /\ e = <<after[t].instant, t>>
    BY <1>3 DEF Advanced, Rebuilt
  <2> QED
    BY <1>2, <1>4, <2>1
<1>6. nextRun' = [t \in Tasks |->
                 IF Pauses(next, h, t) THEN None
                 ELSE IF Due(next, h, t) THEN NextAfter(t, next[t]) ELSE next[t]]
  BY <1>2, <1>3, <1>4
<1> QED
  BY <1>2, <1>3, <1>5, <1>6
-----------------------------------------------------------------------------
(***************************************************************************)
(* Channels, the loop head and types.                                      *)
(***************************************************************************)
LEMMA SeqFacts ==
    ASSUME NEW S, NEW s \in Seq(S)
    PROVE  /\ Len(s) \in Nat /\ \A i \in 1 .. Len(s) : s[i] \in S
           /\ s # <<>> => /\ Head(s) \in S /\ Head(s) = s[1] /\ 1 \in 1 .. Len(s)
                          /\ Tail(s) \in Seq(S) /\ Len(Tail(s)) = Len(s) - 1
                          /\ \A i \in 1 .. Len(s) - 1 : /\ Tail(s)[i] = s[i + 1]
                                                        /\ i + 1 \in 1 .. Len(s)
           /\ \A x \in S : /\ Append(s, x) \in Seq(S) /\ Len(Append(s, x)) = Len(s) + 1
                           /\ Append(s, x)[Len(s) + 1] = x
                           /\ \A i \in 1 .. Len(s) : Append(s, x)[i] = s[i]
OBVIOUS

LEMMA CommandFacts ==
    \A c \in Commands :
        /\ c.kind \in {"register", "remove", "detached", "stopAll"}
        /\ c.kind = "register" => c.task \in Tasks /\ c.next \in Deadlines
        /\ c.kind \in {"remove", "detached"} => c.task \in Tasks
        /\ c.kind \in {"remove", "stopAll"} => c.ack \in Requests
BY DEF Commands

LEMMA LoopHeadFacts ==
    ASSUME TypeOK, NEW r \in Nat \cup {None}, r # None => r <= now + Recheck,
           LoopHead(r), now' = now
    PROVE  recheckAt' \in Nat \cup {None} /\ RecheckInv'
<1>1. now \in Nat /\ Recheck \in Nat /\ None \notin Nat /\ now + Recheck \in Nat
  BY Clock, TimeAssumption, TaskAssumption
<1>2. CASE \E t \in registered' \cap CronTasks : nextRun'[t] # None
  <2>1. recheckAt' = IF r = None THEN now + Recheck ELSE r
    BY <1>2 DEF LoopHead
  <2> QED
    BY <1>1, <2>1 DEF RecheckInv, CronRechecked
<1>3. CASE ~\E t \in registered' \cap CronTasks : nextRun'[t] # None
  <2>1. recheckAt' = None
    BY <1>3 DEF LoopHead
  <2> QED
    BY <1>3, <2>1 DEF RecheckInv, CronRechecked
<1> QED
  BY <1>2, <1>3

\* RemoveTasks pointwise.
LEMMA RemoveFacts ==
    ASSUME TypeOK, NEW gone \in SUBSET registered, RemoveTasks(gone)
    PROVE  /\ registered' = registered \ gone /\ registered' \subseteq Tasks
           /\ nextRun' \in [Tasks -> Deadlines \cup {None}]
           /\ \A t \in registered' : nextRun'[t] = nextRun[t]
           /\ \A e : e \in heap' <=> \E t \in registered' : nextRun[t] # None
                                        /\ e = <<nextRun[t].instant, t>>
           /\ heap' \subseteq Nat \X Tasks /\ aborted' \subseteq Jobs
<1>1. registered \subseteq Tasks /\ \A t \in Tasks : nextRun[t] \in Deadlines \cup {None}
      /\ gone \subseteq Tasks
  BY DEF TypeOK
<1>2. /\ registered' = registered \ gone
      /\ nextRun' = [t \in Tasks |-> IF t \in gone THEN None ELSE nextRun[t]]
      /\ heap' = {<<nextRun[t].instant, t>> : t \in {u \in registered' : nextRun[u] # None}}
      /\ aborted' = aborted \cup {j \in Handles(gone) : ~Ended(j)}
  BY DEF RemoveTasks, Forget, Rebuilt
<1>3. Handles(gone) \subseteq Jobs
  <2>1. \A t \in gone : running[t] # 0 => running[t] \in RunIds
    BY <1>1, TimeAssumption DEF TypeOK, RunIds
  <2> QED
    BY <1>1, <2>1 DEF Handles, Jobs
<1>4. \A e : e \in heap' <=> \E t \in registered' : nextRun[t] # None
                                        /\ e = <<nextRun[t].instant, t>>
  BY <1>2
<1>5. \A d \in Deadlines : d.instant \in Nat
  BY DEF Deadlines
<1>6. heap' \subseteq Nat \X Tasks
  BY <1>1, <1>2, <1>4, <1>5
<1>7. aborted' \subseteq Jobs
  BY <1>2, <1>3 DEF TypeOK
<1> QED
  BY <1>1, <1>2, <1>4, <1>6, <1>7

\* What RunDue leaves, in either of Wakeup's two cases.
LEMMA WakeupFacts ==
    ASSUME TypeOK, Wakeup
    PROVE  \E h \in SUBSET (Nat \X Tasks) :
             /\ RunDue(Refreshed, h)
             /\ recheckAt = None => h = heap
             /\ recheckAt # None =>
                  \A t \in registered : Refreshed[t] # None =>
                       <<Refreshed[t].instant, t>> \in h
<1> DEFINE h == IF recheckAt = None THEN heap ELSE Rebuilt(registered, Refreshed)
<1>1. RunDue(Refreshed, h)
  BY DEF Wakeup
<1>2. /\ registered \subseteq Tasks /\ heap \subseteq Nat \X Tasks
      /\ \A t \in Tasks : Refreshed[t] \in Deadlines \cup {None}
      /\ \A d \in Deadlines : d.instant \in Nat
  BY RefreshedFacts DEF TypeOK, Deadlines
<1>3. \A e : e \in Rebuilt(registered, Refreshed) <=>
          \E t \in registered : Refreshed[t] # None /\ e = <<Refreshed[t].instant, t>>
  BY DEF Rebuilt
<1>4. Rebuilt(registered, Refreshed) \subseteq Nat \X Tasks
  BY <1>2, <1>3
<1>5. h \in SUBSET (Nat \X Tasks) /\ (recheckAt = None => h = heap)
      /\ (recheckAt # None => \A t \in registered : Refreshed[t] # None =>
                       <<Refreshed[t].instant, t>> \in h)
  BY <1>2, <1>3, <1>4
<1> QED
  BY <1>1, <1>5

RequestType == [kind : {"none", "trigger", "stop", "stopAll"}, tasks : SUBSET Tasks,
                status : Statuses, run : 0 .. RunIdEnd, waits : SUBSET Jobs]

LEMMA RequestFacts ==
    ASSUME TypeOK, NEW q \in Requests
    PROVE  /\ request[q] \in RequestType /\ request[q].tasks \subseteq Tasks
           /\ request[q].waits \subseteq Jobs
           /\ \A s \in Statuses : [request EXCEPT ![q].status = s] \in [Requests -> RequestType]
           /\ \A s \in Statuses, w \in SUBSET Jobs :
                 [request EXCEPT ![q].status = s, ![q].waits = w] \in [Requests -> RequestType]
           /\ \A s \in Statuses, n \in 0 .. RunIdEnd :
                 [request EXCEPT ![q].status = s, ![q].run = n] \in [Requests -> RequestType]
<1>1. request \in [Requests -> RequestType]
  BY DEF TypeOK, RequestType
<1>2. \A r \in RequestType, s \in Statuses, w \in SUBSET Jobs, n \in 0 .. RunIdEnd :
         /\ r.tasks \subseteq Tasks /\ r.waits \subseteq Jobs
         /\ [r EXCEPT !.status = s] \in RequestType
         /\ [r EXCEPT !.status = s, !.waits = w] \in RequestType
         /\ [r EXCEPT !.status = s, !.run = n] \in RequestType
  BY DEF RequestType
<1>3. 0 \in 0 .. RunIdEnd /\ {} \in SUBSET Jobs
  BY TimeAssumption
<1>4. \A r \in RequestType : [request EXCEPT ![q] = r] \in [Requests -> RequestType]
  BY <1>1
<1>5. \A s \in Statuses : [request EXCEPT ![q].status = s] \in [Requests -> RequestType]
  BY <1>1, <1>2, <1>3
<1>6. ASSUME NEW s \in Statuses, NEW w \in SUBSET Jobs
      PROVE  [request EXCEPT ![q].status = s, ![q].waits = w] \in [Requests -> RequestType]
  <2>1. [request[q] EXCEPT !.status = s, !.waits = w] \in RequestType
    BY <1>1, <1>2, <1>3
  <2>2. [request EXCEPT ![q].status = s, ![q].waits = w]
            = [request EXCEPT ![q] = [request[q] EXCEPT !.status = s, !.waits = w]]
    BY <1>1
  <2> QED
    BY <1>1, <2>1, <2>2
<1>7. ASSUME NEW s \in Statuses, NEW n \in 0 .. RunIdEnd
      PROVE  [request EXCEPT ![q].status = s, ![q].run = n] \in [Requests -> RequestType]
  <2>1. [request[q] EXCEPT !.status = s, !.run = n] \in RequestType
    BY <1>1, <1>2, <1>3
  <2>2. [request EXCEPT ![q].status = s, ![q].run = n]
            = [request EXCEPT ![q] = [request[q] EXCEPT !.status = s, !.run = n]]
    BY <1>1
  <2> QED
    BY <1>1, <2>1, <2>2
<1>8. request[q] \in RequestType /\ request[q].tasks \subseteq Tasks
      /\ request[q].waits \subseteq Jobs
  <2>1. request[q] \in RequestType
    BY <1>1
  <2> QED
    BY <2>1 DEF RequestType
<1> QED
  BY <1>5, <1>6, <1>7, <1>8

LEMMA TypeRequests ==
    ASSUME Typed, NEW q \in Requests, NEW t,
           (t \in Tasks /\ (Trigger(q, t) \/ Stop(q, t))) \/ StopAll(q) \/ Acknowledge(q)
    PROVE  Typed'
<1>1. TypeOK /\ control \in Seq(Commands) /\ triggers \in Seq(Requests)
  BY DEF Typed, ChannelTypes
<1>2. \A k \in {"trigger", "stop", "stopAll"}, T \in SUBSET Tasks, s \in Statuses :
          /\ [Unused EXCEPT !.kind = k, !.tasks = T, !.status = s] \in RequestType
          /\ [Unused EXCEPT !.kind = k, !.status = s, !.tasks = T] \in RequestType
  <2>1. Unused \in RequestType
    BY TimeAssumption DEF Unused, RequestType, Statuses
  <2>2. \A r \in RequestType, k \in {"trigger", "stop", "stopAll"}, T \in SUBSET Tasks,
           u \in Statuses : /\ [r EXCEPT !.kind = k, !.tasks = T, !.status = u] \in RequestType
                            /\ [r EXCEPT !.kind = k, !.status = u, !.tasks = T] \in RequestType
    BY DEF RequestType
  <2> QED
    BY <2>1, <2>2
<1>3. request \in [Requests -> RequestType]
  BY <1>1 DEF TypeOK, RequestType
<1>4. "unavailable" \in Statuses /\ "pending" \in Statuses /\ "acked" \in Statuses
  BY DEF Statuses
<1>5. request' \in [Requests -> RequestType]
  <2>1. CASE t \in Tasks /\ Trigger(q, t)
    <3>1. PICK s \in Statuses : request' = [request EXCEPT ![q] =
                [Unused EXCEPT !.kind = "trigger", !.tasks = {t}, !.status = s]]
      BY <1>4, <2>1 DEF Trigger
    <3>2. {t} \in SUBSET Tasks
      BY <2>1
    <3>3. [Unused EXCEPT !.kind = "trigger", !.tasks = {t}, !.status = s] \in RequestType
      BY <1>2, <3>2
    <3> QED
      BY <1>3, <3>1, <3>3
  <2>2. CASE t \in Tasks /\ Stop(q, t)
    <3>1. {t} \in SUBSET Tasks /\ request' = [request EXCEPT ![q] =
                [Unused EXCEPT !.kind = "stop", !.tasks = {t}, !.status = "pending"]]
      BY <2>2 DEF Stop
    <3>2. [Unused EXCEPT !.kind = "stop", !.tasks = {t}, !.status = "pending"] \in RequestType
      BY <1>2, <1>4, <3>1
    <3> QED
      BY <1>3, <3>1, <3>2
  <2>3. CASE StopAll(q)
    <3>1. {u \in Tasks : owner[u] # "new"} \in SUBSET Tasks
      OBVIOUS
    <3> QED
      BY <1>2, <1>3, <1>4, <2>3, <3>1 DEF StopAll
  <2>4. CASE Acknowledge(q)
    BY <1>1, <1>4, <2>4, RequestFacts DEF Acknowledge
  <2> QED
    BY <2>1, <2>2, <2>3, <2>4
<1>6. control' \in Seq(Commands)
  <2>1. (t \in Tasks => [kind |-> "remove", task |-> t, ack |-> q] \in Commands)
        /\ [kind |-> "stopAll", ack |-> q] \in Commands
    BY DEF Commands
  <2>2. CASE t \in Tasks /\ Stop(q, t)
    BY <1>1, <2>1, <2>2, SeqFacts DEF Stop, Send
  <2>3. CASE StopAll(q)
    BY <1>1, <2>1, <2>3, SeqFacts DEF StopAll, Send
  <2>4. CASE Trigger(q, t) \/ Acknowledge(q)
    BY <1>1, <2>4 DEF Trigger, Acknowledge
  <2> QED
    BY <2>2, <2>3, <2>4
<1>7. triggers' \in Seq(Requests)
  <2>1. CASE Trigger(q, t)
    BY <1>1, <2>1, SeqFacts DEF Trigger
  <2>2. CASE Stop(q, t) \/ StopAll(q) \/ Acknowledge(q)
    BY <1>1, <2>2 DEF Stop, StopAll, Acknowledge
  <2> QED
    BY <2>1, <2>2
<1>8. UNCHANGED <<clockVars, owner, tableVars, jobVars>>
  BY DEF Trigger, Stop, StopAll, Acknowledge
<1> QED
  BY <1>1, <1>5, <1>6, <1>7, <1>8
     DEF Typed, ChannelTypes, TypeOK, RequestType, clockVars, tableVars, jobVars

LEMMA TypeOwner ==
    ASSUME Typed, NEW t, (t \in Tasks /\ (Register(t) \/ StopDetached(t))) \/ Tick \/ WallJump
    PROVE  Typed'
<1>1. TypeOK /\ control \in Seq(Commands) /\ triggers \in Seq(Requests)
  BY DEF Typed, ChannelTypes
<1>2. now' \in Nat /\ offset' \in Offsets /\ owner' \in [Tasks -> {"new", "handed", "released"}]
  <2>1. now \in Nat /\ offset \in Offsets /\ owner \in [Tasks -> {"new", "handed", "released"}]
    BY <1>1 DEF TypeOK
  <2>2. CASE Register(t)
    BY <2>1, <2>2 DEF Register, clockVars
  <2>3. CASE StopDetached(t)
    BY <2>1, <2>3 DEF StopDetached, clockVars
  <2>4. CASE Tick \/ WallJump
    BY <2>1, <2>4 DEF Tick, WallJump
  <2> QED
    BY <2>2, <2>3, <2>4
<1>3. control' \in Seq(Commands)
  <2>1. CASE t \in Tasks /\ Register(t)
    <3> DEFINE first == NextAfter(t, At(now, IF t \in CronTasks THEN wall ELSE now))
    <3>1. At(now, IF t \in CronTasks THEN wall ELSE now) \in Deadlines
      BY <1>1, Clock DEF At, Deadlines
    <3>2. first # None /\ Send([kind |-> "register", task |-> t, next |-> first])
      BY <2>1 DEF Register
    <3>3. first \in Deadlines
      BY <1>1, <2>1, <3>1, <3>2, NextAfterFacts
    <3> HIDE DEF first
    <3>4. [kind |-> "register", task |-> t, next |-> first] \in Commands
      BY <2>1, <3>3 DEF Commands
    <3> QED
      BY <1>1, <3>2, <3>4, SeqFacts DEF Send
  <2>2. CASE t \in Tasks /\ StopDetached(t)
    <3>1. [kind |-> "detached", task |-> t] \in Commands
      BY <2>2 DEF Commands
    <3> QED
      BY <1>1, <2>2, <3>1, SeqFacts DEF Send, StopDetached
  <2> QED
    BY <1>1, <2>1, <2>2 DEF Tick, WallJump
<1>4. UNCHANGED <<triggers, tableVars, jobVars, request>>
  BY DEF Register, StopDetached, Tick, WallJump
<1> QED
  BY <1>1, <1>2, <1>3, <1>4 DEF Typed, ChannelTypes, TypeOK, tableVars, jobVars

LEMMA TypeJobs ==
    ASSUME Typed, NEW j \in Jobs, JobStep(j)
    PROVE  Typed'
<1>1. TypeOK /\ control \in Seq(Commands) /\ triggers \in Seq(Requests)
  BY DEF Typed, ChannelTypes
<1>2. \E s \in {"building", "live", "ended"} : Become(j, s)
  BY DEF JobStep, JobPoll, JobBuilt, JobEnd, JobCancelled
<1>3. job' \in [Jobs -> JobStates] /\ aborted' \subseteq Jobs
  BY <1>1, <1>2 DEF Become, TypeOK, JobStates
<1>4. UNCHANGED <<clockVars, owner, control, triggers, tableVars>>
  BY DEF JobStep, JobPoll, JobBuilt, JobEnd, JobCancelled
<1>5. \/ UNCHANGED <<replyOf, request>>
      \/ Reply(j, "started", j[2]) \/ Reply(j, "unavailable", 0)
  BY DEF JobStep, JobPoll, JobBuilt, JobEnd, JobCancelled
<1>6. j[2] \in 0 .. RunIdEnd /\ 0 \in 0 .. RunIdEnd
      /\ "started" \in Statuses /\ "unavailable" \in Statuses
      /\ replyOf[j] \in Requests \cup {None}
  BY <1>1, TimeAssumption DEF Jobs, RunIds, Statuses, TypeOK
<1>7. request' \in [Requests -> RequestType]
  <2>1. request \in [Requests -> RequestType]
    BY <1>1 DEF TypeOK, RequestType
  <2>2. CASE replyOf[j] = None
    BY <1>5, <2>1, <2>2 DEF Reply
  <2>3. CASE replyOf[j] # None
    <3>1. \A s \in Statuses, n \in 0 .. RunIdEnd :
             [request EXCEPT ![replyOf[j]].status = s, ![replyOf[j]].run = n]
                 \in [Requests -> RequestType]
      BY <1>1, <1>6, <2>3, RequestFacts
    <3>2. CASE UNCHANGED <<replyOf, request>>
      BY <2>1, <3>2
    <3>3. CASE Reply(j, "started", j[2])
      BY <1>6, <2>3, <3>1, <3>3 DEF Reply
    <3>4. CASE Reply(j, "unavailable", 0)
      BY <1>6, <2>3, <3>1, <3>4 DEF Reply
    <3> QED
      BY <1>5, <3>2, <3>3, <3>4
  <2> QED
    BY <2>2, <2>3
<1>8. replyOf' \in [Jobs -> Requests \cup {None}]
  BY <1>1, <1>5 DEF Reply, TypeOK
<1> QED
  BY <1>1, <1>3, <1>4, <1>7, <1>8
     DEF Typed, ChannelTypes, TypeOK, RequestType, clockVars, tableVars

\* What the removing commands do to the request that waits for them.
LEMMA AwaitFacts ==
    ASSUME TypeOK, NEW q \in Requests, NEW gone \in SUBSET registered, AwaitRuns(q, gone)
    PROVE  /\ request' \in [Requests -> RequestType]
           /\ Handles(gone) \subseteq Jobs
           /\ request'[q].status \in {"acked", "stopping"}
           /\ Handles(gone) # {} => request'[q].status = "stopping"
           /\ request'[q].waits = Handles(gone)
           /\ request'[q].kind = request[q].kind /\ request'[q].tasks = request[q].tasks
           /\ \A p \in Requests : p # q => request'[p] = request[p]
<1>1. Handles(gone) \subseteq Jobs
  <2>1. registered \subseteq Tasks /\ \A t \in Tasks : running[t] \in 0 .. RunIdEnd
    BY DEF TypeOK
  <2>2. \A t \in gone : t \in Tasks /\ (running[t] # 0 => running[t] \in RunIds)
    BY <2>1, TimeAssumption DEF RunIds
  <2> QED
    BY <2>2 DEF Handles, Jobs
<1>2. PICK s \in {"acked", "stopping"} :
        /\ Handles(gone) # {} => s = "stopping"
        /\ request' = [request EXCEPT ![q].status = s, ![q].waits = Handles(gone)]
  <2>1. CASE Handles(gone) = {}
    BY <2>1 DEF AwaitRuns
  <2>2. CASE Handles(gone) # {}
    BY <2>2 DEF AwaitRuns
  <2> QED
    BY <2>1, <2>2
<1>3. s \in Statuses
  BY DEF Statuses
<1>4. request' \in [Requests -> RequestType]
  BY <1>1, <1>2, <1>3, RequestFacts
<1>5. request \in [Requests -> RequestType]
  BY DEF TypeOK, RequestType
<1>6. /\ request'[q].status = s /\ request'[q].waits = Handles(gone)
      /\ request'[q].kind = request[q].kind /\ request'[q].tasks = request[q].tasks
      /\ \A p \in Requests : p # q => request'[p] = request[p]
  BY <1>2, <1>5 DEF RequestType
<1> QED
  BY <1>1, <1>2, <1>4, <1>6

\* The commands that take tasks out of the table.
Removing(gone) ==
    \/ HandleRemove /\ gone = {Head(control).task} \cap registered
    \/ HandleDetached /\ gone = {Head(control).task} \cap registered
    \/ HandleStopAll /\ gone = registered

LEMMA RemovingFacts ==
    ASSUME Typed, NEW gone, Removing(gone)
    PROVE  /\ control # <<>> /\ Head(control) \in Commands
           /\ gone \in SUBSET registered /\ RemoveTasks(gone)
           /\ HandleRemove => AwaitRuns(Head(control).ack, gone) /\ Head(control).ack \in Requests
                              /\ Head(control).kind = "remove"
           /\ HandleDetached => UNCHANGED request /\ Head(control).kind = "detached"
           /\ HandleStopAll => AwaitRuns(Head(control).ack, gone) /\ Head(control).ack \in Requests
                               /\ Head(control).kind = "stopAll"
<1>1. control \in Seq(Commands) /\ control # <<>>
  BY DEF Typed, ChannelTypes, Removing, HandleRemove, HandleDetached, HandleStopAll
<1>2. Head(control) \in Commands
  BY <1>1, SeqFacts
<1>3. CASE HandleRemove /\ gone = {Head(control).task} \cap registered
  BY <1>1, <1>2, <1>3, CommandFacts DEF HandleRemove, HandleDetached, HandleStopAll
<1>4. CASE HandleDetached /\ gone = {Head(control).task} \cap registered
  BY <1>1, <1>2, <1>4, CommandFacts DEF HandleRemove, HandleDetached, HandleStopAll
<1>5. CASE HandleStopAll /\ gone = registered
  BY <1>1, <1>2, <1>5, CommandFacts DEF HandleRemove, HandleDetached, HandleStopAll
<1> QED
  BY <1>3, <1>4, <1>5 DEF Removing

LEMMA RecheckKept ==
    ASSUME TypeOK, RecheckInv, LoopHead(recheckAt), now' = now
    PROVE  recheckAt' \in Nat \cup {None} /\ RecheckInv'
BY LoopHeadFacts DEF RecheckInv, TypeOK

LEMMA TypeCommands ==
    ASSUME Typed, RecheckInv, HandleCommand
    PROVE  Typed' /\ RecheckInv'
<1>1. TypeOK /\ control \in Seq(Commands) /\ triggers \in Seq(Requests)
  BY DEF Typed, ChannelTypes
<1>2. CASE HandleRegister
  <2> DEFINE c == Head(control)
  <2>1. c \in Commands /\ control' = Tail(control) /\ control' \in Seq(Commands)
        /\ c.kind = "register"
    BY <1>1, <1>2, SeqFacts DEF HandleRegister
  <2>2. c.task \in Tasks /\ c.next \in Deadlines /\ c.next.instant \in Nat
    BY <2>1, CommandFacts DEF Deadlines
  <2>3. /\ registered' = registered \cup {c.task}
        /\ nextRun' = [nextRun EXCEPT ![c.task] = c.next]
        /\ heap' = heap \cup {<<c.next.instant, c.task>>}
        /\ LoopHead(recheckAt)
        /\ UNCHANGED <<clockVars, owner, triggers, running, nextRunId, jobVars, request>>
    BY <1>2 DEF HandleRegister
  <2> HIDE DEF c
  <2>4. registered' \subseteq Tasks /\ nextRun' \in [Tasks -> Deadlines \cup {None}]
        /\ heap' \subseteq Nat \X Tasks
    BY <1>1, <2>2, <2>3 DEF TypeOK
  <2>5. recheckAt' \in Nat \cup {None} /\ RecheckInv'
    BY <1>1, <2>3, RecheckKept DEF clockVars
  <2> QED
    BY <1>1, <2>1, <2>3, <2>4, <2>5 DEF Typed, ChannelTypes, TypeOK, clockVars, jobVars
<1>3. ASSUME NEW gone, Removing(gone) PROVE Typed' /\ RecheckInv'
  <2>1. gone \in SUBSET registered /\ RemoveTasks(gone) /\ control # <<>>
    BY <1>3, RemovingFacts
  <2>2. control' \in Seq(Commands)
    BY <1>1, <2>1, SeqFacts DEF RemoveTasks
  <2>3. UNCHANGED <<clockVars, owner, triggers, running, nextRunId, job, replyOf>>
        /\ LoopHead(recheckAt)
    BY <2>1 DEF RemoveTasks
  <2>4. recheckAt' \in Nat \cup {None} /\ RecheckInv'
    BY <1>1, <2>3, RecheckKept DEF clockVars
  <2>5. request' \in [Requests -> RequestType]
    <3>1. request \in [Requests -> RequestType]
      BY <1>1 DEF TypeOK, RequestType
    <3>2. UNCHANGED request \/ \E q \in Requests : AwaitRuns(q, gone)
      BY <1>3, RemovingFacts DEF Removing
    <3> QED
      BY <1>1, <2>1, <3>1, <3>2, AwaitFacts
  <2>6. /\ registered' \subseteq Tasks /\ nextRun' \in [Tasks -> Deadlines \cup {None}]
        /\ heap' \subseteq Nat \X Tasks /\ aborted' \subseteq Jobs
    BY <1>1, <2>1, RemoveFacts
  <2> QED
    BY <1>1, <2>2, <2>3, <2>4, <2>5, <2>6
       DEF Typed, ChannelTypes, TypeOK, RequestType, clockVars
<1> QED
  BY <1>2, <1>3 DEF HandleCommand, Removing

LEMMA TypeWakeup ==
    ASSUME Typed, RecheckInv, Wakeup
    PROVE  Typed' /\ RecheckInv'
<1>1. TypeOK /\ control \in Seq(Commands) /\ triggers \in Seq(Requests)
  BY DEF Typed, ChannelTypes
<1>2. PICK h \in SUBSET (Nat \X Tasks) : RunDue(Refreshed, h)
  BY <1>1, WakeupFacts
<1> DEFINE next == Refreshed
<1>3. next \in [Tasks -> Deadlines \cup {None}] /\ None \notin Deadlines
  BY <1>1, RefreshedFacts, TaskAssumption DEF Deadlines
<1>4. \A t \in Tasks : next[t] # None => NextAfter(t, next[t]) \in Deadlines \cup {None}
  BY <1>1, <1>3, NextAfterFacts
<1>5. UNCHANGED <<clockVars, owner, control, triggers, registered, aborted, replyOf, request>>
      /\ LoopHead(IF recheckAt = None THEN None ELSE now + Recheck)
  BY DEF Wakeup
<1> HIDE DEF next
<1>6. nextRun' = [t \in Tasks |->
                 IF Pauses(next, h, t) THEN None
                 ELSE IF Due(next, h, t) THEN NextAfter(t, next[t]) ELSE next[t]]
  BY <1>1, <1>2, RunDueFacts DEF next
<1>7. nextRun' \in [Tasks -> Deadlines \cup {None}]
  BY <1>3, <1>4, <1>6 DEF Due
<1>8. heap' \subseteq Nat \X Tasks
  <2>1. \A e : e \in heap' <=>
                 \/ e \in h /\ e[1] > now
                 \/ \E t \in Tasks : Due(next, h, t) /\ NextAfter(t, next[t]) # None
                                     /\ e = <<NextAfter(t, next[t]).instant, t>>
    BY <1>1, <1>2, RunDueFacts DEF next
  <2>2. \A t \in Tasks : Due(next, h, t) /\ NextAfter(t, next[t]) # None =>
            NextAfter(t, next[t]).instant \in Nat
    BY <1>4 DEF Due, Deadlines
  <2> QED
    BY <2>1, <2>2
<1>9. /\ running' \in [Tasks -> 0 .. RunIdEnd] /\ nextRunId' \in [Tasks -> RunIds]
      /\ job' \in [Jobs -> JobStates]
  <2>1. /\ running' = [t \in Tasks |->
                 IF Starts(next, h, t) THEN nextRunId[t]
                 ELSE IF Pauses(next, h, t) THEN 0 ELSE running[t]]
        /\ nextRunId' = [t \in Tasks |->
                 IF Starts(next, h, t) THEN nextRunId[t] + 1 ELSE nextRunId[t]]
        /\ job' = [j \in Jobs |->
                 IF Starts(next, h, j[1]) /\ j[2] = nextRunId[j[1]]
                 THEN "spawned" ELSE job[j]]
    BY <1>1, <1>2, RunDueFacts DEF next
  <2>2. \A t \in Tasks : /\ nextRunId[t] \in RunIds /\ running[t] \in 0 .. RunIdEnd
                         /\ nextRunId[t] \in 0 .. RunIdEnd /\ 0 \in 0 .. RunIdEnd
                         /\ HasRunId(t) => nextRunId[t] + 1 \in RunIds
    BY <1>1, TimeAssumption DEF TypeOK, RunIds, HasRunId
  <2>3. \A j \in Jobs : job[j] \in JobStates
    BY <1>1 DEF TypeOK
  <2> QED
    BY <2>1, <2>2, <2>3 DEF Starts, JobStates
<1>10. recheckAt' \in Nat \cup {None} /\ RecheckInv'
  <2> DEFINE r == IF recheckAt = None THEN None ELSE now + Recheck
  <2>1. now \in Nat /\ Recheck \in Nat /\ now + Recheck \in Nat /\ now' = now
    BY <1>1, <1>5, Clock, TimeAssumption DEF clockVars
  <2>2. r \in Nat \cup {None} /\ (r # None => r <= now + Recheck)
    BY <2>1
  <2> HIDE DEF r
  <2> QED
    BY <1>1, <1>5, <2>1, <2>2, LoopHeadFacts DEF r
<1> QED
  BY <1>1, <1>5, <1>7, <1>8, <1>9, <1>10 DEF Typed, ChannelTypes, TypeOK, clockVars

LEMMA TypeTrigger ==
    ASSUME Typed, RecheckInv, NEW q \in Requests, NEW t \in Tasks,
           TriggerUnavailable(q, t) \/ TriggerOverlaps(q, t) \/ TriggerStarts(q, t)
    PROVE  Typed' /\ RecheckInv'
<1>1. TypeOK /\ control \in Seq(Commands) /\ triggers \in Seq(Requests)
  BY DEF Typed, ChannelTypes
<1>2. /\ triggers # <<>> /\ triggers' = Tail(triggers)
      /\ UNCHANGED <<clockVars, owner, control, registered, nextRun, heap, aborted>>
      /\ LoopHead(recheckAt)
  BY DEF TriggerUnavailable, TriggerOverlaps, TriggerStarts, TriggerArm
<1>3. triggers' \in Seq(Requests)
  BY <1>1, <1>2, SeqFacts
<1>4. recheckAt' \in Nat \cup {None} /\ RecheckInv'
  BY <1>1, <1>2, RecheckKept DEF clockVars
<1>5. request' \in [Requests -> RequestType]
  <2>1. request \in [Requests -> RequestType] /\ {"unavailable", "alreadyRunning"} \subseteq Statuses
    BY <1>1 DEF TypeOK, RequestType, Statuses
  <2>2. \A s \in Statuses : Settle(q, s) => request' \in [Requests -> RequestType]
    BY <1>1, RequestFacts DEF Settle
  <2>3. UNCHANGED request \/ Settle(q, "unavailable") \/ Settle(q, "alreadyRunning")
    BY DEF TriggerUnavailable, TriggerOverlaps, TriggerStarts
  <2> QED
    BY <2>1, <2>2, <2>3
<1>6. /\ running' \in [Tasks -> 0 .. RunIdEnd] /\ nextRunId' \in [Tasks -> RunIds]
      /\ job' \in [Jobs -> JobStates] /\ replyOf' \in [Jobs -> Requests \cup {None}]
  <2>1. /\ nextRunId[t] \in RunIds /\ nextRunId[t] \in 0 .. RunIdEnd /\ 0 \in 0 .. RunIdEnd
        /\ HasRunId(t) => nextRunId[t] + 1 \in RunIds
        /\ "spawned" \in JobStates /\ running[t] \in 0 .. RunIdEnd
    BY <1>1, TimeAssumption DEF TypeOK, RunIds, HasRunId, JobStates
  <2>2. /\ running \in [Tasks -> 0 .. RunIdEnd] /\ nextRunId \in [Tasks -> RunIds]
        /\ job \in [Jobs -> JobStates] /\ replyOf \in [Jobs -> Requests \cup {None}]
    BY <1>1 DEF TypeOK
  <2>3. CASE TriggerUnavailable(q, t) \/ TriggerOverlaps(q, t)
    BY <2>1, <2>2, <2>3 DEF TriggerUnavailable, TriggerOverlaps
  <2>4. CASE TriggerStarts(q, t)
    BY <2>1, <2>2, <2>4 DEF TriggerStarts
  <2> QED
    BY <2>3, <2>4
<1> QED
  BY <1>1, <1>2, <1>3, <1>4, <1>5, <1>6 DEF Typed, ChannelTypes, TypeOK, RequestType, clockVars

LEMMA TypeStep ==
    ASSUME Typed, RecheckInv, Next
    PROVE  Typed' /\ RecheckInv'
<1>1. \A n, m \in Nat : n <= m + Recheck => n <= m + 1 + Recheck
  BY TimeAssumption
<1>2. TypeOK
  BY DEF Typed
<1>3. ASSUME UNCHANGED <<registered, nextRun, recheckAt>>, now' \in {now, now + 1}
      PROVE  RecheckInv'
  <2>1. recheckAt \in Nat \cup {None} /\ now \in Nat
    BY <1>2 DEF TypeOK
  <2> QED
    BY <1>1, <1>3, <2>1 DEF RecheckInv, CronRechecked
<1>4. ASSUME NEW t, (t \in Tasks /\ (Register(t) \/ StopDetached(t))) \/ Tick \/ WallJump
      PROVE  Typed' /\ RecheckInv'
  <2>1. UNCHANGED <<registered, nextRun, recheckAt>> /\ now' \in {now, now + 1}
    BY <1>4 DEF Register, StopDetached, Tick, WallJump, tableVars, clockVars
  <2> QED
    BY <1>3, <1>4, <2>1, TypeOwner
<1>5. ASSUME NEW q \in Requests, NEW t,
             (t \in Tasks /\ (Trigger(q, t) \/ Stop(q, t))) \/ StopAll(q) \/ Acknowledge(q)
      PROVE  Typed' /\ RecheckInv'
  <2>1. UNCHANGED <<registered, nextRun, recheckAt>> /\ now' \in {now, now + 1}
    BY <1>5 DEF Trigger, Stop, StopAll, Acknowledge, tableVars, clockVars
  <2> QED
    BY <1>3, <1>5, <2>1, TypeRequests
<1>6. ASSUME NEW j \in Jobs, JobStep(j) PROVE Typed' /\ RecheckInv'
  <2>1. UNCHANGED <<registered, nextRun, recheckAt>> /\ now' \in {now, now + 1}
    BY <1>6 DEF JobStep, JobPoll, JobBuilt, JobEnd, JobCancelled, tableVars, clockVars
  <2> QED
    BY <1>3, <1>6, <2>1, TypeJobs
<1>7. CASE Scheduler
  BY <1>7, TypeCommands, TypeWakeup, TypeTrigger DEF Scheduler, HandleTrigger
<1> QED
  BY <1>4, <1>5, <1>6, <1>7 DEF Next
-----------------------------------------------------------------------------
(***************************************************************************)
(* Runs.                                                                   *)
(***************************************************************************)
LEMMA JobFacts ==
    \A j \in Jobs : j[1] \in Tasks /\ j[2] \in RunIds /\ j[2] \in Nat /\ j[2] # 0
                    /\ j = <<j[1], j[2]>>
BY TimeAssumption DEF Jobs, RunIds

LEMMA FreeFacts ==
    ASSUME RunInv, NEW t \in Tasks, Free(t)
    PROVE  \A j \in Jobs : j[1] = t => Ended(j)
BY JobFacts DEF RunInv, Free

\* The runs, seen from the jobs that are started or finished by a step.
LEMMA StartFacts ==
    ASSUME Typed, RunInv, NEW S,
           \A t \in S : t \in Tasks /\ Free(t) /\ HasRunId(t),
           \A t \in Tasks : nextRunId'[t] = IF t \in S THEN nextRunId[t] + 1 ELSE nextRunId[t],
           \A t \in Tasks : \/ t \in S /\ running'[t] = nextRunId[t]
                            \/ t \notin S /\ (running'[t] = running[t] \/ Free(t)),
           \A j \in Jobs : job'[j] = IF j[1] \in S /\ j[2] = nextRunId[j[1]]
                                     THEN "spawned" ELSE job[j]
    PROVE  RunInv'
<1>1. \A t \in Tasks : nextRunId[t] \in Nat
  BY TimeAssumption DEF Typed, TypeOK, RunIds
<1>2. ASSUME NEW j \in Jobs
      PROVE  /\ ~Ended(j)' => j[2] = running'[j[1]]
             /\ job'[j] # "none" => j[2] < nextRunId'[j[1]]
  <2>1. j[1] \in Tasks /\ j[2] \in Nat /\ nextRunId[j[1]] \in Nat
    BY <1>1, JobFacts
  <2>2. (~Ended(j) => j[2] = running[j[1]]) /\ (job[j] # "none" => j[2] < nextRunId[j[1]])
    BY DEF RunInv
  <2>3. Free(j[1]) => Ended(j)
    BY <2>1, FreeFacts
  <2>4. CASE j[1] \in S /\ j[2] = nextRunId[j[1]]
    BY <2>1, <2>4
  <2>5. CASE ~(j[1] \in S /\ j[2] = nextRunId[j[1]])
    <3>1. job'[j] = job[j]
      BY <2>5
    <3> QED
      BY <2>1, <2>2, <2>3, <3>1 DEF Ended
  <2> QED
    BY <2>4, <2>5
<1> QED
  BY <1>2 DEF RunInv

LEMMA RunStep ==
    ASSUME Typed, RunInv, Next
    PROVE  RunInv'
<1>1. CASE UNCHANGED <<running, nextRunId, job>>
  BY <1>1 DEF RunInv, Ended
<1>2. ASSUME NEW j \in Jobs, JobStep(j) PROVE RunInv'
  <2>1. UNCHANGED <<running, nextRunId>> /\ ~Ended(j)
        /\ \E s \in {"building", "live", "ended"} : job' = [job EXCEPT ![j] = s]
    BY <1>2 DEF JobStep, JobPoll, JobBuilt, JobEnd, JobCancelled, Become, tableVars, Ended
  <2>2. job \in [Jobs -> JobStates]
    BY DEF Typed, TypeOK
  <2>3. \A i \in Jobs : i # j => job'[i] = job[i]
    BY <2>1, <2>2
  <2>4. ~Ended(j) => job[j] # "none"
    BY DEF Ended
  <2> QED
    BY <2>1, <2>3, <2>4 DEF RunInv, Ended
<1>3. ASSUME Wakeup PROVE RunInv'
  <2>1. PICK h : RunDue(Refreshed, h)
    BY <1>3, WakeupFacts DEF Typed
  <2> DEFINE S == {t \in Tasks : Starts(Refreshed, h, t)}
  <2>2. /\ running' = [t \in Tasks |->
                 IF Starts(Refreshed, h, t) THEN nextRunId[t]
                 ELSE IF Pauses(Refreshed, h, t) THEN 0 ELSE running[t]]
        /\ nextRunId' = [t \in Tasks |->
                 IF Starts(Refreshed, h, t) THEN nextRunId[t] + 1 ELSE nextRunId[t]]
        /\ job' = [j \in Jobs |->
                 IF Starts(Refreshed, h, j[1]) /\ j[2] = nextRunId[j[1]]
                 THEN "spawned" ELSE job[j]]
    BY <2>1, RunDueFacts DEF Typed
  <2>3. \A t \in Tasks : /\ t \in S <=> Starts(Refreshed, h, t)
                         /\ Starts(Refreshed, h, t) => Free(t) /\ HasRunId(t)
                         /\ Pauses(Refreshed, h, t) => Free(t)
    BY DEF Starts, Pauses
  <2>4. \A t \in S : t \in Tasks
    OBVIOUS
  <2> HIDE DEF S
  <2> QED
    BY <2>2, <2>3, <2>4, JobFacts, StartFacts
<1>4. ASSUME NEW q \in Requests, NEW t \in Tasks,
             TriggerUnavailable(q, t) \/ TriggerOverlaps(q, t) \/ TriggerStarts(q, t)
      PROVE  RunInv'
  <2>1. CASE TriggerStarts(q, t)
    <3> DEFINE S == {t}
    <3>1. Free(t) /\ HasRunId(t) /\ running' = [running EXCEPT ![t] = nextRunId[t]]
          /\ nextRunId' = [nextRunId EXCEPT ![t] = @ + 1]
          /\ job' = [job EXCEPT ![<<t, nextRunId[t]>>] = "spawned"]
      BY <2>1 DEF TriggerStarts
    <3>2. nextRunId \in [Tasks -> RunIds] /\ running \in [Tasks -> 0 .. RunIdEnd]
          /\ job \in [Jobs -> JobStates] /\ <<t, nextRunId[t]>> \in Jobs
      BY DEF Typed, TypeOK, Jobs
    <3>3. \A u \in Tasks : nextRunId'[u] = IF u \in S THEN nextRunId[u] + 1 ELSE nextRunId[u]
      BY <3>1, <3>2
    <3>4. \A u \in Tasks : running'[u] = IF u \in S THEN nextRunId[u] ELSE running[u]
      BY <3>1, <3>2
    <3>5. ASSUME NEW j \in Jobs
          PROVE  job'[j] = IF j[1] \in S /\ j[2] = nextRunId[j[1]] THEN "spawned" ELSE job[j]
      BY <3>1, <3>2, JobFacts
    <3>6. \A u \in S : u \in Tasks /\ Free(u) /\ HasRunId(u)
      BY <3>1
    <3> HIDE DEF S
    <3> QED
      BY <3>3, <3>4, <3>5, <3>6, StartFacts
  <2>2. CASE TriggerUnavailable(q, t)
    <3>1. UNCHANGED <<nextRunId, job>> /\ (t \in registered => Free(t))
          /\ running' = [running EXCEPT ![t] = IF t \in registered THEN 0 ELSE @]
      BY <2>2 DEF TriggerUnavailable
    <3>2. \A u \in Tasks : running'[u] = running[u] \/ Free(u)
      BY <3>1 DEF Typed, TypeOK
    <3> QED
      BY <3>1, <3>2, StartFacts, JobFacts DEF RunInv, Ended, Free
  <2>3. CASE TriggerOverlaps(q, t)
    BY <1>1, <2>3 DEF TriggerOverlaps
  <2> QED
    BY <1>4, <2>1, <2>2, <2>3
<1>5. CASE HandleCommand
  BY <1>1, <1>5 DEF HandleCommand, HandleRegister, HandleRemove, HandleDetached,
                    HandleStopAll, RemoveTasks, jobVars
<1>6. ASSUME NEW t \in Tasks, Register(t) \/ StopDetached(t) PROVE RunInv'
  BY <1>1, <1>6 DEF Register, StopDetached, tableVars, jobVars
<1>7. ASSUME NEW q \in Requests, NEW t \in Tasks, Trigger(q, t) \/ Stop(q, t) PROVE RunInv'
  BY <1>1, <1>7 DEF Trigger, Stop, tableVars, jobVars
<1>8. ASSUME NEW q \in Requests, StopAll(q) \/ Acknowledge(q) PROVE RunInv'
  BY <1>1, <1>8 DEF StopAll, Acknowledge, tableVars, jobVars
<1>9. CASE Tick \/ WallJump
  BY <1>1, <1>9 DEF Tick, WallJump, tableVars, jobVars
<1> QED
  BY <1>2, <1>3, <1>4, <1>5, <1>6, <1>7, <1>8, <1>9 DEF Next, Scheduler, HandleTrigger

-----------------------------------------------------------------------------
(***************************************************************************)
(* Deadlines.                                                              *)
(***************************************************************************)
TableInv == DeadlinesOnHeap /\ FixedOnGrid

\* A command that is sent, or taken from the channel, leaves the others as
\* they are.
LEMMA SentStep ==
    ASSUME Typed, SentOnGrid,
           \/ UNCHANGED control
           \/ control # <<>> /\ control' = Tail(control)
           \/ \E c \in Commands : /\ control' = Append(control, c)
                                  /\ c.kind = "register" /\ c.task \in FixedTasks
                                        => c.next.unix = c.next.instant
    PROVE  SentOnGrid'
<1>1. control \in Seq(Commands) /\ Len(control) \in Nat
  BY SeqFacts DEF Typed, ChannelTypes
<1>2. CASE UNCHANGED control
  BY <1>2 DEF SentOnGrid
<1>3. CASE control # <<>> /\ control' = Tail(control)
  <2>1. ASSUME NEW i \in 1 .. Len(control')
        PROVE  i + 1 \in 1 .. Len(control) /\ control'[i] = control[i + 1]
    BY <1>1, <1>3, SeqFacts
  <2> QED
    BY <2>1 DEF SentOnGrid
<1>4. CASE \E c \in Commands : /\ control' = Append(control, c)
                               /\ c.kind = "register" /\ c.task \in FixedTasks
                                     => c.next.unix = c.next.instant
  <2>1. PICK c \in Commands : /\ control' = Append(control, c)
                              /\ c.kind = "register" /\ c.task \in FixedTasks
                                     => c.next.unix = c.next.instant
    BY <1>4
  <2>2. ASSUME NEW i \in 1 .. Len(control')
        PROVE  (i \in 1 .. Len(control) /\ control'[i] = control[i]) \/ control'[i] = c
    BY <1>1, <2>1, SeqFacts
  <2> QED
    BY <2>1, <2>2 DEF SentOnGrid
<1> QED
  BY <1>2, <1>3, <1>4

LEMMA RegisterFacts ==
    ASSUME Typed, NEW t \in Tasks, Register(t)
    PROVE  \E d \in Deadlines :
             /\ control' = Append(control, [kind |-> "register", task |-> t, next |-> d])
             /\ [kind |-> "register", task |-> t, next |-> d] \in Commands
             /\ t \in FixedTasks => d.unix = d.instant
<1> DEFINE now0 == At(now, IF t \in CronTasks THEN wall ELSE now)
           first == NextAfter(t, now0)
<1>1. now \in Nat /\ wall \in Nat /\ now <= now /\ TypeOK
  BY Clock DEF Typed
<1>2. now0 \in Deadlines /\ now0.instant = now
      /\ now0.unix = IF t \in CronTasks THEN wall ELSE now
  BY <1>1 DEF At, Deadlines
<1>3. first # None /\ control' = Append(control, [kind |-> "register", task |-> t, next |-> first])
  BY DEF Register, Send
<1> HIDE DEF now0
<1>4. first \in Deadlines
  BY <1>1, <1>2, <1>3, NextAfterFacts
<1>5. t \in FixedTasks => first.unix = first.instant
  <2>1. t \in FixedTasks => t \notin CronTasks
    BY TaskAssumption
  <2> QED
    BY <1>1, <1>2, <2>1, NextAfterFacts
<1> HIDE DEF first
<1>6. [kind |-> "register", task |-> t, next |-> first] \in Commands
  BY <1>4 DEF Commands
<1> QED
  BY <1>3, <1>4, <1>5, <1>6

LEMMA SentOnGridStep ==
    ASSUME Typed, SentOnGrid, Next
    PROVE  SentOnGrid'
<1>1. /\ \A q \in Requests, t \in Tasks :
             [kind |-> "remove", task |-> t, ack |-> q] \in Commands
      /\ \A t \in Tasks : [kind |-> "detached", task |-> t] \in Commands
      /\ \A q \in Requests : [kind |-> "stopAll", ack |-> q] \in Commands
  BY DEF Commands
<1>2. ASSUME NEW t \in Tasks, Register(t) PROVE SentOnGrid'
  <2>1. PICK d \in Deadlines :
             /\ control' = Append(control, [kind |-> "register", task |-> t, next |-> d])
             /\ [kind |-> "register", task |-> t, next |-> d] \in Commands
             /\ t \in FixedTasks => d.unix = d.instant
    BY <1>2, RegisterFacts
  <2> DEFINE c == [kind |-> "register", task |-> t, next |-> d]
  <2>2. c.task = t /\ c.next = d
    OBVIOUS
  <2>3. c \in Commands /\ control' = Append(control, c)
        /\ (c.kind = "register" /\ c.task \in FixedTasks => c.next.unix = c.next.instant)
    BY <2>1, <2>2
  <2> HIDE DEF c
  <2> QED
    BY <2>3, SentStep
<1>3. ASSUME NEW t \in Tasks, StopDetached(t) PROVE SentOnGrid'
  BY <1>1, <1>3, SentStep DEF StopDetached, Send
<1>4. ASSUME NEW q \in Requests, NEW t \in Tasks, Stop(q, t) PROVE SentOnGrid'
  <2> DEFINE c == [kind |-> "remove", task |-> t, ack |-> q]
  <2>1. c \in Commands /\ control' = Append(control, c) /\ c.kind # "register"
    BY <1>1, <1>4 DEF Stop, Send
  <2> HIDE DEF c
  <2> QED
    BY <2>1, SentStep
<1>5. ASSUME NEW q \in Requests, StopAll(q) PROVE SentOnGrid'
  <2> DEFINE c == [kind |-> "stopAll", ack |-> q]
  <2>1. c \in Commands /\ control' = Append(control, c) /\ c.kind # "register"
    BY <1>1, <1>5 DEF StopAll, Send
  <2> HIDE DEF c
  <2> QED
    BY <2>1, SentStep
<1>6. CASE HandleCommand
  BY <1>6, SentStep DEF HandleCommand, HandleRegister, HandleRemove, HandleDetached,
                        HandleStopAll, RemoveTasks
<1>7. CASE UNCHANGED control
  BY <1>7, SentStep
<1>8. ASSUME NEW q \in Requests, NEW t \in Tasks, Trigger(q, t) \/ TriggerUnavailable(q, t)
             \/ TriggerOverlaps(q, t) \/ TriggerStarts(q, t)
      PROVE  UNCHANGED control
  BY <1>8 DEF Trigger, TriggerUnavailable, TriggerOverlaps, TriggerStarts, TriggerArm
<1>9. ASSUME NEW j \in Jobs, JobStep(j) PROVE UNCHANGED control
  BY <1>9 DEF JobStep, JobPoll, JobBuilt, JobEnd, JobCancelled
<1>10. ASSUME NEW q \in Requests, Acknowledge(q) PROVE UNCHANGED control
  BY <1>10 DEF Acknowledge
<1>11. CASE Tick \/ WallJump \/ Wakeup
  BY <1>7, <1>11 DEF Tick, WallJump, Wakeup
<1> QED
  BY <1>2, <1>3, <1>4, <1>5, <1>6, <1>7, <1>8, <1>9, <1>10, <1>11
     DEF Next, Scheduler, HandleTrigger

LEMMA TableStep ==
    ASSUME Typed, TableInv, SentOnGrid, Next
    PROVE  TableInv'
<1>1. TypeOK /\ control \in Seq(Commands)
  BY DEF Typed, ChannelTypes
<1>2. CASE UNCHANGED <<registered, nextRun, heap>>
  BY <1>2 DEF TableInv, DeadlinesOnHeap, FixedOnGrid
<1>3. ASSUME HandleRegister PROVE TableInv'
  <2> DEFINE c == Head(control)
  <2>1. c \in Commands /\ c = control[1] /\ 1 \in 1 .. Len(control) /\ c.kind = "register"
    BY <1>1, <1>3, SeqFacts DEF HandleRegister
  <2>2. c.task \in Tasks /\ c.next \in Deadlines
        /\ (c.task \in FixedTasks => c.next.unix = c.next.instant)
    BY <2>1, CommandFacts DEF SentOnGrid
  <2>3. /\ registered' = registered \cup {c.task}
        /\ nextRun' = [nextRun EXCEPT ![c.task] = c.next]
        /\ heap' = heap \cup {<<c.next.instant, c.task>>}
    BY <1>3 DEF HandleRegister
  <2> HIDE DEF c
  <2>4. nextRun \in [Tasks -> Deadlines \cup {None}] /\ registered \subseteq Tasks
    BY <1>1 DEF TypeOK
  <2>5. nextRun'[c.task] = c.next /\ \A t \in Tasks : t # c.task => nextRun'[t] = nextRun[t]
    BY <2>2, <2>3, <2>4
  <2> QED
    BY <2>2, <2>3, <2>4, <2>5 DEF TableInv, DeadlinesOnHeap, FixedOnGrid
<1>4. ASSUME NEW gone, Removing(gone) PROVE TableInv'
  <2>1. /\ registered' = registered \ gone
        /\ \A t \in registered' : nextRun'[t] = nextRun[t]
        /\ \A e : e \in heap' <=> \E t \in registered' : nextRun[t] # None
                                        /\ e = <<nextRun[t].instant, t>>
    BY <1>1, <1>4, RemovingFacts, RemoveFacts
  <2> QED
    BY <2>1 DEF TableInv, DeadlinesOnHeap, FixedOnGrid
<1>5. ASSUME Wakeup PROVE TableInv'
  <2>1. PICK h \in SUBSET (Nat \X Tasks) :
             /\ RunDue(Refreshed, h)
             /\ recheckAt = None => h = heap
             /\ recheckAt # None =>
                  \A t \in registered : Refreshed[t] # None =>
                       <<Refreshed[t].instant, t>> \in h
    BY <1>1, <1>5, WakeupFacts
  <2> DEFINE next == Refreshed
  <2>2. registered' = registered /\ registered \subseteq Tasks /\ now \in Nat
    BY <1>1, <1>5, Clock DEF Wakeup, TypeOK
  <2>3. /\ next \in [Tasks -> Deadlines \cup {None}] /\ None \notin Deadlines
        /\ \A d \in Deadlines : d.instant \in Nat
        /\ \A t \in Tasks : /\ next[t] = None <=> nextRun[t] = None
                            /\ t \notin CronTasks \/ recheckAt = None => next[t] = nextRun[t]
    BY <1>1, RefreshedFacts, TaskAssumption DEF Deadlines
  <2>4. \A t \in registered : next[t] # None => <<next[t].instant, t>> \in h
    BY <2>1, <2>2, <2>3 DEF TableInv, DeadlinesOnHeap
  <2>5. nextRun' = [t \in Tasks |->
                 IF Pauses(next, h, t) THEN None
                 ELSE IF Due(next, h, t) THEN NextAfter(t, next[t]) ELSE next[t]]
        /\ \A e : e \in heap' <=>
                 \/ e \in h /\ e[1] > now
                 \/ \E t \in Tasks : Due(next, h, t) /\ NextAfter(t, next[t]) # None
                                     /\ e = <<NextAfter(t, next[t]).instant, t>>
    BY <1>1, <2>1, RunDueFacts
  <2> HIDE DEF next
  <2>6. ASSUME NEW t \in registered, nextRun'[t] # None
        PROVE  \/ Due(next, h, t) /\ nextRun'[t] = NextAfter(t, next[t])
               \/ ~Due(next, h, t) /\ nextRun'[t] = next[t] /\ next[t].instant > now
    <3>1. nextRun'[t] = IF Pauses(next, h, t) THEN None
                        ELSE IF Due(next, h, t) THEN NextAfter(t, next[t]) ELSE next[t]
      BY <2>2, <2>5
    <3>2. CASE Due(next, h, t)
      BY <2>6, <3>1, <3>2
    <3>3. CASE ~Due(next, h, t)
      <4>1. nextRun'[t] = next[t] /\ next[t] # None /\ t \in Tasks
        BY <2>2, <2>6, <3>1, <3>3 DEF Pauses
      <4>2. next[t] \in Deadlines /\ next[t].instant \in Nat
        BY <2>3, <4>1
      <4>3. ~(next[t].instant <= now)
        BY <2>4, <3>3, <4>1 DEF Due
      <4> QED
        BY <2>2, <3>3, <4>1, <4>2, <4>3
    <3> QED
      BY <3>2, <3>3
  <2>7. ASSUME NEW t \in registered, nextRun'[t] # None
        PROVE  <<nextRun'[t].instant, t>> \in heap'
    <3>1. CASE Due(next, h, t) /\ nextRun'[t] = NextAfter(t, next[t])
      BY <2>2, <2>5, <2>7, <3>1
    <3>2. CASE nextRun'[t] = next[t] /\ next[t].instant > now
      BY <2>4, <2>5, <2>7, <3>2
    <3> QED
      BY <2>6, <2>7, <3>1, <3>2
  <2>8. ASSUME NEW t \in registered \cap FixedTasks, nextRun'[t] # None
        PROVE  nextRun'[t].unix = nextRun'[t].instant
    <3>1. t \in Tasks /\ next[t] = nextRun[t]
      BY <2>2, <2>3, TaskAssumption
    <3>2. next[t] # None => next[t].unix = next[t].instant
      BY <3>1 DEF TableInv, FixedOnGrid
    <3>3. CASE Due(next, h, t) /\ nextRun'[t] = NextAfter(t, next[t])
      <4>1. next[t] \in Deadlines /\ next[t] # None /\ next[t].instant <= now
        BY <2>3, <3>1, <3>3 DEF Due
      <4> QED
        BY <1>1, <3>1, <3>2, <3>3, <4>1, NextAfterFacts
    <3>4. CASE nextRun'[t] = next[t]
      BY <2>8, <3>2, <3>4
    <3> QED
      BY <2>6, <2>8, <3>3, <3>4
  <2> QED
    BY <2>2, <2>7, <2>8 DEF TableInv, DeadlinesOnHeap, FixedOnGrid
<1>6. ASSUME NEW q \in Requests, NEW t \in Tasks, Trigger(q, t) \/ Stop(q, t)
             \/ TriggerUnavailable(q, t) \/ TriggerOverlaps(q, t) \/ TriggerStarts(q, t)
      PROVE  UNCHANGED <<registered, nextRun, heap>>
  BY <1>6 DEF Trigger, Stop, TriggerUnavailable, TriggerOverlaps, TriggerStarts, TriggerArm,
              tableVars
<1>7. ASSUME NEW t \in Tasks, Register(t) \/ StopDetached(t)
      PROVE  UNCHANGED <<registered, nextRun, heap>>
  BY <1>7 DEF Register, StopDetached, tableVars
<1>8. ASSUME NEW q \in Requests, StopAll(q) \/ Acknowledge(q)
      PROVE  UNCHANGED <<registered, nextRun, heap>>
  BY <1>8 DEF StopAll, Acknowledge, tableVars
<1>9. ASSUME NEW j \in Jobs, JobStep(j) PROVE UNCHANGED <<registered, nextRun, heap>>
  BY <1>9 DEF JobStep, JobPoll, JobBuilt, JobEnd, JobCancelled, tableVars
<1>10. CASE Tick \/ WallJump
  BY <1>2, <1>10 DEF Tick, WallJump, tableVars
<1> QED
  BY <1>2, <1>3, <1>4, <1>5, <1>6, <1>7, <1>8, <1>9, <1>10
     DEF Next, Scheduler, HandleTrigger, HandleCommand, Removing

-----------------------------------------------------------------------------
(***************************************************************************)
(* Requests.                                                               *)
(***************************************************************************)
LEMMA TailMoves ==
    ASSUME Typed, control # <<>>, control' = Tail(control)
    PROVE  /\ Len(control) \in Nat /\ Len(control') = Len(control) - 1
           /\ \A i \in 1 .. Len(control') :
                 /\ i + 1 \in 1 .. Len(control) /\ control'[i] = control[i + 1]
                 /\ \A q : Stops(i, q)' => Stops(i + 1, q)
                 /\ \A t : Registers(i, t)' => Registers(i + 1, t)
<1>1. control \in Seq(Commands) /\ Len(control) \in Nat
  BY SeqFacts DEF Typed, ChannelTypes
<1>2. Len(control') = Len(control) - 1
      /\ \A i \in 1 .. Len(control') : i + 1 \in 1 .. Len(control) /\ control'[i] = control[i + 1]
  BY <1>1, SeqFacts
<1> QED
  BY <1>1, <1>2 DEF Stops, Registers

LEMMA AppendMoves ==
    ASSUME Typed, NEW c \in Commands, control' = Append(control, c)
    PROVE  /\ Len(control) \in Nat /\ Len(control') = Len(control) + 1
           /\ control'[Len(control) + 1] = c
           /\ \A i \in 1 .. Len(control) : control'[i] = control[i]
           /\ \A i \in 1 .. Len(control') : i \in 1 .. Len(control) \/ i = Len(control) + 1
           /\ \A i, q : Stops(i, q)' <=>
                 Stops(i, q) \/ (i = Len(control) + 1 /\ c.kind \in {"remove", "stopAll"}
                                    /\ c.ack = q)
           /\ \A i, t : Registers(i, t)' <=>
                 Registers(i, t) \/ (i = Len(control) + 1 /\ c.kind = "register" /\ c.task = t)
<1>1. control \in Seq(Commands) /\ Len(control) \in Nat
  BY SeqFacts DEF Typed, ChannelTypes
<1>2. /\ Len(control') = Len(control) + 1 /\ control'[Len(control) + 1] = c
      /\ \A i \in 1 .. Len(control) : control'[i] = control[i]
  BY <1>1, SeqFacts
<1>3. \A i : i \in 1 .. Len(control') <=> i \in 1 .. Len(control) \/ i = Len(control) + 1
  BY <1>1, <1>2
<1>4. Len(control) + 1 \notin 1 .. Len(control)
  BY <1>1
<1>5. \A i, q : Stops(i, q)' <=>
         Stops(i, q) \/ (i = Len(control) + 1 /\ c.kind \in {"remove", "stopAll"} /\ c.ack = q)
  BY <1>2, <1>3, <1>4 DEF Stops
<1>6. \A i, t : Registers(i, t)' <=>
         Registers(i, t) \/ (i = Len(control) + 1 /\ c.kind = "register" /\ c.task = t)
  BY <1>2, <1>3, <1>4 DEF Registers
<1> QED
  BY <1>1, <1>2, <1>3, <1>5, <1>6

\* Commands that stop nothing on behalf of a request, and steps that leave
\* the pending stops alone.
LEMMA StopSentKept ==
    ASSUME Typed, StopSent,
           \A q \in Requests : request[q].kind \in {"stop", "stopAll"}
                /\ request[q].status = "pending" => request'[q] = request[q],
           \/ UNCHANGED control
           \/ control # <<>> /\ control' = Tail(control)
           \/ \E c \in Commands : /\ control' = Append(control, c)
                                  /\ c.kind \notin {"remove", "stopAll"}
    PROVE  StopSent'
<1>1. CASE UNCHANGED control
  <2>1. \A k, q : Stops(k, q)' <=> Stops(k, q)
    BY <1>1 DEF Stops
  <2> QED
    BY <1>1, <2>1 DEF StopSent
<1>2. CASE control # <<>> /\ control' = Tail(control)
  <2> SUFFICES ASSUME NEW q \in Requests, NEW k \in 1 .. Len(control'), Stops(k, q)'
               PROVE  /\ request'[q].kind \in {"stop", "stopAll"}
                      /\ request'[q].status = "pending"
                      /\ \A i \in 1 .. Len(control') : Stops(i, q)' => i = k
    BY DEF StopSent
  <2>1. k + 1 \in 1 .. Len(control) /\ Stops(k + 1, q)
    BY <1>2, TailMoves
  <2>2. \A i \in 1 .. Len(control') : Stops(i, q)' =>
            i + 1 \in 1 .. Len(control) /\ Stops(i + 1, q)
    BY <1>2, TailMoves
  <2>3. \A i \in 1 .. Len(control') : i + 1 = k + 1 => i = k
    OBVIOUS
  <2> QED
    BY <2>1, <2>2, <2>3 DEF StopSent
<1>3. CASE \E c \in Commands : /\ control' = Append(control, c)
                               /\ c.kind \notin {"remove", "stopAll"}
  <2>1. PICK c \in Commands : control' = Append(control, c) /\ c.kind \notin {"remove", "stopAll"}
    BY <1>3
  <2>2. \A k, q : Stops(k, q)' <=> Stops(k, q)
    BY <2>1, AppendMoves
  <2>3. \A k, q : Stops(k, q) => k \in 1 .. Len(control)
    BY DEF Stops
  <2> QED
    BY <2>2, <2>3 DEF StopSent
<1> QED
  BY <1>1, <1>2, <1>3

LEMMA StartedKept ==
    ASSUME Typed, StartedInv,
           \A p \in Requests : request'[p].status = "started" =>
               request[p].status = "started" /\ request'[p] = request[p],
           \A j \in Jobs : job[j] \in {"live", "ended"} => job'[j] \in {"live", "ended"}
    PROVE  StartedInv'
<1>1. ASSUME NEW p \in Requests, request'[p].status = "started"
      PROVE  /\ request'[p].kind = "trigger" /\ request'[p].run # 0
             /\ \E t \in Tasks : /\ request'[p].tasks = {t}
                                 /\ job'[<<t, request'[p].run>>] \in {"live", "ended"}
  <2>1. request[p].status = "started" /\ request'[p] = request[p]
    BY <1>1
  <2>2. \A t \in Tasks : request[p].run # 0 => <<t, request[p].run>> \in Jobs
    BY TimeAssumption DEF Typed, TypeOK, Jobs, RunIds
  <2> QED
    BY <2>1, <2>2 DEF StartedInv
<1>2. ASSUME NEW p \in Requests, request'[p].status = "started",
             NEW s \in Requests, request'[s].status = "started",
             request'[s].tasks = request'[p].tasks, request'[s].run = request'[p].run
      PROVE  s = p
  <2>1. request[p].status = "started" /\ request'[p] = request[p]
        /\ request[s].status = "started" /\ request'[s] = request[s]
    BY <1>2
  <2> QED
    BY <1>2, <2>1 DEF StartedInv
<1> QED
  BY <1>1, <1>2 DEF StartedInv

\* The other parts, when no request, reply or channel entry changes: runs may
\* be started and may make progress.
LEMMA ReplyProgress ==
    ASSUME Typed, ChannelInv, SenderInv, StartedInv, KindInv,
           UNCHANGED <<triggers, replyOf, request>>,
           \A j \in Jobs : /\ job[j] \in {"live", "ended"} => job'[j] \in {"live", "ended"}
                           /\ replyOf[j] # None /\ job[j] \in {"spawned", "building"}
                                => job'[j] \in {"spawned", "building"}
    PROVE  (ChannelInv /\ SenderInv /\ StartedInv /\ KindInv)'
<1>1. ChannelInv' /\ KindInv'
  BY DEF ChannelInv, KindInv
<1>2. SenderInv'
  BY DEF SenderInv
<1>3. StartedInv'
  BY StartedKept
<1> QED
  BY <1>1, <1>2, <1>3

LEMMA FreshRequest ==
    ASSUME Typed, ChannelInv, SenderInv, StartedInv, KindInv, NEW q \in Requests, NEW r,
           request[q].status = "unused", UNCHANGED <<job, replyOf>>,
           request' = [request EXCEPT ![q] = r],
           r.kind # "none", r.status \notin {"unused", "started"},
           \/ UNCHANGED triggers
           \/ /\ triggers' = Append(triggers, q) /\ r.kind = "trigger" /\ r.status = "pending"
              /\ \E t \in Tasks : r.tasks = {t}
    PROVE  (ChannelInv /\ SenderInv /\ StartedInv /\ KindInv)'
<1>1. request'[q] = r /\ \A p \in Requests : p # q => request'[p] = request[p]
  BY DEF Typed, TypeOK
<1>2. triggers \in Seq(Requests) /\ Len(triggers) \in Nat
      /\ \A i \in 1 .. Len(triggers) : triggers[i] \in Requests /\ triggers[i] # q
  BY SeqFacts DEF Typed, ChannelTypes, ChannelInv
<1>3. \A j \in Jobs : replyOf[j] # q /\ (replyOf[j] # None => replyOf[j] \in Requests)
  BY TaskAssumption DEF Typed, TypeOK, SenderInv
<1>4. ChannelInv'
  <2>1. CASE UNCHANGED triggers
    BY <1>1, <1>2, <2>1 DEF ChannelInv
  <2>2. CASE triggers' = Append(triggers, q) /\ r.kind = "trigger" /\ r.status = "pending"
             /\ \E t \in Tasks : r.tasks = {t}
    <3>1. /\ Len(triggers') = Len(triggers) + 1 /\ triggers'[Len(triggers) + 1] = q
          /\ \A i \in 1 .. Len(triggers) : triggers'[i] = triggers[i]
      BY <1>2, <2>2, SeqFacts
    <3>2. \A i \in 1 .. Len(triggers') : i \in 1 .. Len(triggers) \/ i = Len(triggers) + 1
      BY <1>2, <3>1
    <3>3. \A i \in 1 .. Len(triggers') :
              /\ triggers'[i] = q <=> i = Len(triggers) + 1
              /\ i # Len(triggers) + 1 => i \in 1 .. Len(triggers) /\ triggers'[i] = triggers[i]
                                          /\ triggers'[i] \in Requests
      BY <1>2, <3>1, <3>2
    <3> SUFFICES ASSUME NEW i \in 1 .. Len(triggers')
                 PROVE  /\ request'[triggers'[i]].kind = "trigger"
                        /\ request'[triggers'[i]].status = "pending"
                        /\ \E t \in Tasks : request'[triggers'[i]].tasks = {t}
                        /\ \A k \in 1 .. Len(triggers') : triggers'[i] = triggers'[k] => i = k
                        /\ \A j \in Jobs : replyOf'[j] # triggers'[i]
      BY DEF ChannelInv
    <3>4. CASE i = Len(triggers) + 1
      BY <1>1, <1>3, <2>2, <3>1, <3>3, <3>4
    <3>5. CASE i # Len(triggers) + 1
      <4>1. i \in 1 .. Len(triggers) /\ triggers'[i] = triggers[i] /\ triggers[i] # q
            /\ triggers[i] \in Requests
        BY <1>2, <3>3, <3>5
      <4>2. \A k \in 1 .. Len(triggers') : triggers'[i] = triggers'[k] => i = k
        BY <3>3, <4>1 DEF ChannelInv
      <4> QED
        BY <1>1, <4>1, <4>2 DEF ChannelInv
    <3> QED
      BY <3>4, <3>5
  <2> QED
    BY <2>1, <2>2
<1>5. SenderInv'
  BY <1>1, <1>3 DEF SenderInv
<1>6. StartedInv'
  <2>1. \A p \in Requests : request'[p].status = "started" =>
            request[p].status = "started" /\ request'[p] = request[p]
    BY <1>1
  <2> QED
    BY <2>1, StartedKept
<1>7. KindInv'
  BY <1>1 DEF KindInv
<1> QED
  BY <1>4, <1>5, <1>6, <1>7

\* A request that is neither in the channel nor has a sender is settled.
LEMMA SettledRequest ==
    ASSUME Typed, ChannelInv, SenderInv, StartedInv, KindInv, NEW q \in Requests,
           request[q].status \notin {"unused", "started"},
           request[q].kind # "trigger" \/ request[q].status # "pending",
           UNCHANGED <<triggers, job, replyOf>>,
           request'[q].kind = request[q].kind,
           request'[q].status \notin {"unused", "started"},
           \A p \in Requests : p # q => request'[p] = request[p]
    PROVE  (ChannelInv /\ SenderInv /\ StartedInv /\ KindInv)'
<1>1. \A i \in 1 .. Len(triggers) : triggers[i] \in Requests /\ triggers[i] # q
  BY SeqFacts DEF Typed, ChannelTypes, ChannelInv
<1>2. \A j \in Jobs : replyOf[j] # None => replyOf[j] \in Requests /\ replyOf[j] # q
  BY TaskAssumption DEF Typed, TypeOK, SenderInv
<1>3. ChannelInv'
  <2>1. \A i \in 1 .. Len(triggers) : request'[triggers[i]] = request[triggers[i]]
    BY <1>1
  <2> SUFFICES ASSUME NEW i \in 1 .. Len(triggers)
               PROVE  /\ request'[triggers[i]].kind = "trigger"
                      /\ request'[triggers[i]].status = "pending"
                      /\ \E t \in Tasks : request'[triggers[i]].tasks = {t}
                      /\ \A k \in 1 .. Len(triggers) : triggers[i] = triggers[k] => i = k
                      /\ \A j \in Jobs : replyOf[j] # triggers[i]
    BY DEF ChannelInv
  <2>2. /\ request[triggers[i]].kind = "trigger" /\ request[triggers[i]].status = "pending"
        /\ \E t \in Tasks : request[triggers[i]].tasks = {t}
    BY DEF ChannelInv
  <2>3. /\ \A k \in 1 .. Len(triggers) : triggers[i] = triggers[k] => i = k
        /\ \A j \in Jobs : replyOf[j] # triggers[i]
    BY DEF ChannelInv
  <2>4. request'[triggers[i]] = request[triggers[i]]
    BY <2>1
  <2> QED
    BY <2>2, <2>3, <2>4
<1>4. SenderInv'
  BY <1>2 DEF SenderInv
<1>5. StartedInv'
  <2>1. \A p \in Requests : request'[p].status = "started" =>
            request[p].status = "started" /\ request'[p] = request[p]
    OBVIOUS
  <2> QED
    BY <2>1, StartedKept
<1>6. KindInv'
  BY DEF KindInv
<1> QED
  BY <1>3, <1>4, <1>5, <1>6

LEMMA ReplyTrigger ==
    ASSUME Typed, RunInv, ChannelInv, SenderInv, StartedInv, KindInv,
           NEW q \in Requests, NEW t \in Tasks,
           TriggerUnavailable(q, t) \/ TriggerOverlaps(q, t) \/ TriggerStarts(q, t)
    PROVE  /\ (ChannelInv /\ SenderInv /\ StartedInv /\ KindInv)'
           /\ \A p \in Requests : request[p].kind # "trigger" => request'[p] = request[p]
<1>1. triggers \in Seq(Requests) /\ triggers # <<>> /\ q = Head(triggers)
      /\ triggers' = Tail(triggers) /\ request[q].tasks = {t}
  BY DEF Typed, ChannelTypes, TriggerUnavailable, TriggerOverlaps, TriggerStarts, TriggerArm
<1>2. /\ Len(triggers) \in Nat /\ q = triggers[1] /\ 1 \in 1 .. Len(triggers)
      /\ Len(triggers') = Len(triggers) - 1
      /\ \A i \in 1 .. Len(triggers) : triggers[i] \in Requests
      /\ \A i \in 1 .. Len(triggers') : i + 1 \in 1 .. Len(triggers)
                                        /\ triggers'[i] = triggers[i + 1]
  BY <1>1, SeqFacts
<1>3. request[q].kind = "trigger" /\ request[q].status = "pending"
      /\ \A j \in Jobs : replyOf[j] # q
  BY <1>2 DEF ChannelInv
<1>4. \A i \in 1 .. Len(triggers') : triggers'[i] # q /\ triggers'[i] \in Requests
  <2>1. \A i \in 1 .. Len(triggers') : i + 1 # 1
    OBVIOUS
  <2> QED
    BY <1>2, <2>1 DEF ChannelInv
<1>5. /\ request \in [Requests -> RequestType] /\ replyOf \in [Jobs -> Requests \cup {None}]
      /\ job \in [Jobs -> JobStates] /\ nextRunId[t] \in RunIds
  BY DEF Typed, TypeOK, RequestType
<1>6. ASSUME \A p \in Requests : p # q => request'[p] = request[p],
             \A j \in Jobs : replyOf'[j] = q \/ replyOf'[j] = replyOf[j]
      PROVE  \A i \in 1 .. Len(triggers') :
                /\ request'[triggers'[i]].kind = "trigger"
                /\ request'[triggers'[i]].status = "pending"
                /\ \E u \in Tasks : request'[triggers'[i]].tasks = {u}
                /\ \A k \in 1 .. Len(triggers') : triggers'[i] = triggers'[k] => i = k
                /\ \A j \in Jobs : replyOf'[j] # triggers'[i]
  <2> SUFFICES ASSUME NEW i \in 1 .. Len(triggers')
               PROVE  /\ request'[triggers'[i]].kind = "trigger"
                      /\ request'[triggers'[i]].status = "pending"
                      /\ \E u \in Tasks : request'[triggers'[i]].tasks = {u}
                      /\ \A k \in 1 .. Len(triggers') : triggers'[i] = triggers'[k] => i = k
                      /\ \A j \in Jobs : replyOf'[j] # triggers'[i]
    OBVIOUS
  <2>1. i + 1 \in 1 .. Len(triggers) /\ triggers'[i] = triggers[i + 1] /\ triggers'[i] # q
        /\ triggers'[i] \in Requests
    BY <1>2, <1>4
  <2>2. request'[triggers'[i]] = request[triggers[i + 1]]
    BY <1>6, <2>1
  <2>3. ASSUME NEW k \in 1 .. Len(triggers'), triggers'[i] = triggers'[k] PROVE i = k
    <3>1. k + 1 \in 1 .. Len(triggers) /\ triggers'[k] = triggers[k + 1]
      BY <1>2
    <3>2. i + 1 = k + 1
      BY <2>1, <2>3, <3>1 DEF ChannelInv
    <3> QED
      BY <3>2
  <2>4. /\ request[triggers[i + 1]].kind = "trigger"
        /\ request[triggers[i + 1]].status = "pending"
        /\ \E u \in Tasks : request[triggers[i + 1]].tasks = {u}
        /\ \A j \in Jobs : replyOf[j] # triggers[i + 1]
    BY <2>1 DEF ChannelInv
  <2>5. \A j \in Jobs : replyOf'[j] # triggers'[i]
    BY <1>6, <2>1, <2>4
  <2> QED
    BY <2>2, <2>3, <2>4, <2>5
<1>7. CASE TriggerUnavailable(q, t) \/ TriggerOverlaps(q, t)
  <2>1. PICK s \in {"unavailable", "alreadyRunning"} : request' = [request EXCEPT ![q].status = s]
    BY <1>7 DEF TriggerUnavailable, TriggerOverlaps, Settle
  <2>2. UNCHANGED <<job, replyOf>>
    BY <1>7 DEF TriggerUnavailable, TriggerOverlaps
  <2>3. request'[q].status = s /\ request'[q].kind = "trigger"
        /\ \A p \in Requests : p # q => request'[p] = request[p]
    BY <1>3, <1>5, <2>1 DEF RequestType
  <2>4. ChannelInv'
    BY <1>6, <2>2, <2>3 DEF ChannelInv
  <2>5. SenderInv'
    <3>1. \A j \in Jobs : replyOf[j] # None => replyOf[j] \in Requests
      BY <1>5
    <3> QED
      BY <1>3, <2>2, <2>3, <3>1 DEF SenderInv
  <2>6. StartedInv'
    BY <2>2, <2>3, StartedKept
  <2>7. KindInv'
    BY <2>3 DEF KindInv
  <2> QED
    BY <1>3, <2>3, <2>4, <2>5, <2>6, <2>7
<1>8. CASE TriggerStarts(q, t)
  <2> DEFINE r == <<t, nextRunId[t]>>
  <2>1. UNCHANGED request /\ job' = [job EXCEPT ![r] = "spawned"]
        /\ replyOf' = [replyOf EXCEPT ![r] = q]
    BY <1>8 DEF TriggerStarts
  <2>2. r \in Jobs /\ r[1] = t /\ r[2] = nextRunId[t] /\ nextRunId[t] \in Nat
    BY <1>5, TimeAssumption DEF Jobs, RunIds
  <2>3. job[r] = "none"
    BY <2>2 DEF RunInv
  <2> HIDE DEF r
  <2>4. /\ job'[r] = "spawned" /\ replyOf'[r] = q
        /\ \A j \in Jobs : j # r => job'[j] = job[j] /\ replyOf'[j] = replyOf[j]
    BY <1>5, <2>1, <2>2
  <2>5. ChannelInv'
    BY <1>6, <2>1, <2>4 DEF ChannelInv
  <2>6. SenderInv'
    <3> SUFFICES ASSUME NEW j \in Jobs, replyOf'[j] # None
                 PROVE  /\ request[replyOf'[j]].kind = "trigger"
                        /\ request[replyOf'[j]].status = "pending"
                        /\ request[replyOf'[j]].tasks = {j[1]}
                        /\ job'[j] \in {"spawned", "building"}
                        /\ \A i \in Jobs : replyOf'[i] = replyOf'[j] => i = j
      BY <2>1 DEF SenderInv
    <3>1. CASE j = r
      BY <1>1, <1>3, <2>2, <2>4, <3>1
    <3>2. CASE j # r
      BY <1>3, <2>4, <3>2 DEF SenderInv
    <3> QED
      BY <3>1, <3>2
  <2>7. StartedInv'
    BY <2>1, <2>3, <2>4, StartedKept
  <2>8. KindInv'
    BY <2>1 DEF KindInv
  <2> QED
    BY <2>1, <2>5, <2>6, <2>7, <2>8
<1> QED
  BY <1>7, <1>8

LEMMA ReplyJob ==
    ASSUME Typed, ChannelInv, SenderInv, StartedInv, KindInv, NEW j \in Jobs, JobStep(j)
    PROVE  /\ (ChannelInv /\ SenderInv /\ StartedInv /\ KindInv)'
           /\ \A p \in Requests : request[p].kind # "trigger" => request'[p] = request[p]
<1>1. /\ request \in [Requests -> RequestType] /\ replyOf \in [Jobs -> Requests \cup {None}]
      /\ job \in [Jobs -> JobStates]
  BY DEF Typed, TypeOK, RequestType
<1>2. UNCHANGED triggers /\ \A i \in 1 .. Len(triggers) : triggers[i] \in Requests
  BY SeqFacts DEF Typed, ChannelTypes, JobStep, JobPoll, JobBuilt, JobEnd, JobCancelled
<1>3. CASE JobPoll(j)
  <2>1. UNCHANGED <<replyOf, request>> /\ job[j] = "spawned" /\ job' = [job EXCEPT ![j] = "building"]
    BY <1>3 DEF JobPoll, Become
  <2>2. job'[j] = "building" /\ \A i \in Jobs : i # j => job'[i] = job[i]
    BY <1>1, <2>1
  <2> QED
    BY <1>2, <2>1, <2>2, ReplyProgress
<1>4. CASE JobEnd(j)
  <2>1. UNCHANGED <<replyOf, request>> /\ job[j] = "live" /\ job' = [job EXCEPT ![j] = "ended"]
    BY <1>4 DEF JobEnd, Become
  <2>2. job'[j] = "ended" /\ \A i \in Jobs : i # j => job'[i] = job[i]
    BY <1>1, <2>1
  <2> QED
    BY <1>2, <2>1, <2>2, ReplyProgress
<1>5. CASE JobBuilt(j) \/ JobCancelled(j)
  <2>1. PICK s \in {"live", "ended"} :
          /\ job' = [job EXCEPT ![j] = s]
          /\ \/ Reply(j, "started", j[2]) /\ s = "live" /\ job[j] = "building"
             \/ Reply(j, "unavailable", 0) /\ s = "ended"
    BY <1>5 DEF JobBuilt, JobCancelled, Become
  <2>2. job'[j] = s /\ \A i \in Jobs : i # j => job'[i] = job[i]
    BY <1>1, <2>1
  <2>3. replyOf'[j] = None /\ \A i \in Jobs : i # j => replyOf'[i] = replyOf[i]
    BY <1>1, <2>1 DEF Reply
  <2>4. CASE replyOf[j] = None
    <3>1. UNCHANGED <<replyOf, request>>
      BY <1>1, <2>1, <2>3, <2>4 DEF Reply
    <3> QED
      BY <1>2, <2>2, <2>4, <3>1, ReplyProgress
  <2>5. CASE replyOf[j] # None
    <3> DEFINE q == replyOf[j]
    <3>1. q \in Requests /\ request[q].kind = "trigger" /\ request[q].status = "pending"
          /\ request[q].tasks = {j[1]} /\ \A i \in Jobs : replyOf[i] = q => i = j
      BY <1>1, <2>5 DEF SenderInv
    <3>2. PICK u \in {"started", "unavailable"}, n \in {0, j[2]} :
            /\ request' = [request EXCEPT ![q].status = u, ![q].run = n]
            /\ u = "started" => n = j[2] /\ s = "live" /\ job[j] = "building"
      BY <2>1, <2>5 DEF Reply
    <3> HIDE DEF q
    <3>3. \A x \in RequestType : [x EXCEPT !.status = u, !.run = n].kind = x.kind
             /\ [x EXCEPT !.status = u, !.run = n].tasks = x.tasks
             /\ [x EXCEPT !.status = u, !.run = n].status = u
             /\ [x EXCEPT !.status = u, !.run = n].run = n
      BY DEF RequestType
    <3>4. request'[q] = [request[q] EXCEPT !.status = u, !.run = n]
          /\ \A p \in Requests : p # q => request'[p] = request[p]
      BY <1>1, <3>1, <3>2
    <3>5. request'[q].kind = "trigger" /\ request'[q].tasks = {j[1]}
          /\ request'[q].status = u /\ request'[q].run = n
      BY <1>1, <3>1, <3>3, <3>4
    <3>6. ChannelInv'
      <4>1. \A i \in 1 .. Len(triggers) : triggers[i] # q
        BY DEF ChannelInv, q
      <4>2. \A i \in Jobs : replyOf'[i] = None \/ replyOf'[i] = replyOf[i]
        BY <2>3
      <4>3. \A i \in 1 .. Len(triggers) : triggers[i] # None
        BY <1>2, TaskAssumption
      <4>4. \A i \in 1 .. Len(triggers) : request'[triggers[i]] = request[triggers[i]]
        BY <1>2, <3>4, <4>1
      <4> QED
        BY <1>2, <4>2, <4>3, <4>4 DEF ChannelInv
    <3>7. SenderInv'
      <4>1. \A i \in Jobs : replyOf'[i] # None =>
              i # j /\ replyOf'[i] = replyOf[i] /\ replyOf[i] # q /\ replyOf[i] \in Requests
        BY <1>1, <2>3, <3>1
      <4>2. \A i \in Jobs : replyOf'[i] # None => request'[replyOf'[i]] = request[replyOf[i]]
                                                  /\ job'[i] = job[i]
        BY <2>2, <3>4, <4>1
      <4> QED
        BY <4>1, <4>2 DEF SenderInv
    <3>8. StartedInv'
      <4>1. CASE u # "started"
        BY <1>1, <2>2, <3>4, <3>5, <4>1, StartedKept
      <4>2. CASE u = "started"
        <5>1. n = j[2] /\ n # 0 /\ j = <<j[1], n>> /\ j[1] \in Tasks /\ job'[j] = "live"
              /\ job[j] = "building"
          BY <2>2, <3>2, <4>2, JobFacts
        <5>2. \A i \in Jobs : job[i] \in {"live", "ended"} => job'[i] \in {"live", "ended"}
          BY <2>2, <5>1
        <5>3. ASSUME NEW p \in Requests, p # q, request[p].status = "started"
              PROVE  /\ request[p].kind = "trigger" /\ request[p].run # 0
                     /\ \E t \in Tasks : /\ request[p].tasks = {t}
                                         /\ job'[<<t, request[p].run>>] \in {"live", "ended"}
                     /\ ~(request[p].tasks = {j[1]} /\ request[p].run = n)
          <6>1. /\ request[p].kind = "trigger" /\ request[p].run # 0
                /\ \E t \in Tasks : /\ request[p].tasks = {t}
                                    /\ job[<<t, request[p].run>>] \in {"live", "ended"}
            BY <5>3 DEF StartedInv
          <6>2. \A t \in Tasks : <<t, request[p].run>> \in Jobs
            BY <6>1, TimeAssumption DEF Typed, TypeOK, Jobs, RunIds
          <6>3. \A t \in Tasks : {t} = {j[1]} => t = j[1]
            OBVIOUS
          <6> QED
            BY <5>1, <5>2, <6>1, <6>2, <6>3
        <5>4. \A p \in Requests : p # q => request'[p] = request[p]
          BY <3>4
        <5>5. \A p \in Requests : request'[p].status = "started" =>
                /\ request'[p].kind = "trigger" /\ request'[p].run # 0
                /\ \E t \in Tasks : /\ request'[p].tasks = {t}
                                    /\ job'[<<t, request'[p].run>>] \in {"live", "ended"}
          <6>1. /\ request'[q].kind = "trigger" /\ request'[q].run # 0
                /\ request'[q].tasks = {j[1]}
                /\ job'[<<j[1], request'[q].run>>] \in {"live", "ended"}
            BY <3>5, <5>1
          <6> QED
            BY <5>1, <5>3, <5>4, <6>1
        <5>6. ASSUME NEW p \in Requests, request'[p].status = "started",
                     NEW v \in Requests, request'[v].status = "started",
                     request'[v].tasks = request'[p].tasks, request'[v].run = request'[p].run
              PROVE  v = p
          <6>1. CASE p # q /\ v # q
            BY <5>4, <5>6, <6>1 DEF StartedInv
          <6>2. CASE p = q /\ v # q
            BY <3>5, <5>3, <5>4, <5>6, <6>2
          <6>3. CASE p # q /\ v = q
            BY <3>5, <5>3, <5>4, <5>6, <6>3
          <6> QED
            BY <6>1, <6>2, <6>3
        <5> QED
          BY <5>5, <5>6 DEF StartedInv
      <4> QED
        BY <4>1, <4>2
    <3>9. KindInv'
      BY <3>4, <3>5 DEF KindInv
    <3> QED
      BY <3>1, <3>4, <3>6, <3>7, <3>8, <3>9
  <2> QED
    BY <2>4, <2>5
<1> QED
  BY <1>3, <1>4, <1>5 DEF JobStep

\* Wakeup only starts runs whose ids were not used yet.
LEMMA WakeupStarts ==
    ASSUME Typed, RunInv, Wakeup
    PROVE  \A j \in Jobs : job'[j] = job[j] \/ (job[j] = "none" /\ job'[j] = "spawned"
                                                  /\ j[1] \in registered)
<1>1. PICK h : RunDue(Refreshed, h)
  BY WakeupFacts DEF Typed
<1>2. job' = [j \in Jobs |->
                 IF Starts(Refreshed, h, j[1]) /\ j[2] = nextRunId[j[1]]
                 THEN "spawned" ELSE job[j]]
  BY <1>1, RunDueFacts DEF Typed
<1>3. \A t \in Tasks : nextRunId[t] \in Nat
  BY TimeAssumption DEF Typed, TypeOK, RunIds
<1>4. \A j \in Jobs : j[2] = nextRunId[j[1]] => job[j] = "none"
  BY <1>3, JobFacts DEF RunInv
<1> QED
  BY <1>2, <1>4 DEF Starts, Due

LEMMA HeadStops ==
    ASSUME Typed, control # <<>>, Head(control).kind \in {"remove", "stopAll"}
    PROVE  Stops(1, Head(control).ack) /\ 1 \in 1 .. Len(control)
           /\ Head(control).ack \in Requests
<1>1. control \in Seq(Commands)
  BY DEF Typed, ChannelTypes
<1>2. Head(control) = control[1] /\ 1 \in 1 .. Len(control) /\ Head(control) \in Commands
  BY <1>1, SeqFacts
<1> QED
  BY <1>2, CommandFacts DEF Stops

LEMMA ReplyOwners ==
    ASSUME Typed, ReplyInv, NEW q \in Requests, NEW t,
           (t \in Tasks /\ (Trigger(q, t) \/ Stop(q, t))) \/ StopAll(q)
    PROVE  ReplyInv'
<1>1. ChannelInv /\ SenderInv /\ StartedInv /\ KindInv /\ StopSent
  BY DEF ReplyInv
<1>2. request[q].status = "unused" /\ UNCHANGED <<job, replyOf>>
  BY DEF Trigger, Stop, StopAll, jobVars
<1>3. \A k \in {"trigger", "stop", "stopAll"} : \A T, s :
        /\ [Unused EXCEPT !.kind = k, !.tasks = T, !.status = s].kind = k
        /\ [Unused EXCEPT !.kind = k, !.tasks = T, !.status = s].status = s
        /\ [Unused EXCEPT !.kind = k, !.tasks = T, !.status = s].tasks = T
        /\ [Unused EXCEPT !.kind = k, !.status = s, !.tasks = T].kind = k
        /\ [Unused EXCEPT !.kind = k, !.status = s, !.tasks = T].status = s
  BY DEF Unused
<1>4. request \in [Requests -> RequestType]
  BY DEF Typed, TypeOK, RequestType
<1>5. CASE t \in Tasks /\ Trigger(q, t)
  <2>1. PICK s \in {"pending", "unavailable"} :
          /\ request' = [request EXCEPT ![q] =
                [Unused EXCEPT !.kind = "trigger", !.tasks = {t}, !.status = s]]
          /\ UNCHANGED triggers \/ (triggers' = Append(triggers, q) /\ s = "pending")
    BY <1>5 DEF Trigger
  <2> DEFINE r == [Unused EXCEPT !.kind = "trigger", !.tasks = {t}, !.status = s]
  <2>2. r.kind = "trigger" /\ r.tasks = {t} /\ r.status = s
    BY <1>3
  <2>3. request' = [request EXCEPT ![q] = r]
    BY <2>1
  <2> HIDE DEF r
  <2>4. (ChannelInv /\ SenderInv /\ StartedInv /\ KindInv)'
    BY <1>1, <1>2, <1>5, <2>1, <2>2, <2>3, FreshRequest
  <2>5. \A p \in Requests : p # q => request'[p] = request[p]
    BY <1>4, <2>3
  <2>6. StopSent'
    BY <1>1, <1>2, <1>5, <2>5, StopSentKept DEF Trigger
  <2> QED
    BY <2>4, <2>6 DEF ReplyInv
<1>6. CASE (t \in Tasks /\ Stop(q, t)) \/ StopAll(q)
  <2>1. PICK r, c :
          /\ c \in Commands /\ request' = [request EXCEPT ![q] = r]
          /\ r.kind \in {"stop", "stopAll"} /\ r.status = "pending"
          /\ control' = Append(control, c)
          /\ c.kind \in {"remove", "stopAll"} /\ c.ack = q
          /\ UNCHANGED triggers
    <3>1. CASE t \in Tasks /\ Stop(q, t)
      <4> DEFINE r == [Unused EXCEPT !.kind = "stop", !.tasks = {t}, !.status = "pending"]
                 c == [kind |-> "remove", task |-> t, ack |-> q]
      <4>1. /\ request' = [request EXCEPT ![q] = r] /\ control' = Append(control, c)
            /\ UNCHANGED triggers
        BY <3>1 DEF Stop, Send
      <4>2. r.kind = "stop" /\ r.status = "pending" /\ c.kind = "remove" /\ c.ack = q
            /\ c \in Commands
        BY <1>3, <3>1 DEF Commands
      <4> HIDE DEF r, c
      <4> QED
        BY <4>1, <4>2
    <3>2. CASE StopAll(q)
      <4> DEFINE r == [Unused EXCEPT !.kind = "stopAll", !.status = "pending",
                                     !.tasks = {u \in Tasks : owner[u] # "new"}]
                 c == [kind |-> "stopAll", ack |-> q]
      <4>1. /\ request' = [request EXCEPT ![q] = r] /\ control' = Append(control, c)
            /\ UNCHANGED triggers
        BY <3>2 DEF StopAll, Send
      <4>2. r.kind = "stopAll" /\ r.status = "pending" /\ c.kind = "stopAll" /\ c.ack = q
            /\ c \in Commands
        BY <1>3 DEF Commands
      <4> HIDE DEF r, c
      <4> QED
        BY <4>1, <4>2
    <3> QED
      BY <1>6, <3>1, <3>2
  <2>2. (ChannelInv /\ SenderInv /\ StartedInv /\ KindInv)'
    BY <1>1, <1>2, <2>1, FreshRequest
  <2>3. request'[q] = r /\ \A p \in Requests : p # q => request'[p] = request[p]
    BY <1>4, <2>1
  <2>4. \A i : ~Stops(i, q)
    BY <1>1, <1>2 DEF StopSent, Stops
  <2>5. /\ Len(control) \in Nat /\ Len(control) + 1 \notin 1 .. Len(control)
        /\ \A i, p : Stops(i, p)' <=> Stops(i, p) \/ (i = Len(control) + 1 /\ p = q)
    BY <2>1, AppendMoves
  <2>6. \A i, p : Stops(i, p) => i \in 1 .. Len(control)
    BY DEF Stops
  <2>7. StopSent'
    <3> SUFFICES ASSUME NEW p \in Requests, NEW k \in 1 .. Len(control'), Stops(k, p)'
                 PROVE  /\ request'[p].kind \in {"stop", "stopAll"}
                        /\ request'[p].status = "pending"
                        /\ \A i \in 1 .. Len(control') : Stops(i, p)' => i = k
      BY DEF StopSent
    <3>1. CASE p = q
      BY <2>1, <2>3, <2>4, <2>5, <3>1
    <3>2. CASE p # q
      BY <1>1, <2>3, <2>5, <2>6, <3>2 DEF StopSent
    <3> QED
      BY <3>1, <3>2
  <2> QED
    BY <2>2, <2>7 DEF ReplyInv
<1> QED
  BY <1>5, <1>6

LEMMA ReplyStop ==
    ASSUME Typed, ReplyInv, NEW gone, Removing(gone)
    PROVE  ReplyInv'
<1>1. ChannelInv /\ SenderInv /\ StartedInv /\ KindInv /\ StopSent
  BY DEF ReplyInv
<1>2. control # <<>> /\ control' = Tail(control) /\ UNCHANGED <<triggers, job, replyOf>>
      /\ gone \in SUBSET registered
  BY RemovingFacts DEF RemoveTasks
<1>3. CASE HandleDetached
  <2>1. UNCHANGED request
    BY <1>3 DEF HandleDetached
  <2>2. (ChannelInv /\ SenderInv /\ StartedInv /\ KindInv)'
    BY <1>1, <1>2, <2>1, ReplyProgress
  <2>3. StopSent'
    BY <1>1, <1>2, <2>1, StopSentKept
  <2> QED
    BY <2>2, <2>3 DEF ReplyInv
<1>4. CASE HandleRemove \/ HandleStopAll
  <2> DEFINE q == Head(control).ack
  <2>1. AwaitRuns(q, gone) /\ q \in Requests /\ Head(control).kind \in {"remove", "stopAll"}
    BY <1>4, RemovingFacts
  <2>2. Stops(1, q) /\ 1 \in 1 .. Len(control)
    BY <1>2, <2>1, HeadStops
  <2> HIDE DEF q
  <2>3. request[q].kind \in {"stop", "stopAll"} /\ request[q].status = "pending"
        /\ \A i \in 1 .. Len(control) : Stops(i, q) => i = 1
    BY <1>1, <2>1, <2>2 DEF StopSent
  <2>4. /\ request'[q].status \in {"acked", "stopping"} /\ request'[q].kind = request[q].kind
        /\ \A p \in Requests : p # q => request'[p] = request[p]
    BY <1>2, <2>1, AwaitFacts DEF Typed
  <2>5. (ChannelInv /\ SenderInv /\ StartedInv /\ KindInv)'
    BY <1>1, <1>2, <2>1, <2>3, <2>4, SettledRequest
  <2>6. StopSent'
    <3> SUFFICES ASSUME NEW p \in Requests, NEW k \in 1 .. Len(control'), Stops(k, p)'
                 PROVE  /\ request'[p].kind \in {"stop", "stopAll"}
                        /\ request'[p].status = "pending"
                        /\ \A i \in 1 .. Len(control') : Stops(i, p)' => i = k
      BY DEF StopSent
    <3>1. \A i \in 1 .. Len(control') : /\ i + 1 \in 1 .. Len(control) /\ i + 1 # 1
                                        /\ (i + 1 = k + 1 => i = k)
                                        /\ Stops(i, p)' => Stops(i + 1, p)
      BY <1>2, TailMoves
    <3>2. p # q
      BY <2>3, <3>1
    <3> QED
      BY <1>1, <2>4, <3>1, <3>2 DEF StopSent
  <2> QED
    BY <2>5, <2>6 DEF ReplyInv
<1> QED
  BY <1>3, <1>4 DEF Removing

LEMMA ReplyStep ==
    ASSUME Typed, RunInv, ReplyInv, Next
    PROVE  ReplyInv'
<1>1. ChannelInv /\ SenderInv /\ StartedInv /\ KindInv /\ StopSent
  BY DEF ReplyInv
<1>2. ASSUME UNCHANGED <<triggers, job, replyOf, request>>,
             \/ UNCHANGED control
             \/ control # <<>> /\ control' = Tail(control)
             \/ \E c \in Commands : /\ control' = Append(control, c)
                                    /\ c.kind \notin {"remove", "stopAll"}
      PROVE  ReplyInv'
  <2>1. (ChannelInv /\ SenderInv /\ StartedInv /\ KindInv)'
    BY <1>1, <1>2, ReplyProgress
  <2>2. StopSent'
    BY <1>1, <1>2, StopSentKept
  <2> QED
    BY <2>1, <2>2 DEF ReplyInv
<1>3. ASSUME NEW t \in Tasks, Register(t) PROVE ReplyInv'
  <2>1. UNCHANGED <<triggers, job, replyOf, request>>
    BY <1>3 DEF Register, jobVars
  <2>2. PICK d : control' = Append(control, [kind |-> "register", task |-> t, next |-> d])
                 /\ [kind |-> "register", task |-> t, next |-> d] \in Commands
    BY <1>3, RegisterFacts
  <2> QED
    BY <1>2, <2>1, <2>2
<1>4. ASSUME NEW t \in Tasks, StopDetached(t) PROVE ReplyInv'
  <2>1. [kind |-> "detached", task |-> t] \in Commands
    BY DEF Commands
  <2> QED
    BY <1>2, <1>4, <2>1 DEF StopDetached, Send, jobVars
<1>5. CASE Tick \/ WallJump
  BY <1>2, <1>5 DEF Tick, WallJump, jobVars
<1>6. CASE HandleRegister
  BY <1>2, <1>6 DEF HandleRegister, jobVars
<1>7. ASSUME NEW gone, Removing(gone) PROVE ReplyInv'
  BY <1>7, ReplyStop
<1>8. CASE Wakeup
  <2>1. UNCHANGED <<control, triggers, replyOf, request>>
    BY <1>8 DEF Wakeup
  <2>2. (ChannelInv /\ SenderInv /\ StartedInv /\ KindInv)'
    BY <1>1, <1>8, <2>1, WakeupStarts, ReplyProgress
  <2>3. StopSent'
    BY <1>1, <2>1, StopSentKept
  <2> QED
    BY <2>2, <2>3 DEF ReplyInv
<1>9. ASSUME UNCHANGED control, (ChannelInv /\ SenderInv /\ StartedInv /\ KindInv)',
             \A p \in Requests : request[p].kind # "trigger" => request'[p] = request[p]
      PROVE  ReplyInv'
  BY <1>1, <1>9, StopSentKept DEF ReplyInv
<1>10. ASSUME NEW q \in Requests, NEW t \in Tasks,
              TriggerUnavailable(q, t) \/ TriggerOverlaps(q, t) \/ TriggerStarts(q, t)
       PROVE  ReplyInv'
  <2>1. UNCHANGED control
    BY <1>10 DEF TriggerUnavailable, TriggerOverlaps, TriggerStarts, TriggerArm
  <2> QED
    BY <1>1, <1>9, <1>10, <2>1, ReplyTrigger
<1>11. ASSUME NEW j \in Jobs, JobStep(j) PROVE ReplyInv'
  <2>1. UNCHANGED control
    BY <1>11 DEF JobStep, JobPoll, JobBuilt, JobEnd, JobCancelled
  <2> QED
    BY <1>1, <1>9, <1>11, <2>1, ReplyJob
<1>12. ASSUME NEW q \in Requests, Acknowledge(q) PROVE ReplyInv'
  <2>1. request \in [Requests -> RequestType]
    BY DEF Typed, TypeOK, RequestType
  <2>2. /\ request[q].status = "stopping"
        /\ request' = [request EXCEPT ![q].status = "acked", ![q].waits = {}]
        /\ UNCHANGED <<control, triggers, job, replyOf>>
    BY <1>12 DEF Acknowledge, jobVars
  <2>3. request'[q].status = "acked" /\ request'[q].kind = request[q].kind
        /\ \A p \in Requests : p # q => request'[p] = request[p]
    BY <2>1, <2>2 DEF RequestType
  <2>4. (ChannelInv /\ SenderInv /\ StartedInv /\ KindInv)'
    BY <1>1, <2>2, <2>3, SettledRequest
  <2>5. StopSent'
    BY <1>1, <2>2, <2>3, StopSentKept
  <2> QED
    BY <2>4, <2>5 DEF ReplyInv
<1> QED
  BY <1>3, <1>4, <1>5, <1>6, <1>7, <1>8, <1>10, <1>11, <1>12, ReplyOwners
     DEF Next, Scheduler, HandleTrigger, HandleCommand, Removing

-----------------------------------------------------------------------------
(***************************************************************************)
(* Stops.                                                                  *)
(***************************************************************************)
\* Neither a run nor a trigger changes what a request asks for.
LEMMA KindsKept ==
    ASSUME Typed,
           \/ \E j \in Jobs : JobStep(j)
           \/ \E q \in Requests, t \in Tasks :
                 TriggerUnavailable(q, t) \/ TriggerOverlaps(q, t) \/ TriggerStarts(q, t)
           \/ \E q \in Requests : Acknowledge(q)
    PROVE  \A p \in Requests : /\ request'[p].kind = request[p].kind
                               /\ request'[p].tasks = request[p].tasks
<1>1. /\ request \in [Requests -> RequestType] /\ replyOf \in [Jobs -> Requests \cup {None}]
  BY DEF Typed, TypeOK, RequestType
<1>2. \A x \in RequestType : \A s, n :
        /\ [x EXCEPT !.status = s].kind = x.kind /\ [x EXCEPT !.status = s].tasks = x.tasks
        /\ [x EXCEPT !.status = s, !.run = n].kind = x.kind
        /\ [x EXCEPT !.status = s, !.run = n].tasks = x.tasks
        /\ [x EXCEPT !.status = s, !.waits = n].kind = x.kind
        /\ [x EXCEPT !.status = s, !.waits = n].tasks = x.tasks
  BY DEF RequestType
<1>3. \/ UNCHANGED request
      \/ \E q \in Requests : \E s : request' = [request EXCEPT ![q].status = s]
      \/ \E q \in Requests : \E s, n : request' = [request EXCEPT ![q].status = s, ![q].run = n]
      \/ \E q \in Requests : \E s, n : request' = [request EXCEPT ![q].status = s, ![q].waits = n]
  <2>1. ASSUME NEW j \in Jobs, JobStep(j)
        PROVE  \/ UNCHANGED request
               \/ \E q \in Requests : \E s, n : request' = [request EXCEPT ![q].status = s, ![q].run = n]
    <3>1. replyOf[j] \in Requests \cup {None}
      BY <1>1
    <3> QED
      BY <2>1, <3>1 DEF JobStep, JobPoll, JobBuilt, JobEnd, JobCancelled, Reply
  <2>2. ASSUME NEW q \in Requests, NEW t \in Tasks,
               TriggerUnavailable(q, t) \/ TriggerOverlaps(q, t) \/ TriggerStarts(q, t)
        PROVE  UNCHANGED request \/ \E s : request' = [request EXCEPT ![q].status = s]
    BY <2>2 DEF TriggerUnavailable, TriggerOverlaps, TriggerStarts, Settle
  <2>3. ASSUME NEW q \in Requests, Acknowledge(q)
        PROVE  \E s, n : request' = [request EXCEPT ![q].status = s, ![q].waits = n]
    BY <2>3 DEF Acknowledge
  <2> QED
    BY <2>1, <2>2, <2>3
<1>4. ASSUME NEW q \in Requests, NEW x, request' = [request EXCEPT ![q] = x],
             x.kind = request[q].kind, x.tasks = request[q].tasks
      PROVE  \A p \in Requests : /\ request'[p].kind = request[p].kind
                                 /\ request'[p].tasks = request[p].tasks
  BY <1>1, <1>4
<1>5. \A q \in Requests : \A s, n :
        /\ [request EXCEPT ![q].status = s]
              = [request EXCEPT ![q] = [request[q] EXCEPT !.status = s]]
        /\ [request EXCEPT ![q].status = s, ![q].run = n]
              = [request EXCEPT ![q] = [request[q] EXCEPT !.status = s, !.run = n]]
        /\ [request EXCEPT ![q].status = s, ![q].waits = n]
              = [request EXCEPT ![q] = [request[q] EXCEPT !.status = s, !.waits = n]]
  BY <1>1
<1>6. UNCHANGED request \/ \E q \in Requests : \E x :
          /\ request' = [request EXCEPT ![q] = x]
          /\ x.kind = request[q].kind /\ x.tasks = request[q].tasks
  <2>1. \A q \in Requests : request[q] \in RequestType
    BY <1>1
  <2>2. ASSUME NEW q \in Requests, NEW s, request' = [request EXCEPT ![q].status = s]
        PROVE  \E x : /\ request' = [request EXCEPT ![q] = x]
                      /\ x.kind = request[q].kind /\ x.tasks = request[q].tasks
    <3> DEFINE x == [request[q] EXCEPT !.status = s]
    <3>1. request' = [request EXCEPT ![q] = x]
      BY <1>5, <2>2
    <3>2. x.kind = request[q].kind /\ x.tasks = request[q].tasks
      BY <1>2, <2>1
    <3> HIDE DEF x
    <3> QED
      BY <3>1, <3>2
  <2>3. ASSUME NEW q \in Requests, NEW s, NEW n,
               request' = [request EXCEPT ![q].status = s, ![q].run = n]
        PROVE  \E x : /\ request' = [request EXCEPT ![q] = x]
                      /\ x.kind = request[q].kind /\ x.tasks = request[q].tasks
    <3> DEFINE x == [request[q] EXCEPT !.status = s, !.run = n]
    <3>1. request' = [request EXCEPT ![q] = x]
      BY <1>5, <2>3
    <3>2. x.kind = request[q].kind /\ x.tasks = request[q].tasks
      BY <1>2, <2>1
    <3> HIDE DEF x
    <3> QED
      BY <3>1, <3>2
  <2>4. ASSUME NEW q \in Requests, NEW s, NEW n,
               request' = [request EXCEPT ![q].status = s, ![q].waits = n]
        PROVE  \E x : /\ request' = [request EXCEPT ![q] = x]
                      /\ x.kind = request[q].kind /\ x.tasks = request[q].tasks
    <3> DEFINE x == [request[q] EXCEPT !.status = s, !.waits = n]
    <3>1. request' = [request EXCEPT ![q] = x]
      BY <1>5, <2>4
    <3>2. x.kind = request[q].kind /\ x.tasks = request[q].tasks
      BY <1>2, <2>1
    <3> HIDE DEF x
    <3> QED
      BY <3>1, <3>2
  <2>5. CASE UNCHANGED request
    BY <2>5
  <2>6. CASE \E q \in Requests : \E s : request' = [request EXCEPT ![q].status = s]
    BY <2>2, <2>6
  <2>7. CASE \E q \in Requests : \E s, n : request' = [request EXCEPT ![q].status = s, ![q].run = n]
    BY <2>3, <2>7
  <2>8. CASE \E q \in Requests : \E s, n :
                request' = [request EXCEPT ![q].status = s, ![q].waits = n]
    BY <2>4, <2>8
  <2> QED
    BY <1>3, <2>5, <2>6, <2>7, <2>8
<1> QED
  BY <1>4, <1>6

\* Steps that take no part in stopping: runs make progress, end or are started
\* for a registered task, and triggers are settled.
LEMMA StopFrame ==
    ASSUME Typed, StopInv, UNCHANGED <<owner, control, registered>>,
           \A p \in Requests : /\ request'[p].kind = request[p].kind
                               /\ request'[p].tasks = request[p].tasks
                               /\ request[p].kind # "trigger" => request'[p] = request[p],
           \A j \in Jobs : ~Ended(j)' => ~Ended(j) \/ j[1] \in registered
    PROVE  StopInv'
<1>1. \A p \in Requests : \A t : /\ Stopper(p, t)' <=> Stopper(p, t)
                                 /\ Stopper(p, t) => request'[p] = request[p]
  BY DEF Stopper
<1>2. /\ \A i, t : Registers(i, t)' <=> Registers(i, t)
      /\ \A k, q : Stops(k, q)' <=> Stops(k, q)
  BY DEF Registers, Stops
<1>3. OwnerInv'
  BY DEF StopInv, OwnerInv
<1>4. RegisterOrder'
  BY <1>1, <1>2 DEF StopInv, RegisterOrder
<1>5. StopOrder'
  BY <1>2 DEF StopInv, StopOrder
<1>6. Stopped'
  BY <1>1 DEF StopInv, Stopped
<1>7. RunsAwaited'
  BY <1>1 DEF StopInv, RunsAwaited, Awaited
<1> QED
  BY <1>3, <1>4, <1>5, <1>6, <1>7 DEF StopInv

LEMMA StopAcknowledge ==
    ASSUME Typed, StopInv, NEW q \in Requests, Acknowledge(q)
    PROVE  StopInv'
<1>1. /\ request \in [Requests -> RequestType]
      /\ \A p \in Requests : /\ request'[p].kind = request[p].kind
                             /\ request'[p].tasks = request[p].tasks
  BY KindsKept DEF Typed, TypeOK, RequestType
<1>2. /\ UNCHANGED <<owner, control, registered, job>>
      /\ request' = [request EXCEPT ![q].status = "acked", ![q].waits = {}]
      /\ request[q].status = "stopping" /\ \A j \in request[q].waits : Ended(j)
  BY DEF Acknowledge, tableVars, jobVars
<1>3. request'[q].status = "acked" /\ \A p \in Requests : p # q => request'[p] = request[p]
  BY <1>1, <1>2 DEF RequestType
<1>4. /\ \A p, t : p \in Requests => (Stopper(p, t)' <=> Stopper(p, t))
      /\ \A i, t : Registers(i, t)' <=> Registers(i, t)
      /\ \A k, p : Stops(k, p)' <=> Stops(k, p)
  BY <1>1, <1>2 DEF Registers, Stops, Stopper
<1>5. OwnerInv'
  BY <1>1, <1>2 DEF StopInv, OwnerInv
<1>6. RegisterOrder'
  BY <1>2, <1>3, <1>4 DEF StopInv, RegisterOrder
<1>7. StopOrder'
  BY <1>1, <1>2, <1>4 DEF StopInv, StopOrder
<1>8. Stopped'
  BY <1>2, <1>3, <1>4 DEF StopInv, Stopped
<1>9. RunsAwaited'
  <2>1. \A j : Ended(j)' <=> Ended(j)
    BY <1>2 DEF Ended
  <2> QED
    BY <1>2, <1>3, <1>4, <2>1 DEF StopInv, RunsAwaited, Awaited
<1> QED
  BY <1>5, <1>6, <1>7, <1>8, <1>9 DEF StopInv

\* The registration at the head of the channel is handled.
LEMMA StopHandleRegister ==
    ASSUME Typed, StopInv, HandleRegister
    PROVE  StopInv'
<1>0. PICK t : t = Head(control).task
  OBVIOUS
<1>1. control # <<>> /\ control' = Tail(control) /\ registered' = registered \cup {t}
      /\ UNCHANGED <<owner, job, request>> /\ Head(control).kind = "register"
  BY <1>0 DEF HandleRegister, jobVars
<1>2. control \in Seq(Commands)
  BY DEF Typed, ChannelTypes
<1>3. t \in Tasks /\ Registers(1, t) /\ 1 \in 1 .. Len(control)
  <2>1. Head(control) = control[1] /\ 1 \in 1 .. Len(control) /\ Head(control) \in Commands
    BY <1>1, <1>2, SeqFacts
  <2> QED
    BY <1>0, <1>1, <2>1, CommandFacts DEF Registers
<1>4. \A i \in 1 .. Len(control') :
         /\ i + 1 \in 1 .. Len(control) /\ control'[i] = control[i + 1] /\ i + 1 # 1 /\ 1 < i + 1
         /\ \A p : Stops(i, p)' => Stops(i + 1, p)
         /\ \A u : Registers(i, u)' => Registers(i + 1, u)
         /\ \A k \in 1 .. Len(control') : (i + 1 = k + 1 => i = k) /\ (i + 1 < k + 1 <=> i < k)
  BY <1>1, TailMoves
<1>5. \A p, u : Stopper(p, u)' <=> Stopper(p, u)
  BY <1>1 DEF Stopper
<1>6. /\ owner[t] # "new" /\ t \notin registered
      /\ \A q \in Requests : Stopper(q, t) => request[q].status = "pending"
      /\ \A k \in 1 .. Len(control) : Registers(k, t) => k = 1
  BY <1>3 DEF StopInv, RegisterOrder
<1>7. OwnerInv'
  BY <1>1, <1>4, <1>6 DEF StopInv, OwnerInv
<1>8. RegisterOrder'
  <2> SUFFICES ASSUME NEW u \in Tasks, NEW i \in 1 .. Len(control'), Registers(i, u)'
               PROVE  /\ owner'[u] # "new" /\ u \notin registered'
                      /\ \A k \in 1 .. Len(control') : Registers(k, u)' => i = k
                      /\ \A q \in Requests : Stopper(q, u)' => request'[q].status = "pending"
    BY DEF RegisterOrder
  <2>1. i + 1 \in 1 .. Len(control) /\ Registers(i + 1, u) /\ i + 1 # 1
        /\ \A k \in 1 .. Len(control') : k + 1 \in 1 .. Len(control) /\ (i + 1 = k + 1 => i = k)
                                         /\ (Registers(k, u)' => Registers(k + 1, u))
    BY <1>4
  <2>2. u # t
    BY <1>6, <2>1
  <2> QED
    BY <1>1, <1>5, <2>1, <2>2 DEF StopInv, RegisterOrder
<1>9. StopOrder'
  <2> SUFFICES ASSUME NEW q \in Requests, NEW k \in 1 .. Len(control'), Stops(k, q)'
               PROVE  /\ control'[k].kind = "remove" => request'[q].tasks = {control'[k].task}
                      /\ control'[k].kind = "stopAll" => registered' \subseteq request'[q].tasks
                      /\ \A u \in Tasks, i \in 1 .. Len(control') : Registers(i, u)' =>
                            /\ u \in request'[q].tasks => i < k
                            /\ control'[k].kind = "stopAll" /\ i < k => u \in request'[q].tasks
    BY DEF StopOrder
  <2>1. k + 1 \in 1 .. Len(control) /\ Stops(k + 1, q) /\ control'[k] = control[k + 1]
        /\ 1 < k + 1
    BY <1>4
  <2>2. /\ control[k + 1].kind = "remove" => request[q].tasks = {control[k + 1].task}
        /\ control[k + 1].kind = "stopAll" => registered \subseteq request[q].tasks
        /\ control[k + 1].kind = "stopAll" => t \in request[q].tasks
        /\ \A u \in Tasks, i \in 1 .. Len(control) : Registers(i, u) =>
              /\ u \in request[q].tasks => i < k + 1
              /\ control[k + 1].kind = "stopAll" /\ i < k + 1 => u \in request[q].tasks
    BY <1>3, <2>1 DEF StopInv, StopOrder
  <2>3. ASSUME NEW u \in Tasks, NEW i \in 1 .. Len(control'), Registers(i, u)'
        PROVE  /\ u \in request'[q].tasks => i < k
               /\ control'[k].kind = "stopAll" /\ i < k => u \in request'[q].tasks
    <3>1. i + 1 \in 1 .. Len(control) /\ Registers(i + 1, u) /\ (i + 1 < k + 1 <=> i < k)
      BY <1>4, <2>3
    <3> QED
      BY <1>1, <2>1, <2>2, <3>1
  <2> QED
    BY <1>1, <2>1, <2>2, <2>3
<1>10. Stopped'
  BY <1>1, <1>5, <1>6 DEF StopInv, Stopped
<1>11. RunsAwaited'
  BY <1>1, <1>5 DEF StopInv, RunsAwaited, Awaited, Ended
<1> QED
  BY <1>7, <1>8, <1>9, <1>10, <1>11 DEF StopInv

\* The removal at the head of the channel is handled.
LEMMA StopRemoving ==
    ASSUME Typed, RunInv, StopSent, StopInv, NEW gone, Removing(gone)
    PROVE  StopInv'
<1>0. PICK c : c = Head(control)
  OBVIOUS
<1>1. /\ control # <<>> /\ control' = Tail(control) /\ registered' = registered \ gone
      /\ UNCHANGED <<owner, job>> /\ gone \in SUBSET registered
  BY RemovingFacts DEF RemoveTasks
<1>2. c = control[1] /\ 1 \in 1 .. Len(control) /\ c \in Commands
  BY <1>0, <1>1, SeqFacts DEF Typed, ChannelTypes
<1>3. \A i \in 1 .. Len(control') :
         /\ i + 1 \in 1 .. Len(control) /\ control'[i] = control[i + 1] /\ i + 1 # 1 /\ 1 < i + 1
         /\ \A p : Stops(i, p)' => Stops(i + 1, p)
         /\ \A u : Registers(i, u)' => Registers(i + 1, u)
         /\ \A k \in 1 .. Len(control') : (i + 1 = k + 1 => i = k) /\ (i + 1 < k + 1 <=> i < k)
  BY <1>1, TailMoves
<1>4. PICK q \in Requests \cup {None} :
        /\ \A p \in Requests : p # q => request'[p] = request[p]
        /\ \A p \in Requests : /\ request'[p].kind = request[p].kind
                               /\ request'[p].tasks = request[p].tasks
        /\ \/ q = None /\ c.kind = "detached" /\ gone = {c.task} \cap registered
           \/ /\ q \in Requests /\ c.ack = q
              /\ \/ c.kind = "remove" /\ gone = {c.task} \cap registered
                 \/ c.kind = "stopAll" /\ gone = registered
              /\ request'[q].waits = Handles(gone)
              /\ Handles(gone) # {} => request'[q].status = "stopping"
  <2>1. CASE HandleDetached /\ gone = {c.task} \cap registered
    <3>1. UNCHANGED request /\ c.kind = "detached"
      BY <1>0, <2>1, RemovingFacts
    <3> QED
      BY <2>1, <3>1
  <2>2. CASE HandleRemove /\ gone = {c.task} \cap registered
    <3>1. AwaitRuns(c.ack, gone) /\ c.ack \in Requests /\ c.kind = "remove"
      BY <1>0, <2>2, RemovingFacts
    <3> QED
      BY <1>1, <2>2, <3>1, AwaitFacts DEF Typed
  <2>3. CASE HandleStopAll /\ gone = registered
    <3>1. AwaitRuns(c.ack, gone) /\ c.ack \in Requests /\ c.kind = "stopAll"
      BY <1>0, <2>3, RemovingFacts
    <3> QED
      BY <1>1, <2>3, <3>1, AwaitFacts DEF Typed
  <2> QED
    BY <1>0, <2>1, <2>2, <2>3 DEF Removing
<1>5. q \in Requests =>
        /\ Stops(1, q) /\ request[q].kind \in {"stop", "stopAll"} /\ request[q].status = "pending"
        /\ gone \subseteq request[q].tasks
        /\ \A t \in request[q].tasks : t \notin registered'
        /\ \A t \in Tasks, i \in 1 .. Len(control) : Registers(i, t) /\ t \in request[q].tasks
              => i < 1
  <2> SUFFICES ASSUME q \in Requests
               PROVE  /\ Stops(1, q)
                      /\ request[q].kind \in {"stop", "stopAll"}
                      /\ request[q].status = "pending"
                      /\ gone \subseteq request[q].tasks
                      /\ \A t \in request[q].tasks : t \notin registered'
                      /\ \A t \in Tasks, i \in 1 .. Len(control) :
                            Registers(i, t) /\ t \in request[q].tasks => i < 1
    OBVIOUS
  <2>1. Stops(1, q)
    BY <1>2, <1>4, TaskAssumption DEF Stops
  <2>2. request[q].kind \in {"stop", "stopAll"} /\ request[q].status = "pending"
    BY <1>2, <2>1 DEF StopSent
  <2>3. /\ c.kind = "remove" => request[q].tasks = {c.task}
        /\ c.kind = "stopAll" => registered \subseteq request[q].tasks
        /\ \A t \in Tasks, i \in 1 .. Len(control) :
              Registers(i, t) /\ t \in request[q].tasks => i < 1
    BY <1>2, <2>1 DEF StopInv, StopOrder
  <2>4. \/ c.kind = "remove" /\ gone = {c.task} \cap registered
        \/ c.kind = "stopAll" /\ gone = registered
    BY <1>4, TaskAssumption
  <2> QED
    BY <1>1, <2>1, <2>2, <2>3, <2>4
<1>6. \A p \in Requests : \A t : Stopper(p, t)' <=> Stopper(p, t)
  BY <1>4 DEF Stopper
<1>7. OwnerInv'
  BY <1>1, <1>3, <1>4 DEF StopInv, OwnerInv
<1>8. RegisterOrder'
  <2> SUFFICES ASSUME NEW u \in Tasks, NEW i \in 1 .. Len(control'), Registers(i, u)'
               PROVE  /\ owner'[u] # "new" /\ u \notin registered'
                      /\ \A k \in 1 .. Len(control') : Registers(k, u)' => i = k
                      /\ \A p \in Requests : Stopper(p, u)' => request'[p].status = "pending"
    BY DEF RegisterOrder
  <2>1. /\ i + 1 \in 1 .. Len(control) /\ Registers(i + 1, u) /\ ~(i + 1 < 1)
        /\ \A k \in 1 .. Len(control') : /\ k + 1 \in 1 .. Len(control) /\ (i + 1 = k + 1 => i = k)
                                         /\ Registers(k, u)' => Registers(k + 1, u)
    BY <1>3
  <2>2. /\ owner[u] # "new" /\ u \notin registered
        /\ \A k \in 1 .. Len(control) : Registers(k, u) => i + 1 = k
        /\ \A p \in Requests : Stopper(p, u) => request[p].status = "pending"
    BY <2>1 DEF StopInv, RegisterOrder
  <2>3. q \in Requests => ~Stopper(q, u)
    BY <1>5, <2>1 DEF Stopper
  <2> QED
    BY <1>1, <1>4, <1>6, <2>1, <2>2, <2>3
<1>9. StopOrder'
  <2> SUFFICES ASSUME NEW p \in Requests, NEW k \in 1 .. Len(control'), Stops(k, p)'
               PROVE  /\ control'[k].kind = "remove" => request'[p].tasks = {control'[k].task}
                      /\ control'[k].kind = "stopAll" => registered' \subseteq request'[p].tasks
                      /\ \A u \in Tasks, i \in 1 .. Len(control') : Registers(i, u)' =>
                            /\ u \in request'[p].tasks => i < k
                            /\ control'[k].kind = "stopAll" /\ i < k => u \in request'[p].tasks
    BY DEF StopOrder
  <2>1. k + 1 \in 1 .. Len(control) /\ Stops(k + 1, p) /\ control'[k] = control[k + 1]
    BY <1>3
  <2>2. /\ control[k + 1].kind = "remove" => request[p].tasks = {control[k + 1].task}
        /\ control[k + 1].kind = "stopAll" => registered \subseteq request[p].tasks
        /\ \A u \in Tasks, i \in 1 .. Len(control) : Registers(i, u) =>
              /\ u \in request[p].tasks => i < k + 1
              /\ control[k + 1].kind = "stopAll" /\ i < k + 1 => u \in request[p].tasks
    BY <2>1 DEF StopInv, StopOrder
  <2>3. ASSUME NEW u \in Tasks, NEW i \in 1 .. Len(control'), Registers(i, u)'
        PROVE  /\ u \in request'[p].tasks => i < k
               /\ control'[k].kind = "stopAll" /\ i < k => u \in request'[p].tasks
    <3>1. i + 1 \in 1 .. Len(control) /\ Registers(i + 1, u) /\ (i + 1 < k + 1 <=> i < k)
      BY <1>3, <2>3
    <3> QED
      BY <1>4, <2>1, <2>2, <3>1
  <2> QED
    BY <1>1, <1>4, <2>1, <2>2, <2>3
<1>10. Stopped'
  <2> SUFFICES ASSUME NEW p \in Requests, NEW t \in Tasks, Stopper(p, t)',
                      request'[p].status # "pending"
               PROVE  t \notin registered'
    BY DEF Stopped
  <2>1. CASE p = q
    BY <1>4, <1>5, <2>1 DEF Stopper
  <2>2. CASE p # q
    BY <1>1, <1>4, <1>6, <2>2 DEF StopInv, Stopped
  <2> QED
    BY <2>1, <2>2
<1>11. RunsAwaited'
  <2> SUFFICES ASSUME NEW j \in Jobs, ~Ended(j)', j[1] \notin registered'
               PROVE  owner'[j[1]] = "released" \/ Awaited(j)'
    BY DEF RunsAwaited
  <2>1. ~Ended(j) /\ j[2] = running[j[1]] /\ j = <<j[1], j[2]>> /\ j[2] # 0
    BY <1>1, JobFacts DEF RunInv, Ended
  <2>2. CASE j[1] \in gone
    <3>1. j \in Handles(gone)
      BY <2>1, <2>2 DEF Handles
    <3>2. CASE q = None /\ c.kind = "detached" /\ gone = {c.task} \cap registered
      BY <1>1, <1>2, <2>2, <3>2 DEF StopInv, OwnerInv
    <3>3. CASE q \in Requests
      <4>1. request'[q].waits = Handles(gone) /\ request'[q].status = "stopping"
        BY <1>4, <3>1, <3>3, TaskAssumption
      <4>2. Stopper(q, j[1])'
        BY <1>5, <1>6, <2>2, <3>3 DEF Stopper
      <4> QED
        BY <3>1, <3>3, <4>1, <4>2 DEF Awaited
    <3> QED
      BY <1>4, <3>2, <3>3
  <2>3. CASE j[1] \notin registered
    <3>1. owner[j[1]] = "released" \/ Awaited(j)
      BY <2>1, <2>3 DEF StopInv, RunsAwaited
    <3>2. ASSUME NEW p \in Requests, Stopper(p, j[1]), request[p].status = "stopping",
                 j \in request[p].waits
          PROVE  Awaited(j)'
      <4>1. p # q
        BY <1>5, <3>2
      <4> QED
        BY <1>4, <1>6, <3>2, <4>1 DEF Awaited
    <3> QED
      BY <1>1, <3>1, <3>2 DEF Awaited
  <2> QED
    BY <1>1, <2>2, <2>3
<1> QED
  BY <1>7, <1>8, <1>9, <1>10, <1>11 DEF StopInv

\* What the owners send.
LEMMA StopOwner ==
    ASSUME Typed, StopInv, NEW t \in Tasks, Register(t) \/ StopDetached(t)
    PROVE  StopInv'
<1>1. UNCHANGED <<registered, job, request>>
  BY DEF Register, StopDetached, tableVars, jobVars
<1>2. PICK c \in Commands : /\ control' = Append(control, c) /\ c.task = t
                            /\ \/ c.kind = "register" /\ Register(t)
                               \/ c.kind = "detached" /\ StopDetached(t)
  <2>1. CASE Register(t)
    BY <2>1, RegisterFacts
  <2>2. CASE StopDetached(t)
    <3>1. [kind |-> "detached", task |-> t] \in Commands
      BY DEF Commands
    <3> QED
      BY <2>2, <3>1 DEF StopDetached, Send
  <2> QED
    BY <2>1, <2>2
<1>3. /\ \A u \in Tasks : owner[u] # "new" => owner'[u] # "new"
      /\ \A u \in Tasks : owner[u] = "released" => owner'[u] = "released"
      /\ owner'[t] # "new"
      /\ c.kind = "detached" => owner'[t] = "released"
      /\ c.kind = "register" => owner[t] = "new"
  <2>1. owner \in [Tasks -> {"new", "handed", "released"}]
    BY DEF Typed, TypeOK
  <2>2. CASE c.kind = "register" /\ Register(t)
    BY <2>1, <2>2 DEF Register
  <2>3. CASE c.kind = "detached" /\ StopDetached(t)
    BY <2>1, <2>3 DEF StopDetached
  <2> QED
    BY <1>2, <2>2, <2>3
<1>4. /\ Len(control) \in Nat /\ control'[Len(control) + 1] = c
      /\ \A i \in 1 .. Len(control) : control'[i] = control[i] /\ i < Len(control) + 1
      /\ \A i \in 1 .. Len(control') : i \in 1 .. Len(control) \/ i = Len(control) + 1
      /\ \A i, q : Stops(i, q)' <=> Stops(i, q)
      /\ \A i, u : Registers(i, u)' <=>
            Registers(i, u) \/ (i = Len(control) + 1 /\ c.kind = "register" /\ u = t)
  BY <1>2, AppendMoves
<1>5. /\ \A i, q : Stops(i, q) => i \in 1 .. Len(control)
      /\ \A i, u : Registers(i, u) => i \in 1 .. Len(control)
      /\ \A p, u : Stopper(p, u)' <=> Stopper(p, u)
  BY <1>1 DEF Stops, Registers, Stopper
<1>6. c.kind = "register" => /\ t \notin registered /\ \A i : ~Registers(i, t)
                             /\ \A q \in Requests : t \notin request[q].tasks
  BY <1>3, <1>5 DEF StopInv, OwnerInv, RegisterOrder
<1>7. /\ registered \subseteq Tasks
      /\ \A q \in Requests : request[q].tasks \subseteq Tasks
      /\ \A i \in 1 .. Len(control) : control[i].kind = "detached" => control[i].task \in Tasks
  BY RequestFacts, SeqFacts, CommandFacts DEF Typed, ChannelTypes, TypeOK
<1>8. OwnerInv'
  <2>1. \A i \in 1 .. Len(control') :
           control'[i].kind = "detached" => owner'[control'[i].task] = "released"
    <3> SUFFICES ASSUME NEW i \in 1 .. Len(control'), control'[i].kind = "detached"
                 PROVE  owner'[control'[i].task] = "released"
      OBVIOUS
    <3>1. CASE i = Len(control) + 1
      BY <1>2, <1>3, <1>4, <3>1
    <3>2. CASE i \in 1 .. Len(control)
      <4>1. control'[i] = control[i] /\ control[i].kind = "detached"
        BY <1>4, <3>2
      <4>2. control[i].task \in Tasks /\ owner[control[i].task] = "released"
        BY <1>7, <3>2, <4>1 DEF StopInv, OwnerInv
      <4> QED
        BY <1>3, <4>1, <4>2
    <3> QED
      BY <1>4, <3>1, <3>2
  <2> QED
    BY <1>1, <1>3, <1>7, <2>1 DEF StopInv, OwnerInv
<1>9. RegisterOrder'
  <2> SUFFICES ASSUME NEW u \in Tasks, NEW i \in 1 .. Len(control'), Registers(i, u)'
               PROVE  /\ owner'[u] # "new" /\ u \notin registered'
                      /\ \A k \in 1 .. Len(control') : Registers(k, u)' => i = k
                      /\ \A q \in Requests : Stopper(q, u)' => request'[q].status = "pending"
    BY DEF RegisterOrder
  <2>1. CASE i = Len(control) + 1 /\ c.kind = "register" /\ u = t
    BY <1>1, <1>3, <1>4, <1>5, <1>6, <2>1 DEF Stopper
  <2>2. CASE Registers(i, u)
    BY <1>1, <1>3, <1>4, <1>5, <1>6, <2>2 DEF StopInv, RegisterOrder
  <2> QED
    BY <1>4, <2>1, <2>2
<1>10. StopOrder'
  <2> SUFFICES ASSUME NEW q \in Requests, NEW k \in 1 .. Len(control'), Stops(k, q)'
               PROVE  /\ control'[k].kind = "remove" => request'[q].tasks = {control'[k].task}
                      /\ control'[k].kind = "stopAll" => registered' \subseteq request'[q].tasks
                      /\ \A u \in Tasks, i \in 1 .. Len(control') : Registers(i, u)' =>
                            /\ u \in request'[q].tasks => i < k
                            /\ control'[k].kind = "stopAll" /\ i < k => u \in request'[q].tasks
    BY DEF StopOrder
  <2>1. Stops(k, q) /\ k \in 1 .. Len(control) /\ control'[k] = control[k]
        /\ ~(Len(control) + 1 < k)
    BY <1>4, <1>5
  <2>2. /\ control[k].kind = "remove" => request[q].tasks = {control[k].task}
        /\ control[k].kind = "stopAll" => registered \subseteq request[q].tasks
        /\ \A u \in Tasks, i \in 1 .. Len(control) : Registers(i, u) =>
              /\ u \in request[q].tasks => i < k
              /\ control[k].kind = "stopAll" /\ i < k => u \in request[q].tasks
    BY <2>1 DEF StopInv, StopOrder
  <2>3. ASSUME NEW u \in Tasks, NEW i \in 1 .. Len(control'), Registers(i, u)'
        PROVE  /\ u \in request'[q].tasks => i < k
               /\ control'[k].kind = "stopAll" /\ i < k => u \in request'[q].tasks
    <3>1. CASE i = Len(control) + 1 /\ c.kind = "register" /\ u = t
      BY <1>1, <1>6, <2>1, <3>1
    <3>2. CASE Registers(i, u)
      BY <1>1, <1>5, <2>1, <2>2, <3>2
    <3> QED
      BY <1>4, <2>3, <3>1, <3>2
  <2> QED
    BY <1>1, <2>1, <2>2, <2>3
<1>11. Stopped'
  BY <1>1, <1>5 DEF StopInv, Stopped
<1>12. RunsAwaited'
  BY <1>1, <1>3, <1>5, JobFacts DEF StopInv, RunsAwaited, Awaited, Ended
<1> QED
  BY <1>8, <1>9, <1>10, <1>11, <1>12 DEF StopInv

\* A request is made: a trigger, or a stop whose command joins the channel.
LEMMA StopFresh ==
    ASSUME Typed, KindInv, StopSent, StopInv, NEW q \in Requests, NEW r,
           UNCHANGED <<owner, registered, job>>, request' = [request EXCEPT ![q] = r],
           request[q].kind = "none", \A u \in r.tasks : owner[u] # "new",
           \/ UNCHANGED control /\ r.kind = "trigger"
           \/ \E c \in Commands :
                /\ control' = Append(control, c) /\ c.kind \in {"remove", "stopAll"} /\ c.ack = q
                /\ r.status = "pending"
                /\ c.kind = "remove" => r.tasks = {c.task}
                /\ c.kind = "stopAll" => \A u \in Tasks : owner[u] # "new" => u \in r.tasks
    PROVE  StopInv'
<1>1. request'[q] = r /\ \A p \in Requests : p # q => request'[p] = request[p]
  BY DEF Typed, TypeOK
<1>2. /\ \A i : ~Stops(i, q)
      /\ \A u : ~Stopper(q, u)
      /\ \A i, p : Stops(i, p) => i \in 1 .. Len(control)
      /\ \A i, u : Registers(i, u) => i \in 1 .. Len(control)
      /\ \A p \in Requests : \A u : p # q => (Stopper(p, u)' <=> Stopper(p, u))
  BY <1>1 DEF StopSent, Stops, Registers, Stopper
<1>3. /\ \A i, u : Registers(i, u)' <=> Registers(i, u)
      /\ \A i, p : Stops(i, p) => Stops(i, p)' /\ control'[i] = control[i]
      /\ \A i, p : Stops(i, p)' /\ p # q => Stops(i, p)
      /\ \A i : Stops(i, q)' => /\ i = Len(control) + 1 /\ r.status = "pending"
                                /\ control'[i].kind = "remove" => r.tasks = {control'[i].task}
                                /\ control'[i].kind = "stopAll" =>
                                      \A u \in Tasks : owner[u] # "new" => u \in r.tasks
      /\ \A i \in 1 .. Len(control') :
            \/ i \in 1 .. Len(control) /\ control'[i] = control[i]
            \/ control'[i].kind # "detached"
      /\ r.kind = "trigger" \/ r.status = "pending"
      /\ Len(control) \in Nat
  <2>1. CASE UNCHANGED control /\ r.kind = "trigger"
    <3>1. /\ \A i, u : Registers(i, u)' <=> Registers(i, u)
          /\ \A k, p : Stops(k, p)' <=> Stops(k, p)
      BY <2>1 DEF Registers, Stops
    <3> QED
      BY <1>2, <2>1, <3>1, SeqFacts DEF Typed, ChannelTypes
  <2>2. ASSUME NEW c \in Commands, control' = Append(control, c), c.ack = q,
               c.kind \in {"remove", "stopAll"}, r.status = "pending",
               c.kind = "remove" => r.tasks = {c.task},
               c.kind = "stopAll" => \A u \in Tasks : owner[u] # "new" => u \in r.tasks
        PROVE  <1>3!:
    <3>1. /\ Len(control) \in Nat /\ control'[Len(control) + 1] = c
          /\ \A i \in 1 .. Len(control) : control'[i] = control[i]
          /\ \A i \in 1 .. Len(control') : i \in 1 .. Len(control) \/ i = Len(control) + 1
          /\ \A i, p : Stops(i, p)' <=> Stops(i, p) \/ (i = Len(control) + 1 /\ p = q)
          /\ \A i, u : Registers(i, u)' <=> Registers(i, u)
      BY <2>2, AppendMoves
    <3> QED
      BY <1>2, <2>2, <3>1
  <2> QED
    BY <2>1, <2>2
<1>4. registered \subseteq Tasks
  BY DEF Typed, TypeOK
<1>5. OwnerInv'
  BY <1>1, <1>3 DEF StopInv, OwnerInv
<1>6. RegisterOrder'
  <2> SUFFICES ASSUME NEW u \in Tasks, NEW i \in 1 .. Len(control'), Registers(i, u)'
               PROVE  /\ owner'[u] # "new" /\ u \notin registered'
                      /\ \A k \in 1 .. Len(control') : Registers(k, u)' => i = k
                      /\ \A p \in Requests : Stopper(p, u)' => request'[p].status = "pending"
    BY DEF RegisterOrder
  <2>1. Registers(i, u) /\ i \in 1 .. Len(control)
        /\ \A k : Registers(k, u)' => Registers(k, u) /\ k \in 1 .. Len(control)
    BY <1>2, <1>3
  <2>2. Stopper(q, u)' => request'[q].status = "pending"
    BY <1>1, <1>3 DEF Stopper
  <2> QED
    BY <1>1, <1>2, <2>1, <2>2 DEF StopInv, RegisterOrder
<1>7. StopOrder'
  <2> SUFFICES ASSUME NEW p \in Requests, NEW k \in 1 .. Len(control'), Stops(k, p)'
               PROVE  /\ control'[k].kind = "remove" => request'[p].tasks = {control'[k].task}
                      /\ control'[k].kind = "stopAll" => registered' \subseteq request'[p].tasks
                      /\ \A u \in Tasks, i \in 1 .. Len(control') : Registers(i, u)' =>
                            /\ u \in request'[p].tasks => i < k
                            /\ control'[k].kind = "stopAll" /\ i < k => u \in request'[p].tasks
    BY DEF StopOrder
  <2>1. CASE p = q
    <3>1. k = Len(control) + 1
          /\ \A u \in Tasks : \A i : Registers(i, u)' => i < Len(control) + 1 /\ owner[u] # "new"
      BY <1>2, <1>3, <2>1 DEF StopInv, RegisterOrder
    <3>2. \A u \in registered : owner[u] # "new"
      BY DEF StopInv, OwnerInv
    <3> QED
      BY <1>1, <1>3, <1>4, <2>1, <3>1, <3>2
  <2>2. CASE p # q
    <3>1. Stops(k, p) /\ k \in 1 .. Len(control) /\ control'[k] = control[k]
          /\ request'[p] = request[p]
          /\ \A u, i : Registers(i, u)' => Registers(i, u) /\ i \in 1 .. Len(control)
      BY <1>1, <1>2, <1>3, <2>2
    <3> QED
      BY <3>1 DEF StopInv, StopOrder
  <2> QED
    BY <2>1, <2>2
<1>8. Stopped'
  <2> SUFFICES ASSUME NEW p \in Requests, NEW u \in Tasks, Stopper(p, u)',
                      request'[p].status # "pending"
               PROVE  u \notin registered
    BY DEF Stopped
  <2>1. p # q
    BY <1>1, <1>3 DEF Stopper
  <2> QED
    BY <1>1, <1>2, <2>1 DEF StopInv, Stopped
<1>9. RunsAwaited'
  <2>1. \A j \in Jobs : Awaited(j) => Awaited(j)'
    BY <1>1, <1>2 DEF Awaited
  <2> QED
    BY <2>1 DEF StopInv, RunsAwaited, Ended
<1> QED
  BY <1>5, <1>6, <1>7, <1>8, <1>9 DEF StopInv

LEMMA StopRequests ==
    ASSUME Typed, KindInv, StopSent, StopInv, NEW q \in Requests, NEW t,
           (t \in Tasks /\ (Trigger(q, t) \/ Stop(q, t))) \/ StopAll(q)
    PROVE  StopInv'
<1>1. request[q].kind = "none" /\ UNCHANGED <<owner, registered, job>>
  BY DEF Trigger, Stop, StopAll, KindInv, tableVars, jobVars
<1>2. CASE t \in Tasks /\ Trigger(q, t)
  <2>1. PICK s : request' = [request EXCEPT ![q] =
                      [Unused EXCEPT !.kind = "trigger", !.tasks = {t}, !.status = s]]
    BY <1>2 DEF Trigger
  <2> DEFINE r == [Unused EXCEPT !.kind = "trigger", !.tasks = {t}, !.status = s]
  <2>2. r.kind = "trigger" /\ r.tasks = {t}
    BY DEF Unused
  <2>3. request' = [request EXCEPT ![q] = r]
    BY <2>1
  <2>4. owner[t] # "new" /\ UNCHANGED control
    BY <1>2 DEF Trigger
  <2> HIDE DEF r
  <2> QED
    BY <1>1, <2>2, <2>3, <2>4, StopFresh
<1>3. CASE t \in Tasks /\ Stop(q, t)
  <2> DEFINE r == [Unused EXCEPT !.kind = "stop", !.tasks = {t}, !.status = "pending"]
             c == [kind |-> "remove", task |-> t, ack |-> q]
  <2>1. /\ request' = [request EXCEPT ![q] = r] /\ control' = Append(control, c)
        /\ owner[t] # "new"
    BY <1>3 DEF Stop, Send
  <2>2. r.tasks = {t} /\ r.status = "pending" /\ c.kind = "remove" /\ c.ack = q
        /\ c.task = t /\ c \in Commands
    BY <1>3 DEF Commands, Unused
  <2> HIDE DEF r, c
  <2> QED
    BY <1>1, <2>1, <2>2, StopFresh
<1>4. CASE StopAll(q)
  <2> DEFINE T == {u \in Tasks : owner[u] # "new"}
             r == [Unused EXCEPT !.kind = "stopAll", !.status = "pending", !.tasks = T]
             c == [kind |-> "stopAll", ack |-> q]
  <2>1. /\ request' = [request EXCEPT ![q] = r] /\ control' = Append(control, c)
    BY <1>4 DEF StopAll, Send
  <2>2. r.tasks = T /\ r.status = "pending" /\ c.kind = "stopAll" /\ c.ack = q
        /\ c \in Commands
    BY DEF Commands, Unused
  <2>3. \A u : u \in T <=> u \in Tasks /\ owner[u] # "new"
    OBVIOUS
  <2> HIDE DEF r, c, T
  <2> QED
    BY <1>1, <2>1, <2>2, <2>3, StopFresh
<1> QED
  BY <1>2, <1>3, <1>4

LEMMA StopStep ==
    ASSUME Typed, RunInv, KindInv, ChannelInv, SenderInv, StartedInv, StopSent, StopInv, Next
    PROVE  StopInv'
<1>1. ASSUME UNCHANGED <<owner, control, registered, request>>,
             \A j \in Jobs : ~Ended(j)' => ~Ended(j) \/ j[1] \in registered
      PROVE  StopInv'
  BY <1>1, StopFrame
<1>2. CASE Tick \/ WallJump
  BY <1>1, <1>2 DEF Tick, WallJump, tableVars, jobVars, Ended
<1>3. CASE Wakeup
  BY <1>1, <1>3, WakeupStarts DEF Wakeup, Ended
<1>4. ASSUME NEW q \in Requests, NEW t \in Tasks,
             TriggerUnavailable(q, t) \/ TriggerOverlaps(q, t) \/ TriggerStarts(q, t)
      PROVE  StopInv'
  <2>1. UNCHANGED <<owner, control, registered>>
    BY <1>4 DEF TriggerUnavailable, TriggerOverlaps, TriggerStarts, TriggerArm
  <2>2. \A j \in Jobs : ~Ended(j)' => ~Ended(j) \/ j[1] \in registered
    <3>1. CASE TriggerStarts(q, t)
      <4>1. t \in registered /\ job' = [job EXCEPT ![<<t, nextRunId[t]>>] = "spawned"]
        BY <3>1 DEF TriggerStarts
      <4>2. \A j \in Jobs : j = <<t, nextRunId[t]>> \/ job'[j] = job[j]
        BY <4>1 DEF Typed, TypeOK
      <4> QED
        BY <4>1, <4>2 DEF Ended
    <3>2. CASE TriggerUnavailable(q, t) \/ TriggerOverlaps(q, t)
      BY <3>2 DEF TriggerUnavailable, TriggerOverlaps, Ended
    <3> QED
      BY <1>4, <3>1, <3>2
  <2>3. \A p \in Requests : /\ request'[p].kind = request[p].kind
                            /\ request'[p].tasks = request[p].tasks
                            /\ request[p].kind # "trigger" => request'[p] = request[p]
    BY <1>4, KindsKept, ReplyTrigger
  <2> QED
    BY <2>1, <2>2, <2>3, StopFrame
<1>5. ASSUME NEW j \in Jobs, JobStep(j) PROVE StopInv'
  <2>1. UNCHANGED <<owner, control, registered>>
    BY <1>5 DEF JobStep, JobPoll, JobBuilt, JobEnd, JobCancelled, tableVars
  <2>2. \A i \in Jobs : ~Ended(i)' => ~Ended(i)
    <3>1. ~Ended(j) /\ \E s : job' = [job EXCEPT ![j] = s]
      BY <1>5 DEF JobStep, JobPoll, JobBuilt, JobEnd, JobCancelled, Become, Ended
    <3>2. \A i \in Jobs : i # j => job'[i] = job[i]
      BY <3>1 DEF Typed, TypeOK
    <3> QED
      BY <3>1, <3>2 DEF Ended
  <2>3. \A p \in Requests : /\ request'[p].kind = request[p].kind
                            /\ request'[p].tasks = request[p].tasks
                            /\ request[p].kind # "trigger" => request'[p] = request[p]
    BY <1>5, KindsKept, ReplyJob
  <2> QED
    BY <2>1, <2>2, <2>3, StopFrame
<1> QED
  BY <1>2, <1>3, <1>4, <1>5, StopAcknowledge, StopHandleRegister, StopRemoving,
     StopOwner, StopRequests
     DEF Next, Scheduler, HandleTrigger, HandleCommand, Removing

-----------------------------------------------------------------------------
(***************************************************************************)
(* The invariant and the theorems.                                         *)
(***************************************************************************)
LEMMA Initially == Init => Inv
<1> SUFFICES ASSUME Init PROVE Inv
  OBVIOUS
<1>1. control = <<>> /\ triggers = <<>> /\ Len(control) = 0 /\ Len(triggers) = 0
  BY DEF Init
<1>2. \A t \in Tasks : nextRunId[t] = 1 /\ running[t] = 0 /\ nextRun[t] = None
  BY DEF Init
<1>3. \A j \in Jobs : job[j] = "none" /\ replyOf[j] = None
  BY DEF Init
<1>4. \A q \in Requests : request[q].kind = "none" /\ request[q].status = "unused"
                          /\ request[q].tasks = {}
  BY DEF Init, Unused
<1>5. Typed
  <2>1. 1 \in RunIds /\ 0 \in 0 .. RunIdEnd
    BY TimeAssumption DEF RunIds
  <2>2. Unused \in [kind : {"none", "trigger", "stop", "stopAll"}, tasks : SUBSET Tasks,
                    status : Statuses, run : 0 .. RunIdEnd, waits : SUBSET Jobs]
    BY <2>1 DEF Unused, Statuses
  <2>3. TypeOK
    BY <2>1, <2>2 DEF TypeOK, Init, JobStates
  <2>4. ChannelTypes
    BY <1>1 DEF ChannelTypes
  <2> QED
    BY <2>3, <2>4 DEF Typed
<1>6. RunInv
  BY <1>3 DEF RunInv, Ended
<1>7. DeadlineInv
  BY <1>1 DEF DeadlineInv, DeadlinesOnHeap, FixedOnGrid, RecheckInv, CronRechecked,
              SentOnGrid, Init
<1>8. ReplyInv
  BY <1>1, <1>3, <1>4 DEF ReplyInv, ChannelInv, SenderInv, StartedInv, KindInv, StopSent
<1>9. StopInv
  <2>1. registered = {}
    BY DEF Init
  <2> QED
    BY <1>1, <1>3, <1>4, <2>1
       DEF StopInv, OwnerInv, RegisterOrder, StopOrder, Stopped, RunsAwaited, Ended
<1> QED
  BY <1>5, <1>6, <1>7, <1>8, <1>9 DEF Inv

LEMMA Inductive == Inv /\ [Next]_vars => Inv'
<1> SUFFICES ASSUME Inv, [Next]_vars PROVE Inv'
  OBVIOUS
<1>1. CASE Next
  <2>1. Typed' /\ RecheckInv'
    BY <1>1, TypeStep DEF Inv, DeadlineInv
  <2>2. RunInv'
    BY <1>1, RunStep DEF Inv
  <2>3. (DeadlinesOnHeap /\ FixedOnGrid)'
    BY <1>1, TableStep DEF Inv, DeadlineInv, TableInv
  <2>4. SentOnGrid'
    BY <1>1, SentOnGridStep DEF Inv, DeadlineInv
  <2>5. ReplyInv'
    BY <1>1, ReplyStep DEF Inv
  <2>6. StopInv'
    BY <1>1, StopStep DEF Inv, ReplyInv
  <2> QED
    BY <2>1, <2>2, <2>3, <2>4, <2>5, <2>6 DEF Inv, DeadlineInv
<1>2. CASE UNCHANGED vars
  <2>1. UNCHANGED <<now, offset, owner, control, triggers, registered, nextRun, running,
                    nextRunId, heap, recheckAt, job, aborted, replyOf, request>>
    BY <1>2 DEF vars, clockVars, tableVars, jobVars
  <2>2. Typed'
    BY <2>1 DEF Inv, Typed, TypeOK, ChannelTypes
  <2>3. RunInv'
    BY <2>1 DEF Inv, RunInv, Ended
  <2>4. DeadlineInv'
    BY <2>1 DEF Inv, DeadlineInv, DeadlinesOnHeap, FixedOnGrid, RecheckInv, CronRechecked,
                SentOnGrid
  <2>5. ReplyInv'
    BY <2>1 DEF Inv, ReplyInv, ChannelInv, SenderInv, StartedInv, KindInv, StopSent, Stops
  <2>6. StopInv'
    BY <2>1 DEF Inv, StopInv, OwnerInv, RegisterOrder, StopOrder, Stopped, RunsAwaited,
                Awaited, Stopper, Stops, Registers, Ended
  <2> QED
    BY <2>2, <2>3, <2>4, <2>5, <2>6 DEF Inv
<1> QED
  BY <1>1, <1>2

LEMMA Invariant == Spec => []Inv
BY Initially, Inductive, PTL DEF Spec

(***************************************************************************)
(* Runs of one task never overlap: the only unfinished run of a task is    *)
(* the one whose handle the scheduler holds.                               *)
(***************************************************************************)
THEOREM RunsNeverOverlap == Spec => []OneRunAtATime
<1>1. Inv => OneRunAtATime
  BY JobFacts DEF Inv, RunInv, OneRunAtATime
<1> QED
  BY <1>1, Invariant, PTL

(***************************************************************************)
(* The table of deadlines stays right: every deadline is on the heap, the  *)
(* fixed tasks keep to their grid, and cron deadlines are re-checked.      *)
(***************************************************************************)
THEOREM DeadlinesAreKept == Spec => []DeadlinesKept
<1>1. Inv => DeadlinesKept
  BY DEF Inv, Typed, DeadlineInv, RecheckInv, DeadlinesKept
<1> QED
  BY <1>1, Invariant, PTL

(***************************************************************************)
(* A trigger that is reported as started did start a run, which is nobody  *)
(* else's and whose factory has returned.                                  *)
(***************************************************************************)
THEOREM StartedIsNoLie == Spec => []StartedIsTrue
<1>1. Inv => StartedIsTrue
  BY DEF Inv, ReplyInv, StartedInv, StartedIsTrue
<1> QED
  BY <1>1, Invariant, PTL

(***************************************************************************)
(* Once a stop is acknowledged, no run of its task is left and none will   *)
(* start again.                                                            *)
(***************************************************************************)
THEOREM StoppedStaysStopped == Spec => []StopIsFinal
<1>1. ASSUME Inv PROVE StopIsFinal
  <2> SUFFICES ASSUME NEW q \in Requests, request[q].status = "acked",
                      NEW t \in request[q].tasks, Stoppers(t) = {q}, owner[t] # "released",
                      NEW r \in RunIds, ~Ended(<<t, r>>)
               PROVE  FALSE
    BY DEF StopIsFinal
  <2>1. t \in Tasks /\ <<t, r>> \in Jobs
    BY <1>1, RequestFacts DEF Inv, Typed, Jobs
  <2>2. \A p \in Requests : Stopper(p, t) <=> p = q
    BY DEF Stopper, Stoppers
  <2>3. t \notin registered
    BY <1>1, <2>1, <2>2 DEF Inv, StopInv, Stopped
  <2>4. Awaited(<<t, r>>)
    BY <1>1, <2>1, <2>3 DEF Inv, StopInv, RunsAwaited
  <2> QED
    BY <2>2, <2>4 DEF Awaited
<1> QED
  BY <1>1, Invariant, PTL

(***************************************************************************)
(* The timer does not run a cron task before its wall-clock time.          *)
(***************************************************************************)
THEOREM CronIsNeverEarly == Spec => CronNotEarly
<1>1. ASSUME Inv, [Next]_vars, NEW t \in CronTasks, nextRun[t] # None, t \in registered,
             nextRunId'[t] > nextRunId[t], triggers' = triggers
      PROVE  nextRun[t].unix <= wall
  <2>1. TypeOK /\ t \in Tasks /\ nextRunId[t] \in Nat
    BY <1>1, TimeAssumption DEF Inv, Typed, TypeOK, Tasks, RunIds
  <2>2. ~(nextRunId[t] > nextRunId[t]) /\ nextRunId' # nextRunId
    BY <1>1, <2>1
  <2>3. CASE Wakeup
    <3>1. PICK h : RunDue(Refreshed, h)
      BY <2>1, <2>3, WakeupFacts
    <3>2. nextRunId' = [u \in Tasks |->
                 IF Starts(Refreshed, h, u) THEN nextRunId[u] + 1 ELSE nextRunId[u]]
      BY <2>1, <3>1, RunDueFacts
    <3>3. Refreshed[t].instant <= now
      BY <2>1, <2>2, <1>1, <3>2 DEF Starts, Due
    <3>4. recheckAt # None
      BY <1>1 DEF Inv, DeadlineInv, RecheckInv, CronRechecked
    <3> QED
      BY <1>1, <2>1, <3>3, <3>4, RefreshedFacts
  <2>4. ASSUME NEW q \in Requests, NEW u \in Tasks, TriggerStarts(q, u) PROVE FALSE
    <3>1. triggers \in Seq(Requests) /\ triggers # <<>> /\ triggers' = Tail(triggers)
      BY <1>1, <2>4 DEF Inv, Typed, ChannelTypes, TriggerStarts, TriggerArm
    <3>2. Len(triggers') = Len(triggers) - 1 /\ Len(triggers) \in Nat
      BY <3>1, SeqFacts
    <3> QED
      BY <1>1, <3>2
  <2>5. ASSUME NEW q \in Requests, NEW u \in Tasks,
               Trigger(q, u) \/ Stop(q, u) \/ TriggerUnavailable(q, u) \/ TriggerOverlaps(q, u)
        PROVE  UNCHANGED nextRunId
    BY <2>5 DEF Trigger, Stop, TriggerUnavailable, TriggerOverlaps, tableVars
  <2>6. ASSUME NEW u \in Tasks, Register(u) \/ StopDetached(u) PROVE UNCHANGED nextRunId
    BY <2>6 DEF Register, StopDetached, tableVars
  <2>7. ASSUME NEW q \in Requests, StopAll(q) \/ Acknowledge(q) PROVE UNCHANGED nextRunId
    BY <2>7 DEF StopAll, Acknowledge, tableVars
  <2>8. ASSUME NEW j \in Jobs, JobStep(j) PROVE UNCHANGED nextRunId
    BY <2>8 DEF JobStep, JobPoll, JobBuilt, JobEnd, JobCancelled, tableVars
  <2>9. Tick \/ WallJump \/ HandleCommand \/ UNCHANGED vars => UNCHANGED nextRunId
    BY DEF Tick, WallJump, HandleCommand, HandleRegister, HandleRemove, HandleDetached,
           HandleStopAll, RemoveTasks, vars, tableVars
  <2> QED
    BY <1>1, <2>2, <2>3, <2>4, <2>5, <2>6, <2>7, <2>8, <2>9
       DEF Next, Scheduler, HandleTrigger
<1>2. Inv /\ [Next]_vars => [\A t \in CronTasks :
        (nextRun[t] # None /\ t \in registered /\ t \in registered'
            /\ nextRunId'[t] > nextRunId[t] /\ triggers' = triggers)
        => nextRun[t].unix <= wall]_vars
  BY <1>1
<1> QED
  BY <1>2, Invariant, PTL DEF Spec, CronNotEarly

=============================================================================
