----------------------------- MODULE TaskCenter -----------------------------
(***************************************************************************)
(* The process-wide scheduler of periodic, calendar and manual jobs        *)
(* (src/src/infra/task.rs).                                                *)
(*                                                                         *)
(* Owners register tasks and hold handles; requests (manual triggers,      *)
(* stops, stop_all) travel to the scheduler over two channels.  One        *)
(* scheduler task serves commands, wake-ups and triggers, in that order of *)
(* preference.  Every run of a task is a tokio task of its own, which the  *)
(* scheduler knows by its join handle, and every stop that must wait for a *)
(* run is yet another.                                                     *)
(*                                                                         *)
(* There are two clocks: the monotonic one drives timers and fixed         *)
(* intervals, the wall clock, which may jump, drives cron schedules.       *)
(***************************************************************************)
EXTENDS Integers, Sequences, FiniteSets

CONSTANTS
    FixedTasks,   \* tasks with a fixed interval
    CronTasks,    \* tasks with a cron schedule
    Requests,     \* the calls of trigger, stop and stop_all
    None,         \* no deadline, no request
    Capacity,     \* MANUAL_TRIGGER_CAPACITY
    Interval,     \* the interval of the fixed tasks
    Period,       \* cron schedules fire at the multiples of Period
    CronEnd,      \* ... up to here: find_next fails beyond it
    Recheck,      \* CRON_WALL_CLOCK_RECHECK_INTERVAL
    Offsets,      \* how far the wall clock may be ahead of the monotonic one
    RunIdEnd,     \* u64::MAX: the last run id, which is never handed out
    MaxTime,      \* bound: the clock stops here
    LastRegister  \* bound: no task is registered later than this

Tasks == FixedTasks \cup CronTasks
RunIds == 1 .. RunIdEnd
Jobs == Tasks \X RunIds

ASSUME TaskAssumption ==
    /\ FixedTasks \cap CronTasks = {}
    /\ None \notin Requests
    /\ None \notin [instant : Nat, unix : Nat]
    /\ None \notin Nat
ASSUME TimeAssumption ==
    /\ Interval \in Nat \ {0} /\ Period \in Nat \ {0}
    /\ Recheck \in Nat \ {0}
    /\ CronEnd \in Nat /\ MaxTime \in Nat /\ LastRegister \in Nat
    /\ Capacity \in Nat
    /\ RunIdEnd \in Nat \ {0}
    /\ Offsets \subseteq Nat

VARIABLES
    now,         \* the monotonic clock
    offset,      \* the wall clock is now + offset
    owner,       \* per task: "new" or "handed" (its owner holds the handle)
    control,     \* the unbounded control channel
    triggers,    \* the bounded trigger channel
    registered,  \* the keys of `tasks`
    nextRun,     \* per task: its next deadline
    running,     \* per task: the run whose handle it holds, 0 if none
    nextRunId,   \* per task: the id of its next run
    heap,        \* deadlines: pairs of an instant and a task
    recheckAt,   \* cron_recheck_at
    job,         \* per run: where its tokio task stands
    aborted,     \* the runs whose handle was aborted
    replyOf,     \* per run: the trigger that waits for it, or None
    request      \* per request: its kind, tasks, status and awaited runs

clockVars == <<now, offset>>
tableVars == <<registered, nextRun, running, nextRunId, heap, recheckAt>>
jobVars   == <<job, aborted, replyOf>>
vars == <<clockVars, owner, control, triggers, tableVars, jobVars, request>>

wall == now + offset
At(instant, unix) == [instant |-> instant, unix |-> unix]
Deadlines == [instant : Nat, unix : Nat]
Unused == [kind |-> "none", tasks |-> {}, status |-> "unused",
           run |-> 0, waits |-> {}]
Ended(j) == job[j] \in {"none", "ended"}

Init ==
    /\ now = 0 /\ offset \in Offsets
    /\ owner = [t \in Tasks |-> "new"]
    /\ control = <<>> /\ triggers = <<>>
    /\ registered = {}
    /\ nextRun = [t \in Tasks |-> None]
    /\ running = [t \in Tasks |-> 0]
    /\ nextRunId = [t \in Tasks |-> 1]
    /\ heap = {} /\ recheckAt = None
    /\ job = [j \in Jobs |-> "none"]
    /\ aborted = {}
    /\ replyOf = [j \in Jobs |-> None]
    /\ request = [q \in Requests |-> Unused]
-----------------------------------------------------------------------------
(***************************************************************************)
(* Schedules.                                                              *)
(***************************************************************************)
\* FixedInterval: the first point of the grid after now; missed ones are
\* skipped.
FixedAfter(previous) ==
    LET elapsed == IF now < previous.instant THEN 0 ELSE now - previous.instant
        steps == elapsed \div Interval + 1
    IN  At(now + (Interval - (elapsed % Interval)),
           previous.unix + Interval * steps)

\* Cron: the first calendar point after the wall clock.
CronAfter(previous) ==
    LET unix == (wall \div Period + 1) * Period
    IN  IF unix > CronEnd THEN None ELSE At(now + (unix - wall), unix)

\* compute_next_deadline; an error pauses the task, as None does.
NextAfter(t, previous) ==
    IF t \in CronTasks THEN CronAfter(previous) ELSE FixedAfter(previous)

\* Mutant: the deadline keeps the instant it had before the clock jumped.
ReanchorNot(deadline) == deadline

Reanchored(deadline) ==
    At(IF deadline.unix <= wall THEN now ELSE now + (deadline.unix - wall),
       deadline.unix)

\* refresh_cron_deadlines, on every wake-up while a cron task is active.
Refreshed ==
    [t \in Tasks |->
        IF t \in registered \cap CronTasks /\ nextRun[t] # None
                /\ recheckAt # None
        THEN Reanchored(nextRun[t]) ELSE nextRun[t]]

\* rebuild_deadline_heap.
Rebuilt(members, next) ==
    {<<next[t].instant, t>> : t \in {u \in members : next[u] # None}}
-----------------------------------------------------------------------------
(***************************************************************************)
(* Owners.  A command is sent before the caller waits for its answer.      *)
(***************************************************************************)
Send(command) == control' = Append(control, command)

\* spawn_inner: the first deadline is computed by the caller; a schedule that
\* has none is refused.
Register(t) ==
    /\ owner[t] = "new" /\ now <= LastRegister
    /\ LET first == NextAfter(t, At(now, IF t \in CronTasks THEN wall ELSE now))
       IN  /\ first # None
           /\ Send([kind |-> "register", task |-> t, next |-> first])
    /\ owner' = [owner EXCEPT ![t] = "handed"]
    /\ UNCHANGED <<clockVars, triggers, tableVars, jobVars, request>>

\* ManagedTaskHandle::trigger: try_send, then wait for the reply.
Trigger(q, t) ==
    /\ request[q].status = "unused" /\ owner[t] = "handed"
    /\ LET full == Len(triggers) = Capacity
       IN  /\ triggers' = IF full THEN triggers ELSE Append(triggers, q)
           /\ request' = [request EXCEPT ![q] =
                [Unused EXCEPT !.kind = "trigger", !.tasks = {t},
                    !.status = IF full THEN "unavailable" ELSE "pending"]]
    /\ UNCHANGED <<clockVars, owner, control, tableVars, jobVars>>

\* ManagedTaskHandle::stop.
Stop(q, t) ==
    /\ request[q].status = "unused" /\ owner[t] = "handed"
    /\ Send([kind |-> "remove", task |-> t, ack |-> q])
    /\ request' = [request EXCEPT ![q] =
            [Unused EXCEPT !.kind = "stop", !.tasks = {t}, !.status = "pending"]]
    /\ UNCHANGED <<clockVars, owner, triggers, tableVars, jobVars>>

\* TaskCenter::stop_all; it covers the tasks registered so far.
StopAll(q) ==
    /\ request[q].status = "unused"
    /\ Send([kind |-> "stopAll", ack |-> q])
    /\ request' = [request EXCEPT ![q] =
            [Unused EXCEPT !.kind = "stopAll", !.status = "pending",
                           !.tasks = {t \in Tasks : owner[t] # "new"}]]
    /\ UNCHANGED <<clockVars, owner, triggers, tableVars, jobVars>>

\* ManagedTaskHandle::stop_detached, which waits for nothing; the owner then
\* lets go of the handle.
StopDetached(t) ==
    /\ owner[t] = "handed"
    /\ Send([kind |-> "detached", task |-> t])
    /\ owner' = [owner EXCEPT ![t] = "released"]
    /\ UNCHANGED <<clockVars, triggers, tableVars, jobVars, request>>

Tick ==
    /\ now < MaxTime
    /\ now' = now + 1
    /\ UNCHANGED <<offset, owner, control, triggers, tableVars, jobVars, request>>

WallJump ==
    /\ offset' \in Offsets \ {offset}
    /\ UNCHANGED <<now, owner, control, triggers, tableVars, jobVars, request>>
-----------------------------------------------------------------------------
(***************************************************************************)
(* The scheduler.  The head of the loop, which runs after each arm of the  *)
(* select!, keeps a re-check pending while a cron task is active.          *)
(***************************************************************************)
LoopHead(recheck) ==
    recheckAt' =
        IF \E t \in registered' \cap CronTasks : nextRun'[t] # None
        THEN IF recheck = None THEN now + Recheck ELSE recheck
        ELSE None

\* next_deadline: heap entries that no longer name a task's deadline are
\* dropped when they reach the top.
Valid(t) == nextRun[t] # None /\ <<nextRun[t].instant, t>> \in heap
WakeupDue ==
    \/ recheckAt # None /\ recheckAt <= now
    \/ \E t \in registered : Valid(t) /\ nextRun[t].instant <= now

Settle(q, status) == request' = [request EXCEPT ![q].status = status]

HandleRegister ==
    /\ control # <<>> /\ Head(control).kind = "register"
    /\ LET c == Head(control)
       IN  /\ registered' = registered \cup {c.task}
           /\ nextRun' = [nextRun EXCEPT ![c.task] = c.next]
           /\ heap' = heap \cup {<<c.next.instant, c.task>>}
    /\ LoopHead(recheckAt)
    /\ control' = Tail(control)
    /\ UNCHANGED <<clockVars, owner, triggers, running, nextRunId, jobVars,
                   request>>

\* The runs a removal of the tasks `gone` has to abort.
Handles(gone) == {<<t, running[t]>> : t \in {u \in gone : running[u] # 0}}

Forget(gone) == [t \in Tasks |-> IF t \in gone THEN None ELSE nextRun[t]]

\* The part that Remove, RemoveDetached and StopAll share: the tasks leave the
\* table, their runs are aborted, and the heap keeps the others' deadlines.
RemoveTasks(gone) ==
    /\ registered' = registered \ gone
    /\ aborted' = aborted \cup {j \in Handles(gone) : ~Ended(j)}
    /\ nextRun' = Forget(gone)
    /\ heap' = Rebuilt(registered', nextRun)
    /\ control' = Tail(control)
    /\ UNCHANGED <<clockVars, owner, triggers, running, nextRunId, job, replyOf>>
    /\ LoopHead(recheckAt)

\* Mutant: the acknowledgement does not wait for the aborted run.
AwaitNothing(q, gone) ==
    request' = [request EXCEPT ![q].status = "acked"]

\* stop_handle_with_ack and stop_handles_with_ack: a task of their own waits
\* for the runs; without any the acknowledgement is sent at once.
AwaitRuns(q, gone) ==
    request' = [request EXCEPT
        ![q].status = IF Handles(gone) = {} THEN "acked" ELSE "stopping",
        ![q].waits = Handles(gone)]

HandleRemove ==
    /\ control # <<>> /\ Head(control).kind = "remove"
    /\ LET gone == {Head(control).task} \cap registered
       IN  AwaitRuns(Head(control).ack, gone) /\ RemoveTasks(gone)

HandleDetached ==
    /\ control # <<>> /\ Head(control).kind = "detached"
    /\ RemoveTasks({Head(control).task} \cap registered)
    /\ UNCHANGED request

HandleStopAll ==
    /\ control # <<>> /\ Head(control).kind = "stopAll"
    /\ AwaitRuns(Head(control).ack, registered) /\ RemoveTasks(registered)

HandleCommand ==
    HandleRegister \/ HandleRemove \/ HandleDetached \/ HandleStopAll

\* Mutant: run_due_tasks does not look at the run still going on.
FreeAlways(t) == TRUE

\* No run of t is left: the handle of a finished one is taken out first.
Free(t) == running[t] # 0 => Ended(<<t, running[t]>>)

\* take_run_context: checked_add keeps the last id back.
HasRunId(t) == nextRunId[t] < RunIdEnd

\* Mutant: the new deadlines are not pushed on the heap.
AdvancedUnpushed(h, due, after) == {e \in h : e[1] > now}

\* The heap once the due tasks were popped and their next deadlines pushed.
Advanced(h, due, after) ==
    {e \in h : e[1] > now} \cup Rebuilt(due, after)

\* run_due_tasks over the deadlines next and the heap h: every due task gets
\* its next deadline, and a run unless one is going on; a task whose run ids
\* are used up is paused.
RunDue(next, h) ==
    LET due == {t \in registered : next[t] # None /\ next[t].instant <= now
                                   /\ <<next[t].instant, t>> \in h}
        after == [t \in due |-> NextAfter(t, next[t])]
        starts == {t \in due : Free(t) /\ HasRunId(t)}
        paused == {t \in due : Free(t) /\ ~HasRunId(t)}
    IN  /\ nextRun' = [t \in Tasks |->
                IF t \in paused THEN None
                ELSE IF t \in due THEN after[t] ELSE next[t]]
        /\ heap' = Advanced(h, due, after)
        /\ running' = [t \in Tasks |->
                IF t \in starts THEN nextRunId[t]
                ELSE IF t \in paused THEN 0 ELSE running[t]]
        /\ nextRunId' = [t \in Tasks |->
                IF t \in starts THEN nextRunId[t] + 1 ELSE nextRunId[t]]
        /\ job' = [j \in Jobs |->
                IF j[1] \in starts /\ j[2] = nextRunId[j[1]]
                THEN "spawned" ELSE job[j]]

Wakeup ==
    /\ control = <<>> /\ WakeupDue
    /\ RunDue(Refreshed, IF recheckAt = None THEN heap
                         ELSE Rebuilt(registered, Refreshed))
    /\ UNCHANGED <<clockVars, owner, control, triggers, registered, aborted,
                   replyOf, request>>
    /\ LoopHead(IF recheckAt = None THEN None ELSE now + Recheck)

(***************************************************************************)
(* handle_trigger, for the oldest trigger q of the task t.                 *)
(***************************************************************************)
TriggerArm(q, t) ==
    /\ control = <<>> /\ ~WakeupDue /\ triggers # <<>>
    /\ q = Head(triggers) /\ request[q].tasks = {t}
    /\ triggers' = Tail(triggers)
    /\ UNCHANGED <<clockVars, owner, control, registered, nextRun, heap, aborted>>
    /\ LoopHead(recheckAt)

\* The task is gone, or has used up its run ids.
TriggerUnavailable(q, t) ==
    /\ TriggerArm(q, t)
    /\ t \in registered => Free(t) /\ ~HasRunId(t)
    /\ Settle(q, "unavailable")
    /\ running' = [running EXCEPT ![t] = IF t \in registered THEN 0 ELSE @]
    /\ UNCHANGED <<nextRunId, job, replyOf>>

TriggerOverlaps(q, t) ==
    /\ TriggerArm(q, t)
    /\ t \in registered /\ ~Free(t)
    /\ Settle(q, "alreadyRunning")
    /\ UNCHANGED <<running, nextRunId, job, replyOf>>

TriggerStarts(q, t) ==
    /\ TriggerArm(q, t)
    /\ t \in registered /\ Free(t) /\ HasRunId(t)
    /\ running' = [running EXCEPT ![t] = nextRunId[t]]
    /\ nextRunId' = [nextRunId EXCEPT ![t] = @ + 1]
    /\ job' = [job EXCEPT ![<<t, nextRunId[t]>>] = "spawned"]
    /\ replyOf' = [replyOf EXCEPT ![<<t, nextRunId[t]>>] = q]
    /\ UNCHANGED request

HandleTrigger ==
    \E q \in Requests, t \in Tasks :
        \/ TriggerUnavailable(q, t)
        \/ TriggerOverlaps(q, t)
        \/ TriggerStarts(q, t)

Scheduler == HandleCommand \/ Wakeup \/ HandleTrigger
-----------------------------------------------------------------------------
(***************************************************************************)
(* Runs (spawn_task_future) and the tasks that wait for aborted ones.  An  *)
(* abort takes effect when the run next yields; a run that was not polled  *)
(* yet never starts.                                                       *)
(***************************************************************************)
Become(j, state) ==
    /\ job' = [job EXCEPT ![j] = state]
    /\ aborted' = IF state = "ended" THEN aborted \ {j} ELSE aborted

\* The reply of run j's trigger, if there is one.
Reply(j, status, run) ==
    /\ request' = IF replyOf[j] = None THEN request
                  ELSE [request EXCEPT ![replyOf[j]].status = status,
                                       ![replyOf[j]].run = run]
    /\ replyOf' = [replyOf EXCEPT ![j] = None]

\* Mutant: the reply is sent before the factory has returned.
JobPollReplying(j) ==
    /\ job[j] = "spawned" /\ j \notin aborted
    /\ Become(j, "building")
    /\ Reply(j, "started", j[2])
    /\ UNCHANGED <<clockVars, owner, control, triggers, tableVars>>

JobPoll(j) ==
    /\ job[j] = "spawned" /\ j \notin aborted
    /\ Become(j, "building")
    /\ UNCHANGED <<clockVars, owner, control, triggers, tableVars, replyOf,
                   request>>

\* The task's factory returns a future, or panics.
JobBuilt(j) ==
    /\ job[j] = "building"
    /\ \/ Become(j, "live") /\ Reply(j, "started", j[2])
       \/ Become(j, "ended") /\ Reply(j, "unavailable", 0)
    /\ UNCHANGED <<clockVars, owner, control, triggers, tableVars>>

\* The future completes or panics.
JobEnd(j) ==
    /\ job[j] = "live"
    /\ Become(j, "ended")
    /\ UNCHANGED <<clockVars, owner, control, triggers, tableVars, replyOf,
                   request>>

\* A cancelled run drops its reply sender: the caller reads Unavailable.
JobCancelled(j) ==
    /\ job[j] \in {"spawned", "live"} /\ j \in aborted
    /\ Become(j, "ended")
    /\ Reply(j, "unavailable", 0)
    /\ UNCHANGED <<clockVars, owner, control, triggers, tableVars>>

Acknowledge(q) ==
    /\ request[q].status = "stopping"
    /\ \A j \in request[q].waits : Ended(j)
    /\ request' = [request EXCEPT ![q].status = "acked", ![q].waits = {}]
    /\ UNCHANGED <<clockVars, owner, control, triggers, tableVars, jobVars>>

JobStep(j) == JobPoll(j) \/ JobBuilt(j) \/ JobEnd(j) \/ JobCancelled(j)

Next ==
    \/ \E t \in Tasks : Register(t) \/ StopDetached(t)
    \/ \E q \in Requests, t \in Tasks : Trigger(q, t) \/ Stop(q, t)
    \/ \E q \in Requests : StopAll(q) \/ Acknowledge(q)
    \/ Tick \/ WallJump
    \/ Scheduler
    \/ \E j \in Jobs : JobStep(j)

Spec == Init /\ [][Next]_vars
-----------------------------------------------------------------------------
(***************************************************************************)
(* Properties.                                                             *)
(***************************************************************************)
JobStates == {"none", "spawned", "building", "live", "ended"}
Statuses == {"unused", "pending", "unavailable", "alreadyRunning", "started",
             "stopping", "acked"}

\* Every variable keeps its type.
TypeOK ==
    /\ now \in Nat /\ offset \in Offsets
    /\ owner \in [Tasks -> {"new", "handed", "released"}]
    /\ registered \subseteq Tasks
    /\ nextRun \in [Tasks -> Deadlines \cup {None}]
    /\ running \in [Tasks -> 0 .. RunIdEnd]
    /\ nextRunId \in [Tasks -> RunIds]
    /\ heap \subseteq Nat \X Tasks
    /\ recheckAt \in Nat \cup {None}
    /\ job \in [Jobs -> JobStates]
    /\ aborted \subseteq Jobs
    /\ replyOf \in [Jobs -> Requests \cup {None}]
    /\ request \in [Requests -> [kind : {"none", "trigger", "stop", "stopAll"},
                                 tasks : SUBSET Tasks, status : Statuses,
                                 run : 0 .. RunIdEnd, waits : SUBSET Jobs]]

(***************************************************************************)
(* Runs of one task never overlap, whether the timer, a manual trigger, a  *)
(* cron jump or a stop brought them about: tasks such as the cache's dump  *)
(* or a recorder's cleanup are written for one run at a time.              *)
(***************************************************************************)
OneRunAtATime ==
    \A i, j \in Jobs : i[1] = j[1] /\ ~Ended(i) /\ ~Ended(j) => i = j

(***************************************************************************)
(* When a stop or stop_all is acknowledged and nobody else stops the task, *)
(* no run of the task exists, nor does one appear later: owners free what  *)
(* the task uses as soon as stop returns.                                  *)
(***************************************************************************)
Stoppers(t) == {q \in Requests : request[q].kind \in {"stop", "stopAll"}
                                 /\ t \in request[q].tasks}
StopIsFinal ==
    \A q \in Requests : request[q].status = "acked" =>
        \A t \in request[q].tasks :
            Stoppers(t) = {q} /\ owner[t] # "released" =>
                \A r \in RunIds : Ended(<<t, r>>)

(***************************************************************************)
(* A task that is to run again is on the heap under its deadline: heap     *)
(* entries that do not match are dropped, so a task missing there would    *)
(* silently never run again.                                               *)
(***************************************************************************)
DeadlinesOnHeap ==
    \A t \in registered : nextRun[t] # None =>
        <<nextRun[t].instant, t>> \in heap

(***************************************************************************)
(* A fixed task keeps its grid however late a wake-up is, and the unix     *)
(* time it is given for a run is that of the instant it was due.           *)
(***************************************************************************)
FixedOnGrid ==
    \A t \in registered \cap FixedTasks : nextRun[t] # None =>
        nextRun[t].unix = nextRun[t].instant

(***************************************************************************)
(* A caller told that its trigger started run r: the run is the caller's   *)
(* own and its factory has returned ("task-owned guards exist before       *)
(* `Started` is sent").                                                    *)
(***************************************************************************)
StartedIsTrue ==
    \A q \in Requests : request[q].status = "started" =>
        /\ \A t \in request[q].tasks : job[<<t, request[q].run>>] \in {"live", "ended"}
        /\ \A p \in Requests : request[p].status = "started"
                /\ request[p].tasks = request[q].tasks
                /\ request[p].run = request[q].run => p = q

(***************************************************************************)
(* A cron task is not run by its timer before its wall-clock time, even    *)
(* when the clock was set back while the timer was running.                *)
(***************************************************************************)
CronNotEarly ==
    [][\A t \in CronTasks :
        (nextRun[t] # None /\ t \in registered /\ t \in registered'
            /\ nextRunId'[t] > nextRunId[t] /\ triggers' = triggers)
        => nextRun[t].unix <= wall]_vars

(***************************************************************************)
(* While a cron task is active the wall clock is read again within the     *)
(* re-check interval, so that a clock set forward cannot postpone a run by *)
(* more.                                                                   *)
(***************************************************************************)
CronRechecked ==
    \A t \in registered \cap CronTasks : nextRun[t] # None =>
        recheckAt # None /\ recheckAt <= now + Recheck

(***************************************************************************)
(* The scheduler's table of deadlines is right whatever wakes it and however*)
(* the wall clock moves: no deadline is missing from the heap, none drifts,*)
(* and a cron deadline is looked at again in time.                         *)
(***************************************************************************)
DeadlinesKept == TypeOK /\ DeadlinesOnHeap /\ FixedOnGrid /\ CronRechecked
=============================================================================
