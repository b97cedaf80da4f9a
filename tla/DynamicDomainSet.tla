-------------------------- MODULE DynamicDomainSet --------------------------
(***************************************************************************)
(* The writable domain provider                                            *)
(* (src/src/plugin/provider/dynamic_domain_set/) with the reload control   *)
(* of providers (src/src/plugin/provider/control.rs).  Callers put         *)
(* commands into a bounded queue; one worker stages appends in memory,     *)
(* flushes them in batches to the rule file, and publishes a snapshot for  *)
(* the matchers.  A reload goes through the control, which the teardown of *)
(* the runtime drains before it destroys the provider.                     *)
(*                                                                         *)
(* A rule is a name; a line that a failed write cut short reads as Torn.   *)
(* Rules keep no order: only the listing shows it.  The names of commands  *)
(* are those of WorkerCommand.                                             *)
(***************************************************************************)
EXTENDS Naturals, Sequences

CONSTANTS
    Rules,      \* the rules that callers append
    Bad,        \* those no matcher can be built from (a broken regexp)
    Torn,       \* what a half-written line reads as
    Clients,    \* the callers that wait for an answer
    Nobody,     \* no client, no rule
    QueueSize,  \* queue_size
    BatchSize,  \* batch_size
    MaxCommands, MaxFaults, MaxStarts  \* bounds: calls; failures, crashes and
                                       \* edits; runtimes started after the first

ASSUME DynamicDomainSetAssumption ==
    /\ Bad \subseteq Rules /\ Torn \notin Rules
    /\ Nobody \notin Clients \cup Rules
    /\ QueueSize \in Nat \ {0} /\ BatchSize \in Nat \ {0}
    /\ {MaxCommands, MaxFaults, MaxStarts} \subseteq Nat

VARIABLES
    file,       \* the rules of the managed file
    known,      \* state.rules and state.known
    snapshot,   \* the published snapshot
    pending,    \* the worker's appends: [rule, wait] in order
    queue,      \* the commands of the channel, [kind, rule, wait]
    worker,     \* the worker's place
    cmd,        \* the command it executes
    next,       \* the rules that command installs
    client,     \* per client: what it waits for, or how its call ended
    accepting,  \* the control accepts reloads
    reload,     \* the reload task, which holds reload_lock while it is there
    teardown,   \* the runtime that destroys the provider
    commands, faults, starts,  \* calls, faults and starts so far
    edited,     \* ghost: the file was edited and not read since
    unsettled,  \* ghost: lines of writes that failed; each may be on file or not
    durable,    \* ghost: rules whose flush was acknowledged
    gone        \* ghost: rules whose removal was acknowledged

memory == <<known, snapshot, pending>>
control == <<accepting, reload, teardown>>
bounds == <<commands, faults, starts>>
ghosts == <<edited, unsettled, durable, gone>>
vars == <<file, memory, queue, worker, cmd, next, client, control, bounds,
          ghosts>>

Lines == Rules \cup {Torn}
Command(kind, rule, wait) == [kind |-> kind, rule |-> rule, wait |-> wait]
NoCommand == Command("none", Nobody, Nobody)
Running == worker \notin {"down", "stopped"}
PendingRules == {pending[i].rule : i \in DOMAIN pending}

\* start read an existing file without trouble.
Init ==
    /\ file \in SUBSET (Rules \ Bad)
    /\ known = file /\ snapshot = file
    /\ pending = <<>> /\ queue = <<>>
    /\ worker = "idle" /\ cmd = NoCommand /\ next = {}
    /\ client = [c \in Clients |-> "idle"]
    /\ accepting = TRUE /\ reload = "none" /\ teardown = "none"
    /\ commands = 0 /\ faults = 0 /\ starts = 0
    /\ edited = FALSE /\ unsettled = {} /\ durable = {} /\ gone = {}

\* The calls that wait as given end so; clients that gave up are not there.
Answered(waits, how) ==
    [c \in Clients |-> IF c \in waits THEN how ELSE client[c]]

Fault == faults < MaxFaults /\ faults' = faults + 1
-----------------------------------------------------------------------------
(***************************************************************************)
(* The callers.                                                            *)
(***************************************************************************)
Count == commands < MaxCommands /\ commands' = commands + 1

\* append_rules_async: try_send, whose failure is the caller's to report.
AppendAsync(r) ==
    /\ Count /\ Running /\ Len(queue) < QueueSize
    /\ queue' = Append(queue, Command("append", r, Nobody))
    /\ UNCHANGED <<file, memory, worker, cmd, next, client, control, faults,
                   starts, ghosts>>

\* append_rules_sync, remove_rules_sync and clear_sync wait for a place and an
\* answer; without a worker they fail.
Call(c, kind, r) ==
    /\ Count /\ client[c] # "waiting"
    /\ \/ /\ Running /\ Len(queue) < QueueSize
          /\ queue' = Append(queue, Command(kind, r, c))
          /\ client' = [client EXCEPT ![c] = "waiting"]
       \/ /\ ~Running
          /\ client' = [client EXCEPT ![c] = "err"] /\ UNCHANGED queue
    /\ UNCHANGED <<file, memory, worker, cmd, next, control, faults, starts,
                   ghosts>>

\* append_rules_sync times out; its command stays.
AppendTimesOut(c) ==
    /\ client[c] = "waiting"
    /\ LET Its(x) == x.wait = c IN
        /\ (\E i \in DOMAIN queue : Its(queue[i]) /\ queue[i].kind = "append")
            \/ (\E i \in DOMAIN pending : Its(pending[i]))
        /\ queue' = [i \in DOMAIN queue |->
                        IF Its(queue[i]) THEN [queue[i] EXCEPT !.wait = Nobody]
                        ELSE queue[i]]
        /\ pending' = [i \in DOMAIN pending |->
                        IF Its(pending[i])
                        THEN [pending[i] EXCEPT !.wait = Nobody] ELSE pending[i]]
    /\ client' = [client EXCEPT ![c] = "err"]
    /\ UNCHANGED <<file, known, snapshot, worker, cmd, next, control, bounds,
                   ghosts>>

(***************************************************************************)
(* ProviderRuntimeControl::reload and drain.  A caller that goes away      *)
(* leaves the task running, so callers are not told apart.                 *)
(***************************************************************************)
ReloadCheck ==
    /\ Count /\ accepting /\ reload = "none"
    /\ reload' = "locked"
    /\ UNCHANGED <<file, memory, queue, worker, cmd, next, client, accepting,
                   teardown, faults, starts, ghosts>>

\* A caller that was past the first look when drain came.
ReloadLateCheck ==
    /\ Count /\ ~accepting /\ reload = "none" /\ teardown # "none"
    /\ reload' = "locked"
    /\ UNCHANGED <<file, memory, queue, worker, cmd, next, client, accepting,
                   teardown, faults, starts, ghosts>>

\* Mutant of ReloadRecheck: the second look is dropped.
ReloadRecheckNot ==
    /\ reload = "locked"
    /\ reload' = "send"
    /\ UNCHANGED <<file, memory, queue, worker, cmd, next, client, accepting,
                   teardown, bounds, ghosts>>

ReloadRecheck ==
    /\ reload = "locked"
    /\ reload' = IF accepting THEN "send" ELSE "none"
    /\ UNCHANGED <<file, memory, queue, worker, cmd, next, client, accepting,
                   teardown, bounds, ghosts>>

\* The detached task: reload_sync.
ReloadSend ==
    /\ reload = "send"
    /\ \/ /\ Running /\ Len(queue) < QueueSize
          /\ queue' = Append(queue, Command("reload", Nobody, Nobody))
          /\ reload' = "wait"
       \/ ~Running /\ reload' = "none" /\ UNCHANGED queue
    /\ UNCHANGED <<file, memory, worker, cmd, next, client, accepting, teardown,
                   bounds, ghosts>>

\* The runtime drains the control, waits for the lock, and destroys the
\* provider: the worker is sent Shutdown and joined.
Drain ==
    /\ teardown = "none" /\ worker # "down" /\ starts < MaxStarts
    /\ teardown' = "drain" /\ accepting' = FALSE
    /\ UNCHANGED <<file, memory, queue, worker, cmd, next, client, reload,
                   bounds, ghosts>>

Drained ==
    /\ teardown = "drain" /\ reload = "none"
    /\ teardown' = "destroy"
    /\ UNCHANGED <<file, memory, queue, worker, cmd, next, client, accepting,
                   reload, bounds, ghosts>>

Destroy ==
    /\ teardown = "destroy" /\ Len(queue) < QueueSize
    /\ queue' = Append(queue, Command("shutdown", Nobody, Nobody))
    /\ teardown' = "join"
    /\ UNCHANGED <<file, memory, worker, cmd, next, client, accepting, reload,
                   bounds, ghosts>>

Joined ==
    /\ teardown = "join" /\ worker = "stopped"
    /\ worker' = "down" /\ teardown' = "none"
    /\ UNCHANGED <<file, memory, queue, cmd, next, client, accepting, reload,
                   bounds, ghosts>>
-----------------------------------------------------------------------------
(***************************************************************************)
(* The worker: appends are staged, and flushed by the tick, by a full      *)
(* batch, for a waiting caller, and before every other command.            *)
(***************************************************************************)
Take(kind) ==
    /\ worker = "idle" /\ queue # <<>> /\ Head(queue).kind = kind
    /\ queue' = Tail(queue)

Stage ==
    /\ Take("append")
    /\ LET c == Head(queue) IN
        IF c.rule \in known
        THEN /\ client' = Answered({c.wait}, "ok")
             /\ UNCHANGED <<known, pending, worker, gone>>
        ELSE /\ known' = known \cup {c.rule}
             /\ pending' = Append(pending, [rule |-> c.rule, wait |-> c.wait])
             /\ worker' = IF c.wait # Nobody \/ Len(pending') >= BatchSize
                          THEN "flush" ELSE "idle"
             /\ gone' = gone \ {c.rule}
             /\ UNCHANGED client
    /\ UNCHANGED <<file, snapshot, cmd, next, control, bounds, edited, unsettled,
                   durable>>

Tick ==
    /\ worker = "idle" /\ pending # <<>>
    /\ worker' = "flush"
    /\ UNCHANGED <<file, memory, queue, cmd, next, client, control, bounds,
                   ghosts>>

\* Mutant of TakeOther: what is pending is not flushed first.
TakeOtherAtOnce ==
    /\ \E kind \in {"remove", "clear", "reload", "shutdown"} : Take(kind)
    /\ cmd' = Head(queue) /\ worker' = "execute"
    /\ UNCHANGED <<file, memory, next, client, control, bounds, ghosts>>

TakeOther ==
    /\ \E kind \in {"remove", "clear", "reload", "shutdown"} : Take(kind)
    /\ cmd' = Head(queue)
    /\ worker' = IF pending = <<>> THEN "execute" ELSE "flush"
    /\ UNCHANGED <<file, memory, next, client, control, bounds, ghosts>>

AfterFlush == IF cmd = NoCommand THEN "idle" ELSE "execute"

\* Mutant of FlushBroken: the file is written before the matcher is built.
FlushBrokenAfterAppend ==
    /\ worker = "flush" /\ known \cap Bad # {}
    /\ file' = file \cup PendingRules
    /\ worker' = "rollback"
    /\ UNCHANGED <<memory, queue, cmd, next, client, control, bounds, ghosts>>

\* The blocking task of flush_appends: the matcher of all staged rules is
\* built first, then the new ones are appended to the file, which may stop
\* anywhere, in the middle of a line too; or all is written, and then the lock
\* of the file is not given back.
FlushWritten ==
    /\ worker = "flush" /\ known \cap Bad = {}
    /\ file' = file \cup PendingRules
    /\ worker' = "publish"
    /\ UNCHANGED <<memory, queue, cmd, next, client, control, bounds, ghosts>>

FlushBroken ==
    /\ worker = "flush"
    /\ \/ known \cap Bad # {} /\ UNCHANGED <<file, faults, unsettled>>
       \/ /\ known \cap Bad = {} /\ Fault
          /\ \E n \in 0 .. Len(pending) :
                \E cut \in {{}, {Torn}} :
                    /\ file' = file \cup {pending[i].rule : i \in 1 .. n} \cup cut
                    /\ unsettled' = unsettled \cup PendingRules \cup cut
    /\ worker' = "rollback"
    /\ UNCHANGED <<memory, queue, cmd, next, client, control, commands, starts,
                   edited, durable, gone>>

Waiters == {pending[i].wait : i \in DOMAIN pending}

Publish ==
    /\ worker = "publish"
    /\ snapshot' = known /\ pending' = <<>>
    /\ client' = Answered(Waiters, "ok")
    /\ durable' = IF edited THEN durable ELSE durable \cup PendingRules
    /\ unsettled' = unsettled \ PendingRules
    /\ worker' = AfterFlush
    /\ UNCHANGED <<file, known, queue, cmd, next, control, bounds, edited, gone>>

\* Mutant of Rollback: the batch is kept for another try.
RollbackKeeping ==
    /\ worker = "rollback"
    /\ worker' = "flush"
    /\ UNCHANGED <<file, memory, queue, cmd, next, client, control, bounds,
                   ghosts>>

Rollback ==
    /\ worker = "rollback"
    /\ known' = known \ PendingRules /\ pending' = <<>>
    /\ client' = Answered(Waiters, "err")
    /\ worker' = AfterFlush
    /\ UNCHANGED <<file, snapshot, queue, cmd, next, control, bounds, ghosts>>

\* The command is over, and its caller answered.
Finish(how) ==
    /\ client' = Answered({cmd.wait}, how)
    /\ reload' = IF cmd.kind = "reload" THEN "none" ELSE reload
    /\ cmd' = NoCommand

\* remove of rules that are not there.
RemoveNothing ==
    /\ worker = "execute" /\ cmd.kind = "remove" /\ cmd.rule \notin known
    /\ Finish("ok") /\ worker' = "idle"
    /\ UNCHANGED <<file, memory, queue, next, accepting, teardown, bounds, ghosts>>

\* What remove and clear leave, or what reload reads.
Outcome == CASE cmd.kind = "remove" -> known \ {cmd.rule}
             [] cmd.kind = "clear" -> {}
             [] cmd.kind = "reload" -> file

Mutation ==
    /\ worker = "execute"
    /\ \/ cmd.kind = "remove" /\ cmd.rule \in known
       \/ cmd.kind = "clear"
       \/ cmd.kind = "reload"

\* rewrite_rule_file replaces the file by renaming a new one over it; reload
\* reads it.
Execute ==
    /\ Mutation /\ Outcome \cap Bad = {}
    /\ next' = Outcome /\ file' = Outcome
    /\ worker' = "install"
    /\ edited' = FALSE /\ unsettled' = {}
    /\ durable' = IF cmd.kind = "reload" THEN durable ELSE durable \cap Outcome
    /\ UNCHANGED <<memory, queue, cmd, client, control, bounds, gone>>

\* Nothing is written: the rules do not build, or the read or the rewrite
\* fails before the rename.
ExecuteFails ==
    /\ Mutation
    /\ IF Outcome \cap Bad = {} THEN Fault ELSE UNCHANGED faults
    /\ Finish("err") /\ worker' = "idle"
    /\ UNCHANGED <<file, memory, queue, next, accepting, teardown, commands,
                   starts, ghosts>>

\* with_rule_file_lock: the new file is in place, but the lock is not given
\* back; memory keeps what the file has lost.
ExecuteFailsLate ==
    /\ Mutation /\ cmd.kind # "reload" /\ Outcome \cap Bad = {} /\ Fault
    /\ file' = Outcome
    /\ edited' = FALSE /\ unsettled' = known \ Outcome
    /\ durable' = durable \cap Outcome
    /\ Finish("err") /\ worker' = "idle"
    /\ UNCHANGED <<memory, queue, next, accepting, teardown, commands, starts,
                   gone>>

Install ==
    /\ worker = "install"
    /\ known' = next /\ snapshot' = next /\ next' = {}
    /\ gone' = IF cmd.kind = "remove" /\ ~edited
               THEN gone \cup {cmd.rule} ELSE gone \ next
    /\ Finish("ok") /\ worker' = "idle"
    /\ UNCHANGED <<file, pending, queue, accepting, teardown, bounds, edited,
                   unsettled, durable>>

\* The receiver is dropped with the commands behind Shutdown, whose callers
\* find their answer dropped.
Stop ==
    /\ worker = "execute" /\ cmd.kind = "shutdown"
    /\ worker' = "stopped" /\ cmd' = NoCommand /\ queue' = <<>>
    /\ client' = Answered({queue[i].wait : i \in DOMAIN queue}, "err")
    /\ reload' = IF \E i \in DOMAIN queue : queue[i].kind = "reload"
                 THEN "none" ELSE reload
    /\ UNCHANGED <<file, memory, next, accepting, teardown, bounds, ghosts>>
-----------------------------------------------------------------------------
\* Somebody edits the file by hand.
Edit ==
    /\ Fault
    /\ \E lines \in SUBSET Lines : lines # file /\ file' = lines
    /\ edited' = TRUE /\ unsettled' = {} /\ durable' = {} /\ gone' = {}
    /\ UNCHANGED <<memory, queue, worker, cmd, next, client, control, commands,
                   starts>>

\* The process dies; an append under way may have got anywhere.
Crash ==
    /\ worker # "down" /\ Fault /\ starts < MaxStarts
    /\ IF worker = "flush" /\ known \cap Bad = {}
       THEN \E n \in 0 .. Len(pending) :
                \E cut \in {{}, {Torn}} :
                    file' = file \cup {pending[i].rule : i \in 1 .. n} \cup cut
       ELSE UNCHANGED file
    /\ worker' = "down" /\ cmd' = NoCommand /\ next' = {}
    /\ known' = {} /\ snapshot' = {} /\ pending' = <<>> /\ queue' = <<>>
    /\ client' = [c \in Clients |-> "idle"]
    /\ accepting' = FALSE /\ reload' = "none" /\ teardown' = "none"
    /\ UNCHANGED <<commands, starts, ghosts>>

\* The provider of the next runtime, or process, starts, if a matcher can be
\* built from the file.
Start ==
    /\ worker = "down" /\ starts < MaxStarts /\ file \cap Bad = {}
    /\ starts' = starts + 1
    /\ known' = file /\ snapshot' = file /\ pending' = <<>>
    /\ worker' = "idle" /\ accepting' = TRUE
    /\ edited' = FALSE /\ unsettled' = {} /\ gone' = gone \ file
    /\ UNCHANGED <<file, queue, cmd, next, client, reload, teardown, commands,
                   faults, durable>>

WorkerStep ==
    \/ Stage \/ Tick \/ TakeOther \/ FlushWritten \/ FlushBroken \/ Publish
    \/ Rollback \/ RemoveNothing \/ Execute \/ ExecuteFails \/ ExecuteFailsLate
    \/ Install \/ Stop

RuntimeStep ==
    \/ ReloadRecheck \/ ReloadSend \/ Drained \/ Destroy \/ Joined

Next ==
    \/ \E r \in Rules : AppendAsync(r)
    \/ \E c \in Clients :
        \/ \E r \in Rules : Call(c, "append", r) \/ Call(c, "remove", r)
        \/ Call(c, "clear", Nobody)
        \/ AppendTimesOut(c)
    \/ ReloadCheck \/ ReloadLateCheck \/ Drain
    \/ WorkerStep \/ RuntimeStep
    \/ Edit \/ Crash \/ Start

Spec == Init /\ [][Next]_vars

\* The worker and the tasks of a teardown and of a reload run.
FairSpec == Spec /\ WF_vars(WorkerStep) /\ WF_vars(RuntimeStep)
-----------------------------------------------------------------------------
Places == {"idle", "flush", "publish", "rollback", "execute", "install",
           "stopped", "down"}
Commands == [kind: {"none", "append", "remove", "clear", "reload", "shutdown"},
             rule: Rules \cup {Nobody}, wait: Clients \cup {Nobody}]

\* Every variable keeps its type.
TypeOK ==
    /\ file \subseteq Lines /\ known \subseteq Lines /\ snapshot \subseteq Lines
    /\ next \subseteq Lines
    /\ pending \in Seq([rule: Rules, wait: Clients \cup {Nobody}])
    /\ queue \in Seq(Commands) /\ Len(queue) <= QueueSize
    /\ worker \in Places /\ cmd \in Commands
    /\ client \in [Clients -> {"idle", "waiting", "ok", "err"}]
    /\ accepting \in BOOLEAN /\ edited \in BOOLEAN
    /\ reload \in {"none", "locked", "send", "wait"}
    /\ teardown \in {"none", "drain", "destroy", "join"}
    /\ commands \in 0 .. MaxCommands /\ faults \in 0 .. MaxFaults
    /\ starts \in 0 .. MaxStarts
    /\ unsettled \subseteq Lines /\ durable \subseteq Lines /\ gone \subseteq Rules

\* Between two commands, what matches is what the listing shows, save what is
\* still to be flushed: after a failed flush, a crash and a failed reload too.
ListedIsMatched ==
    worker = "idle" => snapshot = known \ PendingRules

\* A file that nobody edited holds what matches, no less and no more, save for
\* the lines of writes that failed since the file was last replaced or read.
\* A failed append may have left rules of its batch and a half-written line; a
\* removal or a clear that failed late may have taken its rules away.
FileIsMatched ==
    (~edited /\ worker \notin {"publish", "install", "down"}) =>
        \A line \in Lines \ unsettled : line \in file <=> line \in snapshot

\* After every command the listing is what matches, and the file differs from
\* both only in lines whose own writing failed, with an error for whoever
\* waited: no failure of one command reaches the rules of another.
RulesAgree == TypeOK /\ ListedIsMatched /\ FileIsMatched

\* A rule whose append was flushed and acknowledged is never lost from the
\* file, but by a removal or a clear, one that failed late too, or an edit.
FlushedIsDurable == durable \subseteq file

\* A rule that was removed does not come back from the batch in memory: not in
\* the file, and not among what matches.
RemovedStaysRemoved == gone \cap (file \cup snapshot \cup known) = {}

\* What a caller was told lasts: an added rule stays, a removed one stays away.
AcknowledgedLasts == FlushedIsDurable /\ RemovedStaysRemoved

\* Once the control is drained no reload touches the provider that is being
\* destroyed, nor the file that the next one reads.
NoReloadAfterDrain ==
    teardown \in {"destroy", "join"} =>
        /\ reload \in {"none", "locked"} /\ cmd.kind # "reload"
        /\ \A i \in DOMAIN queue : queue[i].kind # "reload"

\* Every caller that waits is answered, by a worker that stops too.
CallersAnswered ==
    \A c \in Clients : client[c] = "waiting" ~> client[c] # "waiting"
=============================================================================
