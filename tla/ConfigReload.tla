---------------------------- MODULE ConfigReload ----------------------------
(***************************************************************************)
(* The configuration file, the controller that the management API and the  *)
(* reload executor talk to (infra/control.rs, api/control.rs), and the     *)
(* main task that starts the application, reloads it and falls back to the *)
(* previous configuration when the new one cannot be assembled (app.rs,    *)
(* app/bootstrap.rs).                                                      *)
(*                                                                         *)
(* A content of the file stands for its SHA-256 too.  The file is read and *)
(* written in separate calls, by anybody, without a lock.  The controller's*)
(* state is behind a mutex: a critical section is one action, the command  *)
(* is sent after it.  A request that changes nothing (a GET, a save refused*)
(* by validation or by base_version) is no step.                           *)
(***************************************************************************)
EXTENDS Naturals, Sequences, FiniteSets

CONSTANTS
    Clients,     \* API connections; one outlives the reloads it asks for
    Configs,     \* contents that load and validate
    Unloadable,  \* any content that does not: a truncated or half written file,
                 \* or one saved without validation
    None         \* no version

ASSUME ConfigAssumption ==
    /\ Unloadable \notin Configs
    /\ None \notin Configs \cup {Unloadable}

Contents == Configs \cup {Unloadable}
Versions == Contents \cup {None}

VARIABLES
    file,       \* the content of the configuration file
    control,    \* ControlState: flags, last error, running and target version
    commands,   \* the control channel
    client,     \* per connection: where its request is
    main,       \* the main task: pc, current_config, candidate, version read
    assembled,  \* the configuration the runtime was assembled from, or None
    owed        \* auxiliary: a save was answered "reload accepted" and no reload
                \* has read the file since it was written

vars == <<file, control, commands, client, main, assembled, owed>>

----

StartingUp == {"boot", "first"}
Reloading == {"load", "swap", "assemble", "rollback", "succeeded", "failed", "fatal"}

ControlStates ==
    [shutdown : BOOLEAN, pending : BOOLEAN, inProgress : BOOLEAN,
     error : BOOLEAN, running : Versions, target : Versions]

Requests ==
    [pc : {"idle", "truncate", "write", "ask", "send"}, content : Versions,
     command : {"none", "Reload", "Stop"}, unread : BOOLEAN]

MainStates ==
    [pc : StartingUp \cup Reloading
            \cup {"version", "wait", "hash", "mark", "stop", "down"},
     current : Configs \cup {None}, candidate : Configs \cup {None},
     version : Versions]

NoRequest == [pc |-> "idle", content |-> None, command |-> "none", unread |-> FALSE]

Init ==
    /\ file \in Contents
    /\ control = [shutdown |-> FALSE, pending |-> FALSE, inProgress |-> FALSE,
                  error |-> FALSE, running |-> None, target |-> None]
    /\ commands = <<>>
    /\ client = [c \in Clients |-> NoRequest]
    /\ main = [pc |-> "boot", current |-> None, candidate |-> None, version |-> None]
    /\ assembled = None
    /\ owed = FALSE

\* Every variable keeps its type.
TypeOK ==
    /\ file \in Contents
    /\ control \in ControlStates
    /\ commands \in Seq({"Reload", "Stop"})
    /\ client \in [Clients -> Requests]
    /\ main \in MainStates
    /\ assembled \in Configs \cup {None}
    /\ owed \in BOOLEAN

----
(* The file, and the requests on the controller.                           *)

Advance(c, request) == client' = [client EXCEPT ![c] = request]

Serving == main.pc \notin StartingUp \cup {"down"}

\* A program other than oxidns replaces the file (an operator's editor).
Edit ==
    /\ main.pc # "down" /\ file' \in Contents
    /\ UNCHANGED <<control, commands, client, main, assembled, owed>>

\* A save has passed its checks on the file as it then was; without "validate"
\* the content need only parse.
BeginSave(c) ==
    /\ Serving /\ client[c].pc = "idle"
    /\ \E content \in Contents :
         Advance(c, [client[c] EXCEPT !.pc = "truncate", !.content = content])
    /\ UNCHANGED <<file, control, commands, main, assembled, owed>>

\* fs::write opens the file with truncation ...
Truncate(c) ==
    /\ Serving /\ client[c].pc = "truncate"
    /\ file' = Unloadable
    /\ Advance(c, [client[c] EXCEPT !.pc = "write"])
    /\ UNCHANGED <<control, commands, main, assembled, owed>>

\* ... and writes it, over what another save may have put there since; the save
\* ends here when no reload is wanted or the file cannot be read back.
WriteBody(c) ==
    /\ Serving /\ client[c].pc = "write"
    /\ \/ file' = client[c].content
       \/ file # Unloadable /\ file' = Unloadable
    /\ \/ Advance(c, [NoRequest EXCEPT !.pc = "ask", !.unread = TRUE])
       \/ Advance(c, NoRequest)
    /\ UNCHANGED <<control, commands, main, assembled, owed>>

\* The write fails (a full disk): the file stays truncated.
WriteFails(c) ==
    /\ Serving /\ client[c].pc = "write"
    /\ file' = Unloadable
    /\ Advance(c, NoRequest)
    /\ UNCHANGED <<control, commands, main, assembled, owed>>

\* request_reload, for a save, for POST /reload or for the reload executor.
Busy == control.pending \/ control.inProgress

\* Mutant: only a pending reload is in the way of another.
RequestWhileReloading(c) ==
    /\ Serving /\ client[c].pc \in {"idle", "ask"} /\ ~control.pending
    /\ control' = [control EXCEPT !.pending = TRUE, !.error = FALSE]
    /\ Advance(c, [client[c] EXCEPT !.pc = "send", !.command = "Reload"])
    /\ UNCHANGED <<file, commands, main, assembled, owed>>

RequestReload(c) ==
    /\ Serving /\ client[c].pc \in {"idle", "ask"} /\ ~Busy
    /\ control' = [control EXCEPT !.pending = TRUE, !.error = FALSE]
    /\ Advance(c, [client[c] EXCEPT !.pc = "send", !.command = "Reload"])
    /\ UNCHANGED <<file, commands, main, assembled, owed>>

\* Mutant: the save ignores that the controller is busy.
BusyAccepted(c) ==
    /\ Serving /\ client[c].pc = "ask" /\ Busy
    /\ Advance(c, NoRequest)
    /\ owed' = (owed \/ client[c].unread)
    /\ UNCHANGED <<file, control, commands, main, assembled>>

\* The save is answered 409 although the file was written.
ReloadBusy(c) ==
    /\ Serving /\ client[c].pc = "ask" /\ Busy
    /\ Advance(c, NoRequest)
    /\ UNCHANGED <<file, control, commands, main, assembled, owed>>

\* request_shutdown and request_restart; bound: one of them is ever asked.
RequestStop(c) ==
    /\ Serving /\ client[c].pc = "idle" /\ ~control.shutdown
    /\ control' = [control EXCEPT !.shutdown = TRUE]
    /\ Advance(c, [client[c] EXCEPT !.pc = "send", !.command = "Stop"])
    /\ UNCHANGED <<file, commands, main, assembled, owed>>

Send(c) ==
    /\ Serving /\ client[c].pc = "send"
    /\ commands' = Append(commands, client[c].command)
    /\ Advance(c, NoRequest)
    /\ owed' = (owed \/ client[c].unread)
    /\ UNCHANGED <<file, control, main, assembled>>

----
(* The main task.                                                          *)

At(pc) == main.pc = pc
Goto(pc) == main' = [main EXCEPT !.pc = pc]

\* load_config
Boot ==
    /\ At("boot")
    /\ \/ file \in Configs
          /\ main' = [main EXCEPT !.pc = "first", !.current = file]
       \/ file \notin Configs /\ Goto("down")
    /\ UNCHANGED <<file, control, commands, client, assembled, owed>>

\* bootstrap::assemble at the start; the API answers from here on.
FirstAssembly ==
    /\ At("first")
    /\ \/ assembled' = main.current /\ Goto("version")
       \/ Goto("down") /\ UNCHANGED assembled
    /\ UNCHANGED <<file, control, commands, client, owed>>

\* config_file_version reads the file once more; None if it cannot.
SetRunningVersion ==
    /\ At("version") /\ Goto("wait")
    /\ \E v \in {file, None} : control' = [control EXCEPT !.running = v]
    /\ UNCHANGED <<file, commands, client, assembled, owed>>

\* wait_for_termination
Receive ==
    /\ At("wait") /\ commands # <<>>
    /\ commands' = Tail(commands)
    /\ Goto(IF Head(commands) = "Reload" THEN "hash" ELSE "stop")
    /\ UNCHANGED <<file, control, client, assembled, owed>>

Signal ==
    /\ At("wait") /\ Goto("stop")
    /\ UNCHANGED <<file, control, commands, client, assembled, owed>>

Stop ==
    /\ At("stop") /\ Goto("down") /\ assembled' = None
    /\ UNCHANGED <<file, control, commands, client, owed>>

\* handle_reload_command
ReadVersion ==
    /\ At("hash")
    /\ \E v \in {file, None} :
         main' = [main EXCEPT !.pc = "mark", !.version = v]
    /\ UNCHANGED <<file, control, commands, client, assembled, owed>>

MarkReloadStarted ==
    /\ At("mark")
    /\ main' = [main EXCEPT !.pc = "load", !.version = None]
    /\ control' = [control EXCEPT !.pending = FALSE, !.inProgress = TRUE,
                                  !.error = FALSE, !.target = main.version]
    /\ UNCHANGED <<file, commands, client, assembled, owed>>

LoadCandidate ==
    /\ At("load") /\ owed' = FALSE
    /\ client' = [c \in Clients |-> [client[c] EXCEPT !.unread = FALSE]]
    /\ \/ file \in Configs
          /\ main' = [main EXCEPT !.pc = "swap", !.candidate = file]
       \/ file \notin Configs /\ Goto("failed")
    /\ UNCHANGED <<file, control, commands, assembled>>

\* bootstrap::stop and task::stop_all
StopPrevious ==
    /\ At("swap") /\ Goto("assemble") /\ assembled' = None
    /\ UNCHANGED <<file, control, commands, client, owed>>

\* Mutant: current_config keeps the configuration before the reload.
AssembleForgetting ==
    /\ At("assemble")
    /\ \/ /\ assembled' = main.candidate
          /\ main' = [main EXCEPT !.pc = "succeeded", !.candidate = None]
       \/ /\ main' = [main EXCEPT !.pc = "rollback", !.candidate = None]
          /\ UNCHANGED assembled
    /\ UNCHANGED <<file, control, commands, client, owed>>

AssembleCandidate ==
    /\ At("assemble")
    /\ \/ /\ assembled' = main.candidate
          /\ main' = [main EXCEPT !.pc = "succeeded", !.candidate = None,
                                  !.current = main.candidate]
       \/ /\ main' = [main EXCEPT !.pc = "rollback", !.candidate = None]
          /\ UNCHANGED assembled
    /\ UNCHANGED <<file, control, commands, client, owed>>

RollBack ==
    /\ At("rollback")
    /\ \/ assembled' = main.current /\ Goto("failed")
       \/ Goto("fatal") /\ UNCHANGED assembled
    /\ UNCHANGED <<file, control, commands, client, owed>>

MarkReloadSucceeded ==
    /\ At("succeeded") /\ Goto("wait")
    /\ control' = [control EXCEPT
                     !.pending = FALSE, !.inProgress = FALSE, !.error = FALSE,
                     !.running = IF control.target = None THEN @ ELSE control.target]
    /\ UNCHANGED <<file, commands, client, assembled, owed>>

\* Mutant: a failed reload stays in progress.
MarkFailedHanging ==
    /\ main.pc \in {"failed", "fatal"}
    /\ Goto(IF main.pc = "failed" THEN "wait" ELSE "down")
    /\ control' = [control EXCEPT !.pending = FALSE, !.error = TRUE]
    /\ UNCHANGED <<file, commands, client, assembled, owed>>

\* After a failed roll-back the main task returns the error and the process ends.
MarkReloadFailed ==
    /\ main.pc \in {"failed", "fatal"}
    /\ Goto(IF main.pc = "failed" THEN "wait" ELSE "down")
    /\ control' = [control EXCEPT !.pending = FALSE, !.inProgress = FALSE, !.error = TRUE]
    /\ UNCHANGED <<file, commands, client, assembled, owed>>

----

Save(c) == BeginSave(c) \/ Truncate(c) \/ WriteBody(c) \/ WriteFails(c)
Request(c) == RequestReload(c) \/ ReloadBusy(c) \/ RequestStop(c) \/ Send(c)
Start == Boot \/ FirstAssembly \/ SetRunningVersion
Reload ==
    \/ ReadVersion \/ MarkReloadStarted \/ LoadCandidate \/ StopPrevious
    \/ AssembleCandidate \/ RollBack \/ MarkReloadSucceeded \/ MarkReloadFailed
Main == Start \/ Receive \/ Stop \/ Reload

Next == Edit \/ Signal \/ Main \/ \E c \in Clients : Save(c) \/ Request(c)

Spec == Init /\ [][Next]_vars

\* The runtime polls the main task while it can proceed, and a request whose
\* critical section is over sends its command without waiting for anything.
FairSpec == Spec /\ WF_vars(Main) /\ \A c \in Clients : WF_vars(Send(c))

----

\* A reload that was asked for is asked for once: the pending flag, which the end
\* of a reload clears too, is set exactly while one request is on its way to the
\* main task, and in_progress exactly while the main task handles one
\* (control.rs 335-386).
StatusExact ==
    LET onTheWay == Cardinality({c \in Clients : client[c].command = "Reload"})
                      + Cardinality({i \in 1..Len(commands) : commands[i] = "Reload"})
                      + (IF main.pc \in {"hash", "mark"} THEN 1 ELSE 0)
    IN main.pc # "down" =>
         /\ onTheWay = IF control.pending THEN 1 ELSE 0
         /\ control.inProgress = (main.pc \in Reloading)

\* Whenever the main task waits for commands or is about to stop the runtime,
\* the configuration it would fall back to is the one that is running, however
\* many reloads failed at loading or at assembly (app.rs 388, 397-428).
FallbackIsRunning ==
    main.pc \in {"version", "wait", "hash", "mark", "load", "swap"} =>
        assembled = main.current /\ assembled # None

\* A save answered "reload accepted" is read by a later reload, or overwritten
\* by something newer that is: no accepted save is left out once the controller
\* says that no reload is pending (api/control.rs 536-555, app.rs 376-386).
AcceptedSaveIsLoaded ==
    main.pc = "wait" /\ ~control.pending => ~owed

\* An accepted reload comes to an end, in success, failure or the end of the
\* process (app.rs 333-429).
ReloadEnds ==
    control.pending ~> (main.pc = "down" \/ ~(control.pending \/ control.inProgress))

\* A shutdown or restart asked for through the API ends the process, whatever
\* reloads are asked for beside it (control.rs 315-333, app.rs 351-358).
ShutdownEnds == control.shutdown ~> main.pc = "down"

\* Every command the controller accepts is carried to its end: the reload that
\* fails and the shutdown queued behind reloads included.
CommandsEnd == ReloadEnds /\ ShutdownEnds
=============================================================================
