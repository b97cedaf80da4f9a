------------------------- MODULE ConfigReloadProofs -------------------------
(***************************************************************************)
(* Type correctness of ConfigReload, and its safety invariants, for any    *)
(* number of clients and any set of configurations.                        *)
(***************************************************************************)
EXTENDS ConfigReload, FiniteSetTheorems, TLAPS

----
(* The inductive invariant.                                                *)

\* The main task's configurations are what its program counter says.
MainInv ==
    /\ main.pc \notin {"boot", "down"} => main.current \in Configs
    /\ main.pc \in {"swap", "assemble"} => main.candidate \in Configs
    /\ main.pc \in {"succeeded", "failed"} => assembled = main.current /\ assembled # None
    /\ FallbackIsRunning

\* What a client keeps follows from where it is.
Consistent(r) ==
    /\ r.pc = "send" <=> r.command # "none"
    /\ r.unread => r.pc = "ask" \/ r.command = "Reload"
    /\ r.pc \in {"truncate", "write"} => r.content \in Contents

ClientInv == \A c \in Clients : Consistent(client[c])

\* The flags follow from where the main task is.
FlagInv ==
    /\ control.inProgress <=> main.pc \in Reloading
    /\ main.pc \in Reloading => ~control.pending
    /\ main.pc \in {"hash", "mark"} => control.pending

\* A request that is on its way is the only one, and pending.
Asking(c) == client[c].command = "Reload"
Queued(i) == i \in 1..Len(commands) /\ commands[i] = "Reload"

RequestInv ==
    /\ \A c \in Clients : Asking(c) =>
         /\ control.pending /\ main.pc \notin {"hash", "mark"}
         /\ \A d \in Clients : Asking(d) => c = d
         /\ \A i \in Nat : ~Queued(i)
    /\ \A i \in Nat : Queued(i) =>
         /\ control.pending /\ main.pc \notin {"hash", "mark"}
         /\ \A j \in Nat : Queued(j) => i = j

\* A save that is owed a reload has one coming.
OwedInv == owed => control.pending \/ main.pc = "load"

Inv == TypeOK /\ MainInv /\ ClientInv /\ FlagInv /\ RequestInv /\ OwedInv

----
(* The records and their updates.                                          *)

LEMMA RequestFacts ==
    /\ NoRequest \in Requests /\ Consistent(NoRequest) /\ NoRequest.command = "none"
    /\ LET r == [NoRequest EXCEPT !.pc = "ask", !.unread = TRUE]
       IN r \in Requests /\ Consistent(r) /\ r.command = "none"
    /\ \A r \in Requests : Consistent(r) => \A content \in Contents :
         r.pc = "idle" =>
            LET s == [r EXCEPT !.pc = "truncate", !.content = content]
            IN s \in Requests /\ Consistent(s) /\ s.command = "none"
    /\ \A r \in Requests : Consistent(r) /\ r.pc = "truncate" =>
         LET s == [r EXCEPT !.pc = "write"]
         IN s \in Requests /\ Consistent(s) /\ s.command = "none"
  BY DEF NoRequest, Requests, Consistent, Versions, Contents

LEMMA RequestFacts2 ==
    ASSUME NEW r \in Requests, Consistent(r)
    PROVE  /\ r.pc \in {"idle", "ask"} =>
                LET s == [r EXCEPT !.pc = "send", !.command = "Reload"]
                IN s \in Requests /\ Consistent(s) /\ s.command = "Reload"
           /\ r.pc = "idle" =>
                LET s == [r EXCEPT !.pc = "send", !.command = "Stop"]
                IN s \in Requests /\ Consistent(s) /\ s.command = "Stop"
           /\ LET s == [r EXCEPT !.unread = FALSE]
              IN s \in Requests /\ Consistent(s) /\ s.command = r.command
  BY DEF Requests, Consistent

LEMMA Initially == Init => Inv
<1> SUFFICES ASSUME Init PROVE Inv
  OBVIOUS
<1>1. TypeOK
  <2>1. control \in ControlStates
    BY DEF Init, ControlStates, Versions
  <2>2. main \in MainStates
    BY DEF Init, MainStates, StartingUp, Versions
  <2>3. commands \in Seq({"Reload", "Stop"})
    BY DEF Init
  <2>4. client \in [Clients -> Requests]
    BY RequestFacts DEF Init
  <2>5. file \in Contents /\ assembled \in Configs \cup {None} /\ owed \in BOOLEAN
    BY DEF Init
  <2> QED BY <2>1, <2>2, <2>3, <2>4, <2>5 DEF TypeOK
<1>2. MainInv
  BY DEF Init, MainInv, FallbackIsRunning
<1>5. FlagInv
  BY DEF Init, FlagInv, Reloading
<1>6. OwedInv
  BY DEF Init, OwedInv
<1>3. ClientInv
  BY RequestFacts DEF Init, ClientInv
<1>4. RequestInv
  <2>1. \A c \in Clients : ~Asking(c)
    BY RequestFacts DEF Init, Asking
  <2>2. \A i : ~Queued(i)
    BY DEF Init, Queued
  <2> QED BY <2>1, <2>2 DEF RequestInv
<1> QED BY <1>1, <1>2, <1>3, <1>4, <1>5, <1>6 DEF Inv

----
(* Steps of the clients.                                                   *)

\* A client's step that asks for no reload and sends nothing.
LEMMA QuietStep ==
    ASSUME Inv, NEW c \in Clients, NEW r \in Requests, Consistent(r), r.command # "Reload",
           Advance(c, r), file' \in Contents,
           UNCHANGED <<commands, main, assembled>>, owed' = owed,
           control' \in ControlStates, control'.pending = control.pending,
           control'.inProgress = control.inProgress
    PROVE  Inv'
<1> USE DEF Inv
<1>1. client' \in [Clients -> Requests] /\ \A d \in Clients : client'[d] = IF d = c THEN r ELSE client[d]
  BY DEF Advance, TypeOK
<1>2. TypeOK'
  BY <1>1 DEF TypeOK
<1>3. MainInv' /\ FlagInv' /\ OwedInv'
  BY DEF MainInv, FallbackIsRunning, FlagInv, OwedInv
<1>4. ClientInv'
  BY <1>1 DEF ClientInv
<1>5. (\A d \in Clients : Asking(d)' => Asking(d)) /\ \A i : Queued(i)' <=> Queued(i)
  BY <1>1 DEF Asking, Queued
<1>6. RequestInv'
  BY <1>5 DEF RequestInv
<1> QED BY <1>2, <1>3, <1>4, <1>6

LEMMA SaveStep ==
    ASSUME Inv, NEW c \in Clients, Save(c) PROVE Inv'
<1>1. client[c] \in Requests /\ Consistent(client[c]) /\ Unloadable \in Contents
      /\ control \in ControlStates /\ file \in Contents
  BY DEF Inv, TypeOK, ClientInv, Contents
<1>2. CASE BeginSave(c)
  <2>1. PICK content \in Contents :
          Advance(c, [client[c] EXCEPT !.pc = "truncate", !.content = content])
    BY <1>2 DEF BeginSave
  <2> QED BY <1>1, <1>2, <2>1, RequestFacts, QuietStep DEF BeginSave
<1>3. CASE Truncate(c)
  BY <1>1, <1>3, RequestFacts, QuietStep DEF Truncate
<1>4. CASE WriteBody(c)
  <2>1. file' \in Contents
    BY <1>1, <1>4 DEF WriteBody, Consistent
  <2> QED BY <1>1, <1>4, <2>1, RequestFacts, QuietStep DEF WriteBody
<1>5. CASE WriteFails(c)
  BY <1>1, <1>5, RequestFacts, QuietStep DEF WriteFails
<1> QED BY <1>2, <1>3, <1>4, <1>5 DEF Save

LEMMA RequestReloadStep ==
    ASSUME Inv, NEW c \in Clients, RequestReload(c) PROVE Inv'
<1> USE DEF Inv
<1> DEFINE r == [client[c] EXCEPT !.pc = "send", !.command = "Reload"]
<1>1. r \in Requests /\ Consistent(r) /\ r.command = "Reload"
  BY RequestFacts2 DEF RequestReload, TypeOK, ClientInv
<1>2. client' \in [Clients -> Requests] /\ \A d \in Clients : client'[d] = IF d = c THEN r ELSE client[d]
  BY <1>1 DEF RequestReload, Advance, TypeOK
<1> HIDE DEF r
<1>3. control' \in ControlStates /\ control'.pending /\ ~control.pending
      /\ control'.inProgress = control.inProgress /\ ~control.inProgress
  BY DEF RequestReload, Busy, TypeOK, ControlStates
<1>4. TypeOK'
  BY <1>2, <1>3 DEF TypeOK, RequestReload
<1>5. MainInv' /\ FlagInv' /\ OwedInv'
  BY <1>3 DEF MainInv, FallbackIsRunning, FlagInv, OwedInv, RequestReload
<1>6. ClientInv'
  BY <1>1, <1>2 DEF ClientInv
<1>7. (\A d \in Clients : Asking(d)' => c = d) /\ \A i \in Nat : ~Queued(i)'
  BY <1>2, <1>3 DEF RequestInv, Asking, Queued, RequestReload
<1>8. RequestInv'
  BY <1>3, <1>7 DEF RequestInv, FlagInv, RequestReload
<1> QED BY <1>4, <1>5, <1>6, <1>8

LEMMA SendStep ==
    ASSUME Inv, NEW c \in Clients, Send(c) PROVE Inv'
<1> USE DEF Inv
<1> DEFINE m == client[c].command
<1>1. m \in {"Reload", "Stop"} /\ client[c].unread \in BOOLEAN
      /\ (client[c].unread => Asking(c))
  BY DEF TypeOK, ClientInv, Consistent, Requests, Send, Asking
<1>2. client' \in [Clients -> Requests] /\ \A d \in Clients : client'[d] = IF d = c THEN NoRequest ELSE client[d]
  BY RequestFacts DEF Send, Advance, TypeOK
<1>3. commands' = Append(commands, m) /\ commands \in Seq({"Reload", "Stop"})
  BY DEF Send, TypeOK
<1>4. commands' \in Seq({"Reload", "Stop"})
  BY <1>1, <1>3
<1>5. \A i \in Nat : Queued(i)' => Queued(i) \/ (i = Len(commands) + 1 /\ Asking(c))
  <2> HIDE DEF m, Inv
  <2>1. Len(commands) \in Nat /\ Len(commands') = Len(commands) + 1
    BY <1>1, <1>3
  <2>2. \A i \in 1..Len(commands) : commands'[i] = commands[i]
    BY <1>1, <1>3
  <2>3. commands'[Len(commands) + 1] = m
    BY <1>1, <1>3
  <2> QED BY <2>1, <2>2, <2>3 DEF Queued, m, Asking
<1>6. TypeOK'
  BY <1>1, <1>2, <1>4 DEF TypeOK, Send
<1>7. MainInv' /\ FlagInv'
  BY DEF MainInv, FallbackIsRunning, FlagInv, Send
<1>8. OwedInv'
  BY <1>1 DEF OwedInv, Send, RequestInv
<1>9. ClientInv'
  BY <1>2, RequestFacts DEF ClientInv
<1>10. \A d \in Clients : Asking(d)' => d # c /\ Asking(d)
  BY <1>2, RequestFacts DEF Asking
<1>11. RequestInv'
  BY <1>5, <1>10 DEF RequestInv, Send
<1> QED BY <1>6, <1>7, <1>8, <1>9, <1>11

LEMMA ClientStep ==
    ASSUME Inv, NEW c \in Clients, Request(c) PROVE Inv'
<1>1. client[c] \in Requests /\ Consistent(client[c]) /\ control \in ControlStates /\ file \in Contents
  BY DEF Inv, TypeOK, ClientInv
<1>2. CASE ReloadBusy(c)
  BY <1>1, <1>2, RequestFacts, QuietStep DEF ReloadBusy
<1>3. CASE RequestStop(c)
  <2>1. control' \in ControlStates /\ control'.pending = control.pending
        /\ control'.inProgress = control.inProgress
    BY <1>1, <1>3 DEF RequestStop, ControlStates
  <2> QED BY <1>1, <1>3, <2>1, RequestFacts2, QuietStep DEF RequestStop
<1> QED BY <1>2, <1>3, RequestReloadStep, SendStep DEF Request

----
(* Steps of the main task and of the file's other writers.                 *)

LEMMA EditStep == Inv /\ Edit => Inv'
<1> SUFFICES ASSUME Inv, Edit PROVE Inv'
  OBVIOUS
<1>1. TypeOK'
  BY DEF Inv, TypeOK, Edit
<1>2. MainInv' /\ FlagInv' /\ OwedInv'
  BY DEF Inv, MainInv, FallbackIsRunning, FlagInv, OwedInv, Edit
<1>3. ClientInv' /\ RequestInv'
  BY DEF Inv, ClientInv, RequestInv, Asking, Queued, Edit
<1> QED BY <1>1, <1>2, <1>3 DEF Inv

\* A step of the main task that leaves the requests alone, and neither enters
\* nor leaves the places the flags speak of.
LEMMA InternalStep ==
    ASSUME Inv, main' \in MainStates, assembled' \in Configs \cup {None},
           UNCHANGED <<file, control, commands, client, owed>>,
           main.pc \notin {"hash", "load"}, main'.pc \notin {"hash", "mark", "load"},
           main.pc \in Reloading <=> main'.pc \in Reloading,
           MainInv'
    PROVE  Inv'
<1> USE DEF Inv
<1>1. TypeOK'
  BY DEF TypeOK
<1>2. FlagInv' /\ OwedInv'
  BY DEF FlagInv, OwedInv
<1>3. ClientInv' /\ RequestInv'
  BY DEF ClientInv, RequestInv, Asking, Queued
<1> QED BY <1>1, <1>2, <1>3

LEMMA StartStep ==
    ASSUME Inv, Boot \/ FirstAssembly \/ Signal \/ Stop PROVE Inv'
<1>1. main' \in MainStates /\ assembled' \in Configs \cup {None}
  BY DEF Inv, TypeOK, Boot, FirstAssembly, Signal, Stop, At, Goto, MainStates, StartingUp,
         Reloading, Contents
<1>2. MainInv'
  BY ConfigAssumption
  DEF Inv, MainInv, FallbackIsRunning, TypeOK, MainStates, Boot, FirstAssembly, Signal, Stop,
      At, Goto
<1>3. main.pc \notin Reloading \cup {"hash", "load"}
      /\ main'.pc \notin Reloading \cup {"hash", "mark", "load"}
  BY DEF Inv, TypeOK, MainStates, Boot, FirstAssembly, Signal, Stop, At, Goto, Reloading
<1> QED BY <1>1, <1>2, <1>3, InternalStep DEF Boot, FirstAssembly, Signal, Stop

LEMMA SwapStep ==
    ASSUME Inv, StopPrevious \/ AssembleCandidate \/ RollBack PROVE Inv'
<1>1. main' \in MainStates /\ assembled' \in Configs \cup {None}
  BY DEF Inv, TypeOK, StopPrevious, AssembleCandidate, RollBack, At, Goto, MainStates, Reloading
<1>2. MainInv'
  BY ConfigAssumption
  DEF Inv, MainInv, FallbackIsRunning, TypeOK, MainStates, StopPrevious, AssembleCandidate,
      RollBack, At, Goto
<1>3. main.pc \in Reloading \ {"load"} /\ main'.pc \in Reloading \ {"load"}
  BY DEF Inv, TypeOK, MainStates, StopPrevious, AssembleCandidate, RollBack, At, Goto, Reloading
<1> QED BY <1>1, <1>2, <1>3, InternalStep DEF StopPrevious, AssembleCandidate, RollBack, Reloading

LEMMA ReceiveStep == Inv /\ Receive => Inv'
<1> SUFFICES ASSUME Inv, Receive PROVE Inv'
  OBVIOUS
<1> USE DEF Inv
<1>1. commands \in Seq({"Reload", "Stop"}) /\ commands # <<>> /\ commands' = Tail(commands)
      /\ main \in MainStates /\ main.pc = "wait"
  BY DEF TypeOK, Receive, At
<1>2. /\ commands' \in Seq({"Reload", "Stop"}) /\ Len(commands') \in Nat
      /\ Len(commands) = Len(commands') + 1 /\ Head(commands) = commands[1]
      /\ \A i \in 1..Len(commands') : commands'[i] = commands[i + 1]
  BY <1>1
<1>3. main' = [main EXCEPT !.pc = IF Head(commands) = "Reload" THEN "hash" ELSE "stop"]
      /\ UNCHANGED <<file, control, client, assembled, owed>>
  BY DEF Receive, Goto
<1>4. \A i \in Nat : Queued(i)' => i # 0 /\ Queued(i + 1)
  BY <1>2 DEF Queued
<1>5. Queued(1) <=> main'.pc = "hash"
  BY <1>1, <1>2, <1>3 DEF Queued, MainStates
<1>6. main' \in MainStates /\ main'.pc \in {"hash", "stop"}
      /\ main'.current = main.current
  BY <1>1, <1>3 DEF MainStates
<1>7. TypeOK'
  BY <1>2, <1>3, <1>6 DEF TypeOK
<1>8. MainInv' /\ ClientInv'
  BY <1>1, <1>3, <1>6 DEF MainInv, FallbackIsRunning, ClientInv
<1>9. Queued(1) => /\ control.pending /\ \A c \in Clients : ~Asking(c)
                   /\ \A i \in Nat \ {0} : ~Queued(i + 1)
  BY DEF RequestInv
<1>10. FlagInv' /\ OwedInv'
  BY <1>1, <1>3, <1>5, <1>6, <1>9 DEF FlagInv, OwedInv, Reloading
<1>11. ASSUME NEW i \in Nat, Queued(i)', NEW j \in Nat, Queued(j)' PROVE i = j
  BY <1>4, <1>11 DEF RequestInv
<1>12. ASSUME NEW i \in Nat, Queued(i)' PROVE control'.pending /\ main'.pc \notin {"hash", "mark"}
  BY <1>3, <1>4, <1>5, <1>6, <1>9, <1>12 DEF RequestInv
<1>13. ASSUME NEW c \in Clients, Asking(c)'
       PROVE  /\ control'.pending /\ main'.pc \notin {"hash", "mark"}
              /\ \A d \in Clients : Asking(d)' => c = d
              /\ \A i \in Nat : ~Queued(i)'
  <2>1. Asking(c) /\ client' = client /\ control' = control
    BY <1>3, <1>13 DEF Asking
  <2> QED BY <2>1, <1>4, <1>5, <1>6, <1>9 DEF RequestInv, Asking
<1>14. RequestInv'
  BY <1>11, <1>12, <1>13 DEF RequestInv
<1> QED BY <1>7, <1>8, <1>10, <1>14

LEMMA VersionStep ==
    ASSUME Inv, SetRunningVersion \/ ReadVersion PROVE Inv'
<1> USE DEF Inv
<1>1. /\ main \in MainStates /\ control \in ControlStates /\ file \in Versions
      /\ UNCHANGED <<file, commands, client, assembled, owed>>
  BY DEF TypeOK, SetRunningVersion, ReadVersion, Versions
<1>2. main' \in MainStates /\ main'.current = main.current
      /\ \/ main.pc = "version" /\ main'.pc = "wait"
         \/ main.pc = "hash" /\ main'.pc = "mark"
  BY <1>1 DEF SetRunningVersion, ReadVersion, At, Goto, MainStates, Versions
<1>3. /\ control' \in ControlStates /\ control'.pending = control.pending
      /\ control'.inProgress = control.inProgress
  BY <1>1 DEF SetRunningVersion, ReadVersion, ControlStates, Versions
<1>4. TypeOK'
  BY <1>1, <1>2, <1>3 DEF TypeOK
<1>5. MainInv' /\ FlagInv' /\ OwedInv'
  BY <1>1, <1>2, <1>3 DEF MainInv, FallbackIsRunning, FlagInv, OwedInv, Reloading
<1>6. ClientInv' /\ RequestInv'
  BY <1>1, <1>2, <1>3 DEF ClientInv, RequestInv, Asking, Queued
<1> QED BY <1>4, <1>5, <1>6

LEMMA MarkStartedStep == Inv /\ MarkReloadStarted => Inv'
<1> SUFFICES ASSUME Inv, MarkReloadStarted PROVE Inv'
  OBVIOUS
<1> USE DEF Inv
<1>1. main \in MainStates /\ control \in ControlStates /\ main.pc = "mark"
      /\ UNCHANGED <<file, commands, client, assembled, owed>>
  BY DEF TypeOK, MarkReloadStarted, At
<1>2. main' \in MainStates /\ main'.pc = "load" /\ main'.current = main.current
  BY <1>1 DEF MarkReloadStarted, MainStates, Reloading, Versions
<1>3. control' \in ControlStates /\ ~control'.pending /\ control'.inProgress
  BY <1>1 DEF MarkReloadStarted, ControlStates, MainStates
<1>4. TypeOK'
  BY <1>1, <1>2, <1>3 DEF TypeOK
<1>5. MainInv' /\ FlagInv' /\ OwedInv'
  BY <1>1, <1>2, <1>3 DEF MainInv, FallbackIsRunning, FlagInv, OwedInv, Reloading
<1>6. (\A c \in Clients : ~Asking(c)) /\ \A i \in Nat : ~Queued(i)
  BY <1>1 DEF RequestInv
<1>7. ClientInv' /\ RequestInv'
  BY <1>1, <1>6 DEF ClientInv, RequestInv, Asking, Queued
<1> QED BY <1>4, <1>5, <1>7

LEMMA LoadStep == Inv /\ LoadCandidate => Inv'
<1> SUFFICES ASSUME Inv, LoadCandidate PROVE Inv'
  OBVIOUS
<1> USE DEF Inv
<1>1. main \in MainStates /\ main.pc = "load" /\ owed' = FALSE
      /\ UNCHANGED <<file, control, commands, assembled>>
  BY DEF TypeOK, LoadCandidate, At
<1>2. main' \in MainStates /\ main'.current = main.current /\ main'.pc \in {"swap", "failed"}
      /\ (main'.pc = "swap" => main'.candidate \in Configs)
  BY <1>1 DEF LoadCandidate, Goto, MainStates, Reloading
<1>3. client' \in [Clients -> Requests]
      /\ \A c \in Clients : Consistent(client'[c]) /\ client'[c].command = client[c].command
  BY RequestFacts2 DEF LoadCandidate, TypeOK, ClientInv
<1>4. TypeOK'
  BY <1>1, <1>2, <1>3 DEF TypeOK
<1>5. MainInv' /\ FlagInv' /\ OwedInv'
  BY <1>1, <1>2 DEF MainInv, FallbackIsRunning, FlagInv, OwedInv, Reloading
<1>6. ClientInv' /\ RequestInv'
  BY <1>1, <1>2, <1>3 DEF ClientInv, RequestInv, Asking, Queued
<1> QED BY <1>4, <1>5, <1>6

LEMMA MarkEndedStep ==
    ASSUME Inv, MarkReloadSucceeded \/ MarkReloadFailed PROVE Inv'
<1> USE DEF Inv
<1>1. main \in MainStates /\ control \in ControlStates
      /\ main.pc \in {"succeeded", "failed", "fatal"}
      /\ UNCHANGED <<file, commands, client, assembled, owed>>
  BY DEF TypeOK, MarkReloadSucceeded, MarkReloadFailed, At
<1>2. main' \in MainStates /\ main'.pc \in {"wait", "down"} /\ main'.current = main.current
      /\ (main'.pc = "wait" => main.pc \in {"succeeded", "failed"})
  BY <1>1 DEF MarkReloadSucceeded, MarkReloadFailed, At, Goto, MainStates
<1>3. control' \in ControlStates /\ ~control'.pending /\ ~control'.inProgress
  BY <1>1 DEF MarkReloadSucceeded, MarkReloadFailed, ControlStates
<1>4. TypeOK'
  BY <1>1, <1>2, <1>3 DEF TypeOK
<1>5. MainInv' /\ FlagInv' /\ OwedInv'
  BY <1>1, <1>2, <1>3 DEF MainInv, FallbackIsRunning, FlagInv, OwedInv, Reloading
<1>6. (\A c \in Clients : ~Asking(c)) /\ \A i \in Nat : ~Queued(i)
  BY <1>1 DEF RequestInv, FlagInv, Reloading
<1>7. ClientInv' /\ RequestInv'
  BY <1>1, <1>6 DEF ClientInv, RequestInv, Asking, Queued
<1> QED BY <1>4, <1>5, <1>7

----

LEMMA Inductive == Inv /\ [Next]_vars => Inv'
<1> SUFFICES ASSUME Inv, [Next]_vars PROVE Inv'
  OBVIOUS
<1>1. CASE Edit
  BY <1>1, EditStep
<1>2. CASE Boot \/ FirstAssembly \/ Signal \/ Stop
  BY <1>2, StartStep
<1>3. CASE StopPrevious \/ AssembleCandidate \/ RollBack
  BY <1>3, SwapStep
<1>4. CASE Receive
  BY <1>4, ReceiveStep
<1>5. CASE SetRunningVersion \/ ReadVersion
  BY <1>5, VersionStep
<1>6. CASE MarkReloadStarted
  BY <1>6, MarkStartedStep
<1>7. CASE LoadCandidate
  BY <1>7, LoadStep
<1>8. CASE MarkReloadSucceeded \/ MarkReloadFailed
  BY <1>8, MarkEndedStep
<1>9. ASSUME NEW c \in Clients, Save(c) \/ Request(c) PROVE Inv'
  BY <1>9, SaveStep, ClientStep
<1>10. CASE UNCHANGED vars
  <2>1. TypeOK' /\ MainInv' /\ ClientInv'
    BY <1>10 DEF Inv, vars, TypeOK, MainInv, FallbackIsRunning, ClientInv
  <2>2. FlagInv' /\ RequestInv' /\ OwedInv'
    BY <1>10 DEF Inv, vars, FlagInv, RequestInv, Asking, Queued, OwedInv
  <2> QED BY <2>1, <2>2 DEF Inv
<1> QED
  BY <1>1, <1>2, <1>3, <1>4, <1>5, <1>6, <1>7, <1>8, <1>9, <1>10 DEF Next, Main, Start, Reload

LEMMA Invariant == Spec => []Inv
BY Initially, Inductive, PTL DEF Spec

\* Every variable keeps its type (infra/control.rs, app.rs).
THEOREM TypeCorrect == Spec => []TypeOK
<1>1. Inv => TypeOK
  BY DEF Inv
<1> QED BY <1>1, Invariant, PTL

\* Whatever reloads failed, and wherever, the configuration the main task would
\* fall back to is the one that is running whenever it waits for a command or
\* is about to stop the runtime (app.rs 371-429).
THEOREM RollbackRestores == Spec => []FallbackIsRunning
<1>1. Inv => FallbackIsRunning
  BY DEF Inv, MainInv
<1> QED BY <1>1, Invariant, PTL

\* However saves, requests and reloads interleave, no save that was answered
\* "reload accepted" is left unread once no reload is pending (api/control.rs
\* 536-555, control.rs 335-386, app.rs 371-386).
THEOREM AcceptedSavesAreRead == Spec => []AcceptedSaveIsLoaded
<1>1. Inv => AcceptedSaveIsLoaded
  BY DEF Inv, OwedInv, AcceptedSaveIsLoaded
<1> QED BY <1>1, Invariant, PTL

----
(* A pending reload has a request on its way: the other half of RequestInv. *)

PendingInv ==
    control.pending /\ main.pc # "down" =>
        \/ \E c \in Clients : Asking(c)
        \/ \E i \in Nat : Queued(i)
        \/ main.pc \in {"hash", "mark"}

\* Requests that are on their way stay there.
LEMMA CarriedOn ==
    ASSUME PendingInv, control'.pending => control.pending,
           main.pc \in {"hash", "mark", "down"} => main'.pc \in {"hash", "mark", "down"},
           \A c \in Clients : Asking(c) => Asking(c)', UNCHANGED commands
    PROVE  PendingInv'
<1>1. \A i \in Nat : Queued(i) => Queued(i)'
  BY DEF Queued
<1> QED BY <1>1 DEF PendingInv

LEMMA ClientCarries ==
    ASSUME Inv, PendingInv, NEW c \in Clients, Save(c) \/ Request(c) PROVE PendingInv'
<1>1. client[c] \in Requests /\ Consistent(client[c]) /\ client \in [Clients -> Requests]
      /\ control \in ControlStates /\ commands \in Seq({"Reload", "Stop"})
  BY DEF Inv, TypeOK, ClientInv
<1>2. \A r : Advance(c, r) => \A d \in Clients : client'[d] = IF d = c THEN r ELSE client[d]
  BY <1>1 DEF Advance
<1>3. CASE Save(c) \/ ReloadBusy(c) \/ RequestStop(c)
  <2>1. ~Asking(c)
    BY <1>1, <1>3 DEF Save, BeginSave, Truncate, WriteBody, WriteFails, ReloadBusy,
                      RequestStop, Asking, Consistent
  <2>2. \E r : Advance(c, r)
    BY <1>3 DEF Save, BeginSave, Truncate, WriteBody, WriteFails, ReloadBusy, RequestStop
  <2>3. \A d \in Clients : Asking(d) => Asking(d)'
    BY <1>2, <2>1, <2>2 DEF Asking
  <2>4. main' = main /\ commands' = commands /\ control'.pending = control.pending
    BY <1>1, <1>3 DEF Save, BeginSave, Truncate, WriteBody, WriteFails, ReloadBusy,
                      RequestStop, ControlStates
  <2> QED BY <2>3, <2>4, CarriedOn
<1>4. CASE RequestReload(c)
  <2>1. [client[c] EXCEPT !.pc = "send", !.command = "Reload"].command = "Reload"
    BY <1>1 DEF Requests
  <2>2. Asking(c)'
    BY <1>2, <1>4, <2>1 DEF RequestReload, Asking
  <2> QED BY <2>2 DEF PendingInv
<1>5. CASE Send(c)
  <2>1. /\ commands' = Append(commands, client[c].command) /\ UNCHANGED <<control, main>>
        /\ \A d \in Clients : d # c => client'[d] = client[d]
        /\ client[c].command \in {"Reload", "Stop"}
    BY <1>1, <1>2, <1>5 DEF Send, Consistent, Requests
  <2>2. /\ Len(commands) \in Nat /\ Len(commands') = Len(commands) + 1
        /\ commands'[Len(commands) + 1] = client[c].command
        /\ \A i \in 1..Len(commands) : commands'[i] = commands[i]
    BY <1>1, <2>1
  <2>3. \A i \in Nat : Queued(i) => Queued(i)'
    BY <2>2 DEF Queued
  <2>4. Asking(c) => \E i \in Nat : Queued(i)'
    <3>1. PICK n \in Nat : n = Len(commands) + 1
      BY <2>2
    <3>2. n \in 1..Len(commands') /\ commands'[n] = client[c].command
      BY <2>2, <3>1
    <3> QED BY <3>2 DEF Queued, Asking
  <2>5. \A d \in Clients : d # c /\ Asking(d) => Asking(d)'
    BY <2>1 DEF Asking
  <2> QED BY <2>1, <2>3, <2>4, <2>5 DEF PendingInv
<1> QED BY <1>3, <1>4, <1>5 DEF Request

LEMMA ReceiveCarries == ASSUME Inv, PendingInv, Receive PROVE PendingInv'
<1>1. commands \in Seq({"Reload", "Stop"}) /\ commands # <<>> /\ commands' = Tail(commands)
      /\ main \in MainStates /\ UNCHANGED <<control, client>> /\ main.pc = "wait"
      /\ main' = [main EXCEPT !.pc = IF Head(commands) = "Reload" THEN "hash" ELSE "stop"]
  BY DEF Inv, TypeOK, Receive, At, Goto
<1>2. /\ Len(commands') \in Nat /\ Len(commands) = Len(commands') + 1
      /\ Head(commands) = commands[1]
      /\ \A i \in 1..Len(commands') : commands'[i] = commands[i + 1]
  BY <1>1
<1>3. Queued(1) => main'.pc = "hash"
  BY <1>1, <1>2 DEF Queued, MainStates
<1>4. ASSUME NEW i \in Nat, Queued(i), i # 1 PROVE i - 1 \in Nat /\ Queued(i - 1)'
  <2>1. i - 1 \in 1..Len(commands') /\ (i - 1) + 1 = i
    BY <1>2, <1>4 DEF Queued
  <2> QED BY <1>2, <1>4, <2>1 DEF Queued
<1>5. \A c \in Clients : Asking(c) => Asking(c)'
  BY <1>1 DEF Asking
<1> QED BY <1>1, <1>3, <1>4, <1>5 DEF PendingInv

LEMMA MainCarries ==
    ASSUME Inv, PendingInv, Edit \/ Signal \/ Start \/ Stop \/ Reload \/ UNCHANGED vars
    PROVE  PendingInv'
<1>1. main \in MainStates /\ control \in ControlStates /\ client \in [Clients -> Requests]
  BY DEF Inv, TypeOK
<1>2. CASE MarkReloadStarted \/ MarkReloadSucceeded \/ MarkReloadFailed
  <2>1. ~control'.pending
    BY <1>1, <1>2 DEF MarkReloadStarted, MarkReloadSucceeded, MarkReloadFailed, ControlStates
  <2> QED BY <2>1 DEF PendingInv
<1>3. CASE LoadCandidate
  <2>1. ~control'.pending
    BY <1>3 DEF LoadCandidate, At, Inv, FlagInv, Reloading
  <2> QED BY <2>1 DEF PendingInv
<1>4. CASE SetRunningVersion
  <2>1. /\ main.pc = "version" /\ UNCHANGED <<commands, client>>
        /\ control'.pending = control.pending
    BY <1>1, <1>4 DEF SetRunningVersion, At, ControlStates
  <2>2. \A c \in Clients : Asking(c) => Asking(c)'
    BY <2>1 DEF Asking
  <2> QED BY <2>1, <2>2, CarriedOn
<1>5. CASE ReadVersion
  <2>1. main'.pc = "mark"
    BY <1>1, <1>5 DEF ReadVersion, MainStates
  <2> QED BY <2>1 DEF PendingInv
<1>6. CASE Boot \/ FirstAssembly \/ Signal \/ Stop \/ StopPrevious \/ AssembleCandidate
           \/ RollBack
  <2>1. /\ main.pc \notin {"hash", "mark", "down"}
        /\ UNCHANGED <<commands, client, control>>
    BY <1>6 DEF Boot, FirstAssembly, Signal, Stop, StopPrevious, AssembleCandidate,
                RollBack, At
  <2>2. \A c \in Clients : Asking(c) => Asking(c)'
    BY <2>1 DEF Asking
  <2> QED BY <2>1, <2>2, CarriedOn
<1>7. CASE Edit \/ UNCHANGED vars
  <2>1. UNCHANGED <<commands, client, control, main>>
    BY <1>7 DEF Edit, vars
  <2>2. \A c \in Clients : Asking(c) => Asking(c)'
    BY <2>1 DEF Asking
  <2> QED BY <2>1, <2>2, CarriedOn
<1> QED BY <1>2, <1>3, <1>4, <1>5, <1>6, <1>7 DEF Start, Reload

LEMMA PendingHasRequest == Spec => []PendingInv
<1>1. Init => PendingInv
  BY DEF Init, PendingInv
<1>2. Inv /\ PendingInv /\ [Next]_vars => PendingInv'
  BY ClientCarries, ReceiveCarries, MainCarries DEF Next, Main
<1> QED BY <1>1, <1>2, Invariant, PTL DEF Spec

LEMMA AtMostOne ==
    ASSUME NEW S, \A x, y \in S : x = y
    PROVE  Cardinality(S) = IF S = {} THEN 0 ELSE 1
<1>1. CASE S = {}
  BY <1>1, FS_EmptySet
<1>2. CASE S # {}
  <2>1. PICK x \in S : S = {x}
    BY <1>2
  <2> QED BY <1>2, <2>1, FS_Singleton
<1> QED BY <1>1, <1>2

\* The controller's status never lies: pending stands for one request, on its way
\* from the client that made it to the main task's mark_reload_started, and
\* in_progress for the reload the main task is in (control.rs 335-386).
THEOREM StatusNeverLies == Spec => []StatusExact
<1>1. ASSUME Inv, PendingInv PROVE StatusExact
  <2> DEFINE Askers == {c \in Clients : client[c].command = "Reload"}
             Queue == {i \in 1..Len(commands) : commands[i] = "Reload"}
             Handled == IF main.pc \in {"hash", "mark"} THEN 1 ELSE 0
  <2>1. Len(commands) \in Nat
    BY <1>1 DEF Inv, TypeOK
  <2>2. /\ \A c : c \in Askers <=> c \in Clients /\ Asking(c)
        /\ \A i : i \in Queue <=> i \in Nat /\ Queued(i)
    BY <2>1 DEF Asking, Queued
  <2> HIDE DEF Askers, Queue
  <2>3. /\ \A c, d \in Askers : c = d
        /\ \A i, j \in Queue : i = j
        /\ Askers # {} => Queue = {} /\ Handled = 0 /\ control.pending
        /\ Queue # {} => Handled = 0 /\ control.pending
    BY <1>1, <2>2 DEF Inv, RequestInv
  <2>4. Handled = 1 => control.pending
    BY <1>1 DEF Inv, FlagInv
  <2>5. control.pending /\ main.pc # "down" => Askers # {} \/ Queue # {} \/ Handled = 1
    BY <1>1, <2>2 DEF PendingInv
  <2>6. /\ Cardinality(Askers) = IF Askers = {} THEN 0 ELSE 1
        /\ Cardinality(Queue) = IF Queue = {} THEN 0 ELSE 1
    BY <2>3, AtMostOne
  <2>7. Handled \in {0, 1}
    OBVIOUS
  <2> HIDE DEF Handled
  <2>8. main.pc # "down" =>
            Cardinality(Askers) + Cardinality(Queue) + Handled = IF control.pending THEN 1 ELSE 0
    BY <2>3, <2>4, <2>5, <2>6, <2>7
  <2>9. control.inProgress = (main.pc \in Reloading)
    BY <1>1 DEF Inv, FlagInv, TypeOK, ControlStates
  <2> QED BY <2>8, <2>9 DEF StatusExact, Askers, Queue, Handled
<1> QED BY <1>1, Invariant, PendingHasRequest, PTL

----
(* A shutdown that was asked for is on its way until the main task stops.   *)

StopAsked(c) == client[c].command = "Stop"
StopQueued(i) == i \in 1..Len(commands) /\ commands[i] = "Stop"

\* request_shutdown and request_restart answer before the command is sent, and
\* shutdown_requested is never cleared: nothing may come between the flag and
\* the end of the process that drops the command (control.rs 315-333).
ShutdownOnItsWay ==
    control.shutdown /\ main.pc # "down" =>
        \/ \E c \in Clients : StopAsked(c)
        \/ \E i \in Nat : StopQueued(i)
        \/ main.pc = "stop"

\* The commands on their way stay there.
LEMMA StopStays ==
    ASSUME ShutdownOnItsWay, control'.shutdown => control.shutdown,
           main.pc \in {"stop", "down"} => main'.pc \in {"stop", "down"},
           \A c \in Clients : StopAsked(c) => StopAsked(c)', UNCHANGED commands
    PROVE  ShutdownOnItsWay'
<1>1. \A i \in Nat : StopQueued(i) => StopQueued(i)'
  BY DEF StopQueued
<1> QED BY <1>1 DEF ShutdownOnItsWay

LEMMA ClientCarriesStop ==
    ASSUME Inv, ShutdownOnItsWay, NEW c \in Clients, Save(c) \/ Request(c)
    PROVE  ShutdownOnItsWay'
<1>1. client[c] \in Requests /\ Consistent(client[c]) /\ client \in [Clients -> Requests]
      /\ control \in ControlStates /\ commands \in Seq({"Reload", "Stop"})
  BY DEF Inv, TypeOK, ClientInv
<1>2. \A r : Advance(c, r) => \A d \in Clients : client'[d] = IF d = c THEN r ELSE client[d]
  BY <1>1 DEF Advance
<1>3. CASE Save(c) \/ ReloadBusy(c) \/ RequestReload(c)
  <2>1. ~StopAsked(c)
    BY <1>1, <1>3 DEF Save, BeginSave, Truncate, WriteBody, WriteFails, ReloadBusy,
                      RequestReload, StopAsked, Consistent
  <2>2. \E r : Advance(c, r)
    BY <1>3 DEF Save, BeginSave, Truncate, WriteBody, WriteFails, ReloadBusy, RequestReload
  <2>3. \A d \in Clients : StopAsked(d) => StopAsked(d)'
    BY <1>2, <2>1, <2>2 DEF StopAsked
  <2>4. main' = main /\ commands' = commands /\ control'.shutdown = control.shutdown
    BY <1>1, <1>3 DEF Save, BeginSave, Truncate, WriteBody, WriteFails, ReloadBusy,
                      RequestReload, ControlStates
  <2> QED BY <2>3, <2>4, StopStays
<1>4. CASE RequestStop(c)
  <2>1. [client[c] EXCEPT !.pc = "send", !.command = "Stop"].command = "Stop"
    BY <1>1 DEF Requests
  <2>2. StopAsked(c)'
    BY <1>2, <1>4, <2>1 DEF RequestStop, StopAsked
  <2> QED BY <2>2 DEF ShutdownOnItsWay
<1>5. CASE Send(c)
  <2>1. /\ commands' = Append(commands, client[c].command) /\ UNCHANGED <<control, main>>
        /\ \A d \in Clients : d # c => client'[d] = client[d]
        /\ client[c].command \in {"Reload", "Stop"}
    BY <1>1, <1>2, <1>5 DEF Send, Consistent, Requests
  <2>2. /\ Len(commands) \in Nat /\ Len(commands') = Len(commands) + 1
        /\ commands'[Len(commands) + 1] = client[c].command
        /\ \A i \in 1..Len(commands) : commands'[i] = commands[i]
    BY <1>1, <2>1
  <2>3. \A i \in Nat : StopQueued(i) => StopQueued(i)'
    BY <2>2 DEF StopQueued
  <2>4. StopAsked(c) => \E i \in Nat : StopQueued(i)'
    <3>1. PICK n \in Nat : n = Len(commands) + 1
      BY <2>2
    <3>2. n \in 1..Len(commands') /\ commands'[n] = client[c].command
      BY <2>2, <3>1
    <3> QED BY <3>2 DEF StopQueued, StopAsked
  <2>5. \A d \in Clients : d # c /\ StopAsked(d) => StopAsked(d)'
    BY <2>1 DEF StopAsked
  <2> QED BY <2>1, <2>3, <2>4, <2>5 DEF ShutdownOnItsWay
<1> QED BY <1>3, <1>4, <1>5 DEF Request

LEMMA ReceiveCarriesStop == ASSUME Inv, ShutdownOnItsWay, Receive PROVE ShutdownOnItsWay'
<1>1. commands \in Seq({"Reload", "Stop"}) /\ commands # <<>> /\ commands' = Tail(commands)
      /\ main \in MainStates /\ UNCHANGED <<control, client>> /\ main.pc = "wait"
      /\ main' = [main EXCEPT !.pc = IF Head(commands) = "Reload" THEN "hash" ELSE "stop"]
  BY DEF Inv, TypeOK, Receive, At, Goto
<1>2. /\ Len(commands') \in Nat /\ Len(commands) = Len(commands') + 1
      /\ Head(commands) = commands[1]
      /\ \A i \in 1..Len(commands') : commands'[i] = commands[i + 1]
  BY <1>1
<1>3. StopQueued(1) => main'.pc = "stop"
  BY <1>1, <1>2 DEF StopQueued, MainStates
<1>4. ASSUME NEW i \in Nat, StopQueued(i), i # 1 PROVE i - 1 \in Nat /\ StopQueued(i - 1)'
  <2>1. i - 1 \in 1..Len(commands') /\ (i - 1) + 1 = i
    BY <1>2, <1>4 DEF StopQueued
  <2> QED BY <1>2, <1>4, <2>1 DEF StopQueued
<1>5. \A c \in Clients : StopAsked(c) => StopAsked(c)'
  BY <1>1 DEF StopAsked
<1> QED BY <1>1, <1>3, <1>4, <1>5 DEF ShutdownOnItsWay

LEMMA MainCarriesStop ==
    ASSUME Inv, ShutdownOnItsWay, Edit \/ Signal \/ Start \/ Stop \/ Reload \/ UNCHANGED vars
    PROVE  ShutdownOnItsWay'
<1>1. main \in MainStates /\ control \in ControlStates /\ client \in [Clients -> Requests]
  BY DEF Inv, TypeOK
<1>2. commands' = commands /\ \A c \in Clients : StopAsked(c) => StopAsked(c)'
  <2>1. CASE LoadCandidate
    BY <1>1, <2>1 DEF LoadCandidate, StopAsked, Requests
  <2>2. CASE ~LoadCandidate
    BY <2>2 DEF Edit, Signal, Start, Stop, Reload, vars, StopAsked, Boot, FirstAssembly,
       SetRunningVersion, ReadVersion, MarkReloadStarted, StopPrevious, AssembleCandidate,
       RollBack, MarkReloadSucceeded, MarkReloadFailed, LoadCandidate
  <2>3. commands' = commands
    BY DEF Edit, Signal, Start, Stop, Reload, vars, Boot, FirstAssembly,
       SetRunningVersion, ReadVersion, MarkReloadStarted, StopPrevious, AssembleCandidate,
       RollBack, MarkReloadSucceeded, MarkReloadFailed, LoadCandidate
  <2> QED BY <2>1, <2>2, <2>3
<1>3. control'.shutdown => control.shutdown
  BY <1>1 DEF Edit, Signal, Start, Stop, Reload, vars, Boot, FirstAssembly, ControlStates,
     SetRunningVersion, ReadVersion, MarkReloadStarted, StopPrevious, AssembleCandidate,
     RollBack, MarkReloadSucceeded, MarkReloadFailed, LoadCandidate
<1>4. main.pc \in {"stop", "down"} => main'.pc \in {"stop", "down"}
  BY <1>1 DEF Edit, Signal, Start, Stop, Reload, vars, Boot, FirstAssembly, At, Goto, MainStates,
     SetRunningVersion, ReadVersion, MarkReloadStarted, StopPrevious, AssembleCandidate,
     RollBack, MarkReloadSucceeded, MarkReloadFailed, LoadCandidate
<1> QED BY <1>2, <1>3, <1>4, StopStays

\* A shutdown or restart that was accepted is never lost: until the process is
\* down its command is with the client that sends it, in the channel or with the
\* main task, whatever reloads, failures and roll-backs come first.
THEOREM ShutdownIsNotLost == Spec => []ShutdownOnItsWay
<1>1. Init => ShutdownOnItsWay
  BY DEF Init, ShutdownOnItsWay
<1>2. Inv /\ ShutdownOnItsWay /\ [Next]_vars => ShutdownOnItsWay'
  BY ClientCarriesStop, ReceiveCarriesStop, MainCarriesStop DEF Next, Main
<1> QED BY <1>1, <1>2, Invariant, PTL DEF Spec
=============================================================================
