----------------------------- MODULE Connection -----------------------------
(***************************************************************************)
(* One connection to an upstream server, its callers, its background tasks *)
(* and close, which any of them may call                                   *)
(* (src/src/infra/network/upstream/conn/{tcp,udp,quic,h2,h3}.rs).  The     *)
(* five kinds share one protocol: a query looks at `closed`, registers     *)
(* itself, looks again, sends and waits; close sets the flag, cancels what *)
(* is registered and notifies the tasks.  TCP (and TLS) and UDP register   *)
(* in the request map, here the abstract RequestTable that RequestMap      *)
(* implements; QUIC, H2 and H3 only count.                                 *)
(*                                                                         *)
(* An action is one access to what the threads share, with what its thread *)
(* does by itself before the next one.  A query's channel is the pair of   *)
(* the query and its attempt (UDP makes two).                              *)
(***************************************************************************)
EXTENDS Naturals, FiniteSets

CONSTANTS
    Kinds,      \* the kinds of connection, of AllKinds
    Calls,      \* the query calls, each made once
    Ids, NoId,  \* the wire ids of the request map
    NoCall,     \* the sender task holds no query
    Patient     \* the calls whose deadline leaves time for a second attempt

AllKinds == {"tcp", "udp", "quic", "h2", "h3"}
Tasks == {"listener", "sender", "driver"}
Channels == Calls \X {1, 2}

ASSUME ConnectionAssumption ==
    /\ Kinds \subseteq AllKinds
    /\ Calls \cap (Tasks \cup {"pool"}) = {}
    /\ NoId \notin Ids /\ NoCall \notin Calls
    /\ Patient \subseteq Calls /\ IsFiniteSet(Calls)

VARIABLES
    kind,       \* the kind of this connection
    closed,     \* the closed flag
    entries, guard, rx,  \* the request map, as RequestTable has it
    due,        \* the entries that were there when clear began
    count,      \* using_count of the kinds without a map
    fut,        \* per task: its Notified future
    link,       \* quic, h2, h3: the transport works
    queue,      \* tcp: the calls queued for the sender task
    writing,    \* tcp: the call whose query the sender task is writing
    attempt,    \* udp: the attempt each call is at
    pc          \* the place of each call, of each task and of the pool

table == <<entries, guard, rx>>
shared == <<closed, due, count, fut, link>>
tcp == <<queue, writing>>
vars == <<kind, closed, entries, guard, rx, due, count, fut, link, queue,
          writing, attempt, pc>>

Table == INSTANCE RequestTable WITH Queries <- Channels, closing <- closed

Mapped == kind \in {"tcp", "udp"}
TasksOf(k) == CASE k = "tcp" -> {"listener", "sender"}
                [] k = "udp" -> {"listener"}
                [] OTHER -> {"driver"}

Init ==
    /\ kind \in Kinds
    /\ Table!Init
    /\ due = {} /\ count = 0 /\ link = TRUE
    /\ fut = [t \in Tasks |-> "none"]
    /\ queue = {} /\ writing = NoCall
    /\ attempt = [q \in Calls |-> 1]
    /\ pc = [a \in Calls \cup Tasks \cup {"pool"} |->
                CASE a \in TasksOf(kind) -> "top"
                  [] a = "pool" -> "close"
                  [] OTHER -> "idle"]

Goto(a, label) == pc' = [pc EXCEPT ![a] = label]
Chan(q) == <<q, attempt[q]>>
Over(q) == pc[q] \in {"idle", "ok", "failed"}
-----------------------------------------------------------------------------
(***************************************************************************)
(* close: one caller wins the swap, cancels, and notifies.                 *)
(***************************************************************************)
AfterClose(a) == CASE a \in Calls -> "leave"
                   [] a = "driver" /\ kind = "h3" -> "draining"
                   [] OTHER -> "ended"

\* Mutant of CloseSwap: the map is not cleared.
CloseSwapOnly(a) ==
    /\ pc[a] = "close"
    /\ Goto(a, AfterClose(a))
    /\ closed' = TRUE /\ link' = (link /\ kind # "quic")
    /\ fut' = [t \in Tasks |-> IF fut[t] = "live" THEN "woken" ELSE fut[t]]
    /\ UNCHANGED <<kind, table, due, count, tcp, attempt>>

CloseSwap(a) ==
    /\ pc[a] = "close"
    /\ IF closed
       THEN Goto(a, AfterClose(a)) /\ UNCHANGED <<closed, due, link>>
       ELSE /\ closed' = TRUE
            /\ due' = entries
            /\ Goto(a, "clear")
            /\ link' = (link /\ kind # "quic")
    /\ UNCHANGED <<kind, table, count, fut, tcp, attempt>>

\* clear meets the entries it finds one by one; what it found stored when it
\* began is out of the table when it ends.
ClearStep(a) ==
    /\ pc[a] = "clear"
    /\ Table!ClearOne
    /\ UNCHANGED <<kind, due, count, fut, link, tcp, attempt, pc>>

\* Then close_notify.notify_waiters.
CloseNotify(a) ==
    /\ pc[a] = "clear" /\ due \cap entries = {} /\ due' = {}
    /\ fut' = [t \in Tasks |-> IF fut[t] = "live" THEN "woken" ELSE fut[t]]
    /\ Goto(a, AfterClose(a))
    /\ UNCHANGED <<kind, closed, table, count, link, tcp, attempt>>

Closing(a) == ClearStep(a) \/ CloseNotify(a)
CloseStep(a) == CloseSwap(a) \/ Closing(a)

\* The transport of a QUIC, H2 or H3 connection breaks, or the server ends it.
\* (Reads and writes of TCP and UDP may fail at any time.)
LinkDown ==
    /\ ~Mapped /\ link /\ link' = FALSE
    /\ UNCHANGED <<kind, closed, table, due, count, fut, tcp, attempt, pc>>
-----------------------------------------------------------------------------
(***************************************************************************)
(* query.                                                                  *)
(***************************************************************************)
Begin(q) ==
    /\ pc[q] = "idle"
    /\ Goto(q, IF closed THEN "failed" ELSE "register")
    /\ UNCHANGED <<kind, table, shared, tcp, attempt>>

\* RequestGuard::drop or remove: its id, when it is found, leaves the map.
DropGuard(q) ==
    \/ Table!Remove(Chan(q))
    \/ Table!Disarm(Chan(q))
    \/ guard[Chan(q)] = NoId /\ UNCHANGED <<table, closed>>

\* request_map.store, or using_count + 1 with its guard.
Register(q) ==
    /\ pc[q] = "register"
    /\ \/ Mapped /\ (\E id \in Ids : Table!Store(Chan(q), id))
          /\ Goto(q, "recheck") /\ UNCHANGED count
       \/ Mapped /\ Table!StoreFails(Chan(q))
          /\ Goto(q, "failed") /\ UNCHANGED count
       \/ ~Mapped /\ count' = count + 1
          /\ Goto(q, "recheck") /\ UNCHANGED <<table, closed>>
    /\ UNCHANGED <<kind, due, fut, link, tcp, attempt>>

\* Mutant of Recheck: the second look at the flag is dropped.
RecheckNot(q) ==
    /\ pc[q] = "recheck"
    /\ Goto(q, "send")
    /\ UNCHANGED <<kind, table, shared, tcp, attempt>>

Recheck(q) ==
    /\ pc[q] = "recheck"
    /\ Goto(q, IF closed THEN "leave" ELSE "send")
    /\ UNCHANGED <<kind, table, shared, tcp, attempt>>

\* tcp: the query is queued and the flag read a third time; the channel
\* refuses it once the sender task has ended, and the guard is dropped before
\* the close.
Enqueue(q) ==
    /\ pc[q] = "send" /\ kind = "tcp"
    /\ IF pc["sender"] = "ended"
       THEN DropGuard(q) /\ Goto(q, "close") /\ UNCHANGED queue
       ELSE /\ Goto(q, "sent") /\ queue' = queue \cup {q}
            /\ UNCHANGED <<table, closed>>
    /\ UNCHANGED <<kind, due, count, fut, link, writing, attempt>>

RecheckSent(q) ==
    /\ pc[q] = "sent"
    /\ Goto(q, IF closed THEN "leave" ELSE "await")
    /\ UNCHANGED <<kind, table, shared, tcp, attempt>>

\* The others write by themselves.  A failed write closes the connection; H2
\* and H3 first encode the query, which may fail too.
Send(q) ==
    /\ pc[q] = "send" /\ kind # "tcp"
    /\ \/ link /\ Goto(q, "await")
       \/ Goto(q, "close")
       \/ kind \in {"h2", "h3"} /\ Goto(q, "leave")
    /\ UNCHANGED <<kind, table, shared, tcp, attempt>>

\* rx.await ends: the answer disarms the guard; a cancelled channel ends the
\* query, or the attempt.
Received(q) ==
    /\ pc[q] = "await" /\ Mapped
    /\ \/ rx[Chan(q)] = "answered" /\ Table!Disarm(Chan(q)) /\ Goto(q, "ok")
       \/ rx[Chan(q)] = "dropped" /\ UNCHANGED <<table, closed>>
          /\ Goto(q, IF kind = "udp" THEN "retry" ELSE "leave")
    /\ UNCHANGED <<kind, due, count, fut, link, tcp, attempt>>

\* udp: the wait of one attempt is over.
AttemptElapsed(q) ==
    /\ pc[q] = "await" /\ kind = "udp"
    /\ Goto(q, "retry")
    /\ UNCHANGED <<kind, table, shared, tcp, attempt>>

\* The stream is answered; H2 and H3 fail on a bad status or body.
StreamAnswered(q) ==
    /\ pc[q] = "await" /\ ~Mapped /\ link
    /\ \/ count' = count - 1 /\ Goto(q, "ok")
       \/ kind # "quic" /\ Goto(q, "leave") /\ UNCHANGED count
    /\ UNCHANGED <<kind, closed, table, due, fut, link, tcp, attempt>>

\* The stream breaks, by itself or with the transport: the query closes.
StreamBreaks(q) ==
    /\ pc[q] = "await" /\ ~Mapped
    /\ Goto(q, "close")
    /\ UNCHANGED <<kind, table, shared, tcp, attempt>>

\* The caller's deadline drops the future where it is suspended.
Cancelled(q) ==
    /\ pc[q] \in (IF kind \in {"tcp", "h2"} THEN {"await"} ELSE {"send", "await"})
    /\ Goto(q, "leave")
    /\ UNCHANGED <<kind, table, shared, tcp, attempt>>

\* Mutant of Leave: a failed query does not give its count back.
LeaveCounted(q) ==
    /\ pc[q] = "leave"
    /\ IF Mapped THEN DropGuard(q) ELSE UNCHANGED <<table, closed>>
    /\ Goto(q, "failed")
    /\ UNCHANGED <<kind, due, count, fut, link, tcp, attempt>>

\* The query fails, and what it registered goes with it.
Leave(q) ==
    /\ pc[q] = "leave"
    /\ IF Mapped
       THEN DropGuard(q) /\ UNCHANGED count
       ELSE count' = count - 1 /\ UNCHANGED <<table, closed>>
    /\ Goto(q, "failed")
    /\ UNCHANGED <<kind, due, fut, link, tcp, attempt>>

\* udp: on to the second attempt if there is one, and time for it.
Retry(q) ==
    /\ pc[q] = "retry"
    /\ DropGuard(q)
    /\ \/ attempt[q] = 1 /\ q \in Patient
          /\ attempt' = [attempt EXCEPT ![q] = 2]
          /\ Goto(q, "register")
       \/ Goto(q, "failed") /\ UNCHANGED attempt
    /\ UNCHANGED <<kind, due, count, fut, link, tcp>>
-----------------------------------------------------------------------------
(***************************************************************************)
(* The background tasks.  wait_for_close creates its future, then reads    *)
(* the flag; the drivers of QUIC, H2 and H3 only create a future.          *)
(***************************************************************************)
End(t) ==
    /\ Goto(t, IF t = "driver" /\ kind = "h3" THEN "draining" ELSE "ended")
    /\ fut' = [fut EXCEPT ![t] = "none"]

Arm(t) ==
    /\ pc[t] = "top"
    /\ fut' = [fut EXCEPT ![t] = "live"]
    /\ Goto(t, IF t = "driver" THEN "select" ELSE "armed")
    /\ UNCHANGED <<kind, closed, table, due, count, link, tcp, attempt>>

ReadFlag(t) ==
    /\ pc[t] = "armed"
    /\ IF closed THEN End(t) ELSE Goto(t, "select") /\ UNCHANGED fut
    /\ UNCHANGED <<kind, closed, table, due, count, link, tcp, attempt>>

\* The driver of H2 owns the transport, which ends with it.
Woken(t) ==
    /\ pc[t] = "select" /\ fut[t] = "woken"
    /\ End(t)
    /\ link' = (link /\ kind # "h2")
    /\ UNCHANGED <<kind, closed, table, due, count, tcp, attempt>>

\* listener: a message of any id, which may be nobody's.
Listen ==
    /\ pc["listener"] = "select" /\ Goto("listener", "top")
    /\ (\E id \in Ids : Table!Take(id)) \/ UNCHANGED <<table, closed>>
    /\ UNCHANGED <<kind, due, count, fut, link, tcp, attempt>>

\* A read error closes a TCP connection; the UDP listener goes on unless the
\* connection is closed.
ListenFails ==
    /\ pc["listener"] = "select"
    /\ \/ kind = "tcp" /\ Goto("listener", "close") /\ UNCHANGED fut
       \/ kind = "udp" /\ closed /\ End("listener")
       \/ kind = "udp" /\ ~closed /\ Goto("listener", "top") /\ UNCHANGED fut
    /\ UNCHANGED <<kind, closed, table, due, count, link, tcp, attempt>>

\* sender: a query out of the queue, then the write, both beside a wait.
Dequeue ==
    /\ pc["sender"] = "select" /\ writing = NoCall
    /\ \E q \in queue : queue' = queue \ {q} /\ writing' = q
    /\ Goto("sender", "top")
    /\ UNCHANGED <<kind, table, shared, attempt>>

Write ==
    /\ pc["sender"] = "select" /\ writing # NoCall
    /\ writing' = NoCall
    /\ Goto("sender", "top") \/ Goto("sender", "close")
    /\ UNCHANGED <<kind, table, shared, queue, attempt>>

\* driver: the transport is gone.  The one of H3 polls it to the end anyway.
DriverLinkDown ==
    /\ pc["driver"] = "select" /\ ~link
    /\ Goto("driver", "close")
    /\ UNCHANGED <<kind, table, shared, tcp, attempt>>

DriverDrained ==
    /\ pc["driver"] = "draining" /\ ~link
    /\ Goto("driver", "ended")
    /\ UNCHANGED <<kind, table, shared, tcp, attempt>>
-----------------------------------------------------------------------------
CallStep(q) ==
    \/ Register(q) \/ Recheck(q) \/ Enqueue(q) \/ RecheckSent(q) \/ Send(q)
    \/ Received(q) \/ Leave(q) \/ Retry(q) \/ CloseStep(q)

TaskStep(t) ==
    \/ Arm(t) \/ ReadFlag(t) \/ Woken(t) \/ CloseStep(t)
    \/ t = "driver" /\ (DriverLinkDown \/ DriverDrained)

Next ==
    \/ \E q \in Calls :
        \/ Begin(q) \/ CallStep(q) \/ AttemptElapsed(q) \/ Cancelled(q)
        \/ StreamAnswered(q) \/ StreamBreaks(q)
    \/ \E t \in Tasks : TaskStep(t)
    \/ Listen \/ ListenFails \/ Dequeue \/ Write
    \/ CloseStep("pool") \/ LinkDown

Spec == Init /\ [][Next]_vars

\* Threads run.  Nothing is promised of the network or of the pool, which may
\* never close: answers, errors, writes and time-outs may stay away; a stream
\* of a broken transport ends.
Fairness ==
    /\ \A q \in Calls : WF_vars(CallStep(q) \/ (~link /\ StreamBreaks(q)))
    /\ \A t \in Tasks : WF_vars(TaskStep(t))
    /\ WF_vars(Closing("pool"))

FairSpec == Spec /\ Fairness
-----------------------------------------------------------------------------
\* Every variable keeps its type.
TypeOK ==
    /\ kind \in Kinds /\ closed \in BOOLEAN /\ link \in BOOLEAN
    /\ entries \subseteq Channels \X Ids /\ due \subseteq Channels \X Ids
    /\ guard \in [Channels -> Ids \cup {NoId}]
    /\ rx \in [Channels -> {"open", "answered", "dropped"}]
    /\ count \in Nat
    /\ fut \in [Tasks -> {"none", "live", "woken"}]
    /\ queue \subseteq Calls /\ writing \in Calls \cup {NoCall}
    /\ attempt \in [Calls -> {1, 2}]
    /\ pc \in [Calls \cup Tasks \cup {"pool"} ->
                {"idle", "register", "recheck", "send", "sent", "await",
                 "retry", "leave", "ok", "failed", "close", "clear",
                 "top", "armed", "select", "draining", "ended"}]

\* Once clear is through, no query waits on a channel that nothing will end:
\* whichever way the close falls between its two looks at the flag and its
\* store, either the query sees the flag or clear drops its entry.
NoQueryLeftBehind ==
    /\ TypeOK
    /\ (Mapped /\ closed /\ \A a \in DOMAIN pc : pc[a] # "clear") =>
        \A q \in Calls : pc[q] = "await" => rx[Chan(q)] # "open"

\* using_count of QUIC, H2 and H3 is the number of queries under way, however
\* each of them ends: the pool balances and retires connections by it.
UsingCountExact ==
    ~Mapped => count = Cardinality({q \in Calls :
        ~Over(q) /\ pc[q] # "register"})

\* Close unblocks every query of a TCP, UDP or QUIC connection, without the
\* time-outs of the callers.
CloseEndsQueries ==
    (kind \in {"tcp", "udp", "quic"} /\ closed) ~> (\A q \in Calls : Over(q))

\* Close ends the background tasks, which hold the socket, wherever it finds
\* them: a blocked write and a wait that has not read the flag included.
CloseEndsTasks ==
    (kind \in {"tcp", "udp", "quic"} /\ closed)
        ~> (\A t \in TasksOf(kind) : pc[t] = "ended")

\* One close, by whoever finds the connection dead, ends everything on it.
CloseEnds == CloseEndsQueries /\ CloseEndsTasks
=============================================================================
