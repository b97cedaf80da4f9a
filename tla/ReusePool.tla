------------------------------ MODULE ReusePool ------------------------------
(***************************************************************************)
(* The borrowing connection pool of an upstream                            *)
(* (src/src/infra/network/upstream/pool/reuse.rs): a query takes an idle   *)
(* connection out of a queue or creates one, and gives it back when it is  *)
(* answered; at most MaxSize connections are counted in active_count, and  *)
(* a query that finds neither parks on a tokio Notify.                     *)
(*                                                                         *)
(* Tasks are the queries (each may run any number of times), Maintainer is *)
(* the periodic maintenance task.  An action is one atomic access to       *)
(* shared state (the queue, active_count, the Notify, a connection), with  *)
(* what its thread does by itself before the next one.  A notify_waiters   *)
(* belongs to the step it announces: a task registering in between would   *)
(* be woken too, which only sends it round once more.                      *)
(***************************************************************************)
EXTENDS Integers, FiniteSets, Sequences, Notify

CONSTANTS
    Maintainer,  \* the maintenance task
    MaxSize,     \* max_size
    MinSize,     \* min_size
    MaxConns,    \* bound: connections ever created
    MaxSweeps,   \* bound: maintenance runs that look through the queue
    CountRange   \* active_count wraps at this value (usize)

ASSUME ReuseAssumption ==
    /\ MaxSize \in Nat \ {0} /\ MinSize \in 0 .. MaxSize
    /\ MaxConns \in Nat /\ MaxSweeps \in Nat
    /\ CountRange \in Nat /\ CountRange > MaxSize + 1
    /\ Maintainer \notin Tasks

Conns == 1 .. MaxConns
Procs == Tasks \cup {Maintainer}

VARIABLES
    queue,    \* connections: the idle connections, oldest first
    active,   \* active_count
    created,  \* connections created so far (next_id)
    alive,    \* the connections that are available
    pc,       \* the place of each thread
    at,       \* the connection each thread holds, 0 if none
    left,     \* the Maintainer's loop counter (check_count, want)
    drops,    \* its drop_vec
    sweeps    \* maintenance runs so far

conns == <<created, alive>>
locals == <<left, drops, sweeps>>
vars == <<queue, active, created, alive, wait, permit, pc, at, left, drops,
          sweeps>>

\* min_size > 0 spawns an expansion when the pool is built; the next run of
\* maintenance comes after it.
Init ==
    /\ queue = <<>> /\ active = 0 /\ created = 0 /\ alive = {}
    /\ NotifyInit
    /\ pc = [p \in Procs |-> IF p = Maintainer /\ MinSize > 0
                             THEN "expand" ELSE "idle"]
    /\ at = [p \in Procs |-> 0]
    /\ left = 0 /\ drops = {} /\ sweeps = 0

Goto(p, label) == pc' = [pc EXCEPT ![p] = label]
Take(p, c) == at' = [at EXCEPT ![p] = c]
Full == Len(queue) = MaxSize

\* fetch_add(1) and fetch_sub(1).
CountUp == active' = (active + 1) % CountRange
CountDown == active' = (active - 1) % CountRange
-----------------------------------------------------------------------------
(***************************************************************************)
(* get: pop an idle connection, else reserve a place and create one; then  *)
(* the same once more as a registered waiter, then park.                   *)
(***************************************************************************)
\* Mutant of Pop: the head is looked at and left in the queue.
PopPeeking(t) ==
    /\ pc[t] \in {"idle", "get"}
    /\ IF queue = <<>>
       THEN Goto(t, "reserve") /\ UNCHANGED at
       ELSE Take(t, Head(queue)) /\ Goto(t, "check")
    /\ UNCHANGED <<queue, active, conns, notify, locals>>

Pop(t) ==
    /\ pc[t] \in {"idle", "get"}
    /\ IF queue = <<>>
       THEN Goto(t, "reserve") /\ UNCHANGED <<queue, at>>
       ELSE /\ Take(t, Head(queue)) /\ queue' = Tail(queue)
            /\ Goto(t, "check")
    /\ UNCHANGED <<active, conns, notify, locals>>

\* A borrowed connection is returned, which drops the waiter of the second
\* round; a dead one is closed.
Borrow(t) ==
    /\ pc[t] = "check" /\ at[t] \in alive
    /\ DropWaiter(t)
    /\ Goto(t, "borrowed")
    /\ UNCHANGED <<queue, active, conns, at, locals>>

\* close_active_connection of a dead connection; the second round starts over
\* without its registration, whose notification nobody is left to take.
DiscardDead(t) ==
    /\ pc[t] = "check" /\ at[t] \notin alive
    /\ CountDown
    /\ wait' = [u \in Tasks |-> IF u = t THEN "none"
                                ELSE IF wait[u] = "waiting" THEN "woken" ELSE wait[u]]
    /\ Take(t, 0)
    /\ Goto(t, IF wait[t] = "none" THEN "reserve" ELSE "get")
    /\ permit' = (permit \/ wait[t] = "one")
    /\ UNCHANGED <<queue, conns, locals>>

\* Mutant of Reserve: the limit is off by one.
ReserveOneMore(p) ==
    /\ pc[p] = "reserve"
    /\ IF active <= MaxSize
       THEN active' = active + 1 /\ Goto(p, "connect")
       ELSE /\ UNCHANGED active
            /\ Goto(p, IF p = Maintainer THEN "idle"
                       ELSE IF wait[p] = "none" THEN "enable" ELSE "park")
    /\ UNCHANGED <<queue, conns, notify, at, locals>>

\* try_reserve_active.
Reserve(p) ==
    /\ pc[p] = "reserve"
    /\ IF active < MaxSize
       THEN active' = active + 1 /\ Goto(p, "connect")
       ELSE /\ UNCHANGED active
            /\ Goto(p, IF p = Maintainer THEN "idle"
                       ELSE IF wait[p] = "none" THEN "enable" ELSE "park")
    /\ UNCHANGED <<queue, conns, notify, at, locals>>

Register(t) ==
    /\ pc[t] = "enable"
    /\ Enable(t)
    /\ Goto(t, "get")
    /\ UNCHANGED <<queue, active, conns, at, locals>>

\* create_reserved_connection succeeds: the query borrows the connection, the
\* maintenance task queues it.
Connected(p) ==
    /\ pc[p] = "connect" /\ created < MaxConns
    /\ created' = created + 1
    /\ alive' = alive \cup {created + 1}
    /\ Take(p, created + 1)
    /\ IF p = Maintainer
       THEN Goto(p, "put") /\ UNCHANGED notify
       ELSE Goto(p, "borrowed") /\ DropWaiter(p)
    /\ UNCHANGED <<queue, active, locals>>

\* The next of the connections that expand wants.
NextExpansion ==
    /\ left' = left - 1
    /\ Goto(Maintainer, IF left > 1 THEN "reserve" ELSE "idle")

\* Mutant of ConnectFailed: the place of a failed attempt is not given back.
ConnectFailedLeaking(p) ==
    /\ pc[p] = "connect"
    /\ NotifyWaiters
    /\ IF p = Maintainer
       THEN NextExpansion \/ (left' = 0 /\ Goto(p, "idle"))
       ELSE Goto(p, "backoff") /\ UNCHANGED left
    /\ UNCHANGED <<queue, active, conns, at, drops, sweeps>>

\* The reservation is dropped.  A query whose deadline has passed or that is
\* cancelled meanwhile gives up from "backoff"; a failure that used up the
\* deadline ends the maintenance run.
ConnectFailed(p) ==
    /\ pc[p] = "connect"
    /\ CountDown
    /\ NotifyWaiters
    /\ IF p = Maintainer
       THEN NextExpansion \/ (left' = 0 /\ Goto(p, "idle"))
       ELSE Goto(p, "backoff") /\ UNCHANGED left
    /\ UNCHANGED <<queue, conns, at, drops, sweeps>>

Wake(t) ==
    /\ pc[t] = "park" /\ Notified(t)
    /\ Goto(t, "get")
    /\ UNCHANGED <<queue, active, conns, at, locals>>

\* wait_backoff ends; `continue` drops the waiter of the second round.
Retry(t) ==
    /\ pc[t] = "backoff"
    /\ DropWaiter(t)
    /\ Goto(t, "get")
    /\ UNCHANGED <<queue, active, conns, at, locals>>

\* The deadline passes, or the caller drops the query's future.
GiveUp(t) ==
    /\ pc[t] \in {"park", "backoff"}
    /\ DropWaiter(t)
    /\ Goto(t, "idle")
    /\ UNCHANGED <<queue, active, conns, at, locals>>
-----------------------------------------------------------------------------
(***************************************************************************)
(* query, after get.  release looks at the connection again, puts it back  *)
(* and wakes one waiter; close_active_connection frees its place and wakes *)
(* all.                                                                    *)
(***************************************************************************)
\* Answered, failed, or timed out under the policy Reuse.
Completed(t) ==
    /\ pc[t] = "borrowed"
    /\ Goto(t, IF at[t] \in alive THEN "release" ELSE "discard")
    /\ UNCHANGED <<queue, active, conns, notify, at, locals>>

\* Timed out under the policies Retire and Close, or the future is dropped.
Abandoned(t) ==
    /\ pc[t] = "borrowed"
    /\ Goto(t, "discard")
    /\ UNCHANGED <<queue, active, conns, notify, at, locals>>

Release(t) ==
    /\ pc[t] = "release"
    /\ IF at[t] \in alive /\ ~Full
       THEN /\ queue' = Append(queue, at[t]) /\ Take(t, 0)
            /\ Goto(t, "notify")
       ELSE Goto(t, "discard") /\ UNCHANGED <<queue, at>>
    /\ UNCHANGED <<active, conns, notify, locals>>

NotifyReleased(t) ==
    /\ pc[t] = "notify"
    /\ NotifyOne(wait)
    /\ Goto(t, "idle")
    /\ UNCHANGED <<queue, active, conns, at, locals>>

\* Mutant of Discard: a close frees a place without waking anyone.
DiscardQuietly(p) ==
    /\ pc[p] = "discard"
    /\ alive' = alive \ {at[p]}
    /\ CountDown
    /\ Take(p, 0)
    /\ IF p = Maintainer THEN NextExpansion
                         ELSE Goto(p, "idle") /\ UNCHANGED left
    /\ UNCHANGED <<queue, created, notify, drops, sweeps>>

\* close_active_connection of an open connection, or of one that died while
\* it was used; the maintenance task does so when the queue is full.
Discard(p) ==
    /\ pc[p] = "discard"
    /\ alive' = alive \ {at[p]}
    /\ CountDown
    /\ NotifyWaiters
    /\ Take(p, 0)
    /\ IF p = Maintainer THEN NextExpansion
                         ELSE Goto(p, "idle") /\ UNCHANGED left
    /\ UNCHANGED <<queue, created, drops, sweeps>>

\* The connection's own tasks close it: the peer hung up, a read or write
\* failed.
Die(c) ==
    /\ c \in alive
    /\ alive' = alive \ {c}
    /\ UNCHANGED <<queue, active, created, notify, pc, at, locals>>
-----------------------------------------------------------------------------
(***************************************************************************)
(* maintain: pop each queued connection once and put it back, drop or      *)
(* close it; put dropped ones back up to min_size; expand.                 *)
(***************************************************************************)
MaintainStart ==
    /\ pc[Maintainer] = "idle" /\ sweeps < MaxSweeps
    /\ sweeps' = sweeps + 1
    /\ left' = Len(queue)
    /\ Goto(Maintainer, IF queue = <<>> THEN "lack" ELSE "sweep")
    /\ UNCHANGED <<queue, active, conns, notify, at, drops>>

SweepPop ==
    /\ pc[Maintainer] = "sweep"
    /\ IF left = 0 \/ queue = <<>>
       THEN Goto(Maintainer, "topUp") /\ left' = 0 /\ UNCHANGED <<queue, at>>
       ELSE /\ Take(Maintainer, Head(queue)) /\ queue' = Tail(queue)
            /\ left' = left - 1
            /\ Goto(Maintainer, "judge")
    /\ UNCHANGED <<active, conns, notify, drops, sweeps>>

\* Whether a connection has been idle for too long is left open.
Judge ==
    /\ pc[Maintainer] = "judge"
    /\ LET c == at[Maintainer]
       IN  \/ /\ c \in alive
              /\ Goto(Maintainer, "putBack")
              /\ UNCHANGED <<active, at, drops>>
           \/ /\ CountDown
              /\ drops' = IF c \in alive THEN drops \cup {c} ELSE drops
              /\ Take(Maintainer, 0)
              /\ Goto(Maintainer, "sweep")
    /\ UNCHANGED <<queue, conns, notify, left, sweeps>>

PutBack ==
    /\ pc[Maintainer] = "putBack"
    /\ IF Full
       THEN Goto(Maintainer, "overflow") /\ UNCHANGED <<queue, at>>
       ELSE /\ queue' = Append(queue, at[Maintainer]) /\ Take(Maintainer, 0)
            /\ Goto(Maintainer, "sweep")
    /\ UNCHANGED <<active, conns, notify, locals>>

\* The queue had no room for it.
Overflow ==
    /\ pc[Maintainer] = "overflow"
    /\ drops' = drops \cup {at[Maintainer]} /\ CountDown
    /\ Take(Maintainer, 0)
    /\ Goto(Maintainer, "sweep")
    /\ UNCHANGED <<queue, conns, notify, left, sweeps>>

TopUp ==
    /\ pc[Maintainer] = "topUp"
    /\ Goto(Maintainer, IF active < MinSize /\ drops # {} THEN "spare" ELSE "close")
    /\ UNCHANGED <<queue, active, conns, notify, at, locals>>

Spare ==
    /\ pc[Maintainer] = "spare"
    /\ IF Full
       THEN Goto(Maintainer, "close") /\ UNCHANGED <<queue, drops>>
       ELSE \E c \in drops :
              /\ queue' = Append(queue, c) /\ drops' = drops \ {c}
              /\ Goto(Maintainer, "recount")
    /\ UNCHANGED <<active, conns, notify, at, left, sweeps>>

Recount ==
    /\ pc[Maintainer] = "recount"
    /\ CountUp
    /\ Goto(Maintainer, "topUp")
    /\ UNCHANGED <<queue, conns, notify, at, locals>>

CloseDropped ==
    /\ pc[Maintainer] = "close"
    /\ alive' = alive \ drops /\ drops' = {}
    /\ Goto(Maintainer, "lack")
    /\ UNCHANGED <<queue, active, created, notify, at, left, sweeps>>

Lack ==
    /\ pc[Maintainer] = "lack"
    /\ Goto(Maintainer, IF active < MinSize THEN "expand" ELSE "idle")
    /\ UNCHANGED <<queue, active, conns, notify, at, locals>>

\* expand: how many connections it will try to add.
Expand ==
    /\ pc[Maintainer] = "expand"
    /\ IF active >= MaxSize
       THEN Goto(Maintainer, "idle") /\ UNCHANGED left
       ELSE /\ left' = IF active >= MinSize THEN 1 ELSE MinSize - active
            /\ Goto(Maintainer, "reserve")
    /\ UNCHANGED <<queue, active, conns, notify, at, drops, sweeps>>

\* A new connection is queued and one waiter woken.
Put ==
    /\ pc[Maintainer] = "put"
    /\ IF Full
       THEN Goto(Maintainer, "discard") /\ UNCHANGED <<queue, at>>
       ELSE /\ queue' = Append(queue, at[Maintainer]) /\ Take(Maintainer, 0)
            /\ Goto(Maintainer, "notify")
    /\ UNCHANGED <<active, conns, notify, locals>>

NotifyPut ==
    /\ pc[Maintainer] = "notify"
    /\ NotifyOne(wait)
    /\ NextExpansion
    /\ UNCHANGED <<queue, active, conns, at, drops, sweeps>>
-----------------------------------------------------------------------------
Get(t) ==
    \/ Pop(t) \/ Borrow(t) \/ DiscardDead(t) \/ Register(t) \/ Wake(t)
    \/ Retry(t) \/ GiveUp(t)
Use(t) == Completed(t) \/ Abandoned(t) \/ Release(t) \/ NotifyReleased(t)
Maintain ==
    \/ MaintainStart \/ SweepPop \/ Judge \/ PutBack \/ Overflow \/ TopUp
    \/ Spare \/ Recount \/ CloseDropped \/ Lack \/ Expand \/ Put \/ NotifyPut

Next ==
    \/ \E t \in Tasks : Get(t) \/ Use(t)
    \/ \E p \in Procs : Reserve(p) \/ Connected(p) \/ ConnectFailed(p) \/ Discard(p)
    \/ Maintain
    \/ \E c \in Conns : Die(c)

Spec == Init /\ [][Next]_vars
-----------------------------------------------------------------------------
TaskLabels == {"idle", "get", "check", "reserve", "enable", "connect", "park",
               "backoff", "borrowed", "release", "notify", "discard"}
MaintainerLabels == {"idle", "lack", "sweep", "judge", "putBack", "overflow",
                     "topUp", "spare", "recount", "close", "expand", "reserve",
                     "connect", "put", "notify", "discard"}

\* Every variable keeps its type.
TypeOK ==
    /\ queue \in Seq(Conns) /\ Len(queue) <= MaxSize
    /\ active \in 0 .. CountRange - 1 /\ created \in 0 .. MaxConns
    /\ alive \subseteq Conns
    /\ NotifyTypeOK
    /\ pc \in [Procs -> TaskLabels \cup MaintainerLabels]
    /\ at \in [Procs -> 0 .. MaxConns]
    /\ left \in Nat /\ drops \subseteq Conns /\ sweeps \in 0 .. MaxSweeps

Queued(c) == \E i \in 1 .. Len(queue) : queue[i] = c
Holders(c) == {p \in Procs : at[p] = c}

(***************************************************************************)
(* "Reuse pools borrow/return connections for single requests": a          *)
(* connection is in one place at a time, so no two queries ever share one: *)
(* queued once, or borrowed or worked on by one thread, or about to be     *)
(* dropped by maintenance; one that is in none of these places is closed.  *)
(***************************************************************************)
OnePlace ==
    /\ TypeOK
    /\ \A c \in Conns :
        LET places == Cardinality({i \in 1 .. Len(queue) : queue[i] = c})
                      + Cardinality(Holders(c)) + (IF c \in drops THEN 1 ELSE 0)
        IN  places <= 1 /\ (c \in alive => places = 1)

(***************************************************************************)
(* active_count is the number of connections queued or held and of places  *)
(* reserved for one being built, except between putting a dropped          *)
(* connection back and counting it again (a query may meanwhile take it    *)
(* and close it, and the counter wraps below zero for that time).          *)
(***************************************************************************)
ActiveExact ==
    LET counted == active + (IF pc[Maintainer] = "recount" THEN 1 ELSE 0)
    IN  counted % CountRange
        = Len(queue) + Cardinality({p \in Procs : at[p] # 0 \/ pc[p] = "connect"})

(***************************************************************************)
(* "Maximum number of connections allowed" (the comment on max_size), not  *)
(* counting those that maintenance is about to close.  The queries keep to *)
(* it.  Maintenance may put one connection back whose place a query has    *)
(* taken meanwhile, and never a second one.                                *)
(***************************************************************************)
WithinMaxSize ==
    Cardinality(alive \ drops) <= MaxSize + (IF sweeps = 0 THEN 0 ELSE 1)

(***************************************************************************)
(* A waiter "will observe a later notify_waiters from a close that frees   *)
(* capacity", and a released connection is not lost (the comment in get),  *)
(* as far as queries (and the expansions that fill the pool) go: as long   *)
(* as no maintenance has looked through the queue, no state is reached     *)
(* where every query is idle or parked and not notified and one is parked. *)
(* Maintenance does strand waiters: it closes connections and wakes nobody.*)
(***************************************************************************)
Parked(t) == pc[t] = "park" /\ wait[t] = "waiting"
QueriesStrandNoWaiter ==
    sweeps = 0 /\ pc[Maintainer] = "idle" /\ (\E t \in Tasks : Parked(t))
        => \E t \in Tasks : ~(Parked(t) \/ pc[t] = "idle")
=============================================================================
