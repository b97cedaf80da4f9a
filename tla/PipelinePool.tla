---------------------------- MODULE PipelinePool ----------------------------
(***************************************************************************)
(* The pipelining connection pool of an upstream                           *)
(* (src/src/infra/network/upstream/pool/pipeline.rs): queries share at     *)
(* most MaxSize connections, each with at most MaxLoad queries in flight;  *)
(* a query that finds no capacity parks on a tokio Notify.                 *)
(*                                                                         *)
(* Tasks are the queries (each may run any number of times), Maintainer is *)
(* the periodic maintenance task; release_notified is the Notify.  A slot  *)
(* is named by its connection.                                             *)
(* An action is one atomic access to shared state, or several of one       *)
(* thread of which all but one commute with the other threads: the two     *)
(* loads of `state` and `available` (both only ever fall), a load followed *)
(* by a CAS that is retried when it fails, one pass over the slot vector.  *)
(* A notify_waiters belongs to the step it announces: a task registering   *)
(* in between would be woken too, which only sends it round once more.     *)
(***************************************************************************)
EXTENDS Integers, FiniteSets, Notify

CONSTANTS
    Maintainer,  \* the maintenance task
    MaxSize,     \* max_size
    MinSize,     \* min_size
    MaxLoad,     \* max_load
    MaxConns,    \* bound: connections ever created
    Policies     \* timeout policies explored: {"Reuse", "Retire", "Close"}

ASSUME PoolAssumption ==
    /\ MaxSize \in Nat \ {0} /\ MaxLoad \in Nat \ {0} /\ MaxConns \in Nat
    /\ MinSize \in 0 .. MaxSize
    /\ Maintainer \notin Tasks /\ IsFiniteSet(Tasks)
    /\ Policies \subseteq {"Reuse", "Retire", "Close"}

Conns == 1 .. MaxConns
Procs == Tasks \cup {Maintainer}

VARIABLES
    slots,     \* the connections in the ArcSwap vector
    reserved,  \* reserved_slots
    created,   \* connections created so far (next_id)
    state,     \* per connection: the slot's state, "none" before it exists
    alive,     \* per connection: Connection::available
    inflight,  \* per connection: the slot's inflight counter
    pc, loc,   \* place and locals of each thread
    sweep      \* locals of one maintenance pass

conns == <<created, state, alive, inflight>>
vars == <<slots, reserved, created, state, alive, inflight, wait, permit,
          pc, loc, sweep>>

(***************************************************************************)
(* Locals: slots of the loaded vector still to be tried, the slot being    *)
(* worked on (0: none), whether it is the one this thread just created,    *)
(* the value of reserved_slots read, and expansions still wanted.          *)
(***************************************************************************)
Locals == [todo : SUBSET Conns, at : 0 .. MaxConns, fresh : BOOLEAN,
           seen : Nat, want : Nat]
Blank == [todo |-> {}, at |-> 0, fresh |-> FALSE, seen |-> 0, want |-> 0]

\* keep, idle_candidates, close_after_swap, whether the vector loaded at the
\* start is still the current one (Arc::ptr_eq), and a slot's state as read.
NoSweep == [keep |-> {}, idle |-> {}, drop |-> {}, current |-> TRUE,
            state |-> "none"]

Init ==
    /\ slots = {} /\ reserved = 0 /\ created = 0
    /\ state = [c \in Conns |-> "none"]
    /\ alive = [c \in Conns |-> FALSE]
    /\ inflight = [c \in Conns |-> 0]
    /\ NotifyInit
    /\ pc = [p \in Procs |-> IF p = Maintainer /\ MinSize > 0
                             THEN "expand" ELSE "idle"]
    /\ loc = [p \in Procs |-> Blank]
    /\ sweep = NoSweep

Goto(p, label) == pc' = [pc EXCEPT ![p] = label]
Usable(c) == state[c] = "ACTIVE" /\ alive[c]
DrainedUnusable(c) == state[c] # "ACTIVE" /\ inflight[c] = 0
Kept(S) == {c \in S : ~DrainedUnusable(c)}

\* Installing a new vector makes the one a sweep has loaded stale.
Install(S) ==
    /\ slots' = S
    /\ sweep' = [sweep EXCEPT !.current = @ /\ S = slots]

\* PipelineSlot::close with the close of its connection.
Close(c) ==
    /\ state' = [state EXCEPT ![c] = "CLOSED"]
    /\ alive' = [alive EXCEPT ![c] = FALSE]
-----------------------------------------------------------------------------
(***************************************************************************)
(* acquire: try_acquire_existing, then try_reserve_slot and expand_one,    *)
(* then the same once more as a registered waiter, then park.              *)
(***************************************************************************)
LoadSlots(t) ==
    /\ pc[t] \in {"idle", "load"}
    /\ loc' = [loc EXCEPT ![t] = [Blank EXCEPT !.todo = slots]]
    /\ Goto(t, "scan")
    /\ UNCHANGED <<slots, reserved, conns, notify, sweep>>

\* A slot that could not be acquired: go on with the vector, or, for a slot
\* this thread created itself, wake the others and retry or park.
TryNext(t, c) ==
    IF loc[t].fresh
    THEN /\ NotifyWaiters
         /\ loc' = [loc EXCEPT ![t] = Blank]
         /\ Goto(t, IF wait[t] = "none" THEN "load" ELSE "park")
    ELSE /\ loc' = [loc EXCEPT ![t].todo = @ \ {c}, ![t].at = 0]
         /\ Goto(t, "scan")
         /\ UNCHANGED notify

\* The next slot in round-robin order, which may start anywhere.
Try(t, c) ==
    /\ pc[t] = "scan" /\ c \in loc[t].todo
    /\ IF Usable(c)
       THEN /\ loc' = [loc EXCEPT ![t].at = c]
            /\ Goto(t, "count")
            /\ UNCHANGED notify
       ELSE TryNext(t, c)
    /\ UNCHANGED <<slots, reserved, conns, sweep>>

\* Mutant of CountIn: the load limit is off by one.
CountInOver(t) ==
    /\ pc[t] = "count"
    /\ IF inflight[loc[t].at] <= MaxLoad
       THEN /\ inflight' = [inflight EXCEPT ![loc[t].at] = @ + 1]
            /\ Goto(t, "recheck")
            /\ UNCHANGED <<loc, notify>>
       ELSE TryNext(t, loc[t].at) /\ UNCHANGED inflight
    /\ UNCHANGED <<slots, reserved, created, state, alive, sweep>>

CountIn(t) ==
    /\ pc[t] = "count"
    /\ IF inflight[loc[t].at] < MaxLoad
       THEN /\ inflight' = [inflight EXCEPT ![loc[t].at] = @ + 1]
            /\ Goto(t, "recheck")
            /\ UNCHANGED <<loc, notify>>
       ELSE TryNext(t, loc[t].at) /\ UNCHANGED inflight
    /\ UNCHANGED <<slots, reserved, created, state, alive, sweep>>

\* The lease is returned, which drops the waiter of the second round.
Lease(t) ==
    /\ pc[t] = "recheck" /\ Usable(loc[t].at)
    /\ DropWaiter(t)
    /\ loc' = [loc EXCEPT ![t] = [Blank EXCEPT !.at = loc[t].at]]
    /\ Goto(t, "leased")
    /\ UNCHANGED <<slots, reserved, conns, sweep>>

\* release_without_notify after the re-check failed.
Undo(t) ==
    /\ pc[t] = "recheck" /\ ~Usable(loc[t].at)
    /\ LET c == loc[t].at
       IN  /\ inflight' = [inflight EXCEPT ![c] = @ - 1]
           /\ IF inflight[c] = 1 /\ state[c] # "ACTIVE"
              THEN Close(c) ELSE UNCHANGED <<state, alive>>
    /\ TryNext(t, loc[t].at)
    /\ UNCHANGED <<slots, reserved, created, sweep>>

\* No slot could be acquired: try_reserve_slot reads reserved_slots ...
ReadReserved(p) ==
    /\ pc[p] = "reserve" \/ (pc[p] = "scan" /\ loc[p].todo = {})
    /\ loc' = [loc EXCEPT ![p].seen = reserved]
    /\ Goto(p, "prune")
    /\ UNCHANGED <<slots, reserved, conns, notify, sweep>>

\* ... counts the slots that are usable or in use, and prunes the others,
\* unless another thread replaces the vector meanwhile (left open) ...
Prune(p) ==
    /\ pc[p] = "prune"
    /\ \/ Install(Kept(slots))
          /\ IF Kept(slots) # slots THEN NotifyWaiters ELSE UNCHANGED notify
       \/ UNCHANGED <<slots, notify, sweep>>
    /\ Goto(p, IF Cardinality(Kept(slots)) + loc[p].seen < MaxSize THEN "cas"
               ELSE IF p = Maintainer THEN "idle"
               ELSE IF wait[p] = "none" THEN "enable" ELSE "park")
    /\ UNCHANGED <<reserved, conns, loc>>

\* ... and takes the reservation if reserved_slots still has that value.
Reserve(p) ==
    /\ pc[p] = "cas"
    /\ IF reserved = loc[p].seen
       THEN reserved' = reserved + 1 /\ Goto(p, "connect")
       ELSE UNCHANGED reserved /\ Goto(p, "reserve")
    /\ UNCHANGED <<slots, conns, notify, loc, sweep>>

\* Mutant of Register: parking without the second look at the pool.
RegisterAndPark(t) ==
    /\ pc[t] = "enable"
    /\ Enable(t)
    /\ Goto(t, "park")
    /\ UNCHANGED <<slots, reserved, conns, loc, sweep>>

Register(t) ==
    /\ pc[t] = "enable"
    /\ Enable(t)
    /\ Goto(t, "load")
    /\ UNCHANGED <<slots, reserved, conns, loc, sweep>>

Wake(t) ==
    /\ pc[t] = "park" /\ Notified(t)
    /\ Goto(t, "load")
    /\ UNCHANGED <<slots, reserved, conns, loc, sweep>>

\* The deadline passes, or the caller drops the query's future.
GiveUp(t) ==
    /\ pc[t] \in {"park", "backoff"}
    /\ DropWaiter(t)
    /\ Goto(t, "idle")
    /\ loc' = [loc EXCEPT ![t] = Blank]
    /\ UNCHANGED <<slots, reserved, conns, sweep>>

\* wait_backoff ends; `continue` drops the waiter of the second round.
Retry(t) ==
    /\ pc[t] = "backoff"
    /\ DropWaiter(t)
    /\ Goto(t, "load")
    /\ UNCHANGED <<slots, reserved, conns, loc, sweep>>
-----------------------------------------------------------------------------
(***************************************************************************)
(* expand_one, for a query or for the maintenance task.                    *)
(***************************************************************************)
Connected(p) ==
    /\ pc[p] = "connect" /\ created < MaxConns
    /\ created' = created + 1
    /\ state' = [state EXCEPT ![created + 1] = "ACTIVE"]
    /\ alive' = [alive EXCEPT ![created + 1] = TRUE]
    /\ loc' = [loc EXCEPT ![p].at = created + 1]
    /\ Goto(p, "insert")
    /\ UNCHANGED <<slots, reserved, inflight, notify, sweep>>

\* A query that got no connection backs off; an error ends a maintenance
\* run, a refusal only this one of its expansions.
AfterExpansion(p) ==
    /\ loc' = [loc EXCEPT ![p] = [Blank EXCEPT !.want = loc[p].want - 1]]
    /\ Goto(p, IF loc[p].want > 1 THEN "reserve" ELSE "idle")
BackOff(p) == loc' = [loc EXCEPT ![p] = Blank] /\ Goto(p, "backoff")

\* The reservation is dropped; a query whose deadline passed or that is
\* cancelled then gives up from "backoff".
ConnectFailed(p) ==
    /\ pc[p] = "connect"
    /\ reserved' = reserved - 1
    /\ NotifyWaiters
    /\ Goto(p, IF p = Maintainer THEN "idle" ELSE "backoff")
    /\ loc' = [loc EXCEPT ![p] = Blank]
    /\ UNCHANGED <<slots, conns, sweep>>

\* Mutant of Insert: the reservation is trusted, the vector not counted again.
InsertTrusting(p) ==
    /\ pc[p] = "insert"
    /\ Install(Kept(slots) \cup {loc[p].at})
    /\ Goto(p, "commit")
    /\ UNCHANGED <<reserved, conns, notify, loc>>

\* insert_slot: rcu drops drained unusable slots and refuses a full vector.
Insert(p) ==
    /\ pc[p] = "insert" /\ Cardinality(Kept(slots)) < MaxSize
    /\ Install(Kept(slots) \cup {loc[p].at})
    /\ Goto(p, "commit")
    /\ UNCHANGED <<reserved, conns, notify, loc>>

InsertRefused(p) ==
    /\ pc[p] = "insert" /\ Cardinality(Kept(slots)) >= MaxSize
    /\ Install(Kept(slots))
    /\ Close(loc[p].at)
    /\ reserved' = reserved - 1
    /\ NotifyWaiters
    /\ IF p = Maintainer THEN AfterExpansion(p) ELSE BackOff(p)
    /\ UNCHANGED <<created, inflight>>

\* reservation.commit and notify_waiters; a query tries its new slot, the
\* maintenance task goes on with the expansions it wants.
Commit(p) ==
    /\ pc[p] = "commit"
    /\ reserved' = reserved - 1
    /\ NotifyWaiters
    /\ IF p = Maintainer
       THEN AfterExpansion(p)
       ELSE /\ loc' = [loc EXCEPT ![p] = [Blank EXCEPT !.todo = {loc[p].at},
                                     !.at = loc[p].at, !.fresh = TRUE]]
            /\ Goto(p, "scan")
    /\ UNCHANGED <<slots, conns, sweep>>
-----------------------------------------------------------------------------
(***************************************************************************)
(* query, after acquire.                                                   *)
(***************************************************************************)
\* The connection answered or failed the query.
Completed(t) ==
    /\ pc[t] = "leased"
    /\ IF alive[loc[t].at]
       THEN UNCHANGED <<state, alive, notify>>
       ELSE Close(loc[t].at) /\ NotifyWaiters
    /\ Goto(t, "release")
    /\ UNCHANGED <<slots, reserved, created, inflight, loc, sweep>>

\* Mutant of Expired: retire stores RETIRING, even over CLOSED.
ExpiredStoring(t) ==
    /\ pc[t] = "leased"
    /\ state' = [state EXCEPT ![loc[t].at] = "RETIRING"]
    /\ NotifyWaiters
    /\ Goto(t, "release")
    /\ UNCHANGED <<slots, reserved, created, alive, inflight, loc, sweep>>

\* PipelineSlot::retire is a CAS from ACTIVE; the lease counts as in flight,
\* so that it does not close the slot here.
Expired(t) ==
    /\ pc[t] = "leased"
    /\ \E policy \in Policies :
        \/ policy = "Reuse" /\ UNCHANGED <<state, alive, notify>>
        \/ /\ policy = "Retire"
           /\ state' = [state EXCEPT ![loc[t].at] =
                            IF @ = "ACTIVE" THEN "RETIRING" ELSE @]
           /\ NotifyWaiters
           /\ UNCHANGED alive
        \/ policy = "Close" /\ Close(loc[t].at) /\ NotifyWaiters
    /\ Goto(t, "release")
    /\ UNCHANGED <<slots, reserved, created, inflight, loc, sweep>>

\* The query's future is dropped while it waits for the response.
Cancelled(t) ==
    /\ pc[t] = "leased"
    /\ Goto(t, "release")
    /\ UNCHANGED <<slots, reserved, conns, notify, loc, sweep>>

\* PipelineLease::drop: PipelineSlot::release.
Release(t) ==
    /\ pc[t] = "release"
    /\ inflight' = [inflight EXCEPT ![loc[t].at] = @ - 1]
    /\ Goto(t, IF inflight[loc[t].at] = 1 THEN "drain" ELSE "notify")
    /\ UNCHANGED <<slots, reserved, created, state, alive, notify, loc, sweep>>

CloseDrained(t) ==
    /\ pc[t] = "drain"
    /\ IF state[loc[t].at] # "ACTIVE"
       THEN Close(loc[t].at) ELSE UNCHANGED <<state, alive>>
    /\ Goto(t, "notify")
    /\ UNCHANGED <<slots, reserved, created, inflight, notify, loc, sweep>>

NotifyReleased(t) ==
    /\ pc[t] = "notify"
    /\ NotifyOne(wait)
    /\ loc' = [loc EXCEPT ![t] = Blank]
    /\ Goto(t, "idle")
    /\ UNCHANGED <<slots, reserved, conns, sweep>>

\* The connection's own tasks close it: the peer hung up, a read or write
\* failed.  The slot's state does not change.
Die(c) ==
    /\ alive[c]
    /\ alive' = [alive EXCEPT ![c] = FALSE]
    /\ UNCHANGED <<slots, reserved, created, state, inflight, notify, pc, loc,
                   sweep>>
-----------------------------------------------------------------------------
(***************************************************************************)
(* maintain.                                                               *)
(***************************************************************************)
MaintainEmpty ==
    /\ pc[Maintainer] = "idle" /\ slots = {} /\ MinSize > 0
    /\ Goto(Maintainer, "expand")
    /\ UNCHANGED <<slots, reserved, conns, notify, loc, sweep>>

\* expand: how many connections it will try to add.
Wanted(len) == IF len >= MinSize THEN 1 ELSE MinSize - len

Expand ==
    /\ pc[Maintainer] = "expand"
    /\ IF Cardinality(slots) >= MaxSize
       THEN Goto(Maintainer, "idle") /\ UNCHANGED loc
       ELSE /\ loc' = [loc EXCEPT ![Maintainer] =
                           [Blank EXCEPT !.want = Wanted(Cardinality(slots))]]
            /\ Goto(Maintainer, "reserve")
    /\ UNCHANGED <<slots, reserved, conns, notify, sweep>>

MaintainStart ==
    /\ pc[Maintainer] = "idle" /\ slots # {}
    /\ loc' = [loc EXCEPT ![Maintainer] = [Blank EXCEPT !.todo = slots]]
    /\ sweep' = NoSweep
    /\ Goto(Maintainer, "classify")
    /\ UNCHANGED <<slots, reserved, conns, notify>>

\* maintain reads a slot's state, then its inflight counter ...
Inspect(c) ==
    /\ pc[Maintainer] = "classify" /\ c \in loc[Maintainer].todo
    /\ loc' = [loc EXCEPT ![Maintainer].todo = @ \ {c}, ![Maintainer].at = c]
    /\ sweep' = [sweep EXCEPT !.state = state[c]]
    /\ Goto(Maintainer, "inflight")
    /\ UNCHANGED <<slots, reserved, conns, notify>>

ReadInflight ==
    /\ pc[Maintainer] = "inflight"
    /\ loc' = [loc EXCEPT ![Maintainer].seen = inflight[loc[Maintainer].at]]
    /\ Goto(Maintainer, "judge")
    /\ UNCHANGED <<slots, reserved, conns, notify, sweep>>

\* ... and then whether its connection is available.  A usable slot without
\* queries is an idle candidate if it was last used long enough ago, which is
\* left open.
Classify ==
    /\ pc[Maintainer] = "judge"
    /\ LET c == loc[Maintainer].at
           busy == loc[Maintainer].seen > 0
           usable == sweep.state = "ACTIVE" /\ alive[c]
       IN  \/ /\ usable
              /\ sweep' = [sweep EXCEPT !.keep = @ \cup {c}]
              /\ UNCHANGED <<state, alive>>
           \/ /\ usable /\ ~busy
              /\ sweep' = [sweep EXCEPT !.idle = @ \cup {c}]
              /\ UNCHANGED <<state, alive>>
           \/ /\ ~usable /\ busy
              /\ sweep' = [sweep EXCEPT !.keep = @ \cup {c}]
              /\ IF sweep.state = "RETIRING" THEN UNCHANGED <<state, alive>>
                                          ELSE Close(c)
           \/ /\ ~usable /\ ~busy
              /\ sweep' = [sweep EXCEPT !.drop = @ \cup {c}]
              /\ Close(c)
    /\ loc' = [loc EXCEPT ![Maintainer].at = 0, ![Maintainer].seen = 0]
    /\ Goto(Maintainer, "classify")
    /\ UNCHANGED <<slots, reserved, created, inflight, notify>>

\* Idle candidates fill the pool up to min_size.
TopUp ==
    /\ pc[Maintainer] = "classify" /\ loc[Maintainer].todo = {}
    /\ LET missing == IF Cardinality(sweep.keep) < MinSize
                      THEN MinSize - Cardinality(sweep.keep) ELSE 0
       IN  \E S \in SUBSET sweep.idle :
             /\ Cardinality(S) = IF missing < Cardinality(sweep.idle)
                                 THEN missing ELSE Cardinality(sweep.idle)
             /\ sweep' = [sweep EXCEPT !.keep = @ \cup S, !.idle = @ \ S]
    /\ Goto(Maintainer, "evict")
    /\ UNCHANGED <<slots, reserved, conns, notify, loc>>

\* close_if_idle reads inflight ...
IdleCheck(c) ==
    /\ pc[Maintainer] = "evict" /\ c \in sweep.idle
    /\ IF inflight[c] # 0
       THEN /\ sweep' = [sweep EXCEPT !.keep = @ \cup {c}, !.idle = @ \ {c}]
            /\ UNCHANGED <<loc, pc>>
       ELSE /\ loc' = [loc EXCEPT ![Maintainer].at = c]
            /\ Goto(Maintainer, "evictCas")
            /\ UNCHANGED sweep
    /\ UNCHANGED <<slots, reserved, conns, notify>>

\* ... and then changes the state, whatever inflight has become.
IdleClose ==
    /\ pc[Maintainer] = "evictCas"
    /\ LET c == loc[Maintainer].at
       IN  IF state[c] = "ACTIVE" \/ inflight[c] = 0
           THEN /\ Close(c)
                /\ sweep' = [sweep EXCEPT !.drop = @ \cup {c}, !.idle = @ \ {c}]
           ELSE /\ sweep' = [sweep EXCEPT !.keep = @ \cup {c}, !.idle = @ \ {c}]
                /\ UNCHANGED <<state, alive>>
    /\ loc' = [loc EXCEPT ![Maintainer].at = 0]
    /\ Goto(Maintainer, "evict")
    /\ UNCHANGED <<slots, reserved, created, inflight, notify>>

\* Mutant of Swap: the kept slots are stored, whatever the vector has become.
SwapBlindly ==
    /\ pc[Maintainer] = "evict" /\ sweep.idle = {}
    /\ slots' = sweep.keep
    /\ IF sweep.drop = {} THEN UNCHANGED notify ELSE NotifyWaiters
    /\ Goto(Maintainer, IF Cardinality(sweep.keep) < MinSize
                        THEN "expand" ELSE "idle")
    /\ loc' = [loc EXCEPT ![Maintainer] = Blank]
    /\ sweep' = NoSweep
    /\ UNCHANGED <<reserved, conns>>

\* The kept slots are installed, unless the vector has changed meanwhile.
Swap ==
    /\ pc[Maintainer] = "evict" /\ sweep.idle = {}
    /\ slots' = IF sweep.current THEN sweep.keep ELSE slots
    /\ IF sweep.current /\ sweep.drop = {} THEN UNCHANGED notify ELSE NotifyWaiters
    /\ Goto(Maintainer, IF sweep.current /\ Cardinality(sweep.keep) < MinSize
                        THEN "expand" ELSE "idle")
    /\ loc' = [loc EXCEPT ![Maintainer] = Blank]
    /\ sweep' = NoSweep
    /\ UNCHANGED <<reserved, conns>>
-----------------------------------------------------------------------------
Acquire(t) ==
    \/ LoadSlots(t) \/ CountIn(t) \/ Lease(t) \/ Undo(t) \/ Register(t)
    \/ Wake(t) \/ GiveUp(t) \/ Retry(t) \/ \E c \in Conns : Try(t, c)
ExpandOne(p) ==
    \/ ReadReserved(p) \/ Prune(p) \/ Reserve(p) \/ Connected(p)
    \/ ConnectFailed(p) \/ Insert(p) \/ InsertRefused(p) \/ Commit(p)
UseLease(t) ==
    \/ Completed(t) \/ Expired(t) \/ Cancelled(t) \/ Release(t)
    \/ CloseDrained(t) \/ NotifyReleased(t)
Maintain ==
    \/ MaintainEmpty \/ Expand \/ MaintainStart \/ ReadInflight \/ Classify
    \/ TopUp \/ IdleClose \/ Swap \/ \E c \in Conns : Inspect(c) \/ IdleCheck(c)

Next ==
    \/ \E t \in Tasks : Acquire(t) \/ UseLease(t)
    \/ \E p \in Procs : ExpandOne(p)
    \/ Maintain
    \/ \E c \in Conns : Die(c)

Spec == Init /\ [][Next]_vars
-----------------------------------------------------------------------------
Labels == {"idle", "load", "scan", "count", "recheck", "leased",
           "reserve", "prune", "cas", "enable", "park", "backoff", "connect",
           "insert", "commit", "release", "drain", "notify", "expand", "classify",
           "inflight", "judge", "evict", "evictCas"}

\* Every variable keeps its type.
TypeOK ==
    /\ slots \subseteq Conns /\ reserved \in Nat /\ created \in 0 .. MaxConns
    /\ state \in [Conns -> {"none", "ACTIVE", "RETIRING", "CLOSED"}]
    /\ alive \in [Conns -> BOOLEAN] /\ inflight \in [Conns -> Nat]
    /\ NotifyTypeOK
    /\ pc \in [Procs -> Labels] /\ loc \in [Procs -> Locals]
    /\ sweep \in [keep : SUBSET Conns, idle : SUBSET Conns,
                  drop : SUBSET Conns, current : BOOLEAN,
                  state : {"none", "ACTIVE", "RETIRING", "CLOSED"}]

(***************************************************************************)
(* "Maximum number of connections allowed": although reservations may be   *)
(* taken on stale counts and the vector is rebuilt by several threads,     *)
(* never more than max_size connections are open, not counting the one a   *)
(* thread is about to insert or to close.                                  *)
(***************************************************************************)
PoolBounded ==
    Cardinality({c \in Conns : alive[c]})
        <= MaxSize + Cardinality({p \in Procs : pc[p] \in {"insert", "drain"}})

(***************************************************************************)
(* The counters the pool decides by tell the truth: inflight is the number *)
(* of queries that have counted themselves in and not yet out (so it never *)
(* underflows and no connection carries more than max_load leases), and    *)
(* reserved_slots the number of threads building a connection.             *)
(***************************************************************************)
CountersExact ==
    /\ TypeOK
    /\ \A c \in Conns :
        /\ inflight[c] = Cardinality({t \in Tasks : loc[t].at = c /\
                              pc[t] \in {"recheck", "leased", "release"}})
        /\ inflight[c] <= MaxLoad
    /\ reserved = Cardinality({p \in Procs :
                      pc[p] \in {"connect", "insert", "commit"}})

(***************************************************************************)
(* No connection is forgotten: one that has left the vector (or was        *)
(* refused by it) and that no thread still works on has been closed.       *)
(***************************************************************************)
NoForgottenConnection ==
    \A c \in 1 .. created :
        \/ c \in slots
        \/ state[c] = "CLOSED"
        \/ \E p \in Procs : loc[p].at = c

\* A connection is closed once and its slot never serves again.
ClosedIsFinal == [][\A c \in Conns : state[c] = "CLOSED" => state'[c] = "CLOSED"]_vars

(***************************************************************************)
(* No waiter is stranded: acquire registers before it looks a last time,   *)
(* so that when every query is idle or parked and not notified, and no     *)
(* maintenance is running, the pool has no capacity it could use: what     *)
(* fills it is a connection that died and is still in the vector.  (That   *)
(* happens: usable_or_inflight_slot_count counts an ACTIVE slot without    *)
(* queries whose connection has died, and only the next maintenance run    *)
(* removes it, the waiters' deadlines permitting.)                         *)
(***************************************************************************)
Parked(t) == pc[t] = "park" /\ wait[t] = "waiting"
Stranded ==
    /\ pc[Maintainer] = "idle"
    /\ \E t \in Tasks : Parked(t)
    /\ \A t \in Tasks : Parked(t) \/ pc[t] = "idle"
NoStrandedWaiter ==
    Stranded => \E c \in slots : ~alive[c]

=============================================================================
