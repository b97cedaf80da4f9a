---------------------------- MODULE RequestTable ----------------------------
(***************************************************************************)
(* What the request map of an upstream connection promises to those who    *)
(* use it (src/src/infra/network/upstream/conn/request_map.rs): a table of *)
(* entries, each the sender of one query under one id.  Every operation is *)
(* one step.  A query stores at most once and its channel ends at most     *)
(* once, with the step that takes its entry out.                           *)
(*                                                                         *)
(* Weaknesses of the real map are part of the promise: a store may fail,   *)
(* two entries may have the same id, and a look-up may miss an entry that  *)
(* is there.                                                               *)
(***************************************************************************)
EXTENDS Integers

CONSTANTS
    Queries,    \* the query tasks, also the identities of their senders
    Ids,        \* the wire ids
    NoId        \* no guard is held

VARIABLES
    entries,    \* the table: pairs of a sender and the id it is stored under
    guard,      \* per query: the id its armed RequestGuard stands for
    rx,         \* what the receiving half of each query's channel sees
    closing     \* clear has been called

vars == <<entries, guard, rx, closing>>

Init ==
    /\ entries = {}
    /\ guard = [q \in Queries |-> NoId]
    /\ rx = [q \in Queries |-> "open"]
    /\ closing = FALSE

Stored(q) == \E id \in Ids : <<q, id>> \in entries

\* The sender of q leaves the table, and its channel ends as given.
Leave(q, id, outcome) ==
    /\ <<q, id>> \in entries
    /\ entries' = entries \ {<<q, id>>}
    /\ rx' = [rx EXCEPT ![q] = outcome]

\* store returns Stored(id), and a guard for the id is armed.
Store(q, id) ==
    /\ ~Stored(q) /\ guard[q] = NoId /\ rx[q] = "open"
    /\ entries' = entries \cup {<<q, id>>}
    /\ guard' = [guard EXCEPT ![q] = id]
    /\ UNCHANGED <<rx, closing>>

\* store gives up, and drops the sender.
StoreFails(q) ==
    /\ ~Stored(q) /\ guard[q] = NoId /\ rx[q] = "open"
    /\ rx' = [rx EXCEPT ![q] = "dropped"]
    /\ UNCHANGED <<entries, guard, closing>>

\* take, whose caller answers with the sender.
Take(id) ==
    /\ \E q \in Queries : Leave(q, id, "answered")
    /\ UNCHANGED <<guard, closing>>

\* The guard of q is disarmed after the answer, or removes its id.
Disarm(q) ==
    /\ guard[q] # NoId
    /\ guard' = [guard EXCEPT ![q] = NoId]
    /\ UNCHANGED <<entries, rx, closing>>

Remove(q) ==
    /\ guard[q] # NoId
    /\ guard' = [guard EXCEPT ![q] = NoId]
    /\ \E r \in Queries : Leave(r, guard[q], "dropped")
    /\ UNCHANGED closing

\* clear begins; then it drops the entries it meets one by one.
ClearStart ==
    /\ ~closing /\ closing' = TRUE
    /\ UNCHANGED <<entries, guard, rx>>

ClearOne ==
    /\ closing
    /\ \E q \in Queries, id \in Ids : Leave(q, id, "dropped")
    /\ UNCHANGED <<guard, closing>>

Next ==
    \/ \E q \in Queries, id \in Ids : Store(q, id)
    \/ \E q \in Queries : StoreFails(q) \/ Disarm(q) \/ Remove(q)
    \/ \E id \in Ids : Take(id)
    \/ ClearStart \/ ClearOne

Spec == Init /\ [][Next]_vars
=============================================================================
