----------------------------- MODULE RequestMap -----------------------------
(***************************************************************************)
(* The lock-free request/response correlation map of an upstream           *)
(* connection (src/src/infra/network/upstream/conn/request_map.rs), at the *)
(* granularity of its atomic operations.                                   *)
(*                                                                         *)
(* Each member of Queries is one query task: it stores the sender of its   *)
(* response channel, waits, and ends by disarming its guard (it got the    *)
(* answer) or by dropping it (timeout, cancellation, closed connection),   *)
(* which detaches its own id.  Listener is the reader task, which takes    *)
(* whatever id the upstream sends (late and duplicated responses           *)
(* included).  Closer is the one thread that clears the map when the       *)
(* connection is closed.  The sender of a query is the query itself.       *)
(*                                                                         *)
(* Every action is one atomic access.  A load followed by a CAS is one     *)
(* action where a failing CAS only repeats the load (claim_slot, the FULL  *)
(* arm of clear) or changes nothing (reset_tombstones), and two actions    *)
(* where a failing CAS moves on (detach, the TOMBSTONE arm of clear).      *)
(***************************************************************************)
EXTENDS Integers, FiniteSets

CONSTANTS
    Queries,    \* the query tasks, also the identities of their senders
    Listener,   \* the task that reads responses
    Closer,     \* the thread that closes the connection
    None,       \* no sender
    SlotCount,  \* number of slots (a power of two in the code)
    HashMult,   \* the odd multiplier 0x9E3779B1, modulo SlotCount
    IdSpace,    \* number of wire ids (65536 in the code)
    MaxIssued   \* bound: ids issued before unfollowed queries stop

ASSUME SizesAssumption ==
    /\ SlotCount \in Nat \ {0}
    /\ IdSpace \in Nat \ {0}
    /\ HashMult \in Nat
    /\ MaxIssued \in Nat

ASSUME ProcsAssumption ==
    /\ Listener \notin Queries
    /\ Closer \notin Queries
    /\ None \notin Queries
    /\ Listener # Closer

Procs == Queries \cup {Listener, Closer}
Slots == 0 .. SlotCount - 1
Ids   == 0 .. IdSpace - 1
NoSlot == SlotCount                  \* the Option<usize> that is None

VARIABLES
    meta,     \* per slot: the state machine word
    sender,   \* per slot: the inline sender storage, None when uninitialised
    issued,   \* ids issued so far: next_id is this number modulo IdSpace
    size,     \* size
    pc,       \* where each thread stands
    loc,      \* the locals of each thread
    rx        \* what the receiving half of each query's channel sees

vars == <<meta, sender, issued, size, pc, loc, rx>>

Empty     == [state |-> "EMPTY",     id |-> 0]
Tombstone == [state |-> "TOMBSTONE", id |-> 0]
Reserved(id) == [state |-> "RESERVED", id |-> id]
Full(id)     == [state |-> "FULL",     id |-> id]

Metas == {Empty, Tombstone}
            \cup [state : {"RESERVED", "FULL"}, id : Ids]

(***************************************************************************)
(* Locals: the id being stored or looked up, the first id a store tried,   *)
(* the loop counter over probe steps or over slots, the first tombstone    *)
(* seen, the slot being worked on, and the sender moved into the thread.   *)
(***************************************************************************)
Locals == [id : Ids, start : Ids, step : 0 .. SlotCount,
           tomb : Slots \cup {NoSlot}, slot : Slots,
           hand : Queries \cup {None}]

\* A thread about to walk the probe chain of id with sender tx in its hand.
Walk(id, start, tx) == [id |-> id, start |-> start, step |-> 0,
                        tomb |-> NoSlot, slot |-> 0, hand |-> tx]
Blank == Walk(0, 0, None)

\* The slot that step `step` of the probe chain of `id` visits.
ProbeIndex(id, step) == (id * HashMult + step) % SlotCount

\* size is an AtomicU16: it wraps in both directions.
SizeMod == 65536

\* next_id, a wrapping AtomicU16.
nextId == issued % IdSpace

Goto(p, label) == pc' = [pc EXCEPT ![p] = label]
Probed(p) == ProbeIndex(loc[p].id, loc[p].step)
NextStep(p) == loc' = [loc EXCEPT ![p].step = @ + 1]

Init ==
    /\ meta = [s \in Slots |-> Empty]
    /\ sender = [s \in Slots |-> None]
    /\ issued = 0
    /\ size = 0
    /\ pc = [p \in Procs |-> IF p \in Queries THEN "start" ELSE "idle"]
    /\ loc = [p \in Procs |-> Blank]
    /\ rx = [q \in Queries |-> "open"]
-----------------------------------------------------------------------------
(***************************************************************************)
(* store, try_store_candidate and claim_slot.                              *)
(***************************************************************************)
StoreStart(q) ==
    /\ pc[q] = "start"
    /\ issued' = issued + 1
    /\ loc' = [loc EXCEPT ![q] = Walk(nextId, nextId, q)]
    /\ Goto(q, "probe")
    /\ UNCHANGED <<meta, sender, size, rx>>

\* Mutant: the candidate id is not wrapped into the id space.
RetryUnwrapped(q, tx) ==
    /\ Goto(q, "probe")
    /\ loc' = [loc EXCEPT ![q] = Walk(@.id + 1, @.start, tx)]
    /\ rx' = IF tx = None THEN [rx EXCEPT ![q] = "dropped"] ELSE rx

\* StoreResult::Retry: the next candidate id with the sender tx (None once it
\* has been lost), until every id has been tried.
Retry(q, tx) ==
    LET id == (loc[q].id + 1) % IdSpace
        exhausted == id = loc[q].start
    IN  /\ Goto(q, IF exhausted THEN "failed" ELSE "probe")
        /\ loc' = [loc EXCEPT ![q] =
                     IF exhausted THEN Blank ELSE Walk(id, @.start, tx)]
        /\ rx' = IF exhausted \/ tx = None
                 THEN [rx EXCEPT ![q] = "dropped"] ELSE rx

\* tx.take().expect("sender present"), then claim_slot on slot s.
BeginClaim(q, s) ==
    /\ IF loc[q].hand = None
       THEN Goto(q, "panicked") /\ loc' = [loc EXCEPT ![q] = Blank]
       ELSE Goto(q, "claim") /\ loc' = [loc EXCEPT ![q].slot = s]

ProbeFree(q) ==
    /\ pc[q] = "probe" /\ loc[q].step < SlotCount
    /\ meta[Probed(q)].state = "EMPTY"
    /\ BeginClaim(q, IF loc[q].tomb = NoSlot THEN Probed(q) ELSE loc[q].tomb)
    /\ UNCHANGED <<meta, sender, issued, size, rx>>

ProbeTombstone(q) ==
    /\ pc[q] = "probe" /\ loc[q].step < SlotCount
    /\ meta[Probed(q)].state = "TOMBSTONE"
    /\ LET next == [loc[q] EXCEPT !.step = @ + 1]
       IN  loc' = [loc EXCEPT ![q] = IF next.tomb # NoSlot THEN next
                                     ELSE [next EXCEPT !.tomb = Probed(q)]]
    /\ UNCHANGED <<meta, sender, issued, size, pc, rx>>

ProbeOccupied(q) ==
    /\ pc[q] = "probe" /\ loc[q].step < SlotCount
    /\ meta[Probed(q)].state \in {"RESERVED", "FULL"}
    /\ IF meta[Probed(q)].id = loc[q].id
       THEN Retry(q, loc[q].hand)
       ELSE NextStep(q) /\ UNCHANGED <<pc, rx>>
    /\ UNCHANGED <<meta, sender, issued, size>>

\* The whole table was probed without meeting an EMPTY slot.
ProbeEnd(q) ==
    /\ pc[q] = "probe" /\ loc[q].step = SlotCount
    /\ IF loc[q].tomb # NoSlot
       THEN BeginClaim(q, loc[q].tomb) /\ UNCHANGED rx
       ELSE /\ Goto(q, "failed")
            /\ rx' = [rx EXCEPT ![q] = "dropped"]
            /\ loc' = [loc EXCEPT ![q] = Blank]
    /\ UNCHANGED <<meta, sender, issued, size>>

\* Mutant: a plain store instead of the CAS, whatever the slot has become.
ClaimUnchecked(q) ==
    /\ pc[q] = "claim"
    /\ meta' = [meta EXCEPT ![loc[q].slot] = Reserved(loc[q].id)]
    /\ Goto(q, "write")
    /\ UNCHANGED <<sender, issued, size, loc, rx>>

Claim(q) ==
    /\ pc[q] = "claim"
    /\ meta[loc[q].slot].state \in {"EMPTY", "TOMBSTONE"}
    /\ meta' = [meta EXCEPT ![loc[q].slot] = Reserved(loc[q].id)]
    /\ Goto(q, "write")
    /\ UNCHANGED <<sender, issued, size, loc, rx>>

\* claim_slot took the sender by value: it is dropped when it returns false.
ClaimLost(q) ==
    /\ pc[q] = "claim"
    /\ meta[loc[q].slot].state \in {"RESERVED", "FULL"}
    /\ Retry(q, None)
    /\ UNCHANGED <<meta, sender, issued, size>>

\* Only the owner can touch the storage, so writing it and publishing FULL are
\* one step.
Publish(q) ==
    /\ pc[q] = "write"
    /\ sender' = [sender EXCEPT ![loc[q].slot] = loc[q].hand]
    /\ meta' = [meta EXCEPT ![loc[q].slot] = Full(loc[q].id)]
    /\ loc' = [loc EXCEPT ![q] = Walk(loc[q].id, 0, None)]
    /\ Goto(q, "count")
    /\ UNCHANGED <<issued, size, rx>>

\* Stored(id): the query holds an armed guard for its id.
CountStored(q) ==
    /\ pc[q] = "count"
    /\ size' = (size + 1) % SizeMod
    /\ Goto(q, "stored")
    /\ UNCHANGED <<meta, sender, issued, loc, rx>>

Store(q) ==
    \/ StoreStart(q) \/ ProbeFree(q) \/ ProbeTombstone(q)
    \/ ProbeOccupied(q) \/ ProbeEnd(q) \/ Claim(q) \/ ClaimLost(q)
    \/ Publish(q) \/ CountStored(q)
-----------------------------------------------------------------------------
(***************************************************************************)
(* detach, called by take (the listener) and by remove (a query's guard),  *)
(* with reset_tombstones.                                                  *)
(***************************************************************************)
\* RequestGuard::disarm after the response arrived.
Disarm(q) ==
    /\ pc[q] = "stored" /\ rx[q] = "answered"
    /\ Goto(q, "done")
    /\ loc' = [loc EXCEPT ![q] = Blank]
    /\ UNCHANGED <<meta, sender, issued, size, rx>>

\* RequestGuard::remove or its Drop while armed.
RemoveStart(q) ==
    /\ pc[q] = "stored"
    /\ Goto(q, "lookup")
    /\ UNCHANGED <<meta, sender, issued, size, loc, rx>>

TakeStart ==
    /\ pc[Listener] = "idle"
    /\ \E id \in Ids : loc' = [loc EXCEPT ![Listener] = Walk(id, 0, None)]
    /\ Goto(Listener, "lookup")
    /\ UNCHANGED <<meta, sender, issued, size, rx>>

\* detach returns: take hands the sender to the listener, which answers with
\* it; remove drops it.  A return without a sender changes no channel.
Answer(p) == IF p = Listener THEN "answered" ELSE "dropped"
Return(p) ==
    /\ Goto(p, IF p = Listener THEN "idle" ELSE "done")
    /\ rx' = IF loc[p].hand = None THEN rx
             ELSE [rx EXCEPT ![loc[p].hand] = Answer(p)]
    /\ loc' = [loc EXCEPT ![p] = Blank]

LookupEmpty(p) ==
    /\ pc[p] = "lookup" /\ loc[p].step < SlotCount
    /\ meta[Probed(p)].state = "EMPTY"
    /\ Return(p)
    /\ UNCHANGED <<meta, sender, issued, size>>

LookupEnd(p) ==
    /\ pc[p] = "lookup" /\ loc[p].step = SlotCount
    /\ Return(p)
    /\ UNCHANGED <<meta, sender, issued, size>>

LookupOther(p) ==
    /\ pc[p] = "lookup" /\ loc[p].step < SlotCount
    /\ meta[Probed(p)].state # "EMPTY"
    /\ meta[Probed(p)] # Full(loc[p].id)
    /\ NextStep(p)
    /\ UNCHANGED <<meta, sender, issued, size, pc, rx>>

LookupMatch(p) ==
    /\ pc[p] = "lookup" /\ loc[p].step < SlotCount
    /\ meta[Probed(p)] = Full(loc[p].id)
    /\ loc' = [loc EXCEPT ![p].slot = Probed(p)]
    /\ Goto(p, "detach")
    /\ UNCHANGED <<meta, sender, issued, size, rx>>

\* Mutant: the CAS compares the state and not the id, so that a slot recycled
\* since it was loaded is detached for the wrong id.
DetachAnyId(p) ==
    /\ pc[p] = "detach"
    /\ meta[loc[p].slot].state = "FULL"
    /\ meta' = [meta EXCEPT ![loc[p].slot] = Reserved(loc[p].id)]
    /\ Goto(p, "move")
    /\ UNCHANGED <<sender, issued, size, loc, rx>>

Detach(p) ==
    /\ pc[p] = "detach"
    /\ meta[loc[p].slot] = Full(loc[p].id)
    /\ meta' = [meta EXCEPT ![loc[p].slot] = Reserved(loc[p].id)]
    /\ Goto(p, "move")
    /\ UNCHANGED <<sender, issued, size, loc, rx>>

\* The CAS failed: `continue` goes on to the next step of the chain.
DetachLost(p) ==
    /\ pc[p] = "detach"
    /\ meta[loc[p].slot] # Full(loc[p].id)
    /\ NextStep(p)
    /\ Goto(p, "lookup")
    /\ UNCHANGED <<meta, sender, issued, size, rx>>

\* Mutant: the sender is copied out and also stays in the slot.
BuryCopying(p) ==
    /\ pc[p] = "move"
    /\ loc' = [loc EXCEPT ![p] = Walk(loc[p].id, 0, sender[loc[p].slot])]
    /\ meta' = [meta EXCEPT ![loc[p].slot] = Tombstone]
    /\ Goto(p, "uncount")
    /\ UNCHANGED <<sender, issued, size, rx>>

Bury(p) ==
    /\ pc[p] = "move"
    /\ loc' = [loc EXCEPT ![p] = Walk(loc[p].id, 0, sender[loc[p].slot])]
    /\ sender' = [sender EXCEPT ![loc[p].slot] = None]
    /\ meta' = [meta EXCEPT ![loc[p].slot] = Tombstone]
    /\ Goto(p, "uncount")
    /\ UNCHANGED <<issued, size, rx>>

\* Mutant: the entry is detached but still counted.
CountDetachedNever(p) ==
    /\ pc[p] = "uncount"
    /\ Goto(p, "check")
    /\ UNCHANGED <<meta, sender, issued, size, loc, rx>>

CountDetached(p) ==
    /\ pc[p] = "uncount"
    /\ size' = (size + SizeMod - 1) % SizeMod
    /\ Goto(p, "check")
    /\ UNCHANGED <<meta, sender, issued, loc, rx>>

\* is_empty, read again at the head of reset_tombstones.
CheckEmpty(p) ==
    /\ pc[p] = "check"
    /\ IF size = 0
       THEN Goto(p, "reset") /\ UNCHANGED <<loc, rx>>
       ELSE Return(p)
    /\ UNCHANGED <<meta, sender, issued, size>>

ResetSlot(p) ==
    /\ pc[p] = "reset" /\ loc[p].step < SlotCount
    /\ meta' = [meta EXCEPT ![loc[p].step] = IF @ = Tombstone THEN Empty ELSE @]
    /\ NextStep(p)
    /\ UNCHANGED <<sender, issued, size, pc, rx>>

ResetEnd(p) ==
    /\ pc[p] = "reset" /\ loc[p].step = SlotCount
    /\ Return(p)
    /\ UNCHANGED <<meta, sender, issued, size>>

Lookup(p) ==
    \/ LookupEmpty(p) \/ LookupEnd(p) \/ LookupOther(p) \/ LookupMatch(p)
    \/ Detach(p) \/ DetachLost(p) \/ Bury(p)
    \/ CountDetached(p) \/ CheckEmpty(p) \/ ResetSlot(p) \/ ResetEnd(p)
-----------------------------------------------------------------------------
(***************************************************************************)
(* clear.  On a RESERVED slot it spins: no action is enabled until the     *)
(* owner has published or buried the slot.                                 *)
(***************************************************************************)
ClearStart ==
    /\ pc[Closer] = "idle"
    /\ Goto(Closer, "clear")
    /\ UNCHANGED <<meta, sender, issued, size, loc, rx>>

ClearEmpty ==
    /\ pc[Closer] = "clear" /\ loc[Closer].step < SlotCount
    /\ meta[loc[Closer].step].state = "EMPTY"
    /\ NextStep(Closer)
    /\ UNCHANGED <<meta, sender, issued, size, pc, rx>>

ClearTombstoneSeen ==
    /\ pc[Closer] = "clear" /\ loc[Closer].step < SlotCount
    /\ meta[loc[Closer].step].state = "TOMBSTONE"
    /\ Goto(Closer, "clearTombstone")
    /\ UNCHANGED <<meta, sender, issued, size, loc, rx>>

\* The CAS; the loop leaves the slot whether or not it succeeded.
ClearTombstone ==
    /\ pc[Closer] = "clearTombstone"
    /\ meta' = [meta EXCEPT ![loc[Closer].step] =
                    IF @ = Tombstone THEN Empty ELSE @]
    /\ NextStep(Closer)
    /\ Goto(Closer, "clear")
    /\ UNCHANGED <<sender, issued, size, rx>>

ClearClaim ==
    /\ pc[Closer] = "clear" /\ loc[Closer].step < SlotCount
    /\ meta[loc[Closer].step].state = "FULL"
    /\ meta' = [meta EXCEPT ![loc[Closer].step] = Reserved(@.id)]
    /\ loc' = [loc EXCEPT ![Closer].slot = loc[Closer].step]
    /\ Goto(Closer, "drop")
    /\ UNCHANGED <<sender, issued, size, rx>>

ClearDrop ==
    /\ pc[Closer] = "drop"
    /\ rx' = [rx EXCEPT ![sender[loc[Closer].slot]] = "dropped"]
    /\ sender' = [sender EXCEPT ![loc[Closer].slot] = None]
    /\ meta' = [meta EXCEPT ![loc[Closer].slot] = Empty]
    /\ loc' = [loc EXCEPT ![Closer] = [Blank EXCEPT !.step = loc[Closer].step + 1]]
    /\ Goto(Closer, "clear")
    /\ UNCHANGED <<issued, size>>

ClearEnd ==
    /\ pc[Closer] = "clear" /\ loc[Closer].step = SlotCount
    /\ size' = 0
    /\ Goto(Closer, "cleared")
    /\ UNCHANGED <<meta, sender, issued, loc, rx>>

Clear ==
    \/ ClearStart \/ ClearEmpty \/ ClearTombstoneSeen \/ ClearTombstone
    \/ ClearClaim \/ ClearDrop \/ ClearEnd
-----------------------------------------------------------------------------
(***************************************************************************)
(* A query that is not followed individually: it stores, is answered and   *)
(* disarms while no thread is inside an operation.  It moves next_id on    *)
(* and leaves a tombstone behind, or resets them all when the map drains.  *)
(***************************************************************************)
Quiescent == \A p \in Procs : pc[p] \in {"start", "stored", "failed",
                                         "panicked", "done", "idle"}
Occupied(s) == meta[s].state \in {"RESERVED", "FULL"}
Drained(table) ==
    [s \in Slots |-> IF table[s] = Tombstone THEN Empty ELSE table[s]]
Churn ==
    /\ Quiescent /\ issued < MaxIssued
    /\ \A s \in Slots : Occupied(s) => meta[s].id # nextId
    /\ \E k \in Slots :
        /\ ~Occupied(ProbeIndex(nextId, k))
        /\ \A j \in 0 .. k - 1 : Occupied(ProbeIndex(nextId, j))
        /\ meta' = IF size = 0
                   THEN Drained([meta EXCEPT ![ProbeIndex(nextId, k)] = Empty])
                   ELSE [meta EXCEPT ![ProbeIndex(nextId, k)] = Tombstone]
    /\ issued' = issued + 1
    /\ UNCHANGED <<sender, size, pc, loc, rx>>

QueryStep(q) == Store(q) \/ Disarm(q) \/ RemoveStart(q) \/ Lookup(q)
ListenerStep == TakeStart \/ Lookup(Listener)

Next ==
    \/ \E q \in Queries : QueryStep(q)
    \/ ListenerStep
    \/ Clear
    \/ Churn

Spec == Init /\ [][Next]_vars
-----------------------------------------------------------------------------
(***************************************************************************)
(* Properties.                                                             *)
(***************************************************************************)
PCs == {"start", "probe", "claim", "write", "count", "stored", "failed",
        "panicked", "done", "idle", "lookup", "detach", "move", "uncount",
        "check", "reset", "clear", "clearTombstone", "drop", "cleared"}

\* Every variable keeps its type.
TypeOK ==
    /\ meta \in [Slots -> Metas]
    /\ sender \in [Slots -> Queries \cup {None}]
    /\ issued \in Nat
    /\ size \in 0 .. SizeMod - 1
    /\ pc \in [Procs -> PCs]
    /\ loc \in [Procs -> Locals]
    /\ rx \in [Queries -> {"open", "answered", "dropped"}]

\* The thread owns its slot in RESERVED state.
Owns(p) == pc[p] \in {"write", "move", "drop"}

(***************************************************************************)
(* "only the thread that owns a slot in RESERVED state may read, write, or *)
(* drop the inline sender storage": an owner's slot is RESERVED and no two *)
(* threads own one slot, whatever stores, detaches, resets and the clear   *)
(* interleave.                                                             *)
(***************************************************************************)
StorageExclusive ==
    /\ \A p \in Procs : Owns(p) => meta[loc[p].slot].state = "RESERVED"
    /\ \A p, r \in Procs :
            Owns(p) /\ Owns(r) /\ loc[p].slot = loc[r].slot => p = r

(***************************************************************************)
(* clear cannot spin for ever on a RESERVED slot: some thread in the       *)
(* middle of a store, a detach or the clear itself owns it, and its next   *)
(* step, which nothing can block, releases it.                             *)
(***************************************************************************)
ReservedHasOwner ==
    \A s \in Slots : meta[s].state = "RESERVED" =>
        \E p \in Procs : Owns(p) /\ loc[p].slot = s

(***************************************************************************)
(* The storage is initialised exactly when a thread that assumes so reads  *)
(* it: a FULL slot, and the slot of a thread about to move or drop its     *)
(* sender, hold one; a slot about to be written holds none (overwriting    *)
(* would leak a sender and its query would never be woken).                *)
(***************************************************************************)
StorageInitialised ==
    /\ \A s \in Slots : meta[s].state = "FULL" => sender[s] # None
    /\ \A p \in Procs :
        /\ pc[p] \in {"move", "drop"} => sender[loc[p].slot] # None
        /\ pc[p] = "write" => sender[loc[p].slot] = None

(***************************************************************************)
(* The safety of `unsafe impl Sync for RequestMap`, in its three parts: no *)
(* two threads touch one storage, no reserved slot is left behind, and what*)
(* is read or dropped was initialised.                                     *)
(***************************************************************************)
StorageSafe == StorageExclusive /\ ReservedHasOwner /\ StorageInitialised

(***************************************************************************)
(* A sender is neither duplicated nor leaked: it is never in two places    *)
(* (the locals of a thread, a slot), it is somewhere as long as its        *)
(* query's channel is open, and nowhere once the channel has ended.        *)
(***************************************************************************)
InHand(q) == \E p \in Procs : loc[p].hand = q
InSlot(q) == \E s \in Slots : sender[s] = q
SenderInOnePlace ==
    /\ \A s, t \in Slots : sender[s] # None /\ sender[s] = sender[t] => s = t
    /\ \A p, r \in Procs :
            loc[p].hand # None /\ loc[p].hand = loc[r].hand => p = r
    /\ \A q \in Queries : ~(InHand(q) /\ InSlot(q))
    /\ \A q \in Queries :
            InHand(q) \/ InSlot(q) <=> rx[q] = "open" /\ pc[q] # "start"

(***************************************************************************)
(* A response is handed only to the query that was sent under its id, even *)
(* when ids wrap around and slots are recycled (a query that is done has   *)
(* dropped its receiver: nothing can reach it).                            *)
(***************************************************************************)
ResponseGoesToItsQuery ==
    LET q == loc[Listener].hand
    IN  q # None /\ pc[q] # "done" => loc[q].id = loc[Listener].id

(***************************************************************************)
(* When no thread is inside an operation and the map was never cleared,    *)
(* size counts the FULL slots: the pools read it as the number of queries  *)
(* in flight on the connection (using_count).                              *)
(***************************************************************************)
SizeCountsEntries ==
    Quiescent => size = Cardinality({s \in Slots : meta[s].state = "FULL"})

(***************************************************************************)
(* store's assertion expect("sender present"): a lost claim is retried     *)
(* under the next id with the sender still in hand.                        *)
(***************************************************************************)
StoreKeepsSender == \A q \in Queries : pc[q] # "panicked"

(***************************************************************************)
(* The map implements RequestTable.  A sender is in the table from the     *)
(* publication of its slot until the thread that detached it ends its      *)
(* channel, either with the slot's id or with the id that thread looked    *)
(* up.                                                                     *)
(***************************************************************************)
Detached(p) == pc[p] \in {"uncount", "check", "reset"} /\ loc[p].hand # None
Entries ==
    {<<sender[s], meta[s].id>> : s \in {t \in Slots : sender[t] # None}}
        \cup {<<loc[p].hand, loc[p].id>> : p \in {r \in Procs : Detached(r)}}
Armed(q) == pc[q] \in {"count", "stored", "lookup", "detach", "move",
                       "uncount", "check", "reset"}
Guards == [q \in Queries |-> IF Armed(q) THEN loc[q].id ELSE IdSpace]

Table == INSTANCE RequestTable WITH
            NoId <- IdSpace,
            entries <- Entries,
            guard <- Guards,
            closing <- pc[Closer] # "idle"

(***************************************************************************)
(* However the atomic steps of stores, look-ups, removals and the clear    *)
(* interleave, what the queries see is what the table promises: each       *)
(* channel ends once, by a listener that looked up the id its sender is    *)
(* stored under, by a guard that holds this id, or by the clear.           *)
(***************************************************************************)
ImplementsTable == Table!Spec
=============================================================================
