------------------------------- MODULE Notify -------------------------------
(***************************************************************************)
(* tokio::sync::Notify as the connection pools use it (release_notified):  *)
(* registered waiters are "waiting" until a notify_one ("one") or a        *)
(* notify_waiters ("woken") reaches them; a notify_one without waiters     *)
(* stores one permit, which the next to register takes; dropping a waiter  *)
(* that notify_one chose passes the notification on, dropping one that     *)
(* took the permit does not.  Which waiter notify_one chooses is left open *)
(* (tokio: the one that registered first).                                 *)
(***************************************************************************)
CONSTANT Tasks  \* the tasks that may wait

VARIABLES
    wait,   \* per task: its registration
    permit  \* whether a permit is stored

notify == <<wait, permit>>

NotifyInit == wait = [t \in Tasks |-> "none"] /\ permit = FALSE

NotifyTypeOK ==
    /\ wait \in [Tasks -> {"none", "waiting", "one", "woken"}]
    /\ permit \in BOOLEAN

Waiting(w) == {t \in Tasks : w[t] = "waiting"}

NotifyWaiters ==
    /\ wait' = [t \in Tasks |-> IF wait[t] = "waiting" THEN "woken" ELSE wait[t]]
    /\ UNCHANGED permit

\* notify_one when the registrations are w.
NotifyOne(w) ==
    IF Waiting(w) = {}
    THEN wait' = w /\ permit' = TRUE
    ELSE /\ \E t \in Waiting(w) : wait' = [w EXCEPT ![t] = "one"]
         /\ UNCHANGED permit

\* notified() and enable().
Enable(t) ==
    /\ wait' = [wait EXCEPT ![t] = IF permit THEN "woken" ELSE "waiting"]
    /\ permit' = FALSE

\* The Notified of t is dropped, if it has one.
DropWaiter(t) ==
    IF wait[t] = "one"
    THEN NotifyOne([wait EXCEPT ![t] = "none"])
    ELSE wait' = [wait EXCEPT ![t] = "none"] /\ UNCHANGED permit

\* The wait of t is over.
Notified(t) ==
    /\ wait[t] \in {"one", "woken"}
    /\ wait' = [wait EXCEPT ![t] = "none"]
    /\ UNCHANGED permit
=============================================================================
