------------------------------ MODULE Fallback ------------------------------
(***************************************************************************)
(* One execution of the fallback executor                                  *)
(* (src/src/plugin/executor/fallback.rs): two tasks run the primary and    *)
(* the secondary executor on copies of the query's context, and the query  *)
(* joins them in whatever order they end, while a threshold runs.          *)
(*                                                                         *)
(* Time is left open: a sleep of `threshold` may end at any moment.  An    *)
(* executor may take for ever.  Once the query has its result (or its      *)
(* future is dropped) both tasks are aborted and nothing more happens.     *)
(*                                                                         *)
(* Init, Next and the like carry the module's name: ExecutorProofs extends *)
(* another executor's module beside this one.                              *)
(***************************************************************************)

Sources == {"primary", "secondary"}
Outcomes == {"answered", "silent", "failed", "panicked"}

VARIABLES
    standby,   \* always_standby, part of the configuration
    branch,    \* per source: where its task is, or how it ended
    joined,    \* the sources whose outcome join_next has returned
    reached,   \* threshold_reached
    buffered,  \* buffered_secondary is Some
    erred,     \* last_err is not empty
    result     \* "pending", the source that won, "Next", "Err" or "dropped"

fallbackVars == <<standby, branch, joined, reached, buffered, erred, result>>

FallbackInit ==
    /\ standby \in BOOLEAN
    /\ branch = [primary |-> "running",
                 secondary |-> IF standby THEN "running" ELSE "waiting"]
    /\ joined = {}
    /\ reached = ~standby
    /\ buffered = FALSE /\ erred = FALSE
    /\ result = "pending"

Pending == result = "pending"
Ended(s) == branch[s] \in Outcomes \cup {"skipped"}
Become(s, status) == branch' = [branch EXCEPT ![s] = status]
-----------------------------------------------------------------------------
(***************************************************************************)
(* The tasks.  The primary publishes Success or Failed on a watch channel  *)
(* as it ends; a panic drops the sender, which the receiver sees as well.  *)
(***************************************************************************)
\* run_executor: an executor ends with a response, without one, with an error,
\* or panics.
Run(s) ==
    /\ Pending /\ branch[s] = "running"
    /\ \E outcome \in Outcomes : Become(s, outcome)
    /\ UNCHANGED <<standby, joined, reached, buffered, erred, result>>

\* Mutant: the secondary only waits for the primary to fail.
StartOnFailure ==
    /\ Pending /\ branch.secondary = "waiting"
    /\ branch.primary \in Outcomes \ {"answered"}
    /\ Become("secondary", "running")
    /\ UNCHANGED <<standby, joined, reached, buffered, erred, result>>

\* The sleep of the secondary ends, or the primary failed or panicked.
StartSecondary ==
    /\ Pending /\ branch.secondary = "waiting"
    /\ Become("secondary", "running")
    /\ UNCHANGED <<standby, joined, reached, buffered, erred, result>>

\* The primary has answered: the secondary is not executed.
SkipSecondary ==
    /\ Pending /\ branch.secondary = "waiting" /\ branch.primary = "answered"
    /\ Become("secondary", "skipped")
    /\ UNCHANGED <<standby, joined, reached, buffered, erred, result>>
-----------------------------------------------------------------------------
(***************************************************************************)
(* The query's loop: select over the threshold and join_next.              *)
(***************************************************************************)
Win(s) == result' = s /\ UNCHANGED <<buffered, erred>>

\* An outcome without a response: its error is noted, except that of an
\* executor that just wrote none.
Note(s) ==
    /\ erred' = (erred \/ branch[s] \in {"failed", "panicked"})
    /\ UNCHANGED <<buffered, result>>

\* Mutant: the backup is not used when the threshold is reached.
ThresholdOnly ==
    /\ Pending /\ ~reached
    /\ reached' = TRUE
    /\ UNCHANGED <<standby, branch, joined, buffered, erred, result>>

\* standby_timer
ThresholdPasses ==
    /\ Pending /\ ~reached
    /\ reached' = TRUE
    /\ result' = IF buffered THEN "secondary" ELSE result
    /\ UNCHANGED <<standby, branch, joined, buffered, erred>>

Join(s) ==
    /\ Pending /\ Ended(s) /\ s \notin joined
    /\ joined' = joined \cup {s}
    /\ UNCHANGED <<standby, branch, reached>>

\* A primary that ended without a response gives way to a buffered backup; a
\* panic is only noted (`continue`).
JoinPrimary ==
    /\ Join("primary")
    /\ IF branch.primary = "answered" THEN Win("primary")
       ELSE IF buffered /\ branch.primary # "panicked" THEN Win("secondary")
       ELSE Note("primary")

\* Mutant: in standby mode too the first response wins.
JoinSecondaryEarly ==
    /\ Join("secondary")
    /\ IF branch.secondary = "answered" THEN Win("secondary")
                                        ELSE Note("secondary")

\* Mutant: the error of the secondary is lost.
JoinSecondaryQuietly ==
    /\ Join("secondary")
    /\ IF branch.secondary # "answered" THEN UNCHANGED <<buffered, erred, result>>
       ELSE IF reached THEN Win("secondary")
       ELSE buffered' = TRUE /\ UNCHANGED <<erred, result>>

\* A response that comes before the threshold in standby mode is kept as backup.
JoinSecondary ==
    /\ Join("secondary")
    /\ IF branch.secondary # "answered" THEN Note("secondary")
       ELSE IF reached THEN Win("secondary")
       ELSE buffered' = TRUE /\ UNCHANGED <<erred, result>>

\* join_next returns None: the loop ends, whatever is buffered.
JoinNone ==
    /\ Pending /\ joined = Sources
    /\ result' = IF erred THEN "Err" ELSE "Next"
    /\ UNCHANGED <<standby, branch, joined, reached, buffered, erred>>

\* The caller drops the future of execute.
Drop ==
    /\ Pending
    /\ result' = "dropped"
    /\ UNCHANGED <<standby, branch, joined, reached, buffered, erred>>
-----------------------------------------------------------------------------
Loop == ThresholdPasses \/ JoinPrimary \/ JoinSecondary \/ JoinNone

FallbackNext ==
    \/ \E s \in Sources : Run(s)
    \/ StartSecondary \/ SkipSecondary
    \/ Loop
    \/ Drop

FallbackSpec == FallbackInit /\ [][FallbackNext]_fallbackVars

\* The runtime polls both tasks and the query, and a sleep ends; nothing says
\* that an executor ends.
FairFallbackSpec == FallbackSpec /\ WF_fallbackVars(StartSecondary) /\ WF_fallbackVars(Loop)
-----------------------------------------------------------------------------
\* Every variable keeps its type, and only an ended task is joined.
FallbackTypeOK ==
    /\ standby \in BOOLEAN
    /\ branch \in [Sources -> Outcomes \cup {"waiting", "running", "skipped"}]
    /\ joined \subseteq {s \in Sources : Ended(s)}
    /\ reached \in BOOLEAN /\ buffered \in BOOLEAN /\ erred \in BOOLEAN
    /\ result \in Sources \cup {"pending", "Next", "Err", "dropped"}

Fruitless == result \in {"Next", "Err"}

(***************************************************************************)
(* Outside standby mode nothing is given up too early: execute ends        *)
(* without a response only when both executors have run and neither of     *)
(* them answered, however the primary's end, the threshold and the joins   *)
(* fall together.                                                          *)
(***************************************************************************)
BothTried ==
    Fruitless /\ ~standby => \A s \in Sources : branch[s] \in Outcomes \ {"answered"}

(***************************************************************************)
(* "if both branches fail, plugin returns error"; without a failure the    *)
(* sequence goes on: the result tells whether an executor failed.          *)
(***************************************************************************)
ErrorReported ==
    Fruitless =>
        (result = "Err" <=> \E s \in Sources : branch[s] \in {"failed", "panicked"})

(***************************************************************************)
(* In standby mode the "secondary can finish early but should not win      *)
(* until the threshold elapses", unless the primary is out of the race.    *)
(***************************************************************************)
StandbyWaits ==
    result = "secondary" =>
        /\ branch.secondary = "answered"
        /\ reached \/ ("primary" \in joined /\ branch.primary # "answered")

(***************************************************************************)
(* A primary that hangs cannot hold a query for ever: the secondary is     *)
(* executed, and once it has answered the query ends.                      *)
(***************************************************************************)
SecondaryGetsItsTurn == branch.secondary = "waiting" ~> branch.secondary # "waiting" \/ ~Pending
SecondaryAnswerEnds == branch.secondary = "answered" ~> ~Pending
HangBypassed == SecondaryGetsItsTurn /\ SecondaryAnswerEnds

(***************************************************************************)
(* "keep secondary result as backup": once the threshold has passed, and   *)
(* outside standby mode always, a response of the secondary is not thrown  *)
(* away while the primary has none.  (Before the threshold it is when the  *)
(* secondary is joined last: it is buffered, and the loop ends.)           *)
(***************************************************************************)
BackupUsed == Fruitless /\ reached => branch.secondary # "answered"

(***************************************************************************)
(* No answer is lost between the two tasks, the threshold and the joins: a *)
(* query ends without a response only if neither executor had one to give, *)
(* within the two limits stated above.                                     *)
(***************************************************************************)
NoAnswerLost == BothTried /\ BackupUsed
=============================================================================
