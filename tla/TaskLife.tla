------------------------------ MODULE TaskLife ------------------------------
(***************************************************************************)
(* The life of the tasks of cluster runs, as far as ClusterTasks,          *)
(* ClusterMessages and ClusterWakeup rely on it: a task ends once, and     *)
(* while its run is being stopped no task begins and none ends but by the  *)
(* stop, which cancels all that is pending at once.  Each of the three is  *)
(* shown to implement it.                                                  *)
(***************************************************************************)
CONSTANTS
    Tasks, Runs,
    RunOf,     \* the run of each task
    Migrating, \* may a run be cancelled without a stop?
    Failing    \* may a stop fail before it has cancelled anything?

VARIABLES
    life,     \* "none", "pending", "ended" or "cancelled"
    stopping  \* of each run: "no", "asked", or "cancelled" but not returned

tasks == <<life, stopping>>

TasksOf(r) == {t \in Tasks : RunOf[t] = r}

Init ==
    /\ life = [t \in Tasks |-> "none"]
    /\ stopping = [r \in Runs |-> "no"]

\* A task is accepted, and later it ends by itself.
Ask(t) ==
    /\ life[t] = "none" /\ stopping[RunOf[t]] = "no"
    /\ life' = [life EXCEPT ![t] = "pending"]
    /\ UNCHANGED stopping

End(t) ==
    /\ life[t] = "pending" /\ stopping[RunOf[t]] = "no"
    /\ life' = [life EXCEPT ![t] = "ended"]
    /\ UNCHANGED stopping

\* All that is pending in the run is cancelled at once.
CancelAll(r) ==
    life' = [t \in Tasks |-> IF t \in TasksOf(r) /\ life[t] = "pending"
                             THEN "cancelled" ELSE life[t]]

Migrate(r) == Migrating /\ CancelAll(r) /\ UNCHANGED stopping

StopAsked(r) ==
    /\ stopping[r] = "no"
    /\ stopping' = [stopping EXCEPT ![r] = "asked"]
    /\ UNCHANGED life

StopCancels(r) ==
    /\ stopping[r] = "asked"
    /\ stopping' = [stopping EXCEPT ![r] = "cancelled"]
    /\ CancelAll(r)

\* The stop returns; nothing is pending in its run.
StopReturns(r) ==
    /\ stopping[r] = "cancelled"
    /\ \A t \in TasksOf(r) : life[t] # "pending"
    /\ stopping' = [stopping EXCEPT ![r] = "no"]
    /\ UNCHANGED life

StopFails(r) ==
    /\ Failing /\ stopping[r] = "asked"
    /\ stopping' = [stopping EXCEPT ![r] = "no"]
    /\ UNCHANGED life

Next ==
    \/ \E t \in Tasks : Ask(t) \/ End(t)
    \/ \E r \in Runs : \/ Migrate(r) \/ StopAsked(r) \/ StopCancels(r)
                       \/ StopReturns(r) \/ StopFails(r)

Spec == Init /\ [][Next]_tasks
=============================================================================
