---------------------------- MODULE ClusterTasks ----------------------------
(***************************************************************************)
(* Child-agent tasks of the cluster: their life from ask_agent to a        *)
(* terminal status, the run control that throttles and stops them, and the *)
(* user's stop request.                                                    *)
(*                                                                         *)
(* Code: bot/cluster/runtime.py (statuses) and bot/web/api_service.py      *)
(* (_ClusterRunControl, handle_cluster_mcp_tool, _run_cluster_agent_task,  *)
(* kill_user_process, _cancel_cluster_run).  Everything runs on one event  *)
(* loop, so an action is the code between two suspension points.           *)
(*                                                                         *)
(* All runs belong to one bot and one user, the scope in which the code    *)
(* compares them; a run is the ClusterRun object, whatever run_id it       *)
(* currently answers to.                                                   *)
(***************************************************************************)
EXTENDS Naturals, FiniteSets

CONSTANTS
    Runs,         \* cluster runs, one per main conversation
    Agents,       \* child agent slots, shared by all runs
    Tasks,        \* task ids ask_agent may hand out
    RunOf,        \* the run a task id is asked in
    AgentOf,      \* the agent a task id is asked of
    Controls,     \* identities of _ClusterRunControl objects
    NoControl,
    NoRun,
    Capacity,     \* max_parallel_agents, the semaphore's initial value
    StopMayFail   \* may aborting the main process raise?

ASSUME ConstantsAssumption ==
    /\ IsFiniteSet(Tasks)
    /\ RunOf \in [Tasks -> Runs]
    /\ AgentOf \in [Tasks -> Agents]
    /\ NoControl \notin Controls
    /\ NoRun \notin Runs
    /\ Capacity \in Nat \ {0}
    /\ StopMayFail \in BOOLEAN

VARIABLES
    status,      \* ClusterAgentTask.status, "none" before ask_agent
    pc,          \* where the task's coroutine is suspended
    kill,        \* has asyncio.Task.cancel() been called on the coroutine?
    home,        \* the control whose .tasks holds the coroutine
    ctlOf,       \* the control the coroutine itself looked up
    registered,  \* _CLUSTER_RUN_CONTROLS
    cancel,      \* _ClusterRunControl.cancel_requested
    holds,       \* _ClusterRunControl.stop_holds
    waking,      \* does the run have a parent wakeup pending or running?
    stop         \* the session's _control_stop_task

vars == <<status, pc, kill, home, ctlOf, registered, cancel, holds, waking, stop>>

Pending  == {"queued", "running"}
Terminal == {"completed", "failed", "cancelled"}
Status   == {"none"} \cup Pending \cup Terminal

\* "start": created, not yet scheduled; "sem": waiting for a permit; "lock":
\* holding one, waiting for the agent lock; "stream": holding both and reading
\* the child's events; "done": returned, its done callback not yet run.
Unfinished == {"start", "sem", "lock", "stream"}
Place      == {"none", "done", "reaped"} \cup Unfinished

NoStop == [phase |-> "idle", run |-> NoRun, control |-> NoControl,
           main |-> FALSE, waits |-> {}]

TypeOK ==
    /\ status \in [Tasks -> Status]
    /\ pc \in [Tasks -> Place]
    /\ kill \in [Tasks -> BOOLEAN]
    /\ home \in [Tasks -> Controls \cup {NoControl}]
    /\ ctlOf \in [Tasks -> Controls \cup {NoControl}]
    /\ registered \in [Runs -> Controls \cup {NoControl}]
    /\ cancel \in [Controls -> BOOLEAN]
    /\ holds \in [Controls -> Nat]
    /\ waking \in [Runs -> BOOLEAN]
    /\ stop \in [phase : {"idle", "abort", "gather"}, run : Runs \cup {NoRun},
                 control : Controls \cup {NoControl}, main : BOOLEAN,
                 waits : SUBSET Tasks]

Init ==
    /\ status = [t \in Tasks |-> "none"]
    /\ pc = [t \in Tasks |-> "none"]
    /\ kill = [t \in Tasks |-> FALSE]
    /\ home = [t \in Tasks |-> NoControl]
    /\ ctlOf = [t \in Tasks |-> NoControl]
    /\ registered = [r \in Runs |-> NoControl]
    /\ cancel = [c \in Controls |-> FALSE]
    /\ holds = [c \in Controls |-> 0]
    /\ waking = [r \in Runs |-> FALSE]
    /\ stop = NoStop

-----------------------------------------------------------------------------
(* Run controls *)

TasksOf(r) == {t \in Tasks : RunOf[t] = r}

\* control.tasks that are not done()
Active(c) == {t \in Tasks : home[t] = c /\ pc[t] \in Unfinished}

\* Objects nothing refers to any more: any of them can be the next allocation.
Garbage ==
    {c \in Controls : /\ \A r \in Runs : registered[r] # c
                      /\ \A t \in Tasks : home[t] # c /\ ctlOf[t] # c
                      /\ stop.control # c}

\* The control that _cluster_run_control(r) returns when the table is reg.
ControlFor(r, reg) == IF reg[r] = NoControl THEN Garbage ELSE {reg[r]}

\* cancel_requested and stop_holds after that call returned c; a new control
\* has neither.
OpenCancel(r, reg, c) == IF reg[r] = NoControl THEN FALSE ELSE cancel[c]
OpenHolds(r, reg, c)  == IF reg[r] = NoControl THEN 0 ELSE holds[c]

\* Mutants of Idle: coroutines, or statuses, left out of the test.
IdleForgetsCoroutines(r, c) ==
    holds[c] = 0 /\ ~waking[r] /\ \A t \in TasksOf(r) : status[t] \notin Pending
IdleForgetsStatuses(r, c) == holds[c] = 0 /\ Active(c) = {} /\ ~waking[r]

\* The tests of _cleanup_cluster_run_control_if_idle on r's control c.
Idle(r, c) ==
    /\ holds[c] = 0
    /\ Active(c) = {}
    /\ ~waking[r]
    /\ \A t \in TasksOf(r) : status[t] \notin Pending

\* The call at the end of an action that sets the other variables (the bound
\* variables keep the prime off the run and the table) ...
CleanupIfIdle(run) ==
    \E r \in {run} :
        registered' = IF \E c \in Controls : registered[r] = c /\ Idle(r, c)'
                      THEN [registered EXCEPT ![r] = NoControl]
                      ELSE registered

\* ... and the table it leaves when called before anything else changes.
CleanedNow(r) ==
    IF \E c \in Controls : registered[r] = c /\ Idle(r, c)
    THEN [registered EXCEPT ![r] = NoControl]
    ELSE registered

-----------------------------------------------------------------------------
(* ask_agent *)

\* Mutant of ControlReady: the stop hold is not looked at.
ControlReadyIgnoresHold(r) ==
    \A c \in Controls : registered[r] = c /\ cancel[c] => Active(c) = {}

\* _require_cluster_run_control_ready: no error while nothing is stopping.
ControlReady(r) ==
    \A c \in Controls :
        registered[r] = c /\ cancel[c] => holds[c] = 0 /\ Active(c) = {}

\* It also tries to clean up a control whose cancellation is over.
ReadyTable(r) ==
    IF \E c \in Controls : registered[r] = c /\ cancel[c]
    THEN CleanedNow(r) ELSE registered

\* Mutant of BusyElsewhere: a queued task does not occupy the slot.
BusyElsewhereRunning(t) ==
    \E u \in Tasks : /\ AgentOf[u] = AgentOf[t]
                     /\ RunOf[u] # RunOf[t]
                     /\ status[u] = "running"

\* validate_ask_agent looks for the agent's pending tasks in the OTHER runs
\* only: in its own run the agent lock queues them.
BusyElsewhere(t) ==
    \E u \in Tasks : /\ AgentOf[u] = AgentOf[t]
                     /\ RunOf[u] # RunOf[t]
                     /\ status[u] \in Pending

\* The whole of ask_agent up to its reply; it never suspends once it owns the
\* conversation lock.  The team and admission checks only refuse more.
Ask(t) ==
    LET r == RunOf[t] reg == ReadyTable(r) IN
    /\ status[t] = "none"
    /\ ControlReady(r)
    /\ ~BusyElsewhere(t)
    /\ \E c \in ControlFor(r, reg) :
        /\ registered' = [reg EXCEPT ![r] = c]
        /\ cancel' = [cancel EXCEPT ![c] = OpenCancel(r, reg, c)]
        /\ holds' = [holds EXCEPT ![c] = OpenHolds(r, reg, c)]
        /\ home' = [home EXCEPT ![t] = c]
    /\ status' = [status EXCEPT ![t] = "queued"]
    /\ pc' = [pc EXCEPT ![t] = "start"]
    /\ UNCHANGED <<kill, ctlOf, waking, stop>>

\* cluster_agent_busy is raised after the control was looked at.
AskRefused(t) ==
    /\ status[t] = "none"
    /\ ControlReady(RunOf[t])
    /\ BusyElsewhere(t)
    /\ registered' = ReadyTable(RunOf[t])
    /\ UNCHANGED <<status, pc, kill, home, ctlOf, cancel, holds, waking, stop>>

-----------------------------------------------------------------------------
(* _run_cluster_agent_task, one coroutine per task *)

\* Mutant of Permits: the permit is taken after the agent lock.
PermitsOfStreams(c) == {t \in Tasks : ctlOf[t] = c /\ pc[t] = "stream"}

Permits(c) == {t \in Tasks : ctlOf[t] = c /\ pc[t] \in {"lock", "stream"}}

AgentLocked(t) ==
    \E u \in Tasks : /\ pc[u] = "stream"
                     /\ ctlOf[u] = ctlOf[t]
                     /\ AgentOf[u] = AgentOf[t]

\* _cluster_task_is_cancelled; no caller ever sets run.status to "cancelled".
IsCancelled(t) == \/ ctlOf[t] # NoControl /\ cancel[ctlOf[t]]
                  \/ status[t] = "cancelled"

\* First step: look the control up again, then queue for the semaphore.
Begin(t) ==
    LET r == RunOf[t] IN
    /\ pc[t] = "start" /\ ~kill[t]
    /\ \E c \in ControlFor(r, registered) :
        /\ ctlOf' = [ctlOf EXCEPT ![t] = c]
        /\ registered' = [registered EXCEPT ![r] = c]
        /\ cancel' = [cancel EXCEPT ![c] = OpenCancel(r, registered, c)]
        /\ holds' = [holds EXCEPT ![c] = OpenHolds(r, registered, c)]
    /\ pc' = [pc EXCEPT ![t] = "sem"]
    /\ UNCHANGED <<status, kill, home, waking, stop>>

TakePermit(t) ==
    /\ pc[t] = "sem" /\ ~kill[t]
    /\ Cardinality(Permits(ctlOf[t])) < Capacity
    /\ pc' = [pc EXCEPT ![t] = "lock"]
    /\ UNCHANGED <<status, kill, home, ctlOf, registered, cancel, holds, waking, stop>>

GotLock(t) == pc[t] = "lock" /\ ~kill[t] /\ ~AgentLocked(t)

\* Cancelled while it waited: return, whatever the status says.
EnterCancelled(t) ==
    /\ GotLock(t)
    /\ IsCancelled(t) \/ status[t] # "queued"
    /\ pc' = [pc EXCEPT ![t] = "done"]
    /\ UNCHANGED <<status, kill, home, ctlOf, registered, cancel, holds, waking, stop>>

EnterStream(t) ==
    /\ GotLock(t)
    /\ ~IsCancelled(t) /\ status[t] = "queued"
    /\ status' = [status EXCEPT ![t] = "running"]
    /\ pc' = [pc EXCEPT ![t] = "stream"]
    /\ UNCHANGED <<kill, home, ctlOf, registered, cancel, holds, waking, stop>>

\* A terminal status may queue a wakeup of the main agent (ClusterWakeup).
Finish(t, outcome) ==
    /\ status' = [status EXCEPT ![t] = outcome]
    /\ pc' = [pc EXCEPT ![t] = "done"]
    /\ \E w \in {waking[RunOf[t]], TRUE} : waking' = [waking EXCEPT ![RunOf[t]] = w]
    /\ UNCHANGED <<kill, home, ctlOf, registered, cancel, holds, stop>>

\* The child's conversation is refused (cluster_agent_busy, team changed) or
\* its stream cannot start: the exception handler fails the task.
EnterFails(t) ==
    /\ GotLock(t)
    /\ ~IsCancelled(t) /\ status[t] = "queued"
    /\ Finish(t, "failed")

\* The "done" or "error" event, or an exception out of the stream.
StreamEnds(t) ==
    /\ pc[t] = "stream" /\ ~kill[t]
    /\ ~IsCancelled(t)
    /\ \E outcome \in {"completed", "failed"} : Finish(t, outcome)

\* Any event read after cancel_requested makes the coroutine return and leave
\* the status to the stop in progress.
StreamSeesCancel(t) ==
    /\ pc[t] = "stream" /\ ~kill[t]
    /\ IsCancelled(t)
    /\ pc' = [pc EXCEPT ![t] = "done"]
    /\ UNCHANGED <<status, kill, home, ctlOf, registered, cancel, holds, waking, stop>>

\* CancelledError is raised at the suspension point; a streaming child takes
\* its time to end its process.
Unwind(t) ==
    /\ pc[t] \in Unfinished /\ kill[t]
    /\ pc' = [pc EXCEPT ![t] = "done"]
    /\ UNCHANGED <<status, kill, home, ctlOf, registered, cancel, holds, waking, stop>>

\* The two done callbacks of ask_agent.
Reap(t) ==
    /\ pc[t] = "done"
    /\ pc' = [pc EXCEPT ![t] = "reaped"]
    /\ home' = [home EXCEPT ![t] = NoControl]
    /\ ctlOf' = [ctlOf EXCEPT ![t] = NoControl]
    /\ UNCHANGED <<status, kill, cancel, holds, waking, stop>>
    /\ CleanupIfIdle(RunOf[t])

-----------------------------------------------------------------------------
(* kill_user_process and _cancel_cluster_run *)

\* Mutant of HoldTaken: the request does not take its hold.
HoldForgotten(r, c) == OpenHolds(r, registered, c)

HoldTaken(r, c) == OpenHolds(r, registered, c) + 1

\* Synchronous part of a stop request: it marks the control before anything is
\* awaited.  main: the main agent is processing, so there is a process to
\* abort; otherwise the run is stopped only if it still has work.
StopRequest(r) ==
    /\ stop.phase = "idle"
    /\ \E main \in BOOLEAN, c \in ControlFor(r, registered) :
        /\ main \/ waking[r] \/ \E t \in TasksOf(r) : status[t] \in Pending
        /\ registered' = [registered EXCEPT ![r] = c]
        /\ cancel' = [cancel EXCEPT ![c] = TRUE]
        /\ holds' = [holds EXCEPT ![c] = HoldTaken(r, c)]
        /\ stop' = [phase |-> "abort", run |-> r, control |-> c,
                    main |-> main, waits |-> {}]
    /\ UNCHANGED <<status, pc, kill, home, ctlOf, waking>>

\* Mutant of Cancellable: running tasks only.
CancellableRunning(t) == status[t] = "running"

Cancellable(t) == status[t] \in Pending

\* cancel_run_tasks, then Task.cancel() on what the control still runs.
CancelTasks(r, members) ==
    /\ status' = [t \in Tasks |-> IF t \in TasksOf(r) /\ Cancellable(t)
                                  THEN "cancelled" ELSE status[t]]
    /\ kill' = [t \in Tasks |-> kill[t] \/ t \in members]
    /\ waking' = [waking EXCEPT ![r] = FALSE]

\* stop_captured once the main process is gone: cancel, then gather.
StopCancels ==
    /\ stop.phase = "abort"
    /\ CancelTasks(stop.run, Active(stop.control))
    /\ stop' = [stop EXCEPT !.phase = "gather", !.waits = Active(stop.control)]
    /\ UNCHANGED <<pc, home, ctlOf, registered, cancel, holds>>

\* Its finally clause.
ReleaseHold ==
    /\ holds' = [holds EXCEPT ![stop.control] = @ - 1]
    /\ stop' = NoStop

\* Mutants of Drained: a time limit as in the uncaptured path, or a wait for
\* every task the run could have.
DrainTimedOut == TRUE
DrainOfAllTasks == \A t \in TasksOf(stop.run) : pc[t] = "reaped"

\* gather returned: every coroutine it waited for is done.
Drained == \A t \in stop.waits : pc[t] \notin Unfinished

StopEnds ==
    /\ stop.phase = "gather"
    /\ Drained
    /\ ReleaseHold
    /\ UNCHANGED <<status, pc, kill, home, ctlOf, cancel, waking>>
    /\ CleanupIfIdle(stop.run)

\* Aborting the main process raised: the cluster is not cancelled, the hold is
\* released and cancel_requested stays as it is.
StopFails ==
    /\ StopMayFail
    /\ stop.phase = "abort" /\ stop.main
    /\ ReleaseHold
    /\ UNCHANGED <<status, pc, kill, home, ctlOf, cancel, waking>>
    /\ CleanupIfIdle(stop.run)

\* The storage migration cancels every run without a stop hold.  Its clean-up,
\* at most 0.2 s later, is RunCleanup.
MigrationCancels(r) ==
    /\ CancelTasks(r, UNION {Active(c) : c \in {registered[r]} \ {NoControl}})
    /\ cancel' = [c \in Controls |-> cancel[c] \/ c = registered[r]]
    /\ UNCHANGED <<pc, home, ctlOf, registered, holds, stop>>

\* The clean-up calls that follow a main turn, a retired conversation or the
\* migration's cancel.
RunCleanup(r) ==
    /\ registered' = CleanedNow(r)
    /\ UNCHANGED <<status, pc, kill, home, ctlOf, cancel, holds, waking, stop>>

\* The run's wakeup task is over and nothing is left to tell (finish_wakeup).
WakeupEnds(r) ==
    /\ waking[r]
    /\ waking' = [waking EXCEPT ![r] = FALSE]
    /\ UNCHANGED <<status, pc, kill, home, ctlOf, cancel, holds, stop>>
    /\ CleanupIfIdle(r)

-----------------------------------------------------------------------------
Enter(t) == EnterCancelled(t) \/ EnterStream(t) \/ EnterFails(t)
Stream(t) == StreamEnds(t) \/ StreamSeesCancel(t)
StopStep == StopCancels \/ StopEnds \/ StopFails

Next ==
    \/ \E t \in Tasks : \/ Ask(t) \/ AskRefused(t)
                        \/ Begin(t) \/ TakePermit(t) \/ Enter(t) \/ Stream(t)
                        \/ Unwind(t) \/ Reap(t)
    \/ \E r \in Runs : \/ StopRequest(r) \/ MigrationCancels(r)
                       \/ RunCleanup(r) \/ WakeupEnds(r)
    \/ StopStep

\* The event loop runs every ready callback; asyncio's semaphore and lock hand
\* over in FIFO order; child processes and the abort of the main process come
\* to an end by themselves or when they are killed.
Fairness ==
    /\ \A t \in Tasks : /\ WF_vars(Begin(t)) /\ SF_vars(TakePermit(t))
                        /\ SF_vars(Enter(t)) /\ WF_vars(Stream(t))
                        /\ WF_vars(Unwind(t)) /\ WF_vars(Reap(t))
    /\ WF_vars(StopStep)

Spec == Init /\ [][Next]_vars

FairSpec == Spec /\ Fairness

-----------------------------------------------------------------------------
(* Properties *)

\* A child slot runs one task at a time, whichever main conversations delegate
\* to it: two streams of one agent can only overlap while all but one of them
\* are being torn down.  It takes the status check across runs, the agent lock
\* inside a run and one control per run to hold.
SlotExclusive ==
    \A t, u \in Tasks :
        /\ t # u /\ AgentOf[t] = AgentOf[u]
        /\ pc[t] = "stream" /\ pc[u] = "stream"
        => kill[t] \/ kill[u]

\* A run never holds more than max_parallel_agents permits, even though its
\* semaphore is thrown away and made anew between bursts of work.
CapacityRespected ==
    \A r \in Runs :
        Cardinality({t \in TasksOf(r) : pc[t] \in {"lock", "stream"}}) <= Capacity

\* While a child coroutine lives, its run's registered control is the one it
\* was started under: a stop finds and cancels it.
ControlKept ==
    \A t \in Tasks :
        pc[t] \in Unfinished =>
            /\ home[t] # NoControl
            /\ registered[RunOf[t]] = home[t]
            /\ pc[t] # "start" => ctlOf[t] = home[t]

\* A task left queued or running by a coroutine that has returned can still be
\* ended: its run keeps a control, marked cancelled, for the next stop.
OrphansCanBeStopped ==
    \A t \in Tasks :
        status[t] \in Pending /\ pc[t] \in {"done", "reaped"} =>
            \E c \in Controls : registered[RunOf[t]] = c /\ cancel[c]

\* From the moment a stop is requested until it is over, ask_agent adds no task
\* to the run: the stop cannot miss one.
NoAskWhileStopping ==
    [][\A t \in Tasks :
        stop.phase # "idle" /\ RunOf[t] = stop.run /\ status[t] = "none"
            => status'[t] = "none"]_vars

\* What ClusterMessages and ClusterWakeup take for granted of tasks and stops is
\* what happens here (TaskLife).
LifeOf(s) ==
    IF s \in Pending THEN "pending"
    ELSE IF s \in {"completed", "failed"} THEN "ended" ELSE s

StopOf(r) ==
    IF stop.run # r THEN "no"
    ELSE IF stop.phase = "abort" THEN "asked" ELSE "cancelled"

Life == INSTANCE TaskLife WITH
    Migrating <- TRUE, Failing <- StopMayFail,
    life <- [t \in Tasks |-> LifeOf(status[t])],
    stopping <- [r \in Runs |-> StopOf(r)]

ImplementsLife == Life!Spec

\* When a stop reports that the cluster was cancelled, the run has no task that
\* is queued or running and no child coroutine that is still alive.
StopDrains ==
    [][stop.phase = "gather" /\ stop'.phase = "idle" =>
        \A t \in TasksOf(stop.run) :
            status'[t] \notin Pending /\ pc'[t] \notin Unfinished]_vars

\* A result is final: neither a late stop nor a late child changes the status
\* of a task that was completed, failed or cancelled.
TerminalIsFinal ==
    [][\A t \in Tasks : status[t] \in Terminal => status'[t] = status[t]]_vars

\* Provided the abort of the main process does not fail, an accepted task gets
\* a terminal status and its coroutine ends.
TasksEnd ==
    \A t \in Tasks : status[t] = "queued" ~>
                        status[t] \in Terminal /\ pc[t] = "reaped"

\* A stop request returns: gather does not wait for a coroutine that waits, in
\* turn, for something only the stop would release.
StopsReturn == stop.phase # "idle" ~> stop.phase = "idle"

\* What tests/test_cluster_cancel.py asserts of the task that follows a stop:
\* it is enqueued under a control that is not marked cancelled.
AskedUnderOpenControl ==
    [][\A t \in Tasks :
        status[t] = "none" /\ status'[t] = "queued" => ~cancel'[home'[t]]]_vars

=============================================================================
