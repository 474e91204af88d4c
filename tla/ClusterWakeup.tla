--------------------------- MODULE ClusterWakeup ---------------------------
(***************************************************************************)
(* How a child agent that ends after the main agent's turn wakes it up:    *)
(* requests and their generation, the grace window, queued notices, the    *)
(* wakeup task of a run and the turn it starts.                            *)
(*                                                                         *)
(* Code: bot/cluster/runtime.py (ClusterParentState and its methods) and   *)
(* bot/web/api_service.py (_queue_cluster_parent_wakeup to                 *)
(* _cancel_cluster_run, _start_cluster_run_if_requested, run_chat and      *)
(* stream_chat).  One run of one main conversation.                        *)
(***************************************************************************)
EXTENDS Naturals, FiniteSets

CONSTANTS
    Tasks,        \* task ids of the run
    Wakers,       \* asyncio tasks running _run_cluster_parent_wakeup
    NoWaker,
    MaxRequests,  \* bound: requests the user makes
    Switching,    \* may the user change the main conversation?
    Rejecting,    \* may a chat be refused before it has a turn?
    Failing,      \* may the turn a wakeup starts fail?
    Solo          \* may a turn end without looking for notices?

ASSUME WakeupConstantsAssumption ==
    /\ NoWaker \notin Wakers
    /\ MaxRequests \in Nat
    /\ Switching \in BOOLEAN /\ Rejecting \in BOOLEAN /\ Failing \in BOOLEAN
    /\ Solo \in BOOLEAN

VARIABLES
    status,      \* of each task; "ended": completed or failed
    asked,       \* ClusterAgentTask.parent_generation
    note,        \* "queued": wakeup_pending, "sent": wakeup_sent, "untold":
                 \* the child's coroutine has yet to look whether to queue it
    generation,  \* ClusterParentState.generation
    grace,       \* parent_turn_finished_recently
    main,        \* what occupies the session of the main agent
    away,        \* is another conversation active in it?
    stop,        \* _control_stop_task, and with it cancel_requested
    current,     \* ClusterRun.parent_wakeup_task
    place,       \* where each wakeup task is
    carried,     \* claimed_tasks of each wakeup task
    silenced,    \* history: tasks that were over when a stop was
    unattended   \* history: tasks whose notice was left queued with no retry
                 \* due

vars == <<status, asked, note, generation, grace, main, away, stop,
          current, place, carried, silenced, unattended>>

\* main: "prep" is a user's turn that has not made a request, which a solo turn
\* never does, "user" one that has, "wakeup" a turn started by a wakeup;
\* "queueing" and "switch" are a conversation change waiting for, and holding,
\* the conversation lock.
Turns == {"prep", "user", "wakeup"}

\* place: "start" waits for the conversation lock, "turn" is in run_chat,
\* "killed" has been cancelled and unwinds, "ok" and "idle" have returned TRUE
\* and FALSE with their done callback due, "free" is no task.
Live == {"start", "turn", "killed"}

TypeOK ==
    /\ status \in [Tasks -> {"none", "pending", "ended", "cancelled"}]
    /\ asked \in [Tasks -> Nat]
    /\ note \in [Tasks -> {"none", "untold", "queued", "sent"}]
    /\ generation \in Nat
    /\ grace \in BOOLEAN
    /\ main \in Turns \cup {"idle", "queueing", "switch"}
    /\ away \in BOOLEAN
    /\ stop \in {"no", "abort", "gather"}
    /\ current \in Wakers \cup {NoWaker}
    /\ place \in [Wakers -> Live \cup {"free", "ok", "idle"}]
    /\ carried \in [Wakers -> SUBSET Tasks]
    /\ silenced \in SUBSET Tasks
    /\ unattended \in SUBSET Tasks

Init ==
    /\ status = [t \in Tasks |-> "none"]
    /\ asked = [t \in Tasks |-> 0]
    /\ note = [t \in Tasks |-> "none"]
    /\ generation = 0
    /\ grace = FALSE
    /\ main = "idle"
    /\ away = FALSE
    /\ stop = "no"
    /\ current = NoWaker
    /\ place = [k \in Wakers |-> "free"]
    /\ carried = [k \in Wakers |-> {}]
    /\ silenced = {}
    /\ unattended = {}

-----------------------------------------------------------------------------
(* Notices *)

Queued(notes) == {t \in Tasks : notes[t] = "queued"}

\* _clear_cluster_parent_wakeup_pending
Cleared(notes) == [t \in Tasks |-> IF notes[t] = "queued" THEN "none" ELSE notes[t]]

\* Mutant of Eligible: children of earlier requests count too.
EligibleEver(t) == status[t] = "ended" /\ note[t] # "sent"

\* parent_wakeup_eligible
Eligible(t) == status[t] = "ended" /\ note[t] # "sent" /\ asked[t] = generation

\* _queue_cluster_parent_wakeup
QueuedNow(t) ==
    [note EXCEPT ![t] = IF Eligible(t) /\ ~grace /\ main \notin Turns
                        THEN "queued" ELSE "none"]

\* Mutant of Busy: the run's wakeup task is not looked at.
NeverBusy(cur, places) == FALSE

\* Mutant of Busy: a wakeup task that is done but not yet reaped counts.
BusyUntilReaped(cur, places) == cur # NoWaker

Busy(cur, places) == cur # NoWaker /\ places[cur] \in Live

\* _schedule_cluster_parent_wakeup, on the values the step leaves.
Schedule(notes, cur, places) ==
    IF Queued(notes) = {} \/ Busy(cur, places)
    THEN current' = cur /\ place' = places
    ELSE \E k \in Wakers :
            /\ places[k] = "free"
            /\ current' = k
            /\ place' = [places EXCEPT ![k] = "start"]

-----------------------------------------------------------------------------
(* Tasks *)

\* ask_agent, by a turn of the main agent or a tool call that outlives it.
Ask(t) ==
    /\ status[t] = "none" /\ stop = "no" /\ ~away /\ generation > 0
    /\ status' = [status EXCEPT ![t] = "pending"]
    /\ asked' = [asked EXCEPT ![t] = generation]
    /\ UNCHANGED <<note, generation, grace, main, away, stop, current, place,
                   carried, silenced, unattended>>

\* poll_agent_tasks adopts unfinished tasks into the latest request.
Poll(t) ==
    /\ status[t] = "pending"
    /\ asked' = [asked EXCEPT ![t] = generation]
    /\ UNCHANGED <<status, note, generation, grace, main, away, stop, current,
                   place, carried, silenced, unattended>>

\* complete_agent_task or fail_agent_task, unless a stop is in progress; the
\* coroutine may then have to wait for the condition's lock ...
ChildEnds(t) ==
    /\ status[t] = "pending" /\ stop = "no"
    /\ status' = [status EXCEPT ![t] = "ended"]
    /\ note' = [note EXCEPT ![t] = "untold"]
    /\ UNCHANGED <<asked, generation, grace, main, away, stop, current, place,
                   carried, silenced, unattended>>

\* ... before it schedules a wakeup.
ChildTells(t) ==
    /\ note[t] = "untold"
    /\ note' = QueuedNow(t)
    /\ Schedule(note', current, place)
    /\ UNCHANGED <<status, asked, generation, grace, main, away, stop, carried,
                   silenced, unattended>>

-----------------------------------------------------------------------------
(* The main session *)

Free == main = "idle" /\ stop = "no"

\* _session_lifecycle_scope admits a chat ...
TurnAdmitted ==
    /\ Free /\ ~away /\ generation < MaxRequests
    /\ main' = "prep"
    /\ UNCHANGED <<status, asked, note, generation, grace, away, stop, current,
                   place, carried, silenced, unattended>>

\* ... and _start_cluster_run_if_requested makes it a new request.
TurnBegins ==
    /\ main = "prep"
    /\ main' = "user"
    /\ generation' = generation + 1
    /\ UNCHANGED <<status, asked, note, grace, away, stop, current, place,
                   carried, silenced, unattended>>

\* _finish_cluster_parent_turn, in the step that frees the session.  stream_chat
\* calls it for a turn without a request too.
TurnEnds ==
    /\ main \in {"prep", "user"}
    /\ main' = "idle"
    /\ grace' = TRUE
    /\ Schedule(note, current, place)
    /\ UNCHANGED <<status, asked, note, generation, away, stop, carried,
                   silenced, unattended>>

\* run_chat and a turn that outlives its reader do not: a solo turn ends without
\* looking, and so does one whose preparation raises, its request made or not.
TurnUnseen ==
    /\ Solo
    /\ main = "prep"
    /\ main' = "idle"
    /\ generation' \in {generation, generation + 1}
    /\ unattended' = IF Busy(current, place) THEN unattended
                     ELSE unattended \cup Queued(note)
    /\ UNCHANGED <<status, asked, note, grace, away, stop, current, place,
                   carried, silenced>>

\* stream_chat looks too for a chat that was refused (session busy, update
\* pending, conversation changed) and never had a turn.
ChatRejected ==
    /\ Rejecting /\ ~away
    /\ grace' = TRUE
    /\ Schedule(note, current, place)
    /\ UNCHANGED <<status, asked, note, generation, main, away, stop, carried,
                   silenced, unattended>>

GraceEnds ==
    /\ grace
    /\ grace' = FALSE
    /\ UNCHANGED <<status, asked, note, generation, main, away, stop, current,
                   place, carried, silenced, unattended>>

\* A conversation change takes the session, then the conversation lock; it
\* waits for the lock only behind a wakeup that was handed it.
SwitchBegins ==
    /\ Switching /\ Free
    /\ \/ main' = "switch"
       \/ main' = "queueing" /\ \E k \in Wakers : place[k] = "start"
    /\ UNCHANGED <<status, asked, note, generation, grace, away, stop, current,
                   place, carried, silenced, unattended>>

SwitchLocks ==
    /\ main = "queueing"
    /\ main' = "switch"
    /\ UNCHANGED <<status, asked, note, generation, grace, away, stop, current,
                   place, carried, silenced, unattended>>

\* A conversation with unfinished tasks cannot be left.
SwitchEnds ==
    /\ main = "switch"
    /\ main' = "idle"
    /\ \E there \in BOOLEAN :
          /\ there => away \/ \A t \in Tasks : status[t] # "pending"
          /\ away' = there
    /\ UNCHANGED <<status, asked, note, generation, grace, stop, current,
                   place, carried, silenced, unattended>>

-----------------------------------------------------------------------------
(* _run_cluster_parent_wakeup *)

\* It has the conversation lock, which it keeps until the turn is admitted.
\* The event loop is first in, first out: a wakeup made after another one
\* returned looks at nothing before the done callback of that one.
Locked(k) ==
    /\ place[k] = "start" /\ main # "switch"
    /\ \A l \in Wakers : place[l] \notin {"ok", "idle"}

\* The run is being stopped or its conversation is not the active one.
WakeupObsolete(k) ==
    /\ Locked(k)
    /\ stop # "no" \/ away
    /\ note' = Cleared(note)
    /\ place' = [place EXCEPT ![k] = "idle"]
    /\ UNCHANGED <<status, asked, generation, grace, main, away, stop, current,
                   carried, silenced, unattended>>

\* The session is busy: the notices stay queued, for the end of the turn in
\* the way, if it looks; a conversation change does not.
WakeupDeferred(k) ==
    /\ Locked(k)
    /\ stop = "no" /\ ~away /\ main # "idle"
    /\ place' = [place EXCEPT ![k] = "idle"]
    /\ unattended' = IF main \in Turns THEN unattended
                     ELSE unattended \cup Queued(note)
    /\ UNCHANGED <<status, asked, note, generation, grace, main, away, stop,
                   current, carried, silenced>>

\* Claim what is still eligible, forget the rest, and start the turn.
WakeupClaims(k) ==
    LET claimed == {t \in Queued(note) : Eligible(t)} IN
    /\ Locked(k)
    /\ Free /\ ~away
    /\ note' = [t \in Tasks |-> IF t \in claimed THEN "sent" ELSE Cleared(note)[t]]
    /\ IF claimed = {}
       THEN /\ place' = [place EXCEPT ![k] = "idle"]
            /\ UNCHANGED <<main, carried>>
       ELSE /\ place' = [place EXCEPT ![k] = "turn"]
            /\ main' = "wakeup"
            /\ carried' = [carried EXCEPT ![k] = claimed]
    /\ UNCHANGED <<status, asked, generation, grace, away, stop, current,
                   silenced, unattended>>

\* run_chat returned: its own clean-up finds this very task still running and
\* schedules nothing.
WakeupTurnEnds(k) ==
    /\ place[k] = "turn"
    /\ main' = "idle"
    /\ grace' = TRUE
    /\ place' = [place EXCEPT ![k] = "ok"]
    /\ carried' = [carried EXCEPT ![k] = {}]
    /\ UNCHANGED <<status, asked, note, generation, away, stop, current,
                   silenced, unattended>>

\* run_chat raised: most errors requeue the notices, after that clean-up if it
\* came so far;
\* other WebApiErrors (voice_connection_active, cli_not_found) leave them sent.
WakeupTurnFails(k) ==
    /\ Failing
    /\ place[k] = "turn"
    /\ main' = "idle"
    /\ grace' \in {grace, TRUE}
    /\ \/ /\ note' = [t \in Tasks |-> IF t \in carried[k] THEN "queued" ELSE note[t]]
          /\ unattended' = unattended \cup carried[k]
       \/ UNCHANGED <<note, unattended>>
    /\ place' = [place EXCEPT ![k] = "idle"]
    /\ carried' = [carried EXCEPT ![k] = {}]
    /\ UNCHANGED <<status, asked, generation, away, stop, current, silenced>>

\* finish_wakeup, the done callback.
WakeupReaped(k) ==
    LET freed == [place EXCEPT ![k] = "free"] IN
    /\ place[k] \in {"ok", "idle"}
    /\ IF current # k THEN current' = current /\ place' = freed
       ELSE IF place[k] = "ok" THEN Schedule(note, NoWaker, freed)
       ELSE current' = NoWaker /\ place' = freed
    /\ UNCHANGED <<status, asked, note, generation, grace, main, away, stop,
                   carried, silenced, unattended>>

\* A cancelled wakeup raises CancelledError where it is.
WakeupUnwinds(k) ==
    /\ place[k] = "killed"
    /\ IF carried[k] = {} THEN UNCHANGED <<main, grace>>
       ELSE main' = "idle" /\ grace' \in {grace, TRUE}
    /\ place' = [place EXCEPT ![k] = "free"]
    /\ carried' = [carried EXCEPT ![k] = {}]
    /\ UNCHANGED <<status, asked, note, generation, away, stop, current,
                   silenced, unattended>>

-----------------------------------------------------------------------------
(* kill_user_process and _cancel_cluster_run *)

StopRequest ==
    /\ stop = "no" /\ ~away /\ main \notin {"queueing", "switch"}
    /\ \/ main # "idle"
       \/ \E t \in Tasks : status[t] = "pending" \/ note[t] = "queued"
       \/ Busy(current, place)
    /\ stop' = "abort"
    /\ UNCHANGED <<status, asked, note, generation, grace, main, away, current,
                   place, carried, silenced, unattended>>

\* Mutant of NotesStopped: what is queued stays queued.
NotesUntouched == note

\* Mutant of NotesStopped: the tasks lose their notes with the queue.
NotesDeleted == [t \in {u \in Tasks : note[u] = "sent"} |-> "sent"]

\* The queue is cleared and the coroutines yet to look at it are cancelled.
NotesStopped == [t \in Tasks |-> IF note[t] = "sent" THEN "sent" ELSE "none"]

\* The main process is gone, its turn may still be on its way out.
StopCancels ==
    /\ stop = "abort"
    /\ stop' = "gather"
    /\ status' = [t \in Tasks |-> IF status[t] = "pending" THEN "cancelled" ELSE status[t]]
    /\ note' = NotesStopped
    /\ place' = IF Busy(current, place) THEN [place EXCEPT ![current] = "killed"] ELSE place
    /\ current' = NoWaker
    /\ UNCHANGED <<asked, generation, grace, main, away, carried, silenced,
                   unattended>>

StopEnds ==
    /\ stop = "gather"
    /\ \A k \in Wakers : place[k] # "killed"
    /\ stop' = "no"
    /\ silenced' = {t \in Tasks : status[t] \in {"ended", "cancelled"}}
    /\ UNCHANGED <<status, asked, note, generation, grace, main, away, current,
                   place, carried, unattended>>

-----------------------------------------------------------------------------
WakeupLooks(k) == WakeupObsolete(k) \/ WakeupDeferred(k) \/ WakeupClaims(k)
TurnOfWakeup(k) == WakeupTurnEnds(k) \/ WakeupTurnFails(k)
StopStep == StopCancels \/ StopEnds
TurnGoesOn == TurnBegins \/ TurnEnds \/ TurnUnseen

Next ==
    \/ \E t \in Tasks : Ask(t) \/ Poll(t) \/ ChildEnds(t) \/ ChildTells(t)
    \/ TurnAdmitted \/ TurnGoesOn \/ ChatRejected \/ GraceEnds
    \/ SwitchBegins \/ SwitchLocks \/ SwitchEnds
    \/ \E k \in Wakers : \/ WakeupLooks(k) \/ TurnOfWakeup(k)
                         \/ WakeupReaped(k) \/ WakeupUnwinds(k)
    \/ StopRequest \/ StopStep

\* The event loop runs what is ready, a turn of the main agent comes to an end
\* and so does the grace window.  The conversation lock serves who waits first,
\* so conversation changes never keep a wakeup out for ever.  Nothing is
\* assumed of users and children.
Fairness ==
    /\ \A k \in Wakers : /\ SF_vars(WakeupLooks(k)) /\ WF_vars(TurnOfWakeup(k))
                         /\ WF_vars(WakeupReaped(k))
                         /\ WF_vars(WakeupUnwinds(k))
    /\ \A t \in Tasks : WF_vars(ChildTells(t))
    /\ WF_vars(TurnGoesOn) /\ WF_vars(GraceEnds)
    /\ WF_vars(SwitchLocks) /\ WF_vars(SwitchEnds) /\ WF_vars(StopStep)

Spec == Init /\ [][Next]_vars

FairSpec == Spec /\ Fairness

-----------------------------------------------------------------------------
(* Properties *)

\* A run never has two wakeups on their way to the main agent.
OneWakeup ==
    \A k, l \in Wakers :
        place[k] \in {"start", "turn"} /\ place[l] \in {"start", "turn"} => k = l

\* A wakeup's turn is about children of the user's latest request only, and
\* stays so: no newer request begins while it runs.
CurrentNotices ==
    \A k \in Wakers : place[k] = "turn" => \A t \in carried[k] : asked[t] = generation

\* What was over when a stop returned never wakes the main agent.
StopSilences ==
    \A k \in Wakers : place[k] = "turn" => carried[k] \cap silenced = {}

\* "Retry deferred notices": a queued notice does not stay queued, it is sent,
\* or dropped because the user went on or stopped the run
\* (_schedule_cluster_parent_wakeup, _finish_cluster_parent_turn).
NoticesSettle == \A t \in Tasks : note[t] = "queued" ~> note[t] # "queued"

\* The retries that there are reach every notice except those of a failed turn,
\* those a wakeup left to a conversation change and those queued when a turn
\* ended that does not look for any.  (A user whose turns, none of them a
\* request, came ahead of every wakeup would keep them all waiting.)
AttendedNoticesSettle ==
    <>[][~TurnAdmitted]_vars =>
        \A t \in Tasks :
            note[t] = "queued" ~> (note[t] # "queued" \/ t \in unattended)

\* Tasks and stops live here as they do in ClusterTasks (TaskLife).
Life == INSTANCE TaskLife WITH
    Runs <- {"run"}, RunOf <- [t \in Tasks |-> "run"],
    Migrating <- FALSE, Failing <- FALSE,
    life <- status,
    stopping <- [r \in {"run"} |-> IF stop = "abort" THEN "asked"
                                   ELSE IF stop = "gather" THEN "cancelled" ELSE "no"]

ImplementsLife == Life!Spec

=============================================================================
