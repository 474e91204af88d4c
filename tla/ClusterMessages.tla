-------------------------- MODULE ClusterMessages --------------------------
(***************************************************************************)
(* The message board of one cluster run: what child agents post, and the   *)
(* tool calls of the main agent that wait for it.                          *)
(*                                                                         *)
(* Code: bot/cluster/runtime.py (ClusterRun and the ClusterRuntime methods *)
(* on messages) and the poll_agent_tasks and wait_agent_messages branches  *)
(* of handle_cluster_mcp_tool in bot/web/api_service.py.  One event loop   *)
(* runs it all; a waiter is suspended in run.message_condition, or for the *)
(* condition's lock, and nowhere else.                                     *)
(***************************************************************************)
EXTENDS Naturals, Sequences, FiniteSets, SequencesExt

CONSTANTS
    Tasks,           \* task ids of the run
    Waiters,         \* tool calls in flight
    Texts,           \* what a child may have to say
    NoText,          \* nothing but blanks
    StopText,        \* the notice of a stop
    Keep,            \* messages kept of each task (100 in the code)
    Limit,           \* message_limit
    ManagedFilters,  \* the filters used with the server's unread cursor
    Overrides,       \* values of after_sequence passed instead of it
    MaxProgress      \* bound: no progress message gets a higher number

Kinds   == {"progress", "final"}
Filters == {{"progress"}, {"final"}, Kinds}

ASSUME MessageConstantsAssumption ==
    /\ IsFiniteSet(Tasks)
    /\ NoText \notin Texts /\ StopText # NoText
    /\ Keep \in Nat \ {0}
    /\ Limit \in Nat \ {0}
    /\ ManagedFilters \subseteq Filters
    /\ Overrides \subseteq Nat
    /\ MaxProgress \in Nat

VARIABLES
    status,  \* ClusterAgentTask.status
    log,     \* every message ever appended: log[i] has sequence number i
    owed,    \* who has appended and not yet been through notify_all
    call,    \* the arguments of each tool call
    pc,      \* where each tool call is suspended
    read,    \* ClusterRun._agent_message_read_sequence
    shown    \* history: the messages managed reads have returned

vars == <<status, log, owed, call, pc, read, shown>>

Pending  == {"queued", "running"}
Terminal == {"completed", "failed", "cancelled"}
Stop     == "stop"  \* _cancel_cluster_run, in owed

Message == [task : Tasks, kind : Kinds, text : Texts \cup {StopText}]

Calls == [op : {"messages", "tasks"}, after : Nat, kinds : Filters,
          managed : BOOLEAN, tasks : SUBSET Tasks]

MessageCall(after, kinds, managed) ==
    [op |-> "messages", after |-> after, kinds |-> kinds,
     managed |-> managed, tasks |-> {}]

TaskCall(tasks) ==
    [op |-> "tasks", after |-> 0, kinds |-> Kinds, managed |-> FALSE,
     tasks |-> tasks]

NoCall == TaskCall({})

\* "enter": waits for the condition's lock; "wait": in the condition's wait;
\* "woken": notified.
TypeOK ==
    /\ status \in [Tasks -> {"none"} \cup Pending \cup Terminal]
    /\ log \in Seq(Message)
    /\ owed \subseteq Tasks \cup {Stop}
    /\ call \in [Waiters -> Calls]
    /\ pc \in [Waiters -> {"idle", "enter", "wait", "woken"}]
    /\ read \in Nat
    /\ shown \in SUBSET Nat

Init ==
    /\ status = [t \in Tasks |-> "none"]
    /\ log = <<>>
    /\ owed = {}
    /\ call = [w \in Waiters |-> NoCall]
    /\ pc = [w \in Waiters |-> "idle"]
    /\ read = 0
    /\ shown = {}

-----------------------------------------------------------------------------
(* The board *)

Of(t) == {i \in DOMAIN log : log[i].task = t}

\* task.messages: the newest Keep messages of the task.
Kept(t) == {i \in Of(t) : Cardinality({j \in Of(t) : j > i}) < Keep}

Board == {i \in DOMAIN log : i \in Kept(log[i].task)}

\* Mutant of Dropped: a blank message is posted like any other.
DroppedButBlank(t, kind, text) ==
    \/ \E i \in Of(t) : /\ log[i].kind = kind /\ log[i].text = text
                        /\ \A j \in Of(t) : j <= i
    \/ kind = "final" /\ \E i \in Kept(t) : log[i].kind = "final"

\* append_agent_task_message returns None: blank, a repetition of the task's
\* last message, or a second final.
Dropped(t, kind, text) ==
    \/ text = NoText
    \/ \E i \in Of(t) : /\ log[i].kind = kind /\ log[i].text = text
                        /\ \A j \in Of(t) : j <= i
    \/ kind = "final" /\ \E i \in Kept(t) : log[i].kind = "final"

Posted(t, kind, text) ==
    IF Dropped(t, kind, text) THEN log
    ELSE Append(log, [task |-> t, kind |-> kind, text |-> text])

-----------------------------------------------------------------------------
(* The child agents and the stop request *)

Ask(t) ==
    /\ status[t] = "none"
    /\ status' = [status EXCEPT ![t] = "queued"]
    /\ UNCHANGED <<log, owed, call, pc, read, shown>>

Run(t) ==
    /\ status[t] = "queued"
    /\ status' = [status EXCEPT ![t] = "running"]
    /\ UNCHANGED <<log, owed, call, pc, read, shown>>

\* Mutant of Streams: the child does not look whether it was cancelled.
StreamsOn(t) == status[t] \in {"running", "cancelled"} /\ t \notin owed

\* The child's coroutine has an event to handle: it is not notifying and, by
\* _cluster_task_is_cancelled, it has not been cancelled.
Streams(t) == status[t] = "running" /\ t \notin owed

Progress(t) ==
    /\ Streams(t)
    /\ Len(log) < MaxProgress
    /\ \E text \in Texts : log' = Posted(t, "progress", text)
    /\ owed' = owed \cup {t}
    /\ UNCHANGED <<status, call, pc, read, shown>>

\* complete_agent_task and fail_agent_task; the output may be blank.
End(t) ==
    /\ Streams(t)
    /\ \E outcome \in {"completed", "failed"} : status' = [status EXCEPT ![t] = outcome]
    /\ \E text \in Texts \cup {NoText} : log' = Posted(t, "final", text)
    /\ owed' = owed \cup {t}
    /\ UNCHANGED <<call, pc, read, shown>>

\* cancel_run_tasks, in any order, then Task.cancel() on the coroutines: some
\* were about to notify and no longer will.
CancelAll ==
    /\ \E t \in Tasks : status[t] \in Pending
    /\ status' = [t \in Tasks |-> IF status[t] \in Pending THEN "cancelled" ELSE status[t]]
    /\ \E order \in SetToSeqs({t \in Tasks : /\ status[t] \in Pending
                                             /\ ~Dropped(t, "final", StopText)}) :
          log' = log \o [i \in DOMAIN order |->
                           [task |-> order[i], kind |-> "final", text |-> StopText]]
    /\ \E cancelled \in SUBSET owed : owed' = (owed \ cancelled) \cup {Stop}
    /\ UNCHANGED <<call, pc, read, shown>>

\* notify_agent_task_message, once it has the condition's lock.
Notify(n) ==
    /\ n \in owed
    /\ owed' = owed \ {n}
    /\ pc' = [w \in Waiters |-> IF pc[w] = "wait" THEN "woken" ELSE pc[w]]
    /\ UNCHANGED <<status, log, call, read, shown>>

-----------------------------------------------------------------------------
(* poll_agent_tasks and wait_agent_messages *)

\* build_agent_messages
Matches(c) == {i \in Board : i > c.after /\ log[i].kind \in c.kinds}
Page(c)    == {i \in Matches(c) : Cardinality({j \in Matches(c) : j < i}) < Limit}

\* Mutant of IsCursor: the end of the board although the page was limited.
CursorAtEnd(c, i) == i = Len(log)

\* The cursor of a page is its last message.
IsCursor(c, i) == i \in Page(c) /\ \A j \in Page(c) : j <= i

\* build_task_status: no ids means every task of the run.
Selected(c) == IF c.tasks = {} THEN Tasks ELSE c.tasks

\* What the call waits for.
Ready(c) == IF c.op = "messages" THEN Matches(c) # {}
            ELSE \A t \in Selected(c) : status[t] \notin Pending

\* mark_agent_messages_read
MarkRead(cursor) == IF cursor > read THEN cursor ELSE read

\* The call returns what there is now.
Return(w, c) ==
    /\ call' = [call EXCEPT ![w] = NoCall]
    /\ pc' = [pc EXCEPT ![w] = "idle"]
    /\ IF c.op = "messages" /\ c.managed /\ Page(c) # {}
       THEN /\ \E i \in DOMAIN log : IsCursor(c, i) /\ read' = MarkRead(i)
            /\ shown' = shown \cup Page(c)
       ELSE UNCHANGED <<read, shown>>
    /\ UNCHANGED <<status, log, owed>>

Sleep(w, c, place) ==
    /\ call' = [call EXCEPT ![w] = c]
    /\ pc' = [pc EXCEPT ![w] = place]
    /\ UNCHANGED <<status, log, owed, read, shown>>

Attempt(w, c, place) == IF Ready(c) THEN Return(w, c) ELSE Sleep(w, c, place)

WaitAgentMessages(w) ==
    /\ pc[w] = "idle"
    /\ \/ \E kinds \in ManagedFilters : Attempt(w, MessageCall(read, kinds, TRUE), "enter")
       \/ \E kinds \in Filters, after \in Overrides :
             Attempt(w, MessageCall(after, kinds, FALSE), "enter")

PollAgentTasks(w) ==
    /\ pc[w] = "idle"
    /\ \E tasks \in SUBSET Tasks : Attempt(w, TaskCall(tasks), "enter")

\* Mutant of Enter: what happened before the lock was taken is not looked at.
EnterBlindly(w) == pc[w] = "enter" /\ Sleep(w, call[w], "wait")

\* With the lock, once more, before condition.wait() releases it.
Enter(w) == pc[w] = "enter" /\ Attempt(w, call[w], "wait")

Wake(w) == pc[w] = "woken" /\ Attempt(w, call[w], "enter")

\* The deadline passes in condition.wait(), or has passed when the call wakes.
TimeOut(w) == pc[w] \in {"wait", "woken"} /\ Return(w, call[w])

-----------------------------------------------------------------------------
Next ==
    \/ \E t \in Tasks : Ask(t) \/ Run(t) \/ Progress(t) \/ End(t)
    \/ CancelAll
    \/ \E n \in Tasks \cup {Stop} : Notify(n)
    \/ \E w \in Waiters : \/ WaitAgentMessages(w) \/ PollAgentTasks(w)
                          \/ Enter(w) \/ Wake(w) \/ TimeOut(w)

Spec == Init /\ [][Next]_vars

-----------------------------------------------------------------------------
(* Properties *)

\* A child's final message is the last it posts, and the only final one: a
\* stop and the child's own end, whichever comes first, never both post one,
\* and no progress follows.
FinalIsLast ==
    \A i, j \in DOMAIN log :
        i < j /\ log[i].task = log[j].task => log[i].kind # "final"

\* Kinds that every read with the unread cursor asks for.
AlwaysWanted == {k \in Kinds : \A kinds \in ManagedFilters : k \in kinds}

\* The unread cursor never passes a message that was not returned, unless the
\* board itself had dropped it: not when a page is cut at its limit, nor when
\* several calls wait at once.
NothingSkipped ==
    \A i \in DOMAIN log :
        i <= read /\ log[i].kind \in AlwaysWanted => i \in shown \/ i \notin Board

\* A read that starts now returns no message that an earlier one returned,
\* however the reads overlapped.
ShownIsRead == \A i \in shown : i <= read

\* No wakeup is lost: while what a waiting call waits for is there, somebody
\* still owes the notification, although posting, cancelling and notifying are
\* separate steps and a cancelled child does not notify any more.
NoWakeupLost ==
    \A w \in Waiters : pc[w] = "wait" /\ Ready(call[w]) => owed # {}

\* The tasks live as in ClusterTasks (TaskLife); who cancels them, a stop or the
\* storage migration, makes no difference to the board.
Life == INSTANCE TaskLife WITH
    Runs <- {"run"}, RunOf <- [t \in Tasks |-> "run"],
    Migrating <- TRUE, Failing <- FALSE,
    life <- [t \in Tasks |-> IF status[t] \in Pending THEN "pending"
                             ELSE IF status[t] \in {"completed", "failed"} THEN "ended"
                             ELSE status[t]],
    stopping <- [r \in {"run"} |-> "no"]

ImplementsLife == Life!Spec

=============================================================================
