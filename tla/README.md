# A verification project for telegram-cli-bot

The program is a self-hosted workbench around command-line coding agents: a web
server and a Telegram gateway let a user talk to a main agent per bot, and a
main agent may delegate work to a *cluster* of child agents through MCP tools.
Nearly all of it runs on one asyncio event loop; conversation operations and the
chat store use worker threads, agents are child processes, and state that must
survive a restart is in SQLite.

This directory models the parts in which several actors share state: the session
of an agent with its turns, stops and conversation changes; the channel through
which a client reads a turn of the native agent; the durable delivery of results
to Telegram; and the cluster, in four components. Each has a TLC instance and
TLAPS proofs, and each is shown to implement an abstract specification of what it
promises. The remaining components are listed with what they would need.

Paths below are relative to `src/bot/`; `PROJECT.json` maps every definition to
the lines it models.

## 1. Inventory

### Modelled components

| Component | State | Operations | What makes it hard | What makes it correct |
|---|---|---|---|---|
| **Cluster tasks and stops** – `cluster/runtime.py`, `web/api_service.py` | status of each task; the coroutine of each task; `_CLUSTER_RUN_CONTROLS` with `cancel_requested`, `stop_holds`, semaphore, agent locks and coroutines; the session's stop task | `ask_agent`, `_run_cluster_agent_task`, `kill_user_process`, `_cancel_cluster_run`, the storage migration's cancel, `_cleanup_cluster_run_control_if_idle` | a coroutine suspends at the semaphore, the agent lock and every event; a stop awaits the main process, then the children; controls are created on demand and dropped when idle; two conversations share the child slots | one child per slot; a stop finds every child, lets nothing new in and leaves nothing alive; terminal statuses are final; capacity survives the recreation of the semaphore; no circular wait |
| **Cluster messages** – `cluster/runtime.py`, the reading tools in `web/api_service.py` | messages of each task (the newest 100), run-wide sequence numbers, a condition, the unread cursor | progress, final and stop messages; `wait_agent_messages`, `poll_agent_tasks` | several calls wait at once with the cursor they read before they slept; pages are cut at `message_limit`; a stop posts final messages for children that are about to post theirs | one final message per child, and last; the cursor skips and repeats nothing; no lost wakeup |
| **Completion wakeups** – `ClusterParentState` in `cluster/runtime.py`, `_queue_cluster_parent_wakeup` to `_cancel_cluster_run` in `web/api_service.py` | request generation, grace window, note of each task, the run's wakeup task, what occupies the main session | a child ends; a turn begins, ends with or without a look at the notices, is refused; a wakeup looks, defers, claims, fails; conversation changes; stop | children, turn ends and done callbacks all schedule wakeups; notices queued for one request are claimed after another; a stop races with them; not every turn that was in a wakeup's way comes back for its notice | one wakeup at a time, about the latest request only, never about what a stop silenced; a notice is not forgotten |
| **Team of a main conversation** – `cluster/team_service.py`, the run table in `cluster/runtime.py`, `cluster_team_*` in `web/chat_store.py`, tool calls and conversation operations in `web/api_service.py` | stored team and revision; run objects, table and aliases; the controls' keys; child conversations; `max_parallel_agents`; the bot lock and the conversation lock with their waiters | `configure_team` (extend, replace, no change), `ask_agent`, `new_agent_session`, a chat, `update_cluster_config`, create/select/archive/delete/reset, restart | run ids change while tasks, controls and callers hold the old one; every operation checks, queues for a lock and goes on; memory and store are written apart; worker threads hold a lock | memory keeps step with the store; pending tasks stay reachable under every id they were asked with; a role keeps its slot while it works; no role inherits another's conversation |
| **Session of an agent** – `web/api_service.py`, `native_agent/service.py`, `web/chat_history_service.py`, the update gate in `web/server.py` | `is_processing`, lifecycle operation and token, execution id, detached flag, stop and abort tasks, process, active conversation | a chat, its CLI or native turn, `create`, `select`, `delete` and `archive` of conversations, a read of the history that binds one, `kill_user_process`, abort, update | preparation suspends between admission and begin; a native turn outlives its client; deletions and reads run in a thread, reserve nothing and act on what they saw before; a turn leaves a conversation of another kind; a stop acts on what it captured earlier | the session is held exactly while it is used; a stop never ends a later execution; a turn runs where it was sent, unless that is gone or of another kind; an update meets nothing under way |
| **Turn channel of the native agent** – `native_agent/pi_turn_stream.py`, `native_agent/service.py` | replay frames, gap, consumer, grace task, the producer's loop | append, evict, read, resume, detach, abort after the grace window | eviction while the consumer is away or works on a snapshot; overflow in mid-loop; a client that comes back as the window closes | critical events always reach the client; nothing is skipped without a gap event; a turn nobody reads ends |
| **Telegram delivery** – `telegram/gateway.py`, `telegram/state.py`, `telegram/notifications.py` | tables of updates, offset, deliveries and parts, notifications, buttons; handlers and retry tasks | poll, claim, handle, press, send, retry, recover | a crash between any two commits; retries scheduled in memory of a table on disk; several senders of one record | nothing runs twice, no update is lost, parts are shown in order and marked after they were shown, notifications settle |

They interact as follows. A chat (`_start_cluster_run_if_requested`) makes or
finds the run of the current team revision and a new *request* on it.
`ask_agent` checks the run id, queues for the conversation lock, checks the team
again and starts a coroutine in the run's control. The coroutine takes a permit
and the agent lock, streams the child's events, posts messages on the board and
at its end a final message, and may queue a notice. `wait_agent_messages` reads
the board; a wakeup claims notices and starts a turn of the main agent. A stop
takes a hold on the control, aborts the main process, cancels the children and
their notices and waits for them.

### Components without a model

| Component | State and operations | Hard behaviour | Properties worth stating | Status |
|---|---|---|---|---|
| Chat store – `web/chat_store.py`, `web/async_chat_store.py` | turns, messages, favourites; pending budget, worker threads, write locks | cancelled callers whose write goes on; writes of one workspace in thread order | a turn ends once; the budget bounds the writes in flight | planned first |
| Updates and storage migration – `update_*.py`, `storage_*.py`, `web/storage_migration_api.py` | drain flags, plans, migration state on disk | new work admitted while everything is being stopped; crash between phases | nothing runs while the storage moves; a restart resumes or rolls back | planned; the idle check of an update is in `SessionLifecycle` |
| Runtime of the native agent – `native_agent/pi_session_runtime.py`, `pi_rpc_client.py` | a process per conversation, start reservations, a bounded stream queue | start and shutdown race, deadlines, dropped items | one runtime per owner; the terminal item always arrives | planned |
| Codex server – `codex_server/` | a shared server process, threads, voice leases | leases against chats, restart of the server | one owner per thread | later |
| Terminals – `web/terminal_manager.py` | pseudo-terminal, replay buffer, client queues | slow clients, eviction, attach in mid-stream | gaps cover what a client missed | later |
| Language servers, plugins, debugger | child processes and request tables | cancellation, restart | each request answered once | candidates |
| Everything else: Git, files and search, accounts, tunnels, LAN chat, announcements, translation, usage and cost, CLI command lines, remote workspaces, bots and profiles, routes, the web frontend, packaging | records and files, external programs | mostly I/O and formatting | – | not modelled: little control of their own |

### Hazards

`PROJECT.json` lists what is hard to test here, each at its line with the
property that would catch it: steps between a check and its use (a run id
compared before a lock is awaited), two actors ending the same task, a stop
that fails half-way, a page that is cut, a retry with no trigger, a restart that
loses the table but not the store, an older turn's cleanup that meets the next
turn. Hazards without a property say why.

## 2. Modules

| Module | Role |
|---|---|
| `ClusterTasks` | tasks, controls and stops |
| `ClusterMessages` | the message board and the calls that wait for it |
| `ClusterWakeup` | notices, the grace window and wakeup turns |
| `ClusterTeam` | team, runs, aliases and locks of one main conversation |
| `TaskLife` | abstract specification: the life of tasks and the stop of a run, implemented by the three modules above it |
| `TeamRegister` | abstract specification: a versioned register of roles |
| `SessionLifecycle` | who may use the session of an agent: chats, turns, conversation operations, stops, the update |
| `SessionHold` | abstract specification: who holds a session and who moves its active conversation |
| `ChildSession` | the session of a child agent: `SessionLifecycle` with the cluster's workers |
| `TurnChannel` | the replay channel of a native turn |
| `ResumableFeed` | abstract specification: what a client that reconnects gets of a turn's events |
| `TelegramDelivery` | updates, results, retries and recovery of the Telegram gateway |
| `TelegramOutbox` | abstract specification: what a chat is promised about a result |
| `ClusterTasksProofs`, `ClusterMessagesProofs`, `ClusterWakeupProofs`, `ClusterTeamProofs`, `TurnChannelProofs`, `SessionLifecycleProofs`, `TelegramDeliveryProofs` | theorems and proofs about the module they extend |
| `TelegramCarrierProofs` | what the settling of results rests on, on top of `TelegramDeliveryProofs` |
| `MCClusterTasks`, `MCClusterMessages`, `MCClusterWakeup`, `MCClusterTeam`, `MCSessions`, `MCChildSession`, `MCTelegram` | constants and symmetries of the TLC instances; each `.cfg` is one run |

One convention holds for all of them. The event loop runs a coroutine from one
`await` that suspends to the next without interruption, so an action is the code
between two suspension points, with every call in it. An uncontended lock does
not suspend: `Ask` and `Configure` of `ClusterTeam` are the paths that find
their locks free, `AskQueues`/`AskResumes` and the like those that wait. Worker
threads are the exception: a conversation operation holds the lock with
`thread = TRUE` while other actions go on.

Operators called "Mutant of X" are plausible bugs of X. They are used by
nothing; `PROJECT.json` names, for every property, one with which the property
fails, and so what the property depends on.

### ClusterTasks

*State.* `status` is `ClusterAgentTask.status`, `pc` where the task's coroutine
is suspended (`start`, `sem`, `lock`, `stream`, then `done` and `reaped` when the
done callbacks have run), `kill` that `Task.cancel()` was called. Controls are
object identities: `registered` is `_CLUSTER_RUN_CONTROLS`, `home[t]` the control
that lists the coroutine and `ctlOf[t]` the one the coroutine itself looked up.
The two can differ if a control is dropped in between, which is the point of
keeping them apart. Identities nothing refers to are reused.

*Actions.* `Ask` and `AskRefused` are `ask_agent` with
`_require_cluster_run_control_ready` and `validate_ask_agent`; `Begin` to
`Unwind` are `_run_cluster_agent_task`; `Reap` its done callbacks; `StopRequest`,
`StopCancels`, `StopEnds` and `StopFails` are `kill_user_process`;
`MigrationCancels` is the storage migration; `RunCleanup` and `WakeupEnds` are
the remaining callers of the clean-up.

*Left out.* The text of prompts and results, and who may call: these only refuse
more. A run is the object, whatever id it has at the moment; ids are
`ClusterTeam`'s subject.

*TaskLife* says what the other cluster modules assume of tasks and stops: a task
begins once and ends once; from the request of a stop to its cancellation no task
of the run begins or ends; the cancellation takes all that is pending at once; a
completed stop leaves nothing pending. `ClusterTasks`, `ClusterMessages` and
`ClusterWakeup` each keep a status of the tasks, at different levels of detail,
and each implements it, so that they agree on it. `Migrating` and `Failing` say which
of the optional steps a module has.

### ClusterMessages

*State.* `log` holds every message ever appended, so the index is the sequence
number; `Board` is what `task.messages` still keeps. `owed` are those that have
appended and not yet been through `notify_all`, for which they need the
condition's lock. `call` and `pc` are the tool calls, `read` is the unread cursor
and `shown` a history of what managed reads returned.

*Actions.* A call looks at the board without the lock, then with it (`Enter`),
then sleeps; it wakes by `Notify` or by `TimeOut`. `CancelAll` posts the stop's
messages in any order, as the code iterates over a mapping, and may cancel
children that still owed a notification. Posting and notifying are two steps, and
a stop in between takes the second away: `NoWakeupLost` says that somebody still
owes it whenever a call sleeps on something that is there.

*Left out.* Filters by task and agent, which narrow a read the way `include_progress`
does; message texts other than equal, different and blank.

### ClusterWakeup

*State.* `generation` and `asked` tie a task to a request of the user. `note` is
the task's notice: `untold` between the child's end and the look that may queue
it, `queued`, `sent`. `main` is what occupies the main session, `place` where
each wakeup task is, `current` the run's `parent_wakeup_task`, `carried` what a
wakeup claimed. `silenced` and `unattended` are history: what a stop silenced, and
the notices that were put back while nothing was going to look again.

*Actions.* One per step of `_run_cluster_parent_wakeup` (obsolete, deferred,
claims, ends, fails, reaped, unwinds), of a user's turn (admitted, begins, ends,
refused), of a conversation change and of a stop. `Schedule` is
`_schedule_cluster_parent_wakeup`, called at every place the code calls it. A
user's turn is admitted (`prep`) and makes a request (`user`), which a solo turn
never does. `TurnEnds` is an end that goes through `_finish_cluster_parent_turn`:
every end of `stream_chat`, and that of a prepared turn of `run_chat` or of one
that outlives its reader. `TurnUnseen` is an end that does not: `run_chat` and the
detached turn call it with a run id only, so a solo turn ends without it, and so
does a turn whose preparation raises. Which notices that leaves behind is
`unattended`, and `Solo` says whether an instance has it.

*Left out.* The 30 seconds of the grace window: it opens and, at any later time,
closes.

### ClusterTeam and TeamRegister

*State.* A run id is a hash of the conversation and the team's revision, so the
model uses the revision. `revision` and `team` are the stored team; `run`,
`table` and `alias` are run objects, `_runs` and `_run_aliases`; `control` says
which tasks the control under an id has. `botQ` and `convQ` are the locks, the
holder first. `children` are the child conversations with the slot and the
assignment revision under which they are found again.

*Actions.* `Configured` is `ClusterTeamService.configure` under both locks in its
three outcomes (`Unchanged`, `Extended` with `Rekey`, `Replaced` with `Ensure`);
`Ask`… and `Configure`… its callers with and without waiting; `Resize…` is
`update_cluster_config`, which releases the loop between its check and its
write; `Turn…` is a chat; `Change…` the conversation operations, whose outcome is
`Left`, `Selected`, `Removed` or nothing; `TaskStarts` selects or creates the
child conversation; `Restart` loses what is in memory at any moment, inside an
operation too.

*Left out.* A second main conversation: it shares neither team nor conversation
lock, and what it shares, the slots, is in `ClusterTasks`; its finished runs count
in `cleanup_finished_runs`, which is why any finished run may be evicted here at
any time.

*TeamRegister* says what a conversation is promised: the version only grows, an
extension leaves assigned slots alone, a replacement happens only without
pending work and gives a slot that changes hands the new version, work is given
to a role of the current team only. `ClusterTeam` implements it with the stored
team as `team` and the pending tasks as `work`; a restart is `Finish`.

### SessionLifecycle and ChildSession

*State.* `session` is the record of those fields of `UserSession` that the calls
share; a call stands for its own execution id and token, so `session.exec = k`
reads "the execution of chat k". `pc` is where a call is, `turn` where the turn of
a chat is: `queued` in a channel, `run` (CLI), `attached` or `detached` (native),
`closing` and `cleaning` in the finally of `_stream_cli_chat`. `conv` is the store,
and `KindOf` the kind a conversation is made for: its native provider with its CLI
type. `reading` is the conversation that a read of the history has found and is
about to bind. `place`, `wanted`, `stopped` and `overrun` are history; the last
are the chats that were under way when a read or a deletion moved the active
conversation for a reason that had ceased to be one.

*Actions.* `EnterChat` and `LeaveChat` are the two ends of
`_session_lifecycle_scope`; `BeginTurn` and `BeginNative` the begin of a turn with
`start_turn`, which has no suspension in between: if the active conversation is
gone or of another kind (`Fits`), `StartTurn` leaves it and takes one of the turn's
kind that is there, or a new one, and a read in its thread may look just while
there is none; `CloseLooks` and `CloseResets`
the two halves of the cleanup, which suspends to end a process; `StopAsked`,
`StopActs`, `StopReturns` are `kill_user_process`; `Aborting` is the synchronous
part of `NativeAgentService.abort`; `DeleteLooks`, `DeleteHalf`, `DeleteRest` cut
delete and archive where they take the session's lock, in their different orders,
and `Unbind` drops whatever is active by then if the deletion found its own
conversation active at first; `ReadLooks` and `ReadBinds` are the two halves of
`list_history`, which looks without and binds with the lock. Deletions, reads and
changes take turns by the store's write key (`StoreFree`), turns do not;
`ApplyUpdate` is the handover of an update, whose check and consequence are one
step of the loop.

`ChildSession` adds the cluster's worker, which reserves nothing, binds the
session to its conversation and leaves the turn's generator without closing it.

*Left out.* What only refuses more: the checks of ownership and working directory
and `expected_control`. And operations that would add to what the calls may do:
`reset_user_session`, which looks at `is_processing` without holding the session and
then replaces the whole `UserSession`; deleting all conversations or those of a
child; rolling a conversation back; binding one for voice; a new working
directory; endless mode. The cluster part of a stop is `ClusterTasks`.

*SessionHold* says what the calls are promised: a chat or a change holds the session
alone, from its admission to the end of what it does there, and does it once; the
holder moves the active conversation, a chat only when that is gone or of another
kind than its turn. Two others move it without holding anything: a removal leaves
none active if it found its own active when it began (`dropping`), and a read
that found none binds a conversation, which is still stored (`reading`). A removal
takes its own conversation and no other out of the store. The host closes when
nothing is under way, and then nothing changes any more but for such a read. The
mapping looks at the
calls (`ChatStage`, `ChangeStage`), not at the fields of the session that arbitrate
between them, so that it shows the arbitration to work.

### TurnChannel

*State.* `log` are all events of the turn by kind, `frames` those still kept,
`reader` the one consumer with its cursor and the batch its last look found,
`producer` the loop over the generator. `got` and `seen` are what the client has.

*Actions.* `Appended` is `_append` with `_enforce_budget_locked`: data go first, and
when too many critical events are left, the front goes and an error event takes
over (`overflow`). `LookAtGap` and `LookAtFrames` are the looks under the condition,
`Yield` and `YieldGap` what follows without it. `Detach` starts the grace task,
`GraceExpires` aborts, `AbortReturns` leaves the loop with the generator suspended,
and `Prune` is the only thing that closes it then.

*Left out.* Budgets in bytes, aborts that raise, the shutdown of the service.

*ResumableFeed* promises: a client gets the events in their order and none twice,
over any number of connections; it is never led past a critical event it did not
receive, and past another one only on a connection that has, or will get, a gap
event. There is no buffer in it.

### TelegramDelivery and TelegramOutbox

*State.* `tables` is what SQLite has and a crash leaves alone; handlers, workers
and the polling task are gone after one. Every call of `_deliver_persisted` sits in
a slot of its entry: the handler or stream, a resumed stream, the recovery, the
retry table. `due` is `retry_at` seen from now.

*Actions.* `ReceiveBatch`, `Handle`, `Press`, `ExecEnds`, `ExecRaises`, `Told` are
`receive_update` and `_handle`; `SendOk`, `SendRetryable`, `SendRefused` the three
answers of `send_message`, of which a failure may hide that the message arrived;
`Crash` and `Stop` end the process at any moment; `Start` to `StartPolling` are the
recovery in its order, which awaits what it delivers.

Every write of `state.py` is a commit of its own. An action has all writes between
two awaits, which no other task sees apart; a crash does, and `CutShort` gives what
it leaves behind when it falls between two of them: part of a batch claimed, and
the last one not yet ignored (`CutBatch`); a button claimed and its update not
running (`CutPress`); a result persisted, the button closed or not, the update
still running (`CutEnd`), which is what the `completed` branch of
`recover_after_restart` is for; an update failed and its button open (`CutRaise`).
A kill that does not wait for a `Stop` leaves any part of what it notes. An update
from somebody who is not allowed is among them (`foreign`): left open by a crash, it
gets the notice of an interrupted one. So is one without a chat (`chatless`, the
button of an old message): `int(None)` then ends `_recover_state` before the notices
and retries that were to follow (`RecoveryFails`).

`MaxFaults` bounds the failed sends for each combination of what happens: three
for a notification, because only then the two senders it may have, its stream and
the table of retries, get the chance to overtake each other (`Overtaken`).

*TelegramOutbox* promises: a result is persisted before it is shown, its parts are
shown in their order, and a part is marked only after it was shown. A part may be
shown more than once. `TelegramDelivery` implements it.

*Left out.* Panels and settings beyond that they answer, reply prompts, failures of
SQLite.

## 3. Runs

| Run | Question | Instance | Result |
|---|---|---|---|
| `tasks` | Do slot, control, capacity and stop invariants hold with failing stops, wakeups, clean-ups and the migration? Refinement of `TaskLife` | 2 runs, 3 tasks, 1 slot, 3 control identities, 1 permit | holds, 433 263 states |
| `live` | Does every accepted task end and every stop return? | 1 run, 2 tasks, 1 slot, 2 permits, `FairSpec`, no failing stop | holds |
| `asked` | `tests/test_cluster_cancel.py`: the task after a stop has an open control | as `live`, with failing stops | violated |
| `messages` | Final messages, the unread cursor, no lost wakeup | 2 tasks, 2 calls, 1 message kept per task, page of 1, progress up to sequence 2 | holds |
| `wakeup` | One wakeup, current notices, silence after a stop; is an attended notice sent or dropped? | 2 tasks, 3 wakeup tasks, 2 requests, switching, refused chats, failures and turns that end without looking, `FairSpec` | holds, 95 098 states |
| `wakeup_failed` | Is every notice sent or dropped, with failing turns? | 1 task, 2 wakeup tasks | violated |
| `team` | Team, runs, aliases, controls and children; refinement of `TeamRegister` | 2 slots, 2 roles, 1 task, 2 waiting calls, 2 revisions beyond the first | holds, 822 015 states |
| `telegram` | Nothing twice, nothing lost, one sender, refinement of `TelegramOutbox`, settling | 2 updates of 2 parts or 1 notification, 2 failed sends (3 of a notification), 2 crashes or stops, `FairSpec` | holds, 195 638 states |
| `channel` | Critical events, settling, refinement of `ResumableFeed` | 6 events and an error, 3 replayed, 2 of them critical, 3 connections, `FairSpec` | holds |
| `channel_held` | `api_service.py:8760`: the real end of a turn is recorded | 4 events, 2 replayed, 1 critical | violated |
| `sessions` | Holds, stops, conversations of turns; refinement of `SessionHold`, with the update | 2 chats, a change, a deletion, a stop, reads, 2 conversations of one kind and 1 of another, update | holds, 725 543 states |
| `child_session` | `tests/test_telegram_control_service.py`: a cleanup never clears a replacement | 2 tasks of one child agent | violated |

### Bounds, and why they are enough

* *Tasks.* The conflicts are between two tasks of one run (semaphore, agent lock,
  stop) and two runs on one slot; three tasks have both at once. One permit makes
  the semaphore the bottleneck; `live` has two so that the agent lock is. Three
  control identities let a control be dropped and made anew while coroutines
  still refer to the old one.
* *Messages.* A page of one and a board of one message per task cut as early as
  possible; two calls overlap in every way the cursor allows. Sequence numbers end
  when progress reaches `MaxProgress` and each task has posted its final message.
* *Wakeups.* Two requests tell old notices from new ones. Three wakeup tasks are
  one that unwinds, one that waits to be reaped and one on its way.
* *Teams.* Two extensions in a row move an alias twice, or extend and replace
  follow each other. Two waiting calls fill both locks' queues, one holding the bot
  lock and waiting for the other.
* *Telegram.* Results do not share state except the button, so an instance has
  one of: two presses of a button, a foreign update and a panel, a press without a
  chat and a text, a text, a notification. Two parts make an order; two failures and two ends of the process
  let one interrupt the recovery of the other, and a third failure one sender of a
  notification overtake the other.
* *Channel.* Six events against a replay of three evict twice, and two critical
  events allowed among them overflow; three connections are one that sees the
  first eviction, one that resumes after it and one that resumes again.
* *Sessions.* Two chats are an execution and its successor, which is what stale
  cleanups and stops could hit; one call of each other kind meets both. Two
  conversations of one kind are the old one and the one a change goes to or a
  replacement for a deleted one; one of the other kind lets a turn find the active
  one unfit, and the next come back. What a call that is over has captured is read
  by nothing any more, and the view `LiveState` takes states that differ in it only
  for one; without it the instance has ten times as many and the same result.

A task id is used once, requests, revisions and progress are bounded, so an
instance may end in a state where nothing is left to do: that is why every
configuration has `CHECK_DEADLOCK FALSE`. Circular waits are excluded by `live`,
`wakeup`, `telegram` and `channel` instead, and a lost wakeup by `NoWakeupLost`. Symmetry is used in the runs without
liveness only, over interchangeable identities: controls, wakeup tasks and tasks,
waiting calls, roles of different names, chats and conversations.

### Fairness

What is fair is what the program itself guarantees to do.

* The event loop runs every ready callback: weak fairness of a coroutine's next
  step, of done callbacks, of `Notify`, of the steps of a stop.
* `asyncio.Semaphore` and `asyncio.Lock` hand over in the order of arrival: strong
  fairness of `TakePermit`, `Enter` and `WakeupLooks`, which are enabled and disabled
  again by others that take the permit, the agent lock or the conversation's lock.
* A send to Telegram is answered or fails (`Answered`), the clock reaches
  `retry_at`, sleeping tasks wake up. A consumer that is attached goes on reading,
  an abort returns and ends its turn.
* A child's stream and a main agent's turn come to an end, and the abort of the
  main process returns: they are processes that end or are killed. `live` assumes
  that the abort does not raise (`StopMayFail = FALSE`); `asked` shows what happens
  otherwise.
* Nothing is assumed of users, of what children say, of deadlines, of a process
  that is down or a client that is away.

### What the violations show

1. `asked` – a stop whose abort raises releases its hold and leaves
   `cancel_requested` set as long as a child of the run is pending; the next
   `ask_agent` may run under that control and returns without doing anything.
2. `wakeup_failed` – notices requeued because the wakeup's turn failed are retried
   by nobody.
3. `channel_held` – after an overflow of critical events the generator is left
   suspended, and the session stays busy until another turn's channel is opened
   or resumed a minute later.
4. `child_session` – a worker leaves the turn's generator to the event loop, and the
   next task of the same agent begins under the execution id that is still there;
   the old generator's cleanup then marks the session idle under the running turn.

Each is quoted with its line under "findings". The runs that pass keep these
behaviours in the model; they hold in spite of them.

Smaller things the models have and no property objects to, because the code or a
comment means them or the harm is small:

* a refused chat restarts the grace window, in which a child that ends is not
  announced (`ChatRejected`);
* a wait for final messages only moves the shared cursor past progress messages it
  did not return;
* an ask that queued behind an extend is accepted with the run id of before
  (`TasksReachable` holds all the same);
* a stop while the result of a confirmed operation is delivered notes the button
  as interrupted (`Stop`);
* a notice deferred behind a solo turn, or behind one whose preparation raises,
  stays queued if nobody streams that turn: only an end with a run id, or of
  `stream_chat`, comes back for it (`TurnUnseen`), and `AttendedNoticesSettle` excepts
  it by name;
* a result whose `retry_at` lies ahead when the process starts is not listed then
  and never again, unlike a notification (`PendingDeliveries`, `NotesToRecover`): its
  parts stay unsent, although the repository's `README.md:220` says that a restart can
  go on with them. `ResultSettles` asks results of updates to settle without a
  restart only;
* an update without a chat that a crash left open ends the recovery, and the
  notices and retries that were to follow wait for the next restart
  (`RecoveryFails`);
* a notification may have two senders, a stream that is repeated and the table of
  retries. With three failed sends they overtake each other: the stream sends part
  1 and fails at part 2 while the table's task is alive, so that
  `_schedule_retry` schedules nothing; that task then fails at part 1, which is
  sent already, and leaves. The rest of the notification waits for a restart.
  Nothing in the repository promises more than that a restart resumes it, which
  holds; `ResultSettles` therefore asks notifications to settle as long as no sender
  is overtaken, and TLC finds the behaviour when that is dropped;
* a connection is told of its first gap only (`gapSent`);
* a deletion may take the conversation of a chat that is still preparing
  (`Doomed` in `RunsWhereSent`);
* a deletion that found its conversation active drops the one that a turn of
  another kind has moved to since, and a read of the history that found none
  active binds one over what a chat or a change has made active since (`overrun`).

## 4. Theorems

Each proof is for any number of runs, tasks, slots, roles, calls, messages and
revisions, from the named assumption on the constants of its module
(`ConstantsAssumption`, `MessageConstantsAssumption`, `WakeupConstantsAssumption`,
`TeamConstantsAssumption`, `ChannelAssumption`, `SessionAssumption`,
`TelegramAssumption`, `IncomingAssumption`, `FaultsAssumption`): sets that are counted are finite, "no such
thing" values are not things, calls of different kinds are different, limits are
positive, positions of slots are distinct, and Telegram numbers a bot's updates
without gaps. A property that a theorem states and no run lists was checked by TLC on
the instance of its module's run before it was proved.

Each component's promise is an abstract specification, and the refinement is
proved: an invariant of the component is what makes its steps steps, or stutters,
of the abstract one. Where a refinement implies a simpler property, the run checks the
refinement and the simpler one is a theorem: `StopKeepsAsksOut` (`TaskLife`),
`NoSilentSkip` (`ResumableFeed`), `UpdatesFindQuiet` (`SessionHold`).

**ClusterTasks** – `TypeCorrect`, `SlotExclusion`, `ControlStays`,
`CapacityIsRespected`, `OrphansStayReachable`, and the action properties
`StopKeepsAsksOut`, `StopLeavesNothing`, `ResultsAreFinal` (no step changes a
terminal status); `TasksImplementLife`, the refinement of `TaskLife`. The invariant `IInv`
adds to the checked ones: `StatusAgrees` (the status follows the coroutine and
only cancelled tasks are killed), `OneControlPerRun`, `StopAgrees` (a stop works
on the registered control, holds it, and once it has cancelled waits for
everything alive), and slot exclusion split in two. The split is the argument:
*across* runs two tasks of a slot are never both pending, because `ask_agent`
looks; *inside* a run two may be pending and the agent lock, found through one
control, keeps them from streaming together. A task that was cancelled and still
unwinds is neither, which is why `SlotExclusive` speaks of streams that are not
being torn down. `ControlKept` is what makes the lock and the semaphore unique:
the control cannot be dropped while a coroutine lives in it. In the refinement
`StopAgrees` does the work: from the request on the control is held and marked, so
`ask_agent` refuses, and a child whose stream ends finds itself cancelled and
changes no status.

**ClusterMessages** – `MessagesTypeCorrect`, `FinalClosesTask`,
`CursorSkipsNothing`, `CursorRepeatsNothing`, `WakeupsArrive`. `MInv` adds `PendingHasNoFinal` (a
task that may still post has no final message on the log, so the check in
`append_agent_task_message`, which sees kept messages only, is enough),
`ManagedCalls` (a managed call has a cursor that is no newer than the shared one)
and `ReadBound`. Skipping nothing rests on two facts: the cursor a call returns is
the last message of its page, and the page starts at the cursor the call read
earlier, which is at most the current one. From these `ResultsReachTheReader` (the
cursor passes no child's result unread) and `BoardOnlyMovesOn`. `StopsAreTold` is the
other side of `FinalClosesTask`: `append_agent_task_message` turns a second final
message down, and a stop never meets a task that would make it do so.
`MessagesImplementLife` is the refinement of `TaskLife`.

**ClusterWakeup** – `WakeupTypeCorrect`, `OneWakeupAtATime`, `NoticesAreCurrent`,
`StopIsFinal`. `WInv` adds that a wakeup on its way is the run's `current` one,
that notices are carried only by the wakeup whose turn occupies the session, and
that a stop between its two steps leaves nothing that could start a turn. The
generation cannot move while a wakeup's turn has the session, so what was current
when it was claimed stays so. `NoticesAreAttended` says who comes back for a notice
and, with `unattended`, for which nobody does: every end of a turn without a look
counts there what it leaves queued. `WakeupImplementsLife` is the refinement of `TaskLife`.
`NoticesOnlyAdvance` rests on `NotesFollowTasks`: a child that has yet to end has no
notice, and what a turn carries has been sent.

**ClusterTeam** – `Typed`, `RunInStep`, `TasksStayReachable`, `ControlIsFound`,
`RoleKept`, `ConversationOwned`, `TeamAlwaysFits`, and `Implements`: `ClusterTeam`
refines `TeamRegister`. The invariant `IInv` (theorem `Inductive`) has one part per
concern: `QueueInv` (who waits has a request, a configure in the second queue
holds the first, a thread works for the head), `RunsInv` (a run in the table is at
the revision it is found under, none is newer than the store, the current one has
the stored team, aliases lead forward and in one step), `WorkInv` (pending work is
in the current run and its control and its slot still has its role), `ChildInv`
(no child conversation is newer than the store, and slot and revision name one
role), `TeamFits`. The central step is `Rekey`: the run moves from revision r to
r + 1, all aliases to r move along, and because nothing in the table is newer
than r, the new key is free. `RoleOwnsConversation` follows because a slot that
changes hands gets r + 1, which no child has. `TeamFits` needs `QueueInv`: the bot
lock is held from a resize's check to its write, so no configure can come between.

The refinement is proved action by action: a step either changes the stored team
as `Extend` or `Replace` allow, or starts or ends pending work, or maps to a
stutter.

**TurnChannel** – `ChannelTyped`, `CriticalReachesClient`, `NoSilentSkip`, and
`ChannelImplementsFeed`: the channel refines `ResumableFeed`. `ChannelInv` adds `CriticalKept` (evictions take other events only), `InStep` (the
consumer's cursor is the client's, batch and gap lie ahead) and `BatchWhole` (what a
consumer is going to pass is in its batch, or is not critical and has a gap
event). The first two make a look find every critical event, the third carries
that over the steps in which the batch is yielded while the producer evicts. They are
the refinement, too: what a consumer passes without its batch is what `MaySkip`
allows. `ReturnIsComplete` says that a consumer which returns by itself has brought
its client to the last event, if `ControlMax < ReplayMax`: while the turn runs its
last event is kept, as critical events alone cannot fill the buffer. The code
checks no such relation; its defaults are 128 and 1024, and with equal values TLC
finds a return before the end.

**SessionLifecycle** – `SessionTypes`, for all constants; and `HoldsMatchUse`,
`StopsHitTheirOwn`, `TurnsRunWhereSent`, `UpdatesFindQuiet` under `Workers = {}`,
that is when every chat takes `_session_lifecycle_scope`. The hypothesis is needed:
with child tasks, which do not, `ChildSession` violates a conjunct of
`HoldMatchesUse` in the case of its finding. `HoldInv` says who *owns* the session: a chat from its
admission to the end of its turn, or the turn itself once it is detached. An owner is
the one that operation, token, execution and, if it has begun, its own `under` name
(`OwnerHolds`), so there is one; a conversation operation has the token
(`ChangeHolds`); and what the fields name is there (`TokenHeld`, `TurnFlags`). It is
needed because the actions look at fields and the properties at calls: an exit of a
scope compares tokens, a cleanup execution ids, a begin only `processing`. From it,
`StopInv` (a stop request is always for the current execution, a captured process
is the current execution's: both are in `wanted`), `PlaceInv` (one deletion at a
time, its conversation and what a read is about to bind still in the store as they
saw it, a waiting chat's conversation still active or doomed unless the chat was
overrun) and the update's idle check follow step by step. `TurnsRunWhereSent` is for
any kinds: a turn leaves the conversation its chat was sent to only for one of
another kind or when that is doomed, and afterwards nobody but a late read or
deletion, which `overrun` records, moves it away. `SessionsImplementHold`, the
refinement of `SessionHold`, puts them together: an admission finds the session free
because an owner would be in its fields, a turn moves the active conversation only for
one of its kind (`TurnActivates`), a removal takes its own out of the store because it
is still as the removal saw it (`VictimBound`), a read binds what is still stored
(`ReadingStored`), and the host's exit finds no owner.

**TelegramDelivery** – `DeliveryTypes`, `RunsOnce`, `NoneLost`, `OneSender`, and
`DeliveryImplementsOutbox`: the delivery refines `TelegramOutbox`. `DeliveryInv`
(theorem `DeliveryInvHolds`) has one part per table or task that the others rely on.
`OffsetInv`: the claimed updates are exactly those below the offset, so a batch that
Telegram repeats, or one that a crash cut, claims nothing a second time.
`HandlerInv`: where a handler is tells the status of its row, a record of a live
process is that of a closed update, and after the recovery what is open has a
handler. A crash between two commits may leave a record on a running update, so
the invariant says this of the times when the recovery has closed what was open; that
it does so, also with a record, is the step `CloseUpdates` of `NoneLost`. `RanInv`:
who has not got past `received` has not run, and while the button is pending nobody
has. `SendInv`: in every record the sent parts are the first ones, in every stale
copy that a call has read too, and a call sends at most the part behind the last
sent one, which is what keeps the order although a copy may be older than the
record. `SoloInv`: of an update's handler, recovery and retry task at most one is
delivering; it rests on `PollFree` (the recovery awaits what it delivers) and on
the handler being gone before the next process polls. Notifications may have two
senders, and `SendInv` alone must do for them. Every send maps to `Show`, a result
that is persisted to `Record`, a process that ends to `ShowUnanswered`, which may take
a result along that has just been persisted, the rest to stutters.

`TelegramCarrierProofs` is the second half. `PartsTriedInOrder`: behind the next part
of a record nothing was ever tried, so a retry that is due is about the next part.
`NotesAreCarried` and `ResultsAreCarried` say who will send that part, below.

**Only model-checked.** Liveness (`TasksEnd`, `StopsReturn`,
`AttendedNoticesSettle`, `ResultSettles`, `ChannelSettles`) and anything that depends
on which actions are enabled: the proof system handles neither. The violated
properties, naturally.

**What the liveness rests on** is proved, for all constants. A liveness property
fails in one of two ways: somebody stops without having anybody to go on, or the
steps lead in a circle. That there is always somebody is an invariant, and that
they lead forward an action property; what is left to TLC is to put them together
with the fairness.

| Property | Somebody goes on | Steps lead forward |
|---|---|---|
| `TasksEnd` | `NoTaskWaitsInACircle`: a coroutine can take its next step or waits for one of its run that can | `CoroutinesOnlyAdvance`: no way leads back to a suspension point, and a cancelled coroutine only returns |
| `StopsReturn` | `StopWaitsForNoOneElse`: what a stop gathers has been cancelled and is of its run | the same |
| `AttendedNoticesSettle` | `NoticesAreAttended`: a queued notice has a wakeup on its way or a user's turn still to end, or is one of those nobody retries | `NoticesOnlyAdvance`: a notice is made and sent once; only a failed turn puts it back, as one of those nobody retries; turns that end without a look add others |
| `ChannelSettles` | `AbandonedTurnsAttended`: a turn without a client has a grace task, is aborted or over | `ConsumersAdvance`; `ReturnIsComplete` for the end it leads to |
| `ResultSettles` | `NotesAreCarried`, `ResultsAreCarried`: a sender, a retry task or a place in the recovery's list | `DeliveryImplementsOutbox`: parts go from unsent to sent in order |

`NotesAreCarried` is under `[]~Overtaken(n)`, as `ResultSettles` is: the behaviour with
two senders above is exactly where the invariant fails without it. An update's
result is never overtaken, which `ResultsAreCarried` states along with it. The
invariant says of a sender what it has read (`Reads`): the part it is at is the
next one, or somebody else, or the table of retries, has the next one.

## 5. Plan

Done: the cluster, `TelegramDelivery`, `TurnChannel` and `SessionLifecycle`, each with
its abstract specification, the proofs of its safety properties, the refinement and
what its liveness rests on; and `ChildSession`.

To be proved next:

1. `ClusterTeam`: what a reader of `TeamRegister` would conclude from it (a role's
   assignment is stable while it has work, versions are never reused), carried over
   to the conversations and the aliases.
2. `SessionLifecycle` with child tasks: which of the conjuncts of `HoldMatchesUse`
   survive without `Workers = {}`.
3. `reset_user_session` and the deletion of all conversations, which would make the
   `UserSession` itself a variable of `SessionLifecycle`.

To be modelled, in this order:

1. `ChatStoreQueue` – the pending budget, worker threads and write locks with
   cancelled callers. Bounds: 3 callers, 2 workers, a budget of 2. To prove: the
   budget bounds the writes of callers that were not cancelled.
2. `StorageMigration` – phases, the stop of everything, new work and crashes.
   Composes the admission of `SessionLifecycle`.
3. The runtime of the native agent – start reservations, stream queue, shutdown
   with deadlines. To prove: a terminal item is never dropped.
4. `TerminalStream` – replay, gaps and slow clients.

Composition still missing in the cluster: `ClusterTasks` and `ClusterWakeup` share
the control and the stop. Each models the other's part of it as a nondeterministic
choice (`waking` in `ClusterTasks`, child ends in `ClusterWakeup`); that both implement
`TaskLife` ties the two choices to the same promise, and a module that instantiates
both would remove them.

## Not modelled

The implementation has some 116 000 lines in 303 files. Most of them are parsers of
the output of other programs, SQL and file formats, HTTP routes, configuration,
rendering and the calls of external tools: one actor, no state shared between
steps, nothing to interleave. Models of them would restate their lines. The map
therefore covers a small share of the implementation, and would not come near a
third of it with everything in the plan done. Within the modelled parts an
operation that changes the shared state is either an action or listed as left out
in the section of its module; the session of an agent has the most of the latter,
`reset_user_session` before all.

Some hazards have no model either: an edit of `max_parallel_agents` does not reach
the semaphore of a control that lives (`api_service.py:4401`); a worker thread
iterates over `ClusterRuntime._runs` while the loop may insert into it
(`runtime.py:315`), which is `NothingDone` in `ClusterTeam`; a cancelled caller of the
chat store gives its place in the pending budget back while its write goes on
(`async_chat_store.py:102`).
