----------------------------- MODULE ClusterTeam -----------------------------
(***************************************************************************)
(* The team of one main conversation: the stored assignment of roles to    *)
(* child slots, the in-memory runs that carry it, and the tool calls and   *)
(* session operations that change it under the bot lock and the            *)
(* conversation lock.                                                      *)
(*                                                                         *)
(* Code: bot/cluster/team_service.py, bot/cluster/runtime.py (the table of *)
(* runs and its aliases), bot/web/chat_store.py (the stored team) and, in  *)
(* bot/web/api_service.py, handle_cluster_mcp_tool, update_cluster_config, *)
(* _start_cluster_run_if_requested and the conversation operations.        *)
(*                                                                         *)
(* A run_id is a hash of the conversation and a team revision: here it is  *)
(* the revision.  A run object is named by the revision it was created at. *)
(***************************************************************************)
EXTENDS Naturals, Sequences, FiniteSets

CONSTANTS
    Slots,        \* physical child slots
    Position,     \* their order in the profile
    Roles,        \* a role is a name and a responsibility
    NameOf,
    Tasks,        \* task ids ask_agent may hand out
    Calls,        \* requests that may wait for a lock
    Free,         \* a slot without a role
    None,         \* no run, no successor
    NoCall,
    MaxRevision   \* bound: the team is not changed further

Revisions == 0..MaxRevision

\* "ask", "session": ask_agent and new_agent_session; "configure":
\* configure_team; "turn": a chat; "change": create, select, archive, delete or
\* reset of a conversation; "resize": update_cluster_config.
Request == [op : {"ask", "session", "configure"}, id : Revisions]
             \cup [op : {"turn", "change", "resize"}, id : {None}]

ASSUME TeamConstantsAssumption ==
    /\ IsFiniteSet(Slots) /\ IsFiniteSet(Tasks)
    /\ Position \in [Slots -> 1..Cardinality(Slots)]
    /\ \A s, u \in Slots : Position[s] = Position[u] => s = u
    /\ Free \notin [role : Roles, rev : Nat]
    /\ None \notin Nat \cup Roles
    /\ NoCall \notin Request
    /\ MaxRevision \in Nat

VARIABLES
    revision,  \* conversations.cluster_team_revision
    team,      \* conversations.cluster_team_json, by slot
    where,     \* is the conversation the session's active one?
    children,  \* active child conversations: slot, assignment_revision, role
    run,       \* run objects: run_id, team_revision, team, finished
    table,     \* ClusterRuntime._runs
    alias,     \* ClusterRuntime._run_aliases
    control,   \* _CLUSTER_RUN_CONTROLS: run_id -> tasks of its control, if any
    status,    \* ClusterAgentTask.status; "ended" is any terminal one
    work,      \* what a task was asked for, and the run_id it was asked with
    capacity,  \* max_parallel_agents in the profile
    target,    \* the capacity a resize is about to write, 0 for none
    call,      \* requests that wait for a lock or hold one
    botQ,      \* the bot lock: its holder and its waiters, in order
    convQ,     \* the same for the conversation lock
    thread     \* a conversation operation is running in its worker thread

stored == <<revision, team>>
runs   == <<run, table, alias>>
locks  == <<call, botQ, convQ, thread>>
vars   == <<revision, team, where, children, run, table, alias, control,
            status, work, capacity, target, call, botQ, convQ, thread>>

Pending    == {"queued", "running"}
Assignment == [role : Roles, rev : Revisions]
Teams      == [Slots -> Assignment \cup {Free}]
NoTeam     == [s \in Slots |-> Free]
RunObject  == [id : Revisions, rev : Revisions, team : Teams, finished : BOOLEAN]
Child      == [slot : Slots, rev : Revisions, role : Roles]
NoWork     == [id |-> None, run |-> None, slot |-> None, role |-> None, rev |-> None]
Work       == [id : Revisions, run : Revisions, slot : Slots, role : Roles,
               rev : Revisions]

TypeOK ==
    /\ revision \in Revisions
    /\ team \in Teams
    /\ where \in {"here", "away", "gone"}
    /\ children \subseteq Child
    /\ run \in [Revisions -> RunObject \cup {None}]
    /\ table \in [Revisions -> Revisions \cup {None}]
    /\ alias \in [Revisions -> Revisions \cup {None}]
    /\ control \in [Revisions -> SUBSET Tasks]
    /\ status \in [Tasks -> {"none", "ended"} \cup Pending]
    /\ work \in [Tasks -> Work \cup {NoWork}]
    /\ capacity \in 1..Cardinality(Slots)
    /\ target \in 0..Cardinality(Slots)
    /\ call \in [Calls -> Request \cup {NoCall}]
    /\ botQ \in Seq(Calls) /\ convQ \in Seq(Calls)
    /\ thread \in BOOLEAN

NoRuns == /\ run = [r \in Revisions |-> None]
          /\ table = [r \in Revisions |-> None]
          /\ alias = [r \in Revisions |-> None]
          /\ control = [r \in Revisions |-> {}]

NoCalls == /\ call = [k \in Calls |-> NoCall]
           /\ botQ = <<>> /\ convQ = <<>>
           /\ thread = FALSE /\ target = 0

Init ==
    /\ revision = 0 /\ team = NoTeam
    /\ where = "here" /\ children = {}
    /\ NoRuns /\ NoCalls
    /\ status = [t \in Tasks |-> "none"]
    /\ work = [t \in Tasks |-> NoWork]
    /\ capacity \in 1..Cardinality(Slots)

-----------------------------------------------------------------------------
(* The table of runs *)

\* resolve_run_id in a given table.  An alias always leads to a run, so one
\* step is enough.
ResolveIn(tb, al, id) == IF tb[id] = None /\ al[id] # None THEN al[id] ELSE id

Resolve(id) == ResolveIn(table, alias, id)
GetRun(id)  == table[Resolve(id)]

TasksOf(r)  == {t \in Tasks : work[t].run = r}
HasPending  == \E t \in Tasks : status[t] \in Pending

\* Mutant of Drained: a run is cleaned up while its tasks are queued.
DrainedButQueued(r) == \A t \in TasksOf(r) : status[t] # "running"

Drained(r) == \A t \in TasksOf(r) : status[t] \notin Pending

\* cleanup_finished_runs keeps the latest finished runs of all conversations;
\* here any finished one may have become too old.
Evictable(objects) ==
    {id \in Revisions : table[id] # None /\ objects[table[id]].finished /\ Drained(table[id])}

\* ensure_run once the objects are as given: clean up, prune the aliases, then
\* take the run of the id or create it.  A run of another revision is a
\* conflict, and the call raises.
Ensure(objects, rv, tm) ==
    \E old \in SUBSET Evictable(objects) :
        LET tb == [id \in Revisions |-> IF id \in old THEN None ELSE table[id]]
            al == [id \in Revisions |->
                    IF alias[id] # None /\ tb[alias[id]] = None THEN None ELSE alias[id]]
            r  == tb[ResolveIn(tb, al, rv)]
        IN /\ alias' = al
           /\ \/ /\ r = None
                 /\ table' = [tb EXCEPT ![rv] = rv]
                 /\ run' = [objects EXCEPT ![rv] =
                       [id |-> rv, rev |-> rv, team |-> tm, finished |-> FALSE]]
              \/ /\ r # None
                 /\ table' = tb
                 /\ run' = IF objects[r].rev = rv
                           THEN [objects EXCEPT ![r].team = tm, ![r].finished = FALSE]
                           ELSE objects

\* Mutants of Aliases: the old id is not kept; it leads one revision too far.
AliasesLost(id, next) ==
    [a \in Revisions |-> IF a = next THEN None
                         ELSE IF alias[a] = id THEN next ELSE alias[a]]
AliasesAhead(id, next) ==
    [a \in Revisions |-> IF a = next THEN None
                         ELSE IF a = id \/ alias[a] = id THEN next + 1 ELSE alias[a]]

\* The aliases when the run of id moves on to next.
Aliases(id, next) ==
    [a \in Revisions |-> IF a = next THEN None
                         ELSE IF a = id \/ alias[a] = id THEN next ELSE alias[a]]

\* Mutant of ControlMoved: the control stays under the old id.
ControlLeft(id, next) == control

\* _move_cluster_run_control
ControlMoved(id, next) ==
    [control EXCEPT ![id] = {}, ![next] = IF @ = {} THEN control[id] ELSE @]

\* Mutant of Rekey: the run keeps the team it had.
RekeyKeepsTeam(id, next, tm) ==
    /\ table' = [table EXCEPT ![id] = None, ![next] = table[id]]
    /\ alias' = Aliases(id, next)
    /\ run' = [run EXCEPT ![table[id]].id = next, ![table[id]].rev = next,
                          ![table[id]].finished = FALSE]
    /\ control' = ControlMoved(id, next)

\* rekey_run, and the control follows.
Rekey(id, next, tm) ==
    /\ table' = [table EXCEPT ![id] = None, ![next] = table[id]]
    /\ alias' = Aliases(id, next)
    /\ run' = [run EXCEPT ![table[id]] =
                 [id |-> next, rev |-> next, team |-> tm, finished |-> FALSE]]
    /\ control' = ControlMoved(id, next)

-----------------------------------------------------------------------------
(* The locks: asyncio.Lock hands over in the order of arrival, and a lock    *)
(* that nobody has or waits for is taken at once.                            *)

BotFree  == botQ = <<>>
ConvFree == convQ = <<>> /\ ~thread

First(q, k) == q # <<>> /\ Head(q) = k

\* k gets the conversation lock and needs it for this step only.
ConvTurn(k, op) ==
    /\ First(convQ, k) /\ ~thread
    /\ call[k] # NoCall /\ call[k].op = op
    /\ convQ' = Tail(convQ)
    /\ call' = [call EXCEPT ![k] = NoCall]

Waits(k, op, id) ==
    /\ call[k] = NoCall
    /\ call' = [call EXCEPT ![k] = [op |-> op, id |-> id]]

QueuesForConv(k, op, id) ==
    /\ ~ConvFree
    /\ Waits(k, op, id)
    /\ convQ' = Append(convQ, k)
    /\ UNCHANGED <<stored, where, children, runs, control, status, work,
                   capacity, target, botQ, thread>>

-----------------------------------------------------------------------------
(* ask_agent and new_agent_session *)

\* What both check before they take the lock ...
Addresses(id) == GetRun(id) # None /\ run[GetRun(id)].id = id

\* Mutant of Current: the stored team is not asked.
CurrentByRun(id) == GetRun(id) # None /\ where = "here"

\* ... and _require_current_cluster_team, with it.  The object checked is the
\* one found before, which extend moves along.
Current(id) ==
    /\ GetRun(id) # None
    /\ where = "here"
    /\ run[GetRun(id)].rev = revision

\* The task lands in the run the id leads to now.  Other refusals, such as a
\* stop in progress or a busy slot, change nothing either.
Delegated(id) ==
    \E t \in Tasks, s \in Slots :
        LET r == GetRun(id) at == Resolve(id) IN
        /\ status[t] = "none" /\ run[r].team[s] # Free
        /\ status' = [status EXCEPT ![t] = "queued"]
        /\ work' = [work EXCEPT ![t] =
              [id |-> id, run |-> r, slot |-> s,
               role |-> run[r].team[s].role, rev |-> run[r].team[s].rev]]
        /\ control' = [control EXCEPT ![at] = @ \cup {t}]
        /\ UNCHANGED children

\* A new child conversation for an idle slot's role.
NewSession(id) ==
    \E s \in Slots :
        LET r == GetRun(id) IN
        /\ run[r].team[s] # Free
        /\ \A t \in Tasks : status[t] \in Pending => work[t].slot # s
        /\ children' = children \cup
              {[slot |-> s, rev |-> run[r].team[s].rev, role |-> run[r].team[s].role]}
        /\ UNCHANGED <<status, work, control>>

Served(op, id) == IF op = "ask" THEN Delegated(id) ELSE NewSession(id)

Refused == UNCHANGED <<status, work, control, children>>

Ask(op, id) ==
    /\ Addresses(id) /\ ConvFree
    /\ Current(id) /\ Served(op, id)
    /\ UNCHANGED <<stored, where, runs, capacity, target, locks>>

AskQueues(k, op, id) == Addresses(id) /\ QueuesForConv(k, op, id)

AskResumes(k, op) ==
    /\ ConvTurn(k, op)
    /\ \/ Refused
       \/ Current(call[k].id) /\ Served(op, call[k].id)
    /\ UNCHANGED <<stored, where, runs, capacity, target, botQ, thread>>

-----------------------------------------------------------------------------
(* configure_team *)

ActiveSlots == {s \in Slots : Position[s] <= capacity}
Assigned    == {s \in Slots : team[s] # Free}

\* zip(roles, slots): a list of n roles takes the first n slots.
FirstOf(n, S) ==
    {s \in S : Cardinality({u \in S : Position[u] < Position[s]}) < n}

DistinctNames(f) ==
    \A s, u \in DOMAIN f : NameOf[f[s]] = NameOf[f[u]] => s = u

RoleLists(S) ==
    {f \in UNION {[FirstOf(n, S) -> Roles] : n \in 0..Cardinality(S)} : DistinctNames(f)}

Extensions ==
    {[s \in Slots |-> IF s \in DOMAIN f
                      THEN [role |-> f[s], rev |-> revision + 1] ELSE team[s]] :
        f \in {g \in RoleLists(ActiveSlots \ Assigned) :
                  /\ Cardinality(Assigned) + Cardinality(DOMAIN g) <= capacity
                  /\ \A s \in DOMAIN g, u \in Assigned : NameOf[g[s]] # NameOf[team[u].role]}}

\* Mutant of Keeps: an occupied slot keeps its revision whatever the role.
KeepsOccupied(s, role) == team[s] # Free

\* The slot had this very role: its children go on.
Keeps(s, role) == team[s] # Free /\ team[s].role = role

Replacements ==
    {[s \in Slots |-> IF s \notin DOMAIN f THEN Free
                      ELSE [role |-> f[s],
                            rev |-> IF Keeps(s, f[s]) THEN team[s].rev ELSE revision + 1]] :
        f \in RoleLists(ActiveSlots)}

RolesOf(tm) == [s \in Slots |-> IF tm[s] = Free THEN None ELSE tm[s].role]

\* The id must still be the current one under the lock.
UpToDate(id) ==
    /\ GetRun(id) # None
    /\ run[GetRun(id)].id = id
    /\ where = "here"
    /\ run[GetRun(id)].rev = revision

MayReplace == ~HasPending

\* ClusterTeamService.configure under both locks.  The store compares the
\* revision again; nothing can have changed it.
Unchanged(id) ==
    /\ Ensure(run, id, team)
    /\ UNCHANGED <<stored, control>>

Extended(id) ==
    \E tm \in Extensions :
        /\ tm # team /\ revision < MaxRevision
        /\ revision' = revision + 1 /\ team' = tm
        /\ Rekey(id, revision + 1, tm)

Replaced(id) ==
    \E tm \in Replacements :
        /\ MayReplace
        /\ RolesOf(tm) # RolesOf(team) /\ revision < MaxRevision
        /\ revision' = revision + 1 /\ team' = tm
        /\ Ensure([run EXCEPT ![GetRun(id)].finished = TRUE], revision + 1, tm)
        /\ UNCHANGED control

Configured(id) ==
    UpToDate(id) /\ (Unchanged(id) \/ Extended(id) \/ Replaced(id))

Configure(id) ==
    /\ GetRun(id) # None
    /\ BotFree /\ ConvFree
    /\ Configured(id)
    /\ UNCHANGED <<where, children, status, work, capacity, target, locks>>

\* The bot lock first; its holder may then wait for the conversation lock.
ConfigureQueues(k, id) ==
    /\ GetRun(id) # None
    /\ ~(BotFree /\ ConvFree)
    /\ Waits(k, "configure", id)
    /\ botQ' = Append(botQ, k)
    /\ convQ' = IF BotFree THEN Append(convQ, k) ELSE convQ
    /\ UNCHANGED <<stored, where, children, runs, control, status, work,
                   capacity, target, thread>>

\* It got the bot lock: the conversation lock, at once or in its turn.
HasBot(k) ==
    /\ First(botQ, k) /\ call[k] # NoCall /\ call[k].op = "configure"
    /\ \A i \in DOMAIN convQ : convQ[i] # k

ConfigureMovesOn(k) ==
    /\ HasBot(k) /\ ~ConvFree
    /\ convQ' = Append(convQ, k)
    /\ UNCHANGED <<stored, where, children, runs, control, status, work,
                   capacity, target, call, botQ, thread>>

ConfigureGoesOn(k) ==
    /\ HasBot(k) /\ ConvFree
    /\ botQ' = Tail(botQ)
    /\ call' = [call EXCEPT ![k] = NoCall]
    /\ \/ UNCHANGED <<stored, runs, control>>
       \/ Configured(call[k].id)
    /\ UNCHANGED <<where, children, status, work, capacity, target, convQ, thread>>

ConfigureResumes(k) ==
    /\ ConvTurn(k, "configure")
    /\ botQ' = Tail(botQ)
    /\ \/ UNCHANGED <<stored, runs, control>>
       \/ Configured(call[k].id)
    /\ UNCHANGED <<where, children, status, work, capacity, target, thread>>

-----------------------------------------------------------------------------
(* update_cluster_config *)

\* Mutant of Blocked: only tasks are looked at, not the team.
BlockedByTasks(n) == n < capacity /\ HasPending

\* A smaller cluster must leave out no assigned slot of a conversation that is
\* not archived or deleted, and no pending task.
Blocked(n) ==
    /\ n < capacity
    /\ HasPending \/ (where # "gone" /\ \E s \in Assigned : Position[s] > n)

ResizeQueues(k) ==
    /\ Waits(k, "resize", None)
    /\ botQ' = Append(botQ, k)
    /\ UNCHANGED <<stored, where, children, runs, control, status, work,
                   capacity, target, convQ, thread>>

Resizes(k) ==
    /\ First(botQ, k) /\ call[k] # NoCall /\ call[k].op = "resize"
    /\ UNCHANGED <<stored, where, children, runs, control, status, work, convQ, thread>>

\* Checked; the manager's own lock comes next.
ResizeChecks(k) ==
    /\ Resizes(k) /\ target = 0
    /\ \E n \in 1..Cardinality(Slots) : ~Blocked(n) /\ target' = n
    /\ UNCHANGED <<capacity, call, botQ>>

\* Written, or refused.
ResizeEnds(k) ==
    /\ Resizes(k)
    /\ capacity' = IF target = 0 THEN capacity ELSE target
    /\ target' = 0
    /\ botQ' = Tail(botQ)
    /\ call' = [call EXCEPT ![k] = NoCall]

-----------------------------------------------------------------------------
(* Chats and conversation operations *)

\* A chat of the main agent reads the stored team under the lock and goes on
\* to ensure_run without suspending.
TurnStarts == where = "here" /\ Ensure(run, revision, team)

Turn ==
    /\ ConvFree /\ TurnStarts
    /\ UNCHANGED <<stored, where, children, control, status, work, capacity, target, locks>>

TurnQueues(k) == QueuesForConv(k, "turn", None)

\* The conversation may have changed meanwhile; the chat then goes elsewhere.
TurnResumes(k) ==
    /\ ConvTurn(k, "turn")
    /\ TurnStarts \/ (where # "here" /\ UNCHANGED runs)
    /\ UNCHANGED <<stored, where, children, control, status, work, capacity, target,
                   botQ, thread>>

\* The operation keeps the lock while a worker thread does it.
ChangeQueues(k) ==
    /\ Waits(k, "change", None)
    /\ convQ' = Append(convQ, k)
    /\ UNCHANGED <<stored, where, children, runs, control, status, work,
                   capacity, target, botQ, thread>>

ChangeBegins(k) ==
    /\ First(convQ, k) /\ ~thread
    /\ call[k] # NoCall /\ call[k].op = "change"
    /\ thread' = TRUE
    /\ UNCHANGED <<stored, where, children, runs, control, status, work,
                   capacity, target, call, botQ, convQ>>

\* _retire_cluster_run_for_conversation
Retired ==
    LET r == GetRun(revision) IN
    run' = IF r = None THEN run ELSE [run EXCEPT ![r].finished = TRUE]

\* Another conversation is selected or created; the children are retired.
Left ==
    /\ where = "here" /\ ~HasPending
    /\ where' = "away" /\ children' = {}
    /\ UNCHANGED run

\* Archived, deleted or reset, for good.
Removed ==
    /\ where # "gone" /\ ~HasPending
    /\ where' = "gone" /\ children' = {}
    /\ Retired

Selected ==
    /\ where = "away" /\ where' = "here"
    /\ UNCHANGED <<children, run>>

\* The operation fails, or does not concern this conversation after all.
NothingDone == UNCHANGED <<where, children, run>>

ChangeEnds(k) ==
    /\ First(convQ, k) /\ thread
    /\ thread' = FALSE
    /\ convQ' = Tail(convQ)
    /\ call' = [call EXCEPT ![k] = NoCall]
    /\ Left \/ Removed \/ Selected \/ NothingDone
    /\ UNCHANGED <<stored, table, alias, control, status, work, capacity, target, botQ>>

-----------------------------------------------------------------------------
(* Child tasks (ClusterTasks has them in detail) and restarts *)

\* The task takes its slot: _ensure_cluster_child_conversation selects the
\* child conversation of the slot and the role's revision, or creates one.
TaskStarts(t) ==
    /\ status[t] = "queued"
    /\ status' = [status EXCEPT ![t] = "running"]
    /\ children' = IF \E c \in children : c.slot = work[t].slot /\ c.rev = work[t].rev
                   THEN children
                   ELSE children \cup {[slot |-> work[t].slot, rev |-> work[t].rev,
                                        role |-> work[t].role]}
    /\ UNCHANGED <<stored, where, runs, control, work, capacity, target, locks>>

\* Its coroutine leaves the control it is in.
TaskEnds(t) ==
    /\ status[t] \in Pending
    /\ status' = [status EXCEPT ![t] = "ended"]
    /\ control' = [id \in Revisions |-> control[id] \ {t}]
    /\ UNCHANGED <<stored, where, children, runs, work, capacity, target, locks>>

\* What is in memory is lost; the store and the profile stay.
Restart ==
    /\ run' = [r \in Revisions |-> None]
    /\ table' = [r \in Revisions |-> None]
    /\ alias' = [r \in Revisions |-> None]
    /\ control' = [r \in Revisions |-> {}]
    /\ status' = [t \in Tasks |-> IF status[t] \in Pending THEN "ended" ELSE status[t]]
    /\ call' = [k \in Calls |-> NoCall]
    /\ botQ' = <<>> /\ convQ' = <<>>
    /\ thread' = FALSE /\ target' = 0
    /\ UNCHANGED <<stored, where, children, work, capacity>>

-----------------------------------------------------------------------------
AskStep ==
    \E op \in {"ask", "session"} :
        \/ \E id \in Revisions : Ask(op, id)
        \/ \E k \in Calls, id \in Revisions : AskQueues(k, op, id)
        \/ \E k \in Calls : AskResumes(k, op)

ConfigureStep ==
    \/ \E id \in Revisions : Configure(id)
    \/ \E k \in Calls, id \in Revisions : ConfigureQueues(k, id)
    \/ \E k \in Calls : ConfigureMovesOn(k) \/ ConfigureGoesOn(k) \/ ConfigureResumes(k)

ResizeStep == \E k \in Calls : ResizeQueues(k) \/ ResizeChecks(k) \/ ResizeEnds(k)

ConversationStep ==
    \/ Turn
    \/ \E k \in Calls : \/ TurnQueues(k) \/ TurnResumes(k)
                        \/ ChangeQueues(k) \/ ChangeBegins(k) \/ ChangeEnds(k)

TaskStep == \E t \in Tasks : TaskStarts(t) \/ TaskEnds(t)

Next ==
    AskStep \/ ConfigureStep \/ ResizeStep \/ ConversationStep \/ TaskStep \/ Restart

Spec == Init /\ [][Next]_vars

-----------------------------------------------------------------------------
(* Properties *)

\* The run the current run_id leads to is at the stored revision and has the
\* stored team: ensure_run and rekey_run never find a run in their way, and
\* the "sync failed" answer of configure cannot happen.
InStep ==
    LET r == GetRun(revision) IN
    r # None => /\ run[r].id = revision
                /\ run[r].rev = revision
                /\ run[r].team = team

\* A pending task is in the run that the current run_id leads to, and so does
\* the run_id it was asked with, through any number of extensions: its results
\* land where the main agent looks.
TasksReachable ==
    \A t \in Tasks : status[t] \in Pending =>
        /\ GetRun(revision) = work[t].run
        /\ GetRun(work[t].id) = work[t].run

\* The control a stop finds through the current run_id is the one that has the
\* task's coroutine.
ControlFollows ==
    \A t \in Tasks : status[t] \in Pending => t \in control[Resolve(revision)]

\* A pending task's slot keeps its role, in the store as well.
PendingKeepsRole ==
    \A t \in Tasks : status[t] \in Pending =>
        team[work[t].slot] = [role |-> work[t].role, rev |-> work[t].rev]

\* A slot and an assignment revision name one role for ever: no role continues
\* the child conversation that another one began.
RoleOwnsConversation ==
    \A c \in children :
        /\ \A d \in children : d.slot = c.slot /\ d.rev = c.rev => d = c
        /\ team[c.slot] # Free /\ team[c.slot].rev = c.rev => team[c.slot].role = c.role

\* Every assigned slot is within the cluster's size, also while a resize that
\* was checked waits to be written, until the conversation is gone.
TeamFits ==
    where # "gone" => \A s \in Assigned :
        Position[s] <= capacity /\ (target # 0 => Position[s] <= target)

\* The team and the pending work behave as a versioned register.
PendingWork ==
    {[task |-> t, slot |-> work[t].slot, role |-> work[t].role, rev |-> work[t].rev] :
        t \in {u \in Tasks : status[u] \in Pending}}

Register == INSTANCE TeamRegister WITH work <- PendingWork

ImplementsRegister == Register!Spec

=============================================================================
