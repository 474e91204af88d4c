-------------------------- MODULE SessionLifecycle --------------------------
(***************************************************************************)
(* Who may use the session of one agent: chats with their turns, changes   *)
(* of the conversation, deletions, stops and the host's update             *)
(* (bot/web/api_service.py, bot/native_agent/service.py, bot/web/server.py *)
(* and bot/web/chat_history_service.py).                                   *)
(*                                                                         *)
(* A chat reserves the session (_session_lifecycle_scope), prepares, and   *)
(* runs one turn: of a CLI, or of the native agent, which is attached to   *)
(* the chat's stream or detached from it (TurnChannel).  Every action is   *)
(* the code between two suspension points; deletions run in a worker       *)
(* thread and are cut where they take the session's lock.  A call is used  *)
(* once and stands for its own execution id and token.                     *)
(*                                                                         *)
(* The module is about one UserSession.  Left out are what replaces it or  *)
(* moves its conversation beside the calls below (reset_user_session,      *)
(* deleting all conversations or a child's, rolling back, binding for      *)
(* voice, a new working directory), endless mode, and the checks of        *)
(* ownership and directory, which only refuse.                             *)
(***************************************************************************)
EXTENDS Naturals, FiniteSets

CONSTANTS
    Chats,    \* calls that run a turn: stream_chat, run_chat, child tasks
    Workers,  \* those of them that are child tasks and reserve nothing
    Changes,  \* calls of create_conversation and select_conversation
    Deletes,  \* calls of delete_conversation and archive_conversation
    Stops,    \* calls of kill_user_process
    Convs,    \* conversation ids of the agent
    Kinds,    \* a provider of turns with a CLI type
    KindOf,   \* the kind each conversation is made for
    NativeKind, \* the kind of the native agent's turns
    NoCall, NoConv

Calls == Chats \cup Changes \cup Deletes \cup Stops

ASSUME SessionAssumption ==
    /\ Workers \subseteq Chats /\ NoCall \notin Calls /\ NoConv \notin Convs
    /\ Chats \cap (Changes \cup Deletes \cup Stops) = {}
    /\ Changes \cap (Deletes \cup Stops) = {} /\ Deletes \cap Stops = {}
    /\ KindOf \in [Convs -> Kinds] /\ NativeKind \in Kinds

VARIABLES
    session,  \* the shared fields of the UserSession
    pc,       \* where each call is
    turn,     \* where the turn of each chat is
    under,    \* the execution id a turn runs under
    place,    \* history: where a chat was sent (asked) and runs (in)
    conv,     \* the conversations in the store
    captured, \* what each stop found
    victim,   \* what each deletion found
    reading,  \* the conversation that a read of the history is about to bind
    updating, \* is the exit of the host for an update pending?
    wanted,   \* history: executions that a stop was meant for
    stopped,  \* history: turns that were ended or reported as stopped
    overrun   \* history: chats whose conversation a read or a deletion moved

vars == <<session, pc, turn, under, place, conv, captured, victim, updating,
          wanted, stopped, reading, overrun>>

Fields ==
    [processing : BOOLEAN, op : {"", "chat", "conversation"},
     token : Calls \cup {NoCall}, exec : Chats \cup {NoCall}, detached : BOOLEAN,
     stopRequested : BOOLEAN, stopTask : Stops \cup {NoCall},
     abortTask : BOOLEAN, aborted : Chats \cup {NoCall},
     process : Chats \cup {NoCall}, active : Convs \cup {NoConv}]

Native(k) == turn[k] \in {"attached", "detached"}
Running(k) == turn[k] = "run" \/ Native(k)

NoStop == [exec |-> NoCall, process |-> NoCall, busy |-> FALSE, native |-> FALSE]
NoVictim == [of |-> NoConv, wasActive |-> FALSE, archive |-> FALSE]

Init ==
    /\ session = [processing |-> FALSE, op |-> "", token |-> NoCall, exec |-> NoCall,
                  detached |-> FALSE, stopRequested |-> FALSE, stopTask |-> NoCall,
                  abortTask |-> FALSE, aborted |-> NoCall, process |-> NoCall,
                  active |-> NoConv]
    /\ pc = [c \in Calls |-> "new"]
    /\ turn = [k \in Chats |-> "none"]
    /\ under = [k \in Chats |-> NoCall]
    /\ place = [k \in Chats |-> [asked |-> NoConv, in |-> NoConv]]
    /\ conv \in [Convs -> {"free", "there"}]
    /\ captured = [c \in Stops |-> NoStop]
    /\ victim = [d \in Deletes |-> NoVictim]
    /\ updating = FALSE
    /\ wanted = {} /\ stopped = {}
    /\ reading = NoConv /\ overrun = {}

-----------------------------------------------------------------------------
(* Reserving the session *)

Stopping == session.stopTask # NoCall \/ session.abortTask

\* Mutant of Idle: a session that is reserved but runs no turn is idle.
IdleUnlessProcessing(fields) == ~fields.processing /\ ~Stopping

\* What _session_lifecycle_scope asks for.
Idle(fields) == ~fields.processing /\ fields.op = "" /\ ~Stopping

\* What the begin of a turn asks for.
MayBegin == ~session.processing /\ session.op # "conversation" /\ ~Stopping

\* _finish_control_execution.
Finished(fields, execution) ==
    IF fields.exec # execution THEN fields
    ELSE IF fields.detached
         THEN [fields EXCEPT !.exec = NoCall, !.op = "", !.token = NoCall, !.detached = FALSE]
         ELSE [fields EXCEPT !.exec = NoCall]

\* Mutant of Reserved: stop_requested stays as it is.
ReservedAsItWas(fields, k) ==
    [fields EXCEPT !.op = "chat", !.token = k, !.exec = k, !.detached = FALSE]

\* The entry of a chat's scope.
Reserved(fields, k) ==
    [fields EXCEPT !.op = "chat", !.token = k, !.exec = k, !.detached = FALSE,
                   !.stopRequested = FALSE]

\* Mutant of Released: the exit of the scope ends a detached execution, too.
ReleasedAlways(fields, c) ==
    IF fields.token # c THEN fields
    ELSE Finished([fields EXCEPT !.op = "", !.token = NoCall], c)

\* The exit of a scope.  A change has no execution of its own.
Released(fields, c) ==
    IF fields.token # c \/ fields.detached THEN fields
    ELSE Finished([fields EXCEPT !.op = "", !.token = NoCall], c)

\* A chat is admitted.
EnterChat(k) ==
    /\ pc[k] = "new" /\ k \notin Workers
    /\ ~updating /\ Idle(session)
    /\ session' = Reserved(session, k)
    /\ pc' = [pc EXCEPT ![k] = "in"]
    /\ place' = [place EXCEPT ![k].asked = session.active]
    /\ UNCHANGED <<turn, under, conv, captured, victim, updating, wanted,
                   stopped, reading, overrun>>

\* The chat's stream is over: its turn has ended, could not begin, or is
\* detached and goes on without its client.
LeaveChat(k) ==
    /\ pc[k] = "in" /\ k \notin Workers
    /\ turn[k] \in {"none", "queued", "detached", "over"}
    /\ session' = Released(session, k)
    /\ pc' = [pc EXCEPT ![k] = "over"]
    /\ UNCHANGED <<turn, under, place, conv, captured, victim, updating,
                   wanted, stopped, reading, overrun>>

-----------------------------------------------------------------------------
(* Turns *)

\* Conversation-store calls of one session share a write key: one at a time,
\* which the turns, on the event loop, do not wait for.
Deleting(d) == pc[d] \in {"checked", "half"}
NoDeletion == \A d \in Deletes : ~Deleting(d)
StoreFree == NoDeletion /\ reading = NoConv

\* May a turn of this kind go on in the conversation?
Fits(c, kind) == c # NoConv /\ conv[c] # "deleted" /\ KindOf[c] = kind

\* start_turn puts the turn into the active conversation.  If that does not
\* fit, the store takes one of the turn's kind that is there or makes one, and
\* while there is no active one, a read of the history may find one.  In a
\* fitting one that has been archived the turn fails.
StartTurn(k, kind) ==
    LET current == session.active
        lost == ~Fits(current, kind)
    IN  \E c \in Convs \cup {NoConv} :
          /\ IF lost THEN c # NoConv /\ KindOf[c] = kind /\ conv[c] \in {"there", "free"}
             ELSE c = IF conv[current] = "there" THEN current ELSE NoConv
          /\ place' = [place EXCEPT ![k].in = c]
          /\ conv' = IF c = NoConv THEN conv ELSE [conv EXCEPT ![c] = "there"]
          /\ \/ UNCHANGED reading
             \/ lost /\ StoreFree /\ reading' \in {b \in Convs : conv'[b] = "there"}
          /\ under' = [under EXCEPT ![k] = IF session.exec = NoCall THEN k ELSE session.exec]
          /\ session' = [session EXCEPT !.processing = TRUE,
                           !.exec = IF @ = NoCall THEN k ELSE @,
                           !.stopRequested = @ /\ session.exec # NoCall,
                           !.active = IF lost THEN c ELSE @]

\* A CLI turn begins under the execution that is there.
BeginTurn(k) ==
    /\ pc[k] = "in" /\ turn[k] = "none"
    /\ ~updating /\ MayBegin
    /\ \E kind \in Kinds \ {NativeKind} : StartTurn(k, kind)
    /\ turn' = [turn EXCEPT ![k] = "run"]
    /\ UNCHANGED <<pc, captured, victim, updating, wanted, stopped, overrun>>

\* A native turn is handed to a channel, whose producer will run it.
DetachTurn(k) ==
    /\ pc[k] = "in" /\ turn[k] = "none" /\ k \notin Workers
    /\ session' = [session EXCEPT !.detached = TRUE]
    /\ turn' = [turn EXCEPT ![k] = "queued"]
    /\ UNCHANGED <<pc, under, place, conv, captured, victim, updating, wanted,
                   stopped, reading, overrun>>

\* A native turn begins, in the producer or in the chat's own stream.
BeginNative(k) ==
    /\ turn[k] = "queued" \/ (pc[k] = "in" /\ turn[k] = "none" /\ k \notin Workers)
    /\ MayBegin
    /\ StartTurn(k, NativeKind)
    /\ turn' = [turn EXCEPT ![k] = IF @ = "queued" THEN "detached" ELSE "attached"]
    /\ UNCHANGED <<pc, captured, victim, updating, wanted, stopped, overrun>>

\* The producer is refused, and its finally ends the execution.
RefuseNative(k) ==
    /\ turn[k] = "queued" /\ ~MayBegin
    /\ session' = Finished(session, k)
    /\ turn' = [turn EXCEPT ![k] = "over"]
    /\ UNCHANGED <<pc, under, place, conv, captured, victim, updating, wanted,
                   stopped, reading, overrun>>

\* The CLI's process has been spawned, which a stop request prevents, or the
\* native runtime acquired.
ProcessStarts(k) ==
    /\ Running(k) /\ place[k].in # NoConv /\ session.process # k
    /\ turn[k] = "run" => ~session.stopRequested
    /\ session' = [session EXCEPT !.process = k]
    /\ UNCHANGED <<pc, turn, under, place, conv, captured, victim, updating,
                   wanted, stopped, reading, overrun>>

\* The CLI's process is gone and cleaned up.
ProcessEnds(k) ==
    /\ turn[k] = "run" /\ session.process = k
    /\ session' = [session EXCEPT !.process = NoCall]
    /\ UNCHANGED <<pc, turn, under, place, conv, captured, victim, updating,
                   wanted, stopped, reading, overrun>>

\* The turn of a CLI is complete; a stop request makes it a cancelled one.  A
\* child task takes the result and leaves the stream as it is.
TurnCompletes(k) ==
    /\ turn[k] = "run" /\ session.process # k /\ place[k].in # NoConv
    /\ pc' = [pc EXCEPT ![k] = IF k \in Workers THEN "over" ELSE @]
    /\ session' = [session EXCEPT !.processing = FALSE]
    /\ stopped' = IF session.stopRequested THEN stopped \cup {k} ELSE stopped
    /\ turn' = [turn EXCEPT ![k] = "closing"]
    /\ UNCHANGED <<under, place, conv, captured, victim, updating, wanted,
                   reading, overrun>>

\* The turn raises, or its stream is closed under it.
TurnBreaks(k) ==
    /\ turn[k] = "run"
    /\ turn' = [turn EXCEPT ![k] = "closing"]
    /\ UNCHANGED <<session, pc, under, place, conv, captured, victim, updating,
                   wanted, stopped, reading, overrun>>

\* The finally of _stream_cli_chat ends what still runs in its execution ...
CloseLooks(k) ==
    /\ turn[k] = "closing"
    /\ stopped' = IF session.exec = under[k] THEN stopped \cup ({session.process} \ {k, NoCall})
                  ELSE stopped
    /\ turn' = [turn EXCEPT ![k] = "cleaning"]
    /\ UNCHANGED <<session, pc, under, place, conv, captured, victim, updating,
                   wanted, reading, overrun>>

\* ... and resets the session's flags, unless another execution has it by now.
Reset(fields) ==
    [fields EXCEPT !.process = NoCall, !.processing = FALSE, !.stopRequested = FALSE]

CloseResets(k) ==
    /\ turn[k] = "cleaning"
    /\ session' = IF session.exec # under[k] THEN session
                  ELSE IF under[k] = k /\ k \in Workers THEN Finished(Reset(session), k)
                  ELSE Reset(session)
    /\ turn' = [turn EXCEPT ![k] = "over"]
    /\ UNCHANGED <<pc, under, place, conv, captured, victim, updating, wanted,
                   stopped, reading, overrun>>

\* A native turn ends, however it does: the finally of the service's
\* stream_chat and that of produce.
EndNative(k) ==
    /\ Native(k)
    /\ stopped' = IF session.stopRequested THEN stopped \cup {k} ELSE stopped
    /\ session' = Finished(IF session.exec = under[k] THEN Reset(session) ELSE session, under[k])
    /\ turn' = [turn EXCEPT ![k] = "over"]
    /\ UNCHANGED <<pc, under, place, conv, captured, victim, updating, wanted,
                   reading, overrun>>

-----------------------------------------------------------------------------
(* Stops *)

\* Mutant of Ended: nobody looks whether there is a process to end.
EndedUnchecked(process) == {process}

\* The turn whose process or runtime is ended, if there is one.
Ended(process) == {process} \ {NoCall}

\* abort: the session's one abort task is created, unless it is there or the
\* execution is not the expected one any more.
Aborting(fields, execution, runtime) ==
    IF fields.exec # execution \/ fields.abortTask \/ ~fields.processing THEN fields
    ELSE [fields EXCEPT !.stopRequested = TRUE, !.abortTask = TRUE, !.aborted = runtime]

\* The grace window of an abandoned turn closes (abort_turn of its channel).
GraceAborts(k) ==
    /\ turn[k] = "detached" /\ pc[k] = "over"
    /\ session' = Aborting(session, k, session.process)
    /\ wanted' = wanted \cup {k}
    /\ UNCHANGED <<pc, turn, under, place, conv, captured, victim, updating,
                   stopped, reading, overrun>>

AbortEnds ==
    /\ session.abortTask
    /\ stopped' = stopped \cup Ended(session.aborted)
    /\ session' = [session EXCEPT !.abortTask = FALSE, !.aborted = NoCall]
    /\ UNCHANGED <<pc, turn, under, place, conv, captured, victim, updating,
                   wanted, reading, overrun>>

\* A stop captures what it finds and asks for the session's one stop task; a
\* second stop would wait for the same task.
StopAsked(s) ==
    LET busy == session.processing \/ session.op = "chat" IN
    /\ pc[s] = "new" /\ session.stopTask = NoCall /\ session.op # "conversation"
    /\ captured' = [captured EXCEPT ![s] =
          [exec |-> session.exec, process |-> session.process, busy |-> busy,
           native |-> session.process # NoCall /\ Native(session.process)]]
    /\ session' = [session EXCEPT !.stopTask = s, !.stopRequested = @ \/ busy]
    /\ wanted' = wanted \cup ({session.exec} \ {NoCall})
    /\ pc' = [pc EXCEPT ![s] = "asked"]
    /\ UNCHANGED <<turn, under, place, conv, victim, updating, stopped,
                   reading, overrun>>

\* The stop task ends what was captured.
StopActs(s) ==
    LET found == captured[s] IN
    /\ pc[s] = "asked"
    /\ IF found.busy /\ found.native
       THEN session' = Aborting(session, found.exec, found.process) /\ UNCHANGED stopped
       ELSE /\ stopped' = IF found.busy THEN stopped \cup Ended(found.process)
                          ELSE stopped
            /\ UNCHANGED session
    /\ pc' = [pc EXCEPT ![s] = "acting"]
    /\ UNCHANGED <<turn, under, place, conv, captured, victim, updating,
                   wanted, reading, overrun>>

StopReturns(s) ==
    /\ pc[s] = "acting"
    /\ captured[s].native => ~session.abortTask
    /\ session' = [session EXCEPT !.stopTask = NoCall]
    /\ pc' = [pc EXCEPT ![s] = "over"]
    /\ UNCHANGED <<turn, under, place, conv, captured, victim, updating,
                   wanted, stopped, reading, overrun>>

-----------------------------------------------------------------------------
(* Changes of the conversation *)

EnterChange(x) ==
    /\ pc[x] = "new"
    /\ ~updating /\ Idle(session)
    /\ session' = [session EXCEPT !.op = "conversation", !.token = x]
    /\ pc' = [pc EXCEPT ![x] = "in"]
    /\ UNCHANGED <<turn, under, place, conv, captured, victim, updating,
                   wanted, stopped, reading, overrun>>

\* A conversation is made or selected and becomes the active one.
Change(x) ==
    /\ pc[x] = "in" /\ StoreFree /\ ~session.processing
    /\ \E c \in Convs :
          /\ conv[c] \in {"free", "there"}
          /\ conv' = [conv EXCEPT ![c] = "there"]
          /\ session' = [session EXCEPT !.active = c]
    /\ pc' = [pc EXCEPT ![x] = "done"]
    /\ UNCHANGED <<turn, under, place, captured, victim, updating, wanted,
                   stopped, reading, overrun>>

LeaveChange(x) ==
    /\ pc[x] \in {"in", "done"}
    /\ session' = Released(session, x)
    /\ pc' = [pc EXCEPT ![x] = "over"]
    /\ UNCHANGED <<turn, under, place, conv, captured, victim, updating,
                   wanted, stopped, reading, overrun>>

\* Delete and archive reserve nothing: they look whether a turn is running ...
DeleteLooks(d, c, archive) ==
    /\ pc[d] = "new" /\ ~updating /\ StoreFree
    /\ ~session.processing /\ conv[c] = "there"
    /\ victim' = [victim EXCEPT ![d] =
          [of |-> c, wasActive |-> session.active = c, archive |-> archive]]
    /\ pc' = [pc EXCEPT ![d] = "checked"]
    /\ UNCHANGED <<session, turn, under, place, conv, captured, updating,
                   wanted, stopped, reading, overrun>>

\* A call that has entered the scope and is not out of it, or a turn that goes
\* on without its client.
InUse(c) ==
    \/ pc[c] \in {"in", "done"}
    \/ c \in Chats /\ turn[c] \in {"queued", "detached"}

\* The active conversation is set, for a reason that was found earlier and may
\* be none any more: then the chats under way are overrun.
SetActive(c, stale) ==
    /\ session' = [session EXCEPT !.active = c]
    /\ overrun' = IF stale /\ session.active # NoConv
                  THEN overrun \cup {k \in Chats : InUse(k)} ELSE overrun

Unbind(d) ==
    IF victim[d].wasActive THEN SetActive(NoConv, session.active # victim[d].of)
    ELSE UNCHANGED <<session, overrun>>

\* ... then delete takes the conversation out of the session and out of the
\* store, and archive the other way round.
DeleteHalf(d) ==
    /\ pc[d] = "checked"
    /\ IF victim[d].archive
       THEN /\ conv' = [conv EXCEPT ![victim[d].of] = "archived"]
            /\ UNCHANGED <<session, overrun>>
       ELSE Unbind(d) /\ UNCHANGED conv
    /\ pc' = [pc EXCEPT ![d] = "half"]
    /\ UNCHANGED <<turn, under, place, captured, victim, updating, wanted,
                   stopped, reading>>

DeleteRest(d) ==
    /\ pc[d] = "half"
    /\ IF victim[d].archive
       THEN Unbind(d) /\ UNCHANGED conv
       ELSE /\ conv' = [conv EXCEPT ![victim[d].of] = "deleted"]
            /\ UNCHANGED <<session, overrun>>
    /\ pc' = [pc EXCEPT ![d] = "over"]
    /\ UNCHANGED <<turn, under, place, captured, victim, updating, wanted,
                   stopped, reading>>

\* A read of the history finds no active conversation and takes one that is
\* in the store, of the kinds it was asked for ...
ReadLooks(c) ==
    /\ ~updating /\ StoreFree
    /\ session.active = NoConv /\ conv[c] = "there"
    /\ reading' = c
    /\ UNCHANGED <<session, pc, turn, under, place, conv, captured, victim,
                   updating, wanted, stopped, overrun>>

\* ... and binds it later, whatever the session has got meanwhile.
ReadBinds ==
    /\ reading # NoConv
    /\ SetActive(reading, TRUE)
    /\ reading' = NoConv
    /\ UNCHANGED <<pc, turn, under, place, conv, captured, victim, updating,
                   wanted, stopped>>

-----------------------------------------------------------------------------
(* The update of the host *)

\* Mutant of HostIdle: a session that is only reserved does not count.
HostIdleUnlessProcessing ==
    /\ ~session.processing /\ session.process = NoCall
    /\ NoDeletion /\ \A k \in Chats : turn[k] \notin {"queued", "detached"}

\* What _update_idle_reason finds: changing requests, sessions, channels.
HostIdle ==
    /\ ~session.processing /\ session.op = "" /\ session.process = NoCall
    /\ NoDeletion /\ \A k \in Chats : turn[k] \notin {"queued", "detached"}

\* Looking and scheduling the exit is one step of the event loop.
ApplyUpdate ==
    /\ ~updating /\ HostIdle
    /\ updating' = TRUE
    /\ UNCHANGED <<session, pc, turn, under, place, conv, captured, victim,
                   wanted, stopped, reading, overrun>>

-----------------------------------------------------------------------------
Next ==
    \/ \E k \in Chats :
          \/ EnterChat(k) \/ LeaveChat(k) \/ BeginTurn(k) \/ DetachTurn(k)
          \/ BeginNative(k) \/ RefuseNative(k) \/ ProcessStarts(k) \/ ProcessEnds(k)
          \/ TurnCompletes(k) \/ TurnBreaks(k) \/ CloseLooks(k) \/ CloseResets(k)
          \/ EndNative(k) \/ GraceAborts(k)
    \/ AbortEnds
    \/ \E s \in Stops : StopAsked(s) \/ StopActs(s) \/ StopReturns(s)
    \/ \E x \in Changes : EnterChange(x) \/ Change(x) \/ LeaveChange(x)
    \/ \E d \in Deletes :
          \/ \E c \in Convs, archive \in BOOLEAN : DeleteLooks(d, c, archive)
          \/ DeleteHalf(d) \/ DeleteRest(d)
    \/ \E c \in Convs : ReadLooks(c)
    \/ ReadBinds
    \/ ApplyUpdate

Spec == Init /\ [][Next]_vars

-----------------------------------------------------------------------------
(* Properties *)

\* The type invariant.
TypeOK ==
    /\ session \in Fields
    /\ pc \in [Calls -> {"new", "in", "done", "asked", "acting", "checked", "half", "over"}]
    /\ turn \in [Chats -> {"none", "queued", "run", "attached", "detached", "closing",
                           "cleaning", "over"}]
    /\ under \in [Chats -> Chats \cup {NoCall}]
    /\ place \in [Chats -> [asked : Convs \cup {NoConv}, in : Convs \cup {NoConv}]]
    /\ conv \in [Convs -> {"free", "there", "archived", "deleted"}]
    /\ captured \in [Stops -> [exec : Chats \cup {NoCall}, process : Chats \cup {NoCall},
                               busy : BOOLEAN, native : BOOLEAN]]
    /\ victim \in [Deletes -> [of : Convs \cup {NoConv}, wasActive : BOOLEAN,
                               archive : BOOLEAN]]
    /\ updating \in BOOLEAN
    /\ wanted \subseteq Chats /\ stopped \subseteq Chats
    /\ reading \in Convs \cup {NoConv} /\ overrun \subseteq Chats

\* The session is held exactly while it is in use: a running turn holds it,
\* also when its client has left, and a hold has a call that will release it
\* (_session_lifecycle_scope, _finish_control_execution).
HoldMatchesUse ==
    /\ \A k \in Chats : Running(k) =>
          session.processing /\ session.op = "chat" /\ session.exec = k
    /\ session.op # "" => session.token \in Calls /\ InUse(session.token)
    /\ session.exec # NoCall => InUse(session.exec)
    /\ session.processing =>
          /\ session.exec # NoCall
          /\ Running(session.exec) \/ turn[session.exec] \in {"closing", "cleaning"}
    /\ session.detached => turn[session.exec] \in {"queued", "detached"}

\* A stop ends the execution it was meant for and never a later one: neither
\* its flag nor its captured process nor an abort that comes late
\* (kill_user_process, NativeAgentService.abort).
StopHitsItsOwn == stopped \subseteq wanted

\* A turn runs in the conversation that was active when its chat was admitted,
\* unless somebody deletes or archives that or it is of another kind than the
\* turn, and its conversation stays the active one: creating and selecting wait
\* for the whole chat.  Excepted are the chats that were under way when a read
\* that had found no active conversation bound one over another, or a deletion
\* that had found its conversation active dropped another (start_turn,
\* list_history, _session_lifecycle_scope).
Doomed(c) == conv[c] # "there" \/ \E d \in Deletes : Deleting(d) /\ victim[d].of = c

RunsWhereSent ==
    \A k \in Chats : Running(k) /\ place[k].in # NoConv /\ k \notin overrun =>
        /\ place[k].asked # NoConv =>
              \/ place[k].in = place[k].asked \/ Doomed(place[k].asked)
              \/ KindOf[place[k].in] # KindOf[place[k].asked]
        /\ session.active = place[k].in \/ Doomed(place[k].in)

\* Once the host is about to exit for an update nothing is under way and
\* nothing begins: no turn, no deletion, no change (_update_idle_reason,
\* _require_update_admission).
UpdateFindsQuiet ==
    updating =>
        /\ \A k \in Chats : turn[k] = "over" \/ (turn[k] = "none" /\ pc[k] # "in")
        /\ \A x \in Changes : pc[x] \notin {"in", "done"}
        /\ NoDeletion

-----------------------------------------------------------------------------
(* What the callers are promised *)

\* How far a chat or a change is.  A chat that is not detached any more has
\* nothing to do in the session once its turn is over.
ChatStage(k) ==
    IF pc[k] = "new" THEN "waiting"
    ELSE IF turn[k] = "queued" \/ (turn[k] = "none" /\ pc[k] = "in") THEN "holding"
    ELSE IF turn[k] \in {"none", "over"} THEN "over" ELSE "busy"

ChangeStage(x) ==
    IF pc[x] = "new" THEN "waiting"
    ELSE IF pc[x] = "in" THEN "holding"
    ELSE IF pc[x] = "done" THEN "busy" ELSE "over"

Stages == [c \in Chats \cup Changes |-> IF c \in Chats THEN ChatStage(c) ELSE ChangeStage(c)]
Stored == {c \in Convs : conv[c] = "there"}
Removing == {victim[d].of : d \in {e \in Deletes : Deleting(e)}}
Dropping == \E d \in Deletes : Deleting(d) /\ victim[d].wasActive

Hold == INSTANCE SessionHold WITH
            stage <- Stages, active <- session.active, stored <- Stored,
            removing <- Removing, dropping <- Dropping, closed <- updating

\* The session is used as SessionHold says: by one call at a time, which alone
\* moves the active conversation but for late reads and removals, and by none
\* once the host is about to exit (_session_lifecycle_scope, start_turn,
\* delete_conversation, list_history, _update_idle_reason).
ImplementsHold == Hold!Spec
=============================================================================
