---------------------------- MODULE ChildSession ----------------------------
(***************************************************************************)
(* The session of a child agent of a cluster: beside the calls of          *)
(* SessionLifecycle it runs the cluster's tasks, whose worker reserves     *)
(* nothing and reads the turn's generator without closing it              *)
(* (_run_cluster_agent_task of bot/web/api_service.py).  A generator that  *)
(* is left runs its finally when the event loop gets to close it.          *)
(***************************************************************************)
EXTENDS SessionLifecycle

\* A worker gets the agent lock and binds the session to the conversation of
\* its task (_ensure_cluster_child_conversation).
TakeTask(w) ==
    /\ pc[w] = "new" /\ \A v \in Workers : pc[v] # "in"
    /\ ~session.processing
    /\ \E c \in Convs :
          /\ conv[c] \in {"free", "there"}
          /\ conv' = [conv EXCEPT ![c] = "there"]
          /\ session' = [session EXCEPT !.active = c]
          /\ place' = [place EXCEPT ![w].asked = c]
    /\ pc' = [pc EXCEPT ![w] = "in"]
    /\ UNCHANGED <<turn, under, captured, victim, updating, wanted, stopped,
                   reading, overrun>>

\* The turn was refused or has raised.
LeaveTask(w) ==
    /\ pc[w] = "in" /\ turn[w] \in {"none", "over"}
    /\ pc' = [pc EXCEPT ![w] = "over"]
    /\ UNCHANGED <<session, turn, under, place, conv, captured, victim, updating, wanted, stopped,
                   reading, overrun>>

\* The task was cancelled and its worker leaves the turn as it is.
DropTask(w) ==
    /\ pc[w] = "in" /\ turn[w] = "run"
    /\ turn' = [turn EXCEPT ![w] = "closing"]
    /\ pc' = [pc EXCEPT ![w] = "over"]
    /\ UNCHANGED <<session, under, place, conv, captured, victim, updating, wanted, stopped,
                   reading, overrun>>

ChildNext == Next \/ \E w \in Workers : TakeTask(w) \/ LeaveTask(w) \/ DropTask(w)

ChildSpec == Init /\ [][ChildNext]_vars

\* "Cleanup never clears replacement execution"
\* (tests/test_telegram_control_service.py): a turn that runs has the session
\* until it is complete, whatever an older turn still has to clean up.
CleanupSparesReplacement == \A k \in Chats : Running(k) => session.processing
=============================================================================
