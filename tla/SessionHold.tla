---------------------------- MODULE SessionHold ----------------------------
(***************************************************************************)
(* What the calls of one agent's session are promised.  A chat or a change *)
(* of the conversation holds the session alone, from its admission to the  *)
(* end of what it does there, and does it once.  Who holds it makes or     *)
(* selects the active conversation, a chat only when that cannot be used   *)
(* or is of another kind.  A removal holds nothing; it takes its own       *)
(* conversation out of the store, and nothing else, and if that is the     *)
(* active one when it begins it leaves none active.  A read of the history *)
(* holds nothing either: when there is no active conversation it finds     *)
(* one, and binds it, still stored, over what is active by then.  When the *)
(* host closes, no call is under way and nothing changes any more but for  *)
(* a read that is.  SessionLifecycle is shown to implement it.             *)
(***************************************************************************)
CONSTANTS Chats, Changes, Convs, KindOf, NoConv

VARIABLES
    stage,    \* of each call: "waiting", "holding", "busy" or "over"
    active,   \* the active conversation
    stored,   \* the conversations that can be used
    removing, \* those that are being removed
    dropping, \* will the removal leave no conversation active?
    reading,  \* the one that a read of the history is about to bind
    closed    \* is the host about to exit?

hold == <<stage, active, stored, removing, dropping, reading, closed>>

Callers == Chats \cup Changes

Free == \A c \in Callers : stage[c] \notin {"holding", "busy"}

Init ==
    /\ stage = [c \in Callers |-> "waiting"]
    /\ active = NoConv /\ stored \subseteq Convs
    /\ removing = {} /\ dropping = FALSE
    /\ reading = NoConv /\ closed = FALSE

Admit(c) ==
    /\ stage[c] = "waiting" /\ Free
    /\ stage' = [stage EXCEPT ![c] = "holding"]
    /\ UNCHANGED <<active, stored, removing, dropping, reading, closed>>

Release(c) ==
    /\ stage[c] \in {"holding", "busy"}
    /\ stage' = [stage EXCEPT ![c] = "over"]
    /\ UNCHANGED <<active, stored, removing, dropping, reading, closed>>

Use(c) ==
    /\ stage[c] = "holding"
    /\ stage' = [stage EXCEPT ![c] = "busy"]

Activate(c) == active' = c /\ stored' = stored \cup {c}

\* A turn may leave the active conversation for this one.
Moves(c) == active \notin stored \/ KindOf[active] # KindOf[c]

\* A turn begins in the active conversation, or in another one if that is gone
\* or of another kind.  While it moves a read may find a conversation.
Begin(k) ==
    /\ Use(k)
    /\ \/ UNCHANGED <<active, stored, reading>>
       \/ /\ \E c \in Convs : Moves(c) /\ Activate(c)
          /\ \/ UNCHANGED reading
             \/ removing = {} /\ reading = NoConv /\ reading' \in stored'
    /\ UNCHANGED <<removing, dropping, closed>>

Switch(x) ==
    /\ Use(x) /\ removing = {} /\ reading = NoConv
    /\ \E c \in Convs : Activate(c)
    /\ UNCHANGED <<removing, dropping, reading, closed>>

RemovalBegins ==
    /\ removing = {} /\ reading = NoConv
    /\ \E c \in stored : removing' = {c} /\ dropping' = (c = active)
    /\ UNCHANGED <<stage, active, stored, reading, closed>>

\* A removal takes its conversation out of the session and out of the store.
Removes ==
    /\ removing # {}
    /\ \/ dropping /\ active' = NoConv /\ UNCHANGED stored
       \/ stored' = stored \ removing /\ UNCHANGED active
    /\ \/ UNCHANGED <<removing, dropping>>
       \/ removing' = {} /\ dropping' = FALSE /\ stored' \cap removing = {}
    /\ UNCHANGED <<stage, reading, closed>>

Finds ==
    /\ active = NoConv /\ removing = {} /\ reading = NoConv
    /\ reading' \in stored
    /\ UNCHANGED <<stage, active, stored, removing, dropping, closed>>

Binds ==
    /\ reading \in stored
    /\ active' = reading /\ reading' = NoConv
    /\ UNCHANGED <<stage, stored, removing, dropping, closed>>

Close ==
    /\ Free /\ removing = {}
    /\ closed' = TRUE
    /\ UNCHANGED <<stage, active, stored, removing, dropping, reading>>

Next ==
    \/ /\ ~closed
       /\ \/ \E c \in Callers : Admit(c) \/ Release(c)
          \/ \E k \in Chats : Begin(k)
          \/ \E x \in Changes : Switch(x)
          \/ RemovalBegins \/ Removes \/ Finds \/ Close
    \/ Binds

Spec == Init /\ [][Next]_hold
=============================================================================
