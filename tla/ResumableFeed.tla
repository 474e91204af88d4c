--------------------------- MODULE ResumableFeed ---------------------------
(***************************************************************************)
(* What a client is promised of the events of a turn, however often it     *)
(* loses its connection: it gets them in their order and none of them      *)
(* twice, every critical one before anything that comes after it, and it   *)
(* is asked to fetch a snapshot before it is led past any other event.     *)
(* TurnChannel is shown to implement it.                                   *)
(***************************************************************************)
EXTENDS Naturals, Sequences

VARIABLES
    events,   \* kinds of the events so far; their index is their number
    position, \* the client asks for what comes after this event
    received, \* the events it has received
    snapshot  \* has this connection got, or will it get, a gap event?

feed == <<events, position, received, snapshot>>

Critical(n) == events[n] # "data"

Init ==
    /\ events = <<>>
    /\ position = 0
    /\ received = {}
    /\ snapshot = FALSE

\* The turn goes on; what was said stays said.
Publish ==
    /\ Len(events') > Len(events)
    /\ \A n \in 1 .. Len(events) : events'[n] = events[n]
    /\ UNCHANGED <<position, received, snapshot>>

\* The connection is lost or made anew.
Reconnect ==
    /\ snapshot' = FALSE
    /\ UNCHANGED <<events, position, received>>

Promise ==
    /\ snapshot' = TRUE
    /\ UNCHANGED <<events, position, received>>

\* The client may be led past these events without receiving them.
MaySkip(numbers) ==
    /\ \A n \in numbers : ~Critical(n)
    /\ numbers # {} => snapshot

Receive(n) ==
    /\ n > position
    /\ MaySkip(position + 1 .. n - 1)
    /\ position' = n
    /\ received' = received \cup {n}
    /\ UNCHANGED <<events, snapshot>>

\* A gap event takes the client to the last event it stands for.
Jump(n) ==
    /\ n > position
    /\ MaySkip(position + 1 .. n)
    /\ position' = n
    /\ UNCHANGED <<events, received, snapshot>>

Next ==
    \/ Publish \/ Reconnect \/ Promise
    \/ \E n \in 1 .. Len(events) : Receive(n) \/ Jump(n)

Spec == Init /\ [][Next]_feed
=============================================================================
