----------------------------- MODULE MCSessions -----------------------------
(* TLC instances of SessionLifecycle. *)
EXTENDS SessionLifecycle, TLC

CONSTANTS k1, k2, x1, d1, s1, c1, c2, c3

\* The native agent has one conversation, the others are the CLI's.
MCKindOf == [c \in Convs |-> IF c = c3 THEN "native" ELSE "cli"]

\* Chats are interchangeable, and so are the conversations of one kind.
CallSymmetry == Permutations({c1, c2}) \cup Permutations({k1, k2})

\* What a call that is over has captured or was sent to is read by no action and
\* no property any more, so states that differ in it only are one.
Gone(k) == turn[k] = "over" \/ (turn[k] = "none" /\ pc[k] = "over")

LiveState ==
    <<session, pc, turn, conv, updating, wanted, stopped, reading,
      [k \in Chats |-> IF Gone(k) THEN NoCall ELSE <<under[k], place[k], k \in overrun>>],
      [s \in Stops |-> IF pc[s] = "over" THEN NoStop ELSE captured[s]],
      [d \in Deletes |-> IF pc[d] = "over" THEN NoVictim ELSE victim[d]]>>
=============================================================================
