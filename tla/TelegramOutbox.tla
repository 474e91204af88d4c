--------------------------- MODULE TelegramOutbox ---------------------------
(***************************************************************************)
(* What the Telegram side promises about a result that has to reach a      *)
(* chat: it is persisted before the first attempt to send it, its parts    *)
(* reach the chat in their order, and a part is marked as sent only after  *)
(* it reached the chat.  A part may reach the chat more than once.         *)
(***************************************************************************)
EXTENDS Naturals

CONSTANTS Entries, \* results and notifications
          Parts    \* number of parts of each entry

VARIABLES recorded,  \* the entry is persisted
          confirmed, \* number of leading parts marked as sent
          shown      \* the parts that have reached the chat at least once

outbox == <<recorded, confirmed, shown>>

Init == /\ recorded = [e \in Entries |-> FALSE]
        /\ confirmed = [e \in Entries |-> 0]
        /\ shown = [e \in Entries |-> {}]

Record(e) == /\ ~recorded[e]
             /\ recorded' = [recorded EXCEPT ![e] = TRUE]
             /\ UNCHANGED <<confirmed, shown>>

\* One message reaches the chat; when its answer reaches the sender too, the
\* part is the next one to be marked, or was marked by another sender.
Show(e, p) == /\ recorded[e]
              /\ p <= confirmed[e] + 1
              /\ shown' = [shown EXCEPT ![e] = @ \cup {p}]
              /\ \/ confirmed' = [confirmed EXCEPT ![e] = IF p > @ THEN p ELSE @]
                 \/ UNCHANGED confirmed
              /\ UNCHANGED recorded

\* A process that dies may leave one message in flight for each entry, and a
\* result that it has just persisted.
ShowUnanswered == /\ \A e \in Entries :
                        /\ shown[e] \subseteq shown'[e]
                        /\ \A p \in shown'[e] \ shown[e] :
                              recorded[e] /\ p <= confirmed[e] + 1
                  /\ shown' \in [Entries -> SUBSET (1 .. Parts)]
                  /\ \/ UNCHANGED recorded
                     \/ \E e \in Entries :
                           recorded' = [recorded EXCEPT ![e] = TRUE]
                  /\ UNCHANGED confirmed

Next == \/ \E e \in Entries : Record(e)
        \/ \E e \in Entries, p \in 1 .. Parts : Show(e, p)
        \/ ShowUnanswered

Spec == Init /\ [][Next]_outbox
=============================================================================
