----------------------------- MODULE MCTelegram -----------------------------
(* Instances of the Telegram side: what happens in a behaviour is one of a   *)
(* few combinations, so that independent results are not interleaved.        *)
EXTENDS TelegramDelivery, TLC

CONSTANT n1
MCNotes == {n1}
Happening(first, second, turn) == 1 :> first @@ 2 :> second @@ n1 :> turn
MCIncoming == {Happening("confirm", "confirm", "none"),
               Happening("foreign", "panel", "none"),
               Happening("chatless", "text", "none"),
               Happening("text", "none", "none"),
               Happening("none", "none", "turn")}
\* Three failures let the stream and the table of retries overtake each other.
MCMaxFaults == [k \in [Entries -> Kinds] |-> IF k[n1] = "turn" THEN 3 ELSE 2]
=============================================================================
