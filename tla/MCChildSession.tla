--------------------------- MODULE MCChildSession ---------------------------
(* A TLC instance of ChildSession: two tasks queued for one child agent. *)
EXTENDS ChildSession

CONSTANTS w1, w2, c1, c2

MCKindOf == [c \in {c1, c2} |-> "cli"]
=============================================================================
