-------------------------- MODULE MCClusterMessages --------------------------
(* TLC instances of ClusterMessages. *)
EXTENDS ClusterMessages

CONSTANTS t1, t2, w1, w2

\* Reads that ask for both kinds, and reads that ask for results only.
FinalsToo == {Kinds, {"final"}}

AnySymmetry == Permutations({t1, t2}) \cup Permutations({w1, w2})
=============================================================================
