---------------------------- MODULE MCClusterTeam ----------------------------
(* TLC instances of ClusterTeam: two slots and two roles of different names. *)
EXTENDS ClusterTeam, TLC

CONSTANTS s1, s2, x, y, t1, k1, k2

SlotOrder == s1 :> 1 @@ s2 :> 2
RoleNames == x :> "x" @@ y :> "y"

\* Names are only compared, and the two differ: the roles are interchangeable.
Symmetric == Permutations({x, y}) \cup Permutations({k1, k2})
=============================================================================
