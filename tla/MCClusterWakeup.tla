--------------------------- MODULE MCClusterWakeup ---------------------------
(* TLC instances of ClusterWakeup. *)
EXTENDS ClusterWakeup

CONSTANTS t1, t2, k1, k2, k3
=============================================================================
