--------------------------- MODULE MCClusterTasks ---------------------------
(* TLC instances of ClusterTasks. *)
EXTENDS ClusterTasks, TLC

CONSTANTS r1, r2, a1, t1, t2, t3, c1, c2, c3

\* Two conversations: t1 and t2 are asked in one run, t3 wants the same slot
\* from the other.  With one permit t2 waits for the semaphore.
SlotRunOf   == t1 :> r1 @@ t2 :> r1 @@ t3 :> r2
SlotAgentOf == t1 :> a1 @@ t2 :> a1 @@ t3 :> a1

\* Two tasks of one run queued for one slot; with two permits the agent lock
\* alone keeps them apart.
PairRunOf   == t1 :> r1 @@ t2 :> r1
PairAgentOf == t1 :> a1 @@ t2 :> a1

\* Control objects are interchangeable identities.
ControlSymmetry == Permutations({c1, c2, c3})
=============================================================================
