---------------------------- MODULE TeamRegister ----------------------------
(***************************************************************************)
(* What a main conversation is promised about its team: a versioned        *)
(* assignment of roles to child slots, changed as a whole and one version  *)
(* after the other, in which a role keeps its slot while work is pending   *)
(* under it.  ClusterTeam is shown to implement it.                        *)
(***************************************************************************)
EXTENDS Naturals

CONSTANTS Slots, Roles, Tasks, Free

VARIABLES
    revision,  \* version of the team
    team,      \* slot -> the role it has and the version that gave it, or Free
    work       \* pending work: task, slot, role and the role's version

vars == <<revision, team, work>>

Assignment == [role : Roles, rev : Nat]

Work == [task : Tasks, slot : Slots, role : Roles, rev : Nat]

Init ==
    /\ revision \in Nat
    /\ team \in [Slots -> Assignment \cup {Free}]
    /\ work = {}

\* New roles take free slots; whoever has one keeps it.
Extend ==
    /\ revision' = revision + 1
    /\ team' \in [Slots -> Assignment \cup {Free}]
    /\ \A s \in Slots :
        /\ team[s] # Free => team'[s] = team[s]
        /\ team[s] = Free /\ team'[s] # Free => team'[s].rev = revision'
    /\ UNCHANGED work

\* A slot changes hands only when nobody works; its version tells the old
\* occupant from the new one.
Replace ==
    /\ work = {}
    /\ revision' = revision + 1
    /\ team' \in [Slots -> Assignment \cup {Free}]
    /\ \A s \in Slots :
        team'[s] = Free \/ team'[s] = team[s] \/ team'[s].rev = revision'
    /\ UNCHANGED work

\* Work is given to a role of the current team.
Delegate ==
    /\ \E t \in Tasks, s \in Slots :
        /\ \A w \in work : w.task # t
        /\ team[s] # Free
        /\ work' = work \cup {[task |-> t, slot |-> s,
                               role |-> team[s].role, rev |-> team[s].rev]}
    /\ UNCHANGED <<revision, team>>

\* Work ends, all of it at once when the process restarts.
Finish ==
    /\ work' \in SUBSET work
    /\ UNCHANGED <<revision, team>>

Next == Extend \/ Replace \/ Delegate \/ Finish

Spec == Init /\ [][Next]_vars

=============================================================================
