------------------------- MODULE ClusterTasksProofs -------------------------
(***************************************************************************)
(* Proofs about ClusterTasks: its type invariant, the exclusive use of a   *)
(* child slot, the capacity of a run, and what a stop guarantees, for any  *)
(* number of runs, agents, tasks and control objects.                      *)
(***************************************************************************)
EXTENDS ClusterTasks, FiniteSetTheorems, TLAPS

(* The inductive invariant. *)

\* The status follows the coroutine; a cancelled task whose coroutine is still
\* alive is being cancelled, and only cancelled tasks are.
StatusAgrees ==
    \A t \in Tasks :
        /\ pc[t] = "none" <=> status[t] = "none"
        /\ pc[t] \in {"start", "sem", "lock"} => status[t] \in {"queued", "cancelled"}
        /\ pc[t] = "stream" => status[t] \in {"running", "cancelled"}
        /\ kill[t] => status[t] = "cancelled"
        /\ pc[t] \in Unfinished /\ status[t] = "cancelled" => kill[t]

OneControlPerRun ==
    \A q, r \in Runs : registered[q] = registered[r] /\ registered[q] # NoControl => q = r

\* A stop in progress works on the registered control of a run; once it has
\* cancelled, nothing of the run is pending or outside what it waits for.
StopAgrees ==
    /\ stop.phase = "idle" => stop = NoStop
    /\ stop.phase # "idle" =>
        /\ stop.run \in Runs /\ stop.control \in Controls
        /\ registered[stop.run] = stop.control
        /\ cancel[stop.control]
        /\ holds[stop.control] > 0
    /\ stop.phase = "gather" =>
        \A t \in TasksOf(stop.run) :
            /\ status[t] \notin Pending
            /\ pc[t] \in Unfinished => t \in stop.waits

CrossRunSlots ==
    \A t, u \in Tasks :
        AgentOf[t] = AgentOf[u] /\ RunOf[t] # RunOf[u] =>
            ~(status[t] \in Pending /\ status[u] \in Pending)

SameRunSlots ==
    \A t, u \in Tasks :
        t # u /\ AgentOf[t] = AgentOf[u] /\ RunOf[t] = RunOf[u] =>
            ~(pc[t] = "stream" /\ pc[u] = "stream")

IInv == /\ TypeOK
        /\ StatusAgrees
        /\ ControlKept
        /\ OneControlPerRun
        /\ StopAgrees
        /\ CrossRunSlots
        /\ SameRunSlots
        /\ OrphansCanBeStopped
        /\ CapacityRespected

-----------------------------------------------------------------------------
(* Facts used by several steps. *)

LEMMA InitIInv == Init => IInv
<1> SUFFICES ASSUME Init PROVE IInv
  OBVIOUS
<1>1. TypeOK
  BY ConstantsAssumption DEF Init, TypeOK, NoStop, Status, Place, Unfinished
<1>2. StatusAgrees /\ ControlKept /\ OneControlPerRun /\ StopAgrees
  BY DEF Init, StatusAgrees, ControlKept, OneControlPerRun, StopAgrees, NoStop, Unfinished
<1>3. CrossRunSlots /\ SameRunSlots /\ OrphansCanBeStopped
  BY DEF Init, CrossRunSlots, SameRunSlots, OrphansCanBeStopped, Pending
<1>4. CapacityRespected
  <2> SUFFICES ASSUME NEW r \in Runs
               PROVE Cardinality({t \in TasksOf(r) : pc[t] \in {"lock", "stream"}}) <= Capacity
    BY DEF CapacityRespected
  <2>1. {t \in TasksOf(r) : pc[t] \in {"lock", "stream"}} = {}
    BY DEF Init, TasksOf
  <2> QED BY <2>1, FS_EmptySet, ConstantsAssumption
<1> QED BY <1>1, <1>2, <1>3, <1>4 DEF IInv

\* A step after which no more coroutines hold a permit keeps the capacity.
LEMMA CapacityKept ==
    ASSUME IInv, \A t \in Tasks : pc'[t] \in {"lock", "stream"} => pc[t] \in {"lock", "stream"}
    PROVE  CapacityRespected'
<1> SUFFICES ASSUME NEW r \in Runs
             PROVE Cardinality({t \in TasksOf(r) : pc'[t] \in {"lock", "stream"}}) <= Capacity
  BY DEF CapacityRespected, TasksOf
<1> DEFINE Before == {t \in TasksOf(r) : pc[t] \in {"lock", "stream"}}
           After  == {t \in TasksOf(r) : pc'[t] \in {"lock", "stream"}}
<1>1. After \subseteq Before
  BY DEF TasksOf
<1>2. IsFiniteSet(Before)
  BY ConstantsAssumption, FS_Subset, Before \subseteq Tasks DEF TasksOf
<1>3. Cardinality(After) <= Cardinality(Before) /\ Cardinality(Before) \in Nat /\ Cardinality(After) \in Nat
  BY <1>1, <1>2, FS_Subset, FS_CardinalityType
<1>4. Cardinality(Before) <= Capacity
  BY DEF IInv, CapacityRespected
<1> QED BY <1>3, <1>4, ConstantsAssumption

LEMMA AskStep == ASSUME IInv, NEW t \in Tasks, Ask(t) PROVE IInv'
<1> DEFINE r == RunOf[t]
           reg == ReadyTable(r)
<1> USE ConstantsAssumption
<1>1. PICK c \in ControlFor(r, reg) :
        /\ registered' = [reg EXCEPT ![r] = c]
        /\ cancel' = [cancel EXCEPT ![c] = OpenCancel(r, reg, c)]
        /\ holds' = [holds EXCEPT ![c] = OpenHolds(r, reg, c)]
        /\ home' = [home EXCEPT ![t] = c]
  BY DEF Ask
<1>2. /\ status[t] = "none" /\ ControlReady(r) /\ ~BusyElsewhere(t)
      /\ status' = [status EXCEPT ![t] = "queued"]
      /\ pc' = [pc EXCEPT ![t] = "start"]
      /\ UNCHANGED <<kill, ctlOf, waking, stop>>
  BY DEF Ask
<1>3. reg \in [Runs -> Controls \cup {NoControl}] /\ c \in Controls /\ r \in Runs
  BY <1>1 DEF IInv, TypeOK, ReadyTable, CleanedNow, ControlFor, Garbage
<1>4. TypeOK'
  BY <1>1, <1>2, <1>3 DEF IInv, TypeOK, OpenCancel, OpenHolds, Status, Place, Unfinished, Pending
<1>5. StatusAgrees'
  BY <1>1, <1>2, <1>3 DEF IInv, TypeOK, StatusAgrees, Unfinished
<1>6. /\ \A q \in Runs : q # r => reg[q] = registered[q]
      /\ reg[r] # NoControl => reg = registered
      /\ reg[r] = NoControl =>
            \/ registered[r] = NoControl
            \/ Active(registered[r]) = {} /\ \A u \in TasksOf(r) : status[u] \notin Pending
  BY <1>3 DEF IInv, TypeOK, ReadyTable, CleanedNow, Idle
<1>7. /\ reg[r] # NoControl => c = registered[r]
      /\ \A q \in Runs : q # r => registered[q] # c
      /\ reg[r] = NoControl => c \in Garbage
  BY <1>1, <1>3, <1>6 DEF ControlFor, Garbage, IInv, OneControlPerRun
<1>8. \A u \in TasksOf(r) : pc[u] \in Unfinished => c = registered[r] /\ home[u] = c
  BY <1>6, <1>7 DEF IInv, ControlKept, Active, TasksOf
<1>9. ControlKept'
  <2> SUFFICES ASSUME NEW u \in Tasks, pc'[u] \in Unfinished
               PROVE  /\ home'[u] # NoControl
                      /\ registered'[RunOf[u]] = home'[u]
                      /\ pc'[u] # "start" => ctlOf'[u] = home'[u]
    BY DEF ControlKept
  <2>1. CASE u = t
    BY <2>1, <1>1, <1>2, <1>3 DEF IInv, TypeOK
  <2>2. CASE u # t /\ RunOf[u] = r
    BY <2>2, <1>1, <1>2, <1>3, <1>8 DEF IInv, TypeOK, ControlKept, TasksOf
  <2>3. CASE u # t /\ RunOf[u] # r
    BY <2>3, <1>1, <1>2, <1>3, <1>6 DEF IInv, TypeOK, ControlKept
  <2> QED BY <2>1, <2>2, <2>3
<1>10. OneControlPerRun'
  BY <1>1, <1>3, <1>6, <1>7 DEF IInv, TypeOK, OneControlPerRun
<1>11. StopAgrees'
  <2>1. CASE stop.phase = "idle"
    BY <2>1, <1>2 DEF IInv, StopAgrees, NoStop
  <2>2. CASE stop.phase # "idle"
    <3>1. stop.run # r
      BY <2>2, <1>2 DEF IInv, StopAgrees, ControlReady
    <3>2. stop.control # c
      BY <2>2, <3>1, <1>7 DEF IInv, StopAgrees, Garbage
    <3> QED BY <2>2, <3>1, <3>2, <1>1, <1>2, <1>3, <1>6 DEF IInv, TypeOK, StopAgrees, TasksOf
  <2> QED BY <2>1, <2>2
<1>12. CrossRunSlots'
  BY <1>2, <1>3 DEF IInv, TypeOK, CrossRunSlots, BusyElsewhere, Pending
<1>13. SameRunSlots'
  BY <1>2 DEF IInv, TypeOK, SameRunSlots
<1>14. OrphansCanBeStopped'
  <2> SUFFICES ASSUME NEW u \in Tasks, status'[u] \in Pending, pc'[u] \in {"done", "reaped"}
               PROVE \E d \in Controls : registered'[RunOf[u]] = d /\ cancel'[d]
    BY DEF OrphansCanBeStopped
  <2>1. u # t /\ status[u] \in Pending /\ pc[u] \in {"done", "reaped"}
    BY <1>2 DEF IInv, TypeOK, Pending
  <2>2. PICK d \in Controls : registered[RunOf[u]] = d /\ cancel[d]
    BY <2>1 DEF IInv, OrphansCanBeStopped
  <2>3. CASE RunOf[u] = r
    <3>1. reg = registered /\ c = d
      BY <2>1, <2>2, <2>3, <1>6, <1>7 DEF TasksOf
    <3> QED BY <2>2, <2>3, <3>1, <1>1, <1>3 DEF IInv, TypeOK, OpenCancel
  <2>4. CASE RunOf[u] # r
    BY <2>2, <2>4, <1>1, <1>3, <1>6, <1>7 DEF IInv, TypeOK
  <2> QED BY <2>3, <2>4
<1>15. CapacityRespected'
  BY <1>2, CapacityKept DEF IInv, TypeOK
<1> QED BY <1>4, <1>5, <1>9, <1>10, <1>11, <1>12, <1>13, <1>14, <1>15 DEF IInv

-----------------------------------------------------------------------------
(* Steps that end in a clean-up: they start nothing and change no status. *)

\* What _cleanup_cluster_run_control_if_idle leaves of the table.
Cleaned(r) ==
    \/ registered' = registered
    \/ /\ registered' = [registered EXCEPT ![r] = NoControl]
       /\ registered[r] \in Controls
       /\ holds'[registered[r]] = 0
       /\ \A u \in Tasks : ~(home'[u] = registered[r] /\ pc'[u] \in Unfinished)
       /\ \A u \in TasksOf(r) : status'[u] \notin Pending

LEMMA CleanupIsCleaned ==
    ASSUME NEW r \in Runs, CleanupIfIdle(r) PROVE Cleaned(r)
  BY DEF CleanupIfIdle, Idle, Active, Cleaned, TasksOf

LEMMA CleanedNowIsCleaned ==
    ASSUME NEW r \in Runs, registered' = CleanedNow(r), UNCHANGED <<status, pc, home, holds>>
    PROVE  Cleaned(r)
  BY DEF CleanedNow, Idle, Active, Cleaned, TasksOf

LEMMA CleanedKeeps ==
    ASSUME IInv, NEW r \in Runs, Cleaned(r), UNCHANGED <<status, cancel>>,
           \A u \in Tasks : pc'[u] \in Unfinished =>
               /\ pc'[u] = pc[u] /\ home'[u] = home[u] /\ ctlOf'[u] = ctlOf[u],
           \A u \in Tasks : pc'[u] \in {"done", "reaped"} => pc[u] \in {"done", "reaped"}
    PROVE  /\ ControlKept' /\ OneControlPerRun' /\ CrossRunSlots' /\ SameRunSlots'
           /\ OrphansCanBeStopped' /\ CapacityRespected'
<1> USE ConstantsAssumption
<1>1. ControlKept'
  BY DEF IInv, TypeOK, ControlKept, Cleaned
<1>2. OneControlPerRun'
  BY DEF IInv, TypeOK, OneControlPerRun, Cleaned
<1>3. CrossRunSlots' /\ SameRunSlots'
  BY DEF IInv, CrossRunSlots, SameRunSlots, Unfinished
<1>4. OrphansCanBeStopped'
  BY DEF IInv, TypeOK, OrphansCanBeStopped, Cleaned, TasksOf
<1>5. CapacityRespected'
  BY CapacityKept DEF Unfinished
<1> QED BY <1>1, <1>2, <1>3, <1>4, <1>5

\* While a stop goes on, the table keeps the control it holds.
LEMMA CleanedKeepsStop ==
    ASSUME IInv, NEW r \in Runs, Cleaned(r), UNCHANGED <<status, cancel, holds, stop>>,
           \A u \in Tasks : pc'[u] \in Unfinished => pc[u] \in Unfinished
    PROVE  StopAgrees'
<1>1. stop.phase # "idle" => registered'[stop.run] = registered[stop.run]
  BY DEF IInv, TypeOK, StopAgrees, Cleaned
<1> QED BY <1>1 DEF IInv, StopAgrees, TasksOf

LEMMA CleanedTyped ==
    ASSUME TypeOK, NEW r \in Runs, Cleaned(r)
    PROVE  registered' \in [Runs -> Controls \cup {NoControl}]
  BY DEF TypeOK, Cleaned

LEMMA AskRefusedStep == ASSUME IInv, NEW t \in Tasks, AskRefused(t) PROVE IInv'
<1> USE ConstantsAssumption
<1>1. Cleaned(RunOf[t])
  BY CleanedNowIsCleaned DEF AskRefused, ReadyTable, Cleaned
<1>2. TypeOK' /\ StatusAgrees'
  BY <1>1, CleanedTyped DEF AskRefused, IInv, TypeOK, StatusAgrees
<1>3. StopAgrees'
  BY <1>1, CleanedKeepsStop DEF AskRefused
<1> QED BY <1>1, <1>2, <1>3, CleanedKeeps DEF AskRefused, IInv

LEMMA RunCleanupStep == ASSUME IInv, NEW r \in Runs, RunCleanup(r) PROVE IInv'
<1>1. Cleaned(r)
  BY CleanedNowIsCleaned DEF RunCleanup
<1>2. TypeOK' /\ StatusAgrees'
  BY <1>1, CleanedTyped DEF RunCleanup, IInv, TypeOK, StatusAgrees
<1>3. StopAgrees'
  BY <1>1, CleanedKeepsStop DEF RunCleanup
<1> QED BY <1>1, <1>2, <1>3, CleanedKeeps DEF RunCleanup, IInv

LEMMA WakeupEndsStep == ASSUME IInv, NEW r \in Runs, WakeupEnds(r) PROVE IInv'
<1>1. Cleaned(r)
  BY CleanupIsCleaned DEF WakeupEnds
<1>2. TypeOK' /\ StatusAgrees'
  BY <1>1, CleanedTyped DEF WakeupEnds, IInv, TypeOK, StatusAgrees
<1>3. StopAgrees'
  BY <1>1, CleanedKeepsStop DEF WakeupEnds
<1> QED BY <1>1, <1>2, <1>3, CleanedKeeps DEF WakeupEnds, IInv

LEMMA ReapStep == ASSUME IInv, NEW t \in Tasks, Reap(t) PROVE IInv'
<1> USE ConstantsAssumption
<1>1. Cleaned(RunOf[t])
  BY CleanupIsCleaned DEF Reap
<1>2. TypeOK' /\ StatusAgrees'
  BY <1>1, CleanedTyped DEF Reap, IInv, TypeOK, StatusAgrees, Place, Unfinished
<1>3. \A u \in Tasks : pc'[u] \in Unfinished =>
          pc'[u] = pc[u] /\ home'[u] = home[u] /\ ctlOf'[u] = ctlOf[u]
  BY DEF Reap, IInv, TypeOK, Unfinished
<1>4. StopAgrees'
  BY <1>1, <1>3, CleanedKeepsStop DEF Reap
<1>5. \A u \in Tasks : pc'[u] \in {"done", "reaped"} => pc[u] \in {"done", "reaped"}
  BY DEF Reap, IInv, TypeOK
<1> QED BY <1>1, <1>2, <1>3, <1>4, <1>5, CleanedKeeps DEF Reap, IInv

\* The two ways a stop is over.
LEMMA ReleaseStep ==
    ASSUME IInv, stop.phase # "idle", ReleaseHold, CleanupIfIdle(stop.run),
           UNCHANGED <<status, pc, kill, home, ctlOf, cancel, waking>>
    PROVE  IInv'
<1>1. stop.run \in Runs /\ stop.control \in Controls /\ holds[stop.control] \in Nat \ {0}
  BY DEF IInv, TypeOK, StopAgrees
<1>2. Cleaned(stop.run)
  BY <1>1, CleanupIsCleaned
<1>3. TypeOK'
  BY <1>1, <1>2, CleanedTyped DEF ReleaseHold, NoStop, IInv, TypeOK
<1>4. StatusAgrees' /\ StopAgrees'
  BY DEF ReleaseHold, NoStop, IInv, StatusAgrees, StopAgrees
<1> QED BY <1>1, <1>2, <1>3, <1>4, CleanedKeeps DEF IInv

-----------------------------------------------------------------------------
(* The steps of a coroutine. *)

LEMMA BeginStep == ASSUME IInv, NEW t \in Tasks, Begin(t) PROVE IInv'
<1> USE ConstantsAssumption
<1>1. /\ registered[RunOf[t]] = home[t] /\ home[t] \in Controls
      /\ pc[t] = "start" /\ ~kill[t]
  BY DEF Begin, IInv, TypeOK, ControlKept, Unfinished
<1>2. /\ ctlOf' = [ctlOf EXCEPT ![t] = home[t]]
      /\ registered' = registered /\ cancel' = cancel /\ holds' = holds
      /\ pc' = [pc EXCEPT ![t] = "sem"]
      /\ UNCHANGED <<status, kill, home, waking, stop>>
  <2>1. registered[RunOf[t]] # NoControl /\ RunOf[t] \in Runs
    BY <1>1
  <2>2. /\ ControlFor(RunOf[t], registered) = {home[t]}
        /\ OpenCancel(RunOf[t], registered, home[t]) = cancel[home[t]]
        /\ OpenHolds(RunOf[t], registered, home[t]) = holds[home[t]]
    BY <1>1, <2>1 DEF ControlFor, OpenCancel, OpenHolds
  <2>3. /\ ctlOf' = [ctlOf EXCEPT ![t] = home[t]]
        /\ registered' = [registered EXCEPT ![RunOf[t]] = home[t]]
        /\ cancel' = [cancel EXCEPT ![home[t]] = cancel[home[t]]]
        /\ holds' = [holds EXCEPT ![home[t]] = holds[home[t]]]
    BY <2>2 DEF Begin
  <2>4. registered' = registered /\ cancel' = cancel /\ holds' = holds
    BY <1>1, <2>1, <2>3 DEF IInv, TypeOK
  <2> QED BY <2>3, <2>4 DEF Begin
<1>3. TypeOK' /\ StatusAgrees' /\ ControlKept'
  BY <1>1, <1>2 DEF IInv, TypeOK, StatusAgrees, ControlKept, Place, Unfinished
<1>4. OneControlPerRun' /\ CrossRunSlots' /\ SameRunSlots' /\ OrphansCanBeStopped'
  BY <1>1, <1>2 DEF IInv, TypeOK, OneControlPerRun, CrossRunSlots, SameRunSlots,
                    OrphansCanBeStopped
<1>5. StopAgrees'
  BY <1>1, <1>2 DEF IInv, TypeOK, StopAgrees, TasksOf, Unfinished
<1>6. CapacityRespected'
  BY <1>2, CapacityKept DEF IInv, TypeOK
<1> QED BY <1>3, <1>4, <1>5, <1>6 DEF IInv

LEMMA TakePermitStep == ASSUME IInv, NEW t \in Tasks, TakePermit(t) PROVE IInv'
<1> USE ConstantsAssumption
<1>1. TypeOK' /\ StatusAgrees' /\ ControlKept'
  BY DEF TakePermit, IInv, TypeOK, StatusAgrees, ControlKept, Place, Unfinished
<1>2. OneControlPerRun' /\ CrossRunSlots' /\ SameRunSlots' /\ OrphansCanBeStopped'
  BY DEF TakePermit, IInv, TypeOK, OneControlPerRun, CrossRunSlots, SameRunSlots,
         OrphansCanBeStopped
<1>3. StopAgrees'
  BY DEF TakePermit, IInv, TypeOK, StopAgrees, TasksOf, Unfinished
<1>4. CapacityRespected'
  <2> SUFFICES ASSUME NEW r \in Runs
               PROVE Cardinality({u \in TasksOf(r) : pc'[u] \in {"lock", "stream"}}) <= Capacity
    BY DEF CapacityRespected, TasksOf
  <2> DEFINE Before == {u \in TasksOf(r) : pc[u] \in {"lock", "stream"}}
             After  == {u \in TasksOf(r) : pc'[u] \in {"lock", "stream"}}
  <2>1. CASE RunOf[t] # r
    <3>1. After = Before
      BY <2>1 DEF TakePermit, IInv, TypeOK, TasksOf
    <3> QED BY <3>1 DEF IInv, CapacityRespected
  <2>2. CASE RunOf[t] = r
    <3>1. Before \subseteq Permits(ctlOf[t])
      BY <2>2 DEF TakePermit, IInv, TypeOK, ControlKept, TasksOf, Permits, Unfinished
    <3>2. After \subseteq Permits(ctlOf[t]) \cup {t}
      BY <3>1 DEF TakePermit, IInv, TypeOK, TasksOf
    <3>3. IsFiniteSet(Permits(ctlOf[t]))
      BY FS_Subset, Permits(ctlOf[t]) \subseteq Tasks DEF Permits
    <3>4. /\ IsFiniteSet(Permits(ctlOf[t]) \cup {t})
          /\ Cardinality(Permits(ctlOf[t]) \cup {t}) <= Cardinality(Permits(ctlOf[t])) + 1
      <4>1. t \notin Permits(ctlOf[t])
        BY DEF TakePermit, Permits
      <4>2. Cardinality(Permits(ctlOf[t]) \cup {t}) = Cardinality(Permits(ctlOf[t])) + 1
        BY <3>3, <4>1, FS_AddElement
      <4>3. Cardinality(Permits(ctlOf[t])) \in Nat
        BY <3>3, FS_CardinalityType
      <4> QED BY <3>3, <4>2, <4>3, FS_AddElement
    <3>5. Cardinality(After) <= Cardinality(Permits(ctlOf[t]) \cup {t})
      BY <3>2, <3>4, FS_Subset
    <3>6. Cardinality(Permits(ctlOf[t])) < Capacity
      BY DEF TakePermit
    <3>7. /\ Cardinality(After) \in Nat /\ Cardinality(Permits(ctlOf[t])) \in Nat
          /\ Cardinality(Permits(ctlOf[t]) \cup {t}) \in Nat
      BY <3>2, <3>3, <3>4, FS_Subset, FS_CardinalityType
    <3> QED BY <3>4, <3>5, <3>6, <3>7
  <2> QED BY <2>1, <2>2
<1> QED BY <1>1, <1>2, <1>3, <1>4 DEF IInv

\* Leaving the coroutine without touching the status.
LEMMA LeaveStep ==
    ASSUME IInv, NEW t \in Tasks, pc[t] \in Unfinished, pc' = [pc EXCEPT ![t] = "done"],
           status[t] \in Pending => ctlOf[t] \in Controls /\ ctlOf[t] = home[t] /\ cancel[ctlOf[t]],
           UNCHANGED <<status, kill, home, ctlOf, registered, cancel, holds, waking, stop>>
    PROVE  IInv'
<1> USE ConstantsAssumption
<1>1. TypeOK' /\ StatusAgrees' /\ ControlKept'
  BY DEF IInv, TypeOK, StatusAgrees, ControlKept, Place, Unfinished
<1>2. OneControlPerRun' /\ CrossRunSlots' /\ SameRunSlots'
  BY DEF IInv, TypeOK, OneControlPerRun, CrossRunSlots, SameRunSlots
<1>3. OrphansCanBeStopped'
  BY DEF IInv, TypeOK, OrphansCanBeStopped, ControlKept
<1>4. StopAgrees'
  BY DEF IInv, TypeOK, StopAgrees, TasksOf, Unfinished
<1>5. CapacityRespected'
  BY CapacityKept DEF IInv, TypeOK
<1> QED BY <1>1, <1>2, <1>3, <1>4, <1>5 DEF IInv

LEMMA EnterCancelledStep == ASSUME IInv, NEW t \in Tasks, EnterCancelled(t) PROVE IInv'
<1>1. pc[t] = "lock" /\ ctlOf[t] = home[t] /\ home[t] \in Controls
  BY DEF EnterCancelled, GotLock, IInv, TypeOK, ControlKept, Unfinished
<1>2. status[t] \in Pending => cancel[ctlOf[t]]
  BY <1>1 DEF EnterCancelled, IsCancelled, IInv, StatusAgrees, Pending
<1> QED BY <1>1, <1>2, LeaveStep DEF EnterCancelled, Unfinished

LEMMA StreamSeesCancelStep == ASSUME IInv, NEW t \in Tasks, StreamSeesCancel(t) PROVE IInv'
<1>1. pc[t] = "stream" /\ ctlOf[t] = home[t] /\ home[t] \in Controls
  BY DEF StreamSeesCancel, IInv, TypeOK, ControlKept, Unfinished
<1>2. status[t] \in Pending => cancel[ctlOf[t]]
  BY <1>1 DEF StreamSeesCancel, IsCancelled, Pending
<1> QED BY <1>1, <1>2, LeaveStep DEF StreamSeesCancel, Unfinished

LEMMA UnwindStep == ASSUME IInv, NEW t \in Tasks, Unwind(t) PROVE IInv'
<1>1. status[t] \notin Pending
  BY DEF Unwind, IInv, StatusAgrees, Pending
<1> QED BY <1>1, LeaveStep DEF Unwind

LEMMA EnterStreamStep == ASSUME IInv, NEW t \in Tasks, EnterStream(t) PROVE IInv'
<1> USE ConstantsAssumption
<1>1. TypeOK' /\ StatusAgrees' /\ ControlKept'
  BY DEF EnterStream, GotLock, IsCancelled, IInv, TypeOK, StatusAgrees, ControlKept,
         Status, Pending, Place, Unfinished
<1>2. OneControlPerRun' /\ CrossRunSlots' /\ OrphansCanBeStopped'
  BY DEF EnterStream, GotLock, IInv, TypeOK, OneControlPerRun, CrossRunSlots,
         OrphansCanBeStopped, Pending
<1>3. SameRunSlots'
  <2>1. \A u \in Tasks : u # t /\ AgentOf[u] = AgentOf[t] /\ RunOf[u] = RunOf[t] => pc[u] # "stream"
    BY DEF EnterStream, GotLock, AgentLocked, IInv, TypeOK, ControlKept, Unfinished
  <2> QED BY <2>1 DEF EnterStream, IInv, TypeOK, SameRunSlots
<1>4. StopAgrees'
  BY DEF EnterStream, GotLock, IInv, TypeOK, StopAgrees, TasksOf, Unfinished, Pending
<1>5. CapacityRespected'
  BY CapacityKept DEF EnterStream, GotLock, IInv, TypeOK
<1> QED BY <1>1, <1>2, <1>3, <1>4, <1>5 DEF IInv

LEMMA FinishStep ==
    ASSUME IInv, NEW t \in Tasks, NEW outcome \in {"completed", "failed"},
           pc[t] \in {"lock", "stream"}, ~kill[t], Finish(t, outcome)
    PROVE  IInv'
<1> USE ConstantsAssumption
<1>1. TypeOK'
  <2>1. waking' \in [Runs -> BOOLEAN]
    <3>1. PICK w \in {waking[RunOf[t]], TRUE} : waking' = [waking EXCEPT ![RunOf[t]] = w]
      BY DEF Finish
    <3>2. w \in BOOLEAN
      BY <3>1 DEF IInv, TypeOK
    <3> QED BY <3>1, <3>2 DEF IInv, TypeOK
  <2>2. status' \in [Tasks -> Status] /\ pc' \in [Tasks -> Place]
    BY DEF Finish, IInv, TypeOK, Status, Terminal, Place
  <2> QED BY <2>1, <2>2 DEF Finish, IInv, TypeOK
<1>2. StatusAgrees' /\ ControlKept'
  BY DEF Finish, IInv, TypeOK, StatusAgrees, ControlKept, Unfinished
<1>3. OneControlPerRun' /\ CrossRunSlots' /\ SameRunSlots' /\ OrphansCanBeStopped'
  BY DEF Finish, IInv, TypeOK, OneControlPerRun, CrossRunSlots, SameRunSlots,
         OrphansCanBeStopped, Pending
<1>4. StopAgrees'
  BY DEF Finish, IInv, TypeOK, StopAgrees, TasksOf, Unfinished, Pending
<1>5. CapacityRespected'
  BY CapacityKept DEF Finish, IInv, TypeOK
<1> QED BY <1>1, <1>2, <1>3, <1>4, <1>5 DEF IInv

-----------------------------------------------------------------------------
(* The steps of a stop. *)

LEMMA StopRequestStep == ASSUME IInv, NEW r \in Runs, StopRequest(r) PROVE IInv'
<1> USE ConstantsAssumption
<1>1. PICK main \in BOOLEAN, c \in ControlFor(r, registered) :
        /\ registered' = [registered EXCEPT ![r] = c]
        /\ cancel' = [cancel EXCEPT ![c] = TRUE]
        /\ holds' = [holds EXCEPT ![c] = HoldTaken(r, c)]
        /\ stop' = [phase |-> "abort", run |-> r, control |-> c,
                    main |-> main, waits |-> {}]
  BY DEF StopRequest
<1>2. /\ stop.phase = "idle"
      /\ UNCHANGED <<status, pc, kill, home, ctlOf, waking>>
  BY DEF StopRequest
<1>3. c \in Controls /\ HoldTaken(r, c) \in Nat \ {0}
  BY <1>1 DEF ControlFor, Garbage, HoldTaken, OpenHolds, IInv, TypeOK
<1>4. TypeOK'
  BY <1>1, <1>2, <1>3 DEF IInv, TypeOK
<1>5. /\ registered[r] # NoControl => c = registered[r]
      /\ \A q \in Runs : q # r => registered[q] # c
  BY <1>1, <1>3 DEF ControlFor, Garbage, IInv, TypeOK, OneControlPerRun
<1>6. StatusAgrees' /\ CrossRunSlots' /\ SameRunSlots'
  BY <1>2 DEF IInv, StatusAgrees, CrossRunSlots, SameRunSlots
<1>7. ControlKept' /\ OneControlPerRun' /\ OrphansCanBeStopped'
  BY <1>1, <1>2, <1>3, <1>5 DEF IInv, TypeOK, ControlKept, OneControlPerRun,
                              OrphansCanBeStopped
<1>8. StopAgrees'
  BY <1>1, <1>2, <1>3 DEF IInv, TypeOK, StopAgrees
<1>9. CapacityRespected'
  BY <1>2, CapacityKept
<1> QED BY <1>4, <1>6, <1>7, <1>8, <1>9 DEF IInv

\* Cancelling a run's tasks: its live coroutines are exactly the active ones of
\* its registered control.
LEMMA CancelStep ==
    ASSUME IInv, NEW r \in Runs, NEW members \in SUBSET Tasks, CancelTasks(r, members),
           \A t \in members : pc[t] \in Unfinished /\ RunOf[t] = r,
           \A t \in TasksOf(r) : pc[t] \in Unfinished => t \in members,
           \A c \in Controls : cancel[c] => cancel'[c],
           UNCHANGED <<pc, home, ctlOf, registered>>
    PROVE  /\ status' \in [Tasks -> Status] /\ kill' \in [Tasks -> BOOLEAN]
           /\ waking' \in [Runs -> BOOLEAN]
           /\ StatusAgrees' /\ ControlKept' /\ OneControlPerRun'
           /\ CrossRunSlots' /\ SameRunSlots' /\ OrphansCanBeStopped' /\ CapacityRespected'
           /\ \A t \in TasksOf(r) : status'[t] \notin Pending
           /\ \A t \in Tasks : status'[t] \in Pending => status[t] \in Pending
<1> USE ConstantsAssumption
<1>1. /\ status' \in [Tasks -> Status] /\ kill' \in [Tasks -> BOOLEAN]
      /\ waking' \in [Runs -> BOOLEAN]
  BY DEF CancelTasks, IInv, TypeOK, Status, Terminal
<1>2. StatusAgrees'
  <2> SUFFICES ASSUME NEW t \in Tasks
               PROVE  /\ pc[t] = "none" <=> status'[t] = "none"
                      /\ pc[t] \in {"start", "sem", "lock"} => status'[t] \in {"queued", "cancelled"}
                      /\ pc[t] = "stream" => status'[t] \in {"running", "cancelled"}
                      /\ kill'[t] => status'[t] = "cancelled"
                      /\ pc[t] \in Unfinished /\ status'[t] = "cancelled" => kill'[t]
    BY DEF StatusAgrees
  <2>1. CASE t \in TasksOf(r)
    BY <2>1 DEF CancelTasks, Cancellable, IInv, StatusAgrees, Pending, Unfinished, TasksOf
  <2>2. CASE t \notin TasksOf(r)
    <3>1. status'[t] = status[t] /\ (kill'[t] <=> kill[t])
      BY <2>2 DEF CancelTasks, TasksOf
    <3> QED BY <3>1 DEF IInv, StatusAgrees
  <2> QED BY <2>1, <2>2
<1>3. ControlKept' /\ OneControlPerRun' /\ SameRunSlots'
  BY DEF IInv, ControlKept, OneControlPerRun, SameRunSlots
<1>4. /\ \A t \in TasksOf(r) : status'[t] \notin Pending
      /\ \A t \in Tasks : status'[t] \in Pending => status[t] \in Pending
  BY DEF CancelTasks, Cancellable, TasksOf, Pending
<1>5. CrossRunSlots' /\ OrphansCanBeStopped'
  BY <1>4 DEF IInv, CrossRunSlots, OrphansCanBeStopped
<1>6. CapacityRespected'
  BY CapacityKept
<1> QED BY <1>1, <1>2, <1>3, <1>4, <1>5, <1>6

LEMMA StopCancelsStep == ASSUME IInv, StopCancels PROVE IInv'
<1> USE ConstantsAssumption
<1> DEFINE r == stop.run
           members == Active(stop.control)
<1>1. r \in Runs /\ stop.control \in Controls /\ registered[r] = stop.control
  BY DEF StopCancels, IInv, StopAgrees
<1>2. /\ members \in SUBSET Tasks
      /\ \A t \in members : pc[t] \in Unfinished /\ RunOf[t] = r
      /\ \A t \in TasksOf(r) : pc[t] \in Unfinished => t \in members
  BY <1>1 DEF Active, IInv, TypeOK, ControlKept, OneControlPerRun, TasksOf
<1>3. /\ status' \in [Tasks -> Status] /\ kill' \in [Tasks -> BOOLEAN]
      /\ waking' \in [Runs -> BOOLEAN]
      /\ StatusAgrees' /\ ControlKept' /\ OneControlPerRun'
      /\ CrossRunSlots' /\ SameRunSlots' /\ OrphansCanBeStopped' /\ CapacityRespected'
      /\ \A t \in TasksOf(r) : status'[t] \notin Pending
  BY <1>1, <1>2, CancelStep DEF StopCancels
<1>4. stop' \in [phase : {"idle", "abort", "gather"}, run : Runs \cup {NoRun},
                 control : Controls \cup {NoControl}, main : BOOLEAN, waits : SUBSET Tasks]
  BY <1>2 DEF StopCancels, IInv, TypeOK
<1>5. TypeOK'
  BY <1>3, <1>4 DEF StopCancels, IInv, TypeOK
<1>6. StopAgrees'
  BY <1>1, <1>2, <1>3 DEF StopCancels, IInv, TypeOK, StopAgrees, TasksOf
<1> QED BY <1>3, <1>5, <1>6 DEF IInv

LEMMA MigrationCancelsStep == ASSUME IInv, NEW r \in Runs, MigrationCancels(r) PROVE IInv'
<1> USE ConstantsAssumption
<1> DEFINE members == UNION {Active(c) : c \in {registered[r]} \ {NoControl}}
<1>1. /\ members \in SUBSET Tasks
      /\ \A t \in members : pc[t] \in Unfinished /\ RunOf[t] = r
      /\ \A t \in TasksOf(r) : pc[t] \in Unfinished => t \in members
  BY DEF Active, IInv, TypeOK, ControlKept, OneControlPerRun, TasksOf
<1>2. cancel' \in [Controls -> BOOLEAN] /\ \A c \in Controls : cancel[c] => cancel'[c]
  BY DEF MigrationCancels, IInv, TypeOK
<1>3. /\ status' \in [Tasks -> Status] /\ kill' \in [Tasks -> BOOLEAN]
      /\ waking' \in [Runs -> BOOLEAN]
      /\ StatusAgrees' /\ ControlKept' /\ OneControlPerRun'
      /\ CrossRunSlots' /\ SameRunSlots' /\ OrphansCanBeStopped' /\ CapacityRespected'
      /\ \A t \in Tasks : status'[t] \in Pending => status[t] \in Pending
  BY <1>1, <1>2, CancelStep DEF MigrationCancels
<1>4. TypeOK'
  BY <1>2, <1>3 DEF MigrationCancels, IInv, TypeOK
<1>5. StopAgrees'
  BY <1>2, <1>3 DEF MigrationCancels, IInv, StopAgrees, TasksOf
<1> QED BY <1>3, <1>4, <1>5 DEF IInv

-----------------------------------------------------------------------------
(* The invariant and what follows from it. *)

LEMMA NextIInv == IInv /\ [Next]_vars => IInv'
<1> SUFFICES ASSUME IInv, [Next]_vars PROVE IInv'
  OBVIOUS
<1>1. CASE UNCHANGED vars
  <2>1. TypeOK' /\ StatusAgrees' /\ ControlKept' /\ OneControlPerRun' /\ StopAgrees'
    BY <1>1 DEF vars, IInv, TypeOK, StatusAgrees, ControlKept, OneControlPerRun, StopAgrees
  <2>2. CrossRunSlots' /\ SameRunSlots' /\ OrphansCanBeStopped'
    BY <1>1 DEF vars, IInv, CrossRunSlots, SameRunSlots, OrphansCanBeStopped
  <2>3. CapacityRespected'
    BY <1>1, CapacityKept DEF vars
  <2> QED BY <2>1, <2>2, <2>3 DEF IInv
<1>2. CASE \E t \in Tasks : \/ Ask(t) \/ AskRefused(t)
                            \/ Begin(t) \/ TakePermit(t) \/ Enter(t) \/ Stream(t)
                            \/ Unwind(t) \/ Reap(t)
  <2> PICK t \in Tasks : \/ Ask(t) \/ AskRefused(t)
                         \/ Begin(t) \/ TakePermit(t) \/ Enter(t) \/ Stream(t)
                         \/ Unwind(t) \/ Reap(t)
    BY <1>2
  <2>1. CASE Ask(t) \/ AskRefused(t)
    BY <2>1, AskStep, AskRefusedStep
  <2>2. CASE Begin(t) \/ TakePermit(t)
    BY <2>2, BeginStep, TakePermitStep
  <2>3. CASE EnterCancelled(t) \/ EnterStream(t)
    BY <2>3, EnterCancelledStep, EnterStreamStep
  <2>4. CASE EnterFails(t)
    BY <2>4, FinishStep DEF EnterFails, GotLock
  <2>5. CASE StreamEnds(t)
    BY <2>5, FinishStep DEF StreamEnds
  <2>6. CASE StreamSeesCancel(t)
    BY <2>6, StreamSeesCancelStep
  <2>7. CASE Unwind(t) \/ Reap(t)
    BY <2>7, UnwindStep, ReapStep
  <2> QED BY <2>1, <2>2, <2>3, <2>4, <2>5, <2>6, <2>7 DEF Enter, Stream
<1>3. CASE \E r \in Runs : \/ StopRequest(r) \/ MigrationCancels(r)
                           \/ RunCleanup(r) \/ WakeupEnds(r)
  BY <1>3, StopRequestStep, MigrationCancelsStep, RunCleanupStep, WakeupEndsStep
<1>4. CASE StopStep
  <2>1. CASE StopCancels
    BY <2>1, StopCancelsStep
  <2>2. CASE StopEnds
    BY <2>2, ReleaseStep DEF StopEnds
  <2>3. CASE StopFails
    BY <2>3, ReleaseStep DEF StopFails
  <2> QED BY <1>4, <2>1, <2>2, <2>3 DEF StopStep
<1> QED BY <1>1, <1>2, <1>3, <1>4 DEF Next

\* The inductive invariant holds throughout.
THEOREM Invariance == Spec => []IInv
  BY InitIInv, NextIInv, PTL DEF Spec

\* Type correctness of the component's state.
THEOREM TypeCorrect == Spec => []TypeOK
<1>1. IInv => TypeOK
  BY DEF IInv
<1> QED BY Invariance, <1>1, PTL

\* A child slot never streams two tasks that are not being torn down.
THEOREM SlotExclusion == Spec => []SlotExclusive
<1>1. IInv => SlotExclusive
  <2> SUFFICES ASSUME IInv, NEW t \in Tasks, NEW u \in Tasks, t # u,
                      AgentOf[t] = AgentOf[u], pc[t] = "stream", pc[u] = "stream",
                      ~kill[t], ~kill[u]
               PROVE FALSE
    BY DEF SlotExclusive
  <2>1. status[t] = "running" /\ status[u] = "running"
    BY DEF IInv, StatusAgrees, Unfinished
  <2>2. RunOf[t] = RunOf[u]
    BY <2>1 DEF IInv, CrossRunSlots, Pending
  <2> QED BY <2>2 DEF IInv, SameRunSlots
<1> QED BY Invariance, <1>1, PTL

\* A live child coroutine is always registered under the control of its run.
THEOREM ControlStays == Spec => []ControlKept
<1>1. IInv => ControlKept
  BY DEF IInv
<1> QED BY Invariance, <1>1, PTL

\* No run holds more permits than max_parallel_agents.
THEOREM CapacityIsRespected == Spec => []CapacityRespected
<1>1. IInv => CapacityRespected
  BY DEF IInv
<1> QED BY Invariance, <1>1, PTL

\* A task abandoned by its coroutine stays within reach of the next stop.
THEOREM OrphansStayReachable == Spec => []OrphansCanBeStopped
<1>1. IInv => OrphansCanBeStopped
  BY DEF IInv
<1> QED BY Invariance, <1>1, PTL

\* Between a stop request and its end no task is added to the stopped run.
THEOREM StopKeepsAsksOut == Spec => NoAskWhileStopping
<1>1. IInv /\ [Next]_vars =>
        [\A t \in Tasks : stop.phase # "idle" /\ RunOf[t] = stop.run /\ status[t] = "none"
            => status'[t] = "none"]_vars
  <2> SUFFICES ASSUME IInv, Next, NEW t \in Tasks, stop.phase # "idle",
                      RunOf[t] = stop.run, status[t] = "none"
               PROVE status'[t] = "none"
    BY DEF vars
  <2>1. pc[t] = "none"
    BY DEF IInv, StatusAgrees
  <2>2. ~Ask(t)
    BY DEF Ask, ControlReady, IInv, StopAgrees
  <2>3. ASSUME NEW u \in Tasks,
               \/ Ask(u) \/ AskRefused(u) \/ Begin(u) \/ TakePermit(u) \/ Enter(u)
               \/ Stream(u) \/ Unwind(u) \/ Reap(u)
        PROVE status'[t] = "none"
    <3>1. CASE Ask(u)
      BY <2>2, <3>1 DEF Ask, IInv, TypeOK
    <3>2. CASE Enter(u) \/ Stream(u)
      BY <2>1, <3>2 DEF Enter, Stream, EnterCancelled, EnterStream, EnterFails, StreamEnds,
                        StreamSeesCancel, Finish, GotLock, IInv, TypeOK
    <3>3. CASE AskRefused(u) \/ Begin(u) \/ TakePermit(u) \/ Unwind(u) \/ Reap(u)
      BY <3>3 DEF AskRefused, Begin, TakePermit, Unwind, Reap
    <3> QED BY <2>3, <3>1, <3>2, <3>3
  <2>4. ASSUME NEW r \in Runs,
               StopRequest(r) \/ MigrationCancels(r) \/ RunCleanup(r) \/ WakeupEnds(r)
        PROVE status'[t] = "none"
    BY <2>4 DEF StopRequest, MigrationCancels, CancelTasks, Cancellable, Pending,
                RunCleanup, WakeupEnds
  <2>5. StopStep => status'[t] = "none"
    BY DEF StopStep, StopCancels, CancelTasks, Cancellable, Pending, StopEnds, StopFails
  <2> QED BY <2>3, <2>4, <2>5 DEF Next
<1> QED BY Invariance, <1>1, PTL DEF Spec, NoAskWhileStopping

\* When a stop ends, its run has neither a pending task nor a live coroutine.
THEOREM StopLeavesNothing == Spec => StopDrains
<1>1. IInv /\ [Next]_vars =>
        [stop.phase = "gather" /\ stop'.phase = "idle" =>
            \A t \in TasksOf(stop.run) :
                status'[t] \notin Pending /\ pc'[t] \notin Unfinished]_vars
  <2> SUFFICES ASSUME IInv, Next, stop.phase = "gather", stop'.phase = "idle",
                      NEW t \in TasksOf(stop.run)
               PROVE status'[t] \notin Pending /\ pc'[t] \notin Unfinished
    BY DEF vars
  <2>1. StopEnds
    <3>1. stop' # stop
      OBVIOUS
    <3>2. \A u \in Tasks : ~(\/ Ask(u) \/ AskRefused(u) \/ Begin(u) \/ TakePermit(u)
                             \/ Enter(u) \/ Stream(u) \/ Unwind(u) \/ Reap(u))
      BY <3>1 DEF Ask, AskRefused, Begin, TakePermit, Enter, Stream, EnterCancelled, EnterStream,
                  EnterFails, StreamEnds, StreamSeesCancel, Finish, Unwind, Reap
    <3>3. \A r \in Runs : ~(\/ StopRequest(r) \/ MigrationCancels(r)
                            \/ RunCleanup(r) \/ WakeupEnds(r))
      BY <3>1 DEF StopRequest, MigrationCancels, RunCleanup, WakeupEnds
    <3> QED BY <3>2, <3>3 DEF Next, StopStep, StopCancels, StopFails
  <2> QED BY <2>1 DEF StopEnds, Drained, IInv, StopAgrees, TasksOf
<1> QED BY Invariance, <1>1, PTL DEF Spec, StopDrains

\* A terminal status never changes.
THEOREM ResultsAreFinal == Spec => TerminalIsFinal
<1>1. IInv /\ [Next]_vars =>
        [\A t \in Tasks : status[t] \in Terminal => status'[t] = status[t]]_vars
  <2> SUFFICES ASSUME IInv, Next, NEW t \in Tasks, status[t] \in Terminal
               PROVE status'[t] = status[t]
    BY DEF vars
  <2>1. ASSUME NEW u \in Tasks,
               \/ Ask(u) \/ AskRefused(u) \/ Begin(u) \/ TakePermit(u) \/ Enter(u)
               \/ Stream(u) \/ Unwind(u) \/ Reap(u)
        PROVE status'[t] = status[t]
    <3>1. CASE Ask(u)
      BY <3>1 DEF Ask, IInv, TypeOK, Terminal
    <3>2. CASE EnterStream(u) \/ EnterFails(u)
      BY <3>2 DEF EnterStream, EnterFails, Finish, IInv, TypeOK, Terminal
    <3>3. CASE StreamEnds(u)
      BY <3>3 DEF StreamEnds, IsCancelled, Finish, IInv, TypeOK, StatusAgrees, Terminal
    <3>4. CASE EnterCancelled(u) \/ StreamSeesCancel(u)
      BY <3>4 DEF EnterCancelled, StreamSeesCancel
    <3>5. CASE AskRefused(u) \/ Begin(u) \/ TakePermit(u) \/ Unwind(u) \/ Reap(u)
      BY <3>5 DEF AskRefused, Begin, TakePermit, Unwind, Reap
    <3> QED BY <2>1, <3>1, <3>2, <3>3, <3>4, <3>5 DEF Enter, Stream
  <2>2. ASSUME NEW r \in Runs,
               StopRequest(r) \/ MigrationCancels(r) \/ RunCleanup(r) \/ WakeupEnds(r)
        PROVE status'[t] = status[t]
    BY <2>2 DEF StopRequest, MigrationCancels, CancelTasks, Cancellable, Pending, Terminal,
                RunCleanup, WakeupEnds
  <2>3. StopStep => status'[t] = status[t]
    BY DEF StopStep, StopCancels, CancelTasks, Cancellable, Pending, Terminal, StopEnds, StopFails
  <2> QED BY <2>1, <2>2, <2>3 DEF Next
<1> QED BY Invariance, <1>1, PTL DEF Spec, TerminalIsFinal

-----------------------------------------------------------------------------
(* The life of the tasks (TaskLife). *)

lifeNow == [t \in Tasks |-> LifeOf(status[t])]
stoppingNow == [r \in Runs |-> StopOf(r)]

\* A step that moves neither is a stutter of TaskLife.
LEMMA LifeStutters ==
    ASSUME \A t \in Tasks : LifeOf(status'[t]) = LifeOf(status[t]), UNCHANGED stop
    PROVE  UNCHANGED <<lifeNow, stoppingNow>>
  BY DEF lifeNow, stoppingNow, StopOf

\* Nothing stops a run whose control lets a new task in.
LEMMA ReadyIsUnstopped ==
    ASSUME IInv, NEW r \in Runs, ControlReady(r) PROVE StopOf(r) = "no"
<1>1. stop.phase = "idle" => stop.run # r
  BY ConstantsAssumption DEF IInv, StopAgrees, NoStop
<1>2. stop.phase # "idle" => stop.run # r
  BY DEF IInv, StopAgrees, ControlReady
<1> QED BY <1>1, <1>2 DEF StopOf

\* A coroutine that holds a permit and does not see a cancellation belongs to a
\* run nothing stops.
LEMMA UncancelledIsUnstopped ==
    ASSUME IInv, NEW t \in Tasks, pc[t] \in {"lock", "stream"}, ~IsCancelled(t)
    PROVE  StopOf(RunOf[t]) = "no" /\ status[t] \in Pending
<1>1. /\ ctlOf[t] = home[t] /\ registered[RunOf[t]] = home[t] /\ home[t] # NoControl
      /\ RunOf[t] \in Runs
  BY ConstantsAssumption DEF IInv, ControlKept, Unfinished
<1>2. stop.run # RunOf[t]
  <2>1. CASE stop.phase = "idle"
    BY <2>1, <1>1, ConstantsAssumption DEF IInv, StopAgrees, NoStop
  <2>2. CASE stop.phase # "idle"
    BY <2>2, <1>1 DEF IInv, StopAgrees, IsCancelled
  <2> QED BY <2>1, <2>2
<1>3. status[t] \in Pending
  BY DEF IInv, StatusAgrees, IsCancelled, Pending
<1> QED BY <1>2, <1>3 DEF StopOf

LEMMA AskAsks == ASSUME IInv, NEW t \in Tasks, Ask(t) PROVE Life!Ask(t)
<1>1. StopOf(RunOf[t]) = "no" /\ RunOf[t] \in Runs
  BY ReadyIsUnstopped, ConstantsAssumption DEF Ask
<1>2. status[t] = "none" /\ status' = [status EXCEPT ![t] = "queued"] /\ UNCHANGED stop
  BY DEF Ask
<1>3. \A u \in Tasks : LifeOf(status'[u]) = IF u = t THEN "pending" ELSE LifeOf(status[u])
  BY <1>2 DEF LifeOf, Pending, IInv, TypeOK
<1>4. LifeOf(status[t]) = "none"
  BY <1>2 DEF LifeOf, Pending
<1> QED BY <1>1, <1>2, <1>3, <1>4 DEF Life!Ask, StopOf

LEMMA FinishEnds ==
    ASSUME IInv, NEW t \in Tasks, NEW outcome \in {"completed", "failed"},
           pc[t] \in {"lock", "stream"}, ~IsCancelled(t), Finish(t, outcome)
    PROVE  Life!End(t)
<1>1. StopOf(RunOf[t]) = "no" /\ status[t] \in Pending /\ RunOf[t] \in Runs
  BY UncancelledIsUnstopped, ConstantsAssumption
<1>2. status' = [status EXCEPT ![t] = outcome] /\ UNCHANGED stop
  BY DEF Finish
<1>3. \A u \in Tasks : LifeOf(status'[u]) = IF u = t THEN "ended" ELSE LifeOf(status[u])
  BY <1>2 DEF LifeOf, Pending, IInv, TypeOK
<1>4. LifeOf(status[t]) = "pending"
  BY <1>1 DEF LifeOf
<1> QED BY <1>1, <1>2, <1>3, <1>4 DEF Life!End, StopOf

\* Cancelling a run's pending tasks is that of TaskLife.
LEMMA CancelCancelsAll ==
    ASSUME IInv, NEW r \in Runs, NEW members, CancelTasks(r, members) PROVE Life!CancelAll(r)
<1>1. \A t \in Tasks : LifeOf(status'[t]) = IF RunOf[t] = r /\ LifeOf(status[t]) = "pending"
                                            THEN "cancelled" ELSE LifeOf(status[t])
  BY DEF CancelTasks, Cancellable, TasksOf, LifeOf, Pending, IInv, TypeOK, Status, Terminal
<1> QED BY <1>1 DEF Life!CancelAll, Life!TasksOf

LEMMA RequestAsks == ASSUME IInv, NEW r \in Runs, StopRequest(r) PROVE Life!StopAsked(r)
<1>1. /\ stop.run = NoRun /\ NoRun \notin Runs
      /\ stop'.phase = "abort" /\ stop'.run = r /\ UNCHANGED status
  BY ConstantsAssumption DEF StopRequest, IInv, StopAgrees, NoStop
<1>2. \A q \in Runs : StopOf(q) = "no" /\ StopOf(q)' = IF q = r THEN "asked" ELSE "no"
  BY <1>1 DEF StopOf
<1> QED BY <1>1, <1>2 DEF Life!StopAsked

LEMMA StopStepStops ==
    ASSUME IInv, StopStep
    PROVE  /\ stop.run \in Runs
           /\ \/ Life!StopCancels(stop.run) \/ Life!StopReturns(stop.run)
              \/ Life!StopFails(stop.run)
<1>1. stop.phase # "idle" /\ stop.run \in Runs
  BY DEF StopStep, StopCancels, StopEnds, StopFails, IInv, StopAgrees
<1>2. CASE StopCancels
  <2>1. stop.phase = "abort" /\ stop'.phase = "gather" /\ stop'.run = stop.run
    BY <1>2 DEF StopCancels, IInv, TypeOK
  <2>2. \A q \in Runs : /\ StopOf(q) = IF q = stop.run THEN "asked" ELSE "no"
                        /\ StopOf(q)' = IF q = stop.run THEN "cancelled" ELSE "no"
    BY <2>1 DEF StopOf
  <2>3. Life!CancelAll(stop.run)
    BY <1>1, <1>2, CancelCancelsAll DEF StopCancels
  <2> QED BY <1>1, <2>2, <2>3 DEF Life!StopCancels
<1>3. ASSUME ReleaseHold PROVE \A q \in Runs : StopOf(q)' = "no"
  BY <1>3, ConstantsAssumption DEF ReleaseHold, NoStop, StopOf
<1>4. CASE StopEnds
  <2>1. \A q \in Runs : /\ StopOf(q) = IF q = stop.run THEN "cancelled" ELSE "no"
                        /\ StopOf(q)' = "no"
    BY <1>3, <1>4 DEF StopEnds, StopOf
  <2>2. \A t \in Tasks : RunOf[t] = stop.run => LifeOf(status[t]) # "pending"
    BY <1>4 DEF StopEnds, IInv, StopAgrees, TypeOK, TasksOf, LifeOf, Status, Terminal
  <2> QED BY <1>1, <1>4, <2>1, <2>2 DEF Life!StopReturns, Life!TasksOf, StopEnds
<1>5. CASE StopFails
  <2>1. \A q \in Runs : /\ StopOf(q) = IF q = stop.run THEN "asked" ELSE "no"
                        /\ StopOf(q)' = "no"
    BY <1>3, <1>5 DEF StopFails, StopOf
  <2> QED BY <1>1, <1>5, <2>1 DEF Life!StopFails, StopFails
<1> QED BY <1>1, <1>2, <1>4, <1>5 DEF StopStep

\* A coroutine's step ends its task or leaves its life as it was.
LEMMA CoroutineLives ==
    ASSUME IInv, NEW t \in Tasks,
           \/ AskRefused(t) \/ Begin(t) \/ TakePermit(t) \/ Enter(t) \/ Stream(t)
           \/ Unwind(t) \/ Reap(t)
    PROVE  Life!End(t) \/ UNCHANGED <<lifeNow, stoppingNow>>
<1>1. CASE EnterStream(t)
  <2>1. \A u \in Tasks : LifeOf(status'[u]) = LifeOf(status[u])
    BY <1>1 DEF EnterStream, LifeOf, Pending, IInv, TypeOK
  <2> QED BY <1>1, <2>1, LifeStutters DEF EnterStream
<1>2. CASE EnterFails(t)
  BY <1>2, FinishEnds DEF EnterFails, GotLock
<1>3. CASE StreamEnds(t)
  BY <1>3, FinishEnds DEF StreamEnds
<1>4. CASE \/ AskRefused(t) \/ Begin(t) \/ TakePermit(t) \/ EnterCancelled(t)
           \/ StreamSeesCancel(t) \/ Unwind(t) \/ Reap(t)
  <2>1. UNCHANGED <<status, stop>>
    BY <1>4 DEF AskRefused, Begin, TakePermit, EnterCancelled, StreamSeesCancel, Unwind, Reap
  <2> QED BY <2>1, LifeStutters
<1> QED BY <1>1, <1>2, <1>3, <1>4 DEF Enter, Stream

LEMMA LifeStep == IInv /\ [Next]_vars => Life!Next \/ UNCHANGED <<lifeNow, stoppingNow>>
<1> SUFFICES ASSUME IInv, [Next]_vars
             PROVE  Life!Next \/ UNCHANGED <<lifeNow, stoppingNow>>
  OBVIOUS
<1>1. CASE UNCHANGED vars
  BY <1>1, LifeStutters DEF vars
<1>2. ASSUME NEW t \in Tasks, Ask(t) PROVE Life!Next
  BY <1>2, AskAsks DEF Life!Next
<1>3. ASSUME NEW t \in Tasks,
             \/ AskRefused(t) \/ Begin(t) \/ TakePermit(t) \/ Enter(t) \/ Stream(t)
             \/ Unwind(t) \/ Reap(t)
      PROVE  Life!Next \/ UNCHANGED <<lifeNow, stoppingNow>>
  BY <1>3, CoroutineLives DEF Life!Next
<1>4. ASSUME NEW r \in Runs, StopRequest(r) PROVE Life!Next
  BY <1>4, RequestAsks DEF Life!Next
<1>5. ASSUME NEW r \in Runs, MigrationCancels(r) PROVE Life!Next
  <2>1. Life!CancelAll(r) /\ UNCHANGED stop
    BY <1>5, CancelCancelsAll DEF MigrationCancels
  <2>2. Life!Migrate(r)
    BY <2>1 DEF Life!Migrate, StopOf
  <2> QED BY <2>2 DEF Life!Next
<1>6. ASSUME NEW r \in Runs, RunCleanup(r) \/ WakeupEnds(r)
      PROVE  UNCHANGED <<lifeNow, stoppingNow>>
  BY <1>6, LifeStutters DEF RunCleanup, WakeupEnds
<1>7. CASE StopStep
  BY <1>7, StopStepStops DEF Life!Next
<1> QED BY <1>1, <1>2, <1>3, <1>4, <1>5, <1>6, <1>7 DEF Next

\* Child tasks live as TaskLife says: each ends once, and a stop that has been
\* asked for lets none begin and none end, cancels all that is pending, and
\* returns only when nothing is.
THEOREM TasksImplementLife == Spec => ImplementsLife
<1>1. Init => Life!Init
  BY ConstantsAssumption DEF Init, Life!Init, LifeOf, Pending, StopOf, NoStop
<1>2. IInv /\ [Next]_vars => [Life!Next]_(Life!tasks)
  BY LifeStep DEF Life!tasks, lifeNow, stoppingNow
<1> QED BY Invariance, <1>1, <1>2, PTL DEF Spec, ImplementsLife, Life!Spec

-----------------------------------------------------------------------------
(* Why TasksEnd and StopsReturn hold: who waits for whom. *)

\* The coroutine's next step is one it can take now: it is cancelled, it has a
\* control to look up, a permit is free, the agent is, or its child's events come.
CanMove(t) ==
    \/ pc[t] \in Unfinished /\ kill[t]
    \/ pc[t] = "start" /\ ControlFor(RunOf[t], registered) # {}
    \/ pc[t] = "sem" /\ Cardinality(Permits(ctlOf[t])) < Capacity
    \/ GotLock(t)
    \/ pc[t] = "stream"

\* No circle of waiting coroutines: one that waits for a permit or for its agent
\* waits for a coroutine of its own run that can move now.
WaitsAreServed ==
    \A t \in Tasks : pc[t] \in Unfinished =>
        \/ CanMove(t)
        \/ \E u \in Tasks : /\ u # t /\ RunOf[u] = RunOf[t]
                            /\ pc[t] \in {"sem", "lock"} /\ pc[u] \in {"lock", "stream"}
                            /\ CanMove(u)

\* A stop waits only for coroutines that it has cancelled itself.
StopWaitsForKilled == \A t \in stop.waits : kill[t] /\ RunOf[t] = stop.run

\* The ways between a coroutine's suspension points; none leads back.
Ways ==
    {<<"none", "start">>, <<"start", "sem">>, <<"sem", "lock">>, <<"lock", "stream">>,
     <<"done", "reaped">>} \cup {<<p, "done">> : p \in Unfinished}

\* A coroutine goes forward only, and a cancelled one goes nowhere but out.
CoroutinesAdvance ==
    [][\A t \in Tasks : pc'[t] # pc[t] =>
        /\ <<pc[t], pc'[t]>> \in Ways
        /\ kill[t] => pc'[t] \in {"done", "reaped"}]_vars

\* Coroutines that share a control are of one run.
LEMMA SameControlSameRun ==
    ASSUME IInv, NEW t \in Tasks, NEW u \in Tasks, ctlOf[t] = ctlOf[u],
           pc[t] \in {"sem", "lock", "stream"}, pc[u] \in {"sem", "lock", "stream"}
    PROVE  RunOf[t] = RunOf[u]
<1>1. /\ registered[RunOf[t]] = ctlOf[t] /\ registered[RunOf[u]] = ctlOf[t]
      /\ ctlOf[t] # NoControl
  BY DEF IInv, ControlKept, Unfinished
<1> QED BY <1>1, ConstantsAssumption DEF IInv, OneControlPerRun

\* Whoever waits for its agent waits for a stream of its own run.
LEMMA LockedIsServed ==
    ASSUME IInv, NEW t \in Tasks, pc[t] = "lock"
    PROVE  CanMove(t) \/ \E u \in Tasks : u # t /\ RunOf[u] = RunOf[t] /\ pc[u] = "stream"
<1>1. CASE AgentLocked(t)
  <2>1. PICK u \in Tasks : pc[u] = "stream" /\ ctlOf[u] = ctlOf[t]
    BY <1>1 DEF AgentLocked
  <2>2. RunOf[u] = RunOf[t]
    BY <2>1, SameControlSameRun
  <2> QED BY <2>1, <2>2
<1>2. CASE ~AgentLocked(t)
  BY <1>2 DEF CanMove, GotLock, Unfinished
<1> QED BY <1>1, <1>2

\* Every child coroutine that lives can go on now, or waits for one of its own
\* run that can: permits and agent locks make no circle, whatever their numbers.
THEOREM NoTaskWaitsInACircle == Spec => []WaitsAreServed
<1>1. IInv => WaitsAreServed
  <2> SUFFICES ASSUME IInv, NEW t \in Tasks, pc[t] \in Unfinished, ~CanMove(t)
               PROVE  \E u \in Tasks : /\ u # t /\ RunOf[u] = RunOf[t]
                                       /\ pc[t] \in {"sem", "lock"}
                                       /\ pc[u] \in {"lock", "stream"} /\ CanMove(u)
    BY DEF WaitsAreServed
  <2>1. pc[t] # "start"
    BY DEF IInv, ControlKept, CanMove, ControlFor, Unfinished
  <2>2. \A u \in Tasks : pc[u] = "stream" => CanMove(u)
    BY DEF CanMove
  <2>3. CASE pc[t] = "lock"
    BY <2>2, <2>3, LockedIsServed
  <2>4. CASE pc[t] = "sem"
    <3>1. Permits(ctlOf[t]) # {}
      <4>1. ~(Cardinality(Permits(ctlOf[t])) < Capacity)
        BY <2>4 DEF CanMove
      <4>2. Cardinality({}) = 0 /\ 0 < Capacity
        BY FS_EmptySet, ConstantsAssumption
      <4>3. ASSUME Permits(ctlOf[t]) = {} PROVE FALSE
        BY <4>1, <4>2, <4>3
      <4> QED BY <4>3
    <3>2. PICK u \in Tasks : ctlOf[u] = ctlOf[t] /\ pc[u] \in {"lock", "stream"}
      BY <3>1 DEF Permits
    <3>3. RunOf[u] = RunOf[t] /\ u # t
      BY <2>4, <3>2, SameControlSameRun
    <3>4. CASE CanMove(u)
      BY <2>4, <3>2, <3>3, <3>4
    <3>5. CASE ~CanMove(u)
      <4>1. pc[u] = "lock"
        BY <2>2, <3>2, <3>5
      <4>2. PICK v \in Tasks : RunOf[v] = RunOf[u] /\ pc[v] = "stream"
        BY <3>5, <4>1, LockedIsServed
      <4> QED BY <2>2, <2>4, <3>3, <4>2
    <3> QED BY <3>4, <3>5
  <2> QED BY <2>1, <2>2, <2>3, <2>4 DEF CanMove, Unfinished
<1> QED BY Invariance, <1>1, PTL

\* Steps other than a stop's leave what a stop waits for as it is.
LEMMA StopWaitsKept ==
    ASSUME StopWaitsForKilled, UNCHANGED stop, \A t \in Tasks : kill[t] => kill'[t], TypeOK
    PROVE  StopWaitsForKilled'
  BY DEF StopWaitsForKilled, TypeOK

LEMMA StopWaitsNext == IInv /\ StopWaitsForKilled /\ [Next]_vars => StopWaitsForKilled'
<1> SUFFICES ASSUME IInv, StopWaitsForKilled, [Next]_vars PROVE StopWaitsForKilled'
  OBVIOUS
<1> TypeOK
  BY DEF IInv
<1>1. CASE UNCHANGED vars
  BY <1>1, StopWaitsKept DEF vars
<1>2. ASSUME NEW t \in Tasks,
             \/ Ask(t) \/ AskRefused(t) \/ Begin(t) \/ TakePermit(t) \/ Enter(t) \/ Stream(t)
             \/ Unwind(t) \/ Reap(t)
      PROVE  StopWaitsForKilled'
  <2>1. UNCHANGED <<kill, stop>>
    BY <1>2 DEF Ask, AskRefused, Begin, TakePermit, Enter, Stream, EnterCancelled, EnterStream,
                EnterFails, StreamEnds, StreamSeesCancel, Finish, Unwind, Reap
  <2> QED BY <2>1, StopWaitsKept
<1>3. ASSUME NEW r \in Runs, StopRequest(r) PROVE StopWaitsForKilled'
  <2>1. stop'.waits = {}
    BY <1>3 DEF StopRequest
  <2> QED BY <2>1 DEF StopWaitsForKilled
<1>4. ASSUME NEW r \in Runs, MigrationCancels(r) \/ RunCleanup(r) \/ WakeupEnds(r)
      PROVE  StopWaitsForKilled'
  <2>1. UNCHANGED stop /\ \A t \in Tasks : kill[t] => kill'[t]
    BY <1>4 DEF MigrationCancels, CancelTasks, RunCleanup, WakeupEnds
  <2> QED BY <2>1, StopWaitsKept
<1>5. CASE StopCancels
  <2>1. registered[stop.run] = stop.control /\ stop.run \in Runs /\ stop.control \in Controls
    BY <1>5 DEF StopCancels, IInv, StopAgrees
  <2>2. stop'.waits = Active(stop.control) /\ stop'.run = stop.run
    BY <1>5 DEF StopCancels, TypeOK
  <2>3. \A t \in Active(stop.control) : kill'[t]
    BY <1>5 DEF StopCancels, CancelTasks, Active
  <2>4. \A t \in Active(stop.control) : RunOf[t] = stop.run
    BY <2>1, ConstantsAssumption DEF Active, IInv, TypeOK, ControlKept, OneControlPerRun
  <2> QED BY <2>2, <2>3, <2>4 DEF StopWaitsForKilled
<1>6. CASE StopEnds \/ StopFails
  <2>1. stop'.waits = {}
    BY <1>6 DEF StopEnds, StopFails, ReleaseHold, NoStop
  <2> QED BY <2>1 DEF StopWaitsForKilled
<1> QED BY <1>1, <1>2, <1>3, <1>4, <1>5, <1>6 DEF Next, StopStep

\* What a stop gathers are coroutines of its run that it has cancelled: each can
\* only end, and needs nothing of the stop for it.
THEOREM StopWaitsForNoOneElse == Spec => []StopWaitsForKilled
<1>1. Init => StopWaitsForKilled
  BY DEF Init, NoStop, StopWaitsForKilled
<1> QED BY Invariance, StopWaitsNext, <1>1, PTL DEF Spec

\* Each coroutine passes a suspension point at most once, so its steps are few;
\* once cancelled it can only return.
THEOREM CoroutinesOnlyAdvance == Spec => CoroutinesAdvance
<1>1. IInv /\ [Next]_vars =>
        [\A t \in Tasks : pc'[t] # pc[t] =>
            /\ <<pc[t], pc'[t]>> \in Ways
            /\ kill[t] => pc'[t] \in {"done", "reaped"}]_vars
  <2> SUFFICES ASSUME IInv, Next, NEW t \in Tasks, pc'[t] # pc[t]
               PROVE  /\ <<pc[t], pc'[t]>> \in Ways
                      /\ kill[t] => pc'[t] \in {"done", "reaped"}
    BY DEF vars
  <2>1. ASSUME NEW u \in Tasks,
               \/ Ask(u) \/ AskRefused(u) \/ Begin(u) \/ TakePermit(u) \/ Enter(u)
               \/ Stream(u) \/ Unwind(u) \/ Reap(u)
        PROVE  /\ <<pc[t], pc'[t]>> \in Ways
               /\ kill[t] => pc'[t] \in {"done", "reaped"}
    <3>1. CASE Ask(u)
      <4>1. t = u /\ pc'[t] = "start"
        BY <3>1 DEF Ask, IInv, TypeOK
      <4>2. pc[t] = "none" /\ ~kill[t]
        BY <3>1, <4>1 DEF Ask, IInv, StatusAgrees
      <4> QED BY <4>1, <4>2 DEF Ways
    <3>2. CASE Begin(u) \/ TakePermit(u) \/ EnterStream(u)
      BY <3>2 DEF Begin, TakePermit, EnterStream, GotLock, IInv, TypeOK, Ways
    <3>3. CASE Reap(u)
      BY <3>3 DEF Reap, IInv, TypeOK, Ways
    <3>4. CASE EnterCancelled(u) \/ EnterFails(u) \/ StreamEnds(u) \/ StreamSeesCancel(u)
               \/ Unwind(u)
      <4>1. t = u /\ pc'[t] = "done" /\ pc[t] \in Unfinished
        BY <3>4 DEF EnterCancelled, EnterFails, StreamEnds, StreamSeesCancel, Unwind, Finish,
                    GotLock, IInv, TypeOK, Unfinished
      <4> QED BY <4>1 DEF Ways
    <3>5. ~AskRefused(u)
      BY DEF AskRefused
    <3> QED BY <2>1, <3>1, <3>2, <3>3, <3>4, <3>5 DEF Enter, Stream
  <2>2. ASSUME NEW r \in Runs,
               StopRequest(r) \/ MigrationCancels(r) \/ RunCleanup(r) \/ WakeupEnds(r)
        PROVE FALSE
    BY <2>2 DEF StopRequest, MigrationCancels, RunCleanup, WakeupEnds
  <2>3. ~StopStep
    BY DEF StopStep, StopCancels, StopEnds, StopFails
  <2> QED BY <2>1, <2>2, <2>3 DEF Next
<1> QED BY Invariance, <1>1, PTL DEF Spec, CoroutinesAdvance

=============================================================================
