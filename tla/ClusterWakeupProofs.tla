------------------------ MODULE ClusterWakeupProofs ------------------------
(***************************************************************************)
(* Proofs about ClusterWakeup: a run has one wakeup at a time, a wakeup    *)
(* speaks of the latest request only, and a stop silences what was over.   *)
(***************************************************************************)
EXTENDS ClusterWakeup, TLAPS

OnItsWay(k) == place[k] \in {"start", "turn"}

\* The run's wakeup task is the only one that can reach the main agent.
CurrentOnItsWay == \A k \in Wakers : OnItsWay(k) => current = k

\* Notices are carried by a turn, or by one that unwinds, and the session is
\* its.
CarriedInTurn ==
    \A k \in Wakers : carried[k] # {} => place[k] \in {"turn", "killed"} /\ main = "wakeup"

TurnCarries == \A k \in Wakers : place[k] = "turn" => carried[k] # {}

OneCarrier == \A k, l \in Wakers : carried[k] # {} /\ carried[l] # {} => k = l

\* Between its two steps a stop leaves nothing that could start a turn.
StopIsQuiet ==
    stop = "gather" => /\ \A t \in Tasks : note[t] \in {"none", "sent"}
                       /\ \A k \in Wakers : ~OnItsWay(k)

SilencedIsOver ==
    \A t \in silenced : /\ status[t] \in {"ended", "cancelled"}
                        /\ note[t] \in {"none", "sent"}

WInv ==
    /\ TypeOK
    /\ CurrentOnItsWay
    /\ CarriedInTurn
    /\ TurnCarries
    /\ OneCarrier
    /\ CurrentNotices
    /\ StopIsQuiet
    /\ SilencedIsOver
    /\ StopSilences

USE DEF Turns, Live, OnItsWay

LEMMA WInvInit == Init => WInv
  <1> SUFFICES ASSUME Init PROVE WInv
    OBVIOUS
  <1>1. TypeOK
    BY DEF Init, TypeOK
  <1>2. \A k \in Wakers : place[k] = "free" /\ carried[k] = {}
    BY DEF Init
  <1>3. stop = "no" /\ silenced = {}
    BY DEF Init
  <1> QED
    BY <1>1, <1>2, <1>3
       DEF WInv, CurrentOnItsWay, CarriedInTurn, TurnCarries, OneCarrier,
           CurrentNotices, StopIsQuiet, SilencedIsOver, StopSilences

\* What _schedule_cluster_parent_wakeup does to the wakeup tasks: nothing, or
\* a fresh one starts, if something is queued and none was on its way.
LEMMA ScheduleEffect ==
  ASSUME NEW notes \in [Tasks -> {"none", "untold", "queued", "sent"}],
         NEW cur \in Wakers \cup {NoWaker},
         NEW places \in [Wakers -> Live \cup {"free", "ok", "idle"}],
         \A k \in Wakers : places[k] \in {"start", "turn"} => cur = k,
         Schedule(notes, cur, places)
  PROVE  /\ current' \in Wakers \cup {NoWaker}
         /\ place' \in [Wakers -> Live \cup {"free", "ok", "idle"}]
         /\ \A k \in Wakers : place'[k] \in {"start", "turn"} => current' = k
         /\ \A k \in Wakers : places[k] # "free" \/ place'[k] # "start" => place'[k] = places[k]
         /\ (\A t \in Tasks : notes[t] # "queued") => place' = places
  <1> USE WakeupConstantsAssumption
  <1>1. CASE current' = cur /\ place' = places
    BY <1>1
  <1>2. CASE /\ ~Busy(cur, places)
             /\ Queued(notes) # {}
             /\ \E k \in Wakers :
                   /\ places[k] = "free"
                   /\ current' = k
                   /\ place' = [places EXCEPT ![k] = "start"]
    BY <1>2 DEF Busy, Queued
  <1> QED
    BY <1>1, <1>2 DEF Schedule

LEMMA WInvNext == WInv /\ [Next]_vars => WInv'
  <1> SUFFICES ASSUME WInv, [Next]_vars
               PROVE  WInv'
    OBVIOUS
  <1> USE DEF WInv, TypeOK, CurrentOnItsWay, CarriedInTurn, TurnCarries, OneCarrier,
              CurrentNotices, StopIsQuiet, SilencedIsOver, StopSilences
  <1>1. ASSUME NEW t \in Tasks, Ask(t)
        PROVE  WInv'
    BY <1>1 DEF Ask
  <1>2. ASSUME NEW t \in Tasks, Poll(t)
        PROVE  WInv'
    BY <1>2 DEF Poll
  <1>18. ASSUME NEW t \in Tasks, ChildEnds(t)
         PROVE  WInv'
    BY <1>18 DEF ChildEnds
  <1>3. ASSUME NEW t \in Tasks, ChildTells(t)
        PROVE  WInv'
    <2>1. note' \in [Tasks -> {"none", "untold", "queued", "sent"}]
      BY <1>3 DEF ChildTells, QueuedNow
    <2>2. \A u \in Tasks : u # t => note'[u] = note[u]
      BY <1>3 DEF ChildTells, QueuedNow
    <2>3. Schedule(note', current, place)
      BY <1>3 DEF ChildTells
    <2>4. /\ current' \in Wakers \cup {NoWaker}
          /\ place' \in [Wakers -> Live \cup {"free", "ok", "idle"}]
          /\ \A k \in Wakers : place'[k] \in {"start", "turn"} => current' = k
          /\ \A k \in Wakers : place[k] # "free" \/ place'[k] # "start" => place'[k] = place[k]
      BY <2>1, <2>3, ScheduleEffect
    <2>5. /\ note[t] = "untold"
          /\ UNCHANGED <<status, asked, generation, grace, main, away, stop, carried,
                         silenced, unattended>>
      BY <1>3 DEF ChildTells
    <2>6. \A k \in Wakers : place[k] # "turn" => place'[k] # "turn"
      BY <2>4
    <2>7. \A k \in Wakers : carried[k] # {} => place'[k] = place[k]
      BY <2>4
    <2>8. TypeOK'
      BY <2>1, <2>4, <2>5
    <2>9. SilencedIsOver'
      BY <2>2, <2>5
    <2> QED
      BY <2>4, <2>5, <2>6, <2>7, <2>8, <2>9
  <1>4. CASE TurnAdmitted
    BY <1>4 DEF TurnAdmitted, Free
  <1>5. CASE TurnBegins
    BY <1>5 DEF TurnBegins
  <1>20. CASE TurnUnseen
    <2>1. unattended' \in SUBSET Tasks /\ generation' \in Nat
      BY <1>20 DEF TurnUnseen, Queued
    <2>2. \A k \in Wakers : place[k] # "turn"
      BY <1>20 DEF TurnUnseen
    <2> QED
      BY <1>20, <2>1, <2>2 DEF TurnUnseen
  <1>6. ASSUME Schedule(note, current, place),
               TurnEnds \/ ChatRejected
        PROVE  WInv'
    <2>1. /\ current' \in Wakers \cup {NoWaker}
          /\ place' \in [Wakers -> Live \cup {"free", "ok", "idle"}]
          /\ \A k \in Wakers : place'[k] \in {"start", "turn"} => current' = k
          /\ \A k \in Wakers : place[k] # "free" \/ place'[k] # "start" => place'[k] = place[k]
          /\ (\A t \in Tasks : note[t] # "queued") => place' = place
      BY <1>6, ScheduleEffect
    <2>2. UNCHANGED <<status, asked, note, generation, away, stop, carried, silenced, unattended>>
      BY <1>6 DEF TurnEnds, ChatRejected
    <2>3. main' = main \/ (main \in {"prep", "user"} /\ main' = "idle")
      BY <1>6 DEF TurnEnds, ChatRejected
    <2>4. grace' = TRUE
      BY <1>6 DEF TurnEnds, ChatRejected
    <2>5. \A k \in Wakers : carried[k] # {} => place'[k] = place[k] /\ main' = main
      BY <2>1, <2>3
    <2>6. \A k \in Wakers : place'[k] = "turn" => place[k] = "turn"
      BY <2>1
    <2>7. TypeOK'
      BY <2>1, <2>2, <2>3, <2>4
    <2>8. StopIsQuiet'
      BY <2>1, <2>2
    <2>9. SilencedIsOver'
      BY <2>2
    <2> QED
      BY <2>1, <2>2, <2>5, <2>6, <2>7, <2>8, <2>9
  <1>7. CASE TurnEnds \/ ChatRejected
    BY <1>6, <1>7 DEF TurnEnds, ChatRejected
  <1>8. CASE GraceEnds \/ SwitchBegins \/ SwitchLocks \/ SwitchEnds
    BY <1>8 DEF GraceEnds, SwitchBegins, SwitchLocks, SwitchEnds, Free
  <1>9. ASSUME NEW k \in Wakers, WakeupObsolete(k)
        PROVE  WInv'
    BY <1>9 DEF WakeupObsolete, Locked, Cleared
  <1>19. ASSUME NEW k \in Wakers, WakeupDeferred(k)
         PROVE  WInv'
    <2>1. unattended' \in SUBSET Tasks
      BY <1>19 DEF WakeupDeferred, Queued
    <2> QED
      BY <1>19, <2>1 DEF WakeupDeferred, Locked
  <1>10. ASSUME NEW k \in Wakers, WakeupClaims(k)
         PROVE  WInv'
    <2> DEFINE claimed == {t \in Queued(note) : Eligible(t)}
    <2>1. /\ note' = [t \in Tasks |-> IF t \in claimed THEN "sent" ELSE Cleared(note)[t]]
          /\ place[k] = "start" /\ main = "idle" /\ stop = "no"
          /\ UNCHANGED <<status, asked, generation, grace, away, stop, current, silenced,
                         unattended>>
      BY <1>10 DEF WakeupClaims, Locked, Free
    <2>2. /\ note' \in [Tasks -> {"none", "untold", "queued", "sent"}]
          /\ \A t \in Tasks : note[t] # "queued" => note'[t] = note[t]
      BY <2>1 DEF Cleared, Queued
    <2>3. /\ claimed \subseteq Tasks
          /\ \A t \in claimed : asked[t] = generation /\ note[t] = "queued"
      BY DEF Queued, Eligible
    <2>4. CASE /\ claimed = {}
               /\ place' = [place EXCEPT ![k] = "idle"]
               /\ UNCHANGED <<main, carried>>
      BY <2>1, <2>2, <2>4
    <2>5. CASE /\ claimed # {}
               /\ place' = [place EXCEPT ![k] = "turn"]
               /\ main' = "wakeup"
               /\ carried' = [carried EXCEPT ![k] = claimed]
      <3> HIDE DEF claimed
      <3>1. \A l \in Wakers : carried[l] = {} /\ place[l] # "turn"
        BY <2>1
      <3>2. \A l \in Wakers : l # k => carried'[l] = {} /\ place'[l] = place[l]
        BY <2>5, <3>1
      <3>3. carried'[k] = claimed /\ place'[k] = "turn"
        BY <2>5
      <3>4. TypeOK'
        BY <2>1, <2>2, <2>3, <2>5
      <3>5. SilencedIsOver' /\ claimed \cap silenced = {}
        BY <2>1, <2>2, <2>3
      <3> QED
        BY <2>1, <2>2, <2>3, <2>5, <3>1, <3>2, <3>3, <3>4, <3>5
    <2> QED
      BY <1>10, <2>4, <2>5 DEF WakeupClaims
  <1>11. ASSUME NEW k \in Wakers, WakeupTurnEnds(k) \/ WakeupTurnFails(k)
         PROVE  WInv'
    <2>1. /\ place[k] = "turn"
          /\ main' = "idle" /\ grace' \in BOOLEAN
          /\ \E done \in {"ok", "idle"} : place' = [place EXCEPT ![k] = done]
          /\ carried' = [carried EXCEPT ![k] = {}]
          /\ UNCHANGED <<status, asked, generation, away, stop, current, silenced>>
          /\ unattended' \in SUBSET Tasks
      BY <1>11 DEF WakeupTurnEnds, WakeupTurnFails
    <2>2. /\ note' \in [Tasks -> {"none", "untold", "queued", "sent"}]
          /\ \A t \in Tasks : t \notin carried[k] => note'[t] = note[t]
      <3>1. \/ note' = note
            \/ note' = [t \in Tasks |-> IF t \in carried[k] THEN "queued" ELSE note[t]]
        BY <1>11 DEF WakeupTurnEnds, WakeupTurnFails
      <3> QED
        BY <3>1
    <2>3. stop # "gather" /\ carried[k] \cap silenced = {}
      BY <2>1
    <2>4. \A l \in Wakers : carried'[l] = {}
      BY <2>1
    <2>5. \A l \in Wakers : place'[l] # "turn" /\ (place'[l] = "start" => place[l] = "start")
      BY <2>1
    <2>6. TypeOK'
      BY <2>1, <2>2
    <2>7. SilencedIsOver'
      BY <2>1, <2>2, <2>3
    <2> QED
      BY <2>1, <2>3, <2>4, <2>5, <2>6, <2>7
  <1>12. ASSUME NEW k \in Wakers, WakeupReaped(k)
         PROVE  WInv'
    <2> DEFINE freed == [place EXCEPT ![k] = "free"]
    <2>1. CASE current # k
      BY <1>12, <2>1 DEF WakeupReaped
    <2>2. CASE current = k /\ place[k] # "ok"
      BY <1>12, <2>2, WakeupConstantsAssumption DEF WakeupReaped
    <2>3. CASE current = k /\ place[k] = "ok"
      <3>1. Schedule(note, NoWaker, freed)
        BY <1>12, <2>3 DEF WakeupReaped
      <3>2. /\ freed \in [Wakers -> Live \cup {"free", "ok", "idle"}]
            /\ \A l \in Wakers : freed[l] \notin {"start", "turn"}
        BY <1>12, <2>3 DEF WakeupReaped
      <3>3. /\ current' \in Wakers \cup {NoWaker}
            /\ place' \in [Wakers -> Live \cup {"free", "ok", "idle"}]
            /\ \A l \in Wakers : place'[l] \in {"start", "turn"} => current' = l
            /\ \A l \in Wakers : freed[l] # "free" \/ place'[l] # "start" => place'[l] = freed[l]
            /\ (\A t \in Tasks : note[t] # "queued") => place' = freed
        <4> HIDE DEF freed
        <4>1. note \in [Tasks -> {"none", "untold", "queued", "sent"}]
          OBVIOUS
        <4>2. \A l \in Wakers : freed[l] \in {"start", "turn"} => NoWaker = l
          BY <3>2
        <4> QED
          BY <3>1, <3>2, <4>1, <4>2, ScheduleEffect
      <3>4. UNCHANGED <<status, asked, note, generation, grace, main, away, stop,
                        carried, silenced, unattended>>
        BY <1>12 DEF WakeupReaped
      <3>5. freed \in [Wakers -> Live \cup {"free", "ok", "idle"}]
            /\ \A l \in Wakers : l # k => freed[l] = place[l]
        BY <3>2
      <3>6. \A l \in Wakers : carried[l] # {} => l # k /\ place'[l] = place[l]
        BY <1>12, <3>3, <3>5 DEF WakeupReaped
      <3>7. \A l \in Wakers : place'[l] # "turn"
        BY <3>2, <3>3
      <3>8. stop = "gather" => \A l \in Wakers : ~OnItsWay(l)'
        BY <3>2, <3>3
      <3>9. TypeOK'
        BY <3>3, <3>4
      <3> HIDE DEF freed
      <3> QED
        BY <3>3, <3>4, <3>6, <3>7, <3>8, <3>9
    <2> QED
      BY <2>1, <2>2, <2>3
  <1>13. ASSUME NEW k \in Wakers, WakeupUnwinds(k)
         PROVE  WInv'
    BY <1>13 DEF WakeupUnwinds
  <1>14. CASE StopRequest
    BY <1>14 DEF StopRequest
  <1>15. CASE StopCancels
    <2>1. /\ note' \in [Tasks -> {"none", "untold", "queued", "sent"}]
          /\ \A t \in Tasks : note'[t] \in {"none", "sent"}
                              /\ (note[t] = "sent" => note'[t] = "sent")
      BY <1>15 DEF StopCancels, NotesStopped
    <2>2. /\ place' \in [Wakers -> Live \cup {"free", "ok", "idle"}]
          /\ \A k \in Wakers : /\ place'[k] \notin {"start", "turn"}
                               /\ place[k] \in {"turn", "killed"} => place'[k] = "killed"
      BY <1>15, WakeupConstantsAssumption DEF StopCancels, Busy
    <2>3. /\ status' \in [Tasks -> {"none", "pending", "ended", "cancelled"}]
          /\ \A t \in Tasks : status[t] \in {"ended", "cancelled"} => status'[t] = status[t]
      BY <1>15 DEF StopCancels
    <2> QED
      BY <1>15, <2>1, <2>2, <2>3 DEF StopCancels
  <1>16. CASE StopEnds
    BY <1>16 DEF StopEnds
  <1>17. CASE UNCHANGED vars
    BY <1>17 DEF vars
  <1> QED
    BY <1>1, <1>2, <1>18, <1>3, <1>4, <1>5, <1>20, <1>7, <1>8, <1>9, <1>19, <1>10, <1>11,
       <1>12, <1>13,
       <1>14, <1>15, <1>16, <1>17
       DEF Next, WakeupLooks, TurnOfWakeup, StopStep, TurnGoesOn

\* The inductive invariant holds in every state the code can reach.
THEOREM WakeupInvariance == Spec => []WInv
  <1> QED
    BY WInvInit, WInvNext, PTL DEF Spec

\* Every variable keeps its type.
THEOREM WakeupTypeCorrect == Spec => []TypeOK
  <1>1. WInv => TypeOK
    BY DEF WInv
  <1> QED
    BY <1>1, WakeupInvariance, PTL

\* _schedule_cluster_parent_wakeup never lets two wakeups of a run go on
\* towards the main agent, whatever stops, failures and refused chats do.
THEOREM OneWakeupAtATime == Spec => []OneWakeup
  <1>1. WInv => OneWakeup
    BY DEF WInv, CurrentOnItsWay, OneWakeup
  <1> QED
    BY <1>1, WakeupInvariance, PTL

\* A turn started by a wakeup speaks of children of the latest request.
THEOREM NoticesAreCurrent == Spec => []CurrentNotices
  <1>1. WInv => CurrentNotices
    BY DEF WInv
  <1> QED
    BY <1>1, WakeupInvariance, PTL

\* What was over when a stop returned starts no turn.
THEOREM StopIsFinal == Spec => []StopSilences
  <1>1. WInv => StopSilences
    BY DEF WInv
  <1> QED
    BY <1>1, WakeupInvariance, PTL
-----------------------------------------------------------------------------
(* Why AttendedNoticesSettle holds: who has the next notice. *)

\* A queued notice that is not one of those nobody retries has a wakeup on its
\* way, or a turn of the user's whose end starts one or leaves it unattended.
NoticesAttended ==
    \A t \in Tasks : note[t] = "queued" /\ t \notin unattended =>
        Busy(current, place) \/ main \in {"prep", "user"}

\* A wakeup's turn takes every notice, and none is queued while it runs.
TurnTakesAll == \A k \in Wakers : place[k] = "turn" => Queued(note) = {}

WakeupHasCarrier == main = "wakeup" => \E k \in Wakers : carried[k] # {}

KilledByStop == \A k \in Wakers : place[k] = "killed" => stop = "gather"

AttendInv == NoticesAttended /\ TurnTakesAll /\ WakeupHasCarrier /\ KilledByStop

LEMMA AttendInit == Init => AttendInv
  <1> SUFFICES ASSUME Init PROVE AttendInv
    OBVIOUS
  <1>1. Queued(note) = {} /\ \A t \in Tasks : note[t] # "queued"
    BY DEF Init, Queued
  <1>2. main = "idle" /\ \A k \in Wakers : place[k] = "free"
    BY DEF Init
  <1> QED
    BY <1>1, <1>2 DEF AttendInv, NoticesAttended, TurnTakesAll, WakeupHasCarrier, KilledByStop

\* When something is queued, _schedule_cluster_parent_wakeup leaves a wakeup on
\* its way.
LEMMA ScheduleAttends ==
  ASSUME NEW notes, NEW cur \in Wakers \cup {NoWaker},
         NEW places \in [Wakers -> Live \cup {"free", "ok", "idle"}],
         Schedule(notes, cur, places), Queued(notes) # {}
  PROVE  Busy(current', place')
  <1>1. CASE Busy(cur, places)
    BY <1>1 DEF Schedule
  <1>2. CASE ~Busy(cur, places)
    <2>1. PICK k \in Wakers : current' = k /\ place' = [places EXCEPT ![k] = "start"]
      BY <1>2 DEF Schedule
    <2>2. k # NoWaker /\ place'[k] = "start"
      BY <2>1, WakeupConstantsAssumption
    <2> QED
      BY <2>1, <2>2 DEF Busy
  <1> QED
    BY <1>1, <1>2

\* Nobody has to attend to notices when there are none.
LEMMA NoneQueued ==
  ASSUME \A t \in Tasks : note'[t] # "queued"
  PROVE  NoticesAttended' /\ TurnTakesAll'
  BY DEF NoticesAttended, TurnTakesAll, Queued

\* The steps that end with _schedule_cluster_parent_wakeup.
LEMMA ScheduleKeepsAttended ==
  ASSUME WInv, AttendInv,
         NEW cur \in Wakers \cup {NoWaker},
         NEW places \in [Wakers -> Live \cup {"free", "ok", "idle"}],
         \A k \in Wakers : places[k] \in {"start", "turn"} => cur = k,
         \A k \in Wakers : places[k] \in {"turn", "killed"} => places[k] = place[k],
         note' \in [Tasks -> {"none", "untold", "queued", "sent"}],
         Schedule(note', cur, places),
         (\E k \in Wakers : place[k] = "turn") => Queued(note') = {},
         main' # "wakeup" \/ main' = main, UNCHANGED <<carried, stop>>
  PROVE  AttendInv'
  <1>1. NoticesAttended'
    <2> SUFFICES ASSUME NEW t \in Tasks, note'[t] = "queued"
                 PROVE  Busy(current', place')
      BY DEF NoticesAttended, Busy
    <2>1. Queued(note') # {}
      BY DEF Queued
    <2> QED
      BY <2>1, ScheduleAttends
  <1>2. \A k \in Wakers : place'[k] \in {"turn", "killed"} => place[k] = place'[k]
    BY ScheduleEffect
  <1>3. TurnTakesAll'
    BY <1>2 DEF TurnTakesAll, Queued
  <1>4. WakeupHasCarrier' /\ KilledByStop'
    BY <1>2 DEF AttendInv, WakeupHasCarrier, KilledByStop
  <1> QED
    BY <1>1, <1>3, <1>4 DEF AttendInv

LEMMA AttendNext == WInv /\ AttendInv /\ [Next]_vars => AttendInv'
  <1> SUFFICES ASSUME WInv, AttendInv, [Next]_vars
               PROVE  AttendInv'
    OBVIOUS
  <1> USE DEF AttendInv
  <1> TypeOK
    BY DEF WInv
  <1>1. CASE \/ UNCHANGED vars \/ \E t \in Tasks : Ask(t) \/ Poll(t) \/ ChildEnds(t)
             \/ TurnAdmitted \/ TurnBegins \/ GraceEnds \/ SwitchBegins \/ SwitchLocks
             \/ SwitchEnds
    <2>1. /\ UNCHANGED <<current, place, carried, unattended, stop>>
          /\ \A t \in Tasks : note'[t] = "queued" => note[t] = "queued"
      BY <1>1 DEF vars, Ask, Poll, ChildEnds, TurnAdmitted, TurnBegins, GraceEnds, SwitchBegins,
                  SwitchLocks, SwitchEnds, TypeOK
    <2>2. /\ main \in {"prep", "user"} => main' \in {"prep", "user"}
          /\ main' = "wakeup" => main = "wakeup"
      BY <1>1 DEF vars, Ask, Poll, ChildEnds, TurnAdmitted, TurnBegins, GraceEnds, SwitchBegins,
                  SwitchLocks, SwitchEnds, Free
    <2> QED
      BY <2>1, <2>2 DEF NoticesAttended, TurnTakesAll, WakeupHasCarrier, KilledByStop, Queued,
                        Busy
  <1>2. ASSUME NEW t \in Tasks, ChildTells(t) PROVE AttendInv'
    <2>1. note' = QueuedNow(t) /\ Schedule(note', current, place)
          /\ UNCHANGED <<main, carried, stop>>
      BY <1>2 DEF ChildTells
    <2>2. note' \in [Tasks -> {"none", "untold", "queued", "sent"}]
      BY <2>1 DEF QueuedNow, TypeOK
    <2>3. (\E k \in Wakers : place[k] = "turn") => Queued(note') = {}
      <3>1. ASSUME NEW k \in Wakers, place[k] = "turn" PROVE Queued(note') = {}
        <4>1. main = "wakeup" /\ Queued(note) = {}
          BY <3>1 DEF WInv, TurnCarries, CarriedInTurn, TurnTakesAll
        <4> QED
          BY <2>1, <4>1 DEF QueuedNow, Queued, TypeOK
      <3> QED
        BY <3>1
    <2>4. \A k \in Wakers : place[k] \in {"start", "turn"} => current = k
      BY DEF WInv, CurrentOnItsWay
    <2> QED
      BY <2>1, <2>2, <2>3, <2>4, ScheduleKeepsAttended DEF TypeOK
  <1>3. CASE TurnEnds \/ ChatRejected
    <2>1. /\ Schedule(note', current, place) /\ UNCHANGED <<note, carried, stop>>
          /\ main' # "wakeup" \/ main' = main
      BY <1>3 DEF TurnEnds, ChatRejected
    <2>2. (\E k \in Wakers : place[k] = "turn") => Queued(note') = {}
      BY <2>1 DEF TurnTakesAll, Queued
    <2>3. \A k \in Wakers : place[k] \in {"start", "turn"} => current = k
      BY DEF WInv, CurrentOnItsWay
    <2>4. note' \in [Tasks -> {"none", "untold", "queued", "sent"}]
      BY <2>1 DEF TypeOK
    <2> QED
      BY <2>1, <2>2, <2>3, <2>4, ScheduleKeepsAttended DEF TypeOK
  <1>13. CASE TurnUnseen
    <2>1. /\ UNCHANGED <<note, current, place, carried, stop>> /\ main' = "idle"
          /\ Busy(current, place) => unattended' = unattended
          /\ ~Busy(current, place) => unattended' = unattended \cup Queued(note)
      BY <1>13 DEF TurnUnseen
    <2>2. NoticesAttended'
      BY <2>1 DEF NoticesAttended, Queued, Busy
    <2> QED
      BY <2>1, <2>2 DEF TurnTakesAll, WakeupHasCarrier, KilledByStop, Queued
  <1>4. ASSUME NEW k \in Wakers, WakeupObsolete(k) PROVE AttendInv'
    <2>1. /\ \A t \in Tasks : note'[t] # "queued"
          /\ place' = [place EXCEPT ![k] = "idle"] /\ UNCHANGED <<main, carried, stop>>
      BY <1>4 DEF WakeupObsolete, Cleared
    <2> QED
      BY <2>1, NoneQueued DEF WakeupHasCarrier, KilledByStop, TypeOK
  <1>5. ASSUME NEW k \in Wakers, WakeupDeferred(k) PROVE AttendInv'
    <2>1. /\ place[k] = "start" /\ stop = "no" /\ main # "idle"
          /\ place' = [place EXCEPT ![k] = "idle"]
          /\ unattended' = IF main \in Turns THEN unattended ELSE unattended \cup Queued(note)
          /\ UNCHANGED <<note, main, carried, stop, current>>
      BY <1>5 DEF WakeupDeferred, Locked
    <2>2. main # "wakeup"
      <3>1. ASSUME main = "wakeup" PROVE FALSE
        <4>1. PICK c \in Wakers : carried[c] # {}
          BY <3>1 DEF WakeupHasCarrier
        <4>2. place[c] = "turn"
          BY <2>1, <4>1 DEF WInv, CarriedInTurn, KilledByStop
        <4> QED
          BY <2>1, <4>2 DEF WInv, CurrentOnItsWay
      <3> QED
        BY <3>1
    <2>3. NoticesAttended'
      <3>1. CASE main \in {"prep", "user"}
        BY <2>1, <3>1 DEF NoticesAttended
      <3>2. CASE main \notin {"prep", "user"}
        <4>1. unattended' = unattended \cup Queued(note)
          BY <2>1, <2>2, <3>2
        <4> QED
          BY <2>1, <4>1 DEF NoticesAttended, Queued
      <3> QED
        BY <3>1, <3>2
    <2>4. \A l \in Wakers : place'[l] \in {"turn", "killed"} => place[l] = place'[l]
      BY <2>1 DEF TypeOK
    <2> QED
      BY <2>1, <2>3, <2>4 DEF TurnTakesAll, WakeupHasCarrier, KilledByStop, Queued
  <1>6. ASSUME NEW k \in Wakers, WakeupClaims(k) PROVE AttendInv'
    <2> DEFINE claimed == {t \in Queued(note) : Eligible(t)}
    <2>1. /\ note' = [t \in Tasks |-> IF t \in claimed THEN "sent" ELSE Cleared(note)[t]]
          /\ main = "idle" /\ UNCHANGED stop
          /\ \/ /\ place' = [place EXCEPT ![k] = "idle"] /\ UNCHANGED <<main, carried>>
             \/ /\ claimed # {} /\ place' = [place EXCEPT ![k] = "turn"]
                /\ carried' = [carried EXCEPT ![k] = claimed]
      BY <1>6 DEF WakeupClaims, Free
    <2>2. \A t \in Tasks : note'[t] # "queued"
      BY <2>1 DEF Cleared
    <2>3. \A l \in Wakers : place'[l] = "killed" => place[l] = "killed"
      BY <2>1 DEF TypeOK
    <2>4. WakeupHasCarrier'
      <3> HIDE DEF claimed
      <3> QED
        BY <2>1 DEF WakeupHasCarrier, TypeOK
    <2> QED
      BY <2>1, <2>2, <2>3, <2>4, NoneQueued DEF KilledByStop
  <1>7. ASSUME NEW k \in Wakers, WakeupTurnEnds(k) \/ WakeupTurnFails(k) PROVE AttendInv'
    <2>1. /\ place[k] = "turn" /\ main' = "idle" /\ UNCHANGED stop
          /\ \E done \in {"ok", "idle"} : place' = [place EXCEPT ![k] = done]
      BY <1>7 DEF WakeupTurnEnds, WakeupTurnFails
    <2>2. Queued(note) = {}
      BY <2>1 DEF TurnTakesAll
    <2>3. \A t \in Tasks : note'[t] = "queued" => t \in unattended'
      BY <1>7, <2>2 DEF WakeupTurnEnds, WakeupTurnFails, Queued, TypeOK
    <2>4. \A l \in Wakers : /\ place'[l] # "turn"
                            /\ place'[l] = "killed" => place[l] = "killed"
      BY <2>1 DEF WInv, CurrentOnItsWay, TypeOK
    <2> QED
      BY <2>1, <2>3, <2>4 DEF NoticesAttended, TurnTakesAll, WakeupHasCarrier, KilledByStop
  <1>8. ASSUME NEW k \in Wakers, WakeupReaped(k) PROVE AttendInv'
    <2> DEFINE freed == [place EXCEPT ![k] = "free"]
    <2>1. place[k] \in {"ok", "idle"} /\ UNCHANGED <<note, main, carried, stop, unattended>>
      BY <1>8 DEF WakeupReaped
    <2>2. /\ freed \in [Wakers -> Live \cup {"free", "ok", "idle"}]
          /\ \A l \in Wakers : l # k => freed[l] = place[l]
          /\ freed[k] = "free"
      BY DEF TypeOK
    <2>3. CASE current = k /\ place[k] = "ok"
      <3>1. Schedule(note', NoWaker, freed)
        BY <1>8, <2>1, <2>3 DEF WakeupReaped
      <3>2. \A l \in Wakers : freed[l] \in {"start", "turn"} => NoWaker = l
        BY <2>2, <2>3 DEF WInv, CurrentOnItsWay
      <3>3. /\ \A l \in Wakers : freed[l] \in {"turn", "killed"} => freed[l] = place[l]
            /\ (\E l \in Wakers : place[l] = "turn") => Queued(note') = {}
        BY <2>1, <2>2 DEF TurnTakesAll, Queued
      <3>4. note' \in [Tasks -> {"none", "untold", "queued", "sent"}]
        BY <2>1 DEF TypeOK
      <3> HIDE DEF freed
      <3> QED
        BY <2>1, <2>2, <3>1, <3>2, <3>3, <3>4, ScheduleKeepsAttended
    <2>4. CASE ~(current = k /\ place[k] = "ok")
      <3>1. place' = freed /\ current' = (IF current = k THEN NoWaker ELSE current)
        BY <1>8, <2>4 DEF WakeupReaped
      <3>2. Busy(current, place) => Busy(current', place')
        <4>1. ASSUME Busy(current, place) PROVE current # k /\ current \in Wakers
          BY <2>1, <4>1 DEF Busy, TypeOK
        <4> QED
          BY <2>2, <3>1, <4>1 DEF Busy
      <3>3. NoticesAttended'
        BY <2>1, <3>2 DEF NoticesAttended
      <3>4. \A l \in Wakers : place'[l] \in {"turn", "killed"} => place[l] = place'[l]
        BY <2>2, <3>1
      <3> QED
        BY <2>1, <3>3, <3>4 DEF TurnTakesAll, WakeupHasCarrier, KilledByStop, Queued
    <2> QED
      BY <2>3, <2>4
  <1>9. ASSUME NEW k \in Wakers, WakeupUnwinds(k) PROVE AttendInv'
    <2>1. /\ place[k] = "killed" /\ UNCHANGED <<note, stop>>
          /\ place' = [place EXCEPT ![k] = "free"]
          /\ carried' = [carried EXCEPT ![k] = {}]
          /\ (carried[k] = {} /\ main' = main) \/ main' = "idle"
      BY <1>9 DEF WakeupUnwinds
    <2>2. \A t \in Tasks : note'[t] # "queued"
      BY <2>1 DEF KilledByStop, WInv, StopIsQuiet
    <2>3. WakeupHasCarrier' /\ KilledByStop'
      BY <2>1 DEF WakeupHasCarrier, KilledByStop, TypeOK
    <2> QED
      BY <2>2, <2>3, NoneQueued
  <1>10. CASE StopRequest
    BY <1>10 DEF StopRequest, NoticesAttended, TurnTakesAll, WakeupHasCarrier, KilledByStop,
                 Queued, Busy
  <1>11. CASE StopCancels
    <2>1. /\ \A t \in Tasks : note'[t] # "queued"
          /\ stop' = "gather" /\ UNCHANGED <<main, carried>>
      BY <1>11 DEF StopCancels, NotesStopped
    <2> QED
      BY <2>1, NoneQueued DEF WakeupHasCarrier, KilledByStop
  <1>12. CASE StopEnds
    BY <1>12 DEF StopEnds, NoticesAttended, TurnTakesAll, WakeupHasCarrier, KilledByStop,
                 Queued, Busy
  <1> QED
    BY <1>1, <1>2, <1>3, <1>4, <1>5, <1>6, <1>7, <1>8, <1>9, <1>10, <1>11, <1>12,
       <1>13
       DEF Next, WakeupLooks, TurnOfWakeup, StopStep, TurnGoesOn

\* Every queued notice but those of a failed turn, those left to a conversation
\* change and those queued when a turn ended that does not look, has a wakeup on
\* its way or a user's turn still to end.
THEOREM NoticesAreAttended == Spec => []NoticesAttended
  <1>1. AttendInv => NoticesAttended
    BY DEF AttendInv
  <1> QED
    BY <1>1, AttendInit, AttendNext, WakeupInvariance, PTL DEF Spec

-----------------------------------------------------------------------------
(* A notice only moves forward. *)

\* A child that has yet to end has nothing to tell, and what a turn carries
\* has been sent.
NotesFollowTasks ==
    /\ \A t \in Tasks : status[t] \in {"none", "pending"} => note[t] = "none"
    /\ \A k \in Wakers : \A t \in carried[k] : note[t] = "sent"

\* A notice is made by the end of its child and sent at most once: only a turn that
\* failed puts it back, and then no one is due to retry it.
NoticeAdvances(t) ==
    \/ note[t] = "none" /\ note'[t] = "untold" /\ status[t] = "pending" /\ status'[t] = "ended"
    \/ note[t] = "untold" /\ note'[t] \in {"queued", "none"}
    \/ note[t] = "queued" /\ note'[t] \in {"sent", "none"}
    \/ note[t] = "sent" /\ note'[t] = "queued" /\ t \in unattended'

NoticesAdvance == [][\A t \in Tasks : note'[t] = note[t] \/ NoticeAdvances(t)]_vars

LEMMA NotesInit == Init => NotesFollowTasks
  BY DEF Init, NotesFollowTasks

LEMMA NotesStep ==
  ASSUME WInv, NotesFollowTasks, [Next]_vars
  PROVE  NotesFollowTasks' /\ \A t \in Tasks : note'[t] = note[t] \/ NoticeAdvances(t)
  <1> USE DEF NotesFollowTasks
  <1> TypeOK
    BY DEF WInv
  <1> DEFINE Goal == NotesFollowTasks' /\ \A t \in Tasks : note'[t] = note[t] \/ NoticeAdvances(t)
  <1>1. CASE \/ UNCHANGED vars \/ \E t \in Tasks : Ask(t) \/ Poll(t)
             \/ TurnAdmitted \/ TurnGoesOn \/ ChatRejected \/ GraceEnds
             \/ SwitchBegins \/ SwitchLocks \/ SwitchEnds \/ StopRequest \/ StopEnds
    <2>1. UNCHANGED <<note, carried>>
      BY <1>1 DEF vars, Ask, Poll, TurnAdmitted, TurnGoesOn, TurnBegins, TurnEnds, TurnUnseen,
                  ChatRejected, GraceEnds,
                  SwitchBegins, SwitchLocks, SwitchEnds, StopRequest, StopEnds
    <2>2. \A t \in Tasks : status'[t] \in {"none", "pending"} => note[t] = "none"
      BY <1>1 DEF vars, Ask, Poll, TurnAdmitted, TurnGoesOn, TurnBegins, TurnEnds, TurnUnseen,
                  ChatRejected, GraceEnds,
                  SwitchBegins, SwitchLocks, SwitchEnds, StopRequest, StopEnds, TypeOK
    <2> QED
      BY <2>1, <2>2
  <1>2. ASSUME NEW t \in Tasks, ChildEnds(t) PROVE Goal
    BY <1>2 DEF ChildEnds, NoticeAdvances, TypeOK
  <1>3. ASSUME NEW t \in Tasks, ChildTells(t) PROVE Goal
    <2>1. /\ note[t] = "untold" /\ note'[t] \in {"queued", "none"}
          /\ \A u \in Tasks : u # t => note'[u] = note[u]
          /\ UNCHANGED <<status, carried>>
      BY <1>3 DEF ChildTells, QueuedNow, TypeOK
    <2> QED
      BY <2>1 DEF NoticeAdvances, TypeOK
  <1>4. ASSUME NEW k \in Wakers, WakeupObsolete(k) PROVE Goal
    BY <1>4 DEF WakeupObsolete, Cleared, NoticeAdvances, TypeOK
  <1>5. ASSUME NEW k \in Wakers, WakeupDeferred(k) \/ WakeupReaped(k) PROVE Goal
    BY <1>5 DEF WakeupDeferred, WakeupReaped
  <1>6. ASSUME NEW k \in Wakers, WakeupClaims(k) PROVE Goal
    <2> DEFINE claimed == {t \in Queued(note) : Eligible(t)}
    <2>1. /\ \A t \in claimed : note[t] = "queued" /\ note'[t] = "sent"
          /\ \A t \in Tasks : t \notin claimed => note'[t] = Cleared(note)[t]
          /\ UNCHANGED status
      BY <1>6 DEF WakeupClaims, Queued
    <2>2. \A t \in Tasks : \/ note'[t] = note[t]
                           \/ note[t] = "queued" /\ note'[t] \in {"sent", "none"}
      BY <2>1 DEF Cleared
    <2>3. carried' = carried \/ carried' = [carried EXCEPT ![k] = claimed]
      BY <1>6 DEF WakeupClaims
    <2>4. \A l \in Wakers : \A t \in carried'[l] : note'[t] = "sent"
      <3> HIDE DEF claimed
      <3> QED
        BY <2>1, <2>2, <2>3 DEF TypeOK
    <2> QED
      BY <2>1, <2>2, <2>4 DEF NoticeAdvances
  <1>7. ASSUME NEW k \in Wakers, WakeupTurnEnds(k) PROVE Goal
    BY <1>7 DEF WakeupTurnEnds, TypeOK
  <1>8. ASSUME NEW k \in Wakers, WakeupTurnFails(k) PROVE Goal
    <2>1. /\ carried' = [carried EXCEPT ![k] = {}] /\ UNCHANGED status
          /\ \A t \in Tasks : \/ note'[t] = note[t]
                              \/ t \in carried[k] /\ note'[t] = "queued" /\ t \in unattended'
      BY <1>8 DEF WakeupTurnFails, TypeOK
    <2>2. \A l \in Wakers : l # k => carried'[l] = {}
      BY <1>8, <2>1 DEF WakeupTurnFails, WInv, OneCarrier, TurnCarries, TypeOK
    <2>3. carried'[k] = {}
      BY <2>1 DEF TypeOK
    <2>4. \A t \in carried[k] : note[t] = "sent"
      OBVIOUS
    <2> QED
      BY <2>1, <2>2, <2>3, <2>4 DEF NoticeAdvances, TypeOK
  <1>9. ASSUME NEW k \in Wakers, WakeupUnwinds(k) PROVE Goal
    BY <1>9 DEF WakeupUnwinds, TypeOK
  <1>10. CASE StopCancels
    BY <1>10 DEF StopCancels, NotesStopped, NoticeAdvances, TypeOK
  <1> QED
    BY <1>1, <1>2, <1>3, <1>4, <1>5, <1>6, <1>7, <1>8, <1>9, <1>10
       DEF Next, WakeupLooks, TurnOfWakeup, StopStep

\* Whatever wakeups, stops, failures and conversation changes do, a child's
\* notice is made once, when the child ends, and sent once unless its turn fails.
THEOREM NoticesOnlyAdvance == Spec => NoticesAdvance
  <1>1. WInv /\ NotesFollowTasks /\ [Next]_vars
        => [\A t \in Tasks : note'[t] = note[t] \/ NoticeAdvances(t)]_vars
    BY NotesStep
  <1>2. WInv /\ NotesFollowTasks /\ [Next]_vars => NotesFollowTasks'
    BY NotesStep
  <1> QED
    BY <1>1, <1>2, NotesInit, WakeupInvariance, PTL DEF Spec, NoticesAdvance

-----------------------------------------------------------------------------
(* The life of the tasks (TaskLife). *)

GatherFindsNone == stop = "gather" => \A t \in Tasks : status[t] # "pending"

stoppingNow == [r \in {"run"} |-> IF stop = "abort" THEN "asked"
                                  ELSE IF stop = "gather" THEN "cancelled" ELSE "no"]

LEMMA WakeupLifeStep ==
  ASSUME TypeOK, GatherFindsNone, [Next]_vars
  PROVE  GatherFindsNone' /\ (Life!Next \/ UNCHANGED <<status, stoppingNow>>)
  <1> USE DEF GatherFindsNone
  <1>1. ASSUME NEW t \in Tasks, Ask(t) PROVE Life!Ask(t) /\ GatherFindsNone'
    BY <1>1 DEF Ask, Life!Ask
  <1>2. ASSUME NEW t \in Tasks, ChildEnds(t) PROVE Life!End(t) /\ GatherFindsNone'
    BY <1>2 DEF ChildEnds, Life!End
  <1>3. CASE StopRequest
    <2>1. Life!StopAsked("run") /\ GatherFindsNone'
      BY <1>3 DEF StopRequest, Life!StopAsked
    <2> QED
      BY <2>1 DEF Life!Next
  <1>4. CASE StopCancels
    <2>1. \A t \in Tasks : status'[t] = IF status[t] = "pending" THEN "cancelled" ELSE status[t]
      BY <1>4 DEF StopCancels
    <2>2. Life!CancelAll("run")
      BY <1>4 DEF StopCancels, Life!CancelAll, Life!TasksOf
    <2>3. Life!StopCancels("run")
      BY <1>4, <2>2 DEF StopCancels, Life!StopCancels
    <2> QED
      BY <1>4, <2>1, <2>3 DEF Life!Next, StopCancels
  <1>5. CASE StopEnds
    <2>1. Life!StopReturns("run")
      BY <1>5 DEF StopEnds, Life!StopReturns, Life!TasksOf
    <2> QED
      BY <1>5, <2>1 DEF Life!Next, StopEnds
  <1>6. ASSUME UNCHANGED <<status, stop>>
        PROVE  GatherFindsNone' /\ UNCHANGED <<status, stoppingNow>>
    BY <1>6 DEF stoppingNow
  <1>7. CASE \/ UNCHANGED vars \/ \E t \in Tasks : Poll(t) \/ ChildTells(t)
             \/ TurnAdmitted \/ TurnGoesOn \/ ChatRejected \/ GraceEnds
             \/ SwitchBegins \/ SwitchLocks \/ SwitchEnds
    BY <1>6, <1>7 DEF vars, Poll, ChildTells, TurnAdmitted, TurnGoesOn, TurnBegins, TurnEnds,
                      TurnUnseen, ChatRejected,
                      GraceEnds, SwitchBegins, SwitchLocks, SwitchEnds
  <1>8. ASSUME NEW k \in Wakers, \/ WakeupLooks(k) \/ TurnOfWakeup(k)
                                 \/ WakeupReaped(k) \/ WakeupUnwinds(k)
        PROVE  GatherFindsNone' /\ UNCHANGED <<status, stoppingNow>>
    BY <1>6, <1>8 DEF WakeupLooks, WakeupObsolete, WakeupDeferred, WakeupClaims, TurnOfWakeup,
                      WakeupTurnEnds, WakeupTurnFails, WakeupReaped, WakeupUnwinds
  <1> QED
    BY <1>1, <1>2, <1>3, <1>4, <1>5, <1>7, <1>8 DEF Next, StopStep, Life!Next

\* The tasks and stops that wakeups are about live as TaskLife says, as those of
\* ClusterTasks do.
THEOREM WakeupImplementsLife == Spec => ImplementsLife
  <1>1. Init => Life!Init /\ GatherFindsNone
    BY DEF Init, Life!Init, GatherFindsNone
  <1>2. TypeOK /\ GatherFindsNone /\ [Next]_vars => GatherFindsNone' /\ [Life!Next]_(Life!tasks)
    BY WakeupLifeStep DEF Life!tasks, stoppingNow
  <1> QED
    BY <1>1, <1>2, WakeupTypeCorrect, PTL DEF Spec, ImplementsLife, Life!Spec

=============================================================================
