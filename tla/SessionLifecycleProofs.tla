----------------------- MODULE SessionLifecycleProofs -----------------------
(***************************************************************************)
(* Proofs about SessionLifecycle, for any number of calls, stops and       *)
(* conversations: types always; and, when every chat takes the session's   *)
(* scope (no Workers, which ChildSession shows to be necessary), that the  *)
(* session is held exactly while it is in use, that a stop ends only what  *)
(* it was meant for, that a turn runs in the conversation it was sent to,  *)
(* that an update finds the host quiet, and that all of this makes the     *)
(* session a hold in the sense of SessionHold.                             *)
(***************************************************************************)
EXTENDS SessionLifecycle, TLAPS

-----------------------------------------------------------------------------
(* Types, and what the helpers do to the session's fields *)

\* _finish_control_execution touches the execution that ends, and the hold with it
\* when it is detached; the other fields stay.
LEMMA FinishedFields ==
  ASSUME NEW f \in Fields, NEW e \in Chats \cup {NoCall}
  PROVE  /\ Finished(f, e) \in Fields
         /\ f.exec # e => Finished(f, e) = f
         /\ f.exec = e =>
              /\ Finished(f, e).exec = NoCall /\ ~Finished(f, e).detached
              /\ Finished(f, e).op = IF f.detached THEN "" ELSE f.op
              /\ Finished(f, e).token = IF f.detached THEN NoCall ELSE f.token
         /\ Finished(f, e).processing = f.processing
         /\ Finished(f, e).stopRequested = f.stopRequested
         /\ Finished(f, e).process = f.process
         /\ Finished(f, e).aborted = f.aborted
         /\ Finished(f, e).active = f.active
  <1>1. CASE f.exec # e
    BY <1>1 DEF Finished
  <1>2. CASE f.exec = e /\ f.detached
    BY <1>2 DEF Finished, Fields
  <1>3. CASE f.exec = e /\ ~f.detached
    BY <1>3 DEF Finished, Fields
  <1> QED
    BY <1>1, <1>2, <1>3

\* The exit of a scope gives up the hold of its own token, unless the execution
\* was detached meanwhile; the other fields stay.
LEMMA ReleasedFields ==
  ASSUME NEW f \in Fields, NEW c \in Calls, f.exec = c => c \in Chats
  PROVE  /\ Released(f, c) \in Fields
         /\ f.token # c \/ f.detached => Released(f, c) = f
         /\ f.token = c /\ ~f.detached =>
              /\ Released(f, c).op = "" /\ Released(f, c).token = NoCall
              /\ ~Released(f, c).detached
              /\ Released(f, c).exec = IF f.exec = c THEN NoCall ELSE f.exec
         /\ Released(f, c).processing = f.processing
         /\ Released(f, c).stopRequested = f.stopRequested
         /\ Released(f, c).process = f.process
         /\ Released(f, c).aborted = f.aborted
         /\ Released(f, c).active = f.active
  <1> DEFINE g == [f EXCEPT !.op = "", !.token = NoCall]
  <1>1. CASE f.token # c \/ f.detached
    BY <1>1 DEF Released
  <1>2. CASE f.token = c /\ ~f.detached
    <2>1. /\ g \in Fields /\ g.op = "" /\ g.token = NoCall /\ g.exec = f.exec
          /\ g.detached = f.detached /\ g.processing = f.processing
          /\ g.stopRequested = f.stopRequested /\ g.process = f.process
          /\ g.aborted = f.aborted /\ g.active = f.active
      BY DEF Fields
    <2>2. Released(f, c) = Finished(g, c)
      BY <1>2 DEF Released
    <2> HIDE DEF g
    <2>3. CASE f.exec = c
      <3>1. c \in Chats \cup {NoCall} /\ g.exec = c /\ ~g.detached
        BY <1>2, <2>1, <2>3
      <3>2. Finished(g, c) \in Fields
        BY <2>1, <3>1, FinishedFields
      <3>3. /\ Finished(g, c).exec = NoCall /\ ~Finished(g, c).detached
            /\ Finished(g, c).op = "" /\ Finished(g, c).token = NoCall
        BY <2>1, <3>1, FinishedFields
      <3>4. /\ Finished(g, c).processing = f.processing
            /\ Finished(g, c).stopRequested = f.stopRequested
            /\ Finished(g, c).process = f.process
            /\ Finished(g, c).aborted = f.aborted
            /\ Finished(g, c).active = f.active
        BY <2>1, <3>1, FinishedFields
      <3> QED
        BY <1>2, <2>2, <2>3, <3>2, <3>3, <3>4
    <2>4. CASE f.exec # c
      <3>1. Finished(g, c) = g
        BY <2>1, <2>4 DEF Finished
      <3> QED
        BY <1>2, <2>1, <2>2, <2>4, <3>1
    <2> QED
      BY <2>3, <2>4
  <1> QED
    BY <1>1, <1>2

\* A chat that is admitted has operation, token and execution of the session.
LEMMA ReservedFields ==
  ASSUME NEW f \in Fields, NEW k \in Chats
  PROVE  /\ Reserved(f, k) \in Fields
         /\ Reserved(f, k).op = "chat" /\ Reserved(f, k).token = k
         /\ Reserved(f, k).exec = k /\ ~Reserved(f, k).detached
         /\ ~Reserved(f, k).stopRequested
         /\ Reserved(f, k).processing = f.processing
         /\ Reserved(f, k).process = f.process
         /\ Reserved(f, k).aborted = f.aborted
         /\ Reserved(f, k).active = f.active
  BY SessionAssumption DEF Reserved, Fields, Calls

\* The cleanup of a turn clears process, processing and the stop request only.
LEMMA ResetFields ==
  ASSUME NEW f \in Fields
  PROVE  /\ Reset(f) \in Fields
         /\ ~Reset(f).processing /\ Reset(f).process = NoCall /\ ~Reset(f).stopRequested
         /\ Reset(f).op = f.op /\ Reset(f).token = f.token /\ Reset(f).exec = f.exec
         /\ Reset(f).detached = f.detached /\ Reset(f).aborted = f.aborted
         /\ Reset(f).active = f.active
  BY DEF Reset, Fields

\* Asking for the abort task changes nothing unless the expected execution runs.
LEMMA AbortingFields ==
  ASSUME NEW f \in Fields, NEW e, NEW r \in Chats \cup {NoCall}
  PROVE  /\ Aborting(f, e, r) \in Fields
         /\ Aborting(f, e, r) # f =>
              /\ f.exec = e /\ f.processing /\ Aborting(f, e, r).aborted = r
         /\ Aborting(f, e, r).processing = f.processing
         /\ Aborting(f, e, r).op = f.op /\ Aborting(f, e, r).token = f.token
         /\ Aborting(f, e, r).exec = f.exec /\ Aborting(f, e, r).detached = f.detached
         /\ Aborting(f, e, r).process = f.process /\ Aborting(f, e, r).active = f.active
  <1>1. CASE f.exec # e \/ f.abortTask \/ ~f.processing
    BY <1>1 DEF Aborting
  <1>2. CASE ~(f.exec # e \/ f.abortTask \/ ~f.processing)
    BY <1>2 DEF Aborting, Fields
  <1> QED
    BY <1>1, <1>2

\* A turn starts, of whatever kind.
Starts(k) == \E kind \in Kinds : StartTurn(k, kind)

\* A turn that begins starts with a kind.
LEMMA BeginStarts ==
  ASSUME NEW k \in Chats, BeginTurn(k) \/ BeginNative(k)
  PROVE  Starts(k) /\ UNCHANGED <<pc, captured, victim, updating, wanted, stopped, overrun>>
  BY SessionAssumption DEF BeginTurn, BeginNative, Starts

\* What a removal that drops the active conversation changes.
LEMMA UnbindFields ==
  ASSUME session \in Fields, overrun \subseteq Chats, NEW d \in Deletes, Unbind(d)
  PROVE  /\ session' \in Fields /\ overrun \subseteq overrun' /\ overrun' \subseteq Chats
         /\ session' = session \/ session' = [session EXCEPT !.active = NoConv]
  <1>1. CASE victim[d].wasActive
    <2>1. session' = [session EXCEPT !.active = NoConv]
      BY <1>1 DEF Unbind, SetActive
    <2>2. session' \in Fields
      BY <2>1 DEF Fields
    <2>3. overrun \subseteq overrun' /\ overrun' \subseteq Chats
      BY <1>1 DEF Unbind, SetActive
    <2> QED
      BY <2>1, <2>2, <2>3
  <1>2. CASE ~victim[d].wasActive
    BY <1>2 DEF Unbind
  <1> QED
    BY <1>1, <1>2

\* What a step of a removal changes.
LEMMA RemovalFields ==
  ASSUME TypeOK, NEW d \in Deletes, DeleteHalf(d) \/ DeleteRest(d)
  PROVE  /\ session' \in Fields /\ overrun \subseteq overrun' /\ overrun' \subseteq Chats
         /\ session' = session \/ session' = [session EXCEPT !.active = NoConv]
         /\ UNCHANGED <<turn, under, place, captured, victim, updating, wanted, stopped, reading>>
  BY UnbindFields DEF DeleteHalf, DeleteRest, TypeOK

\* What a read that binds changes.
LEMMA BindsFields ==
  ASSUME TypeOK, ReadBinds
  PROVE  /\ session' \in Fields /\ overrun \subseteq overrun' /\ overrun' \subseteq Chats
         /\ session' = [session EXCEPT !.active = reading]
  <1>1. session' = [session EXCEPT !.active = reading] /\ reading \in Convs
    BY DEF ReadBinds, SetActive, TypeOK
  <1>2. session' \in Fields
    BY <1>1 DEF TypeOK, Fields
  <1>3. overrun \subseteq overrun' /\ overrun' \subseteq Chats
    BY DEF ReadBinds, SetActive, TypeOK
  <1> QED
    BY <1>1, <1>2, <1>3

\* What StartTurn does to the session's fields.
LEMMA StartTurnFields ==
  ASSUME TypeOK, NEW k \in Chats, Starts(k)
  PROVE  /\ session' \in Fields
         /\ session'.processing
         /\ session'.exec = IF session.exec = NoCall THEN k ELSE session.exec
         /\ session'.stopRequested = (session.stopRequested /\ session.exec # NoCall)
         /\ session'.op = session.op /\ session'.token = session.token
         /\ session'.detached = session.detached /\ session'.process = session.process
         /\ session'.aborted = session.aborted
         /\ under' = [under EXCEPT ![k] = IF session.exec = NoCall THEN k ELSE session.exec]
         /\ \E c \in Convs \cup {NoConv} : place' = [place EXCEPT ![k].in = c]
  <1>0. PICK kind \in Kinds : StartTurn(k, kind)
    BY DEF Starts
  <1> DEFINE lost == ~Fits(session.active, kind)
  <1>1. PICK c \in Convs \cup {NoConv} :
          /\ place' = [place EXCEPT ![k].in = c]
          /\ under' = [under EXCEPT ![k] = IF session.exec = NoCall THEN k ELSE session.exec]
          /\ session' = [session EXCEPT !.processing = TRUE,
                           !.exec = IF @ = NoCall THEN k ELSE @,
                           !.stopRequested = @ /\ session.exec # NoCall,
                           !.active = IF lost THEN c ELSE @]
    BY <1>0 DEF StartTurn
  <1>2. session \in Fields
    BY DEF TypeOK
  <1> DEFINE flag == session.stopRequested /\ session.exec # NoCall
             execution == IF session.exec = NoCall THEN k ELSE session.exec
             target == IF lost THEN c ELSE session.active
  <1>3. session' = [session EXCEPT !.processing = TRUE, !.exec = execution,
                                   !.stopRequested = flag, !.active = target]
    BY <1>1, <1>2 DEF Fields
  <1>4. flag \in BOOLEAN /\ execution \in Chats \cup {NoCall} /\ target \in Convs \cup {NoConv}
    BY <1>2 DEF Fields
  <1>5. under' = [under EXCEPT ![k] = execution] /\ place' = [place EXCEPT ![k].in = c]
    BY <1>1
  <1> HIDE DEF flag, execution, target, lost
  <1>6. session' \in Fields
    BY <1>2, <1>3, <1>4 DEF Fields
  <1>7. /\ session'.processing
        /\ session'.exec = execution /\ session'.stopRequested = flag
        /\ session'.op = session.op /\ session'.token = session.token
        /\ session'.detached = session.detached /\ session'.process = session.process
        /\ session'.aborted = session.aborted
    BY <1>2, <1>3, <1>4 DEF Fields
  <1> QED
    BY <1>5, <1>6, <1>7 DEF flag, execution

\* The initial states are well typed.
LEMMA TypeInit == Init => TypeOK
  <1> SUFFICES ASSUME Init PROVE TypeOK
    OBVIOUS
  <1>1. session \in Fields
    BY DEF Init, Fields
  <1>2. /\ pc \in [Calls -> {"new", "in", "done", "asked", "acting", "checked", "half", "over"}]
        /\ turn \in [Chats -> {"none", "queued", "run", "attached", "detached", "closing",
                                "cleaning", "over"}]
        /\ under \in [Chats -> Chats \cup {NoCall}]
        /\ conv \in [Convs -> {"free", "there", "archived", "deleted"}]
        /\ updating \in BOOLEAN /\ wanted \subseteq Chats /\ stopped \subseteq Chats
        /\ reading \in Convs \cup {NoConv} /\ overrun \subseteq Chats
    BY DEF Init
  <1>3. place \in [Chats -> [asked : Convs \cup {NoConv}, in : Convs \cup {NoConv}]]
    BY DEF Init
  <1>4. captured \in [Stops -> [exec : Chats \cup {NoCall}, process : Chats \cup {NoCall},
                                busy : BOOLEAN, native : BOOLEAN]]
    BY DEF Init, NoStop
  <1>5. victim \in [Deletes -> [of : Convs \cup {NoConv}, wasActive : BOOLEAN, archive : BOOLEAN]]
    BY DEF Init, NoVictim
  <1> QED
    BY <1>1, <1>2, <1>3, <1>4, <1>5 DEF TypeOK

\* Every step keeps the types of the session's fields.
LEMMA SessionTyped == TypeOK /\ [Next]_vars => session' \in Fields
  <1> SUFFICES ASSUME TypeOK, [Next]_vars PROVE session' \in Fields
    OBVIOUS
  <1> USE SessionAssumption
  <1>0. session \in Fields
    BY DEF TypeOK
  <1>1. ASSUME NEW k \in Chats, EnterChat(k) PROVE session' \in Fields
    BY <1>0, <1>1, ReservedFields DEF EnterChat
  <1>2. ASSUME NEW k \in Chats, LeaveChat(k) PROVE session' \in Fields
    BY <1>0, <1>2, ReleasedFields DEF LeaveChat, Calls
  <1>3. ASSUME NEW k \in Chats, BeginTurn(k) \/ BeginNative(k) PROVE session' \in Fields
    BY <1>3, StartTurnFields, BeginStarts
  <1>4. ASSUME NEW k \in Chats, DetachTurn(k) PROVE session' \in Fields
    BY <1>0, <1>4 DEF DetachTurn, Fields
  <1>5. ASSUME NEW k \in Chats, RefuseNative(k) PROVE session' \in Fields
    BY <1>0, <1>5, FinishedFields DEF RefuseNative
  <1>6. ASSUME NEW k \in Chats, ProcessStarts(k) PROVE session' \in Fields
    BY <1>0, <1>6 DEF ProcessStarts, Fields
  <1>7. ASSUME NEW k \in Chats, ProcessEnds(k) \/ TurnCompletes(k) PROVE session' \in Fields
    BY <1>0, <1>7 DEF ProcessEnds, TurnCompletes, Fields
  <1>8. ASSUME NEW k \in Chats, TurnBreaks(k) \/ CloseLooks(k) PROVE session' \in Fields
    BY <1>0, <1>8 DEF TurnBreaks, CloseLooks
  <1>9. ASSUME NEW k \in Chats, CloseResets(k) PROVE session' \in Fields
    BY <1>0, <1>9, ResetFields, FinishedFields DEF CloseResets
  <1>10. ASSUME NEW k \in Chats, EndNative(k) PROVE session' \in Fields
    <2>1. under[k] \in Chats \cup {NoCall}
      BY DEF TypeOK
    <2> QED
      BY <1>0, <1>10, <2>1, ResetFields, FinishedFields DEF EndNative
  <1>11. ASSUME NEW k \in Chats, GraceAborts(k) PROVE session' \in Fields
    <2>1. session.process \in Chats \cup {NoCall}
      BY <1>0 DEF Fields
    <2> QED
      BY <1>0, <1>11, <2>1, AbortingFields DEF GraceAborts
  <1>12. ASSUME AbortEnds PROVE session' \in Fields
    BY <1>0, <1>12 DEF AbortEnds, Fields
  <1>13. ASSUME NEW s \in Stops, StopAsked(s) PROVE session' \in Fields
    <2> DEFINE flag == session.stopRequested \/ (session.processing \/ session.op = "chat")
    <2>1. session' = [session EXCEPT !.stopTask = s,
                        !.stopRequested = @ \/ (session.processing \/ session.op = "chat")]
      BY <1>13 DEF StopAsked
    <2>2. session' = [session EXCEPT !.stopTask = s, !.stopRequested = flag]
      BY <1>0, <2>1 DEF Fields
    <2>3. flag \in BOOLEAN
      BY <1>0 DEF Fields
    <2> HIDE DEF flag
    <2> QED
      BY <1>0, <2>2, <2>3 DEF Fields
  <1>14. ASSUME NEW s \in Stops, StopActs(s) PROVE session' \in Fields
    <2>1. captured[s].process \in Chats \cup {NoCall}
      BY DEF TypeOK
    <2> QED
      BY <1>0, <1>14, <2>1, AbortingFields DEF StopActs
  <1>15. ASSUME NEW s \in Stops, StopReturns(s) PROVE session' \in Fields
    BY <1>0, <1>15 DEF StopReturns, Fields
  <1>16. ASSUME NEW x \in Changes, EnterChange(x) \/ Change(x) PROVE session' \in Fields
    <2>1. CASE EnterChange(x)
      BY <1>0, <2>1 DEF EnterChange, Fields, Calls
    <2>2. CASE Change(x)
      <3>1. PICK c \in Convs : session' = [session EXCEPT !.active = c]
        BY <2>2 DEF Change
      <3> QED
        BY <1>0, <3>1 DEF Fields
    <2> QED
      BY <1>16, <2>1, <2>2
  <1>17. ASSUME NEW x \in Changes, LeaveChange(x) PROVE session' \in Fields
    <2>1. x \in Calls /\ (session.exec = x => x \in Chats)
      BY <1>0 DEF Fields, Calls
    <2> QED
      BY <1>0, <1>17, <2>1, ReleasedFields DEF LeaveChange
  <1>18. ASSUME NEW d \in Deletes, DeleteHalf(d) \/ DeleteRest(d) PROVE session' \in Fields
    BY <1>18, RemovalFields
  <1>19. ASSUME NEW d \in Deletes, NEW c \in Convs, NEW a \in BOOLEAN, DeleteLooks(d, c, a)
         PROVE session' \in Fields
    BY <1>0, <1>19 DEF DeleteLooks
  <1>20. ASSUME ApplyUpdate \/ UNCHANGED vars PROVE session' \in Fields
    BY <1>0, <1>20 DEF ApplyUpdate, vars
  <1>21. ASSUME NEW c \in Convs, ReadLooks(c) PROVE session' \in Fields
    BY <1>0, <1>21 DEF ReadLooks
  <1>22. ASSUME ReadBinds PROVE session' \in Fields
    BY <1>22, BindsFields
  <1> QED
    BY <1>21, <1>22, <1>1, <1>2, <1>3, <1>4, <1>5, <1>6, <1>7, <1>8, <1>9, <1>10, <1>11, <1>12, <1>13,
       <1>14, <1>15, <1>16, <1>17, <1>18, <1>19, <1>20 DEF Next

\* The types of everything but the session's fields.
CallsTyped ==
    /\ pc \in [Calls -> {"new", "in", "done", "asked", "acting", "checked", "half", "over"}]
    /\ turn \in [Chats -> {"none", "queued", "run", "attached", "detached", "closing",
                           "cleaning", "over"}]
    /\ under \in [Chats -> Chats \cup {NoCall}]
    /\ place \in [Chats -> [asked : Convs \cup {NoConv}, in : Convs \cup {NoConv}]]
    /\ conv \in [Convs -> {"free", "there", "archived", "deleted"}]
    /\ captured \in [Stops -> [exec : Chats \cup {NoCall}, process : Chats \cup {NoCall},
                               busy : BOOLEAN, native : BOOLEAN]]
    /\ victim \in [Deletes -> [of : Convs \cup {NoConv}, wasActive : BOOLEAN,
                               archive : BOOLEAN]]
    /\ updating \in BOOLEAN
    /\ wanted \subseteq Chats /\ stopped \subseteq Chats
    /\ reading \in Convs \cup {NoConv} /\ overrun \subseteq Chats

\* start_turn keeps the types of what else it changes.
LEMMA StartTurnTyped ==
  ASSUME TypeOK, NEW k \in Chats, Starts(k)
  PROVE  /\ under' \in [Chats -> Chats \cup {NoCall}]
         /\ place' \in [Chats -> [asked : Convs \cup {NoConv}, in : Convs \cup {NoConv}]]
         /\ conv' \in [Convs -> {"free", "there", "archived", "deleted"}]
         /\ reading' \in Convs \cup {NoConv}
  <1>0. PICK kind \in Kinds : StartTurn(k, kind)
    BY DEF Starts
  <1>1. PICK c \in Convs \cup {NoConv} :
          /\ place' = [place EXCEPT ![k].in = c]
          /\ conv' = IF c = NoConv THEN conv ELSE [conv EXCEPT ![c] = "there"]
    BY <1>0 DEF StartTurn
  <1>2. under' = [under EXCEPT ![k] = IF session.exec = NoCall THEN k ELSE session.exec]
    BY <1>0 DEF StartTurn
  <1>3. session.exec \in Chats \cup {NoCall}
    BY DEF TypeOK, Fields
  <1>4. under' \in [Chats -> Chats \cup {NoCall}]
    BY <1>2, <1>3 DEF TypeOK
  <1>5. place' \in [Chats -> [asked : Convs \cup {NoConv}, in : Convs \cup {NoConv}]]
    BY <1>1 DEF TypeOK
  <1>6. conv' \in [Convs -> {"free", "there", "archived", "deleted"}]
    BY <1>1 DEF TypeOK
  <1>7. reading' \in Convs \cup {NoConv}
    BY <1>0 DEF StartTurn, TypeOK
  <1> QED
    BY <1>4, <1>5, <1>6, <1>7

\* Every step keeps the types.
LEMMA TypeStep == TypeOK /\ [Next]_vars => TypeOK'
  <1> SUFFICES ASSUME TypeOK, [Next]_vars PROVE TypeOK'
    OBVIOUS
  <1>0. session \in Fields /\ session' \in Fields /\ CallsTyped
    BY SessionTyped DEF TypeOK, CallsTyped
  <1>1. ASSUME NEW k \in Chats, EnterChat(k) PROVE CallsTyped'
    BY <1>0, <1>1 DEF CallsTyped, EnterChat, Calls, Fields
  <1>2. ASSUME NEW k \in Chats, LeaveChat(k) PROVE CallsTyped'
    BY <1>0, <1>2 DEF CallsTyped, LeaveChat, Calls, Fields
  <1>3. ASSUME NEW k \in Chats, BeginTurn(k) PROVE CallsTyped'
    BY <1>0, <1>3, StartTurnTyped, BeginStarts DEF CallsTyped, BeginTurn
  <1>4. ASSUME NEW k \in Chats, DetachTurn(k) PROVE CallsTyped'
    BY <1>0, <1>4 DEF CallsTyped, DetachTurn, Calls, Fields
  <1>5. ASSUME NEW k \in Chats, BeginNative(k) PROVE CallsTyped'
    BY <1>0, <1>5, StartTurnTyped, BeginStarts DEF CallsTyped, BeginNative
  <1>6. ASSUME NEW k \in Chats, RefuseNative(k) PROVE CallsTyped'
    BY <1>0, <1>6 DEF CallsTyped, RefuseNative, Calls, Fields
  <1>7. ASSUME NEW k \in Chats, ProcessStarts(k) PROVE CallsTyped'
    BY <1>0, <1>7 DEF CallsTyped, ProcessStarts, Calls, Fields
  <1>8. ASSUME NEW k \in Chats, ProcessEnds(k) PROVE CallsTyped'
    BY <1>0, <1>8 DEF CallsTyped, ProcessEnds, Calls, Fields
  <1>9. ASSUME NEW k \in Chats, TurnCompletes(k) PROVE CallsTyped'
    BY <1>0, <1>9 DEF CallsTyped, TurnCompletes, Calls, Fields
  <1>10. ASSUME NEW k \in Chats, TurnBreaks(k) PROVE CallsTyped'
    BY <1>0, <1>10 DEF CallsTyped, TurnBreaks, Calls, Fields
  <1>11. ASSUME NEW k \in Chats, CloseLooks(k) PROVE CallsTyped'
    BY <1>0, <1>11 DEF CallsTyped, CloseLooks, Calls, Fields
  <1>12. ASSUME NEW k \in Chats, CloseResets(k) PROVE CallsTyped'
    BY <1>0, <1>12 DEF CallsTyped, CloseResets, Calls, Fields
  <1>13. ASSUME NEW k \in Chats, EndNative(k) PROVE CallsTyped'
    BY <1>0, <1>13 DEF CallsTyped, EndNative, Calls, Fields
  <1>14. ASSUME NEW k \in Chats, GraceAborts(k) PROVE CallsTyped'
    BY <1>0, <1>14 DEF CallsTyped, GraceAborts, Calls, Fields
  <1>15. ASSUME AbortEnds PROVE CallsTyped'
    BY <1>0, <1>15 DEF CallsTyped, AbortEnds, Calls, Fields, Ended
  <1>16. ASSUME NEW s \in Stops, StopAsked(s) PROVE CallsTyped'
    BY <1>0, <1>16 DEF CallsTyped, StopAsked, Calls, Fields
  <1>17. ASSUME NEW s \in Stops, StopActs(s) PROVE CallsTyped'
    <2>1. captured[s].process \in Chats \cup {NoCall}
      BY <1>0 DEF CallsTyped
    <2>2. stopped' = stopped \/ stopped' = stopped \cup Ended(captured[s].process)
      BY <1>17 DEF StopActs
    <2>3. stopped' \subseteq Chats
      BY <1>0, <2>1, <2>2 DEF CallsTyped, Ended
    <2>4. /\ pc' = [pc EXCEPT ![s] = "acting"] /\ s \in Calls
          /\ UNCHANGED <<turn, under, place, conv, captured, victim, updating, wanted, reading,
                         overrun>>
      BY <1>17 DEF StopActs, Calls
    <2> QED
      BY <1>0, <2>3, <2>4 DEF CallsTyped
  <1>18. ASSUME NEW s \in Stops, StopReturns(s) PROVE CallsTyped'
    BY <1>0, <1>18 DEF CallsTyped, StopReturns, Calls, Fields
  <1>19. ASSUME NEW x \in Changes, EnterChange(x) PROVE CallsTyped'
    BY <1>0, <1>19 DEF CallsTyped, EnterChange, Calls, Fields
  <1>20. ASSUME NEW x \in Changes, Change(x) PROVE CallsTyped'
    BY <1>0, <1>20 DEF CallsTyped, Change, Calls, Fields
  <1>21. ASSUME NEW x \in Changes, LeaveChange(x) PROVE CallsTyped'
    BY <1>0, <1>21 DEF CallsTyped, LeaveChange, Calls, Fields
  <1>22. ASSUME NEW d \in Deletes, NEW c \in Convs, NEW archive \in BOOLEAN,
                DeleteLooks(d, c, archive)
         PROVE CallsTyped'
    BY <1>0, <1>22 DEF CallsTyped, DeleteLooks, Calls, Fields
  <1>23. ASSUME NEW d \in Deletes, DeleteHalf(d) PROVE CallsTyped'
    BY <1>0, <1>23, RemovalFields DEF CallsTyped, DeleteHalf, Calls, Fields
  <1>24. ASSUME NEW d \in Deletes, DeleteRest(d) PROVE CallsTyped'
    BY <1>0, <1>24, RemovalFields DEF CallsTyped, DeleteRest, Calls, Fields
  <1>25. ASSUME ApplyUpdate PROVE CallsTyped'
    BY <1>0, <1>25 DEF CallsTyped, ApplyUpdate, Calls, Fields
  <1>26. ASSUME UNCHANGED vars PROVE CallsTyped'
    BY <1>0, <1>26 DEF CallsTyped, vars
  <1>28. ASSUME NEW c \in Convs, ReadLooks(c) PROVE CallsTyped'
    BY <1>0, <1>28 DEF CallsTyped, ReadLooks
  <1>29. ASSUME ReadBinds PROVE CallsTyped'
    BY <1>0, <1>29, BindsFields DEF CallsTyped, ReadBinds
  <1>27. CallsTyped'
    BY <1>28, <1>29, <1>1, <1>2, <1>3, <1>4, <1>5, <1>6, <1>7, <1>8, <1>9, <1>10, <1>11, <1>12, <1>13,
       <1>14, <1>15, <1>16, <1>17, <1>18, <1>19, <1>20, <1>21, <1>22, <1>23, <1>24, <1>25,
       <1>26 DEF Next
  <1> QED
    BY <1>0, <1>27 DEF TypeOK, CallsTyped

-----------------------------------------------------------------------------
(* Who has the session *)

\* A chat has the session from its admission to the end of its turn, and of
\* its execution when that is detached.
Begun(k) == turn[k] \in {"run", "attached", "detached", "closing", "cleaning"}
Detached(k) == turn[k] \in {"queued", "detached"}
Owns(k) ==
    \/ pc[k] = "in" /\ turn[k] \in {"none", "run", "attached", "closing", "cleaning"}
    \/ Detached(k)

\* Where the calls can be.
Places ==
    /\ \A k \in Chats :
          /\ pc[k] \in {"new", "in", "over"}
          /\ pc[k] = "new" => turn[k] = "none"
          /\ pc[k] = "over" => turn[k] \in {"none", "queued", "detached", "over"}
    /\ \A x \in Changes : pc[x] \in {"new", "in", "done", "over"}

\* The chat that has the session is the one its fields name.
OwnerHolds ==
    \A k \in Chats : Owns(k) =>
        /\ session.op = "chat" /\ session.token = k /\ session.exec = k
        /\ (session.detached <=> Detached(k))
        /\ (Begun(k) => under[k] = k)

\* So is a conversation operation.
ChangeHolds ==
    \A x \in Changes : pc[x] \in {"in", "done"} => session.token = x

\* The fields of the hold agree with each other and with a call that is there.
TokenHeld ==
    /\ session.op = "" <=> session.token = NoCall
    /\ session.op = "chat" <=> session.token \in Chats
    /\ session.token \in Chats => pc[session.token] = "in" \/ Detached(session.token)
    /\ session.op = "conversation" =>
         session.token \in Changes /\ pc[session.token] \in {"in", "done"}
    /\ session.exec # NoCall => session.token = session.exec
    /\ session.detached => session.exec # NoCall /\ Detached(session.exec)

\* The flags of a turn are set by the turn that the execution names.
TurnFlags ==
    /\ \A k \in Chats : Running(k) => session.processing
    /\ session.processing => session.exec # NoCall /\ Begun(session.exec)
    /\ session.process # NoCall => Begun(session.process)

\* The inductive invariant of the hold.
HoldInv == Places /\ OwnerHolds /\ ChangeHolds /\ TokenHeld /\ TurnFlags

\* What HoldInv looks at, left alone.
HoldUnchanged ==
    /\ session'.op = session.op /\ session'.token = session.token
    /\ session'.exec = session.exec /\ session'.detached = session.detached
    /\ session'.processing = session.processing /\ session'.process = session.process

\* A step that leaves the hold, the turns and their calls alone keeps it.
LEMMA HoldFrame ==
  ASSUME TypeOK, HoldInv, HoldUnchanged, UNCHANGED <<turn, under>>,
         \A c \in Chats \cup Changes : pc'[c] = pc[c]
  PROVE  HoldInv'
  <1> USE DEF HoldInv, HoldUnchanged
  <1>1. \A k \in Chats : (Owns(k)' <=> Owns(k)) /\ (Begun(k)' <=> Begun(k))
                           /\ (Detached(k)' <=> Detached(k)) /\ (Running(k)' <=> Running(k))
    BY DEF Owns, Begun, Detached, Running, Native
  <1>2. Places'
    BY DEF Places
  <1>3. OwnerHolds'
    BY <1>1 DEF OwnerHolds
  <1>4. ChangeHolds'
    BY DEF ChangeHolds
  <1>5. TokenHeld'
    <2>1. /\ session'.op = "" <=> session'.token = NoCall
          /\ session'.op = "chat" <=> session'.token \in Chats
          /\ session'.exec # NoCall => session'.token = session'.exec
      BY DEF TokenHeld
    <2>2. session'.token \in Chats => pc'[session'.token] = "in" \/ Detached(session.token)'
      BY DEF TokenHeld, Detached
    <2>3. session'.op = "conversation" =>
             session'.token \in Changes /\ pc'[session'.token] \in {"in", "done"}
      BY DEF TokenHeld
    <2>4. session'.detached => session'.exec # NoCall /\ Detached(session.exec)'
      BY DEF TokenHeld, Detached
    <2> QED
      BY <2>1, <2>2, <2>3, <2>4 DEF TokenHeld
  <1>6. TurnFlags'
    BY DEF TurnFlags, Begun, Running, Native, TypeOK, Fields
  <1> QED
    BY <1>2, <1>3, <1>4, <1>5, <1>6

\* A chat enters a session that nobody holds.
LEMMA HoldEnterChat ==
  ASSUME TypeOK, HoldInv, NEW k \in Chats, EnterChat(k)
  PROVE  HoldInv'
  <1> USE SessionAssumption DEF HoldInv
  <1>1. session \in Fields
    BY DEF TypeOK
  <1>2. /\ session.op = "" /\ session.token = NoCall /\ session.exec = NoCall
        /\ ~session.processing
    BY DEF EnterChat, Idle, TokenHeld
  <1>3. /\ session'.op = "chat" /\ session'.token = k /\ session'.exec = k
        /\ ~session'.detached /\ session'.processing = session.processing
        /\ session'.process = session.process
    BY <1>1, ReservedFields DEF EnterChat
  <1>4. /\ \A c \in Calls : pc'[c] = IF c = k THEN "in" ELSE pc[c]
        /\ turn' = turn /\ under' = under /\ turn[k] = "none"
    BY DEF EnterChat, TypeOK, Places
  <1>5. \A j \in Chats : ~Owns(j) /\ j \in Calls
    BY <1>2 DEF OwnerHolds, Calls
  <1>6. \A x \in Changes : x \in Calls /\ x # k /\ pc[x] \notin {"in", "done"}
    BY <1>2 DEF ChangeHolds, Calls
  <1>7. Places'
    BY <1>4, <1>5, <1>6 DEF Places
  <1>8. OwnerHolds'
    BY <1>3, <1>4, <1>5 DEF OwnerHolds, Owns, Detached, Begun
  <1>9. ChangeHolds'
    BY <1>4, <1>6 DEF ChangeHolds
  <1>10. TokenHeld'
    BY <1>3, <1>4, <1>5 DEF TokenHeld
  <1>11. TurnFlags'
    BY <1>2, <1>3, <1>4, <1>5 DEF TurnFlags, Running, Native, Begun, Owns, Detached, TypeOK, Fields
  <1> QED
    BY <1>7, <1>8, <1>9, <1>10, <1>11

\* The owner moves on and stays the owner.
LEMMA HoldOwnStep ==
  ASSUME TypeOK, TypeOK', HoldInv, NEW k \in Chats, Owns(k), Owns(k)', UNCHANGED pc,
         \A j \in Chats \ {k} : turn'[j] = turn[j] /\ under'[j] = under[j],
         session'.op = session.op, session'.token = session.token,
         session'.exec = k, session'.detached <=> Detached(k)',
         Begun(k)' => under'[k] = k,
         Running(k)' => session'.processing,
         session'.processing => Begun(k)',
         session'.process = NoCall \/ (Begun(k)' /\ session'.process = k)
                                  \/ (session'.process = session.process /\ (Begun(k) => Begun(k)'))
  PROVE  HoldInv'
  <1> USE SessionAssumption DEF HoldInv
  <1>1. session.op = "chat" /\ session.token = k /\ session.exec = k
    BY DEF OwnerHolds
  <1>2. \A j \in Chats \ {k} : ~Owns(j) /\ ~Owns(j)' /\ ~Begun(j) /\ ~Begun(j)' /\ ~Running(j)'
    <2>1. \A j \in Chats \ {k} : ~Owns(j)
      BY <1>1 DEF OwnerHolds
    <2>2. \A j \in Chats \ {k} : ~Begun(j)
      BY <2>1 DEF Owns, Begun, Detached, Places
    <2> QED
      BY <2>1, <2>2 DEF Owns, Begun, Detached, Running, Native
  <1>3. Places'
    BY DEF Places, Owns, Detached
  <1>4. OwnerHolds'
    BY <1>1, <1>2 DEF OwnerHolds
  <1>5. ChangeHolds'
    BY DEF ChangeHolds
  <1>6. TokenHeld'
    <2>1. k # NoCall /\ k \in Calls
      BY DEF Calls
    <2> QED
      BY <1>1, <2>1 DEF TokenHeld, Owns, Detached
  <1>7. TurnFlags'
    <2>1. k # NoCall /\ k \in Calls
      BY DEF Calls
    <2>2. session'.process # NoCall => Begun(session.process)'
      <3>1. CASE session'.process = k /\ Begun(k)'
        BY <3>1 DEF Begun
      <3>2. CASE session'.process = session.process /\ (Begun(k) => Begun(k)')
        <4>1. session'.process # NoCall => session'.process \in Chats /\ Begun(session.process)
          BY <3>2 DEF TurnFlags, TypeOK, Fields
        <4> QED
          BY <1>2, <3>2, <4>1 DEF Begun
      <3> QED
        BY <3>1, <3>2
    <2>3. session'.processing => session'.exec # NoCall /\ Begun(session.exec)'
      BY <2>1 DEF Begun
    <2>4. \A j \in Chats : Running(j)' => session'.processing
      BY <1>2
    <2> QED
      BY <2>2, <2>3, <2>4 DEF TurnFlags
  <1> QED
    BY <1>3, <1>4, <1>5, <1>6, <1>7

\* The owner's turn is over: what is left of its hold is released when the
\* turn was detached, and by the chat otherwise.
LEMMA HoldTurnOver ==
  ASSUME TypeOK, TypeOK', HoldInv, NEW k \in Chats, Owns(k), UNCHANGED <<pc, under>>,
         turn' = [turn EXCEPT ![k] = "over"],
         ~session'.processing, session'.process = NoCall, ~session'.detached,
         session'.op = IF Detached(k) THEN "" ELSE "chat",
         session'.token = IF Detached(k) THEN NoCall ELSE k,
         session'.exec = NoCall \/ (session'.exec = k /\ ~Detached(k))
  PROVE  HoldInv'
  <1> USE SessionAssumption DEF HoldInv
  <1>1. session.op = "chat" /\ session.token = k /\ session.exec = k
    BY DEF OwnerHolds
  <1>2. /\ turn'[k] = "over"
        /\ \A j \in Chats \ {k} : turn'[j] = turn[j]
    BY DEF TypeOK
  <1>3. \A j \in Chats : ~Owns(j)' /\ ~Running(j)'
    <2>1. \A j \in Chats \ {k} : ~Owns(j)
      BY <1>1 DEF OwnerHolds
    <2>2. \A j \in Chats : ~Owns(j)'
      BY <1>2, <2>1 DEF Owns, Detached
    <2> QED
      BY <1>2, <2>1, <2>2 DEF Owns, Detached, Running, Native, Places
  <1>4. Places'
    BY <1>2 DEF Places, Owns, Detached
  <1>5. OwnerHolds' /\ TurnFlags'
    BY <1>3 DEF OwnerHolds, TurnFlags
  <1>6. ChangeHolds'
    <2>1. \A x \in Changes : pc[x] \notin {"in", "done"}
      BY <1>1 DEF ChangeHolds
    <2> QED
      BY <2>1 DEF ChangeHolds
  <1>7. TokenHeld'
    <2>1. k # NoCall /\ NoCall \notin Chats
      BY DEF Calls
    <2>2. ~Detached(k) => pc[k] = "in"
      BY DEF Owns
    <2> QED
      BY <1>1, <2>1, <2>2 DEF TokenHeld
  <1> QED
    BY <1>4, <1>5, <1>6, <1>7

\* Nobody holds the session in the beginning.
LEMMA HoldInit == Init => HoldInv
  <1> SUFFICES ASSUME Init PROVE HoldInv
    OBVIOUS
  <1> USE SessionAssumption
  <1>1. /\ \A c \in Calls : pc[c] = "new"
        /\ \A k \in Chats : turn[k] = "none" /\ k \in Calls
        /\ \A x \in Changes : x \in Calls
        /\ NoCall \notin Chats
    BY DEF Init, Calls
  <1>2. /\ session.op = "" /\ session.token = NoCall /\ session.exec = NoCall
        /\ ~session.processing /\ ~session.detached /\ session.process = NoCall
    BY DEF Init
  <1>3. Places /\ OwnerHolds /\ ChangeHolds
    BY <1>1 DEF Places, OwnerHolds, ChangeHolds, Owns, Detached
  <1>4. TokenHeld
    BY <1>1, <1>2 DEF TokenHeld
  <1>5. TurnFlags
    BY <1>1, <1>2 DEF TurnFlags, Running, Native
  <1> QED
    BY <1>3, <1>4, <1>5 DEF HoldInv

\* A turn that begins is that of the chat which holds the session.
LEMMA HoldBegin ==
  ASSUME Workers = {}, TypeOK, TypeOK', HoldInv, NEW k \in Chats, BeginTurn(k) \/ BeginNative(k)
  PROVE  HoldInv'
  <1> USE DEF HoldInv
  <1>1. Starts(k) /\ UNCHANGED pc
    BY BeginStarts
  <1>2. turn[k] = "queued" \/ (pc[k] = "in" /\ turn[k] = "none")
    BY DEF BeginTurn, BeginNative
  <1>3. Owns(k)
    BY <1>2 DEF Owns, Detached
  <1>4. /\ \A j \in Chats \ {k} : turn'[j] = turn[j]
        /\ turn'[k] \in {"run", "attached", "detached"}
        /\ turn'[k] = "detached" <=> turn[k] = "queued"
        /\ pc[k] # "in" => turn'[k] = "detached"
    BY <1>2 DEF BeginTurn, BeginNative, TypeOK
  <1>5. session.op = "chat" /\ session.token = k /\ session.exec = k
    BY <1>3 DEF OwnerHolds
  <1>6. k # NoCall
    BY SessionAssumption DEF Calls
  <1>7. /\ session'.processing /\ session'.exec = k
        /\ session'.op = session.op /\ session'.token = session.token
        /\ session'.detached = session.detached /\ session'.process = session.process
        /\ under' = [under EXCEPT ![k] = k]
    BY <1>1, <1>5, <1>6, StartTurnFields
  <1>8. under'[k] = k /\ \A j \in Chats \ {k} : under'[j] = under[j]
    BY <1>7 DEF TypeOK
  <1>9. session.detached <=> Detached(k)
    BY <1>3 DEF OwnerHolds
  <1>10. Detached(k) <=> turn[k] = "queued"
    BY <1>2 DEF Detached
  <1>11. Detached(k)' <=> turn[k] = "queued"
    BY <1>4 DEF Detached
  <1>12. Owns(k)' /\ Begun(k)'
    BY <1>1, <1>2, <1>4 DEF Owns, Detached, Begun
  <1> QED
    BY <1>1, <1>3, <1>4, <1>7, <1>8, <1>9, <1>10, <1>11, <1>12, HoldOwnStep

\* A turn that is handed to its channel takes the hold along.
LEMMA HoldDetach ==
  ASSUME TypeOK, TypeOK', HoldInv, NEW k \in Chats, DetachTurn(k)
  PROVE  HoldInv'
  <1> USE DEF HoldInv
  <1>1. Owns(k) /\ ~Begun(k)
    BY DEF DetachTurn, Owns, Begun
  <1>2. /\ turn'[k] = "queued" /\ UNCHANGED <<pc, under>>
        /\ \A j \in Chats \ {k} : turn'[j] = turn[j]
    BY DEF DetachTurn, TypeOK
  <1>3. session.exec = k
    BY <1>1 DEF OwnerHolds
  <1>4. /\ session'.op = session.op /\ session'.token = session.token
        /\ session'.exec = k /\ session'.detached
        /\ session'.processing = session.processing /\ session'.process = session.process
    BY <1>3 DEF DetachTurn, TypeOK, Fields
  <1>5. ~session.processing
    BY <1>1, <1>3 DEF TurnFlags
  <1>6. Owns(k)' /\ Detached(k)' /\ ~Begun(k)' /\ ~Running(k)'
    BY <1>2 DEF Owns, Detached, Begun, Running, Native
  <1> QED
    BY <1>1, <1>2, <1>4, <1>5, <1>6, HoldOwnStep

\* A refused producer gives the hold back.
LEMMA HoldRefuse ==
  ASSUME TypeOK, TypeOK', HoldInv, NEW k \in Chats, RefuseNative(k)
  PROVE  HoldInv'
  <1> USE DEF HoldInv
  <1>1. Owns(k) /\ Detached(k) /\ ~Begun(k)
    BY DEF RefuseNative, Owns, Begun, Detached
  <1>2. session.exec = k /\ session.op = "chat" /\ session.token = k /\ session.detached
    BY <1>1 DEF OwnerHolds
  <1>3. \A j \in Chats : ~Begun(j)
    BY <1>1, <1>2 DEF OwnerHolds, Owns, Begun, Detached, Places
  <1>4. ~session.processing /\ session.process = NoCall
    BY <1>2, <1>3 DEF TurnFlags, TypeOK, Fields
  <1>5. session \in Fields /\ session' = Finished(session, k)
    BY DEF TypeOK, RefuseNative
  <1>6. k \in Chats \cup {NoCall}
    OBVIOUS
  <1>7. session'.exec = NoCall /\ ~session'.detached
    <2>1. Finished(session, k).exec = NoCall
      BY <1>2, <1>5, <1>6, FinishedFields
    <2>2. ~Finished(session, k).detached
      BY <1>2, <1>5 DEF Finished, Fields
    <2> QED
      BY <1>5, <2>1, <2>2
  <1>8. session'.op = "" /\ session'.token = NoCall
    <2>1. Finished(session, k).op = IF session.detached THEN "" ELSE session.op
      BY <1>2, <1>5, <1>6, FinishedFields
    <2>2. Finished(session, k).token = IF session.detached THEN NoCall ELSE session.token
      BY <1>2, <1>5, <1>6, FinishedFields
    <2> QED
      BY <1>2, <1>5, <2>1, <2>2
  <1>9. ~session'.processing /\ session'.process = NoCall
    BY <1>4, <1>5, <1>6, FinishedFields
  <1>10. UNCHANGED <<pc, under>> /\ turn' = [turn EXCEPT ![k] = "over"]
    BY DEF RefuseNative
  <1> QED
    BY <1>1, <1>7, <1>8, <1>9, <1>10, HoldTurnOver

\* In a running turn: its process starts or ends, it completes, breaks or looks.
LEMMA HoldRun ==
  ASSUME Workers = {}, TypeOK, TypeOK', HoldInv, NEW k \in Chats,
         \/ ProcessStarts(k) \/ ProcessEnds(k) \/ TurnCompletes(k)
         \/ TurnBreaks(k) \/ CloseLooks(k)
  PROVE  HoldInv'
  <1> USE DEF HoldInv
  <1>1. Begun(k)
    BY DEF ProcessStarts, ProcessEnds, TurnCompletes, TurnBreaks, CloseLooks, Begun,
           Running, Native
  <1>2. Owns(k)
    BY <1>1 DEF Owns, Begun, Detached, Places
  <1>3. session.exec = k /\ (session.detached <=> Detached(k)) /\ under[k] = k
    BY <1>1, <1>2 DEF OwnerHolds
  <1> DEFINE frame ==
        /\ UNCHANGED <<pc, under>>
        /\ session'.op = session.op /\ session'.token = session.token
        /\ session'.exec = session.exec /\ session'.detached = session.detached
        /\ session'.process \in {NoCall, k, session.process}
        /\ turn'[k] = turn[k] /\ Running(k) => session'.processing = session.processing
  <1>4. session \in Fields
    BY DEF TypeOK
  <1>5. frame
    <2>1. CASE ProcessStarts(k)
      BY <1>4, <2>1 DEF ProcessStarts, Fields
    <2>2. CASE ProcessEnds(k)
      BY <1>4, <2>2 DEF ProcessEnds, Fields
    <2>3. CASE TurnCompletes(k)
      <3>1. pc' = pc
        BY <2>3 DEF TurnCompletes, TypeOK
      <3>2. turn'[k] # turn[k]
        BY <2>3 DEF TurnCompletes, TypeOK
      <3> QED
        BY <1>4, <2>3, <3>1, <3>2 DEF TurnCompletes, Fields
    <2>4. CASE TurnBreaks(k) \/ CloseLooks(k)
      BY <2>4 DEF TurnBreaks, CloseLooks
    <2> QED
      BY <2>1, <2>2, <2>3, <2>4
  <1>6. /\ \A j \in Chats \ {k} : turn'[j] = turn[j]
        /\ \/ turn'[k] = turn[k]
           \/ turn[k] \in {"run", "closing"} /\ turn'[k] \in {"closing", "cleaning"}
    BY DEF ProcessStarts, ProcessEnds, TurnCompletes, TurnBreaks, CloseLooks, TypeOK
  <1>7. Begun(k)' /\ (Detached(k)' <=> Detached(k))
    BY <1>1, <1>6 DEF Begun, Detached
  <1>8. Owns(k)'
    BY <1>2, <1>5, <1>6 DEF Owns, Detached
  <1>9. Running(k)' => session'.processing
    <2>1. Running(k)' => Running(k) /\ turn'[k] = turn[k]
      BY <1>6 DEF Running, Native
    <2>2. turn'[k] = turn[k] /\ Running(k) => session'.processing = session.processing
      BY <1>5
    <2> QED
      BY <2>1, <2>2 DEF TurnFlags
  <1>10. session'.process = NoCall \/ session'.process = k \/ session'.process = session.process
    BY <1>5
  <1> QED
    BY <1>2, <1>3, <1>5, <1>6, <1>7, <1>8, <1>9, <1>10, HoldOwnStep

\* A turn of a CLI that is over leaves the hold to its chat.
LEMMA HoldClose ==
  ASSUME Workers = {}, TypeOK, TypeOK', HoldInv, NEW k \in Chats, CloseResets(k)
  PROVE  HoldInv'
  <1> USE DEF HoldInv
  <1>1. Owns(k) /\ Begun(k) /\ ~Detached(k)
    BY DEF CloseResets, Owns, Begun, Detached, Places
  <1>2. /\ session.exec = k /\ session.op = "chat" /\ session.token = k /\ under[k] = k
        /\ ~session.detached
    BY <1>1 DEF OwnerHolds
  <1>3. session \in Fields /\ session' = Reset(session)
    BY <1>2 DEF TypeOK, CloseResets
  <1>4. /\ session'.op = "chat" /\ session'.token = k /\ session'.exec = k
        /\ ~session'.detached /\ ~session'.processing /\ session'.process = NoCall
    BY <1>2, <1>3, ResetFields
  <1>5. UNCHANGED <<pc, under>> /\ turn' = [turn EXCEPT ![k] = "over"]
    BY DEF CloseResets
  <1> QED
    BY <1>1, <1>4, <1>5, HoldTurnOver

\* A native turn that is over gives the hold back if it was detached, and leaves
\* it to its chat otherwise.
LEMMA HoldEndNative ==
  ASSUME TypeOK, TypeOK', HoldInv, NEW k \in Chats, EndNative(k)
  PROVE  HoldInv'
  <1> USE DEF HoldInv
  <1>1. Owns(k) /\ Begun(k)
    BY DEF EndNative, Native, Owns, Begun, Detached, Places
  <1>2. /\ session.exec = k /\ session.op = "chat" /\ session.token = k /\ under[k] = k
        /\ (session.detached <=> Detached(k))
    BY <1>1 DEF OwnerHolds
  <1>3. session \in Fields /\ session' = Finished(Reset(session), k)
    BY <1>2 DEF TypeOK, EndNative
  <1> DEFINE f == Reset(session)
  <1>4. /\ f \in Fields /\ f.op = "chat" /\ f.token = k /\ f.exec = k
        /\ (f.detached <=> Detached(k)) /\ ~f.processing /\ f.process = NoCall
    BY <1>2, <1>3, ResetFields
  <1> HIDE DEF f
  <1>5. session' = Finished(f, k)
    BY <1>3 DEF f
  <1>6. k \in Chats \cup {NoCall}
    OBVIOUS
  <1>7. session'.exec = NoCall /\ ~session'.detached
    <2>1. Finished(f, k).exec = NoCall
      BY <1>4, <1>6, FinishedFields
    <2>2. ~Finished(f, k).detached
      <3>1. CASE f.detached
        BY <1>4, <3>1 DEF Finished, Fields
      <3>2. CASE ~f.detached
        BY <1>4, <3>2 DEF Finished, Fields
      <3> QED
        BY <3>1, <3>2
    <2> QED
      BY <1>5, <2>1, <2>2
  <1>8. session'.op = IF f.detached THEN "" ELSE f.op
    BY <1>4, <1>5, <1>6, FinishedFields
  <1>9. session'.token = IF f.detached THEN NoCall ELSE f.token
    BY <1>4, <1>5, <1>6, FinishedFields
  <1>10. ~session'.processing /\ session'.process = NoCall
    <2>1. Finished(f, k).processing = f.processing /\ Finished(f, k).process = f.process
      BY <1>4, <1>6, FinishedFields
    <2> QED
      BY <1>4, <1>5, <2>1
  <1>11. UNCHANGED <<pc, under>> /\ turn' = [turn EXCEPT ![k] = "over"]
    BY DEF EndNative
  <1> QED
    BY <1>1, <1>4, <1>7, <1>8, <1>9, <1>10, <1>11, HoldTurnOver

\* A chat that leaves gives up the hold, unless its turn was detached or a later
\* call has the session.
LEMMA HoldLeave ==
  ASSUME Workers = {}, TypeOK, HoldInv, NEW k \in Chats, LeaveChat(k)
  PROVE  HoldInv'
  <1> USE SessionAssumption DEF HoldInv
  <1>1. /\ \A c \in Calls : pc'[c] = IF c = k THEN "over" ELSE pc[c]
        /\ turn' = turn /\ under' = under
        /\ pc[k] = "in" /\ turn[k] \in {"none", "queued", "detached", "over"}
        /\ session' = Released(session, k)
    BY DEF LeaveChat, TypeOK
  <1>2. /\ session \in Fields /\ k \in Calls /\ NoCall \notin Chats
        /\ \A j \in Chats : j \in Calls
        /\ \A x \in Changes : x \in Calls /\ x \notin Chats /\ x # NoCall
    BY DEF TypeOK, Calls
  <1>3. Places'
    BY <1>1, <1>2 DEF Places
  <1>4. ChangeHolds' \/ session.token = k
    <2>1. session.token # k => session' = session
      BY <1>1 DEF Released
    <2> QED
      BY <1>1, <1>2, <2>1 DEF ChangeHolds
  <1>5. CASE session.token = k /\ ~session.detached
    <2>1. \A j \in Chats \ {k} : ~Owns(j)
      BY <1>5 DEF OwnerHolds
    <2>2. ~Detached(k)
      BY <1>5 DEF OwnerHolds, Owns
    <2>3. \A j \in Chats : ~Begun(j) /\ ~Owns(j)' /\ ~Running(j)'
      <3>1. ASSUME NEW j \in Chats \ {k} PROVE ~Begun(j) /\ ~Owns(j)' /\ ~Running(j)'
        BY <1>1, <1>2, <2>1 DEF Owns, Begun, Detached, Running, Native, Places
      <3>2. ~Begun(k) /\ ~Owns(k)' /\ ~Running(k)'
        BY <1>1, <1>2, <2>2 DEF Owns, Begun, Detached, Running, Native
      <3> QED
        BY <3>1, <3>2
    <2>4. session.exec \in {NoCall, k} /\ ~session.processing /\ session.process = NoCall
      BY <1>2, <1>5, <2>3 DEF TokenHeld, TurnFlags, Fields
    <2>5. /\ session'.op = "" /\ session'.token = NoCall /\ ~session'.detached
          /\ session'.exec = IF session.exec = k THEN NoCall ELSE session.exec
      <3>1. Released(session, k).op = "" /\ Released(session, k).token = NoCall
        BY <1>2, <1>5 DEF Released, Finished, Fields
      <3>2. Released(session, k).exec = IF session.exec = k THEN NoCall ELSE session.exec
        BY <1>2, <1>5 DEF Released, Finished, Fields
      <3>3. ~Released(session, k).detached
        BY <1>2, <1>5 DEF Released, Finished, Fields
      <3> QED
        BY <1>1, <3>1, <3>2, <3>3
    <2>6. session'.processing = session.processing /\ session'.process = session.process
      <3>1. Released(session, k).processing = session.processing
        BY <1>2 DEF Released, Finished, Fields
      <3>2. Released(session, k).process = session.process
        BY <1>2, ReleasedFields
      <3> QED
        BY <1>1, <3>1, <3>2
    <2>7. OwnerHolds' /\ TurnFlags'
      BY <2>3, <2>4, <2>6 DEF OwnerHolds, TurnFlags
    <2>8. ChangeHolds'
      <3>1. \A x \in Changes : pc[x] \notin {"in", "done"}
        BY <1>2, <1>5 DEF ChangeHolds
      <3> QED
        BY <1>1, <1>2, <3>1 DEF ChangeHolds
    <2>9. TokenHeld'
      BY <1>2, <2>4, <2>5 DEF TokenHeld
    <2> QED
      BY <1>3, <2>7, <2>8, <2>9
  <1>6. CASE session.token # k \/ session.detached
    <2>1. session' = session
      BY <1>1, <1>6 DEF Released
    <2>2. session.token = k => Detached(k)
      BY <1>6 DEF TokenHeld
    <2>3. \A j \in Chats : Owns(j)' => Owns(j)
      BY <1>1, <1>2 DEF Owns, Detached
    <2>4. OwnerHolds'
      BY <1>1, <2>1, <2>3 DEF OwnerHolds, Detached, Begun
    <2>5. ChangeHolds'
      BY <1>1, <1>2, <2>1 DEF ChangeHolds
    <2>6. TokenHeld'
      <3>1. /\ session'.op = "" <=> session'.token = NoCall
            /\ session'.op = "chat" <=> session'.token \in Chats
            /\ session'.exec # NoCall => session'.token = session'.exec
        BY <2>1 DEF TokenHeld
      <3>2. session'.token \in Chats => pc'[session'.token] = "in" \/ Detached(session.token)'
        BY <1>1, <1>2, <2>1, <2>2 DEF TokenHeld, Detached
      <3>3. session'.op = "conversation" =>
               session'.token \in Changes /\ pc'[session'.token] \in {"in", "done"}
        BY <1>1, <1>2, <2>1 DEF TokenHeld
      <3>4. session'.detached => session'.exec # NoCall /\ Detached(session.exec)'
        BY <1>1, <2>1 DEF TokenHeld, Detached
      <3> QED
        BY <2>1, <3>1, <3>2, <3>3, <3>4 DEF TokenHeld
    <2>7. TurnFlags'
      BY <1>1, <2>1 DEF TurnFlags, Running, Native, Begun
    <2> QED
      BY <1>3, <2>4, <2>5, <2>6, <2>7
  <1> QED
    BY <1>5, <1>6

\* A conversation operation enters a session that nobody holds.
LEMMA HoldEnterChange ==
  ASSUME TypeOK, HoldInv, NEW x \in Changes, EnterChange(x)
  PROVE  HoldInv'
  <1> USE SessionAssumption DEF HoldInv
  <1>1. session \in Fields /\ NoCall \notin Calls /\ x \in Calls /\ x \notin Chats
    BY DEF TypeOK, Calls
  <1>2. /\ session.op = "" /\ session.token = NoCall /\ session.exec = NoCall
        /\ ~session.processing /\ ~session.detached
    BY DEF EnterChange, Idle, TokenHeld
  <1>3. /\ session'.op = "conversation" /\ session'.token = x
        /\ session'.exec = session.exec /\ session'.detached = session.detached
        /\ session'.processing = session.processing /\ session'.process = session.process
    BY <1>1 DEF EnterChange, Fields
  <1>4. /\ \A c \in Calls : pc'[c] = IF c = x THEN "in" ELSE pc[c]
        /\ turn' = turn /\ under' = under
    BY DEF EnterChange, TypeOK
  <1>5. \A j \in Chats : ~Owns(j) /\ j \in Calls /\ pc'[j] = pc[j]
    BY <1>1, <1>2, <1>4 DEF OwnerHolds, Calls
  <1>6. \A y \in Changes : y \in Calls /\ pc[y] \notin {"in", "done"}
    BY <1>1, <1>2 DEF ChangeHolds, Calls
  <1>7. Places'
    BY <1>4, <1>5, <1>6 DEF Places
  <1>8. OwnerHolds'
    BY <1>4, <1>5 DEF OwnerHolds, Owns, Detached
  <1>9. ChangeHolds'
    BY <1>3, <1>4, <1>6 DEF ChangeHolds
  <1>10. TokenHeld'
    BY <1>1, <1>2, <1>3, <1>4 DEF TokenHeld
  <1>11. TurnFlags'
    BY <1>2, <1>3, <1>4 DEF TurnFlags, Running, Native, Begun
  <1> QED
    BY <1>7, <1>8, <1>9, <1>10, <1>11

\* The operation itself does not touch the hold.
LEMMA HoldChange ==
  ASSUME TypeOK, HoldInv, NEW x \in Changes, Change(x)
  PROVE  HoldInv'
  <1> USE SessionAssumption DEF HoldInv
  <1>1. session \in Fields /\ x \in Calls /\ x \notin Chats /\ pc[x] = "in"
    BY DEF TypeOK, Calls, Change
  <1>2. PICK c \in Convs : session' = [session EXCEPT !.active = c]
    BY DEF Change
  <1>3. HoldUnchanged
    BY <1>1, <1>2 DEF HoldUnchanged, Fields
  <1>4. /\ \A y \in Calls : pc'[y] = IF y = x THEN "done" ELSE pc[y]
        /\ turn' = turn /\ under' = under
    BY DEF Change, TypeOK
  <1>5. \A j \in Chats : j \in Calls /\ pc'[j] = pc[j]
    BY <1>1, <1>4 DEF Calls
  <1>6. \A y \in Changes : y \in Calls /\ (pc'[y] = pc[y] \/ (y = x /\ pc'[y] = "done"))
    BY <1>4 DEF Calls
  <1>7. Places'
    BY <1>4, <1>5, <1>6 DEF Places
  <1>8. OwnerHolds'
    BY <1>3, <1>4, <1>5 DEF OwnerHolds, Owns, Detached, Begun, HoldUnchanged
  <1>9. ChangeHolds'
    BY <1>1, <1>3, <1>6 DEF ChangeHolds, HoldUnchanged
  <1>10. TokenHeld'
    <2>1. /\ session'.op = "" <=> session'.token = NoCall
          /\ session'.op = "chat" <=> session'.token \in Chats
          /\ session'.exec # NoCall => session'.token = session'.exec
      BY <1>3 DEF TokenHeld, HoldUnchanged
    <2>2. session'.token \in Chats => pc'[session'.token] = "in" \/ Detached(session.token)'
      BY <1>3, <1>4, <1>5 DEF TokenHeld, Detached, HoldUnchanged
    <2>3. session'.op = "conversation" =>
             session'.token \in Changes /\ pc'[session'.token] \in {"in", "done"}
      BY <1>3, <1>6 DEF TokenHeld, HoldUnchanged
    <2>4. session'.detached => session'.exec # NoCall /\ Detached(session.exec)'
      BY <1>3, <1>4 DEF TokenHeld, Detached, HoldUnchanged
    <2> QED
      BY <1>3, <2>1, <2>2, <2>3, <2>4 DEF TokenHeld, HoldUnchanged
  <1>11. TurnFlags'
    BY <1>3, <1>4 DEF TurnFlags, Running, Native, Begun, HoldUnchanged
  <1> QED
    BY <1>7, <1>8, <1>9, <1>10, <1>11

\* A conversation operation gives up the hold it has.
LEMMA HoldLeaveChange ==
  ASSUME TypeOK, HoldInv, NEW x \in Changes, LeaveChange(x)
  PROVE  HoldInv'
  <1> USE SessionAssumption DEF HoldInv
  <1>1. /\ session \in Fields /\ x \in Calls /\ x \notin Chats /\ x # NoCall
        /\ NoCall \notin Chats /\ pc[x] \in {"in", "done"}
    BY DEF TypeOK, Calls, LeaveChange
  <1>2. session.token = x
    BY <1>1 DEF ChangeHolds
  <1>3. session.exec = NoCall /\ ~session.detached
    BY <1>1, <1>2 DEF TokenHeld, Fields
  <1>4. session' = Released(session, x)
    BY DEF LeaveChange
  <1>5. /\ session'.op = "" /\ session'.token = NoCall /\ ~session'.detached
        /\ session'.exec = IF session.exec = x THEN NoCall ELSE session.exec
    <2>1. Released(session, x).op = "" /\ Released(session, x).token = NoCall
      BY <1>1, <1>2, <1>3 DEF Released, Finished, Fields
    <2>2. Released(session, x).exec = IF session.exec = x THEN NoCall ELSE session.exec
      BY <1>1, <1>2, <1>3 DEF Released, Finished, Fields
    <2>3. ~Released(session, x).detached
      BY <1>1, <1>2, <1>3 DEF Released, Finished, Fields
    <2> QED
      BY <1>4, <2>1, <2>2, <2>3
  <1>6. session'.processing = session.processing /\ session'.process = session.process
    <2>1. Released(session, x).processing = session.processing
      BY <1>1, <1>3 DEF Released, Finished, Fields
    <2>2. Released(session, x).process = session.process
      BY <1>1, <1>3, ReleasedFields
    <2> QED
      BY <1>4, <2>1, <2>2
  <1>7. /\ \A c \in Calls : pc'[c] = IF c = x THEN "over" ELSE pc[c]
        /\ turn' = turn /\ under' = under
    BY DEF LeaveChange, TypeOK
  <1>8. \A j \in Chats : ~Owns(j) /\ j \in Calls /\ pc'[j] = pc[j]
    BY <1>1, <1>2, <1>7 DEF OwnerHolds, Calls
  <1>9. \A y \in Changes : y \in Calls /\ pc'[y] \notin {"in", "done"}
    BY <1>1, <1>2, <1>7 DEF ChangeHolds, Calls
  <1>10. Places'
    BY <1>7, <1>8 DEF Places, Calls
  <1>11. OwnerHolds'
    BY <1>7, <1>8 DEF OwnerHolds, Owns, Detached
  <1>12. ChangeHolds'
    BY <1>9 DEF ChangeHolds
  <1>13. TokenHeld'
    BY <1>1, <1>3, <1>5 DEF TokenHeld
  <1>14. TurnFlags'
    <2>1. ~session.processing
      BY <1>3 DEF TurnFlags
    <2> QED
      BY <1>6, <1>7, <2>1 DEF TurnFlags, Running, Native, Begun
  <1> QED
    BY <1>10, <1>11, <1>12, <1>13, <1>14

\* Aborts, stops, deletions and the update do not touch the hold.
LEMMA HoldAside ==
  ASSUME TypeOK, HoldInv,
         \/ \E k \in Chats : GraceAborts(k)
         \/ AbortEnds
         \/ \E s \in Stops : StopAsked(s) \/ StopActs(s) \/ StopReturns(s)
         \/ \E d \in Deletes :
               \/ \E c \in Convs, archive \in BOOLEAN : DeleteLooks(d, c, archive)
               \/ DeleteHalf(d) \/ DeleteRest(d)
         \/ \E c \in Convs : ReadLooks(c)
         \/ ReadBinds \/ ApplyUpdate
         \/ UNCHANGED vars
  PROVE  HoldInv'
  <1> USE SessionAssumption
  <1> DEFINE others == \A c \in Chats \cup Changes : pc'[c] = pc[c]
             still == HoldUnchanged /\ UNCHANGED <<turn, under>> /\ others
  <1>0. session \in Fields
    BY DEF TypeOK
  <1>1. ASSUME NEW s \in Stops \cup Deletes, NEW v, pc' = [pc EXCEPT ![s] = v]
        PROVE  others
    BY <1>1 DEF TypeOK, Calls
  <1>2. ASSUME NEW e, NEW r \in Chats \cup {NoCall}, session' = Aborting(session, e, r)
        PROVE  HoldUnchanged
    BY <1>0, <1>2, AbortingFields DEF HoldUnchanged
  <1>3. ASSUME NEW k \in Chats, GraceAborts(k) PROVE still
    <2>1. session.process \in Chats \cup {NoCall}
      BY <1>0 DEF Fields
    <2> QED
      BY <1>2, <1>3, <2>1 DEF GraceAborts
  <1>4. ASSUME AbortEnds PROVE still
    BY <1>0, <1>4 DEF AbortEnds, HoldUnchanged, Fields
  <1>5. ASSUME NEW s \in Stops, StopAsked(s) PROVE still
    <2>1. HoldUnchanged
      BY <1>0, <1>5 DEF StopAsked, HoldUnchanged, Fields
    <2> QED
      BY <1>1, <1>5, <2>1 DEF StopAsked
  <1>6. ASSUME NEW s \in Stops, StopActs(s) PROVE still
    <2>1. captured[s].process \in Chats \cup {NoCall}
      BY DEF TypeOK
    <2>2. session' = session \/ session' = Aborting(session, captured[s].exec, captured[s].process)
      BY <1>6 DEF StopActs
    <2>3. HoldUnchanged
      BY <1>2, <2>1, <2>2 DEF HoldUnchanged
    <2> QED
      BY <1>1, <1>6, <2>3 DEF StopActs
  <1>7. ASSUME NEW s \in Stops, StopReturns(s) PROVE still
    <2>1. HoldUnchanged
      BY <1>0, <1>7 DEF StopReturns, HoldUnchanged, Fields
    <2> QED
      BY <1>1, <1>7, <2>1 DEF StopReturns
  <1>8. ASSUME NEW d \in Deletes, NEW c \in Convs, NEW archive \in BOOLEAN,
               DeleteLooks(d, c, archive)
        PROVE still
    BY <1>1, <1>8 DEF DeleteLooks, HoldUnchanged
  <1>9. ASSUME NEW d \in Deletes, DeleteHalf(d) \/ DeleteRest(d) PROVE still
    <2>1. session' = session \/ session' = [session EXCEPT !.active = NoConv]
      BY <1>9, RemovalFields
    <2>2. HoldUnchanged
      BY <1>0, <2>1 DEF HoldUnchanged, Fields
    <2> QED
      BY <1>1, <1>9, <2>2 DEF DeleteHalf, DeleteRest
  <1>10. ASSUME ApplyUpdate \/ UNCHANGED vars PROVE still
    BY <1>10 DEF ApplyUpdate, vars, HoldUnchanged
  <1>11. ASSUME NEW c \in Convs, ReadLooks(c) PROVE still
    BY <1>11 DEF ReadLooks, HoldUnchanged
  <1>12. ASSUME ReadBinds PROVE still
    <2>1. HoldUnchanged
      BY <1>0, <1>12, BindsFields DEF HoldUnchanged, Fields
    <2> QED
      BY <1>12, <2>1 DEF ReadBinds
  <1>13. still
    BY <1>3, <1>4, <1>5, <1>6, <1>7, <1>8, <1>9, <1>10, <1>11, <1>12
  <1> QED
    BY <1>13, HoldFrame

\* Every step keeps the invariant of the hold when every chat takes the scope.
LEMMA HoldStep ==
  ASSUME Workers = {}, TypeOK, HoldInv, [Next]_vars
  PROVE  HoldInv'
  <1>0. TypeOK'
    BY TypeStep
  <1>1. ASSUME NEW k \in Chats, EnterChat(k) \/ LeaveChat(k) PROVE HoldInv'
    BY <1>1, HoldEnterChat, HoldLeave
  <1>2. ASSUME NEW k \in Chats, BeginTurn(k) \/ BeginNative(k) PROVE HoldInv'
    BY <1>0, <1>2, HoldBegin
  <1>3. ASSUME NEW k \in Chats, DetachTurn(k) \/ RefuseNative(k) PROVE HoldInv'
    BY <1>0, <1>3, HoldDetach, HoldRefuse
  <1>4. ASSUME NEW k \in Chats,
               \/ ProcessStarts(k) \/ ProcessEnds(k) \/ TurnCompletes(k)
               \/ TurnBreaks(k) \/ CloseLooks(k)
        PROVE HoldInv'
    BY <1>0, <1>4, HoldRun
  <1>5. ASSUME NEW k \in Chats, CloseResets(k) \/ EndNative(k) PROVE HoldInv'
    BY <1>0, <1>5, HoldClose, HoldEndNative
  <1>6. ASSUME NEW x \in Changes, EnterChange(x) \/ Change(x) \/ LeaveChange(x) PROVE HoldInv'
    BY <1>6, HoldEnterChange, HoldChange, HoldLeaveChange
  <1>7. ASSUME
         \/ \E k \in Chats : GraceAborts(k)
         \/ AbortEnds
         \/ \E s \in Stops : StopAsked(s) \/ StopActs(s) \/ StopReturns(s)
         \/ \E d \in Deletes :
               \/ \E c \in Convs, archive \in BOOLEAN : DeleteLooks(d, c, archive)
               \/ DeleteHalf(d) \/ DeleteRest(d)
         \/ \E c \in Convs : ReadLooks(c)
         \/ ReadBinds \/ ApplyUpdate
         \/ UNCHANGED vars
        PROVE HoldInv'
    BY <1>7, HoldAside
  <1> QED
    BY <1>1, <1>2, <1>3, <1>4, <1>5, <1>6, <1>7 DEF Next

\* The invariant says that the session is held exactly while it is in use.
LEMMA HoldShows ==
  ASSUME Workers = {}, TypeOK, HoldInv
  PROVE  HoldMatchesUse
  <1> USE SessionAssumption DEF HoldInv
  <1>0. /\ session \in Fields /\ NoCall \notin Chats /\ NoCall \notin Calls
        /\ \A k \in Chats : k \in Calls
    BY DEF TypeOK, Calls
  <1>1. ASSUME NEW k \in Chats, Running(k)
        PROVE  session.processing /\ session.op = "chat" /\ session.exec = k
    <2>1. Owns(k)
      BY <1>1 DEF Running, Native, Owns, Detached, Places
    <2> QED
      BY <1>1, <2>1 DEF TurnFlags, OwnerHolds
  <1>2. ASSUME session.op # "" PROVE session.token \in Calls /\ InUse(session.token)
    BY <1>0, <1>2 DEF TokenHeld, InUse, Detached, Fields, Calls
  <1>3. ASSUME session.exec # NoCall PROVE InUse(session.exec)
    BY <1>0, <1>3 DEF TokenHeld, InUse, Detached, Fields
  <1>4. ASSUME session.processing
        PROVE /\ session.exec # NoCall
              /\ Running(session.exec) \/ turn[session.exec] \in {"closing", "cleaning"}
    BY <1>4 DEF TurnFlags, Begun, Running, Native
  <1>5. session.detached => turn[session.exec] \in {"queued", "detached"}
    BY DEF TokenHeld, Detached
  <1> QED
    BY <1>1, <1>2, <1>3, <1>4, <1>5 DEF HoldMatchesUse

\* The types hold in every reachable state, child tasks included.
THEOREM SessionTypes == Spec => []TypeOK
  <1>1. Init => TypeOK
    BY TypeInit
  <1>2. TypeOK /\ [Next]_vars => TypeOK'
    BY TypeStep
  <1> QED
    BY <1>1, <1>2, PTL DEF Spec

\* The session is held exactly while it is in use, for any number of calls that
\* take the scope (_session_lifecycle_scope, _finish_control_execution).
THEOREM HoldsMatchUse ==
  ASSUME Workers = {}
  PROVE  Spec => []HoldMatchesUse
  <1> DEFINE Inv == TypeOK /\ HoldInv
  <1>1. Init => Inv
    BY TypeInit, HoldInit
  <1>2. Inv /\ [Next]_vars => Inv'
    BY TypeStep, HoldStep
  <1>3. Inv => HoldMatchesUse
    BY HoldShows
  <1> HIDE DEF Inv
  <1> QED
    BY <1>1, <1>2, <1>3, PTL DEF Spec

-----------------------------------------------------------------------------
(* What a stop ends *)

\* A turn that has begun is that of the current execution, and so is its process.
LEMMA OneOwner ==
  ASSUME TypeOK, HoldInv
  PROVE  /\ \A k \in Chats : Begun(k) => Owns(k) /\ session.exec = k /\ under[k] = k
         /\ session.process # NoCall => session.process = session.exec
         /\ NoCall \notin Chats
  <1>1. ASSUME NEW k \in Chats, Begun(k) PROVE Owns(k)
    BY <1>1 DEF HoldInv, Places, Owns, Begun, Detached
  <1>2. \A k \in Chats : Begun(k) => session.exec = k /\ under[k] = k
    BY <1>1 DEF HoldInv, OwnerHolds
  <1>3. session.process # NoCall => session.process = session.exec
    BY <1>2 DEF HoldInv, TurnFlags, TypeOK, Fields
  <1>4. NoCall \notin Chats
    BY SessionAssumption DEF Calls
  <1> QED
    BY <1>1, <1>2, <1>3, <1>4

\* Whatever may still end a turn was meant for the execution it would end.
StopInv ==
    /\ session.stopRequested /\ session.exec # NoCall => session.exec \in wanted
    /\ session.aborted # NoCall => session.aborted \in wanted
    /\ \A s \in Stops : /\ captured[s].exec # NoCall => captured[s].exec \in wanted
                        /\ captured[s].process # NoCall => captured[s].process \in wanted
    /\ StopHitsItsOwn

\* Nothing is stopped in the beginning.
LEMMA StopInit == Init => StopInv
  <1> SUFFICES ASSUME Init PROVE StopInv
    OBVIOUS
  <1>1. \A s \in Stops : captured[s].exec = NoCall /\ captured[s].process = NoCall
    BY DEF Init, NoStop
  <1>2. session.exec = NoCall /\ session.aborted = NoCall /\ wanted = {} /\ stopped = {}
    BY DEF Init
  <1> QED
    BY <1>1, <1>2 DEF StopInv, StopHitsItsOwn

\* A step that raises no stop request for an execution nobody meant, and ends
\* only turns that somebody meant, keeps the invariant.
LEMMA StopFrame ==
  ASSUME StopInv, UNCHANGED captured, wanted \subseteq wanted',
         session'.stopRequested /\ session'.exec # NoCall =>
           (session.stopRequested /\ session.exec = session'.exec) \/ session'.exec \in wanted',
         session'.aborted \in {NoCall, session.aborted} \cup wanted',
         stopped' \subseteq stopped \cup wanted'
  PROVE  StopInv'
  <1>1. session'.stopRequested /\ session'.exec # NoCall => session'.exec \in wanted'
    BY DEF StopInv
  <1>2. session'.aborted # NoCall => session'.aborted \in wanted'
    BY DEF StopInv
  <1>3. stopped' \subseteq wanted'
    BY DEF StopInv, StopHitsItsOwn
  <1> QED
    BY <1>1, <1>2, <1>3 DEF StopInv, StopHitsItsOwn

\* The abort task is for the execution and runtime it is given.
LEMMA AbortingStops ==
  ASSUME NEW f \in Fields, NEW e, NEW r \in Chats \cup {NoCall}
  PROVE  LET g == Aborting(f, e, r) IN
           /\ g.exec = f.exec
           /\ g.stopRequested => f.stopRequested \/ f.exec = e
           /\ g.aborted \in {f.aborted, r}
  BY DEF Aborting, Fields

\* The end of an execution moves no stop request to another one.
LEMMA FinishedStops ==
  ASSUME NEW f \in Fields, NEW e \in Chats \cup {NoCall}
  PROVE  /\ Finished(f, e).exec \in {NoCall, f.exec}
         /\ Finished(f, e).stopRequested <=> f.stopRequested
         /\ Finished(f, e).aborted = f.aborted
  BY DEF Finished, Fields

\* Nor does the exit of a scope.
LEMMA ReleasedStops ==
  ASSUME NEW f \in Fields, NEW c
  PROVE  /\ Released(f, c).exec \in {NoCall, f.exec}
         /\ Released(f, c).stopRequested <=> f.stopRequested
         /\ Released(f, c).aborted = f.aborted
  BY DEF Released, Finished, Fields

\* Every step keeps the invariant of the stops.
LEMMA StopStep ==
  ASSUME Workers = {}, TypeOK, HoldInv, StopInv, [Next]_vars
  PROVE  StopInv'
  <1> USE SessionAssumption
  <1>0. session \in Fields /\ session' \in Fields
    BY SessionTyped DEF TypeOK
  <1>1. ASSUME NEW k \in Chats, EnterChat(k) PROVE StopInv'
    <2>1. ~session'.stopRequested /\ session'.aborted = session.aborted
      BY <1>0, <1>1, ReservedFields DEF EnterChat
    <2> QED
      BY <1>1, <2>1, StopFrame DEF EnterChat
  <1>2. ASSUME NEW k \in Chats, LeaveChat(k) PROVE StopInv'
    <2>1. /\ session'.exec \in {NoCall, session.exec}
          /\ session'.stopRequested <=> session.stopRequested
          /\ session'.aborted = session.aborted
      BY <1>0, <1>2, ReleasedStops DEF LeaveChat
    <2> QED
      BY <1>2, <2>1, StopFrame DEF LeaveChat
  <1>3. ASSUME NEW k \in Chats, BeginTurn(k) \/ BeginNative(k) PROVE StopInv'
    <2>1. Starts(k) /\ UNCHANGED <<captured, wanted, stopped>>
      BY <1>3, BeginStarts
    <2>2. /\ session'.exec = IF session.exec = NoCall THEN k ELSE session.exec
          /\ session'.stopRequested = (session.stopRequested /\ session.exec # NoCall)
          /\ session'.aborted = session.aborted
      BY <2>1, StartTurnFields
    <2> QED
      BY <2>1, <2>2, StopFrame
  <1>4. ASSUME NEW k \in Chats, DetachTurn(k) \/ ProcessStarts(k) \/ ProcessEnds(k) PROVE StopInv'
    <2>1. /\ session'.exec = session.exec /\ session'.aborted = session.aborted
          /\ session'.stopRequested = session.stopRequested
      BY <1>0, <1>4 DEF DetachTurn, ProcessStarts, ProcessEnds, Fields
    <2> QED
      BY <1>4, <2>1, StopFrame DEF DetachTurn, ProcessStarts, ProcessEnds
  <1>5. ASSUME NEW k \in Chats, RefuseNative(k) PROVE StopInv'
    <2>1. /\ session'.exec \in {NoCall, session.exec}
          /\ session'.stopRequested <=> session.stopRequested
          /\ session'.aborted = session.aborted
      BY <1>0, <1>5, FinishedStops DEF RefuseNative
    <2> QED
      BY <1>5, <2>1, StopFrame DEF RefuseNative
  <1>6. ASSUME NEW k \in Chats, TurnCompletes(k) PROVE StopInv'
    <2>1. session.exec = k /\ k # NoCall
      BY <1>6, OneOwner DEF TurnCompletes, Begun
    <2>2. /\ session'.exec = session.exec /\ session'.aborted = session.aborted
          /\ session'.stopRequested = session.stopRequested
      BY <1>0, <1>6 DEF TurnCompletes, Fields
    <2>3. stopped' \subseteq stopped \cup wanted
      BY <1>6, <2>1 DEF TurnCompletes, StopInv
    <2> QED
      BY <1>6, <2>2, <2>3, StopFrame DEF TurnCompletes
  <1>7. ASSUME NEW k \in Chats, TurnBreaks(k) PROVE StopInv'
    BY <1>7, StopFrame DEF TurnBreaks
  <1>8. ASSUME NEW k \in Chats, CloseLooks(k) PROVE StopInv'
    <2>1. session.process \in {NoCall, k}
      BY <1>8, OneOwner DEF CloseLooks, Begun
    <2>2. stopped' = stopped
      BY <1>8, <2>1 DEF CloseLooks
    <2> QED
      BY <1>8, <2>2, StopFrame DEF CloseLooks
  <1>9. ASSUME NEW k \in Chats, CloseResets(k) PROVE StopInv'
    <2>1. session' = session \/ session' = Reset(session)
      BY <1>9 DEF CloseResets
    <2>2. /\ session'.exec = session.exec /\ session'.aborted = session.aborted
          /\ session'.stopRequested => session.stopRequested
      BY <1>0, <2>1, ResetFields
    <2> QED
      BY <1>9, <2>2, StopFrame DEF CloseResets
  <1>10. ASSUME NEW k \in Chats, EndNative(k) PROVE StopInv'
    <2>1. session.exec = k /\ under[k] = k /\ k # NoCall
      BY <1>10, OneOwner DEF EndNative, Native, Begun
    <2> DEFINE f == Reset(session)
    <2>2. f \in Fields /\ f.exec = k /\ f.aborted = session.aborted /\ ~f.stopRequested
      BY <1>0, <2>1, ResetFields
    <2>3. session' = Finished(f, k)
      BY <1>10, <2>1 DEF EndNative
    <2> HIDE DEF f
    <2>4. /\ ~session'.stopRequested /\ session'.aborted = session.aborted
      BY <2>2, <2>3, FinishedStops
    <2>5. stopped' \subseteq stopped \cup wanted
      BY <1>10, <2>1 DEF EndNative, StopInv
    <2> QED
      BY <1>10, <2>4, <2>5, StopFrame DEF EndNative
  <1>11. ASSUME NEW k \in Chats, GraceAborts(k) PROVE StopInv'
    <2>1. session.exec = k /\ session.process \in {NoCall, k}
      BY <1>11, OneOwner DEF GraceAborts, Begun
    <2>2. /\ session'.exec = k
          /\ session'.aborted \in {session.aborted, session.process}
      <3>1. session.process \in Chats \cup {NoCall}
        BY <2>1
      <3>2. session' = Aborting(session, k, session.process)
        BY <1>11 DEF GraceAborts
      <3> QED
        BY <1>0, <2>1, <3>1, <3>2, AbortingStops
    <2>3. wanted' = wanted \cup {k} /\ UNCHANGED <<captured, stopped>>
      BY <1>11 DEF GraceAborts
    <2> QED
      BY <2>1, <2>2, <2>3, StopFrame
  <1>12. ASSUME AbortEnds PROVE StopInv'
    <2>1. /\ session'.exec = session.exec /\ session'.aborted = NoCall
          /\ session'.stopRequested = session.stopRequested
      BY <1>0, <1>12 DEF AbortEnds, Fields
    <2>2. stopped' \subseteq stopped \cup wanted
      BY <1>12 DEF AbortEnds, Ended, StopInv
    <2> QED
      BY <1>12, <2>1, <2>2, StopFrame DEF AbortEnds
  <1>13. ASSUME NEW s \in Stops, StopAsked(s) PROVE StopInv'
    <2>1. session'.exec = session.exec /\ session'.aborted = session.aborted
      BY <1>0, <1>13 DEF StopAsked, Fields
    <2>2. wanted' = wanted \cup ({session.exec} \ {NoCall}) /\ stopped' = stopped
      BY <1>13 DEF StopAsked
    <2>3. session.process # NoCall => session.process = session.exec
      BY OneOwner
    <2>4. ASSUME NEW t \in Stops
          PROVE /\ captured'[t].exec # NoCall => captured'[t].exec \in wanted'
                /\ captured'[t].process # NoCall => captured'[t].process \in wanted'
      <3>1. CASE t = s
        <4>1. captured'[t].exec = session.exec /\ captured'[t].process = session.process
          BY <1>13, <3>1 DEF StopAsked, TypeOK
        <4> QED
          BY <2>2, <2>3, <4>1
      <3>2. CASE t # s
        <4>1. captured'[t] = captured[t]
          BY <1>13, <3>2 DEF StopAsked, TypeOK
        <4> QED
          BY <2>2, <4>1 DEF StopInv
      <3> QED
        BY <3>1, <3>2
    <2> QED
      BY <2>1, <2>2, <2>4 DEF StopInv, StopHitsItsOwn
  <1>14. ASSUME NEW s \in Stops, StopActs(s) PROVE StopInv'
    <2>1. /\ captured[s].exec # NoCall => captured[s].exec \in wanted
          /\ captured[s].process # NoCall => captured[s].process \in wanted
          /\ captured[s].process \in Chats \cup {NoCall}
      BY DEF StopInv, TypeOK
    <2>2. session' = session \/ session' = Aborting(session, captured[s].exec, captured[s].process)
      BY <1>14 DEF StopActs
    <2>3. /\ session'.exec = session.exec
          /\ session'.stopRequested => session.stopRequested \/ session.exec = captured[s].exec
          /\ session'.aborted \in {session.aborted, captured[s].process}
      BY <1>0, <2>1, <2>2, AbortingStops
    <2>4. stopped' \subseteq stopped \cup wanted
      BY <1>14, <2>1 DEF StopActs, Ended
    <2>5. UNCHANGED <<captured, wanted>>
      BY <1>14 DEF StopActs
    <2> QED
      BY <2>1, <2>3, <2>4, <2>5, StopFrame
  <1>15. ASSUME NEW s \in Stops, StopReturns(s) PROVE StopInv'
    <2>1. /\ session'.exec = session.exec /\ session'.aborted = session.aborted
          /\ session'.stopRequested = session.stopRequested
      BY <1>0, <1>15 DEF StopReturns, Fields
    <2> QED
      BY <1>15, <2>1, StopFrame DEF StopReturns
  <1>16. ASSUME NEW x \in Changes, EnterChange(x) \/ Change(x) PROVE StopInv'
    <2>1. /\ session'.exec = session.exec /\ session'.aborted = session.aborted
          /\ session'.stopRequested = session.stopRequested
      BY <1>0, <1>16 DEF EnterChange, Change, Fields
    <2> QED
      BY <1>16, <2>1, StopFrame DEF EnterChange, Change
  <1>17. ASSUME NEW x \in Changes, LeaveChange(x) PROVE StopInv'
    <2>1. /\ session'.exec \in {NoCall, session.exec}
          /\ session'.stopRequested <=> session.stopRequested
          /\ session'.aborted = session.aborted
      BY <1>0, <1>17, ReleasedStops DEF LeaveChange
    <2> QED
      BY <1>17, <2>1, StopFrame DEF LeaveChange
  <1>18. ASSUME NEW d \in Deletes,
                \/ \E c \in Convs, archive \in BOOLEAN : DeleteLooks(d, c, archive)
                \/ DeleteHalf(d) \/ DeleteRest(d)
         PROVE StopInv'
    <2>1. session' = session \/ session' = [session EXCEPT !.active = NoConv]
      BY <1>18, RemovalFields DEF DeleteLooks
    <2>2. /\ session'.exec = session.exec /\ session'.aborted = session.aborted
          /\ session'.stopRequested = session.stopRequested
      BY <1>0, <2>1 DEF Fields
    <2>3. UNCHANGED <<captured, wanted, stopped>>
      BY <1>18 DEF DeleteLooks, DeleteHalf, DeleteRest
    <2> QED
      BY <2>2, <2>3, StopFrame
  <1>19. ASSUME ApplyUpdate \/ UNCHANGED vars PROVE StopInv'
    BY <1>19, StopFrame DEF ApplyUpdate, vars
  <1>20. ASSUME NEW c \in Convs, ReadLooks(c) PROVE StopInv'
    BY <1>20, StopFrame DEF ReadLooks
  <1>21. ASSUME ReadBinds PROVE StopInv'
    <2>1. /\ session'.exec = session.exec /\ session'.aborted = session.aborted
          /\ session'.stopRequested = session.stopRequested
      BY <1>0, <1>21, BindsFields DEF Fields
    <2> QED
      BY <1>21, <2>1, StopFrame DEF ReadBinds
  <1> QED
    BY <1>20, <1>21, <1>1, <1>2, <1>3, <1>4, <1>5, <1>6, <1>7, <1>8, <1>9, <1>10, <1>11, <1>12, <1>13,
       <1>14, <1>15, <1>16, <1>17, <1>18, <1>19 DEF Next

\* A stop ends the execution it was meant for and never a later one, for any
\* number of stops and turns (kill_user_process, NativeAgentService.abort).
THEOREM StopsHitTheirOwn ==
  ASSUME Workers = {}
  PROVE  Spec => []StopHitsItsOwn
  <1> DEFINE Inv == TypeOK /\ HoldInv /\ StopInv
  <1>1. Init => Inv
    BY TypeInit, HoldInit, StopInit
  <1>2. Inv /\ [Next]_vars => Inv'
    BY TypeStep, HoldStep, StopStep
  <1>3. Inv => StopHitsItsOwn
    BY DEF StopInv
  <1> HIDE DEF Inv
  <1> QED
    BY <1>1, <1>2, <1>3, PTL DEF Spec

-----------------------------------------------------------------------------
(* Where a turn runs *)

\* A chat that is admitted and whose turn has not begun.
Sent(k) == (pc[k] = "in" /\ turn[k] = "none") \/ turn[k] = "queued"

\* A conversation that was used is not a free id.
Kept(c) == c # NoConv => conv[c] # "free"

\* The session and the chats refer to no free id.
KeptConvs ==
    /\ Kept(session.active)
    /\ \A k \in Chats : Kept(place[k].asked) /\ Kept(place[k].in)

\* Deletions of one session take turns (the store's write key).
OneDelete == \A d, e \in Deletes : Deleting(d) /\ Deleting(e) => d = e

\* Halfway through, a deletion still finds what it has seen.
VictimBound ==
    \A d \in Deletes : Deleting(d) =>
        /\ victim[d].of \in Convs
        /\ conv[victim[d].of] = IF pc[d] = "half" /\ victim[d].archive
                                THEN "archived" ELSE "there"

\* What a read is about to bind stays in the store: it shares the write key.
ReadingStored == reading # NoConv => NoDeletion /\ conv[reading] = "there"

\* A chat that waits for its turn finds the conversation it was sent to, unless
\* a read or a deletion has moved the session to another.
SentStays ==
    \A k \in Chats : Sent(k) /\ place[k].asked # NoConv /\ k \notin overrun =>
        session.active = place[k].asked \/ Doomed(place[k].asked)

\* The inductive invariant of the conversations.
PlaceInv ==
    /\ KeptConvs /\ OneDelete /\ VictimBound /\ ReadingStored
    /\ SentStays /\ RunsWhereSent

\* It holds in the beginning, when no chat was sent anywhere.
LEMMA PlaceInit == Init => PlaceInv
  <1> SUFFICES ASSUME Init PROVE PlaceInv
    OBVIOUS
  <1> USE SessionAssumption
  <1>1. /\ \A k \in Chats : /\ place[k].asked = NoConv /\ place[k].in = NoConv
                            /\ turn[k] = "none" /\ k \in Calls /\ pc[k] = "new"
        /\ \A d \in Deletes : d \in Calls /\ pc[d] = "new"
        /\ session.active = NoConv
    BY DEF Init, Calls
  <1>2. \A d \in Deletes : ~Deleting(d)
    BY <1>1 DEF Deleting
  <1>3. KeptConvs /\ OneDelete /\ VictimBound /\ ReadingStored
    BY <1>1, <1>2 DEF KeptConvs, Kept, OneDelete, VictimBound, ReadingStored, Init
  <1>4. SentStays /\ RunsWhereSent
    BY <1>1 DEF SentStays, RunsWhereSent
  <1> QED
    BY <1>3, <1>4 DEF PlaceInv

\* A step that leaves the conversations alone and begins nothing keeps it.
LEMMA PlaceFrame ==
  ASSUME PlaceInv, UNCHANGED <<conv, victim, place, reading, overrun>>,
         session'.active = session.active,
         \A d \in Deletes : pc'[d] = pc[d],
         \A k \in Chats : (Sent(k)' => Sent(k)) /\ (Running(k)' => Running(k))
  PROVE  PlaceInv'
  <1> USE DEF PlaceInv
  <1>1. \A d \in Deletes : Deleting(d)' <=> Deleting(d)
    BY DEF Deleting
  <1>2. \A c : Doomed(c)' <=> Doomed(c)
    BY <1>1 DEF Doomed
  <1>3. KeptConvs'
    BY DEF KeptConvs, Kept
  <1>4. OneDelete'
    BY <1>1 DEF OneDelete
  <1>5. VictimBound'
    BY <1>1 DEF VictimBound
  <1>6. SentStays'
    BY <1>2 DEF SentStays, Doomed
  <1>7. RunsWhereSent'
    BY <1>2 DEF RunsWhereSent, Doomed
  <1>8. ReadingStored'
    BY <1>1 DEF ReadingStored, NoDeletion
  <1> QED
    BY <1>3, <1>4, <1>5, <1>6, <1>7, <1>8

\* Such are the steps of a turn from its first to its last, the stops, and the
\* borders of the conversation operations.
LEMMA PlaceSteady ==
  ASSUME TypeOK, PlaceInv,
         \/ \E k \in Chats :
               \/ LeaveChat(k) \/ DetachTurn(k) \/ RefuseNative(k) \/ ProcessStarts(k)
               \/ ProcessEnds(k) \/ TurnCompletes(k) \/ TurnBreaks(k) \/ CloseLooks(k)
               \/ CloseResets(k) \/ EndNative(k) \/ GraceAborts(k)
         \/ AbortEnds
         \/ \E s \in Stops : StopAsked(s) \/ StopActs(s) \/ StopReturns(s)
         \/ \E x \in Changes : EnterChange(x) \/ LeaveChange(x)
         \/ ApplyUpdate
         \/ UNCHANGED vars
  PROVE  PlaceInv'
  <1> USE SessionAssumption
  <1> DEFINE steady == /\ UNCHANGED <<conv, victim, place, reading, overrun>>
                       /\ session'.active = session.active
             calm == \A d \in Deletes : pc'[d] = pc[d]
             same == \A k \in Chats : (Sent(k)' => Sent(k)) /\ (Running(k)' => Running(k))
  <1>0. session \in Fields
    BY DEF TypeOK
  <1>1. \A f \in Fields : \A c \in Chats \cup {NoCall} : Finished(f, c).active = f.active
    BY FinishedFields
  <1>2. \A f \in Fields : \A c : Released(f, c).active = f.active
    BY DEF Released, Finished, Fields
  <1>3. \A f \in Fields : Reset(f) \in Fields /\ Reset(f).active = f.active
    BY ResetFields
  <1>4. \A f \in Fields : \A e : \A r \in Chats \cup {NoCall} :
           Aborting(f, e, r).active = f.active
    BY AbortingFields
  <1>5. ASSUME NEW c \in Calls \ Deletes, NEW v, pc' = [pc EXCEPT ![c] = v] PROVE calm
    BY <1>5 DEF TypeOK, Calls
  <1>6. ASSUME NEW k \in Chats, NEW v \in {"over", "closing", "cleaning"}, pc' = pc,
               turn' = [turn EXCEPT ![k] = v]
        PROVE  calm /\ same
    <2>1. ASSUME NEW j \in Chats PROVE turn'[j] = turn[j] \/ turn'[j] = v
      BY <1>6 DEF TypeOK
    <2> QED
      BY <1>6, <2>1 DEF Sent, Running, Native
  <1>7. ASSUME NEW c \in Calls, NEW v \in {"asked", "acting", "over"}, turn' = turn,
               pc' = [pc EXCEPT ![c] = v]
        PROVE  same
    <2>1. ASSUME NEW j \in Chats PROVE pc'[j] = pc[j] \/ pc'[j] = v
      BY <1>7 DEF TypeOK, Calls
    <2> QED
      BY <1>7, <2>1 DEF Sent, Running, Native
  <1>8. ASSUME pc' = pc, turn' = turn PROVE calm /\ same
    BY <1>8 DEF Sent, Running, Native
  <1>9. ASSUME NEW k \in Chats, LeaveChat(k) PROVE steady /\ calm /\ same
    <2>1. k \in Calls \ Deletes
      BY DEF Calls
    <2> QED
      BY <1>0, <1>2, <1>5, <1>7, <1>9, <2>1 DEF LeaveChat
  <1>10. ASSUME NEW k \in Chats, DetachTurn(k) PROVE steady /\ calm /\ same
    <2>1. steady /\ calm
      BY <1>0, <1>10 DEF DetachTurn, Fields
    <2>2. ASSUME NEW j \in Chats PROVE (Sent(j)' => Sent(j)) /\ (Running(j)' => Running(j))
      <3>1. CASE j = k
        BY <1>10, <3>1 DEF DetachTurn, TypeOK, Sent, Running, Native
      <3>2. CASE j # k
        <4>1. turn'[j] = turn[j] /\ pc' = pc
          BY <1>10, <3>2 DEF DetachTurn, TypeOK
        <4> QED
          BY <4>1 DEF Sent, Running, Native
      <3> QED
        BY <3>1, <3>2
    <2> QED
      BY <2>1, <2>2
  <1>11. ASSUME NEW k \in Chats, RefuseNative(k) PROVE steady /\ calm /\ same
    BY <1>0, <1>1, <1>6, <1>11 DEF RefuseNative
  <1>12. ASSUME NEW k \in Chats, ProcessStarts(k) \/ ProcessEnds(k) PROVE steady /\ calm /\ same
    <2>1. steady
      BY <1>0, <1>12 DEF ProcessStarts, ProcessEnds, Fields
    <2> QED
      BY <1>8, <1>12, <2>1 DEF ProcessStarts, ProcessEnds
  <1>13. ASSUME NEW k \in Chats, TurnCompletes(k) PROVE steady /\ calm /\ same
    <2>1. steady
      BY <1>0, <1>13 DEF TurnCompletes, Fields
    <2>2. k \in Calls \ Deletes
      BY DEF Calls
    <2>3. \E v : pc' = [pc EXCEPT ![k] = v]
      BY <1>13 DEF TurnCompletes
    <2>4. calm
      BY <1>5, <2>2, <2>3
    <2>5. ASSUME NEW j \in Chats PROVE (Sent(j)' => Sent(j)) /\ (Running(j)' => Running(j))
      <3>1. CASE j = k
        BY <1>13, <3>1 DEF TurnCompletes, TypeOK, Sent, Running, Native
      <3>2. CASE j # k
        <4>1. turn'[j] = turn[j] /\ pc'[j] = pc[j]
          BY <1>13, <3>2 DEF TurnCompletes, TypeOK, Calls
        <4> QED
          BY <4>1 DEF Sent, Running, Native
      <3> QED
        BY <3>1, <3>2
    <2> QED
      BY <2>1, <2>4, <2>5
  <1>14. ASSUME NEW k \in Chats, TurnBreaks(k) \/ CloseLooks(k) PROVE steady /\ calm /\ same
    BY <1>6, <1>14 DEF TurnBreaks, CloseLooks
  <1>15. ASSUME NEW k \in Chats, CloseResets(k) PROVE steady /\ calm /\ same
    <2>1. session' \in {session, Reset(session), Finished(Reset(session), k)}
      BY <1>15 DEF CloseResets
    <2>2. session'.active = session.active
      BY <1>0, <1>1, <1>3, <2>1
    <2> QED
      BY <1>6, <1>15, <2>2 DEF CloseResets
  <1>16. ASSUME NEW k \in Chats, EndNative(k) PROVE steady /\ calm /\ same
    <2>1. \E f \in {session, Reset(session)} : session' = Finished(f, under[k])
      BY <1>16 DEF EndNative
    <2>2. under[k] \in Chats \cup {NoCall}
      BY DEF TypeOK
    <2>3. session'.active = session.active
      BY <1>0, <1>1, <1>3, <2>1, <2>2
    <2> QED
      BY <1>6, <1>16, <2>3 DEF EndNative
  <1>17. ASSUME NEW k \in Chats, GraceAborts(k) PROVE steady /\ calm /\ same
    <2>1. session.process \in Chats \cup {NoCall}
      BY <1>0 DEF Fields
    <2> QED
      BY <1>0, <1>4, <1>8, <1>17, <2>1 DEF GraceAborts
  <1>18. ASSUME AbortEnds PROVE steady /\ calm /\ same
    <2>1. steady
      BY <1>0, <1>18 DEF AbortEnds, Fields
    <2> QED
      BY <1>8, <1>18, <2>1 DEF AbortEnds
  <1>19. ASSUME NEW s \in Stops, StopAsked(s) \/ StopActs(s) \/ StopReturns(s)
         PROVE steady /\ calm /\ same
    <2>1. s \in Calls \ Deletes
      BY DEF Calls
    <2>2. calm /\ same
      BY <1>5, <1>7, <1>19, <2>1 DEF StopAsked, StopActs, StopReturns
    <2>3. session'.active = session.active
      <3>1. CASE StopAsked(s) \/ StopReturns(s)
        BY <1>0, <3>1 DEF StopAsked, StopReturns, Fields
      <3>2. CASE StopActs(s)
        <4>1. captured[s].process \in Chats \cup {NoCall}
          BY DEF TypeOK
        <4>2. session' = session
              \/ session' = Aborting(session, captured[s].exec, captured[s].process)
          BY <3>2 DEF StopActs
        <4> QED
          BY <1>0, <1>4, <4>1, <4>2
      <3> QED
        BY <1>19, <3>1, <3>2
    <2> QED
      BY <1>19, <2>2, <2>3 DEF StopAsked, StopActs, StopReturns
  <1>20. ASSUME NEW x \in Changes, EnterChange(x) \/ LeaveChange(x) PROVE steady /\ calm /\ same
    <2>1. x \in Calls \ Deletes
      BY DEF Calls
    <2>2. calm
      BY <1>5, <1>20, <2>1 DEF EnterChange, LeaveChange
    <2>3. same
      <3>1. ASSUME NEW j \in Chats PROVE pc'[j] = pc[j] /\ turn'[j] = turn[j]
        <4>1. j # x /\ pc \in [Calls -> {"new", "in", "done", "asked", "acting", "checked",
                                         "half", "over"}]
          BY DEF TypeOK
        <4>2. turn' = turn /\ \E v : pc' = [pc EXCEPT ![x] = v]
          BY <1>20 DEF EnterChange, LeaveChange
        <4> QED
          BY <4>1, <4>2 DEF Calls
      <3> QED
        BY <3>1 DEF Sent, Running, Native
    <2>4. session'.active = session.active
      <3>1. CASE EnterChange(x)
        BY <1>0, <3>1 DEF EnterChange, Fields
      <3>2. CASE LeaveChange(x)
        BY <1>0, <1>2, <3>2 DEF LeaveChange
      <3> QED
        BY <1>20, <3>1, <3>2
    <2> QED
      BY <1>20, <2>2, <2>3, <2>4 DEF EnterChange, LeaveChange
  <1>21. ASSUME ApplyUpdate \/ UNCHANGED vars PROVE steady /\ calm /\ same
    BY <1>8, <1>21 DEF ApplyUpdate, vars
  <1>22. steady /\ calm /\ same
    BY <1>9, <1>10, <1>11, <1>12, <1>13, <1>14, <1>15, <1>16, <1>17, <1>18, <1>19, <1>20, <1>21
  <1> QED
    BY <1>22, PlaceFrame

\* A conversation that is out of the store stays out of it.
StoreGrows ==
    \A c \in Convs :
        /\ conv[c] # "free" => conv'[c] # "free"
        /\ conv[c] \notin {"free", "there"} => conv'[c] = conv[c]
        /\ conv[c] = "there" => conv'[c] = "there"

\* A conversation that is deleted or archived, or about to be, does not come back.
LEMMA DoomedStays ==
  ASSUME TypeOK, StoreGrows, UNCHANGED victim, \A d \in Deletes : pc'[d] = pc[d],
         NEW c \in Convs, Kept(c), Doomed(c)
  PROVE  Doomed(c)'
  <1>1. CASE conv[c] # "there"
    BY <1>1, SessionAssumption DEF StoreGrows, Kept, Doomed
  <1>2. CASE \E d \in Deletes : Deleting(d) /\ victim[d].of = c
    BY <1>2 DEF Doomed, Deleting
  <1> QED
    BY <1>1, <1>2 DEF Doomed

\* A chat is sent to the active conversation.
LEMMA PlaceEnterChat ==
  ASSUME TypeOK, HoldInv, PlaceInv, NEW k \in Chats, EnterChat(k)
  PROVE  PlaceInv'
  <1> USE SessionAssumption DEF PlaceInv
  <1>1. session \in Fields /\ session.op = ""
    BY DEF TypeOK, EnterChat, Idle
  <1>2. /\ UNCHANGED <<conv, victim, turn>>
        /\ \A d \in Deletes : pc'[d] = pc[d]
        /\ \A j \in Chats \ {k} : pc'[j] = pc[j] /\ place'[j] = place[j]
        /\ place'[k].asked = session.active /\ place'[k].in = place[k].in
    BY DEF EnterChat, TypeOK, Calls
  <1>3. session'.active = session.active
    BY <1>1, ReservedFields DEF EnterChat
  <1>4. \A j \in Chats : ~Owns(j)
    BY <1>1 DEF HoldInv, OwnerHolds
  <1>5. \A j \in Chats : ~Running(j) /\ ~Running(j)'
    BY <1>2, <1>4 DEF HoldInv, Places, Owns, Detached, Running, Native
  <1>6. \A j \in Chats \ {k} : ~Sent(j)'
    BY <1>2, <1>4 DEF Sent, Owns, Detached
  <1>7. \A d \in Deletes : Deleting(d)' <=> Deleting(d)
    BY <1>2 DEF Deleting
  <1>8. KeptConvs'
    BY <1>2, <1>3 DEF KeptConvs, Kept
  <1>9. OneDelete'
    BY <1>7 DEF OneDelete
  <1>10. VictimBound'
    BY <1>2, <1>3, <1>7 DEF VictimBound
  <1>11. SentStays'
    BY <1>2, <1>3, <1>6 DEF SentStays
  <1>12. RunsWhereSent'
    BY <1>5 DEF RunsWhereSent
  <1>13. ReadingStored'
    BY <1>2, <1>7 DEF EnterChat, ReadingStored, NoDeletion
  <1> QED
    BY <1>8, <1>9, <1>10, <1>11, <1>12, <1>13

\* start_turn takes the conversation the chat was sent to, or another one when
\* that is gone or of another kind.
LEMMA PlaceBegin ==
  ASSUME TypeOK, HoldInv, PlaceInv, NEW k \in Chats, BeginTurn(k) \/ BeginNative(k)
  PROVE  PlaceInv'
  <1> USE SessionAssumption DEF PlaceInv
  <1>0. PICK kind \in Kinds : StartTurn(k, kind)
    BY BeginStarts DEF Starts
  <1> DEFINE current == session.active
             lost == ~Fits(current, kind)
  <1>1. /\ UNCHANGED <<pc, victim, overrun>>
        /\ Sent(k)
        /\ turn'[k] \in {"run", "attached", "detached"}
        /\ \A j \in Chats \ {k} : turn'[j] = turn[j]
    BY DEF BeginTurn, BeginNative, TypeOK, Sent
  <1>2. PICK c \in Convs \cup {NoConv} :
          /\ IF lost THEN c # NoConv /\ KindOf[c] = kind /\ conv[c] \in {"there", "free"}
             ELSE c = IF conv[current] = "there" THEN current ELSE NoConv
          /\ place' = [place EXCEPT ![k].in = c]
          /\ conv' = IF c = NoConv THEN conv ELSE [conv EXCEPT ![c] = "there"]
          /\ session' = [session EXCEPT !.processing = TRUE,
                           !.exec = IF @ = NoCall THEN k ELSE @,
                           !.stopRequested = @ /\ session.exec # NoCall,
                           !.active = IF lost THEN c ELSE @]
          /\ \/ UNCHANGED reading
             \/ lost /\ StoreFree /\ reading' \in {b \in Convs : conv'[b] = "there"}
    BY <1>0 DEF StartTurn
  <1>3. session'.active = IF lost THEN c ELSE session.active
    BY <1>2 DEF TypeOK, Fields
  <1>4. /\ place'[k].asked = place[k].asked /\ place'[k].in = c
        /\ \A j \in Chats \ {k} : place'[j] = place[j]
    BY <1>2 DEF TypeOK
  <1>5. current \in Convs \cup {NoConv} /\ place[k].asked \in Convs \cup {NoConv}
    BY DEF TypeOK, Fields
  <1>6. /\ \A b \in Convs : conv'[b] = IF b = c THEN "there" ELSE conv[b]
        /\ c # NoConv => conv[c] \in {"free", "there"}
    BY <1>2, <1>5 DEF TypeOK
  <1>7. StoreGrows
    BY <1>6 DEF StoreGrows
  <1>8. Owns(k)
    BY <1>1 DEF Sent, Owns, Detached
  <1>9. \A j \in Chats \ {k} : ~Owns(j)
    BY <1>8 DEF HoldInv, OwnerHolds
  <1>10. \A j \in Chats \ {k} : ~Running(j)' /\ ~Sent(j)'
    BY <1>1, <1>9 DEF HoldInv, Places, Owns, Detached, Running, Native, Sent
  <1>11. ~Sent(k)'
    BY <1>1 DEF Sent
  <1>12. \A d \in Deletes : (Deleting(d)' <=> Deleting(d)) /\ pc'[d] = pc[d]
    BY <1>1 DEF Deleting
  <1>13. \A b \in Convs : Kept(b) => Kept(b)'
    BY <1>7 DEF Kept, StoreGrows
  <1>14. KeptConvs'
    <2>1. Kept(session.active)'
      BY <1>2, <1>3, <1>5, <1>6, <1>7 DEF KeptConvs, Kept, StoreGrows, Fits
    <2>2. ASSUME NEW j \in Chats PROVE Kept(place[j].asked)' /\ Kept(place[j].in)'
      <3>1. /\ place[j].asked \in Convs \cup {NoConv}
            /\ place[j].in \in Convs \cup {NoConv}
        BY DEF TypeOK
      <3>2. Kept(place[j].asked)'
        BY <1>4, <1>7, <3>1 DEF KeptConvs, Kept, StoreGrows
      <3>3. CASE j = k
        BY <1>4, <1>6, <3>2, <3>3 DEF Kept
      <3>4. CASE j # k
        BY <1>4, <1>7, <3>1, <3>2, <3>4 DEF KeptConvs, Kept, StoreGrows
      <3> QED
        BY <3>3, <3>4
    <2> QED
      BY <2>1, <2>2 DEF KeptConvs
  <1>15. OneDelete'
    BY <1>12 DEF OneDelete
  <1>16. VictimBound'
    <2> SUFFICES ASSUME NEW d \in Deletes, Deleting(d)'
                 PROVE  /\ victim[d].of \in Convs
                        /\ conv'[victim[d].of] = IF pc[d] = "half" /\ victim[d].archive
                                                 THEN "archived" ELSE "there"
      BY <1>1 DEF VictimBound
    <2>1. /\ victim[d].of \in Convs
          /\ conv[victim[d].of] = IF pc[d] = "half" /\ victim[d].archive
                                  THEN "archived" ELSE "there"
      BY <1>12 DEF VictimBound
    <2>2. conv'[victim[d].of] = conv[victim[d].of]
      BY <1>7, <2>1 DEF StoreGrows
    <2> QED
      BY <2>1, <2>2
  <1>17. SentStays'
    BY <1>10, <1>11 DEF SentStays
  <1>18. RunsWhereSent'
    <2> DEFINE other == KindOf[c] # KindOf[place[k].asked]
    <2>1. ASSUME c # NoConv, place[k].asked # NoConv, k \notin overrun
          PROVE  c = place[k].asked \/ Doomed(place[k].asked)' \/ other
      <3>1. session.active = place[k].asked \/ Doomed(place[k].asked)
        BY <1>1, <2>1 DEF SentStays
      <3>2. Kept(place[k].asked)
        BY DEF KeptConvs
      <3>3. ASSUME session.active = place[k].asked, lost PROVE Doomed(place[k].asked) \/ other
        BY <1>2, <2>1, <3>3 DEF Doomed, Fits
      <3>4. ASSUME ~lost PROVE c = session.active
        BY <1>2, <2>1, <3>4
      <3>5. Doomed(place[k].asked) => Doomed(place[k].asked)'
        <4>1. ASSUME NEW b \in Convs, b = place[k].asked, Doomed(b) PROVE Doomed(b)'
          BY <1>1, <1>7, <1>12, <3>2, <4>1, DoomedStays
        <4>2. place[k].asked \in Convs
          BY <1>5, <2>1
        <4> QED
          BY <1>4, <4>1, <4>2 DEF Doomed
      <3> QED
        BY <3>1, <3>3, <3>4, <3>5
    <2>2. ASSUME c # NoConv PROVE session'.active = c
      BY <1>2, <1>3, <2>2
    <2> SUFFICES ASSUME NEW j \in Chats, Running(j)', place'[j].in # NoConv, j \notin overrun
                 PROVE  /\ place'[j].asked # NoConv =>
                             \/ place'[j].in = place'[j].asked \/ Doomed(place[j].asked)'
                             \/ KindOf[place'[j].in] # KindOf[place'[j].asked]
                        /\ session'.active = place'[j].in \/ Doomed(place[j].in)'
      BY <1>1 DEF RunsWhereSent
    <2>3. j = k
      BY <1>10
    <2>4. place'[k].asked # NoConv =>
             \/ place'[k].in = place'[k].asked \/ Doomed(place[k].asked)'
             \/ KindOf[place'[k].in] # KindOf[place'[k].asked]
      BY <1>4, <2>1, <2>3 DEF Doomed
    <2> QED
      BY <1>4, <2>2, <2>3, <2>4
  <1>19. ReadingStored'
    <2>1. NoDeletion' <=> NoDeletion
      BY <1>12 DEF NoDeletion
    <2>2. CASE UNCHANGED reading
      BY <1>7, <2>1, <2>2 DEF ReadingStored, StoreGrows, TypeOK
    <2>3. CASE StoreFree /\ reading' \in {b \in Convs : conv'[b] = "there"}
      BY <2>1, <2>3 DEF ReadingStored, StoreFree
    <2> QED
      BY <1>2, <2>2, <2>3
  <1> QED
    BY <1>14, <1>15, <1>16, <1>17, <1>18, <1>19

\* Nobody runs a turn or is about to while a change has the session.
LEMMA PlaceChange ==
  ASSUME TypeOK, HoldInv, PlaceInv, NEW x \in Changes, Change(x)
  PROVE  PlaceInv'
  <1> USE SessionAssumption DEF PlaceInv
  <1>1. PICK c \in Convs :
          /\ conv[c] \in {"free", "there"}
          /\ conv' = [conv EXCEPT ![c] = "there"]
          /\ session' = [session EXCEPT !.active = c]
    BY DEF Change
  <1>2. /\ UNCHANGED <<turn, place, victim, reading>> /\ StoreFree /\ pc[x] = "in"
        /\ \A d \in Deletes : pc'[d] = pc[d]
        /\ \A k \in Chats : pc'[k] = pc[k]
    BY DEF Change, TypeOK, Calls
  <1>3. session'.active = c
    BY <1>1 DEF TypeOK, Fields
  <1>4. \A b \in Convs : conv'[b] = IF b = c THEN "there" ELSE conv[b]
    BY <1>1 DEF TypeOK
  <1>5. \A k \in Chats : ~Owns(k)
    BY <1>2 DEF HoldInv, OwnerHolds, ChangeHolds
  <1>6. \A k \in Chats : ~Running(k)' /\ ~Sent(k)'
    BY <1>2, <1>5 DEF HoldInv, Places, Owns, Detached, Running, Native, Sent
  <1>7. \A d \in Deletes : ~Deleting(d)'
    BY <1>2 DEF StoreFree, NoDeletion, Deleting
  <1>8. KeptConvs'
    BY <1>2, <1>3, <1>4 DEF KeptConvs, Kept, TypeOK
  <1>9. OneDelete' /\ VictimBound' /\ ReadingStored'
    BY <1>2, <1>7 DEF OneDelete, VictimBound, ReadingStored, StoreFree
  <1>10. SentStays' /\ RunsWhereSent'
    BY <1>6 DEF SentStays, RunsWhereSent
  <1> QED
    BY <1>8, <1>9, <1>10

\* A deletion that has looked dooms its conversation.
LEMMA PlaceLooks ==
  ASSUME TypeOK, PlaceInv, NEW d \in Deletes, NEW c \in Convs, NEW archive \in BOOLEAN,
         DeleteLooks(d, c, archive)
  PROVE  PlaceInv'
  <1> USE SessionAssumption DEF PlaceInv
  <1>1. /\ UNCHANGED <<session, turn, place, conv, reading, overrun>>
        /\ conv[c] = "there" /\ StoreFree
        /\ pc'[d] = "checked"
        /\ \A e \in Deletes \ {d} : pc'[e] = pc[e]
        /\ \A k \in Chats : pc'[k] = pc[k]
    BY DEF DeleteLooks, TypeOK, Calls
  <1>2. victim'[d].of = c /\ (victim'[d].wasActive <=> session.active = c)
    BY DEF DeleteLooks, TypeOK
  <1>3. \A e \in Deletes : ~Deleting(e) /\ (Deleting(e)' <=> e = d)
    BY <1>1 DEF StoreFree, NoDeletion, Deleting
  <1>4. \A b : Doomed(b) => Doomed(b)'
    BY <1>1, <1>3 DEF Doomed
  <1>5. KeptConvs' /\ OneDelete' /\ ReadingStored'
    BY <1>1, <1>3 DEF KeptConvs, Kept, OneDelete, ReadingStored, StoreFree
  <1>6. VictimBound'
    BY <1>1, <1>2, <1>3 DEF VictimBound
  <1>7. \A k \in Chats : (Sent(k)' <=> Sent(k)) /\ (Running(k)' <=> Running(k))
    BY <1>1 DEF Sent, Running, Native
  <1>8. SentStays'
    BY <1>1, <1>4, <1>7 DEF SentStays, Doomed
  <1>9. RunsWhereSent'
    BY <1>1, <1>4, <1>7 DEF RunsWhereSent, Doomed
  <1> QED
    BY <1>5, <1>6, <1>8, <1>9

\* Where a chat waits for its turn or runs it, it uses the session.
LEMMA SentUse ==
  ASSUME HoldInv, NEW k \in Chats, Sent(k) \/ Running(k)
  PROVE  InUse(k)
  BY DEF HoldInv, Places, Sent, Running, Native, InUse

\* Whoever sets the active conversation for a stale reason overruns the chats
\* that wait or run; unless none was active, for then theirs was doomed.
Overruns(gone) ==
    \/ session'.active = session.active
    \/ session.active \in {NoConv, gone}
    \/ \A k \in Chats : Sent(k) \/ Running(k) => k \in overrun'

\* Either half of a deletion leaves the others their conversation, unless it
\* is the one that goes or they are overrun.
LEMMA PlaceDelete ==
  ASSUME TypeOK, HoldInv, PlaceInv, NEW d \in Deletes, DeleteHalf(d) \/ DeleteRest(d)
  PROVE  PlaceInv'
  <1> USE SessionAssumption DEF PlaceInv
  <1> DEFINE gone == victim[d].of
  <1>0. session' \in Fields /\ overrun \subseteq overrun'
    BY RemovalFields
  <1>1. /\ UNCHANGED <<turn, place, victim, reading>> /\ Deleting(d)
        /\ pc'[d] = IF pc[d] = "checked" THEN "half" ELSE "over"
        /\ \A e \in Deletes \ {d} : pc'[e] = pc[e]
        /\ \A k \in Chats : pc'[k] = pc[k]
    BY DEF DeleteHalf, DeleteRest, Deleting, TypeOK, Calls
  <1>2. /\ gone \in Convs
        /\ conv[gone] = IF pc[d] = "half" /\ victim[d].archive THEN "archived" ELSE "there"
    BY <1>1 DEF VictimBound
  <1>3. /\ \A b \in Convs : b # gone => conv'[b] = conv[b]
        /\ conv'[gone] = IF victim[d].archive THEN "archived"
                         ELSE IF pc[d] = "half" THEN "deleted" ELSE "there"
    BY <1>1, <1>2 DEF DeleteHalf, DeleteRest, TypeOK, Deleting
  <1>4. session'.active \in {session.active, NoConv} /\ Overruns(gone)
    <2>1. session'.active \in {session.active, NoConv}
      BY RemovalFields DEF TypeOK, Fields
    <2>2. Unbind(d) \/ UNCHANGED session
      BY DEF DeleteHalf, DeleteRest
    <2>3. ASSUME Unbind(d), session.active \notin {NoConv, gone}, session' # session
          PROVE  \A k \in Chats : Sent(k) \/ Running(k) => k \in overrun'
      BY <2>3, SentUse DEF Unbind, SetActive
    <2> QED
      BY <2>1, <2>2, <2>3 DEF Overruns
  <1>5. \A e \in Deletes \ {d} : ~Deleting(e) /\ ~Deleting(e)'
    BY <1>1 DEF OneDelete, Deleting
  <1>6. Doomed(gone)'
    <2>1. CASE pc[d] = "checked"
      BY <1>1, <2>1 DEF Doomed, Deleting
    <2>2. CASE pc[d] = "half"
      BY <1>1, <1>3, <2>2 DEF Doomed
    <2> QED
      BY <1>1, <2>1, <2>2 DEF Deleting
  <1>7. \A b \in Convs : Doomed(b) => Doomed(b)'
    <2> SUFFICES ASSUME NEW b \in Convs, Doomed(b) PROVE Doomed(b)'
      OBVIOUS
    <2>1. CASE b = gone
      BY <1>1, <1>6, <2>1 DEF Doomed
    <2>2. CASE b # gone
      <3>1. conv[b] # "there"
        BY <1>5, <2>2 DEF Doomed
      <3> QED
        BY <1>3, <2>2, <3>1 DEF Doomed
    <2> QED
      BY <2>1, <2>2
  <1>8. \A k \in Chats : (Sent(k)' <=> Sent(k)) /\ (Running(k)' <=> Running(k))
    BY <1>1 DEF Sent, Running, Native
  <1>9. session.active \in Convs \cup {NoConv}
    BY DEF TypeOK, Fields
  <1>10. KeptConvs'
    <2>1. \A b \in Convs \cup {NoConv} : Kept(b) => Kept(b)'
      BY <1>2, <1>3 DEF Kept
    <2>2. \A k \in Chats : place[k].asked \in Convs \cup {NoConv}
                             /\ place[k].in \in Convs \cup {NoConv}
      BY DEF TypeOK
    <2> QED
      BY <1>1, <1>4, <1>9, <2>1, <2>2 DEF KeptConvs, Kept
  <1>11. OneDelete'
    BY <1>5 DEF OneDelete
  <1>12. VictimBound'
    <2> SUFFICES ASSUME Deleting(d)'
                 PROVE  /\ gone \in Convs
                        /\ conv'[gone] = IF pc'[d] = "half" /\ victim[d].archive
                                         THEN "archived" ELSE "there"
      BY <1>1, <1>5 DEF VictimBound
    <2>1. pc[d] = "checked" /\ pc'[d] = "half" /\ DeleteHalf(d)
      BY <1>1 DEF Deleting, DeleteHalf, DeleteRest
    <2> QED
      BY <1>2, <1>3, <2>1
  <1>13. SentStays'
    <2> SUFFICES ASSUME NEW k \in Chats, Sent(k), place[k].asked # NoConv, k \notin overrun'
                 PROVE  session'.active = place[k].asked \/ Doomed(place[k].asked)'
      BY <1>1, <1>8 DEF SentStays
    <2>1. place[k].asked \in Convs /\ place[k].asked # NoConv
      BY DEF TypeOK
    <2>2. session.active = place[k].asked \/ Doomed(place[k].asked)
      BY <1>0 DEF SentStays
    <2>3. \/ session'.active = session.active
          \/ session.active \in {NoConv, gone}
      BY <1>4 DEF Overruns
    <2>4. session'.active = place[k].asked \/ place[k].asked = gone \/ Doomed(place[k].asked)
      BY <2>1, <2>2, <2>3
    <2> QED
      BY <1>1, <1>6, <1>7, <2>1, <2>4 DEF Doomed
  <1>14. RunsWhereSent'
    <2> SUFFICES ASSUME NEW k \in Chats, Running(k), place[k].in # NoConv, k \notin overrun'
                 PROVE  /\ place[k].asked # NoConv =>
                             \/ place[k].in = place[k].asked \/ Doomed(place[k].asked)'
                             \/ KindOf[place[k].in] # KindOf[place[k].asked]
                        /\ session'.active = place[k].in \/ Doomed(place[k].in)'
      BY <1>1, <1>8 DEF RunsWhereSent
    <2>1. place[k].in \in Convs /\ (place[k].asked # NoConv => place[k].asked \in Convs)
      BY DEF TypeOK
    <2>2. /\ place[k].asked # NoConv =>
               \/ place[k].in = place[k].asked \/ Doomed(place[k].asked)
               \/ KindOf[place[k].in] # KindOf[place[k].asked]
          /\ session.active = place[k].in \/ Doomed(place[k].in)
      BY <1>0 DEF RunsWhereSent
    <2>3. \/ session'.active = session.active
          \/ session.active \in {NoConv, gone}
      BY <1>4 DEF Overruns
    <2>4. session'.active = place[k].in \/ place[k].in = gone \/ Doomed(place[k].in)
      BY <2>1, <2>2, <2>3
    <2>5. session'.active = place[k].in \/ Doomed(place[k].in)'
      BY <1>1, <1>6, <1>7, <2>1, <2>4 DEF Doomed
    <2>6. ASSUME place[k].asked # NoConv, Doomed(place[k].asked) PROVE Doomed(place[k].asked)'
      BY <1>1, <1>7, <2>1, <2>6 DEF Doomed
    <2> QED
      BY <2>2, <2>5, <2>6
  <1>15. ReadingStored'
    BY <1>1 DEF ReadingStored, NoDeletion
  <1> QED
    BY <1>10, <1>11, <1>12, <1>13, <1>14, <1>15

\* A read finds a conversation that is stored.
LEMMA PlaceFinds ==
  ASSUME TypeOK, PlaceInv, NEW c \in Convs, ReadLooks(c)
  PROVE  PlaceInv'
  <1> USE DEF PlaceInv
  <1>1. UNCHANGED <<session, pc, turn, place, conv, victim, overrun>>
    BY DEF ReadLooks
  <1>2. /\ \A d \in Deletes : Deleting(d)' <=> Deleting(d)
        /\ \A b : Doomed(b)' <=> Doomed(b)
    BY <1>1 DEF Deleting, Doomed
  <1>3. KeptConvs' /\ OneDelete' /\ VictimBound'
    BY <1>1, <1>2 DEF KeptConvs, Kept, OneDelete, VictimBound
  <1>4. ReadingStored'
    BY <1>1, <1>2 DEF ReadingStored, ReadLooks, StoreFree, NoDeletion
  <1>5. SentStays' /\ RunsWhereSent'
    BY <1>1, <1>2 DEF SentStays, Sent, RunsWhereSent, Running, Native, Doomed
  <1> QED
    BY <1>3, <1>4, <1>5

\* A read that binds overruns the chats under way, unless none was active.
LEMMA PlaceBinds ==
  ASSUME TypeOK, HoldInv, PlaceInv, ReadBinds
  PROVE  PlaceInv'
  <1> USE DEF PlaceInv
  <1>1. /\ UNCHANGED <<pc, turn, place, conv, victim>> /\ reading' = NoConv
        /\ reading \in Convs /\ conv[reading] = "there"
    BY DEF ReadBinds, ReadingStored, TypeOK
  <1>2. session'.active = reading /\ overrun \subseteq overrun'
    BY BindsFields DEF TypeOK, Fields
  <1>3. /\ \A d \in Deletes : Deleting(d)' <=> Deleting(d)
        /\ \A k \in Chats : (Sent(k)' <=> Sent(k)) /\ (Running(k)' <=> Running(k))
    BY <1>1 DEF Deleting, Sent, Running, Native
  <1>4. \A b : Doomed(b)' <=> Doomed(b)
    BY <1>1, <1>3 DEF Doomed
  <1>5. KeptConvs' /\ OneDelete' /\ VictimBound' /\ ReadingStored'
    BY <1>1, <1>2, <1>3 DEF KeptConvs, Kept, OneDelete, VictimBound, ReadingStored
  <1>6. ASSUME NEW k \in Chats, Sent(k) \/ Running(k), k \notin overrun'
        PROVE  session.active = NoConv
    BY <1>6, SentUse DEF ReadBinds, SetActive
  <1>7. SentStays'
    <2> SUFFICES ASSUME NEW k \in Chats, Sent(k), place[k].asked # NoConv, k \notin overrun'
                 PROVE  Doomed(place[k].asked)'
      BY <1>1, <1>3 DEF SentStays, Doomed
    <2>1. session.active = NoConv
      BY <1>6
    <2>2. Doomed(place[k].asked)
      BY <1>2, <2>1 DEF SentStays
    <2> QED
      BY <1>1, <1>3, <2>2 DEF Doomed
  <1>8. RunsWhereSent'
    <2> SUFFICES ASSUME NEW k \in Chats, Running(k), place[k].in # NoConv, k \notin overrun'
                 PROVE  /\ place[k].asked # NoConv =>
                             \/ place[k].in = place[k].asked \/ Doomed(place[k].asked)'
                             \/ KindOf[place[k].in] # KindOf[place[k].asked]
                        /\ Doomed(place[k].in)'
      BY <1>1, <1>3 DEF RunsWhereSent, Doomed
    <2>1. session.active = NoConv
      BY <1>6
    <2>2. /\ place[k].asked # NoConv =>
               \/ place[k].in = place[k].asked \/ Doomed(place[k].asked)
               \/ KindOf[place[k].in] # KindOf[place[k].asked]
          /\ Doomed(place[k].in)
      BY <1>2, <2>1 DEF RunsWhereSent
    <2> QED
      BY <1>1, <1>3, <2>2 DEF Doomed
  <1> QED
    BY <1>5, <1>7, <1>8

\* Every step keeps the invariant of the conversations.
LEMMA PlaceStep ==
  ASSUME TypeOK, HoldInv, PlaceInv, [Next]_vars
  PROVE  PlaceInv'
  <1>1. ASSUME NEW k \in Chats, EnterChat(k) PROVE PlaceInv'
    BY <1>1, PlaceEnterChat
  <1>2. ASSUME NEW k \in Chats, BeginTurn(k) \/ BeginNative(k) PROVE PlaceInv'
    BY <1>2, PlaceBegin
  <1>3. ASSUME NEW x \in Changes, Change(x) PROVE PlaceInv'
    BY <1>3, PlaceChange
  <1>4. ASSUME NEW d \in Deletes, NEW c \in Convs, NEW archive \in BOOLEAN,
               DeleteLooks(d, c, archive)
        PROVE PlaceInv'
    BY <1>4, PlaceLooks
  <1>5. ASSUME NEW d \in Deletes, DeleteHalf(d) \/ DeleteRest(d) PROVE PlaceInv'
    BY <1>5, PlaceDelete
  <1>6. ASSUME (\E c \in Convs : ReadLooks(c)) \/ ReadBinds PROVE PlaceInv'
    BY <1>6, PlaceFinds, PlaceBinds
  <1> QED
    BY <1>1, <1>2, <1>3, <1>4, <1>5, <1>6, PlaceSteady DEF Next

\* A turn runs in the conversation that was active when its chat was admitted,
\* unless that is deleted or archived or of another kind than the turn, and its
\* conversation stays the active one but for late reads and deletions, for any
\* number of calls, conversations and kinds (create_conversation and
\* select_conversation wait for the whole chat; start_turn; list_history).
THEOREM TurnsRunWhereSent ==
  ASSUME Workers = {}
  PROVE  Spec => []RunsWhereSent
  <1> DEFINE Inv == TypeOK /\ HoldInv /\ PlaceInv
  <1>1. Init => Inv
    BY TypeInit, HoldInit, PlaceInit
  <1>2. Inv /\ [Next]_vars => Inv'
    BY TypeStep, HoldStep, PlaceStep
  <1>3. Inv => RunsWhereSent
    BY DEF PlaceInv
  <1> HIDE DEF Inv
  <1> QED
    BY <1>1, <1>2, <1>3, PTL DEF Spec

-----------------------------------------------------------------------------
(* The update *)

\* Nothing begins once the exit is pending, and nothing was under way.
LEMMA QuietStep ==
  ASSUME TypeOK, HoldInv, UpdateFindsQuiet, [Next]_vars
  PROVE  UpdateFindsQuiet'
  <1> USE SessionAssumption
  <1> DEFINE quiet == /\ \A k \in Chats : turn[k] = "over" \/ (turn[k] = "none" /\ pc[k] # "in")
                      /\ \A x \in Changes : pc[x] \notin {"in", "done"}
                      /\ NoDeletion
  <1>1. ASSUME ApplyUpdate PROVE UpdateFindsQuiet'
    <2>1. session.op = "" /\ session.token = NoCall /\ NoDeletion
      BY <1>1 DEF ApplyUpdate, HostIdle, HoldInv, TokenHeld
    <2>2. \A k \in Chats : ~Owns(k)
      BY <2>1 DEF HoldInv, OwnerHolds
    <2>3. \A k \in Chats : turn[k] = "over" \/ (turn[k] = "none" /\ pc[k] # "in")
      BY <2>2 DEF HoldInv, Places, Owns, Detached, TypeOK
    <2>4. \A x \in Changes : pc[x] \notin {"in", "done"}
      BY <2>1 DEF HoldInv, ChangeHolds, Calls
    <2> QED
      BY <1>1, <2>1, <2>3, <2>4 DEF ApplyUpdate, UpdateFindsQuiet, NoDeletion, Deleting
  <1>2. ASSUME ~updating, ~ApplyUpdate PROVE UpdateFindsQuiet'
    <2>1. ~updating'
      BY <1>2 DEF Next, vars, EnterChat, LeaveChat, BeginTurn, DetachTurn, BeginNative,
         RefuseNative, ProcessStarts, ProcessEnds, TurnCompletes, TurnBreaks, CloseLooks,
         CloseResets, EndNative, GraceAborts, AbortEnds, StopAsked, StopActs, StopReturns,
         EnterChange, Change, LeaveChange, DeleteLooks, DeleteHalf, DeleteRest, ReadLooks,
         ReadBinds
    <2> QED
      BY <2>1 DEF UpdateFindsQuiet
  <1>3. ASSUME updating PROVE UpdateFindsQuiet'
    <2>1. quiet
      BY <1>3 DEF UpdateFindsQuiet
    <2>2. \A k \in Chats : turn[k] \in {"over", "none"} /\ (turn[k] = "none" => pc[k] # "in")
      BY <2>1
    <2> DEFINE rest == /\ turn' = turn
                       /\ \A c \in Chats \cup Changes \cup Deletes :
                             pc'[c] = pc[c] \/ pc'[c] = "over"
    <2>3. ASSUME NEW k \in Chats, LeaveChat(k) PROVE rest
      BY <2>3 DEF LeaveChat, TypeOK, Calls
    <2>4. ASSUME NEW k \in Chats,
                 \/ EnterChat(k) \/ BeginTurn(k) \/ DetachTurn(k)
                 \/ BeginNative(k) \/ RefuseNative(k) \/ ProcessStarts(k) \/ ProcessEnds(k)
                 \/ TurnCompletes(k) \/ TurnBreaks(k) \/ CloseLooks(k) \/ CloseResets(k)
                 \/ EndNative(k) \/ GraceAborts(k)
          PROVE FALSE
      BY <1>3, <2>2, <2>4 DEF EnterChat, BeginTurn, DetachTurn, BeginNative, RefuseNative,
         ProcessStarts, ProcessEnds, TurnCompletes, TurnBreaks, CloseLooks, CloseResets,
         EndNative, GraceAborts, Running, Native
    <2>5. ASSUME NEW s \in Stops, StopAsked(s) \/ StopActs(s) \/ StopReturns(s) PROVE rest
      BY <2>5 DEF StopAsked, StopActs, StopReturns, TypeOK, Calls
    <2>6. ASSUME NEW x \in Changes, EnterChange(x) \/ Change(x) \/ LeaveChange(x) PROVE FALSE
      BY <1>3, <2>1, <2>6 DEF EnterChange, Change, LeaveChange
    <2>7. ASSUME NEW d \in Deletes, NEW c \in Convs, NEW archive \in BOOLEAN,
                 DeleteLooks(d, c, archive) \/ DeleteHalf(d) \/ DeleteRest(d)
          PROVE FALSE
      BY <1>3, <2>1, <2>7 DEF DeleteLooks, DeleteHalf, DeleteRest, NoDeletion, Deleting
    <2>8. ASSUME AbortEnds \/ ApplyUpdate \/ ReadBinds \/ UNCHANGED vars PROVE rest
      BY <2>8 DEF AbortEnds, ApplyUpdate, ReadBinds, vars
    <2>9. ASSUME NEW d \in Deletes, DeleteHalf(d) \/ DeleteRest(d) PROVE FALSE
      BY <2>1, <2>9 DEF DeleteHalf, DeleteRest, NoDeletion, Deleting
    <2>10. ASSUME NEW c \in Convs, ReadLooks(c) PROVE FALSE
      BY <1>3, <2>10 DEF ReadLooks
    <2>11. rest
      BY <2>3, <2>4, <2>5, <2>6, <2>7, <2>8, <2>9, <2>10 DEF Next
    <2> QED
      BY <2>1, <2>11 DEF UpdateFindsQuiet, NoDeletion, Deleting
  <1> QED
    BY <1>1, <1>2, <1>3

\* An update of the host finds no turn, change or deletion under way, and none
\* begins (_update_idle_reason, _require_update_admission).
THEOREM UpdatesFindQuiet ==
  ASSUME Workers = {}
  PROVE  Spec => []UpdateFindsQuiet
  <1> DEFINE Inv == TypeOK /\ HoldInv /\ UpdateFindsQuiet
  <1>1. Init => Inv
    <2>1. Init => UpdateFindsQuiet
      BY DEF Init, UpdateFindsQuiet
    <2> QED
      BY <2>1, TypeInit, HoldInit
  <1>2. Inv /\ [Next]_vars => Inv'
    BY TypeStep, HoldStep, QuietStep
  <1>3. Inv => UpdateFindsQuiet
    OBVIOUS
  <1> HIDE DEF Inv
  <1> QED
    BY <1>1, <1>2, <1>3, PTL DEF Spec

-----------------------------------------------------------------------------
(* SessionLifecycle implements SessionHold *)

\* A call that did not move is where it was.
LEMMA StageKept ==
  ASSUME NEW c \in Chats \cup Changes, pc'[c] = pc[c], c \in Chats => turn'[c] = turn[c]
  PROVE  Stages'[c] = Stages[c]
  BY DEF Stages, ChatStage, ChangeStage

\* A step moves at most one call.
LEMMA StageMoved ==
  ASSUME NEW c \in Chats \cup Changes,
         \A e \in (Chats \cup Changes) \ {c} :
            pc'[e] = pc[e] /\ (e \in Chats => turn'[e] = turn[e])
  PROVE  Stages' = [Stages EXCEPT ![c] = Stages'[c]]
  <1>1. \A e \in (Chats \cup Changes) \ {c} : Stages'[e] = Stages[e]
    BY StageKept
  <1>2. /\ Stages' = [e \in Chats \cup Changes |-> Stages'[e]]
        /\ Stages = [e \in Chats \cup Changes |-> Stages[e]]
    BY DEF Stages
  <1> HIDE DEF Stages
  <1> QED
    BY <1>1, <1>2

\* If nobody moved, so it is for all.
LEMMA StagesKept ==
  ASSUME \A e \in Chats \cup Changes : Stages'[e] = Stages[e]
  PROVE  Stages' = Stages
  <1>1. /\ Stages' = [e \in Chats \cup Changes |-> Stages'[e]]
        /\ Stages = [e \in Chats \cup Changes |-> Stages[e]]
    BY DEF Stages
  <1> HIDE DEF Stages
  <1> QED
    BY <1>1

\* A session that is not held is free: nobody holds it without its fields.
LEMMA UnheldIsFree ==
  ASSUME TypeOK, HoldInv, session.op = ""
  PROVE  Hold!Free
  <1> USE SessionAssumption DEF HoldInv
  <1>1. session.token = NoCall
    BY DEF TokenHeld
  <1>2. ASSUME NEW k \in Chats PROVE Stages[k] \notin {"holding", "busy"}
    <2>1. ~Owns(k)
      BY <1>1, <1>2 DEF OwnerHolds, Calls
    <2>2. ChatStage(k) \notin {"holding", "busy"}
      <3>1. /\ pc[k] \in {"new", "in", "over"}
            /\ turn[k] \in {"none", "queued", "run", "attached", "detached", "closing",
                             "cleaning", "over"}
            /\ pc[k] = "over" => turn[k] \in {"none", "queued", "detached", "over"}
        BY DEF Places, TypeOK
      <3> QED
        BY <2>1, <3>1 DEF ChatStage, Owns, Detached
    <2> QED
      BY <2>2 DEF Stages
  <1>3. ASSUME NEW x \in Changes PROVE Stages[x] \notin {"holding", "busy"}
    <2>1. pc[x] \notin {"in", "done"} /\ x \notin Chats
      BY <1>1, <1>3 DEF ChangeHolds, Calls
    <2> QED
      BY <2>1 DEF Stages, ChangeStage
  <1> QED
    BY <1>2, <1>3 DEF Hold!Free, Hold!Callers

\* What the refinement needs of the state.
HoldsInv == TypeOK /\ HoldInv /\ PlaceInv /\ UpdateFindsQuiet

\* What is stored and removed depends on the store and the deletions only.
LEMMA StoreKept ==
  ASSUME conv' = conv, victim' = victim, \A d \in Deletes : pc'[d] = pc[d]
  PROVE  Stored' = Stored /\ Removing' = Removing /\ Dropping' = Dropping
  BY DEF Stored, Removing, Dropping, Deleting

\* A step of a chat or a change moves no deletion.
LEMMA OthersStay ==
  ASSUME TypeOK, NEW c \in Chats \cup Changes, NEW v,
         pc' = pc \/ pc' = [pc EXCEPT ![c] = v]
  PROVE  \A d \in Calls \ {c} : pc'[d] = pc[d]
  BY DEF TypeOK

\* Steps that leave the stages alone.
LEMMA Aside ==
  ASSUME UNCHANGED <<turn, conv, victim, updating, reading>>, session'.active = session.active,
         \A c \in Chats \cup Changes \cup Deletes : pc'[c] = pc[c]
  PROVE  UNCHANGED Hold!hold
  <1>1. Stages' = Stages
    BY StageKept, StagesKept
  <1>2. Stored' = Stored /\ Removing' = Removing /\ Dropping' = Dropping
    BY StoreKept
  <1> QED
    BY <1>1, <1>2 DEF Hold!hold

\* A chat is admitted alone.
LEMMA ChatAdmitted ==
  ASSUME HoldsInv, NEW k \in Chats, EnterChat(k)
  PROVE  Hold!Next
  <1> USE SessionAssumption DEF HoldsInv
  <1>1. Hold!Free /\ ~updating
    BY UnheldIsFree DEF EnterChat, Idle
  <1>2. /\ \A c \in Calls \ {k} : pc'[c] = pc[c]
        /\ pc[k] = "new" /\ pc'[k] = "in" /\ turn' = turn /\ turn[k] = "none"
        /\ UNCHANGED <<conv, victim, updating, reading>>
    BY DEF EnterChat, TypeOK, Calls, HoldInv, Places
  <1>3. Stages[k] = "waiting" /\ Stages'[k] = "holding"
    BY <1>2 DEF Stages, ChatStage
  <1>4. Stages' = [Stages EXCEPT ![k] = "holding"]
    BY <1>2, <1>3, StageMoved DEF Calls
  <1>5. Stored' = Stored /\ Removing' = Removing /\ Dropping' = Dropping
    BY <1>2, StoreKept DEF Calls
  <1>6. session'.active = session.active
    BY ReservedFields DEF EnterChat, TypeOK
  <1>7. Hold!Admit(k)
    BY <1>1, <1>2, <1>3, <1>4, <1>5, <1>6 DEF Hold!Admit
  <1> QED
    BY <1>1, <1>7 DEF Hold!Next, Hold!Callers

\* A chat's hold ends with its turn, or with the chat when no turn began.
LEMMA ChatReleased ==
  ASSUME HoldsInv, NEW k \in Chats, Stages[k] \in {"holding", "busy"}, Stages'[k] = "over",
         \A c \in Calls \ {k} : pc'[c] = pc[c],
         \A j \in Chats \ {k} : turn'[j] = turn[j],
         UNCHANGED <<conv, victim, updating, reading>>, session'.active = session.active
  PROVE  Hold!Next
  <1> USE SessionAssumption DEF HoldsInv
  <1>1. ~updating
    BY DEF UpdateFindsQuiet, Stages, ChatStage
  <1>2. Stages' = [Stages EXCEPT ![k] = "over"]
    BY StageMoved DEF Calls
  <1>3. Stored' = Stored /\ Removing' = Removing /\ Dropping' = Dropping
    BY StoreKept DEF Calls
  <1>4. Hold!Release(k)
    BY <1>2, <1>3 DEF Hold!Release
  <1> QED
    BY <1>1, <1>4 DEF Hold!Next, Hold!Callers

\* A turn begins in the active conversation unless that is gone or of another
\* kind; meanwhile a read may look.
LEMMA TurnActivates ==
  ASSUME TypeOK, NEW k \in Chats, Starts(k)
  PROVE  \/ session'.active = session.active /\ Stored' = Stored /\ reading' = reading
         \/ /\ \E c \in Convs : Hold!Moves(c) /\ Hold!Activate(c)
            /\ \/ reading' = reading
               \/ Removing = {} /\ reading = NoConv /\ reading' \in Stored'
  <1> USE SessionAssumption
  <1>0. PICK kind \in Kinds : StartTurn(k, kind)
    BY DEF Starts
  <1> DEFINE current == session.active
             lost == ~Fits(current, kind)
  <1>1. PICK c \in Convs \cup {NoConv} :
          /\ IF lost THEN c # NoConv /\ KindOf[c] = kind /\ conv[c] \in {"there", "free"}
             ELSE c = IF conv[current] = "there" THEN current ELSE NoConv
          /\ conv' = IF c = NoConv THEN conv ELSE [conv EXCEPT ![c] = "there"]
          /\ \/ UNCHANGED reading
             \/ lost /\ StoreFree /\ reading' \in {b \in Convs : conv'[b] = "there"}
          /\ session' = [session EXCEPT !.processing = TRUE,
                           !.exec = IF @ = NoCall THEN k ELSE @,
                           !.stopRequested = @ /\ session.exec # NoCall,
                           !.active = IF lost THEN c ELSE @]
    BY <1>0 DEF StartTurn
  <1> DEFINE target == IF lost THEN c ELSE session.active
  <1>2. session'.active = target
    <2> HIDE DEF lost, target
    <2>1. session' = [session EXCEPT !.processing = TRUE,
                           !.exec = IF @ = NoCall THEN k ELSE @,
                           !.stopRequested = @ /\ session.exec # NoCall,
                           !.active = target]
      BY <1>1 DEF TypeOK, Fields, target
    <2> QED
      BY <2>1 DEF TypeOK, Fields
  <1>3. conv \in [Convs -> {"free", "there", "archived", "deleted"}]
    BY DEF TypeOK
  <1>4. CASE lost
    <2>1. /\ c \in Convs /\ KindOf[c] = kind
          /\ conv' = [conv EXCEPT ![c] = "there"] /\ session'.active = c
      BY <1>1, <1>2, <1>4
    <2>2. Stored' = Stored \cup {c}
      BY <1>3, <2>1 DEF Stored
    <2>3. Hold!Moves(c)
      <3>1. CASE current = NoConv \/ conv[current] = "deleted"
        BY <3>1 DEF Stored, Hold!Moves
      <3>2. CASE KindOf[current] # kind
        BY <2>1, <3>2 DEF Hold!Moves
      <3> QED
        BY <1>4, <3>1, <3>2 DEF Fits
    <2>4. \/ reading' = reading
          \/ Removing = {} /\ reading = NoConv /\ reading' \in Stored'
      BY <1>1 DEF StoreFree, NoDeletion, Removing, Stored
    <2> QED
      BY <2>1, <2>2, <2>3, <2>4 DEF Hold!Activate
  <1>5. CASE ~lost
    <2>1. session'.active = session.active /\ reading' = reading
      BY <1>1, <1>2, <1>5
    <2>2. conv' = conv
      BY <1>1, <1>3, <1>5
    <2> QED
      BY <2>1, <2>2 DEF Stored
  <1> QED
    BY <1>4, <1>5

\* The chat that holds the session begins its turn.
LEMMA ChatBegins ==
  ASSUME Workers = {}, HoldsInv, NEW k \in Chats, BeginTurn(k) \/ BeginNative(k)
  PROVE  Hold!Next
  <1> USE SessionAssumption DEF HoldsInv
  <1>1. Starts(k) /\ UNCHANGED <<pc, victim, updating>>
    BY BeginStarts
  <1>2. turn[k] = "queued" \/ (pc[k] = "in" /\ turn[k] = "none")
    BY DEF BeginTurn, BeginNative
  <1>3. /\ \A j \in Chats \ {k} : turn'[j] = turn[j]
        /\ turn'[k] \in {"run", "attached", "detached"}
        /\ pc[k] # "new"
    BY <1>2 DEF BeginTurn, BeginNative, TypeOK, HoldInv, Places
  <1>4. Stages[k] = "holding" /\ Stages'[k] = "busy"
    BY <1>1, <1>2, <1>3 DEF Stages, ChatStage
  <1>5. Stages' = [Stages EXCEPT ![k] = "busy"]
    BY <1>1, <1>3, <1>4, StageMoved
  <1>6. ~updating
    BY <1>2 DEF UpdateFindsQuiet
  <1>7. Removing' = Removing /\ Dropping' = Dropping
    BY <1>1 DEF Removing, Dropping, Deleting
  <1>8. \/ session'.active = session.active /\ Stored' = Stored /\ reading' = reading
        \/ /\ \E c \in Convs : Hold!Moves(c) /\ Hold!Activate(c)
           /\ \/ reading' = reading
              \/ Removing = {} /\ reading = NoConv /\ reading' \in Stored'
    BY <1>1, TurnActivates
  <1>9. Hold!Begin(k)
    BY <1>1, <1>4, <1>5, <1>7, <1>8 DEF Hold!Begin, Hold!Use
  <1> QED
    BY <1>6, <1>9 DEF Hold!Next

\* What else a chat does in the session.
LEMMA ChatGoesOn ==
  ASSUME Workers = {}, HoldsInv, NEW k \in Chats,
         \/ LeaveChat(k) \/ DetachTurn(k) \/ RefuseNative(k) \/ ProcessStarts(k)
         \/ ProcessEnds(k) \/ TurnCompletes(k) \/ TurnBreaks(k) \/ CloseLooks(k)
         \/ CloseResets(k) \/ EndNative(k) \/ GraceAborts(k)
  PROVE  Hold!Next \/ UNCHANGED Hold!hold
  <1> USE SessionAssumption DEF HoldsInv
  <1>0. /\ session \in Fields /\ k \in Calls /\ k \notin Changes \cup Deletes
        /\ UNCHANGED <<conv, victim, updating, reading>>
    BY DEF TypeOK, Calls, LeaveChat, DetachTurn, RefuseNative, ProcessStarts, ProcessEnds,
           TurnCompletes, TurnBreaks, CloseLooks, CloseResets, EndNative, GraceAborts
  <1>1. session'.active = session.active
    <2>1. CASE LeaveChat(k) \/ RefuseNative(k)
      <3>1. Released(session, k).active = session.active
        BY <1>0, ReleasedFields
      <3>2. Finished(session, k).active = session.active
        BY <1>0, FinishedFields
      <3> QED
        BY <2>1, <3>1, <3>2 DEF LeaveChat, RefuseNative
    <2>2. CASE DetachTurn(k) \/ ProcessStarts(k) \/ ProcessEnds(k) \/ TurnCompletes(k)
      BY <1>0, <2>2 DEF DetachTurn, ProcessStarts, ProcessEnds, TurnCompletes, Fields
    <2>3. CASE TurnBreaks(k) \/ CloseLooks(k)
      BY <2>3 DEF TurnBreaks, CloseLooks
    <2>4. CASE CloseResets(k)
      BY <1>0, <2>4, ResetFields, FinishedFields DEF CloseResets
    <2>5. CASE EndNative(k)
      <3>1. under[k] \in Chats \cup {NoCall}
        BY DEF TypeOK
      <3>2. /\ Finished(session, under[k]).active = session.active
            /\ Finished(Reset(session), under[k]).active = session.active
        <4>1. Reset(session) \in Fields /\ Reset(session).active = session.active
          BY <1>0, ResetFields
        <4>2. Finished(session, under[k]).active = session.active
          BY <1>0, <3>1, FinishedFields
        <4>3. Finished(Reset(session), under[k]).active = Reset(session).active
          BY <3>1, <4>1, FinishedFields
        <4> QED
          BY <4>1, <4>2, <4>3
      <3> QED
        BY <1>0, <2>5, <3>1, <3>2 DEF EndNative
    <2>6. CASE GraceAborts(k)
      <3>1. session.process \in Chats \cup {NoCall}
        BY <1>0 DEF Fields
      <3> QED
        BY <1>0, <2>6, <3>1, AbortingFields DEF GraceAborts
    <2> QED
      BY <2>1, <2>2, <2>3, <2>4, <2>5, <2>6
  <1>2. /\ \A c \in Calls \ {k} : pc'[c] = pc[c]
        /\ \A j \in Chats \ {k} : turn'[j] = turn[j]
        /\ pc[k] # "new" => pc'[k] # "new"
    BY <1>0 DEF TypeOK, LeaveChat, DetachTurn, RefuseNative, ProcessStarts, ProcessEnds,
           TurnCompletes, TurnBreaks, CloseLooks, CloseResets, EndNative, GraceAborts
  <1>3. pc[k] # "new"
    BY <1>0 DEF HoldInv, Places, LeaveChat, DetachTurn, RefuseNative, ProcessStarts,
           ProcessEnds, TurnCompletes, TurnBreaks, CloseLooks, CloseResets, EndNative,
           GraceAborts, Running, Native
  <1>4. \/ Stages'[k] = Stages[k]
        \/ Stages[k] \in {"holding", "busy"} /\ Stages'[k] = "over"
    <2>1. CASE LeaveChat(k)
      <3>1. /\ pc[k] = "in" /\ pc'[k] = "over" /\ turn' = turn
            /\ turn[k] \in {"none", "queued", "detached", "over"}
        BY <1>0, <2>1 DEF LeaveChat, TypeOK
      <3> QED
        BY <3>1 DEF Stages, ChatStage
    <2>2. CASE DetachTurn(k) \/ ProcessStarts(k) \/ ProcessEnds(k) \/ GraceAborts(k)
      <3>1. pc' = pc /\ (turn' = turn \/ (pc[k] = "in" /\ turn[k] = "none" /\ turn'[k] = "queued"))
        BY <2>2 DEF DetachTurn, ProcessStarts, ProcessEnds, GraceAborts, TypeOK
      <3> QED
        BY <3>1 DEF Stages, ChatStage
    <2>3. CASE TurnCompletes(k) \/ TurnBreaks(k) \/ CloseLooks(k)
      <3>1. /\ pc'[k] = pc[k]
            /\ turn[k] \in {"run", "closing"} /\ turn'[k] \in {"closing", "cleaning"}
        BY <1>0, <2>3 DEF TurnCompletes, TurnBreaks, CloseLooks, TypeOK
      <3> QED
        BY <3>1 DEF Stages, ChatStage
    <2>4. CASE RefuseNative(k) \/ CloseResets(k) \/ EndNative(k)
      <3>1. /\ pc' = pc /\ turn[k] \in {"queued", "cleaning", "attached", "detached"}
            /\ turn'[k] = "over"
        BY <2>4 DEF RefuseNative, CloseResets, EndNative, Native, TypeOK
      <3> QED
        BY <1>3, <3>1 DEF Stages, ChatStage
    <2> QED
      BY <2>1, <2>2, <2>3, <2>4
  <1>5. CASE Stages'[k] = Stages[k]
    <2>1. \A e \in Chats \cup Changes : Stages'[e] = Stages[e]
      BY <1>0, <1>2, <1>5, StageKept DEF Calls
    <2>2. Stages' = Stages
      BY <2>1, StagesKept
    <2>3. Stored' = Stored /\ Removing' = Removing /\ Dropping' = Dropping
      BY <1>0, <1>2, StoreKept DEF Calls
    <2> QED
      BY <1>0, <1>1, <2>2, <2>3 DEF Hold!hold
  <1>6. CASE Stages[k] \in {"holding", "busy"} /\ Stages'[k] = "over"
    BY <1>0, <1>1, <1>2, <1>6, ChatReleased
  <1> QED
    BY <1>4, <1>5, <1>6

\* A step of somebody else leaves the hold alone.
LEMMA OthersGoOn ==
  ASSUME TypeOK,
         \/ AbortEnds
         \/ \E s \in Stops : StopAsked(s) \/ StopActs(s) \/ StopReturns(s)
         \/ UNCHANGED vars
  PROVE  UNCHANGED Hold!hold
  <1> USE SessionAssumption
  <1>0. session \in Fields
    BY DEF TypeOK
  <1>1. UNCHANGED <<turn, conv, victim, updating, reading>>
    BY DEF AbortEnds, StopAsked, StopActs, StopReturns, vars
  <1>2. \A c \in Chats \cup Changes \cup Deletes : pc'[c] = pc[c]
    <2>1. ASSUME NEW s \in Stops, StopAsked(s) \/ StopActs(s) \/ StopReturns(s)
          PROVE  \A c \in Chats \cup Changes \cup Deletes : pc'[c] = pc[c]
      <3>1. PICK v \in {"asked", "acting", "over"} : pc' = [pc EXCEPT ![s] = v]
        BY <2>1 DEF StopAsked, StopActs, StopReturns
      <3>2. \A c \in Chats \cup Changes \cup Deletes : c # s /\ c \in Calls
        BY DEF Calls
      <3> QED
        BY <3>1, <3>2 DEF TypeOK
    <2> QED
      BY <2>1 DEF AbortEnds, vars
  <1>3. session'.active = session.active
    <2>1. CASE AbortEnds
      BY <1>0, <2>1 DEF AbortEnds, Fields
    <2>2. ASSUME NEW s \in Stops, StopAsked(s) \/ StopReturns(s)
          PROVE  session'.active = session.active
      BY <1>0, <2>2 DEF StopAsked, StopReturns, Fields
    <2>3. ASSUME NEW s \in Stops, StopActs(s) PROVE session'.active = session.active
      <3>1. captured[s].process \in Chats \cup {NoCall}
        BY DEF TypeOK
      <3>2. Aborting(session, captured[s].exec, captured[s].process).active = session.active
        BY <1>0, <3>1, AbortingFields
      <3> QED
        BY <2>3, <3>2 DEF StopActs
    <2> QED
      BY <2>1, <2>2, <2>3 DEF vars
  <1> QED
    BY <1>1, <1>2, <1>3, Aside

\* A change of the conversation is admitted alone.
LEMMA ChangeAdmitted ==
  ASSUME HoldsInv, NEW x \in Changes, EnterChange(x)
  PROVE  Hold!Next
  <1> USE SessionAssumption DEF HoldsInv
  <1>1. Hold!Free /\ ~updating
    BY UnheldIsFree DEF EnterChange, Idle
  <1>2. /\ \A c \in Calls \ {x} : pc'[c] = pc[c]
        /\ pc[x] = "new" /\ pc'[x] = "in" /\ turn' = turn /\ x \notin Chats
        /\ UNCHANGED <<conv, victim, updating, reading>>
    BY DEF EnterChange, TypeOK, Calls
  <1>3. Stages[x] = "waiting" /\ Stages'[x] = "holding"
    BY <1>2 DEF Stages, ChangeStage
  <1>4. Stages' = [Stages EXCEPT ![x] = "holding"]
    BY <1>2, <1>3, StageMoved DEF Calls
  <1>5. Stored' = Stored /\ Removing' = Removing /\ Dropping' = Dropping
    BY <1>2, StoreKept DEF Calls
  <1>6. session'.active = session.active
    BY DEF EnterChange, TypeOK, Fields
  <1>7. Hold!Admit(x)
    BY <1>1, <1>2, <1>3, <1>4, <1>5, <1>6 DEF Hold!Admit
  <1> QED
    BY <1>1, <1>7 DEF Hold!Next, Hold!Callers

\* Who holds the session for it changes the conversation.
LEMMA ChangeSwitches ==
  ASSUME HoldsInv, NEW x \in Changes, Change(x)
  PROVE  Hold!Next
  <1> USE SessionAssumption DEF HoldsInv
  <1>1. /\ \A c \in Calls \ {x} : pc'[c] = pc[c]
        /\ pc[x] = "in" /\ pc'[x] = "done" /\ turn' = turn /\ x \notin Chats
        /\ UNCHANGED <<victim, updating, reading>>
    BY DEF Change, TypeOK, Calls
  <1>2. Stages[x] = "holding" /\ Stages'[x] = "busy"
    BY <1>1 DEF Stages, ChangeStage
  <1>3. Stages' = [Stages EXCEPT ![x] = "busy"]
    BY <1>1, <1>2, StageMoved DEF Calls
  <1>4. /\ Removing = {} /\ reading = NoConv
        /\ Removing' = Removing /\ Dropping' = Dropping
    BY <1>1 DEF Change, StoreFree, NoDeletion, Removing, Dropping, Deleting, Calls
  <1>5. PICK c \in Convs : /\ conv' = [conv EXCEPT ![c] = "there"]
                           /\ session' = [session EXCEPT !.active = c]
    BY DEF Change
  <1>6. session'.active = c
    BY <1>5 DEF TypeOK, Fields
  <1>7. Stored' = Stored \cup {c}
    BY <1>5 DEF Stored, TypeOK
  <1>8. ~updating
    BY <1>1 DEF UpdateFindsQuiet
  <1>9. Hold!Switch(x)
    BY <1>1, <1>2, <1>3, <1>4, <1>6, <1>7 DEF Hold!Switch, Hold!Use, Hold!Activate
  <1> QED
    BY <1>8, <1>9 DEF Hold!Next

\* ... and gives it back.
LEMMA ChangeReleased ==
  ASSUME HoldsInv, NEW x \in Changes, LeaveChange(x)
  PROVE  Hold!Next
  <1> USE SessionAssumption DEF HoldsInv
  <1>1. /\ \A c \in Calls \ {x} : pc'[c] = pc[c]
        /\ pc[x] \in {"in", "done"} /\ pc'[x] = "over" /\ turn' = turn /\ x \notin Chats
        /\ UNCHANGED <<conv, victim, updating, reading>>
    BY DEF LeaveChange, TypeOK, Calls
  <1>2. Stages[x] \in {"holding", "busy"} /\ Stages'[x] = "over"
    BY <1>1 DEF Stages, ChangeStage
  <1>3. Stages' = [Stages EXCEPT ![x] = "over"]
    BY <1>1, <1>2, StageMoved DEF Calls
  <1>4. Stored' = Stored /\ Removing' = Removing /\ Dropping' = Dropping
    BY <1>1, StoreKept DEF Calls
  <1>5. session'.active = session.active
    <2>1. session \in Fields /\ x \in Calls /\ session.exec # x
      <3>1. session \in Fields
        BY DEF TypeOK
      <3>2. session.exec \in Chats \cup {NoCall}
        BY <3>1 DEF Fields
      <3> QED
        BY <1>1, <3>1, <3>2 DEF Calls
    <2> QED
      BY <2>1, ReleasedFields DEF LeaveChange
  <1>6. ~updating
    BY <1>1 DEF UpdateFindsQuiet
  <1>7. Hold!Release(x)
    BY <1>1, <1>2, <1>3, <1>4, <1>5 DEF Hold!Release
  <1> QED
    BY <1>6, <1>7 DEF Hold!Next, Hold!Callers

\* A deletion begins when there is no other.
LEMMA DeleteBegins ==
  ASSUME HoldsInv, NEW d \in Deletes, NEW c \in Convs, NEW archive \in BOOLEAN,
         DeleteLooks(d, c, archive)
  PROVE  Hold!Next
  <1> USE SessionAssumption DEF HoldsInv
  <1>1. /\ \A e \in Calls \ {d} : pc'[e] = pc[e]
        /\ pc'[d] = "checked" /\ ~updating /\ StoreFree /\ conv[c] = "there"
        /\ victim'[d].of = c /\ victim'[d].wasActive = (session.active = c)
        /\ UNCHANGED <<turn, conv, session, updating, reading>>
    BY DEF DeleteLooks, TypeOK, Calls
  <1>2. Stages' = Stages
    BY <1>1, StageKept, StagesKept DEF Calls
  <1>3. Removing = {}
    BY <1>1 DEF StoreFree, NoDeletion, Removing
  <1>4. {e \in Deletes : Deleting(e)'} = {d}
    BY <1>1 DEF StoreFree, NoDeletion, Deleting, Calls
  <1>5. Removing' = {c} /\ Dropping' = (c = session.active)
    <2>1. Removing' = {c}
      BY <1>1, <1>4 DEF Removing
    <2>2. \A e \in Deletes : Deleting(e)' <=> e = d
      BY <1>4
    <2>3. Dropping' <=> c = session.active
      BY <1>1, <2>2 DEF Dropping
    <2> QED
      BY <2>1, <2>3 DEF Dropping
  <1>6. c \in Stored /\ Stored' = Stored
    BY <1>1 DEF Stored
  <1>7. Hold!RemovalBegins
    BY <1>1, <1>2, <1>3, <1>5, <1>6 DEF Hold!RemovalBegins, StoreFree
  <1> QED
    BY <1>1, <1>7 DEF Hold!Next

\* The deletion that is under way is the only one.
LEMMA RemovesOne ==
  ASSUME OneDelete, NEW d \in Deletes, Deleting(d)
  PROVE  Removing = {victim[d].of} /\ (Dropping <=> victim[d].wasActive)
  <1>1. {e \in Deletes : Deleting(e)} = {d}
    BY DEF OneDelete
  <1>2. Removing = {victim[d].of}
    BY <1>1 DEF Removing
  <1>3. \A e \in Deletes : Deleting(e) <=> e = d
    BY DEF OneDelete
  <1>4. Dropping <=> victim[d].wasActive
    BY <1>3 DEF Dropping
  <1> QED
    BY <1>2, <1>4

\* A deletion takes its conversation out of the session and out of the store.
LEMMA DeleteRemoves ==
  ASSUME HoldsInv, NEW d \in Deletes, DeleteHalf(d) \/ DeleteRest(d)
  PROVE  Hold!Next \/ UNCHANGED Hold!hold
  <1> USE SessionAssumption DEF HoldsInv
  <1> DEFINE c == victim[d].of
  <1>1. /\ \A e \in Calls \ {d} : pc'[e] = pc[e]
        /\ Deleting(d) /\ UNCHANGED <<turn, victim, updating, reading>>
        /\ IF DeleteHalf(d) THEN pc[d] = "checked" /\ pc'[d] = "half"
                            ELSE pc[d] = "half" /\ pc'[d] = "over"
    BY DEF DeleteHalf, DeleteRest, Deleting, TypeOK, Calls
  <1>2. Stages' = Stages
    BY <1>1, StageKept, StagesKept DEF Calls
  <1>3. Removing = {c} /\ (Dropping <=> victim[d].wasActive)
    BY <1>1, RemovesOne DEF PlaceInv
  <1>4. /\ Removing' = IF DeleteHalf(d) THEN Removing ELSE {}
        /\ Dropping' = IF DeleteHalf(d) THEN Dropping ELSE FALSE
    <2>1. \A e \in Deletes : Deleting(e) <=> e = d
      BY <1>1 DEF PlaceInv, OneDelete
    <2>2. \A e \in Deletes : Deleting(e)' <=> (e = d /\ DeleteHalf(d))
      BY <1>1, <2>1 DEF Deleting, Calls
    <2>3. CASE DeleteHalf(d)
      <3>1. {e \in Deletes : Deleting(e)'} = {e \in Deletes : Deleting(e)}
        BY <2>1, <2>2, <2>3
      <3>2. Removing' = Removing
        BY <1>1, <3>1 DEF Removing
      <3>3. Dropping' <=> Dropping
        BY <1>1, <2>1, <2>2, <2>3 DEF Dropping
      <3> QED
        BY <2>3, <3>2, <3>3 DEF Dropping
    <2>4. CASE ~DeleteHalf(d)
      <3>1. {e \in Deletes : Deleting(e)'} = {}
        BY <2>2, <2>4
      <3>2. ~Dropping'
        BY <2>2, <2>4 DEF Dropping
      <3> QED
        BY <2>4, <3>1, <3>2 DEF Removing, Dropping
    <2> QED
      BY <2>3, <2>4
  <1>5. /\ c \in Convs
        /\ conv[c] = IF pc[d] = "half" /\ victim[d].archive THEN "archived" ELSE "there"
    BY <1>1 DEF PlaceInv, VictimBound
  <1>6. \/ Dropping /\ session'.active = NoConv /\ Stored' = Stored
        \/ Stored' = Stored \ Removing /\ session'.active = session.active
        \/ DeleteHalf(d) /\ Stored' = Stored /\ session' = session
    <2>1. CASE /\ UNCHANGED session
               /\ \/ conv' = [conv EXCEPT ![c] = "archived"]
                  \/ conv' = [conv EXCEPT ![c] = "deleted"]
      BY <1>3, <2>1 DEF Stored, TypeOK
    <2>2. CASE /\ Unbind(d) /\ conv' = conv
               /\ pc[d] = "checked" \/ victim[d].archive
      <3>1. Stored' = Stored
        BY <2>2 DEF Stored
      <3>2. CASE victim[d].wasActive
        BY <1>3, <2>2, <3>1, <3>2 DEF Unbind, SetActive, TypeOK, Fields
      <3>3. CASE ~victim[d].wasActive
        <4>1. session' = session
          BY <2>2, <3>3 DEF Unbind
        <4>2. ~DeleteHalf(d) => c \notin Stored
          BY <1>1, <1>5, <2>2 DEF Stored
        <4> QED
          BY <1>3, <3>1, <4>1, <4>2
      <3> QED
        BY <3>2, <3>3
    <2> QED
      BY <1>1, <2>1, <2>2 DEF DeleteHalf, DeleteRest
  <1>7. ~DeleteHalf(d) => c \notin Stored'
    BY <1>1, <1>5 DEF DeleteRest, Stored, TypeOK
  <1>8. ~updating
    BY <1>1 DEF UpdateFindsQuiet, NoDeletion
  <1>9. CASE DeleteHalf(d) /\ Stored' = Stored /\ session' = session
    BY <1>1, <1>2, <1>4, <1>9 DEF Hold!hold
  <1>10. CASE \/ Dropping /\ session'.active = NoConv /\ Stored' = Stored
              \/ Stored' = Stored \ Removing /\ session'.active = session.active
    <2>1. Hold!Removes
      BY <1>1, <1>2, <1>3, <1>4, <1>7, <1>10 DEF Hold!Removes
    <2> QED
      BY <1>8, <2>1 DEF Hold!Next
  <1> QED
    BY <1>6, <1>9, <1>10

\* The host closes a session that is free.
LEMMA HostCloses ==
  ASSUME HoldsInv, ApplyUpdate
  PROVE  Hold!Next
  <1> USE DEF HoldsInv
  <1>1. Hold!Free
    BY UnheldIsFree DEF ApplyUpdate, HostIdle
  <1>2. Removing = {}
    BY DEF ApplyUpdate, HostIdle, NoDeletion, Removing
  <1>3. UNCHANGED <<Stages, Stored, Removing, Dropping, session.active, reading>>
    BY DEF ApplyUpdate, Stages, ChatStage, ChangeStage, Stored, Removing, Dropping, Deleting
  <1>4. Hold!Close /\ ~updating
    BY <1>1, <1>2, <1>3 DEF ApplyUpdate, Hold!Close
  <1> QED
    BY <1>4 DEF Hold!Next

\* A read of the history finds a conversation.
LEMMA ReadFinds ==
  ASSUME HoldsInv, NEW c \in Convs, ReadLooks(c)
  PROVE  Hold!Next
  <1>1. UNCHANGED <<Stages, Stored, Removing, Dropping, session, updating>>
    BY DEF ReadLooks, Stages, ChatStage, ChangeStage, Stored, Removing, Dropping, Deleting
  <1>2. Removing = {} /\ c \in Stored /\ ~updating
    BY DEF ReadLooks, StoreFree, NoDeletion, Removing, Stored
  <1>3. Hold!Finds
    BY <1>1, <1>2 DEF Hold!Finds, ReadLooks, StoreFree
  <1> QED
    BY <1>2, <1>3 DEF Hold!Next

\* ... and binds it while it is still stored.
LEMMA ReadBound ==
  ASSUME HoldsInv, ReadBinds
  PROVE  Hold!Next
  <1>1. UNCHANGED <<Stages, Stored, Removing, Dropping, updating>>
    BY DEF ReadBinds, Stages, ChatStage, ChangeStage, Stored, Removing, Dropping, Deleting
  <1>2. reading \in Stored
    BY DEF ReadBinds, HoldsInv, TypeOK, PlaceInv, ReadingStored, Stored
  <1>3. session'.active = reading
    BY BindsFields DEF HoldsInv, TypeOK, Fields
  <1>4. Hold!Binds
    BY <1>1, <1>2, <1>3 DEF Hold!Binds, ReadBinds
  <1> QED
    BY <1>4 DEF Hold!Next

\* Each step is one that SessionHold allows.
LEMMA HoldsImplemented ==
  ASSUME Workers = {}, HoldsInv, [Next]_vars
  PROVE  Hold!Next \/ UNCHANGED Hold!hold
  <1>1. ASSUME NEW k \in Chats, EnterChat(k) PROVE Hold!Next
    BY <1>1, ChatAdmitted
  <1>2. ASSUME NEW k \in Chats, BeginTurn(k) \/ BeginNative(k) PROVE Hold!Next
    BY <1>2, ChatBegins
  <1>3. ASSUME NEW k \in Chats,
               \/ LeaveChat(k) \/ DetachTurn(k) \/ RefuseNative(k) \/ ProcessStarts(k)
               \/ ProcessEnds(k) \/ TurnCompletes(k) \/ TurnBreaks(k) \/ CloseLooks(k)
               \/ CloseResets(k) \/ EndNative(k) \/ GraceAborts(k)
        PROVE  Hold!Next \/ UNCHANGED Hold!hold
    BY <1>3, ChatGoesOn
  <1>4. ASSUME \/ AbortEnds
               \/ \E s \in Stops : StopAsked(s) \/ StopActs(s) \/ StopReturns(s)
               \/ UNCHANGED vars
        PROVE  UNCHANGED Hold!hold
    BY <1>4, OthersGoOn DEF HoldsInv
  <1>5. ASSUME NEW x \in Changes, EnterChange(x) \/ Change(x) \/ LeaveChange(x)
        PROVE  Hold!Next
    BY <1>5, ChangeAdmitted, ChangeSwitches, ChangeReleased
  <1>6. ASSUME NEW d \in Deletes, NEW c \in Convs, NEW archive \in BOOLEAN,
               DeleteLooks(d, c, archive)
        PROVE  Hold!Next
    BY <1>6, DeleteBegins
  <1>7. ASSUME NEW d \in Deletes, DeleteHalf(d) \/ DeleteRest(d)
        PROVE  Hold!Next \/ UNCHANGED Hold!hold
    BY <1>7, DeleteRemoves
  <1>8. CASE ApplyUpdate
    BY <1>8, HostCloses
  <1>9. ASSUME (\E c \in Convs : ReadLooks(c)) \/ ReadBinds PROVE Hold!Next
    BY <1>9, ReadFinds, ReadBound
  <1> QED
    BY <1>1, <1>2, <1>3, <1>4, <1>5, <1>6, <1>7, <1>8, <1>9 DEF Next

\* At first every call waits.
LEMMA HoldsInit == Init => Hold!Init
  <1> SUFFICES ASSUME Init PROVE Hold!Init
    OBVIOUS
  <1>1. Stages = [c \in Hold!Callers |-> "waiting"]
    BY DEF Init, Stages, ChatStage, ChangeStage, Calls, Hold!Callers
  <1>2. /\ session.active = NoConv /\ reading = NoConv
        /\ updating = FALSE /\ Stored \subseteq Convs
    BY DEF Init, Stored
  <1>3. Removing = {} /\ Dropping = FALSE
    BY DEF Init, Removing, Dropping, Deleting, Calls
  <1> QED
    BY <1>1, <1>2, <1>3 DEF Hold!Init

\* Without child tasks the session is used as SessionHold says, by any number of
\* calls: one chat or change at a time holds it, once; a chat moves the active
\* conversation only if that is gone or of another kind; a deletion takes its own
\* conversation only out of the store; beside them only a deletion that found its
\* conversation active and a read that found none move the active one; and once
\* the host is about to exit only such a read does (_session_lifecycle_scope,
\* start_turn, delete_conversation, list_history, _update_idle_reason).
THEOREM SessionsImplementHold ==
  ASSUME Workers = {}
  PROVE  Spec => ImplementsHold
  <1>1. Init => HoldsInv
    <2>1. Init => UpdateFindsQuiet
      BY DEF Init, UpdateFindsQuiet
    <2> QED
      BY <2>1, TypeInit, HoldInit, PlaceInit DEF HoldsInv
  <1>2. HoldsInv /\ [Next]_vars => HoldsInv'
    BY TypeStep, HoldStep, PlaceStep, QuietStep DEF HoldsInv
  <1>3. HoldsInv /\ [Next]_vars => [Hold!Next]_(Hold!hold)
    BY HoldsImplemented
  <1> QED
    BY <1>1, <1>2, <1>3, HoldsInit, PTL DEF Spec, ImplementsHold, Hold!Spec
=============================================================================
