----------------------- MODULE ClusterMessagesProofs -----------------------
(***************************************************************************)
(* Proofs about ClusterMessages, for any number of tasks, waiting calls    *)
(* and messages.                                                           *)
(***************************************************************************)
EXTENDS ClusterMessages, FiniteSetTheorems, TLAPS

\* A task that has not ended has posted no final message.
PendingHasNoFinal ==
    \A i \in DOMAIN log :
        log[i].kind = "final" => status[log[i].task] \in Terminal

\* What a read with the unread cursor remembers while it waits.
ManagedCalls ==
    \A w \in Waiters :
        call[w].managed => /\ call[w].after <= read
                           /\ call[w].kinds \in ManagedFilters

ReadBound == read <= Len(log)

\* The inductive invariant.
MInv ==
    /\ TypeOK
    /\ PendingHasNoFinal
    /\ FinalIsLast
    /\ ManagedCalls
    /\ ReadBound
    /\ ShownIsRead
    /\ NothingSkipped

USE MessageConstantsAssumption

-----------------------------------------------------------------------------
(* The board only grows at its end, and only loses old messages. *)

\* The prefix relation of the log before and after a step.
Extends ==
    /\ log' \in Seq(Message)
    /\ Len(log) <= Len(log')
    /\ \A i \in DOMAIN log : log'[i] = log[i]

LEMMA DomainFinite ==
    ASSUME NEW s \in Seq(Message), NEW S \in SUBSET (DOMAIN s)
    PROVE  IsFiniteSet(S)
  <1>1. IsFiniteSet(1..Len(s))
    BY FS_Interval
  <1> QED
    BY <1>1, FS_Subset

\* A message that is on the board after a step was on it before.
LEMMA BoardShrinks ==
    ASSUME TypeOK, Extends, NEW i \in DOMAIN log, i \in Board'
    PROVE  i \in Board
  <1> DEFINE t == log[i].task
             newer  == {j \in Of(t) : j > i}
             newer2 == {j \in DOMAIN log' : log'[j].task = t /\ j > i}
  <1>1. log \in Seq(Message) /\ DOMAIN log \subseteq DOMAIN log'
    BY DEF TypeOK, Extends
  <1>2. newer \subseteq newer2
    BY <1>1 DEF Extends, Of
  <1>3. IsFiniteSet(newer2) /\ IsFiniteSet(newer)
    <2>1. newer2 \subseteq DOMAIN log' /\ newer \subseteq DOMAIN log
      BY DEF Of
    <2> QED
      BY <1>1, <2>1, DomainFinite DEF Extends
  <1>4. Cardinality(newer) <= Cardinality(newer2)
    BY <1>2, <1>3, FS_Subset
  <1>5. Cardinality(newer2) < Keep
    BY DEF Board, Kept, Of, Extends
  <1>6. Cardinality(newer) \in Nat /\ Cardinality(newer2) \in Nat
    BY <1>3, FS_CardinalityType
  <1>7. Cardinality(newer) < Keep
    BY <1>4, <1>5, <1>6
  <1> QED
    BY <1>7 DEF Board, Kept, Of

\* Posting extends the log, by at most one message of the poster.
LEMMA PostExtends ==
    ASSUME TypeOK, NEW t \in Tasks, NEW kind \in Kinds,
           NEW text \in Texts \cup {NoText, StopText},
           log' = Posted(t, kind, text)
    PROVE  /\ Extends
           /\ \A i \in DOMAIN log' : i \notin DOMAIN log =>
                 i = Len(log) + 1 /\ log'[i].task = t /\ log'[i].kind = kind
  <1>1. log \in Seq(Message)
    BY DEF TypeOK
  <1>2. CASE Dropped(t, kind, text)
    BY <1>1, <1>2 DEF Posted, Extends
  <1>3. CASE ~Dropped(t, kind, text)
    <2>1. text # NoText
      BY <1>3 DEF Dropped
    <2>2. [task |-> t, kind |-> kind, text |-> text] \in Message
      BY <2>1 DEF Message
    <2> QED
      BY <1>1, <1>3, <2>2 DEF Posted, Extends
  <1> QED
    BY <1>2, <1>3

\* Nothing about reads is disturbed by a step that only adds messages.
LEMMA ReadsKept ==
    ASSUME MInv, Extends, UNCHANGED <<call, read, shown>>
    PROVE  ManagedCalls' /\ ReadBound' /\ ShownIsRead' /\ NothingSkipped'
  <1> USE DEF MInv
  <1>1. ManagedCalls' /\ ShownIsRead'
    BY DEF ManagedCalls, ShownIsRead
  <1>2. ReadBound'
    BY DEF ReadBound, Extends, TypeOK
  <1>3. NothingSkipped'
    <2> SUFFICES ASSUME NEW i \in DOMAIN log', i <= read,
                        log'[i].kind \in AlwaysWanted, i \notin shown
                 PROVE  i \notin Board'
      BY DEF NothingSkipped, AlwaysWanted
    <2>1. i \in DOMAIN log /\ log'[i] = log[i]
      BY DEF ReadBound, Extends, TypeOK
    <2>2. i \notin Board
      BY <2>1 DEF NothingSkipped
    <2> QED
      BY <2>1, <2>2, BoardShrinks
  <1> QED
    BY <1>1, <1>2, <1>3

-----------------------------------------------------------------------------
(* Init and the steps of the children *)

LEMMA MessagesInit == Init => MInv
  BY DEF Init, MInv, TypeOK, PendingHasNoFinal, FinalIsLast, ManagedCalls,
         ReadBound, ShownIsRead, NothingSkipped, NoCall, TaskCall, Calls,
         Filters, Kinds

LEMMA PostStep ==
    ASSUME MInv, NEW t \in Tasks, Streams(t), NEW kind \in Kinds,
           NEW text \in Texts \cup {NoText, StopText},
           log' = Posted(t, kind, text),
           status' \in [Tasks -> {"none"} \cup Pending \cup Terminal],
           \A u \in Tasks : u # t => status'[u] = status[u],
           kind = "final" => status'[t] \in Terminal,
           owed' = owed \cup {t},
           UNCHANGED <<call, pc, read, shown>>
    PROVE  MInv'
  <1> USE DEF MInv
  <1>1. /\ Extends
        /\ \A i \in DOMAIN log' : i \notin DOMAIN log =>
              i = Len(log) + 1 /\ log'[i].task = t /\ log'[i].kind = kind
    BY PostExtends
  <1>2. TypeOK'
    BY <1>1 DEF TypeOK, Extends
  <1>3. \A i \in DOMAIN log : log[i].task = t => log[i].kind # "final"
    BY DEF PendingHasNoFinal, Streams, Terminal, TypeOK
  <1>4. PendingHasNoFinal'
    <2> SUFFICES ASSUME NEW i \in DOMAIN log', log'[i].kind = "final"
                 PROVE  status'[log'[i].task] \in Terminal
      BY DEF PendingHasNoFinal, Terminal
    <2>1. CASE i \in DOMAIN log
      <3>1. log'[i] = log[i]
        BY <1>1, <2>1 DEF Extends
      <3>2. log[i] \in Message
        BY <2>1 DEF TypeOK
      <3>3. log[i].task \in Tasks /\ log[i].task # t
        BY <1>3, <2>1, <3>1, <3>2 DEF Message
      <3> QED
        BY <2>1, <3>1, <3>3 DEF PendingHasNoFinal
    <2>2. CASE i \notin DOMAIN log
      BY <1>1, <2>2
    <2> QED
      BY <2>1, <2>2
  <1>5. FinalIsLast'
    <2> SUFFICES ASSUME NEW i \in DOMAIN log', NEW j \in DOMAIN log',
                        i < j, log'[i].task = log'[j].task
                 PROVE  log'[i].kind # "final"
      BY DEF FinalIsLast
    <2>1. log \in Seq(Message) /\ log' \in Seq(Message)
      BY <1>2 DEF TypeOK
    <2>2. i \in DOMAIN log
      BY <1>1, <2>1 DEF Extends
    <2>3. CASE j \in DOMAIN log
      BY <1>1, <2>2, <2>3 DEF FinalIsLast, Extends
    <2>4. CASE j \notin DOMAIN log
      BY <1>1, <1>3, <2>2, <2>4 DEF Extends
    <2> QED
      BY <2>3, <2>4
  <1>6. ManagedCalls' /\ ReadBound' /\ ShownIsRead' /\ NothingSkipped'
    BY <1>1, ReadsKept
  <1> QED
    BY <1>2, <1>4, <1>5, <1>6

LEMMA ProgressStep ==
    ASSUME MInv, NEW t \in Tasks, Progress(t)
    PROVE  MInv'
  <1>1. PICK text \in Texts : log' = Posted(t, "progress", text)
    BY DEF Progress
  <1>2. status' \in [Tasks -> {"none"} \cup Pending \cup Terminal]
    BY DEF Progress, MInv, TypeOK
  <1> QED
    BY <1>1, <1>2, PostStep DEF Progress, Kinds

LEMMA EndStep ==
    ASSUME MInv, NEW t \in Tasks, End(t)
    PROVE  MInv'
  <1>1. PICK text \in Texts \cup {NoText} : log' = Posted(t, "final", text)
    BY DEF End
  <1>2. PICK outcome \in {"completed", "failed"} :
           status' = [status EXCEPT ![t] = outcome]
    BY DEF End
  <1>3. /\ status' \in [Tasks -> {"none"} \cup Pending \cup Terminal]
        /\ \A u \in Tasks : u # t => status'[u] = status[u]
        /\ status'[t] \in Terminal
    BY <1>2 DEF MInv, TypeOK, Terminal
  <1> QED
    BY <1>1, <1>3, PostStep DEF End, Kinds

\* What a stop posts for a task.
Notice(t) == [task |-> t, kind |-> "final", text |-> StopText]

\* Cancelling posts one notice for each pending task: none has a result yet.
LEMMA CancelEffect ==
    ASSUME MInv, CancelAll
    PROVE  \E order \in Seq(Tasks) :
              /\ \A i, j \in DOMAIN order : i # j => order[i] # order[j]
              /\ \A k \in DOMAIN order : status[order[k]] \in Pending
              /\ \A t \in Tasks : status[t] \in Pending => \E k \in DOMAIN order : order[k] = t
              /\ Extends
              /\ \A i \in DOMAIN log' : i \notin DOMAIN log =>
                    i - Len(log) \in DOMAIN order /\ log'[i] = Notice(order[i - Len(log)])
              /\ \A k \in DOMAIN order :
                    Len(log) + k \in DOMAIN log' /\ log'[Len(log) + k] = Notice(order[k])
  <1> USE DEF MInv
  <1> DEFINE told == {t \in Tasks : /\ status[t] \in Pending
                                    /\ ~Dropped(t, "final", StopText)}
  <1>1. PICK order \in SetToSeqs(told) :
           log' = log \o [i \in DOMAIN order |-> Notice(order[i])]
    BY DEF CancelAll, Notice
  <1>2. told = {t \in Tasks : status[t] \in Pending}
    <2>1. ASSUME NEW t \in Tasks, status[t] \in Pending PROVE ~Dropped(t, "final", StopText)
      <3>1. \A i \in DOMAIN log : log[i].task = t => log[i].kind # "final"
        BY <2>1 DEF PendingHasNoFinal, Pending, Terminal
      <3> QED
        BY <3>1 DEF Dropped, Of, Kept
    <2> QED
      BY <2>1
  <1>3. /\ order \in [1..Cardinality(told) -> told] /\ Cardinality(told) \in Nat
        /\ \A i, j \in 1..Cardinality(told) : i # j => order[i] # order[j]
        /\ IsFiniteSet(told)
    <2>1. IsFiniteSet(told)
      BY FS_Subset
    <2>2. Cardinality(told) \in Nat
      BY <2>1, FS_CardinalityType
    <2> HIDE DEF told
    <2> QED
      BY <2>1, <2>2 DEF SetToSeqs
  <1>4. \A t \in told : \E k \in 1..Cardinality(told) : order[k] = t
    <2> HIDE DEF told
    <2> DEFINE places == 1..Cardinality(told)
    <2>1. order \in Injection(places, told)
      BY <1>3 DEF Injection, IsInjective
    <2>2. Cardinality(places) = Cardinality(told)
      BY <1>3, FS_Interval
    <2> HIDE DEF places
    <2>3. order \in Surjection(places, told)
      BY <1>3, <2>1, <2>2, FS_Injection
    <2> QED
      BY <2>3 DEF Surjection, places
  <1>5. order \in Seq(Tasks) /\ Len(order) = Cardinality(told) /\ DOMAIN order = 1..Len(order)
    <2>1. told \subseteq Tasks
      OBVIOUS
    <2> HIDE DEF told
    <2>2. order \in Seq(told)
      BY <1>3
    <2> QED
      BY <1>3, <2>1, <2>2
  <1> DEFINE notices == [i \in DOMAIN order |-> Notice(order[i])]
  <1>6. notices \in Seq(Message) /\ Len(notices) = Len(order)
    <2>1. Len(order) \in Nat
      BY <1>5
    <2>2. ASSUME NEW i \in DOMAIN order PROVE Notice(order[i]) \in Message
      <3>1. order[i] \in Tasks
        BY <1>5
      <3> QED
        BY <3>1 DEF Message, Kinds, Notice
    <2>3. notices \in [1..Len(order) -> Message]
      BY <1>5, <2>2
    <2> QED
      BY <2>1, <2>3
  <1>7. log \in Seq(Message) /\ DOMAIN log = 1..Len(log)
    BY DEF TypeOK
  <1>8. /\ log' \in Seq(Message)
        /\ Len(log') = Len(log) + Len(notices)
        /\ \A i \in 1..Len(log') :
              log'[i] = IF i <= Len(log) THEN log[i] ELSE notices[i - Len(log)]
        /\ DOMAIN log' = 1..Len(log')
    <2> HIDE DEF notices
    <2> QED
      BY <1>1, <1>6, <1>7 DEF notices
  <1>9. Extends
    <2> HIDE DEF notices
    <2> QED
      BY <1>6, <1>7, <1>8 DEF Extends
  <1>10. ASSUME NEW i \in DOMAIN log', i \notin DOMAIN log
         PROVE  i - Len(log) \in DOMAIN order /\ log'[i] = Notice(order[i - Len(log)])
    <2>1. i - Len(log) \in 1..Len(order) /\ log'[i] = notices[i - Len(log)]
      <3> HIDE DEF notices
      <3> QED
        BY <1>6, <1>7, <1>8, <1>10
    <2> QED
      BY <1>5, <2>1
  <1>11. ASSUME NEW k \in DOMAIN order
         PROVE  Len(log) + k \in DOMAIN log' /\ log'[Len(log) + k] = Notice(order[k])
    <2>1. k \in 1..Len(order) /\ notices[k] = Notice(order[k])
      BY <1>5
    <2> HIDE DEF notices
    <2>2. /\ Len(log) + k \in 1..Len(log') /\ ~(Len(log) + k <= Len(log))
          /\ (Len(log) + k) - Len(log) = k
      BY <1>5, <1>6, <1>7, <1>8, <2>1
    <2>3. log'[Len(log) + k] = notices[k]
      BY <1>8, <2>2
    <2> QED
      BY <1>8, <2>1, <2>2, <2>3
  <1>12. \A k \in DOMAIN order : status[order[k]] \in Pending
    <2>1. \A k \in DOMAIN order : order[k] \in told
      <3> HIDE DEF told
      <3> QED
        BY <1>3, <1>5
    <2> QED
      BY <2>1
  <1>13. \A t \in Tasks : status[t] \in Pending => \E k \in DOMAIN order : order[k] = t
    <2>1. \A t \in Tasks : status[t] \in Pending => t \in told
      BY <1>2
    <2> HIDE DEF told
    <2> QED
      BY <1>4, <1>5, <2>1
  <1>14. \A i, j \in DOMAIN order : i # j => order[i] # order[j]
    <2> HIDE DEF told
    <2> QED
      BY <1>3, <1>5
  <1> HIDE DEF told, notices
  <1> QED
    BY <1>5, <1>9, <1>10, <1>11, <1>12, <1>13, <1>14

LEMMA CancelStep ==
    ASSUME MInv, CancelAll
    PROVE  MInv'
  <1> USE DEF MInv
  <1>1. PICK order \in Seq(Tasks) :
           /\ \A i, j \in DOMAIN order : i # j => order[i] # order[j]
           /\ \A k \in DOMAIN order : status[order[k]] \in Pending
           /\ \A t \in Tasks : status[t] \in Pending => \E k \in DOMAIN order : order[k] = t
           /\ Extends
           /\ \A i \in DOMAIN log' : i \notin DOMAIN log =>
                 i - Len(log) \in DOMAIN order /\ log'[i] = Notice(order[i - Len(log)])
           /\ \A k \in DOMAIN order :
                 Len(log) + k \in DOMAIN log' /\ log'[Len(log) + k] = Notice(order[k])
    BY CancelEffect
  <1>2. \A i, j \in DOMAIN order : i # j => order[i] # order[j]
    BY <1>1
  <1>4. log \in Seq(Message)
    BY DEF TypeOK
  <1>5. /\ Extends
        /\ \A i \in DOMAIN log' : i \notin DOMAIN log =>
              /\ i - Len(log) \in DOMAIN order
              /\ log'[i] = [task |-> order[i - Len(log)], kind |-> "final", text |-> StopText]
    BY <1>1 DEF Notice
  <1>6. TypeOK'
    <2>1. status' \in [Tasks -> {"none"} \cup Pending \cup Terminal]
      BY DEF CancelAll, TypeOK, Terminal
    <2>2. owed' \subseteq Tasks \cup {Stop}
      BY DEF CancelAll, TypeOK
    <2> QED
      BY <1>5, <2>1, <2>2 DEF CancelAll, TypeOK, Extends
  <1>7. \A k \in DOMAIN order : order[k] \in Tasks /\ status[order[k]] \in Pending
    BY <1>1
  <1>8. \A i \in DOMAIN log : log[i].kind = "final" =>
           \A k \in DOMAIN order : order[k] # log[i].task
    BY <1>7 DEF PendingHasNoFinal, Pending, Terminal
  <1>9. PendingHasNoFinal'
    <2> SUFFICES ASSUME NEW i \in DOMAIN log', log'[i].kind = "final"
                 PROVE  status'[log'[i].task] \in Terminal
      BY DEF PendingHasNoFinal, Terminal
    <2>1. CASE i \in DOMAIN log
      <3>1. log'[i] = log[i] /\ status[log[i].task] \in Terminal
        BY <1>5, <2>1 DEF Extends, PendingHasNoFinal
      <3>2. log[i] \in Message
        BY <1>4, <2>1
      <3>3. log[i].task \in Tasks
        BY <3>2 DEF Message
      <3> QED
        BY <3>1, <3>3 DEF CancelAll, Terminal
    <2>2. CASE i \notin DOMAIN log
      <3>1. log'[i].task = order[i - Len(log)] /\ i - Len(log) \in DOMAIN order
        BY <1>5, <2>2
      <3> QED
        BY <1>7, <3>1 DEF CancelAll, Terminal
    <2> QED
      BY <2>1, <2>2
  <1>10. FinalIsLast'
    <2> SUFFICES ASSUME NEW i \in DOMAIN log', NEW j \in DOMAIN log',
                        i < j, log'[i].task = log'[j].task
                 PROVE  log'[i].kind # "final"
      BY DEF FinalIsLast
    <2>1. DOMAIN log = 1..Len(log) /\ DOMAIN log' = 1..Len(log')
      BY <1>4, <1>5 DEF Extends
    <2>2. CASE j \in DOMAIN log
      <3>1. i \in DOMAIN log
        BY <2>1, <2>2
      <3> QED
        BY <1>5, <2>2, <3>1 DEF FinalIsLast, Extends
    <2>3. CASE i \in DOMAIN log /\ j \notin DOMAIN log
      <3>1. /\ log'[j].task = order[j - Len(log)] /\ j - Len(log) \in DOMAIN order
            /\ log'[i] = log[i]
        BY <1>5, <2>3 DEF Extends
      <3> QED
        BY <1>8, <2>3, <3>1
    <2>4. CASE i \notin DOMAIN log
      <3>1. j \notin DOMAIN log
        BY <2>1, <2>4
      <3>2. /\ log'[i].task = order[i - Len(log)] /\ i - Len(log) \in DOMAIN order
            /\ log'[j].task = order[j - Len(log)] /\ j - Len(log) \in DOMAIN order
        BY <1>5, <2>4, <3>1
      <3>3. i - Len(log) # j - Len(log)
        BY <1>4, <2>1
      <3> QED
        BY <1>2, <3>2, <3>3
    <2> QED
      BY <2>2, <2>3, <2>4
  <1>11. ManagedCalls' /\ ReadBound' /\ ShownIsRead' /\ NothingSkipped'
    BY <1>5, ReadsKept DEF CancelAll
  <1> QED
    BY <1>6, <1>9, <1>10, <1>11

-----------------------------------------------------------------------------
(* The steps of the tool calls *)

LEMMA ReturnStep ==
    ASSUME MInv, NEW w \in Waiters, NEW c \in Calls, Return(w, c),
           c.managed => c.after <= read /\ c.kinds \in ManagedFilters
    PROVE  MInv'
  <1> USE DEF MInv
  <1>1. NoCall \in Calls /\ ~NoCall.managed
    BY DEF NoCall, TaskCall, Calls, Filters, Kinds
  <1>2. CASE ~(c.op = "messages" /\ c.managed /\ Page(c) # {})
    <2>1. UNCHANGED <<status, log, owed, read, shown>>
      BY <1>2 DEF Return
    <2>2. TypeOK'
      BY <1>1, <2>1 DEF Return, TypeOK
    <2>3. ManagedCalls'
      BY <1>1, <2>1 DEF Return, ManagedCalls, TypeOK
    <2> QED
      BY <2>1, <2>2, <2>3 DEF PendingHasNoFinal, FinalIsLast, ReadBound,
         ShownIsRead, NothingSkipped, Board, Kept, Of
  <1>3. CASE c.op = "messages" /\ c.managed /\ Page(c) # {}
    <2>1. PICK m \in DOMAIN log : IsCursor(c, m) /\ read' = MarkRead(m)
      BY <1>3 DEF Return
    <2>2. shown' = shown \cup Page(c) /\ UNCHANGED <<status, log, owed>>
      BY <1>3 DEF Return
    <2>3. log \in Seq(Message) /\ DOMAIN log = 1..Len(log)
      BY DEF TypeOK
    <2>4. /\ read' \in Nat /\ read <= read' /\ m <= read'
          /\ read' = m \/ read' = read
      BY <2>1, <2>3 DEF MarkRead, TypeOK
    <2>5. Matches(c) \subseteq DOMAIN log /\ Page(c) \subseteq Matches(c)
      BY DEF Matches, Page, Board
    <2>6. TypeOK'
      <3>1. /\ call' \in [Waiters -> Calls]
            /\ pc' \in [Waiters -> {"idle", "enter", "wait", "woken"}]
        BY <1>1 DEF Return, TypeOK
      <3>2. Page(c) \subseteq Nat
        BY <2>3, <2>5
      <3>3. shown' \in SUBSET Nat
        BY <2>2, <3>2 DEF TypeOK
      <3> QED
        BY <2>2, <2>4, <3>1, <3>3 DEF TypeOK
    <2>7. ManagedCalls'
      <3> SUFFICES ASSUME NEW v \in Waiters, call'[v].managed
                   PROVE  call'[v].after <= read' /\ call'[v].kinds \in ManagedFilters
        BY DEF ManagedCalls
      <3>1. v # w /\ call'[v] = call[v]
        BY <1>1 DEF Return, TypeOK
      <3>2. call[v].after \in Nat
        BY DEF TypeOK, Calls
      <3> QED
        BY <2>4, <3>1, <3>2 DEF ManagedCalls, TypeOK
    <2>8. ReadBound'
      BY <2>2, <2>3, <2>4 DEF ReadBound
    <2>9. ShownIsRead'
      <3> SUFFICES ASSUME NEW i \in shown' PROVE i <= read'
        BY DEF ShownIsRead
      <3>1. CASE i \in shown
        BY <2>4, <3>1 DEF ShownIsRead, TypeOK
      <3>2. CASE i \in Page(c)
        BY <2>1, <2>3, <2>4, <2>5, <3>2 DEF IsCursor
      <3> QED
        BY <2>2, <3>1, <3>2
    <2>10. NothingSkipped'
      <3> SUFFICES ASSUME NEW i \in DOMAIN log, i <= read',
                          log[i].kind \in AlwaysWanted, i \in Board
                   PROVE  i \in shown'
        BY <2>2 DEF NothingSkipped, Board, Kept, Of, AlwaysWanted
      <3>1. CASE i <= read
        BY <2>2, <3>1 DEF NothingSkipped
      <3>2. CASE ~(i <= read)
        <4>1. i \in Nat /\ i <= m /\ i > c.after /\ m \in Nat
          BY <1>3, <2>3, <2>4, <3>2 DEF TypeOK, Calls
        <4>2. i \in Matches(c)
          BY <1>3, <4>1 DEF Matches, AlwaysWanted
        <4> DEFINE before(k) == {j \in Matches(c) : j < k}
        <4>3. before(i) \subseteq before(m)
          BY <2>3, <2>5, <4>1
        <4>4. before(i) \subseteq DOMAIN log /\ before(m) \subseteq DOMAIN log
          BY <2>5
        <4>5. IsFiniteSet(before(i)) /\ IsFiniteSet(before(m))
          BY <2>3, <4>4, DomainFinite
        <4>6. /\ Cardinality(before(i)) <= Cardinality(before(m))
              /\ Cardinality(before(i)) \in Nat /\ Cardinality(before(m)) \in Nat
          BY <4>3, <4>5, FS_Subset, FS_CardinalityType
        <4>7. Cardinality(before(m)) < Limit
          BY <2>1 DEF IsCursor, Page
        <4>8. Cardinality(before(i)) < Limit
          BY <4>6, <4>7
        <4>9. i \in Page(c)
          BY <4>2, <4>8 DEF Page
        <4> QED
          BY <2>2, <4>9
      <3> QED
        BY <3>1, <3>2
    <2> QED
      BY <2>2, <2>6, <2>7, <2>8, <2>9, <2>10 DEF PendingHasNoFinal, FinalIsLast
  <1> QED
    BY <1>2, <1>3

LEMMA AttemptStep ==
    ASSUME MInv, NEW w \in Waiters, NEW c \in Calls,
           NEW place \in {"enter", "wait"}, Attempt(w, c, place),
           c.managed => c.after <= read /\ c.kinds \in ManagedFilters
    PROVE  MInv'
  <1>1. CASE Return(w, c)
    BY <1>1, ReturnStep
  <1>2. CASE Sleep(w, c, place)
    <2> USE DEF MInv, Sleep
    <2>1. TypeOK'
      BY <1>2 DEF TypeOK
    <2>2. ManagedCalls'
      BY <1>2 DEF ManagedCalls, TypeOK
    <2> QED
      BY <1>2, <2>1, <2>2 DEF PendingHasNoFinal, FinalIsLast, ReadBound,
         ShownIsRead, NothingSkipped, Board, Kept, Of
  <1> QED
    BY <1>1, <1>2 DEF Attempt

LEMMA MessagesNext == MInv /\ [Next]_vars => MInv'
  <1> SUFFICES ASSUME MInv, [Next]_vars PROVE MInv'
    OBVIOUS
  <1> USE DEF MInv
  <1>1. ASSUME NEW t \in Tasks, Ask(t) \/ Run(t)
        PROVE  MInv'
    <2>1. UNCHANGED <<log, owed, call, pc, read, shown>>
      BY <1>1 DEF Ask, Run
    <2>2. TypeOK'
      BY <1>1 DEF Ask, Run, TypeOK, Pending
    <2>3. PendingHasNoFinal'
      <3> SUFFICES ASSUME NEW i \in DOMAIN log, log[i].kind = "final"
                   PROVE  status'[log[i].task] \in Terminal
        BY <2>1 DEF PendingHasNoFinal, Terminal
      <3>1. status[log[i].task] \in Terminal
        BY DEF PendingHasNoFinal
      <3>2. log[i] \in Message
        BY DEF TypeOK
      <3>3. log[i].task \in Tasks
        BY <3>2 DEF Message
      <3>4. log[i].task # t
        BY <1>1, <3>1 DEF Ask, Run, Terminal
      <3>5. status'[log[i].task] = status[log[i].task]
        BY <1>1, <3>3, <3>4 DEF Ask, Run, TypeOK
      <3> QED
        BY <3>1, <3>5
    <2> QED
      BY <2>1, <2>2, <2>3 DEF FinalIsLast, ManagedCalls, ReadBound,
         ShownIsRead, NothingSkipped, Board, Kept, Of
  <1>2. ASSUME NEW t \in Tasks, Progress(t) PROVE MInv'
    BY <1>2, ProgressStep
  <1>3. ASSUME NEW t \in Tasks, End(t) PROVE MInv'
    BY <1>3, EndStep
  <1>4. CASE CancelAll
    BY <1>4, CancelStep
  <1>5. ASSUME NEW n \in Tasks \cup {Stop}, Notify(n) PROVE MInv'
    <2>1. TypeOK'
      BY <1>5 DEF Notify, TypeOK
    <2> QED
      BY <1>5, <2>1 DEF Notify, PendingHasNoFinal, FinalIsLast, ManagedCalls,
         ReadBound, ShownIsRead, NothingSkipped, Board, Kept, Of
  <1>6. ASSUME NEW w \in Waiters, WaitAgentMessages(w) PROVE MInv'
    <2>1. ASSUME NEW kinds \in ManagedFilters,
                 Attempt(w, MessageCall(read, kinds, TRUE), "enter")
          PROVE  MInv'
      <3>1. /\ MessageCall(read, kinds, TRUE) \in Calls
            /\ MessageCall(read, kinds, TRUE).after = read
            /\ MessageCall(read, kinds, TRUE).kinds = kinds
        BY DEF MessageCall, Calls, TypeOK
      <3>2. read <= read
        BY DEF TypeOK
      <3> DEFINE c == MessageCall(read, kinds, TRUE)
      <3>3. c.managed => c.after <= read /\ c.kinds \in ManagedFilters
        BY <3>1, <3>2
      <3> HIDE DEF c
      <3> QED
        BY <2>1, <3>1, <3>3, AttemptStep DEF c
    <2>2. ASSUME NEW kinds \in Filters, NEW after \in Overrides,
                 Attempt(w, MessageCall(after, kinds, FALSE), "enter")
          PROVE  MInv'
      <3>1. /\ MessageCall(after, kinds, FALSE) \in Calls
            /\ ~MessageCall(after, kinds, FALSE).managed
        BY DEF MessageCall, Calls
      <3> QED
        BY <2>2, <3>1, AttemptStep
    <2> QED
      BY <1>6, <2>1, <2>2 DEF WaitAgentMessages
  <1>7. ASSUME NEW w \in Waiters, PollAgentTasks(w) PROVE MInv'
    <2>1. PICK tasks \in SUBSET Tasks : Attempt(w, TaskCall(tasks), "enter")
      BY <1>7 DEF PollAgentTasks
    <2>2. TaskCall(tasks) \in Calls /\ ~TaskCall(tasks).managed
      BY DEF TaskCall, Calls, Filters, Kinds
    <2> QED
      BY <2>1, <2>2, AttemptStep
  <1>8. ASSUME NEW w \in Waiters, Enter(w) \/ Wake(w) PROVE MInv'
    BY <1>8, AttemptStep DEF Enter, Wake, ManagedCalls, TypeOK
  <1>9. ASSUME NEW w \in Waiters, TimeOut(w) PROVE MInv'
    BY <1>9, ReturnStep DEF TimeOut, ManagedCalls, TypeOK
  <1>10. CASE UNCHANGED vars
    BY <1>10 DEF vars, TypeOK, PendingHasNoFinal, FinalIsLast, ManagedCalls,
       ReadBound, ShownIsRead, NothingSkipped, Board, Kept, Of
  <1> QED
    BY <1>1, <1>2, <1>3, <1>4, <1>5, <1>6, <1>7, <1>8, <1>9, <1>10 DEF Next

-----------------------------------------------------------------------------
(* Lost wakeups *)

\* A waiting call that goes on, returns or starts to wait in the condition
\* has looked at the board in the same step.
LEMMA AttemptLosesNothing ==
    ASSUME TypeOK, NoWakeupLost, NEW w \in Waiters, NEW c,
           NEW place \in {"enter", "wait"}, Attempt(w, c, place)
    PROVE  NoWakeupLost'
  <1>1. UNCHANGED <<log, status, owed>>
    BY DEF Attempt, Return, Sleep
  <1>2. SUFFICES ASSUME NEW v \in Waiters, pc'[v] = "wait", Ready(call[v])'
                 PROVE  owed # {}
    BY <1>1 DEF NoWakeupLost
  <1>3. Ready(call'[v])
    BY <1>1, <1>2 DEF Ready, Matches, Board, Kept, Of, Selected
  <1>4. CASE Ready(c)
    <2>1. v # w /\ pc[v] = "wait" /\ call'[v] = call[v]
      BY <1>2, <1>4 DEF Attempt, Return, TypeOK
    <2> QED
      BY <2>1, <1>3 DEF NoWakeupLost
  <1>5. CASE ~Ready(c)
    <2>1. CASE v = w
      BY <2>1, <1>3, <1>5 DEF Attempt, Sleep, TypeOK
    <2>2. CASE v # w
      <3>1. pc[v] = "wait" /\ call'[v] = call[v]
        BY <2>2, <1>2, <1>5 DEF Attempt, Sleep, TypeOK
      <3> QED
        BY <3>1, <1>3 DEF NoWakeupLost
    <2> QED
      BY <2>1, <2>2
  <1> QED
    BY <1>4, <1>5

LEMMA WakeupNext ==
    ASSUME TypeOK, NoWakeupLost, [Next]_vars
    PROVE  NoWakeupLost'
  <1>1. ASSUME NEW t \in Tasks, Ask(t) \/ Run(t) PROVE NoWakeupLost'
    <2>1. SUFFICES ASSUME NEW w \in Waiters, pc[w] = "wait", Ready(call[w])'
                   PROVE  owed # {}
      BY <1>1 DEF Ask, Run, NoWakeupLost
    <2>2. UNCHANGED <<log, call, owed>>
      BY <1>1 DEF Ask, Run
    <2>3. /\ Selected(call[w]) \subseteq Tasks
          /\ \A u \in Tasks : status'[u] \notin Pending => status[u] \notin Pending
      BY <1>1 DEF Ask, Run, Selected, TypeOK, Calls, Pending
    <2>4. CASE call[w].op = "messages"
      <3>1. Ready(call[w])
        BY <2>1, <2>2, <2>4 DEF Ready, Matches, Board, Kept, Of
      <3> QED
        BY <2>1, <3>1 DEF NoWakeupLost
    <2>5. CASE call[w].op # "messages"
      <3>1. \A u \in Selected(call[w]) : status'[u] \notin Pending
        BY <2>1, <2>2, <2>5 DEF Ready, Selected
      <3>2. Ready(call[w])
        BY <2>3, <2>5, <3>1 DEF Ready
      <3> QED
        BY <2>1, <3>2 DEF NoWakeupLost
    <2> QED
      BY <2>4, <2>5
  <1>2. ASSUME NEW t \in Tasks, Progress(t) \/ End(t) PROVE NoWakeupLost'
    BY <1>2 DEF Progress, End, NoWakeupLost
  <1>3. ASSUME CancelAll PROVE NoWakeupLost'
    BY <1>3 DEF CancelAll, NoWakeupLost
  <1>4. ASSUME NEW n \in Tasks \cup {Stop}, Notify(n) PROVE NoWakeupLost'
    BY <1>4 DEF Notify, NoWakeupLost, TypeOK
  <1>5. ASSUME NEW w \in Waiters, WaitAgentMessages(w) \/ PollAgentTasks(w)
        PROVE  NoWakeupLost'
    <2>1. PICK c : Attempt(w, c, "enter")
      BY <1>5 DEF WaitAgentMessages, PollAgentTasks
    <2> QED
      BY <2>1, AttemptLosesNothing
  <1>6. ASSUME NEW w \in Waiters, Enter(w) \/ Wake(w) PROVE NoWakeupLost'
    BY <1>6, AttemptLosesNothing DEF Enter, Wake
  <1>7. ASSUME NEW w \in Waiters, TimeOut(w) PROVE NoWakeupLost'
    <2>1. /\ UNCHANGED <<log, status, owed>>
          /\ \A v \in Waiters : pc'[v] = "wait" =>
                pc[v] = "wait" /\ call'[v] = call[v]
      BY <1>7 DEF TimeOut, Return, TypeOK
    <2>2. SUFFICES ASSUME NEW v \in Waiters, pc'[v] = "wait", Ready(call[v])'
                   PROVE  owed # {}
      BY <2>1 DEF NoWakeupLost
    <2>3. Ready(call[v])
      BY <2>1, <2>2 DEF Ready, Matches, Board, Kept, Of, Selected
    <2> QED
      BY <2>1, <2>2, <2>3 DEF NoWakeupLost
  <1>8. CASE UNCHANGED vars
    BY <1>8 DEF vars, NoWakeupLost, Ready, Matches, Board, Kept, Of, Selected
  <1> QED
    BY <1>1, <1>2, <1>3, <1>4, <1>5, <1>6, <1>7, <1>8 DEF Next

-----------------------------------------------------------------------------
(* Theorems *)

\* MInv holds in every reachable state.
THEOREM MessagesInvariance == Spec => []MInv
  <1>1. Init => MInv
    BY MessagesInit
  <1>2. MInv /\ [Next]_vars => MInv'
    BY MessagesNext
  <1> QED
    BY <1>1, <1>2, PTL DEF Spec

\* Types: in particular no message of the board is blank.
THEOREM MessagesTypeCorrect == Spec => []TypeOK
  <1>1. MInv => TypeOK
    BY DEF MInv
  <1> QED
    BY <1>1, MessagesInvariance, PTL

\* A child posts at most one final message, and nothing after it, whatever
\* the race between its own end and a stop request.
THEOREM FinalClosesTask == Spec => []FinalIsLast
  <1>1. MInv => FinalIsLast
    BY DEF MInv
  <1> QED
    BY <1>1, MessagesInvariance, PTL

\* No message of a kind that every managed read asks for is skipped by the
\* unread cursor, for any page limit, board size and number of readers.
THEOREM CursorSkipsNothing == Spec => []NothingSkipped
  <1>1. MInv => NothingSkipped
    BY DEF MInv
  <1> QED
    BY <1>1, MessagesInvariance, PTL

\* A read that starts now returns nothing a managed read has returned.
THEOREM CursorRepeatsNothing == Spec => []ShownIsRead
  <1>1. MInv => ShownIsRead
    BY DEF MInv
  <1> QED
    BY <1>1, MessagesInvariance, PTL

\* No notification is lost between a waiting call's look at the board and its
\* sleep, however posts, stops and other calls interleave.
THEOREM WakeupsArrive == Spec => []NoWakeupLost
  <1>1. Init => NoWakeupLost
    BY DEF Init, NoWakeupLost
  <1>2. TypeOK /\ NoWakeupLost /\ [Next]_vars => NoWakeupLost'
    BY WakeupNext
  <1> QED
    BY <1>1, <1>2, MessagesTypeCorrect, PTL DEF Spec

-----------------------------------------------------------------------------
(* What becomes of a child's result. *)

\* The board never drops a result, however little it keeps of a task.
ResultsOnBoard == \A i \in DOMAIN log : log[i].kind = "final" => i \in Board

\* Once the cursor has passed a result, a read has returned it, when every read
\* that moves the cursor asks for results.
ResultsAreRead ==
    \A i \in DOMAIN log :
        log[i].kind = "final" /\ "final" \in AlwaysWanted /\ i <= read => i \in shown

\* A task that was cancelled has said so on the board, once and for good.
CancelledAreTold ==
    \A t \in Tasks : status[t] = "cancelled" =>
        \E i \in Board : log[i] = [task |-> t, kind |-> "final", text |-> StopText]

\* Sequence numbers keep their meaning, nothing comes back to the board, and the
\* cursor moves forward only.
BoardMovesOn ==
    [][/\ Len(log) <= Len(log') /\ \A i \in DOMAIN log : log'[i] = log[i]
       /\ \A i \in DOMAIN log : i \in Board' => i \in Board
       /\ read <= read' /\ shown \subseteq shown']_vars

\* A result stays on the board: nothing newer of its task can push it out.
LEMMA FinalStays == MInv => ResultsOnBoard
  <1> SUFFICES ASSUME MInv, NEW i \in DOMAIN log, log[i].kind = "final" PROVE i \in Board
    BY DEF ResultsOnBoard
  <1> DEFINE newer == {j \in Of(log[i].task) : j > i}
  <1>1. newer = {}
    <2>1. log \in Seq(Message)
      BY DEF MInv, TypeOK
    <2> QED
      BY <2>1 DEF Of, MInv, FinalIsLast
  <1>2. Cardinality(newer) < Keep
    <2>1. Cardinality({}) < Keep
      BY FS_EmptySet
    <2> HIDE DEF newer
    <2> QED
      BY <1>1, <2>1
  <1> QED
    BY <1>2 DEF Board, Kept, Of

\* The unread cursor passes no child's result unread, whatever the page limit
\* and however few messages the board keeps of each task.
THEOREM ResultsReachTheReader == Spec => []ResultsAreRead
  <1>1. MInv => ResultsAreRead
    BY FinalStays DEF ResultsOnBoard, ResultsAreRead, MInv, NothingSkipped
  <1> QED
    BY <1>1, MessagesInvariance, PTL

\* Every step appends to the log at most.
LEMMA LogExtends == ASSUME MInv, [Next]_vars PROVE Extends
  <1> TypeOK
    BY DEF MInv
  <1>1. UNCHANGED log => Extends
    BY DEF Extends, TypeOK
  <1>2. ASSUME NEW t \in Tasks, Progress(t) PROVE Extends
    <2>1. PICK text \in Texts : log' = Posted(t, "progress", text)
      BY <1>2 DEF Progress
    <2> QED
      BY <2>1, PostExtends DEF Kinds
  <1>3. ASSUME NEW t \in Tasks, End(t) PROVE Extends
    <2>1. PICK text \in Texts \cup {NoText} : log' = Posted(t, "final", text)
      BY <1>3 DEF End
    <2> QED
      BY <2>1, PostExtends DEF Kinds
  <1>4. CancelAll => Extends
    BY CancelEffect
  <1>5. ASSUME NEW t \in Tasks, Ask(t) \/ Run(t) PROVE UNCHANGED log
    BY <1>5 DEF Ask, Run
  <1>6. ASSUME NEW n \in Tasks \cup {Stop}, Notify(n) PROVE UNCHANGED log
    BY <1>6 DEF Notify
  <1>7. ASSUME NEW w \in Waiters, NEW c, NEW place, Attempt(w, c, place) PROVE UNCHANGED log
    BY <1>7 DEF Attempt, Return, Sleep
  <1>8. ASSUME NEW w \in Waiters, \/ WaitAgentMessages(w) \/ PollAgentTasks(w)
                                  \/ Enter(w) \/ Wake(w)
        PROVE  UNCHANGED log
    BY <1>7, <1>8 DEF WaitAgentMessages, PollAgentTasks, Enter, Wake
  <1>9. ASSUME NEW w \in Waiters, TimeOut(w) PROVE UNCHANGED log
    BY <1>9 DEF TimeOut, Return
  <1>10. UNCHANGED vars => UNCHANGED log
    BY DEF vars
  <1> QED
    BY <1>1, <1>2, <1>3, <1>4, <1>5, <1>6, <1>8, <1>9, <1>10 DEF Next

\* What is told is told in the log; it is on the board by FinalStays.
ToldInLog ==
    \A t \in Tasks : status[t] = "cancelled" => \E i \in DOMAIN log : log[i] = Notice(t)

LEMMA ToldNext == MInv /\ ToldInLog /\ [Next]_vars => ToldInLog'
  <1> SUFFICES ASSUME MInv, ToldInLog, [Next]_vars, NEW t \in Tasks, status'[t] = "cancelled"
               PROVE  \E i \in DOMAIN log' : log'[i] = Notice(t)
    BY DEF ToldInLog, Notice
  <1> TypeOK
    BY DEF MInv
  <1>1. CASE status[t] = "cancelled"
    <2>1. PICK i \in DOMAIN log : log[i] = Notice(t)
      BY <1>1 DEF ToldInLog
    <2>2. log'[i] = log[i] /\ i \in DOMAIN log'
      BY LogExtends DEF Extends, TypeOK
    <2> QED
      BY <2>1, <2>2
  <1>2. CASE status[t] # "cancelled" /\ CancelAll
    <2>1. status[t] \in Pending
      BY <1>2 DEF CancelAll
    <2> QED
      BY <1>2, <2>1, CancelEffect
  <1>3. CASE status[t] # "cancelled" /\ ~CancelAll
    <2>1. ASSUME NEW u \in Tasks, Ask(u) \/ Run(u) \/ Progress(u) \/ End(u) PROVE FALSE
      BY <1>3, <2>1 DEF Ask, Run, Progress, End, TypeOK
    <2>2. ASSUME NEW n \in Tasks \cup {Stop}, Notify(n) PROVE FALSE
      BY <1>3, <2>2 DEF Notify
    <2>3. ASSUME NEW w \in Waiters, NEW c, NEW place, Attempt(w, c, place) PROVE FALSE
      BY <1>3, <2>3 DEF Attempt, Return, Sleep
    <2>4. ASSUME NEW w \in Waiters, \/ WaitAgentMessages(w) \/ PollAgentTasks(w)
                                    \/ Enter(w) \/ Wake(w) \/ TimeOut(w)
          PROVE  FALSE
      BY <1>3, <2>3, <2>4 DEF WaitAgentMessages, PollAgentTasks, Enter, Wake, TimeOut, Return
    <2> QED
      BY <1>3, <2>1, <2>2, <2>4 DEF Next, vars
  <1> QED
    BY <1>1, <1>2, <1>3

\* A stop leaves a notice of every task it cancelled where the main agent finds
\* it: no task it met had a result that would have kept the notice out.
THEOREM StopsAreTold == Spec => []CancelledAreTold
  <1>1. Init => ToldInLog
    BY DEF Init, ToldInLog
  <1>2. MInv /\ ToldInLog => CancelledAreTold
    BY FinalStays DEF ToldInLog, CancelledAreTold, ResultsOnBoard, Notice
  <1> QED
    BY <1>1, <1>2, ToldNext, MessagesInvariance, PTL DEF Spec

LEMMA ReturnMovesOn ==
    ASSUME MInv, NEW w \in Waiters, NEW c \in Calls, Return(w, c)
    PROVE  read <= read' /\ shown \subseteq shown'
  <1>1. read \in Nat /\ log \in Seq(Message)
    BY DEF MInv, TypeOK
  <1>2. UNCHANGED <<read, shown>> \/ \E i \in DOMAIN log : read' = MarkRead(i)
    BY DEF Return
  <1>3. read <= read'
    BY <1>1, <1>2 DEF MarkRead
  <1>4. shown \subseteq shown'
    BY DEF Return
  <1> QED
    BY <1>3, <1>4

\* Sequence numbers are never reused, a message the board dropped does not come
\* back, and no call moves the unread cursor back, however late it returns.
THEOREM BoardOnlyMovesOn == Spec => BoardMovesOn
  <1>1. MInv /\ [Next]_vars =>
          [/\ Len(log) <= Len(log') /\ \A i \in DOMAIN log : log'[i] = log[i]
           /\ \A i \in DOMAIN log : i \in Board' => i \in Board
           /\ read <= read' /\ shown \subseteq shown']_vars
    <2> SUFFICES ASSUME MInv, Next
                 PROVE  /\ Extends
                        /\ \A i \in DOMAIN log : i \in Board' => i \in Board
                        /\ read <= read' /\ shown \subseteq shown'
      BY DEF Extends
    <2>1. Extends
      BY LogExtends
    <2>2. \A i \in DOMAIN log : i \in Board' => i \in Board
      BY <2>1, BoardShrinks DEF MInv
    <2>3. read \in Nat
      BY DEF MInv, TypeOK
    <2>4. UNCHANGED <<read, shown>> => read <= read' /\ shown \subseteq shown'
      BY <2>3
    <2>5. ASSUME NEW t \in Tasks, Ask(t) \/ Run(t) \/ Progress(t) \/ End(t)
          PROVE  UNCHANGED <<read, shown>>
      BY <2>5 DEF Ask, Run, Progress, End
    <2>6. ASSUME \/ CancelAll \/ \E n \in Tasks \cup {Stop} : Notify(n)
          PROVE  UNCHANGED <<read, shown>>
      BY <2>6 DEF CancelAll, Notify
    <2>7. ASSUME NEW w \in Waiters, NEW c \in Calls, NEW place, Attempt(w, c, place)
          PROVE  read <= read' /\ shown \subseteq shown'
      BY <2>4, <2>7, ReturnMovesOn DEF Attempt, Sleep
    <2>8. ASSUME NEW w \in Waiters, WaitAgentMessages(w)
          PROVE  read <= read' /\ shown \subseteq shown'
      <3>1. ASSUME NEW kinds \in ManagedFilters PROVE MessageCall(read, kinds, TRUE) \in Calls
        BY <2>3 DEF MessageCall, Calls
      <3>2. ASSUME NEW kinds \in Filters, NEW after \in Overrides
            PROVE  MessageCall(after, kinds, FALSE) \in Calls
        BY DEF MessageCall, Calls
      <3> QED
        BY <2>7, <2>8, <3>1, <3>2 DEF WaitAgentMessages
    <2>9. ASSUME NEW w \in Waiters, PollAgentTasks(w)
          PROVE  read <= read' /\ shown \subseteq shown'
      <3>1. ASSUME NEW tasks \in SUBSET Tasks PROVE TaskCall(tasks) \in Calls
        BY DEF TaskCall, Calls, Filters, Kinds
      <3> QED
        BY <2>7, <2>9, <3>1 DEF PollAgentTasks
    <2>10. ASSUME NEW w \in Waiters, Enter(w) \/ Wake(w) \/ TimeOut(w)
           PROVE  read <= read' /\ shown \subseteq shown'
      <3>1. call[w] \in Calls
        BY DEF MInv, TypeOK
      <3> QED
        BY <2>7, <2>10, <3>1, ReturnMovesOn DEF Enter, Wake, TimeOut
    <2>11. read <= read' /\ shown \subseteq shown'
      BY <2>4, <2>5, <2>6, <2>8, <2>9, <2>10 DEF Next
    <2> QED
      BY <2>1, <2>2, <2>11
  <1> QED
    BY <1>1, MessagesInvariance, PTL DEF Spec, BoardMovesOn

-----------------------------------------------------------------------------
(* The life of the tasks (TaskLife). *)

lifeNow == [t \in Tasks |-> IF status[t] \in Pending THEN "pending"
                            ELSE IF status[t] \in {"completed", "failed"} THEN "ended"
                            ELSE status[t]]
neverStopping == [r \in {"run"} |-> "no"]

LEMMA MessagesLifeStep ==
  ASSUME TypeOK, [Next]_vars PROVE Life!Next \/ UNCHANGED <<lifeNow, neverStopping>>
  <1> USE DEF Pending
  <1>1. ASSUME NEW t \in Tasks, Ask(t) PROVE Life!Ask(t)
    BY <1>1 DEF Ask, Life!Ask, TypeOK
  <1>2. ASSUME NEW t \in Tasks, End(t) PROVE Life!End(t)
    <2>1. PICK outcome \in {"completed", "failed"} : status' = [status EXCEPT ![t] = outcome]
      BY <1>2 DEF End
    <2>2. status[t] = "running"
      BY <1>2 DEF End, Streams
    <2> QED
      BY <2>1, <2>2 DEF Life!End, TypeOK
  <1>3. CASE CancelAll
    <2>1. \A t \in Tasks : lifeNow'[t] = IF lifeNow[t] = "pending" THEN "cancelled"
                                                                   ELSE lifeNow[t]
      BY <1>3 DEF CancelAll, lifeNow, TypeOK, Terminal
    <2>2. lifeNow' = [t \in Tasks |-> IF lifeNow[t] = "pending" THEN "cancelled" ELSE lifeNow[t]]
      BY <2>1 DEF lifeNow
    <2>3. Life!TasksOf("run") = Tasks
      BY DEF Life!TasksOf
    <2>4. Life!CancelAll("run")
      BY <2>2, <2>3 DEF Life!CancelAll, lifeNow
    <2> QED
      BY <2>4 DEF Life!Migrate, Life!Next
  <1>4. ASSUME NEW t \in Tasks, Run(t) PROVE UNCHANGED <<lifeNow, neverStopping>>
    BY <1>4 DEF Run, TypeOK, lifeNow, neverStopping
  <1>5. UNCHANGED status => UNCHANGED <<lifeNow, neverStopping>>
    BY DEF lifeNow, neverStopping
  <1>6. ASSUME NEW w \in Waiters, NEW c, NEW place, Attempt(w, c, place) PROVE UNCHANGED status
    BY <1>6 DEF Attempt, Return, Sleep
  <1>7. CASE \/ UNCHANGED vars \/ \E t \in Tasks : Progress(t)
             \/ \E n \in Tasks \cup {Stop} : Notify(n)
             \/ \E w \in Waiters : \/ WaitAgentMessages(w) \/ PollAgentTasks(w)
                                   \/ Enter(w) \/ Wake(w) \/ TimeOut(w)
    BY <1>5, <1>6, <1>7 DEF vars, Progress, Notify, WaitAgentMessages, PollAgentTasks, Enter,
                            Wake, TimeOut, Return
  <1> QED
    BY <1>1, <1>2, <1>3, <1>4, <1>7 DEF Next, Life!Next

\* The tasks whose messages are on the board live as TaskLife says.
THEOREM MessagesImplementLife == Spec => ImplementsLife
  <1>1. Init => Life!Init
    BY DEF Init, Life!Init, Pending
  <1>2. TypeOK /\ [Next]_vars => [Life!Next]_(Life!tasks)
    BY MessagesLifeStep DEF Life!tasks, lifeNow, neverStopping
  <1> QED
    BY <1>1, <1>2, MessagesTypeCorrect, PTL DEF Spec, ImplementsLife, Life!Spec

=============================================================================
