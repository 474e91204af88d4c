-------------------------- MODULE TurnChannelProofs --------------------------
(***************************************************************************)
(* Proofs about TurnChannel, for budgets of any size and turns of any      *)
(* length: types, critical events reach the client across reconnections,   *)
(* and nothing is skipped without a gap event.                             *)
(***************************************************************************)
EXTENDS TurnChannel, FiniteSetTheorems, TLAPS

\* Only other events are evicted.
CriticalKept == \A n \in DOMAIN log : Critical(log, n) => n \in frames

\* Between two steps the consumer is where the client is, and its batch and
\* gap event lie ahead of it.
InStep ==
    /\ reader.cursor <= Len(log) /\ reader.gap <= Len(log)
    /\ reader.on => reader.cursor = seen
    /\ \A n \in reader.batch : n > reader.cursor /\ (reader.gap # 0 => n <= reader.gap)
    /\ reader.gap # 0 => reader.gapSent

\* What a step of the consumer passes, a batch or the gap after it.
Passes(n) ==
    /\ n > reader.cursor
    /\ (\E m \in reader.batch : n <= m) \/ n <= reader.gap

\* The critical events a consumer is going to pass are in its batch, and so is
\* everything unless there is a gap event.
BatchWhole ==
    reader.on =>
      \A n \in DOMAIN log :
          Passes(n) => \/ n \in reader.batch
                       \/ ~Critical(log, n) /\ reader.gapSent

ChannelInv ==
    TypeOK /\ CriticalKept /\ InStep /\ BatchWhole /\ CriticalDelivered /\ SkipsFlagged

LEMMA ChannelInvInit == Init => ChannelInv
  <1> SUFFICES ASSUME Init PROVE ChannelInv
    OBVIOUS
  <1> USE ChannelAssumption
  <1>1. log = <<>> /\ DOMAIN log = {} /\ Len(log) = 0
    BY DEF Init
  <1>2. reader = [on |-> TRUE, cursor |-> 0, requested |-> 0, gapSent |-> FALSE,
                  batch |-> {}, gap |-> 0, last |-> FALSE]
    BY DEF Init, NoReader
  <1>6. log \in Seq({"data", "critical", "overflow"})
    BY <1>1
  <1>7. reader \in Readers
    BY <1>1, <1>2 DEF Readers
  <1>8. 1 \in 0 .. MaxReaders
    OBVIOUS
  <1>9. frames \subseteq DOMAIN log /\ got \subseteq DOMAIN log /\ seen \in 0 .. Len(log)
    BY <1>1 DEF Init
  <1>3. TypeOK
    BY <1>6, <1>7, <1>8, <1>9 DEF Init, TypeOK
  <1>4. CriticalKept /\ InStep /\ BatchWhole
    BY <1>1, <1>2 DEF Init, CriticalKept, InStep, BatchWhole
  <1>5. CriticalDelivered /\ SkipsFlagged
    BY <1>2 DEF Init, CriticalDelivered, SkipsFlagged
  <1> QED
    BY <1>3, <1>4, <1>5 DEF ChannelInv

\* An append extends the log and evicts no critical event.
LEMMA AppendKeepsCritical ==
  ASSUME TypeOK, CriticalKept, NEW kind \in {"data", "critical"}, Appended(kind)
  PROVE  /\ log' \in Seq({"data", "critical", "overflow"})
         /\ Len(log') > Len(log)
         /\ \A n \in DOMAIN log : n \in DOMAIN log' /\ log'[n] = log[n]
         /\ frames' \subseteq DOMAIN log'
         /\ CriticalKept'
  <1> DEFINE events == Append(log, kind)
             all == frames \cup {Len(events)}
             kept == all \ OverBudget(events, all)
  <1>1. /\ events \in Seq({"data", "critical", "overflow"})
        /\ Len(events) = Len(log) + 1 /\ DOMAIN events = 1 .. Len(log) + 1
        /\ DOMAIN log = 1 .. Len(log)
        /\ \A n \in DOMAIN log : events[n] = log[n]
        /\ all \subseteq DOMAIN events
    BY DEF TypeOK, Readers
  <1>2. \A n \in DOMAIN events : Critical(events, n) => n \in kept
    BY <1>1 DEF CriticalKept, Critical, OverBudget
  <1>3. CASE ~ControlSpent(events, kept)
    <2>1. log' = events /\ frames' = kept
      BY <1>3 DEF Appended
    <2> HIDE DEF events
    <2>2. kept \subseteq DOMAIN events
      BY <1>1
    <2> HIDE DEF kept
    <2> QED
      BY <1>1, <1>2, <2>1, <2>2 DEF CriticalKept, TypeOK, Readers
  <1>4. CASE ControlSpent(events, kept)
    <2>1. /\ log' = Append(events, "overflow")
          /\ frames' = (kept \ Leading(events, kept)) \cup {Len(events) + 1}
      BY <1>4 DEF Appended, OverflowSequence
    <2>2. kept \subseteq DOMAIN events
      BY <1>1
    <2> HIDE DEF events, kept
    <2>3. /\ log' \in Seq({"data", "critical", "overflow"})
          /\ Len(log') = Len(events) + 1 /\ DOMAIN log' = 1 .. Len(events) + 1
          /\ \A n \in DOMAIN events : log'[n] = events[n]
      BY <1>1, <2>1
    <2>4. \A n \in DOMAIN events : Critical(events, n) => n \in frames'
      BY <1>1, <1>2, <2>1, <2>2 DEF Leading
    <2>5. DOMAIN log' = DOMAIN events \cup {Len(events) + 1}
      BY <1>1, <2>3
    <2>6. CriticalKept'
      BY <1>1, <2>1, <2>3, <2>4, <2>5 DEF CriticalKept, Critical
    <2>7. frames' \subseteq DOMAIN log'
      BY <2>1, <2>2, <2>5
    <2> QED
      BY <1>1, <2>3, <2>5, <2>6, <2>7
  <1> QED
    BY <1>3, <1>4

\* What is unchanged by every step of the producer.
LEMMA AppendStep ==
  ASSUME ChannelInv, NEW kind \in {"data", "critical"}, Appended(kind),
         producer' \in {"reading", "aborting", "left", "done"},
         UNCHANGED <<turn, reader, grace, pruned, got, seen, readers>>
  PROVE  ChannelInv'
  <1> USE DEF ChannelInv
  <1>1. /\ log' \in Seq({"data", "critical", "overflow"})
        /\ Len(log') >= Len(log)
        /\ \A n \in DOMAIN log : n \in DOMAIN log' /\ log'[n] = log[n]
        /\ frames' \subseteq DOMAIN log'
        /\ CriticalKept'
    BY AppendKeepsCritical
  <1>2. Len(log) \in Nat /\ Len(log') \in Nat /\ DOMAIN log = 1 .. Len(log)
    BY <1>1 DEF TypeOK, Readers
  <1>3. TypeOK'
    BY <1>1, <1>2 DEF TypeOK, Readers
  <1>4. InStep'
    BY <1>1, <1>2 DEF TypeOK, Readers, InStep
  <1>5. \A n \in DOMAIN log' : Passes(n)' => n \in DOMAIN log
    BY <1>1, <1>2 DEF TypeOK, Readers, InStep, Passes
  <1>6. BatchWhole'
    BY <1>1, <1>5 DEF BatchWhole, Passes, Critical
  <1>7. CriticalDelivered' /\ SkipsFlagged'
    BY <1>1, <1>2 DEF TypeOK, Readers, CriticalDelivered, SkipsFlagged, Critical
  <1> QED
    BY <1>1, <1>3, <1>4, <1>6, <1>7

\* What the client is led past when it gets the first event of the batch.
LEMMA YieldPasses ==
  ASSUME ChannelInv, reader.on, NEW n \in reader.batch, \A k \in reader.batch : n <= k
  PROVE  /\ n \in 1 .. Len(log) /\ n > seen /\ reader.cursor = seen
         /\ \A k \in 1 .. n :
               k <= seen \/ k = n \/ (~Critical(log, k) /\ reader.gapSent)
  <1>0. TypeOK /\ InStep /\ BatchWhole /\ Len(log) \in Nat /\ DOMAIN log = 1 .. Len(log)
    BY DEF ChannelInv, TypeOK, Readers
  <1>1. n \in 1 .. Len(log) /\ n > seen /\ reader.cursor = seen
    BY <1>0 DEF InStep, TypeOK, Readers
  <1>2. ASSUME NEW k \in 1 .. n, k > seen, k # n
        PROVE  ~Critical(log, k) /\ reader.gapSent
    <2>1. k \in DOMAIN log /\ k <= n
      BY <1>0, <1>1
    <2>2. Passes(k)
      BY <1>1, <1>2, <2>1 DEF Passes
    <2>3. k \notin reader.batch
      BY <1>0, <1>1, <1>2
    <2> QED
      BY <1>0, <2>1, <2>2, <2>3 DEF BatchWhole
  <1> QED
    BY <1>0, <1>1, <1>2 DEF TypeOK, Readers

\* ... and when it gets the gap event.
LEMMA GapPasses ==
  ASSUME ChannelInv, reader.on, reader.batch = {}, reader.gap # 0
  PROVE  /\ reader.gapSent /\ reader.cursor = seen
         /\ reader.gap \in 1 .. Len(log)
         /\ \A k \in 1 .. reader.gap : k <= seen \/ ~Critical(log, k)
  <1>0. TypeOK /\ InStep /\ BatchWhole /\ Len(log) \in Nat /\ DOMAIN log = 1 .. Len(log)
    BY DEF ChannelInv, TypeOK, Readers
  <1>1. reader.gapSent /\ reader.cursor = seen /\ reader.gap \in 1 .. Len(log)
    BY <1>0 DEF InStep, TypeOK, Readers
  <1> QED
    BY <1>0, <1>1 DEF BatchWhole, Passes, TypeOK, Readers

LEMMA ChannelInvNext == ChannelInv /\ [Next]_vars => ChannelInv'
  <1> SUFFICES ASSUME ChannelInv, [Next]_vars PROVE ChannelInv'
    OBVIOUS
  <1> USE ChannelAssumption
  <1>0. /\ TypeOK /\ CriticalKept /\ InStep /\ BatchWhole
        /\ CriticalDelivered /\ SkipsFlagged
        /\ Len(log) \in Nat /\ DOMAIN log = 1 .. Len(log)
    BY DEF ChannelInv, TypeOK, Readers
  <1>1. ASSUME NEW kind \in {"data", "critical"}, Produce(kind)
        PROVE  ChannelInv'
    BY <1>1, AppendStep DEF Produce, AfterAppend
  <1>2. CASE ProducerRaises
    BY <1>2, AppendStep DEF ProducerRaises
  <1>3. CASE AbortReturns \/ ProducerEnds \/ Prune \/ GraceExpires
    <2>1. /\ UNCHANGED <<log, frames, reader, got, seen, readers>>
          /\ turn' \in {"running", "aborted"} /\ grace' \in BOOLEAN
          /\ pruned' \in BOOLEAN
          /\ producer' \in {"reading", "aborting", "left", "done"}
      BY <1>0, <1>3 DEF AbortReturns, ProducerEnds, Prune, GraceExpires, TypeOK, Readers
    <2>2. TypeOK'
      BY <1>0, <2>1 DEF TypeOK, Readers
    <2> QED
      BY <1>0, <2>1, <2>2 DEF ChannelInv, CriticalKept, InStep, BatchWhole, Passes,
                              CriticalDelivered, SkipsFlagged, Critical
  <1>4. CASE Attach
    <2>1. /\ reader' = [on |-> TRUE, cursor |-> seen, requested |-> seen,
                        gapSent |-> FALSE, batch |-> {}, gap |-> 0, last |-> FALSE]
          /\ UNCHANGED <<log, frames, producer, turn, pruned, got, seen>>
          /\ grace' = FALSE /\ readers' = readers + 1 /\ readers < MaxReaders
      BY <1>4 DEF Attach, NoReader
    <2>5. reader' \in Readers'
      BY <1>0, <2>1 DEF TypeOK, Readers
    <2>6. readers' \in 0 .. MaxReaders
      BY <1>0, <2>1 DEF TypeOK
    <2>2. TypeOK'
      BY <1>0, <2>1, <2>5, <2>6 DEF TypeOK
    <2>3. CriticalKept' /\ CriticalDelivered'
      BY <1>0, <2>1 DEF CriticalKept, CriticalDelivered, Critical
    <2>4. InStep' /\ BatchWhole' /\ SkipsFlagged'
      BY <1>0, <2>1 DEF InStep, BatchWhole, Passes, SkipsFlagged, TypeOK, Readers
    <2> QED
      BY <2>2, <2>3, <2>4 DEF ChannelInv
  <1>5. CASE Detach
    <2>1. /\ reader' = NoReader
          /\ UNCHANGED <<log, frames, producer, turn, pruned, got, seen, readers>>
          /\ grace' \in BOOLEAN
      BY <1>5 DEF Detach, GraceDue
    <2>2. TypeOK'
      BY <1>0, <2>1 DEF TypeOK, Readers, NoReader
    <2>3. CriticalKept' /\ CriticalDelivered'
      BY <1>0, <2>1 DEF CriticalKept, CriticalDelivered, Critical
    <2>4. InStep' /\ BatchWhole' /\ SkipsFlagged'
      BY <1>0, <2>1 DEF InStep, BatchWhole, SkipsFlagged, NoReader
    <2> QED
      BY <2>2, <2>3, <2>4 DEF ChannelInv
  <1>6. CASE LookAtGap
    <2>1. PICK end \in Evicted :
             /\ \A e \in Evicted : e <= end
             /\ reader' = [reader EXCEPT !.gapSent = TRUE, !.gap = end,
                                         !.batch = Prefix(end)]
      BY <1>6 DEF LookAtGap
    <2>2. reader.on /\ UNCHANGED <<log, frames, producer, turn, grace, pruned,
                                   got, seen, readers>>
      BY <1>6 DEF LookAtGap
    <2>3. /\ reader'.on /\ reader'.gapSent /\ reader'.gap = end
          /\ reader'.batch = Prefix(end) /\ reader'.cursor = reader.cursor
          /\ reader'.requested = reader.requested /\ reader'.last = reader.last
      BY <1>0, <2>1, <2>2 DEF TypeOK, Readers
    <2>4. end \in 1 .. Len(log)
      BY <1>0, <2>1 DEF Evicted
    <2>5. Prefix(end) \subseteq DOMAIN log
      BY <1>0 DEF Prefix, TypeOK, Readers
    <2>11. DOMAIN log' = DOMAIN log /\ end \in Nat
      BY <2>2, <2>4
    <2>10. reader' \in Readers'
      BY <1>0, <2>1, <2>5, <2>11 DEF TypeOK, Readers
    <2>6. TypeOK'
      BY <1>0, <2>2, <2>10 DEF TypeOK
    <2>7. InStep'
      BY <1>0, <2>2, <2>3, <2>4 DEF InStep, Prefix
    <2>8. BatchWhole'
      BY <1>0, <2>2, <2>3, <2>4, <2>5
         DEF BatchWhole, Passes, Prefix, CriticalKept, Critical
    <2>9. CriticalKept' /\ CriticalDelivered' /\ SkipsFlagged'
      BY <1>0, <2>2, <2>3 DEF CriticalKept, CriticalDelivered, SkipsFlagged, Critical
    <2> QED
      BY <2>6, <2>7, <2>8, <2>9 DEF ChannelInv
  <1>7. CASE LookAtFrames
    <2>1. /\ reader.on /\ reader.gap = 0 /\ ~GapUntold
          /\ reader' = [reader EXCEPT !.batch = {n \in frames : n > reader.cursor},
                                      !.last = Finished]
          /\ UNCHANGED <<log, frames, producer, turn, grace, pruned, got, seen, readers>>
      BY <1>7 DEF LookAtFrames, Given
    <2>2. /\ reader'.on /\ reader'.gap = 0 /\ reader'.gapSent = reader.gapSent
          /\ reader'.batch = {n \in frames : n > reader.cursor}
          /\ reader'.cursor = reader.cursor /\ reader'.requested = reader.requested
      BY <1>0, <2>1 DEF TypeOK, Readers
    <2>3. reader.gapSent \/ \A n \in DOMAIN log : n > reader.cursor => n \in frames
      BY <1>0, <2>1 DEF GapUntold, Evicted
    <2>4. Finished \in BOOLEAN
      BY DEF Finished
    <2>5. TypeOK'
      BY <1>0, <2>1, <2>4 DEF TypeOK, Readers
    <2>6. InStep'
      BY <1>0, <2>1, <2>2 DEF InStep
    <2>7. BatchWhole'
      BY <1>0, <2>1, <2>2, <2>3 DEF BatchWhole, Passes, CriticalKept, Critical
    <2>8. CriticalKept' /\ CriticalDelivered' /\ SkipsFlagged'
      BY <1>0, <2>1, <2>2 DEF CriticalKept, CriticalDelivered, SkipsFlagged, Critical
    <2> QED
      BY <2>5, <2>6, <2>7, <2>8 DEF ChannelInv
  <1>8. CASE Yield
    <2>1. PICK n \in reader.batch :
             /\ \A k \in reader.batch : n <= k
             /\ reader' = [reader EXCEPT !.cursor = n, !.batch = @ \ {n}]
             /\ got' = got \cup {n}
             /\ seen' = n
      BY <1>8 DEF Yield
    <2>2. reader.on /\ UNCHANGED <<log, frames, producer, turn, grace, pruned, readers>>
      BY <1>8 DEF Yield
    <2>3. /\ reader'.on /\ reader'.gap = reader.gap /\ reader'.gapSent = reader.gapSent
          /\ reader'.batch = reader.batch \ {n} /\ reader'.cursor = n
          /\ reader'.requested = reader.requested
      BY <1>0, <2>1, <2>2 DEF TypeOK, Readers
    <2>4. n \in 1 .. Len(log) /\ n > seen /\ reader.cursor = seen
      BY <2>1, <2>2, YieldPasses
    <2>5. \A k \in 1 .. n : k <= seen \/ k = n \/ (~Critical(log, k) /\ reader.gapSent)
      BY <2>1, <2>2, YieldPasses
    <2>12. DOMAIN log' = DOMAIN log /\ n \in Nat
      BY <2>2, <2>4
    <2>11. reader' \in Readers'
      BY <1>0, <2>1, <2>12 DEF TypeOK, Readers
    <2>6. TypeOK'
      BY <1>0, <2>1, <2>2, <2>4, <2>11 DEF TypeOK
    <2>7. InStep'
      BY <1>0, <2>1, <2>2, <2>3, <2>4 DEF InStep, TypeOK, Readers
    <2>8. BatchWhole'
      BY <1>0, <2>1, <2>2, <2>3, <2>4 DEF BatchWhole, Passes, TypeOK, Readers
    <2>9. CriticalKept' /\ CriticalDelivered'
      BY <1>0, <2>1, <2>2, <2>4, <2>5 DEF CriticalKept, CriticalDelivered, Critical, TypeOK, Readers
    <2>10. SkipsFlagged'
      BY <1>0, <2>1, <2>2, <2>3, <2>4, <2>5 DEF SkipsFlagged, TypeOK, Readers
    <2> QED
      BY <2>6, <2>7, <2>8, <2>9, <2>10 DEF ChannelInv
  <1>9. CASE YieldGap
    <2>1. /\ reader.on /\ reader.batch = {} /\ reader.gap # 0
          /\ seen' = IF reader.gap > seen THEN reader.gap ELSE seen
          /\ reader' = [reader EXCEPT !.cursor = seen', !.gap = 0]
          /\ UNCHANGED <<log, frames, producer, turn, grace, pruned, got, readers>>
      BY <1>9 DEF YieldGap
    <2>2. /\ reader'.on /\ reader'.gap = 0 /\ reader'.gapSent = reader.gapSent
          /\ reader'.batch = {} /\ reader'.cursor = seen'
          /\ reader'.requested = reader.requested /\ reader'.last = reader.last
      BY <1>0, <2>1 DEF TypeOK, Readers
    <2>3. reader.gapSent /\ reader.cursor = seen /\ seen' \in 0 .. Len(log)
      BY <1>0, <2>1, GapPasses DEF TypeOK
    <2>4. \A k \in 1 .. seen' : k <= seen \/ ~Critical(log, k)
      BY <1>0, <2>1, GapPasses DEF TypeOK
    <2>5. TypeOK'
      BY <1>0, <2>1, <2>3 DEF TypeOK, Readers
    <2>6. InStep' /\ BatchWhole'
      BY <1>0, <2>1, <2>2, <2>3 DEF InStep, BatchWhole, Passes, TypeOK, Readers
    <2>7. CriticalKept' /\ CriticalDelivered' /\ SkipsFlagged'
      BY <1>0, <2>1, <2>2, <2>3, <2>4
         DEF CriticalKept, CriticalDelivered, SkipsFlagged, Critical, TypeOK, Readers
    <2> QED
      BY <2>5, <2>6, <2>7 DEF ChannelInv
  <1>10. CASE UNCHANGED vars
    BY <1>0, <1>10 DEF ChannelInv, vars, TypeOK, Readers, CriticalKept, InStep, BatchWhole,
                       Passes, CriticalDelivered, SkipsFlagged, Critical
  <1> QED
    BY <1>1, <1>2, <1>3, <1>4, <1>5, <1>6, <1>7, <1>8, <1>9, <1>10
       DEF Next, Write, Consume

LEMMA ChannelInductive == Spec => []ChannelInv
  BY ChannelInvInit, ChannelInvNext, PTL DEF Spec

\* Every variable of the channel keeps its type, and the client is never told
\* of an event that does not exist.
THEOREM ChannelTyped == Spec => []TypeOK
  BY ChannelInductive, PTL DEF ChannelInv

\* A client is never past a critical event that it did not receive, for any
\* budgets and any number of reconnections.
THEOREM CriticalReachesClient == Spec => []CriticalDelivered
  BY ChannelInductive, PTL DEF ChannelInv

\* A connection skips nothing before its gap event.
THEOREM NoSilentSkip == Spec => []SkipsFlagged
  BY ChannelInductive, PTL DEF ChannelInv
-----------------------------------------------------------------------------
(* The feed of the client *)

\* An append is the turn going on.
LEMMA AppendPublishes ==
  ASSUME TypeOK, CriticalKept, NEW kind \in {"data", "critical"}, Appended(kind),
         UNCHANGED <<reader, got, seen>>
  PROVE  Feed!Publish
  <1>1. Len(log') > Len(log) /\ \A n \in DOMAIN log : log'[n] = log[n]
    BY AppendKeepsCritical
  <1>2. DOMAIN log = 1 .. Len(log)
    BY DEF TypeOK
  <1> QED
    BY <1>1, <1>2 DEF Feed!Publish

LEMMA FeedStep == ChannelInv /\ [Next]_vars => [Feed!Next]_(Feed!feed)
  <1> SUFFICES ASSUME ChannelInv, [Next]_vars PROVE [Feed!Next]_(Feed!feed)
    OBVIOUS
  <1> USE DEF Feed!feed
  <1>0. TypeOK /\ CriticalKept /\ Len(log) \in Nat /\ seen \in 0 .. Len(log)
    BY DEF ChannelInv, TypeOK
  <1>1. ASSUME NEW kind \in {"data", "critical"}, Produce(kind)
        PROVE  Feed!Next
    BY <1>0, <1>1, AppendPublishes DEF Produce, Feed!Next
  <1>2. CASE ProducerRaises
    BY <1>0, <1>2, AppendPublishes DEF ProducerRaises, Feed!Next
  <1>3. CASE AbortReturns \/ ProducerEnds \/ Prune \/ GraceExpires
    BY <1>3 DEF AbortReturns, ProducerEnds, Prune, GraceExpires
  <1>4. CASE Attach \/ Detach
    <2>1. NoReader.gapSent = FALSE
      BY DEF NoReader
    <2>2. ASSUME Attach PROVE reader'.gapSent = FALSE /\ UNCHANGED <<log, seen, got>>
      <3>1. reader' = [on |-> TRUE, cursor |-> seen, requested |-> seen,
                       gapSent |-> FALSE, batch |-> {}, gap |-> 0, last |-> FALSE]
        BY <2>2 DEF Attach, NoReader
      <3>2. reader'.gapSent = FALSE
        BY <3>1
      <3> QED
        BY <2>2, <3>2 DEF Attach
    <2>3. ASSUME Detach PROVE reader'.gapSent = FALSE /\ UNCHANGED <<log, seen, got>>
      BY <2>1, <2>3 DEF Detach
    <2> QED
      BY <1>4, <2>2, <2>3 DEF Feed!Next, Feed!Reconnect
  <1>5. CASE LookAtGap
    <2>1. reader'.gapSent = TRUE /\ UNCHANGED <<log, seen, got>>
      BY <1>0, <1>5 DEF LookAtGap, TypeOK, Readers
    <2> QED
      BY <2>1 DEF Feed!Next, Feed!Promise
  <1>6. CASE LookAtFrames
    BY <1>0, <1>6 DEF LookAtFrames, TypeOK, Readers
  <1>7. CASE Yield
    <2>1. PICK n \in reader.batch :
             /\ \A k \in reader.batch : n <= k
             /\ reader' = [reader EXCEPT !.cursor = n, !.batch = @ \ {n}]
             /\ got' = got \cup {n}
             /\ seen' = n
      BY <1>7 DEF Yield
    <2>2. reader.on /\ log' = log /\ reader'.gapSent = reader.gapSent
      BY <1>0, <1>7, <2>1 DEF Yield, TypeOK, Readers
    <2>3. n \in 1 .. Len(log) /\ n > seen
      BY <2>1, <2>2, YieldPasses
    <2>4. \A k \in 1 .. n : k <= seen \/ k = n \/ (~Critical(log, k) /\ reader.gapSent)
      BY <2>1, <2>2, YieldPasses
    <2>5. \A k \in seen + 1 .. n - 1 : ~Critical(log, k) /\ reader.gapSent
      BY <1>0, <2>3, <2>4
    <2>6. Feed!MaySkip(seen + 1 .. n - 1)
      BY <2>5 DEF Feed!MaySkip, Feed!Critical, Critical
    <2> QED
      BY <2>1, <2>2, <2>3, <2>6 DEF Feed!Receive, Feed!Next
  <1>8. CASE YieldGap
    <2>1. /\ reader.on /\ reader.batch = {} /\ reader.gap # 0
          /\ seen' = IF reader.gap > seen THEN reader.gap ELSE seen
          /\ UNCHANGED <<log, got>> /\ reader'.gapSent = reader.gapSent
      BY <1>0, <1>8 DEF YieldGap, TypeOK, Readers
    <2>2. reader.gapSent /\ reader.gap \in 1 .. Len(log)
      BY <2>1, GapPasses
    <2>3. \A k \in 1 .. reader.gap : k <= seen \/ ~Critical(log, k)
      BY <2>1, GapPasses
    <2>4. CASE reader.gap > seen
      <3>1. \A k \in seen + 1 .. reader.gap : ~Critical(log, k)
        BY <1>0, <2>2, <2>3
      <3>2. Feed!MaySkip(seen + 1 .. reader.gap)
        BY <2>2, <3>1 DEF Feed!MaySkip, Feed!Critical, Critical
      <3> QED
        BY <2>1, <2>2, <2>4, <3>2 DEF Feed!Jump, Feed!Next
    <2>5. CASE ~(reader.gap > seen)
      BY <2>1, <2>5
    <2> QED
      BY <2>4, <2>5
  <1>9. CASE UNCHANGED vars
    BY <1>9 DEF vars
  <1> QED
    BY <1>1, <1>2, <1>3, <1>4, <1>5, <1>6, <1>7, <1>8, <1>9 DEF Next, Write, Consume

\* For any budgets, any turn and any number of reconnections: the client gets
\* the events in their order and none twice, no critical event is left out, and
\* other events only by a connection with a gap event (events, _append).
THEOREM ChannelImplementsFeed == Spec => ImplementsFeed
  <1>1. ASSUME Init PROVE Feed!Init
    <2>1. reader = [on |-> TRUE, cursor |-> 0, requested |-> 0, gapSent |-> FALSE,
                    batch |-> {}, gap |-> 0, last |-> FALSE]
      BY <1>1 DEF Init, NoReader
    <2> QED
      BY <1>1, <2>1 DEF Init, Feed!Init
  <1>2. ChannelInv /\ [Next]_vars => [Feed!Next]_(Feed!feed)
    BY FeedStep
  <1> QED
    BY <1>1, <1>2, ChannelInductive, PTL DEF Spec, ImplementsFeed, Feed!Spec
-----------------------------------------------------------------------------
(* What liveness rests on *)

\* A turn without a client is about to end: its grace task is asleep, or it
\* has been aborted, or its producer is done with it (events, _expire_grace).
TurnAttended == ~reader.on => grace \/ Finished \/ turn = "aborted"

LEMMA AttendedInit == Init => TurnAttended
  <1> SUFFICES ASSUME Init PROVE reader.on
    BY DEF TurnAttended
  <1>1. reader = [on |-> TRUE, cursor |-> 0, requested |-> 0, gapSent |-> FALSE,
                  batch |-> {}, gap |-> 0, last |-> FALSE]
    BY DEF Init, NoReader
  <1> QED
    BY <1>1

LEMMA AttendedNext == TypeOK /\ TurnAttended /\ [Next]_vars => TurnAttended'
  <1> SUFFICES ASSUME TypeOK, TurnAttended, [Next]_vars PROVE TurnAttended'
    OBVIOUS
  <1> USE DEF TurnAttended, Finished
  <1>1. ASSUME NEW kind \in {"data", "critical"}, Produce(kind)
        PROVE  TurnAttended'
    BY <1>1 DEF Produce
  <1>2. CASE AbortReturns \/ ProducerEnds \/ ProducerRaises \/ Prune
    BY <1>2 DEF AbortReturns, ProducerEnds, ProducerRaises, Prune
  <1>3. CASE Attach
    <2>1. reader' = [on |-> TRUE, cursor |-> seen, requested |-> seen,
                     gapSent |-> FALSE, batch |-> {}, gap |-> 0, last |-> FALSE]
      BY <1>3 DEF Attach, NoReader
    <2>2. reader'.on
      BY <2>1
    <2> QED
      BY <2>2
  <1>4. CASE LookAtGap \/ LookAtFrames \/ Yield \/ YieldGap
    <2>1. reader.on /\ reader'.on
      BY <1>4 DEF LookAtGap, LookAtFrames, Yield, YieldGap, TypeOK, Readers
    <2> QED
      BY <2>1
  <1>5. CASE Detach
    BY <1>5 DEF Detach, GraceDue
  <1>6. CASE GraceExpires
    BY <1>6 DEF GraceExpires
  <1>7. CASE UNCHANGED vars
    BY <1>7 DEF vars
  <1> QED
    BY <1>1, <1>2, <1>3, <1>4, <1>5, <1>6, <1>7 DEF Next, Write, Consume

\* No turn is left running for a client that has gone.
THEOREM AbandonedTurnsAttended == Spec => []TurnAttended
  BY AttendedInit, AttendedNext, ChannelTyped, PTL DEF Spec

\* A consumer that has looked at a finished turn holds all that is left of it,
\* and a gap event is ahead of the critical events in front of it.
LookInv ==
    /\ reader.last => reader.on /\ Finished /\ reader.gap = 0
    /\ reader.last => \A n \in frames : n > reader.cursor => n \in reader.batch
    /\ reader.gap # 0 => /\ reader.gap > reader.cursor
                         /\ \A n \in reader.batch : n < reader.gap

LEMMA LookInit == Init => LookInv
  <1> SUFFICES ASSUME Init PROVE LookInv
    OBVIOUS
  <1>1. reader = [on |-> TRUE, cursor |-> 0, requested |-> 0, gapSent |-> FALSE,
                  batch |-> {}, gap |-> 0, last |-> FALSE]
    BY DEF Init, NoReader
  <1> QED
    BY <1>1 DEF LookInv

LEMMA LookNext == ChannelInv /\ LookInv /\ [Next]_vars => LookInv'
  <1> SUFFICES ASSUME ChannelInv, LookInv, [Next]_vars PROVE LookInv'
    OBVIOUS
  <1>0. TypeOK /\ InStep /\ Len(log) \in Nat /\ DOMAIN log = 1 .. Len(log)
    BY DEF ChannelInv, TypeOK
  <1>1. ASSUME NEW kind \in {"data", "critical"}, Produce(kind)
        PROVE  LookInv'
    BY <1>1 DEF Produce, LookInv, Finished
  <1>2. CASE ProducerRaises
    BY <1>2 DEF ProducerRaises, LookInv, Finished
  <1>3. CASE AbortReturns \/ ProducerEnds \/ Prune \/ GraceExpires
    BY <1>3 DEF AbortReturns, ProducerEnds, Prune, GraceExpires, LookInv, Finished
  <1>4. CASE Attach
    <2>1. reader' = [on |-> TRUE, cursor |-> seen, requested |-> seen,
                     gapSent |-> FALSE, batch |-> {}, gap |-> 0, last |-> FALSE]
      BY <1>4 DEF Attach, NoReader
    <2> QED
      BY <2>1 DEF LookInv
  <1>5. CASE Detach
    BY <1>5 DEF Detach, NoReader, LookInv
  <1>6. CASE LookAtGap
    <2>1. PICK end \in Evicted :
             /\ \A e \in Evicted : e <= end
             /\ reader' = [reader EXCEPT !.gapSent = TRUE, !.gap = end,
                                         !.batch = Prefix(end)]
      BY <1>6 DEF LookAtGap
    <2>2. /\ reader'.gap = end /\ reader'.batch = Prefix(end)
          /\ reader'.cursor = reader.cursor /\ ~reader'.last
      BY <1>0, <1>6, <2>1 DEF LookAtGap, TypeOK, Readers
    <2>3. end \in Nat /\ end \notin frames /\ reader.cursor \in Nat
      BY <1>0, <2>1 DEF Evicted, TypeOK, Readers
    <2>4. end > reader.cursor
      <3>1. PICK e \in Evicted : e > reader.cursor
        BY <1>6 DEF LookAtGap, GapUntold
      <3>2. e \in Nat /\ e <= end
        BY <1>0, <2>1 DEF Evicted
      <3> QED
        BY <2>3, <3>1, <3>2
    <2>5. \A n \in Prefix(end) : n < end
      BY <1>0, <2>3 DEF Prefix, TypeOK
    <2> QED
      BY <2>2, <2>4, <2>5 DEF LookInv
  <1>7. CASE LookAtFrames
    <2>1. /\ reader.on /\ reader.gap = 0
          /\ reader' = [reader EXCEPT !.batch = {n \in frames : n > reader.cursor},
                                      !.last = Finished]
          /\ UNCHANGED <<frames, producer>>
      BY <1>7 DEF LookAtFrames, Given
    <2>2. /\ reader'.on /\ reader'.gap = 0 /\ reader'.last = Finished
          /\ reader'.batch = {n \in frames : n > reader.cursor}
          /\ reader'.cursor = reader.cursor
      BY <1>0, <2>1 DEF TypeOK, Readers
    <2> QED
      BY <2>1, <2>2 DEF LookInv, Finished
  <1>8. CASE Yield
    <2>1. PICK n \in reader.batch :
             /\ \A k \in reader.batch : n <= k
             /\ reader' = [reader EXCEPT !.cursor = n, !.batch = @ \ {n}]
      BY <1>8 DEF Yield
    <2>2. /\ reader'.on /\ reader'.gap = reader.gap /\ reader'.last = reader.last
          /\ reader'.batch = reader.batch \ {n} /\ reader'.cursor = n
          /\ frames' = frames /\ producer' = producer
      BY <1>0, <1>8, <2>1 DEF Yield, TypeOK, Readers
    <2>3. n \in Nat /\ n > reader.cursor /\ reader.cursor \in Nat /\ reader.gap \in Nat
      BY <1>0, <2>1 DEF InStep, TypeOK, Readers
    <2>4. \A m \in frames : m \in Nat
      BY <1>0 DEF TypeOK
    <2> QED
      BY <2>1, <2>2, <2>3, <2>4 DEF LookInv, Finished
  <1>9. CASE YieldGap
    <2>1. reader'.gap = 0 /\ reader'.last = reader.last /\ ~reader.last
      BY <1>0, <1>9 DEF YieldGap, LookInv, TypeOK, Readers
    <2> QED
      BY <2>1 DEF LookInv
  <1>10. CASE UNCHANGED vars
    BY <1>10 DEF vars, LookInv, Finished
  <1> QED
    BY <1>1, <1>2, <1>3, <1>4, <1>5, <1>6, <1>7, <1>8, <1>9, <1>10
       DEF Next, Write, Consume

LEMMA LookInductive == Spec => []LookInv
  BY LookInit, LookNext, ChannelInductive, PTL DEF Spec
\* While the turn runs, its last event is kept and its critical events are
\* within their budget.
CriticalFrames == {e \in frames : Critical(log, e)}

EdgeInv ==
    /\ log # <<>> => Len(log) \in frames
    /\ producer = "reading" => Cardinality(CriticalFrames) <= ControlMax

\* The newest event is never the one to be evicted.
LEMMA NewestStays ==
  ASSUME ControlMax < ReplayMax, TypeOK, Cardinality(CriticalFrames) <= ControlMax,
         NEW events, events = Append(log, "data"),
         NEW all, all = frames \cup {Len(events)}
  PROVE  Len(events) \notin OverBudget(events, all)
  <1> DEFINE last == Len(events)
             data == {e \in all : ~Critical(events, e)}
             before == {e \in data : e < last}
             plain == {e \in frames : ~Critical(log, e)}
  <1> USE ChannelAssumption
  <1>1. /\ Len(log) \in Nat /\ last = Len(log) + 1 /\ DOMAIN log = 1 .. Len(log)
        /\ \A n \in DOMAIN log : events[n] = log[n]
        /\ events[last] = "data" /\ frames \subseteq 1 .. Len(log)
    BY DEF TypeOK
  <1>2. IsFiniteSet(frames)
    <2>1. IsFiniteSet(1 .. Len(log)) /\ frames \in SUBSET (1 .. Len(log))
      BY <1>1, FS_Interval
    <2> QED
      BY <2>1, FS_Subset
  <1>3. IsFiniteSet(plain) /\ IsFiniteSet(CriticalFrames)
    <2>1. plain \in SUBSET frames /\ CriticalFrames \in SUBSET frames
      BY DEF CriticalFrames
    <2> QED
      BY <1>2, <2>1, FS_Subset
  <1>4. frames = plain \cup CriticalFrames /\ plain \cap CriticalFrames = {}
    BY DEF CriticalFrames
  <1>5. Cardinality(plain) \in Nat /\ Cardinality(CriticalFrames) \in Nat
    BY <1>3, FS_CardinalityType
  <1>6. Cardinality({}) = 0
    BY FS_EmptySet
  <1>7. Cardinality(frames) = Cardinality(plain) + Cardinality(CriticalFrames)
    <2> HIDE DEF plain
    <2>1. Cardinality(plain \cup CriticalFrames) =
             Cardinality(plain) + Cardinality(CriticalFrames)
                - Cardinality(plain \cap CriticalFrames)
      BY <1>3, FS_Union
    <2>2. Cardinality(frames) = Cardinality(plain \cup CriticalFrames)
      BY <1>4
    <2>3. Cardinality(plain \cap CriticalFrames) = 0
      BY <1>4, <1>6
    <2> QED
      BY <1>5, <2>1, <2>2, <2>3
  <1>8. last \notin frames
    BY <1>1
  <1>9. Cardinality(all) = Cardinality(frames) + 1
    BY <1>2, <1>8, FS_AddElement
  <1>10. before = plain
    <2>1. \A e \in frames : e < last /\ (Critical(events, e) <=> Critical(log, e))
      BY <1>1 DEF Critical
    <2>2. ~(last < last)
      BY <1>1
    <2> HIDE DEF last
    <2>3. all = frames \cup {last}
      BY DEF last
    <2> QED
      BY <2>1, <2>2, <2>3
  <1>11. ~(Cardinality(before) + ReplayMax < Cardinality(all))
    <2> HIDE DEF before, plain
    <2>1. Cardinality(before) = Cardinality(plain)
      BY <1>10
    <2> QED
      BY <1>5, <1>7, <1>9, <2>1
  <1> QED
    BY <1>11 DEF OverBudget

LEMMA AppendEdge ==
  ASSUME ControlMax < ReplayMax, TypeOK, CriticalKept,
         Cardinality(CriticalFrames) <= ControlMax,
         NEW kind \in {"data", "critical"}, Appended(kind)
  PROVE  /\ Len(log') \in frames'
         /\ Len(log') <= Len(log) + 1 => (Cardinality(CriticalFrames) <= ControlMax)'
  <1> DEFINE events == Append(log, kind)
             all == frames \cup {Len(events)}
             kept == all \ OverBudget(events, all)
  <1> USE ChannelAssumption
  <1>1. /\ Len(log) \in Nat /\ Len(events) = Len(log) + 1 /\ DOMAIN events = 1 .. Len(events)
        /\ events \in Seq({"data", "critical", "overflow"})
        /\ events[Len(events)] = kind /\ all \subseteq DOMAIN events
    BY DEF TypeOK
  <1>2. Len(events) \in kept
    <2>1. CASE kind = "data"
      BY <2>1, NewestStays
    <2>2. CASE kind = "critical"
      BY <1>1, <2>2 DEF OverBudget, Critical
    <2> QED
      BY <2>1, <2>2
  <1>3. CASE ~ControlSpent(events, kept)
    <2>1. log' = events /\ frames' = kept
      BY <1>3 DEF Appended
    <2>2. {e \in kept : Critical(events, e)} \in SUBSET (1 .. Len(events))
      BY <1>1
    <2>7. IsFiniteSet(1 .. Len(events))
      BY <1>1, FS_Interval
    <2>3. IsFiniteSet({e \in kept : Critical(events, e)})
      BY <2>2, <2>7, FS_Subset
    <2>4. Cardinality({e \in kept : Critical(events, e)}) \in Nat
      BY <2>3, FS_CardinalityType
    <2>5. Cardinality({e \in kept : Critical(events, e)}) <= ControlMax
      BY <1>3, <2>4 DEF ControlSpent
    <2>6. CriticalFrames' = {e \in kept : Critical(events, e)}
      BY <2>1 DEF CriticalFrames, Critical
    <2> QED
      BY <1>2, <2>1, <2>5, <2>6
  <1>4. CASE ControlSpent(events, kept)
    <2>1. /\ log' = Append(events, "overflow")
          /\ frames' = (kept \ Leading(events, kept)) \cup {Len(events) + 1}
      BY <1>4 DEF Appended, OverflowSequence
    <2> HIDE DEF events, kept
    <2>2. Len(log') = Len(events) + 1
      BY <1>1, <2>1
    <2> QED
      BY <1>1, <2>1, <2>2
  <1> QED
    BY <1>3, <1>4

LEMMA EdgeNext ==
  ASSUME ControlMax < ReplayMax, ChannelInv, EdgeInv, [Next]_vars
  PROVE  EdgeInv'
  <1>0. TypeOK /\ CriticalKept /\ Len(log) \in Nat
    BY DEF ChannelInv, TypeOK
  <1>1. ASSUME NEW kind \in {"data", "critical"}, Produce(kind)
        PROVE  EdgeInv'
    <2>1. Appended(kind) /\ producer = "reading"
      BY <1>1 DEF Produce
    <2>2. /\ Len(log') \in frames'
          /\ Len(log') <= Len(log) + 1 => (Cardinality(CriticalFrames) <= ControlMax)'
      BY <1>0, <2>1, AppendEdge DEF EdgeInv
    <2>3. Len(log') \in Nat
      BY <1>0, <2>1, AppendKeepsCritical
    <2>4. producer' = "reading" => ~(Len(log') > Len(log) + 1)
      BY <1>1 DEF Produce, AfterAppend
    <2> QED
      BY <1>0, <2>2, <2>3, <2>4 DEF EdgeInv
  <1>2. CASE ProducerRaises
    <2>1. Appended("critical") /\ producer = "reading" /\ producer' = "done"
      BY <1>2 DEF ProducerRaises
    <2>2. Len(log') \in frames'
      BY <1>0, <2>1, AppendEdge DEF EdgeInv
    <2> QED
      BY <2>1, <2>2 DEF EdgeInv
  <1>3. CASE AbortReturns \/ ProducerEnds \/ Prune
    BY <1>3 DEF AbortReturns, ProducerEnds, Prune, EdgeInv, CriticalFrames, Critical
  <1>4. CASE Consume \/ UNCHANGED vars
    <2>1. UNCHANGED <<log, frames, producer>>
      BY <1>4 DEF Consume, Attach, LookAtGap, LookAtFrames, Yield, YieldGap, Detach,
                  GraceExpires, vars
    <2> QED
      BY <2>1 DEF EdgeInv, CriticalFrames, Critical
  <1> QED
    BY <1>1, <1>2, <1>3, <1>4 DEF Next, Write

\* A consumer that returns by itself has brought its client to the last event
\* of the turn, provided the critical events alone cannot fill the replay
\* buffer, as with the budgets the code has by default (events).
ReturnsComplete == reader.last /\ Given => seen = Len(log)

THEOREM ReturnIsComplete == ControlMax < ReplayMax => (Spec => []ReturnsComplete)
  <1> SUFFICES ASSUME ControlMax < ReplayMax PROVE Spec => []ReturnsComplete
    OBVIOUS
  <1>1. Init => EdgeInv
    <2> SUFFICES ASSUME Init PROVE EdgeInv
      OBVIOUS
    <2>1. CriticalFrames = {}
      BY DEF Init, CriticalFrames
    <2> QED
      BY <2>1, FS_EmptySet, ChannelAssumption DEF Init, EdgeInv
  <1>2. ChannelInv /\ EdgeInv /\ [Next]_vars => EdgeInv'
    BY EdgeNext
  <1>3. ChannelInv /\ LookInv /\ EdgeInv => ReturnsComplete
    <2> SUFFICES ASSUME ChannelInv, LookInv, EdgeInv, reader.last, Given
                 PROVE  seen = Len(log)
      BY DEF ReturnsComplete
    <2>1. TypeOK /\ InStep /\ reader.on /\ reader.batch = {} /\ reader.cursor = seen
      BY DEF ChannelInv, LookInv, Given, InStep
    <2>2. \A n \in frames : ~(n > seen)
      BY <2>1 DEF LookInv
    <2>3. Len(log) \in Nat /\ seen \in 0 .. Len(log)
      BY <2>1 DEF TypeOK
    <2>4. log = <<>> => Len(log) = 0
      OBVIOUS
    <2> QED
      BY <2>2, <2>3, <2>4 DEF EdgeInv
  <1> QED
    BY <1>1, <1>2, <1>3, ChannelInductive, LookInductive, PTL DEF Spec

\* Every step of a consumer on a finished turn brings it closer to its return:
\* it gets ahead, learns of the gap, or takes its last look (events).
ConsumerAdvances ==
    [][Finished /\ reader.on /\ reader'.on =>
          \/ reader' = reader
          \/ seen' > seen
          \/ seen' = seen /\ ~reader.gapSent /\ reader'.gapSent
          \/ /\ seen' = seen /\ reader'.gapSent = reader.gapSent
             /\ ~reader.last /\ reader'.last]_vars

THEOREM ConsumersAdvance == Spec => ConsumerAdvances
  <1> DEFINE Closer ==
               Finished /\ reader.on /\ reader'.on =>
                 \/ reader' = reader
                 \/ seen' > seen
                 \/ seen' = seen /\ ~reader.gapSent /\ reader'.gapSent
                 \/ /\ seen' = seen /\ reader'.gapSent = reader.gapSent
                    /\ ~reader.last /\ reader'.last
  <1>1. ASSUME ChannelInv, LookInv, Next PROVE Closer
    <2>0. TypeOK /\ InStep /\ LookInv
      BY <1>1 DEF ChannelInv
    <2>1. CASE Write \/ GraceExpires
      BY <2>1 DEF Write, Produce, AbortReturns, ProducerEnds, ProducerRaises, Prune, GraceExpires
    <2>2. CASE Attach
      BY <2>2 DEF Attach
    <2>3. CASE Detach
      BY <2>3 DEF Detach, NoReader
    <2>4. CASE LookAtGap
      BY <2>0, <2>4 DEF LookAtGap, GapUntold, TypeOK, Readers
    <2>5. CASE LookAtFrames
      BY <2>0, <2>5 DEF LookAtFrames, TypeOK, Readers
    <2>6. CASE Yield
      <3>1. PICK n \in reader.batch : seen' = n
        BY <2>6 DEF Yield
      <3> QED
        BY <2>0, <2>6, <3>1 DEF Yield, InStep
    <2>7. CASE YieldGap
      <3>1. reader.gap > seen
        BY <2>0, <2>7 DEF YieldGap, LookInv, InStep
      <3>2. seen' = reader.gap
        BY <2>7, <3>1 DEF YieldGap
      <3> QED
        BY <3>1, <3>2
    <2> QED
      BY <1>1, <2>1, <2>2, <2>3, <2>4, <2>5, <2>6, <2>7 DEF Next, Consume
  <1>2. ChannelInv /\ LookInv /\ [Next]_vars => [Closer]_vars
    BY <1>1
  <1> QED
    BY <1>2, ChannelInductive, LookInductive, PTL DEF Spec, ConsumerAdvances
=============================================================================
