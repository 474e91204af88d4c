------------------------ MODULE TelegramCarrierProofs ------------------------
(***************************************************************************)
(* Proofs about TelegramDelivery, continued: a recorded result that is     *)
(* neither sent nor refused has somebody in the process who will send it.  *)
(* This is the safety half of ResultSettles: what remains is that sends    *)
(* end, the clock runs and sleeping tasks wake up.                         *)
(***************************************************************************)
EXTENDS TelegramDeliveryProofs

-----------------------------------------------------------------------------
(* What is carried, and the invariant about what lies behind the next part *)

\* Only the first unsent part of a record has ever failed: what follows it was
\* not tried, and is due.
Untried(parts) ==
    \A i, j \in 1 .. NumParts : i < j /\ parts[i].status # "sent" => parts[j].due = "due"

\* So it is in every record, and in what the senders have read of it.
UntriedInv ==
    /\ \A e \in Entries : Recorded(e) => Untried(box[e])
    /\ \A e \in Entries, s \in Slots :
          worker[e][s].pc = "sending" => Untried(worker[e][s].seen)

\* Somebody will send the next part of the result, if there is one to be sent.
HasCarrier(e) ==
    \/ Given(e)
    \/ \E s \in Slots : worker[e][s].pc # "idle"
    \/ poll = "notes" /\ e \in todo

\* A notification has somebody whenever the process is up, the result of an
\* update as long as there was no restart.
Carried(e) == (IF e \in Notes THEN Up ELSE downs = 0) => HasCarrier(e)

\* Nothing of the record is left to be sent, or its next part was refused.
Settled(parts) == Unsent(parts) = {} \/ parts[SmallestOf(Unsent(parts))].due = "never"

\* Given in terms of the record alone.
LEMMA GivenSettled ==
  ASSUME NEW e
  PROVE  /\ Given(e) <=> (box[e] = <<>> \/ Settled(box[e]))
         /\ Given(e)' <=> (box'[e] = <<>> \/ Settled(box'[e]))
  BY DEF Given, Recorded, Sent, RetryAt, Settled

\* The next part of a record of which c parts are sent.
LEMMA SettledIs ==
  ASSUME NEW parts \in Parts, NEW c, Upto(parts, c)
  PROVE  /\ c = NumParts => Settled(parts)
         /\ c < NumParts /\ parts[c + 1].due = "never" => Settled(parts)
  <1>1. NumParts \in Nat /\ c \in 0 .. NumParts /\ DOMAIN parts = 1 .. NumParts
    BY TelegramAssumption DEF Upto, Parts
  <1>2. {k \in Unsent(parts) : k > 0} = Unsent(parts)
    BY <1>1 DEF Unsent
  <1>3. c = (IF c > 0 THEN c ELSE 0) /\ 0 \in 0 .. NumParts
    BY <1>1
  <1>4. /\ c = NumParts => Unsent(parts) = {}
        /\ c < NumParts => SmallestOf(Unsent(parts)) = c + 1
    BY <1>1, <1>2, <1>3, NextPart
  <1> QED
    BY <1>4 DEF Settled

\* A task of the table of retries is alive once it is scheduled.
LEMMA ScheduledWaits ==
  ASSUME NEW row \in [Slots -> Worker]
  PROVE  /\ Scheduled(row)["retry"].pc # "idle"
         /\ \A t \in Slots : row[t].pc # "idle" => Scheduled(row)[t].pc # "idle"
         /\ \A t \in Slots : Scheduled(row)[t].pc = "sending" => Scheduled(row)[t] = row[t]
  <1>1. "retry" \in Slots /\ Waiting.pc = "waiting"
    BY DEF Slots, Waiting, Idle
  <1> QED
    BY <1>1 DEF Scheduled

-----------------------------------------------------------------------------
(* What was not tried stays due *)

\* The calls of e become row and its record parts, of which nothing is tried
\* out of order.
Reads(e, row, parts) ==
    /\ worker' = [worker EXCEPT ![e] = row] /\ box' = [box EXCEPT ![e] = parts]
    /\ Untried(parts)
    /\ \A t \in Slots : row[t].pc = "sending" => row[t] = worker[e][t] \/ Untried(row[t].seen)

\* A call goes on, from what it has read to the next part.
LEMMA UntriedFrame ==
  ASSUME TypeOK, UntriedInv, NEW e \in Entries, NEW row, NEW parts, Reads(e, row, parts)
  PROVE  UntriedInv'
  <1>0. /\ worker' = [worker EXCEPT ![e] = row] /\ box' = [box EXCEPT ![e] = parts]
        /\ Untried(parts)
        /\ \A t \in Slots : row[t].pc = "sending" =>
              row[t] = worker[e][t] \/ Untried(row[t].seen)
    BY DEF Reads
  <1>1. /\ box'[e] = parts /\ worker'[e] = row
        /\ \A x \in Entries \ {e} : box'[x] = box[x] /\ worker'[x] = worker[x]
    BY <1>0 DEF TypeOK
  <1>2. ASSUME NEW x \in Entries, Recorded(x)' PROVE Untried(box'[x])
    BY <1>0, <1>1, <1>2 DEF UntriedInv, Recorded
  <1>3. ASSUME NEW x \in Entries, NEW t \in Slots, worker'[x][t].pc = "sending"
        PROVE  Untried(worker'[x][t].seen)
    <2>1. CASE x = e
      BY <1>0, <1>1, <1>3, <2>1 DEF UntriedInv
    <2>2. CASE x # e
      BY <1>1, <1>3, <2>2 DEF UntriedInv
    <2> QED
      BY <2>1, <2>2
  <1>4. /\ \A x \in Entries : (Recorded(x)' => Untried(box[x])')
        /\ \A x \in Entries, t \in Slots :
              (worker[x][t].pc = "sending")' => Untried(worker[x][t].seen)'
    BY <1>2, <1>3 DEF Untried
  <1> QED
    BY <1>4 DEF UntriedInv

\* What a call sends next it has read.
LEMMA ProceedReads ==
  ASSUME NEW old \in [Slots -> Worker], NEW s \in Slots, NEW seen \in Parts,
         NEW i \in 0 .. NumParts, NEW c, Upto(seen, c), NEW t \in Slots,
         Proceed(old, s, seen, i)[t].pc = "sending"
  PROVE  Proceed(old, s, seen, i)[t] = old[t] \/ Proceed(old, s, seen, i)[t].seen = seen
  <1> DEFINE row == Proceed(old, s, seen, i)
             m == IF c > i THEN c ELSE i
  <1>1. m \in 0 .. NumParts
    BY TelegramAssumption DEF Upto
  <1>2. /\ RowStep(old, row, s)
        /\ row[s].pc = "sending" => row[s].seen = seen
    <2> HIDE DEF row
    <2>1. row = Proceed(old, s, seen, i)
      BY DEF row
    <2> QED
      BY <1>1, <2>1, Proceeds
  <1>3. row[t].pc = "sending"
    OBVIOUS
  <1> HIDE DEF row
  <1>4. t = s \/ row[t] = old[t]
    BY <1>2, <1>3 DEF RowStep, Waiting, Idle
  <1> QED
    BY <1>2, <1>3, <1>4 DEF row

\* A record begins to be sent, or is sent again.
LEMMA UntriedBegins ==
  ASSUME TypeOK, UntriedInv, NEW e \in Entries, NEW s \in Slots, NEW parts \in Parts,
         NEW c, Upto(parts, c), Untried(parts), box' = [box EXCEPT ![e] = parts],
         worker' = [worker EXCEPT ![e] = Begin(@, s, parts)]
  PROVE  UntriedInv'
  <1> DEFINE row == Begin(worker[e], s, parts)
  <1>1. worker[e] \in [Slots -> Worker] /\ 0 \in 0 .. NumParts
    BY TelegramAssumption DEF TypeOK
  <1>2. row = Proceed(worker[e], s, parts, 0) /\ worker' = [worker EXCEPT ![e] = row]
    BY DEF Begin
  <1> HIDE DEF row
  <1>3. \A t \in Slots : row[t].pc = "sending" => row[t] = worker[e][t] \/ row[t].seen = parts
    BY <1>1, <1>2, ProceedReads
  <1>4. Reads(e, row, parts)
    BY <1>2, <1>3 DEF Reads
  <1> QED
    BY <1>4, UntriedFrame

\* A send ends: the next part that was read is sent, or nothing is.
LEMMA UntriedSends ==
  ASSUME TypeOK, SendInv, UntriedInv, NEW e \in Entries, NEW s \in Slots,
         NEW arrived \in BOOLEAN,
         SendOk(e, s) \/ SendRetryable(e, s, arrived) \/ SendRefused(e, s, arrived)
  PROVE  UntriedInv'
  <1> DEFINE w == worker[e][s]
             p == w.part
             stopped == [worker[e] EXCEPT ![s] = Idle]
  <1>1. /\ w.pc = "sending" /\ worker[e] \in [Slots -> Worker]
        /\ NumParts \in Nat /\ box \in [Entries -> {<<>>} \cup Parts]
    BY TelegramAssumption DEF SendOk, SendRetryable, SendRefused, TypeOK, Parts
  <1>2. Recorded(e) /\ box[e] \in Parts /\ w.seen \in Parts /\ p \in 1 .. NumParts
    BY <1>1, Sending
  <1>3. PICK c \in 0 .. NumParts, b \in 0 .. NumParts :
           Upto(w.seen, c) /\ Upto(box[e], b) /\ c < p /\ p <= b + 1
    BY <1>1, Sending
  <1>4. Untried(box[e]) /\ Untried(w.seen)
    BY <1>1, <1>2 DEF UntriedInv
  <1>5. CASE SendOk(e, s)
    <2> DEFINE row == Proceed(worker[e], s, w.seen, p)
               parts == [box[e] EXCEPT ![p].status = "sent"]
    <2>1. box' = [box EXCEPT ![e] = parts] /\ worker' = [worker EXCEPT ![e] = row]
      BY <1>5 DEF SendOk, PartSent
    <2>2. \A t \in Slots : row[t].pc = "sending" => row[t] = worker[e][t] \/ row[t].seen = w.seen
      <3>1. p \in 0 .. NumParts
        BY <1>1, <1>2
      <3> HIDE DEF p, w
      <3> QED
        BY <1>1, <1>2, <1>3, <3>1, ProceedReads
    <2>3. Untried(parts)
      <3>1. \A i \in 1 .. NumParts : /\ parts[i].due = box[e][i].due
                                     /\ parts[i].status # "sent" => box[e][i].status # "sent"
        <4> HIDE DEF p
        <4>1. box[e] \in [1 .. NumParts -> Part] /\ p \in 1 .. NumParts
          BY <1>2 DEF Parts
        <4>2. /\ box[e][p] \in Part /\ parts[p] = [box[e][p] EXCEPT !.status = "sent"]
              /\ \A i \in (1 .. NumParts) \ {p} : parts[i] = box[e][i]
          BY <4>1
        <4>3. parts[p].status = "sent" /\ parts[p].due = box[e][p].due
          BY <4>2 DEF Part
        <4> HIDE DEF parts
        <4> QED
          BY <4>1, <4>2, <4>3
      <3> HIDE DEF parts, p
      <3> QED
        BY <1>4, <3>1 DEF Untried
    <2> HIDE DEF row, parts, p, w
    <2>4. Reads(e, row, parts)
      BY <1>4, <2>1, <2>2, <2>3 DEF Reads, w
    <2> QED
      BY <2>4, UntriedFrame
  <1>6. CASE SendRetryable(e, s, arrived) \/ SendRefused(e, s, arrived)
    <2>1. PICK due \in Dues : box' = PartFailed(e, p, due)
      BY <1>6 DEF SendRetryable, SendRefused, Dues
    <2>2. PICK row \in {stopped, Scheduled(stopped)} : worker' = [worker EXCEPT ![e] = row]
      BY <1>6 DEF SendRetryable, SendRefused
    <2>3. \A t \in Slots : row[t].pc = "sending" => row[t] = worker[e][t]
      <3>1. Idle \in Worker /\ Idle.pc = "idle"
        BY <1>1 DEF Idle, Worker
      <3>2. /\ stopped \in [Slots -> Worker] /\ stopped[s].pc = "idle"
            /\ \A t \in Slots \ {s} : stopped[t] = worker[e][t]
        BY <1>1, <3>1
      <3> HIDE DEF stopped
      <3> QED
        BY <2>2, <3>2, ScheduledWaits
    <2>4. CASE box[e][p].status = "sent"
      <3>1. box' = [box EXCEPT ![e] = box[e]]
        BY <1>1, <2>1, <2>4 DEF PartFailed
      <3> HIDE DEF p, w
      <3>2. Reads(e, row, box[e])
        BY <1>4, <2>2, <2>3, <3>1 DEF Reads
      <3> QED
        BY <3>2, UntriedFrame
    <2>5. CASE box[e][p].status # "sent"
      <3> DEFINE failed == [status |-> "failed", due |-> due]
                 parts == [box[e] EXCEPT ![p] = failed]
      <3>1. box' = [box EXCEPT ![e] = parts]
        BY <2>1, <2>5 DEF PartFailed
      <3>2. p = b + 1
        BY <1>1, <1>2, <1>3, <2>5 DEF Upto
      <3>3. /\ parts[p].status # "sent"
            /\ \A i \in (1 .. NumParts) \ {p} : parts[i] = box[e][i]
        BY <1>2 DEF Parts
      <3>4. Untried(parts)
        <4> SUFFICES ASSUME NEW i \in 1 .. NumParts, NEW j \in 1 .. NumParts, i < j,
                            parts[i].status # "sent"
                     PROVE  parts[j].due = "due"
          BY DEF Untried
        <4> HIDE DEF parts, p, w
        <4>1. box[e][i].status # "sent"
          BY <2>5, <3>3
        <4>2. i > b
          BY <1>1, <1>3, <4>1 DEF Upto
        <4>3. j # p
          BY <1>1, <3>2, <4>2
        <4> QED
          BY <1>4, <3>3, <4>1, <4>3 DEF Untried
      <3> HIDE DEF parts, p, w
      <3>5. Reads(e, row, parts)
        BY <2>2, <2>3, <3>1, <3>4 DEF Reads
      <3> QED
        BY <3>5, UntriedFrame
    <2> QED
      BY <2>4, <2>5
  <1> QED
    BY <1>5, <1>6

\* Time makes parts due, in the record and in what was read of it.
LEMMA UntriedElapses ==
  ASSUME TypeOK, SendInv, UntriedInv, NEW e \in Entries, NEW p \in 1 .. NumParts, Elapse(e, p)
  PROVE  UntriedInv'
  <1> DEFINE Later(old, new) ==
               \A i \in 1 .. NumParts : /\ new[i].status = old[i].status
                                        /\ new[i].due = old[i].due \/ new[i].due = "due"
  <1>1. \A old, new : Later(old, new) /\ Untried(old) => Untried(new)
    BY DEF Untried
  <1>2. /\ Recorded(e) /\ box' = [box EXCEPT ![e][p].due = "due"]
        /\ worker' = [worker EXCEPT ![e] = [s \in Slots |->
                        IF @[s].pc = "sending" /\ @[s].seen[p].due = "later"
                        THEN [@[s] EXCEPT !.seen[p].due = "due"] ELSE @[s]]]
    BY DEF Elapse
  <1>3. \A q \in Parts : Later(q, [q EXCEPT ![p].due = "due"])
    <2> SUFFICES ASSUME NEW q \in Parts PROVE Later(q, [q EXCEPT ![p].due = "due"])
      OBVIOUS
    <2>1. q \in [1 .. NumParts -> Part] /\ q[p] \in Part
      BY DEF Parts
    <2> DEFINE part == [q[p] EXCEPT !.due = "due"]
    <2>2. part.status = q[p].status /\ part.due = "due"
      BY <2>1 DEF Part
    <2>3. [q EXCEPT ![p].due = "due"] = [q EXCEPT ![p] = part]
      OBVIOUS
    <2> HIDE DEF part
    <2> QED
      BY <2>1, <2>2, <2>3
  <1> HIDE DEF Later
  <1>4. box[e] \in Parts /\ \A x \in Entries \ {e} : box'[x] = box[x]
    BY <1>2 DEF TypeOK, Recorded, Parts
  <1>5. box'[e] = [box[e] EXCEPT ![p].due = "due"]
    BY <1>2 DEF TypeOK
  <1>6. ASSUME NEW x \in Entries, Recorded(x)' PROVE Untried(box'[x])
    <2>1. CASE x = e
      <3>1. Later(box[e], box'[e]) /\ Untried(box[e])
        BY <1>2, <1>3, <1>4, <1>5 DEF UntriedInv
      <3> QED
        BY <1>1, <2>1, <3>1
    <2>2. CASE x # e
      BY <1>4, <1>6, <2>2 DEF UntriedInv, Recorded
    <2> QED
      BY <2>1, <2>2
  <1>7. ASSUME NEW x \in Entries, NEW t \in Slots, worker'[x][t].pc = "sending"
        PROVE  Untried(worker'[x][t].seen)
    <2>1. CASE x = e
      <3> DEFINE w == worker[e][t]
                 w2 == [w EXCEPT !.seen[p].due = "due"]
      <3>1. worker'[e][t] = IF w.pc = "sending" /\ w.seen[p].due = "later" THEN w2 ELSE w
        BY <1>2 DEF TypeOK
      <3>2. CASE w.pc = "sending" /\ w.seen[p].due = "later"
        <4>1. w.seen \in Parts /\ Untried(w.seen) /\ w \in Worker
          BY <3>2, Sending DEF UntriedInv, TypeOK
        <4>2. w2.seen = [w.seen EXCEPT ![p].due = "due"]
          BY <4>1 DEF Worker
        <4>3. Later(w.seen, w2.seen)
          BY <1>3, <4>1, <4>2
        <4> HIDE DEF w, w2
        <4> QED
          BY <1>1, <2>1, <3>1, <3>2, <4>1, <4>3
      <3>3. CASE ~(w.pc = "sending" /\ w.seen[p].due = "later")
        <4>1. worker'[x][t] = worker[x][t]
          BY <2>1, <3>1, <3>3
        <4> QED
          BY <1>7, <4>1 DEF UntriedInv
      <3> QED
        BY <3>2, <3>3
    <2>2. CASE x # e
      <3>1. worker'[x] = worker[x]
        BY <1>2, <2>2 DEF TypeOK
      <3> QED
        BY <1>7, <3>1 DEF UntriedInv
    <2> QED
      BY <2>1, <2>2
  <1>8. /\ \A x \in Entries : (Recorded(x)' => Untried(box[x])')
        /\ \A x \in Entries, t \in Slots :
              (worker[x][t].pc = "sending")' => Untried(worker[x][t].seen)'
    BY <1>6, <1>7 DEF Untried
  <1> QED
    BY <1>8 DEF UntriedInv

\* Records and those who send go on as they were.
LEMMA UntriedStays ==
  ASSUME UntriedInv, box' = box,
         \A e \in Entries, s \in Slots :
            worker'[e][s].pc = "sending" => worker'[e][s] = worker[e][s]
  PROVE  UntriedInv'
  <1>1. /\ \A x \in Entries : (Recorded(x)' => Untried(box[x])')
        /\ \A x \in Entries, t \in Slots :
              (worker[x][t].pc = "sending")' => Untried(worker[x][t].seen)'
    BY DEF UntriedInv, Untried, Recorded
  <1> QED
    BY <1>1 DEF UntriedInv

\* A record that was there before is sent.
LEMMA UntriedResumes ==
  ASSUME TypeOK, SendInv, UntriedInv, NEW e \in Entries, NEW s \in Slots, Recorded(e),
         box' = box, worker' = [worker EXCEPT ![e] = Begin(@, s, box[e])]
  PROVE  UntriedInv'
  <1>1. PICK c \in 0 .. NumParts : box[e] \in Parts /\ Upto(box[e], c)
    BY RecordUpto
  <1>2. Untried(box[e]) /\ box' = [box EXCEPT ![e] = box[e]]
    BY DEF UntriedInv, TypeOK
  <1> QED
    BY <1>1, <1>2, UntriedBegins

\* A new record is sent.
LEMMA UntriedRecords ==
  ASSUME TypeOK, UntriedInv, NEW e \in Entries, NEW s \in Slots, ~Recorded(e),
         box' = Prepared(e), worker' = [worker EXCEPT ![e] = Begin(@, s, NewRecord)]
  PROVE  UntriedInv'
  <1>1. NewRecord \in Parts /\ Upto(NewRecord, 0)
    BY NewTyped
  <1>2. Untried(NewRecord)
    BY DEF Untried, NewRecord
  <1>3. box' = [box EXCEPT ![e] = NewRecord]
    BY DEF Prepared
  <1> QED
    BY <1>1, <1>2, <1>3, UntriedBegins

\* A notification is scheduled for later.
LEMMA UntriedSchedules ==
  ASSUME TypeOK, UntriedInv, NEW e \in Entries,
         box' = box, worker' = [worker EXCEPT ![e] = Scheduled(@)]
  PROVE  UntriedInv'
  <1>1. /\ worker[e] \in [Slots -> Worker] /\ worker'[e] = Scheduled(worker[e])
        /\ \A x \in Entries \ {e} : worker'[x] = worker[x]
    BY DEF TypeOK
  <1>2. \A x \in Entries, t \in Slots :
           worker'[x][t].pc = "sending" => worker'[x][t] = worker[x][t]
    BY <1>1, ScheduledWaits
  <1> QED
    BY <1>2, UntriedStays

\* Steps of what is neither a call nor a record.
LEMMA QuietSteps ==
  ASSUME Acknowledge \/ (\E last \in Updates : ReceiveBatch(last)) \/ Start \/ CloseUpdates
         \/ \E u \in Updates : \/ Handle(u) \/ Press(u) \/ Told(u) \/ RecoveryFails(u)
                               \/ \E status \in {"rejected", "failed"} : ExecRaises(u, status)
  PROVE  UNCHANGED <<box, worker, downs>>
  BY DEF Acknowledge, ReceiveBatch, Start, CloseUpdates, Handle, Press, Told, ExecRaises,
         RecoveryFails, telegram, tables, counters

\* Every step keeps what was not tried due.
LEMMA UntriedStep ==
  ASSUME DeliveryInv, UntriedInv, [Next]_vars
  PROVE  UntriedInv'
  <1>1. /\ TypeOK /\ SendInv /\ HandlerInv /\ TodoInv
        /\ Updates \subseteq Entries /\ Notes \subseteq Entries
        /\ Slots = {"direct", "replay", "poll", "retry"}
    BY DEF DeliveryInv, Entries, Slots
  <1>2. ASSUME NEW u \in Updates, NEW status, ExecEnds(u, status) PROVE UntriedInv'
    <2>1. /\ handler[u] = "exec" /\ box' = Prepared(u)
          /\ worker' = [worker EXCEPT ![u] = Begin(@, "direct", NewRecord)]
      BY <1>2 DEF ExecEnds
    <2>2. ~Recorded(u)
      BY <1>1, <2>1 DEF HandlerInv, HandlerOf, Closed, Open
    <2> QED
      BY <1>1, <2>1, <2>2, UntriedRecords
  <1>3. ASSUME NEW e \in Entries, Deliver(e) PROVE UntriedInv'
    <2>1. ASSUME NEW s \in Slots, Wake(e, s) PROVE UntriedInv'
      <3>1. /\ worker[e][s].pc = "waiting" /\ box' = box
            /\ worker' = [worker EXCEPT ![e] = Begin(@, s, box[e])]
        BY <2>1 DEF Wake, tables
      <3>2. Recorded(e)
        BY <1>1, <3>1 DEF SendInv, CellInv
      <3> QED
        BY <1>1, <3>1, <3>2, UntriedResumes
    <2>2. ASSUME NEW s \in Slots, NEW arrived \in BOOLEAN,
                 SendOk(e, s) \/ SendRetryable(e, s, arrived) \/ SendRefused(e, s, arrived)
          PROVE  UntriedInv'
      BY <1>1, <2>2, UntriedSends
    <2>3. ASSUME NEW p \in 1 .. NumParts, Elapse(e, p) PROVE UntriedInv'
      BY <1>1, <2>3, UntriedElapses
    <2>4. TRUE \in BOOLEAN
      OBVIOUS
    <2> QED
      BY <1>3, <2>1, <2>2, <2>3, <2>4 DEF Deliver
  <1>4. ASSUME NEW n \in Notes, Notify(n) \/ NotifyAgain(n) PROVE UntriedInv'
    <2>1. CASE Notify(n)
      BY <1>1, <2>1, UntriedRecords DEF Notify
    <2>2. CASE NotifyAgain(n)
      BY <1>1, <2>2, UntriedResumes DEF NotifyAgain, tables
    <2> QED
      BY <1>4, <2>1, <2>2
  <1>5. ASSUME NEW n \in Notes, RecoverNote(n) PROVE UntriedInv'
    <2>1. /\ box' = box /\ poll = "notes" /\ n \in todo
          /\ worker' = [worker EXCEPT ![n] =
                          IF Sent(n) THEN @
                          ELSE IF RetryAt(n) = "later" THEN Scheduled(@)
                          ELSE Begin(@, "poll", box[n])]
      BY <1>5 DEF RecoverNote, tables
    <2>2. Recorded(n)
      BY <1>1, <2>1 DEF TodoInv
    <2>3. CASE Sent(n)
      <3>1. worker' = worker
        BY <1>1, <2>1, <2>3 DEF TypeOK
      <3> QED
        BY <2>1, <3>1, UntriedStays
    <2>4. CASE ~Sent(n) /\ RetryAt(n) = "later"
      <3>1. worker' = [worker EXCEPT ![n] = Scheduled(@)]
        BY <2>1, <2>4
      <3> QED
        BY <1>1, <2>1, <3>1, UntriedSchedules
    <2>5. CASE ~Sent(n) /\ RetryAt(n) # "later"
      <3>1. worker' = [worker EXCEPT ![n] = Begin(@, "poll", box[n])]
        BY <2>1, <2>5
      <3> QED
        BY <1>1, <2>1, <2>2, <3>1, UntriedResumes
    <2> QED
      BY <2>3, <2>4, <2>5
  <1>6. ASSUME NEW u \in Updates, RecoverUpdate(u) PROVE UntriedInv'
    <2>1. /\ poll = "updates" /\ u \in todo /\ box' = Prepared(u)
          /\ worker' = [worker EXCEPT ![u] = Begin(@, "poll", NewRecord)]
      BY <1>6 DEF RecoverUpdate
    <2>2. ~Recorded(u)
      BY <1>1, <2>1 DEF TodoInv
    <2> QED
      BY <1>1, <2>1, <2>2, UntriedRecords
  <1>7. CASE StartPolling
    <2>1. /\ box' = box
          /\ worker' = [e \in Entries |-> IF e \in PendingDeliveries
                                          THEN Scheduled(worker[e]) ELSE worker[e]]
      BY <1>7 DEF StartPolling, tables
    <2>2. \A e \in Entries : worker[e] \in [Slots -> Worker]
      BY <1>1 DEF TypeOK
    <2>3. \A e \in Entries, t \in Slots :
             worker'[e][t].pc = "sending" => worker'[e][t] = worker[e][t]
      BY <2>1, <2>2, ScheduledWaits
    <2> QED
      BY <2>1, <2>3, UntriedStays
  <1>8. CASE Crash \/ Stop
    <2>1. /\ worker' = [e \in Entries |-> [s \in Slots |-> Idle]]
          /\ box' = box \/ \E u \in Updates : box' = Prepared(u)
      BY <1>8 DEF Crash, Stop, ProcessEnds, CutShort, CutBatch, CutPress, CutEnd, CutRaise,
                  tables
    <2>2. \A e \in Entries, s \in Slots : worker'[e][s].pc # "sending"
      BY <2>1 DEF Idle
    <2>3. CASE box' = box
      BY <2>2, <2>3, UntriedStays
    <2>4. CASE \E u \in Updates : box' = Prepared(u)
      <3>1. \A e \in Entries : box'[e] = box[e] \/ box'[e] = NewRecord
        BY <1>1, <2>4 DEF Prepared, TypeOK
      <3>2. Untried(NewRecord)
        BY DEF Untried, NewRecord
      <3>3. \A e \in Entries : Recorded(e)' => Untried(box'[e])
        BY <3>1, <3>2 DEF UntriedInv, Recorded
      <3>4. \A e \in Entries : (Recorded(e) => Untried(box[e]))'
        BY <3>3 DEF Untried
      <3> QED
        BY <2>2, <3>4 DEF UntriedInv
    <2> QED
      BY <2>1, <2>3, <2>4
  <1>9. ASSUME UNCHANGED <<box, worker>> PROVE UntriedInv'
    BY <1>9, UntriedStays
  <1>10. CASE UNCHANGED vars
    BY <1>9, <1>10 DEF vars, tables
  <1>11. ASSUME NEW u \in Updates, HandleUpdate(u) PROVE UntriedInv'
    BY <1>2, <1>9, <1>11, QuietSteps DEF HandleUpdate
  <1> QED
    BY <1>3, <1>4, <1>5, <1>6, <1>7, <1>8, <1>9, <1>10, <1>11, QuietSteps DEF Next, Recover

-----------------------------------------------------------------------------
(* What is recorded stays carried *)

\* Somebody who sends a record from its start has something to send, or there
\* is nothing left.
LEMMA BeginCarries ==
  ASSUME NEW old \in [Slots -> Worker], NEW s \in Slots, NEW parts \in Parts,
         NEW c \in 0 .. NumParts, Upto(parts, c)
  PROVE  Settled(parts) \/ \E t \in Slots : Begin(old, s, parts)[t].pc # "idle"
  <1> DEFINE rest == {k \in Unsent(parts) : k > 0}
             next == SmallestOf(rest)
             stopped == [old EXCEPT ![s] = Idle]
             sends == [pc |-> "sending", part |-> next, seen |-> parts]
  <1>1. NumParts \in Nat /\ 0 \in 0 .. NumParts /\ c = IF c > 0 THEN c ELSE 0
    BY TelegramAssumption
  <1>2. CASE c = NumParts
    BY <1>2, SettledIs
  <1>3. CASE c < NumParts
    <2>1. rest # {} /\ next = c + 1
      BY <1>1, <1>3, NextPart
    <2>2. parts[c + 1].due \in {"due", "later", "never"}
      BY <1>1, <1>3 DEF Parts, Part, Dues
    <2>3. Begin(old, s, parts) = CASE parts[next].due = "never" -> stopped
                                   [] parts[next].due = "later" -> Scheduled(stopped)
                                   [] parts[next].due = "due" -> [old EXCEPT ![s] = sends]
      BY <2>1 DEF Begin, Proceed
    <2>4. CASE parts[c + 1].due = "never"
      BY <1>3, <2>4, SettledIs
    <2>5. CASE parts[c + 1].due = "later"
      <3>1. stopped \in [Slots -> Worker] /\ "retry" \in Slots
        BY TelegramAssumption DEF Idle, Worker, Slots
      <3>2. Begin(old, s, parts) = Scheduled(stopped)
        BY <2>1, <2>3, <2>5
      <3> HIDE DEF stopped
      <3> QED
        BY <3>1, <3>2, ScheduledWaits
    <2>6. CASE parts[c + 1].due = "due"
      <3>1. Begin(old, s, parts) = [old EXCEPT ![s] = sends]
        BY <2>1, <2>3, <2>6
      <3>2. Begin(old, s, parts)[s].pc = "sending"
        BY <3>1
      <3> QED
        BY <3>2
    <2> QED
      BY <2>2, <2>4, <2>5, <2>6
  <1> QED
    BY <1>1, <1>2, <1>3

\* Where nothing of an entry is taken away it stays carried.
LEMMA CarriesOn ==
  ASSUME NEW e \in Entries, Carried(e), box'[e] = box[e], poll' = poll, downs' = downs,
         \A t \in Slots : worker[e][t].pc # "idle" => worker'[e][t].pc # "idle",
         poll = "notes" /\ e \in todo => e \in todo'
  PROVE  Carried(e)'
  BY GivenSettled DEF Carried, HasCarrier, Up

\* Somebody sends it, or nothing is left to be sent.
LEMMA CarrierFound ==
  ASSUME NEW e \in Entries,
         (\E t \in Slots : worker'[e][t].pc # "idle") \/ box'[e] = <<>> \/ Settled(box'[e])
  PROVE  Carried(e)'
  BY GivenSettled DEF Carried, HasCarrier

\* A call that begins with the record as it is.
LEMMA BeginsCarried ==
  ASSUME TypeOK, SendInv, NEW e \in Entries, NEW s \in Slots, Recorded(e), box' = box,
         worker'[e] = Begin(worker[e], s, box[e])
  PROVE  Carried(e)'
  <1>1. PICK c \in 0 .. NumParts : box[e] \in Parts /\ Upto(box[e], c)
    BY RecordUpto
  <1>2. worker[e] \in [Slots -> Worker]
    BY DEF TypeOK
  <1>3. Settled(box[e]) \/ \E t \in Slots : Begin(worker[e], s, box[e])[t].pc # "idle"
    BY <1>1, <1>2, BeginCarries
  <1> QED
    BY <1>3, CarrierFound

\* A call that begins with a new record.
LEMMA RecordsCarried ==
  ASSUME TypeOK, NEW e \in Entries, NEW s \in Slots, ~Recorded(e), box' = Prepared(e),
         worker' = [worker EXCEPT ![e] = Begin(@, s, NewRecord)]
  PROVE  Carried(e)'
  <1>1. NewRecord \in Parts /\ Upto(NewRecord, 0) /\ 0 \in 0 .. NumParts
    BY NewTyped, TelegramAssumption
  <1>2. /\ worker[e] \in [Slots -> Worker] /\ box'[e] = NewRecord
        /\ worker'[e] = Begin(worker[e], s, NewRecord)
    BY DEF TypeOK, Prepared
  <1>3. Settled(NewRecord) \/ \E t \in Slots : Begin(worker[e], s, NewRecord)[t].pc # "idle"
    BY <1>1, <1>2, BeginCarries
  <1> QED
    BY <1>2, <1>3, CarrierFound

\* A send of a part that nobody else has marked is answered: the next part
\* follows, unless it was the last.
LEMMA SentCarried ==
  ASSUME TypeOK, SendInv, UntriedInv, NEW e \in Entries, NEW s \in Slots, SendOk(e, s),
         ~Overtaken(e)
  PROVE  Carried(e)'
  <1> DEFINE w == worker[e][s]
             p == w.part
             row == Proceed(worker[e], s, w.seen, p)
  <1>1. /\ NumParts \in Nat /\ worker[e] \in [Slots -> Worker] /\ w.pc = "sending"
        /\ worker' = [worker EXCEPT ![e] = row] /\ worker'[e] = row
    BY TelegramAssumption DEF SendOk, TypeOK
  <1>2. /\ w.seen \in Parts /\ p \in 1 .. NumParts /\ box[e] \in Parts /\ Recorded(e)
        /\ Untried(w.seen) /\ box[e][p].status # "sent"
    BY <1>1, Sending DEF UntriedInv, Overtaken
  <1>3. PICK c \in 0 .. NumParts, b \in 0 .. NumParts :
           Upto(w.seen, c) /\ Upto(box[e], b) /\ c < p /\ p <= b + 1
    BY <1>1, Sending
  <1>4. p = b + 1
    BY <1>1, <1>2, <1>3 DEF Upto
  <1> HIDE DEF p, w, row
  <1>5. CASE p = NumParts
    <2>1. PICK d \in 0 .. NumParts :
             /\ Upto(box[e], d) /\ worker[e][s].part <= d + 1
             /\ Upto(box'[e], IF worker[e][s].part > d THEN worker[e][s].part ELSE d)
      BY SentMoves
    <2>2. d = b
      BY <1>2, <1>3, <2>1, UptoUnique
    <2>3. Upto(box'[e], NumParts)
      BY <1>1, <1>4, <1>5, <2>1, <2>2 DEF p, w
    <2>4. box'[e] \in Parts
      <3>1. PICK x, parts, y : Moves(e, s, x, parts, y)
        BY SentMoves
      <3> QED
        BY <3>1 DEF Moves, TypeOK
    <2>5. Settled(box'[e])
      BY <2>3, <2>4, SettledIs
    <2> QED
      BY <2>5, CarrierFound
  <1>6. CASE p < NumParts
    <2>1. p = (IF c > p THEN c ELSE p) /\ p \in 0 .. NumParts /\ p + 1 \in 1 .. NumParts
      BY <1>1, <1>2, <1>3, <1>6
    <2>2. w.seen[p].status # "sent"
      BY <1>1, <1>2, <1>3 DEF Upto
    <2>3. w.seen[p + 1].due = "due"
      BY <1>1, <1>2, <2>1, <2>2 DEF Untried
    <2>4. row = Proceed(worker[e], s, w.seen, p)
      BY DEF row
    <2>5. row[s].pc = "sending"
      BY <1>1, <1>2, <1>3, <1>6, <2>1, <2>3, <2>4, Proceeds
    <2> QED
      BY <1>1, <2>5, CarrierFound
  <1> QED
    BY <1>1, <1>2, <1>5, <1>6

\* A send that fails and may be repeated is, by the table of retries.
LEMMA RetryCarried ==
  ASSUME TypeOK, NEW e \in Entries, NEW s \in Slots, NEW arrived \in BOOLEAN,
         SendRetryable(e, s, arrived)
  PROVE  Carried(e)'
  <1> DEFINE stopped == [worker[e] EXCEPT ![s] = Idle]
  <1>1. worker' = [worker EXCEPT ![e] = Scheduled(stopped)] /\ worker'[e] = Scheduled(stopped)
    BY DEF SendRetryable, TypeOK
  <1>2. stopped \in [Slots -> Worker] /\ "retry" \in Slots
    BY TelegramAssumption DEF TypeOK, Idle, Worker, Slots
  <1> HIDE DEF stopped
  <1> QED
    BY <1>1, <1>2, ScheduledWaits, CarrierFound

\* A part that is refused for good, and that nobody else has marked, settles
\* the record.
LEMMA RefusedCarried ==
  ASSUME TypeOK, SendInv, NEW e \in Entries, NEW s \in Slots, NEW arrived \in BOOLEAN,
         SendRefused(e, s, arrived), ~Overtaken(e)
  PROVE  Carried(e)'
  <1> DEFINE p == worker[e][s].part
             failed == [status |-> "failed", due |-> "never"]
  <1>1. worker[e][s].pc = "sending" /\ box' = PartFailed(e, p, "never") /\ NumParts \in Nat
    BY TelegramAssumption DEF SendRefused
  <1>2. /\ p \in 1 .. NumParts /\ box[e] \in Parts /\ Recorded(e)
        /\ box[e][p].status # "sent"
    BY <1>1, Sending DEF Overtaken
  <1>3. PICK b \in 0 .. NumParts : Upto(box[e], b) /\ p <= b + 1
    BY <1>1, Sending
  <1> HIDE DEF p
  <1>4. p = b + 1
    BY <1>1, <1>2, <1>3 DEF Upto
  <1>5. box' = [box EXCEPT ![e][p] = failed]
    BY <1>1, <1>2 DEF PartFailed
  <1>6. box'[e] = [box[e] EXCEPT ![p] = failed]
    BY <1>5 DEF TypeOK
  <1>7. failed \in Part /\ failed.status = "failed" /\ failed.due = "never"
    BY DEF Part, Dues
  <1> HIDE DEF failed
  <1>8. /\ box'[e] \in Parts /\ box'[e][p] = failed
        /\ \A i \in (1 .. NumParts) \ {p} : box'[e][i] = box[e][i]
    BY <1>2, <1>6, <1>7 DEF Parts
  <1>9. Upto(box'[e], b)
    BY <1>2, <1>3, <1>7, <1>8 DEF Upto
  <1>10. b < NumParts /\ box'[e][b + 1].due = "never"
    BY <1>1, <1>2, <1>3, <1>4, <1>7, <1>8
  <1>11. Settled(box'[e])
    BY <1>8, <1>9, <1>10, SettledIs
  <1> QED
    BY <1>11, CarrierFound

\* Time takes nothing away, and leaves refused what was refused.
LEMMA ElapseCarried ==
  ASSUME TypeOK, SendInv, NEW e \in Entries, NEW x \in Entries, NEW p \in 1 .. NumParts,
         Elapse(x, p), Carried(e)
  PROVE  Carried(e)'
  <1>1. /\ poll' = poll /\ downs' = downs /\ todo' = todo
        /\ box' = [box EXCEPT ![x][p].due = "due"] /\ box[x][p].due = "later" /\ Recorded(x)
    BY DEF Elapse, counters
  <1>2. \A t \in Slots : worker'[e][t].pc = worker[e][t].pc
    BY ElapseKeeps
  <1>3. CASE x # e
    <2>1. box'[e] = box[e]
      BY <1>1, <1>3 DEF TypeOK
    <2> QED
      BY <1>1, <1>2, <2>1, CarriesOn
  <1>4. CASE x = e
    <2>1. PICK c \in 0 .. NumParts : box[e] \in Parts /\ Upto(box[e], c)
      BY <1>1, <1>4, RecordUpto
    <2>2. Upto(box'[e], c)
      BY <1>1, <1>4, <2>1, ElapseKeeps
    <2>3. box'[e] = [box[e] EXCEPT ![p].due = "due"]
      BY <1>1, <1>4 DEF TypeOK
    <2>4. box'[e] \in Parts
      <3>1. box[e] \in [1 .. NumParts -> Part] /\ box[e][p] \in Part
        BY <2>1 DEF Parts
      <3>2. [box[e][p] EXCEPT !.due = "due"] \in Part
        BY <3>1 DEF Part, Dues
      <3> QED
        BY <2>3, <3>1, <3>2 DEF Parts
    <2>5. CASE c = NumParts
      <3>1. Settled(box'[e])
        BY <2>2, <2>4, <2>5, SettledIs
      <3> QED
        BY <3>1, CarrierFound
    <2>6. CASE c < NumParts /\ box[e][c + 1].due = "never"
      <3>1. c + 1 # p /\ c + 1 \in 1 .. NumParts
        BY <1>1, <1>4, <2>6, TelegramAssumption
      <3>2. box'[e][c + 1] = box[e][c + 1]
        BY <2>1, <2>3, <3>1 DEF Parts
      <3>3. Settled(box'[e])
        BY <2>2, <2>4, <2>6, <3>2, SettledIs
      <3> QED
        BY <3>3, CarrierFound
    <2>7. CASE c < NumParts /\ box[e][c + 1].due # "never"
      <3>1. ~Given(e)
        <4>1. {k \in Unsent(box[e]) : k > 0} = Unsent(box[e])
          <5>1. DOMAIN box[e] = 1 .. NumParts /\ NumParts \in Nat
            BY <2>1, TelegramAssumption DEF Parts
          <5> QED
            BY <5>1 DEF Unsent
        <4>2. c = (IF c > 0 THEN c ELSE 0) /\ 0 \in 0 .. NumParts
          BY TelegramAssumption
        <4>3. Unsent(box[e]) # {} /\ SmallestOf(Unsent(box[e])) = c + 1
          BY <2>1, <2>7, <4>1, <4>2, NextPart
        <4> QED
          BY <1>1, <1>4, <2>7, <4>3, GivenSettled DEF Settled, Recorded
      <3>2. (IF e \in Notes THEN Up ELSE downs = 0) =>
               (\E t \in Slots : worker[e][t].pc # "idle") \/ (poll = "notes" /\ e \in todo)
        BY <3>1 DEF Carried, HasCarrier
      <3> QED
        BY <1>1, <1>2, <3>2 DEF Carried, HasCarrier, Up
    <2> QED
      BY <2>1, <2>5, <2>6, <2>7, TelegramAssumption
  <1> QED
    BY <1>3, <1>4

\* A step of the calls of one entry.
LEMMA DeliverCarried ==
  ASSUME DeliveryInv, UntriedInv, NEW e \in Entries, NEW x \in Entries, Deliver(x),
         Carried(e), ~Overtaken(e)
  PROVE  Carried(e)'
  <1>1. TypeOK /\ SendInv
    BY DEF DeliveryInv
  <1>2. ASSUME x # e, NEW s \in Slots, NEW arrived \in BOOLEAN,
               \/ Wake(x, s) \/ SendOk(x, s)
               \/ SendRetryable(x, s, arrived) \/ SendRefused(x, s, arrived)
        PROVE  Carried(e)'
    <2>1. /\ worker'[e] = worker[e] /\ box'[e] = box[e]
          /\ poll' = poll /\ todo' = todo /\ downs' = downs
      BY <1>1, <1>2 DEF Wake, SendOk, SendRetryable, SendRefused, PartSent, PartFailed, TypeOK,
                        tables, counters
    <2> QED
      BY <2>1, CarriesOn
  <1>3. ASSUME x = e, NEW s \in Slots, Wake(e, s) PROVE Carried(e)'
    <2>1. /\ worker[e][s].pc = "waiting" /\ box' = box
          /\ worker'[e] = Begin(worker[e], s, box[e])
      BY <1>1, <1>3 DEF Wake, tables, TypeOK
    <2>2. Recorded(e)
      BY <1>1, <2>1 DEF SendInv, CellInv
    <2> QED
      BY <1>1, <2>1, <2>2, BeginsCarried
  <1>4. ASSUME x = e, NEW s \in Slots, NEW arrived \in BOOLEAN,
               SendOk(e, s) \/ SendRetryable(e, s, arrived) \/ SendRefused(e, s, arrived)
        PROVE  Carried(e)'
    BY <1>1, <1>4, SentCarried, RetryCarried, RefusedCarried
  <1>5. ASSUME NEW p \in 1 .. NumParts, Elapse(x, p) PROVE Carried(e)'
    BY <1>1, <1>5, ElapseCarried
  <1>6. TRUE \in BOOLEAN
    OBVIOUS
  <1>7. CASE x = e
    BY <1>3, <1>4, <1>5, <1>6, <1>7 DEF Deliver
  <1>8. CASE x # e
    BY <1>2, <1>5, <1>6, <1>8 DEF Deliver
  <1> QED
    BY <1>7, <1>8

\* A notification comes up, for the first time or again, or the recovery takes
\* it up: it is sent, it is scheduled, or there is nothing left.
LEMMA NoteCarried ==
  ASSUME DeliveryInv, NEW e \in Entries, NEW n \in Notes, Carried(e),
         Notify(n) \/ NotifyAgain(n) \/ RecoverNote(n)
  PROVE  Carried(e)'
  <1>1. TypeOK /\ SendInv /\ TodoInv /\ n \in Entries
    BY DEF DeliveryInv, Entries
  <1>2. /\ poll' = poll /\ downs' = downs
        /\ n # e => worker'[e] = worker[e] /\ box'[e] = box[e] /\ (e \in todo => e \in todo')
    BY <1>1 DEF Notify, NotifyAgain, RecoverNote, Prepared, tables, counters, TypeOK
  <1>3. CASE n # e
    BY <1>2, <1>3, CarriesOn
  <1>4. CASE n = e /\ Notify(n)
    <2>1. "direct" \in Slots
      BY DEF Slots
    <2> QED
      BY <1>1, <1>4, <2>1, RecordsCarried DEF Notify
  <1>5. CASE n = e /\ NotifyAgain(n)
    <2>1. /\ "replay" \in Slots /\ box' = box /\ Recorded(e)
          /\ worker'[e] = Begin(worker[e], "replay", box[e])
      BY <1>1, <1>5 DEF NotifyAgain, Slots, tables, TypeOK
    <2> QED
      BY <1>1, <2>1, BeginsCarried
  <1>6. CASE n = e /\ RecoverNote(n)
    <2>1. /\ "poll" \in Slots /\ box' = box /\ e \in todo /\ poll = "notes"
          /\ worker'[e] = IF Sent(e) THEN worker[e]
                          ELSE IF RetryAt(e) = "later" THEN Scheduled(worker[e])
                          ELSE Begin(worker[e], "poll", box[e])
      BY <1>1, <1>6 DEF RecoverNote, Slots, tables, TypeOK
    <2>2. Recorded(e) /\ worker[e] \in [Slots -> Worker] /\ "retry" \in Slots
      BY <1>1, <2>1 DEF TodoInv, TypeOK, Slots
    <2>3. CASE Sent(e)
      <3>1. Settled(box'[e])
        BY <2>1, <2>3 DEF Sent, Settled
      <3> QED
        BY <3>1, CarrierFound
    <2>4. CASE ~Sent(e) /\ RetryAt(e) = "later"
      BY <2>1, <2>2, <2>4, ScheduledWaits, CarrierFound
    <2>5. CASE ~Sent(e) /\ RetryAt(e) # "later"
      BY <1>1, <2>1, <2>2, <2>5, BeginsCarried
    <2> QED
      BY <2>3, <2>4, <2>5
  <1> QED
    BY <1>3, <1>4, <1>5, <1>6

\* The process ends and starts, and the recovery goes on.
LEMMA RestartCarried ==
  ASSUME DeliveryInv, NEW e \in Entries, Carried(e),
         \/ Crash \/ Stop \/ Start \/ CloseUpdates \/ StartPolling
         \/ \E u \in Updates : RecoverUpdate(u) \/ RecoveryFails(u)
  PROVE  Carried(e)'
  <1>1. /\ TypeOK /\ SendInv /\ TodoInv /\ HandlerInv /\ SoloInv /\ Updates \subseteq Entries
        /\ Entries = Updates \cup Notes
    BY DEF DeliveryInv, Entries
  <1>2. CASE Crash \/ Stop
    <2>1. poll' = "down" /\ downs' = downs + 1
      BY <1>2 DEF Crash, Stop, ProcessEnds
    <2>2. downs \in 0 .. MaxDowns /\ MaxDowns \in Nat
      BY <1>1, TelegramAssumption DEF TypeOK
    <2>3. downs' # 0
      BY <2>1, <2>2
    <2> QED
      BY <2>1, <2>3 DEF Carried, Up
  <1>3. CASE Start
    <2>1. /\ poll = "down" /\ poll' = "notes" /\ todo' = NotesToRecover
          /\ box' = box /\ worker' = worker /\ downs' = downs
      BY <1>3 DEF Start, tables, counters
    <2>2. CASE e \in Notes
      <3>1. Given(e) \/ e \in todo'
        BY <2>1, <2>2 DEF Given, NotesToRecover
      <3>2. Given(e)' <=> Given(e)
        BY <2>1, GivenSettled
      <3> QED
        BY <2>1, <3>1, <3>2 DEF Carried, HasCarrier
    <2>3. CASE e \notin Notes
      <3>1. Given(e)' <=> Given(e)
        BY <2>1, GivenSettled
      <3>2. downs = 0 => Given(e) \/ \E t \in Slots : worker[e][t].pc # "idle"
        BY <2>1, <2>3 DEF Carried, HasCarrier
      <3> QED
        BY <2>1, <2>3, <3>1, <3>2 DEF Carried, HasCarrier
    <2> QED
      BY <2>2, <2>3
  <1>4. CASE CloseUpdates
    <2>1. /\ poll = "notes" /\ poll' = "updates" /\ todo = {}
          /\ box' = box /\ worker' = worker /\ downs' = downs
      BY <1>4 DEF CloseUpdates, counters
    <2>2. Given(e)' <=> Given(e)
      BY <2>1, GivenSettled
    <2>3. (IF e \in Notes THEN Up ELSE downs = 0) =>
             Given(e) \/ \E t \in Slots : worker[e][t].pc # "idle"
      BY <2>1 DEF Carried, HasCarrier
    <2> QED
      BY <2>1, <2>2, <2>3 DEF Carried, HasCarrier, Up
  <1>5. CASE StartPolling
    <2>1. /\ poll = "updates" /\ poll' = "polling" /\ todo' = todo
          /\ box' = box /\ downs' = downs
          /\ worker'[e] = worker[e] \/ worker'[e] = Scheduled(worker[e])
      BY <1>1, <1>5 DEF StartPolling, tables, counters
    <2>2. Given(e)' <=> Given(e)
      BY <2>1, GivenSettled
    <2>3. (IF e \in Notes THEN Up ELSE downs = 0) =>
             Given(e) \/ \E t \in Slots : worker[e][t].pc # "idle"
      BY <2>1 DEF Carried, HasCarrier
    <2>4. \A t \in Slots : worker[e][t].pc # "idle" => worker'[e][t].pc # "idle"
      <3>1. worker[e] \in [Slots -> Worker]
        BY <1>1 DEF TypeOK
      <3> QED
        BY <2>1, <3>1, ScheduledWaits
    <2> QED
      BY <2>1, <2>2, <2>3, <2>4 DEF Carried, HasCarrier, Up
  <1>6. ASSUME NEW u \in Updates, RecoverUpdate(u) PROVE Carried(e)'
    <2>1. /\ poll = "updates" /\ u \in todo /\ box' = Prepared(u) /\ poll' = poll
          /\ todo' = todo \ {u} /\ downs' = downs /\ "poll" \in Slots
          /\ worker' = [worker EXCEPT ![u] = Begin(@, "poll", NewRecord)]
      BY <1>6 DEF RecoverUpdate, counters, Slots
    <2>2. ~Recorded(u)
      BY <1>1, <2>1 DEF TodoInv
    <2>3. CASE u = e
      BY <1>1, <2>1, <2>2, <2>3, RecordsCarried
    <2>4. CASE u # e
      <3>1. worker'[e] = worker[e] /\ box'[e] = box[e]
        BY <1>1, <2>1, <2>4 DEF TypeOK, Prepared
      <3> QED
        BY <2>1, <3>1, CarriesOn
    <2> QED
      BY <2>3, <2>4
  <1>7. ASSUME NEW u \in Updates, RecoveryFails(u) PROVE Carried(e)'
    <2>1. /\ poll = "updates" /\ poll' = "polling"
          /\ box' = box /\ worker' = worker /\ downs' = downs
      BY <1>7 DEF RecoveryFails, tables, counters
    <2>2. Given(e)' <=> Given(e)
      BY <2>1, GivenSettled
    <2>3. (IF e \in Notes THEN Up ELSE downs = 0) =>
             Given(e) \/ \E t \in Slots : worker[e][t].pc # "idle"
      BY <2>1 DEF Carried, HasCarrier
    <2> QED
      BY <2>1, <2>2, <2>3 DEF Carried, HasCarrier, Up
  <1> QED
    BY <1>2, <1>3, <1>4, <1>5, <1>6, <1>7

\* What is carried stays so in every step, unless its sender was overtaken.
LEMMA CarriedStep ==
  ASSUME DeliveryInv, UntriedInv, [Next]_vars, NEW e \in Entries, Carried(e), ~Overtaken(e)
  PROVE  Carried(e)'
  <1>1. TypeOK /\ HandlerInv /\ Updates \subseteq Entries
    BY DEF DeliveryInv, Entries
  <1>2. ASSUME UNCHANGED <<box, worker, downs, poll, todo>> PROVE Carried(e)'
    BY <1>2, CarriesOn
  <1>3. ASSUME NEW u \in Updates, HandleUpdate(u) PROVE Carried(e)'
    <2>1. ASSUME NEW status, ExecEnds(u, status) PROVE Carried(e)'
      <3>1. /\ handler[u] = "exec" /\ box' = Prepared(u) /\ "direct" \in Slots
            /\ worker' = [worker EXCEPT ![u] = Begin(@, "direct", NewRecord)]
            /\ poll' = poll /\ todo' = todo /\ downs' = downs
        BY <2>1 DEF ExecEnds, counters, Slots
      <3>2. ~Recorded(u)
        BY <1>1, <3>1 DEF HandlerInv, HandlerOf, Closed, Open
      <3>3. CASE u = e
        BY <1>1, <3>1, <3>2, <3>3, RecordsCarried
      <3>4. CASE u # e
        <4>1. worker'[e] = worker[e] /\ box'[e] = box[e]
          BY <1>1, <3>1, <3>4 DEF TypeOK, Prepared
        <4> QED
          BY <3>1, <4>1, CarriesOn
      <3> QED
        BY <3>3, <3>4
    <2>2. CASE Handle(u) \/ Press(u) \/ Told(u)
               \/ \E status \in {"rejected", "failed"} : ExecRaises(u, status)
      <3>1. UNCHANGED <<box, worker, downs, poll, todo>>
        BY <2>2 DEF Handle, Press, Told, ExecRaises, counters
      <3> QED
        BY <1>2, <3>1
    <2> QED
      BY <1>3, <2>1, <2>2 DEF HandleUpdate
  <1>4. ASSUME NEW x \in Entries, Deliver(x) PROVE Carried(e)'
    BY <1>4, DeliverCarried
  <1>5. ASSUME NEW n \in Notes, Notify(n) \/ NotifyAgain(n) \/ RecoverNote(n) PROVE Carried(e)'
    BY <1>5, NoteCarried
  <1>6. CASE Acknowledge \/ (\E last \in Updates : ReceiveBatch(last)) \/ UNCHANGED vars
    <2>1. UNCHANGED <<box, worker, downs, poll, todo>>
      BY <1>6 DEF Acknowledge, ReceiveBatch, vars, tables, counters
    <2> QED
      BY <1>2, <2>1
  <1> QED
    BY <1>3, <1>4, <1>5, <1>6, RestartCarried DEF Next, Recover

-----------------------------------------------------------------------------
(* Theorems *)

\* What lies behind the next part of a record was never tried, for any number
\* of senders, failures and restarts (deliver_parts).
THEOREM PartsTriedInOrder == Spec => []UntriedInv
  <1>1. Init => UntriedInv
    <2> SUFFICES ASSUME Init PROVE UntriedInv
      OBVIOUS
    <2>1. /\ \A e \in Entries : ~Recorded(e)
          /\ \A e \in Entries, s \in Slots : worker[e][s].pc # "sending"
      BY DEF Init, Recorded, Idle
    <2> QED
      BY <2>1 DEF UntriedInv
  <1>2. DeliveryInv /\ UntriedInv /\ [Next]_vars => UntriedInv'
    BY UntriedStep
  <1> QED
    BY <1>1, <1>2, DeliveryInvHolds, PTL DEF Spec

\* At the beginning nothing is recorded.
LEMMA InitCarries ==
  ASSUME Init, NEW e \in Entries
  PROVE  Carried(e)
  BY GivenSettled DEF Init, Carried, HasCarrier

\* A notification that is neither sent nor refused has, while the process is
\* up, a sender, a task of the table of retries or a place in the recovery's
\* list, as long as no sender is overtaken: whatever failures, crashes and
\* repeated streams there are, nothing is left to chance but the answers of
\* Telegram (_schedule_retry, recover, notify_completion).
THEOREM NotesAreCarried ==
  ASSUME NEW n \in Notes
  PROVE  Spec /\ []~Overtaken(n) => []Carried(n)
  <1>1. n \in Entries
    BY DEF Entries
  <1>2. Init => Carried(n)
    BY <1>1, InitCarries
  <1>3. DeliveryInv /\ UntriedInv /\ ~Overtaken(n) /\ Carried(n) /\ [Next]_vars => Carried(n)'
    BY <1>1, CarriedStep
  <1> QED
    BY <1>2, <1>3, DeliveryInvHolds, PartsTriedInOrder, PTL DEF Spec

\* The result of an update is never overtaken, and has a sender or a task of
\* the table of retries until it is sent or refused, as long as there was no
\* restart (_deliver_persisted, _schedule_delivery_retry).
THEOREM ResultsAreCarried ==
  Spec => [](\A u \in Updates : ~Overtaken(u) /\ Carried(u))
  <1> DEFINE Inv == \A u \in Updates : Carried(u)
  <1>1. Updates \subseteq Entries
    BY DEF Entries
  <1>2. DeliveryInv => \A u \in Updates : ~Overtaken(u)
    BY DEF DeliveryInv, SoloInv, Solo, Overtaken
  <1>3. Init => Inv
    BY <1>1, InitCarries
  <1>4. DeliveryInv /\ UntriedInv /\ Inv /\ [Next]_vars => Inv'
    <2> SUFFICES ASSUME DeliveryInv, UntriedInv, Inv, [Next]_vars, NEW u \in Updates
                 PROVE  Carried(u)'
      OBVIOUS
    <2> QED
      BY <1>1, <1>2, CarriedStep
  <1>5. DeliveryInv /\ Inv => \A u \in Updates : ~Overtaken(u) /\ Carried(u)
    BY <1>2
  <1> HIDE DEF Inv
  <1> QED
    BY <1>3, <1>4, <1>5, DeliveryInvHolds, PartsTriedInOrder, PTL DEF Spec
=============================================================================
