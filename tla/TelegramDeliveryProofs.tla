----------------------- MODULE TelegramDeliveryProofs -----------------------
(***************************************************************************)
(* Proofs about TelegramDelivery, for any numbers of updates, parts,       *)
(* notifications, failed sends and ends of the process: no update runs     *)
(* twice, none is lost, a result has one sender at a time, and the         *)
(* delivery implements the promise of TelegramOutbox.  Not proved: that    *)
(* results settle, which is a liveness property.                           *)
(***************************************************************************)
EXTENDS TelegramDelivery, FiniteSetTheorems, TLAPS

-----------------------------------------------------------------------------
(* Records, and what deliver_parts reads from them *)

\* The contents of a record.
Parts == [1 .. NumParts -> Part]

\* The first c parts are sent and no other.
Upto(parts, c) ==
    /\ c \in 0 .. NumParts
    /\ \A p \in 1 .. NumParts : parts[p].status = "sent" <=> p <= c

\* A record has at least one part: the empty sequence is none.
LEMMA NoParts == \A parts \in Parts : parts # <<>>
  BY TelegramAssumption DEF Parts

\* A new record has no sent part and its first part is due (create_delivery).
LEMMA NewTyped == NewRecord \in Parts /\ Upto(NewRecord, 0) /\ NewRecord[1].due = "due"
  BY TelegramAssumption DEF NewRecord, Parts, Part, Dues, Upto

\* The number of sent parts is determined by the record.
LEMMA UptoUnique ==
  ASSUME NEW parts \in Parts, NEW b, NEW c, Upto(parts, b), Upto(parts, c)
  PROVE  b = c
  BY TelegramAssumption DEF Upto

\* Behind its part i, a call that read c sent parts finds the part after the
\* larger of both next, and none if that is the last.
LEMMA NextPart ==
  ASSUME NEW parts \in Parts, NEW c, Upto(parts, c), NEW i \in 0 .. NumParts,
         NEW m \in 0 .. NumParts, m = IF c > i THEN c ELSE i
  PROVE  /\ m = NumParts => {k \in Unsent(parts) : k > i} = {}
         /\ m < NumParts => /\ {k \in Unsent(parts) : k > i} # {}
                            /\ SmallestOf({k \in Unsent(parts) : k > i}) = m + 1
  <1> DEFINE rest == {k \in Unsent(parts) : k > i}
  <1>1. NumParts \in Nat /\ c \in 0 .. NumParts /\ DOMAIN parts = 1 .. NumParts
    BY TelegramAssumption DEF Upto, Parts
  <1>2. \A k : k \in rest <=> k \in 1 .. NumParts /\ k > m
    BY <1>1 DEF Upto, Unsent
  <1>3. m = NumParts => rest = {}
    BY <1>1, <1>2
  <1>4. ASSUME m < NumParts PROVE rest # {} /\ SmallestOf(rest) = m + 1
    <2>1. m + 1 \in rest /\ \A k \in rest : m + 1 <= k
      BY <1>1, <1>2, <1>4
    <2>2. \A k \in rest : k \in Int
      BY <1>1, <1>2
    <2> HIDE DEF rest
    <2>3. /\ SmallestOf(rest) \in rest
          /\ \A j \in rest : SmallestOf(rest) <= j
      BY <2>1 DEF SmallestOf
    <2>4. SmallestOf(rest) <= m + 1 /\ m + 1 <= SmallestOf(rest)
      BY <2>1, <2>3
    <2> QED
      BY <1>1, <2>1, <2>2, <2>3, <2>4
  <1> QED
    BY <1>3, <1>4

-----------------------------------------------------------------------------
(* The invariant *)

\* Which updates Telegram still has, and those that were claimed.
OffsetInv ==
    /\ incoming \in Incoming
    /\ confirmedTo <= nextOffset
    /\ \A u \in Updates : updates[u] = "absent" <=> u >= nextOffset

\* Updates whose handling is under way, and those that are done with.
Open == {"received", "running"}
Closed == Statuses \ (Open \cup {"absent"})

\* What an update's handler is doing fits its row in the table.
HandlerOf(u) ==
    /\ handler[u] # "none" =>
         poll = "polling" /\ incoming[u] \in {"text", "confirm", "panel"}
    /\ handler[u] \in {"start", "ack"} => updates[u] = "received"
    /\ handler[u] = "ack" => incoming[u] = "confirm"
    /\ handler[u] = "exec" => updates[u] = "running"
    /\ handler[u] = "tell" => updates[u] \in {"received"} \cup Closed
    /\ handler[u] = "deliver" => updates[u] \in Closed
    /\ handler[u] = "none" /\ poll = "polling" => updates[u] \notin Open
    /\ poll = "updates" => updates[u] \notin Open
    \* A crash may come before the update whose result is recorded is closed;
    \* the recovery then does that.
    /\ Recorded(u) => \/ updates[u] \in Closed
                      \/ updates[u] = "running" /\ poll \in {"down", "notes"}

\* So it is for every update.
HandlerInv == \A u \in Updates : HandlerOf(u)

\* Who has run.
RanInv ==
    /\ \A u \in Updates : ran[u] <= 1 /\ (updates[u] \in {"absent", "received"} => ran[u] = 0)
    /\ \A u, v \in Updates :
          incoming[u] = "confirm" /\ ran[u] > 0 /\ incoming[v] = "confirm" /\ ran[v] > 0 => u = v
    /\ token = "pending" => \A u \in Updates : incoming[u] = "confirm" => ran[u] = 0

\* What the recovery has listed.
TodoInv ==
    /\ poll \in {"down", "polling"} => todo = {}
    /\ poll = "notes" => todo \subseteq Notes /\ \A n \in todo : Recorded(n)
    /\ poll = "updates" =>
         /\ todo \subseteq Updates
         /\ \A u \in todo : ~Recorded(u) /\ updates[u] = "interrupted"

\* Records are sent from the front, and so do those who have read them earlier.
CellInv(e, s) ==
    LET w == worker[e][s] IN
    /\ w.pc = "waiting" => s = "retry"
    /\ w.pc # "idle" => Recorded(e) /\ Up
    /\ w.pc = "sending" => \E c, b : /\ Upto(w.seen, c) /\ Upto(box[e], b)
                                     /\ c < w.part /\ w.part <= b + 1

\* So it is for every call, and a record is sent from its front.
SendInv ==
    /\ \A e \in Entries : Recorded(e) => \E c : Upto(box[e], c)
    /\ \A e \in Entries, s \in Slots : CellInv(e, s)

\* One at a time sends the result of an update.
Solo(u) ==
    /\ \A s, t \in Slots : worker[u][s].pc # "idle" /\ worker[u][t].pc # "idle" => s = t
    /\ \A s \in Slots : worker[u][s].pc = "sending" =>
          box[u][worker[u][s].part].status # "sent"
    /\ worker[u]["replay"].pc = "idle"
    /\ worker[u]["direct"].pc # "idle" <=> handler[u] = "deliver"
    /\ worker[u]["poll"].pc # "idle" => poll = "updates"
    /\ poll \in {"down", "notes"} => \A s \in Slots : worker[u][s].pc = "idle"

\* So it is for every update.
SoloInv == \A u \in Updates : Solo(u)

-----------------------------------------------------------------------------
(* Steps of the calls that send records *)

\* A call that sends: what it read and what the record says.
LEMMA Sending ==
  ASSUME TypeOK, SendInv, NEW e \in Entries, NEW s \in Slots, worker[e][s].pc = "sending"
  PROVE  /\ Recorded(e) /\ box[e] \in Parts /\ Up
         /\ worker[e][s].seen \in Parts /\ worker[e][s].part \in 1 .. NumParts
         /\ \E c, b \in 0 .. NumParts :
               /\ Upto(worker[e][s].seen, c) /\ Upto(box[e], b)
               /\ c < worker[e][s].part /\ worker[e][s].part <= b + 1
  <1>1. worker[e][s] \in Worker /\ worker[e][s].part # 0 /\ worker[e][s].seen # <<>>
    BY DEF TypeOK
  <1>2. /\ Recorded(e) /\ Up
        /\ \E c, b : /\ Upto(worker[e][s].seen, c) /\ Upto(box[e], b)
                     /\ c < worker[e][s].part /\ worker[e][s].part <= b + 1
    BY DEF SendInv, CellInv
  <1>3. box[e] \in Parts
    BY <1>2 DEF TypeOK, Recorded, Parts
  <1>4. worker[e][s].seen \in Parts /\ worker[e][s].part \in 1 .. NumParts
    BY <1>1, TelegramAssumption DEF Worker, Parts
  <1>5. \A q, c : Upto(q, c) => c \in 0 .. NumParts
    BY DEF Upto
  <1> QED
    BY <1>2, <1>3, <1>4, <1>5

\* A record's sent parts are its first ones.
LEMMA RecordUpto ==
  ASSUME TypeOK, SendInv, NEW e \in Entries, Recorded(e)
  PROVE  box[e] \in Parts /\ \E c \in 0 .. NumParts : Upto(box[e], c)
  BY DEF TypeOK, SendInv, Recorded, Parts, Upto

\* What a batch claims: the updates from the offset to the last one of the
\* batch that has arrived.
LEMMA Claims ==
  ASSUME TypeOK, OffsetInv, NEW last \in Updates, NEW open, ClaimUpdates(Batch(last), open)
  PROVE  /\ nextOffset' \in nextOffset .. NumUpdates + 1
         /\ \A u \in Updates : u \in Claimed(Batch(last)) <=> nextOffset <= u /\ u < nextOffset'
         /\ \A u \in Updates : u \in Claimed(Batch(last)) => incoming[u] \notin {"none", "turn"}
         /\ \A u \in Updates :
               updates'[u] = IF u \notin Claimed(Batch(last)) THEN updates[u]
                             ELSE IF incoming[u] \in Strangers /\ u \notin open THEN "ignored"
                             ELSE "received"
  <1> DEFINE new == Claimed(Batch(last))
  <1>1. /\ NumUpdates \in Nat /\ Updates = 1 .. NumUpdates
        /\ confirmedTo \in 1 .. NumUpdates + 1 /\ nextOffset \in 1 .. NumUpdates + 1
    BY TelegramAssumption DEF Updates, TypeOK
  <1>2. PICK n \in 0 .. NumUpdates : \A u \in Updates : incoming[u] = "none" <=> u > n
    BY IncomingAssumption DEF OffsetInv
  <1>3. \A u \in Updates : incoming[u] # "turn"
    BY IncomingAssumption DEF OffsetInv
  <1> DEFINE m == IF n < last THEN n ELSE last
  <1>4. m \in 0 .. NumUpdates
    BY <1>1, <1>2
  <1>5. \A u : u \in new <=> u \in Updates /\ nextOffset <= u /\ u <= m
    BY <1>1, <1>2, <1>4 DEF Claimed, Batch, OffsetInv
  <1>6. nextOffset' = OffsetAfter(Batch(last))
    BY DEF ClaimUpdates
  <1>7. nextOffset' = IF nextOffset <= m THEN m + 1 ELSE nextOffset
    <2>1. CASE nextOffset <= m
      <3>1. m \in new
        BY <1>1, <1>4, <1>5, <2>1
      <3> DEFINE after == {u + 1 : u \in new}
                 IsAfter(o) == o \in after /\ \A u \in new : u < o
      <3>2. IsAfter(m + 1)
        BY <1>1, <1>4, <1>5, <3>1
      <3>3. nextOffset' = CHOOSE o \in after : \A u \in new : u < o
        BY <1>6, <3>1 DEF OffsetAfter
      <3>4. \A o \in after : (\A u \in new : u < o) => o = m + 1
        BY <1>1, <1>4, <1>5, <3>1
      <3>5. nextOffset' \in after /\ \A u \in new : u < nextOffset'
        BY <3>2, <3>3
      <3> QED
        BY <2>1, <3>4, <3>5
    <2>2. CASE ~(nextOffset <= m)
      <3>1. new = {}
        BY <1>1, <1>4, <1>5, <2>2
      <3> QED
        BY <1>6, <2>2, <3>1 DEF OffsetAfter
    <2> QED
      BY <2>1, <2>2
  <1>8. nextOffset' \in nextOffset .. NumUpdates + 1
    BY <1>1, <1>4, <1>7
  <1>9. \A u \in Updates : u \in new <=> nextOffset <= u /\ u < nextOffset'
    BY <1>1, <1>4, <1>5, <1>7
  <1>10. \A u \in new : incoming[u] \notin {"none", "turn"}
    BY <1>1, <1>2, <1>3, <1>4, <1>5
  <1> HIDE DEF new
  <1>11. \A u \in Updates :
            updates'[u] = IF u \notin new THEN updates[u]
                          ELSE IF incoming[u] \in Strangers /\ u \notin open THEN "ignored"
                          ELSE "received"
    BY DEF ClaimUpdates, new
  <1> QED
    BY <1>8, <1>9, <1>10, <1>11 DEF new

\* What a step of the call in slot s does to the calls of its entry.
RowStep(old, row, s) ==
    /\ row \in [Slots -> Worker]
    /\ \A t \in Slots \ {s} :
          \/ row[t] = old[t]
          \/ t = "retry" /\ old[t].pc = "idle" /\ row[t] = Waiting /\ row[s].pc = "idle"
    /\ row[s].pc = "waiting" => s = "retry"

\* A call that ends, with or without a retry that it schedules.
LEMMA Retries ==
  ASSUME NEW old \in [Slots -> Worker], NEW s \in Slots
  PROVE  LET row == [old EXCEPT ![s] = Idle] IN
         /\ RowStep(old, row, s) /\ row[s].pc = "idle"
         /\ RowStep(old, Scheduled(row), s) /\ Scheduled(row)[s].pc # "sending"
         /\ s # "retry" => Scheduled(row)[s].pc = "idle"
  <1> DEFINE row == [old EXCEPT ![s] = Idle]
  <1>1. NumParts \in Nat /\ "retry" \in Slots
    BY TelegramAssumption DEF Slots
  <1>2. /\ Idle \in Worker /\ Waiting \in Worker
        /\ Idle.pc = "idle" /\ Waiting.pc = "waiting"
    BY <1>1 DEF Idle, Waiting, Worker
  <1>3. row \in [Slots -> Worker] /\ row[s] = Idle /\ \A t \in Slots \ {s} : row[t] = old[t]
    BY <1>2
  <1>4. RowStep(old, row, s)
    BY <1>2, <1>3 DEF RowStep
  <1> HIDE DEF row
  <1>5. CASE row["retry"].pc = "idle"
    <2>1. Scheduled(row) = [row EXCEPT !["retry"] = Waiting]
      BY <1>5 DEF Scheduled
    <2> QED
      BY <1>1, <1>2, <1>3, <1>4, <1>5, <2>1 DEF RowStep, row
  <1>6. CASE row["retry"].pc # "idle"
    <2>1. Scheduled(row) = row
      BY <1>6 DEF Scheduled
    <2> QED
      BY <1>2, <1>3, <1>4, <2>1 DEF row
  <1> QED
    BY <1>5, <1>6

\* A call that goes on: it ends, or sends the part that is next.
LEMMA Proceeds ==
  ASSUME NEW old \in [Slots -> Worker], NEW s \in Slots, NEW seen \in Parts,
         NEW i \in 0 .. NumParts, NEW c, Upto(seen, c),
         NEW m \in 0 .. NumParts, m = IF c > i THEN c ELSE i,
         NEW row, row = Proceed(old, s, seen, i)
  PROVE  /\ RowStep(old, row, s)
         /\ row[s].pc = "sending" => m < NumParts /\ row[s].part = m + 1 /\ row[s].seen = seen
         /\ m < NumParts /\ seen[m + 1].due = "due" => row[s].pc = "sending"
  <1> DEFINE rest == {k \in Unsent(seen) : k > i}
             next == SmallestOf(rest)
             stopped == [old EXCEPT ![s] = Idle]
             sends == [pc |-> "sending", part |-> next, seen |-> seen]
             going == [old EXCEPT ![s] = sends]
  <1>1. NumParts \in Nat
    BY TelegramAssumption
  <1>2. /\ RowStep(old, stopped, s) /\ stopped[s].pc = "idle"
        /\ RowStep(old, Scheduled(stopped), s) /\ Scheduled(stopped)[s].pc # "sending"
    BY Retries
  <1>3. CASE m = NumParts
    <2>1. rest = {}
      BY <1>3, NextPart
    <2>2. row = stopped
      BY <2>1 DEF Proceed
    <2> QED
      BY <1>1, <1>2, <1>3, <2>2
  <1>4. CASE m < NumParts
    <2>1. rest # {} /\ next = m + 1
      BY <1>4, NextPart
    <2>2. m + 1 \in 1 .. NumParts
      BY <1>1, <1>4
    <2>3. seen[m + 1].due \in {"due", "later", "never"}
      BY <2>2 DEF Parts, Part, Dues
    <2>4. row = CASE seen[next].due = "never" -> stopped
                  [] seen[next].due = "later" -> Scheduled(stopped)
                  [] seen[next].due = "due" -> going
      BY <2>1 DEF Proceed
    <2>5. sends \in Worker /\ sends.pc = "sending" /\ sends.part = m + 1 /\ sends.seen = seen
      BY <2>1, <2>2 DEF Worker, Parts
    <2>6. /\ going \in [Slots -> Worker] /\ going[s] = sends
          /\ \A t \in Slots \ {s} : going[t] = old[t]
      BY <2>5
    <2> HIDE DEF stopped, sends, next, going
    <2>7. RowStep(old, going, s)
      BY <2>5, <2>6 DEF RowStep
    <2>8. CASE seen[m + 1].due = "due"
      <3>1. row = going
        BY <2>1, <2>4, <2>8
      <3> QED
        BY <1>4, <2>5, <2>6, <2>7, <3>1
    <2>9. CASE seen[m + 1].due # "due"
      <3>1. row = stopped \/ row = Scheduled(stopped)
        BY <2>1, <2>3, <2>4, <2>9
      <3> QED
        BY <1>2, <2>9, <3>1
    <2> QED
      BY <2>8, <2>9
  <1> QED
    BY <1>1, <1>3, <1>4

\* The types of the calls, apart.
CallsOK ==
    /\ worker \in [Entries -> [Slots -> Worker]]
    /\ \A e \in Entries, s \in Slots :
          worker[e][s].pc = "sending" => /\ worker[e][s].part # 0
                                         /\ worker[e][s].seen # <<>>

\* The call in slot s of entry e goes on: the record of e becomes parts, of
\* which b are sent.
Moves(e, s, row, parts, b) ==
    /\ worker' = [worker EXCEPT ![e] = row] /\ RowStep(worker[e], row, s)
    /\ parts \in Parts /\ box' = [box EXCEPT ![e] = parts]
    /\ b \in 0 .. NumParts /\ Upto(parts, b)
    /\ Recorded(e) => \A a \in 0 .. NumParts : Upto(box[e], a) => a <= b
    /\ row[s].pc = "sending" =>
          /\ row[s].seen \in Parts
          /\ \E c \in 0 .. NumParts : /\ Upto(row[s].seen, c)
                                      /\ c < row[s].part /\ row[s].part <= b + 1
          /\ \/ row[s].part = b + 1 \/ e \in Notes
             \/ worker[e][s].pc = "sending" /\ box[e][worker[e][s].part].status = "sent"

\* One step of a call, or a new record, keeps the order of sending.
LEMMA SendFrame ==
  ASSUME TypeOK, SendInv, poll' # "down", NEW e \in Entries, NEW s \in Slots, NEW row,
         NEW parts, NEW b, Moves(e, s, row, parts, b)
  PROVE  SendInv' /\ CallsOK' /\ box' \in [Entries -> {<<>>} \cup Parts]
  <1>1. /\ NumParts \in Nat
        /\ worker' = [worker EXCEPT ![e] = row] /\ RowStep(worker[e], row, s)
        /\ parts \in Parts /\ box' = [box EXCEPT ![e] = parts]
        /\ b \in 0 .. NumParts /\ Upto(parts, b)
        /\ Recorded(e) => \A a \in 0 .. NumParts : Upto(box[e], a) => a <= b
        /\ row[s].pc = "sending" =>
              /\ row[s].seen \in Parts
              /\ \E c \in 0 .. NumParts : /\ Upto(row[s].seen, c)
                                          /\ c < row[s].part /\ row[s].part <= b + 1
    BY TelegramAssumption DEF Moves
  <1>2. /\ box \in [Entries -> {<<>>} \cup Parts]
        /\ worker \in [Entries -> [Slots -> Worker]]
    BY DEF TypeOK, Parts
  <1>3. /\ box' \in [Entries -> {<<>>} \cup Parts] /\ box'[e] = parts
        /\ \A x \in Entries \ {e} : box'[x] = box[x]
    BY <1>1, <1>2
  <1>4. /\ worker' \in [Entries -> [Slots -> Worker]] /\ worker'[e] = row
        /\ \A x \in Entries \ {e} : worker'[x] = worker[x]
    BY <1>1, <1>2 DEF RowStep
  <1>5. Recorded(e)' /\ \A x \in Entries \ {e} : Recorded(x)' <=> Recorded(x)
    BY <1>1, <1>3, NoParts DEF Recorded
  <1>6. ASSUME NEW t \in Slots, row[t] = worker[e][t] PROVE CellInv(e, t)'
    <2>1. CASE worker[e][t].pc = "sending"
      <3>1. Recorded(e)
        BY <2>1, Sending
      <3>2. PICK c, a \in 0 .. NumParts :
               /\ Upto(worker[e][t].seen, c) /\ Upto(box[e], a)
               /\ c < worker[e][t].part /\ worker[e][t].part <= a + 1
        BY <2>1, Sending
      <3>3. worker[e][t].part <= b + 1
        <4>1. a <= b /\ worker[e][t].part \in 1 .. NumParts
          BY <1>1, <2>1, <3>1, <3>2, Sending
        <4> QED
          BY <1>1, <3>2, <4>1
      <3>4. /\ Upto(worker[e][t].seen, c) /\ Upto(parts, b)
            /\ c < worker[e][t].part /\ worker[e][t].part <= b + 1
        BY <1>1, <3>2, <3>3
      <3>5. worker'[e][t] = worker[e][t] /\ box'[e] = parts
        BY <1>3, <1>4, <1>6
      <3>6. \E x, y : /\ Upto(worker'[e][t].seen, x) /\ Upto(box'[e], y)
                      /\ x < worker'[e][t].part /\ worker'[e][t].part <= y + 1
        BY <3>4, <3>5
      <3> QED
        BY <1>5, <2>1, <3>5, <3>6 DEF CellInv, Up, Upto
    <2>2. CASE worker[e][t].pc # "sending"
      BY <1>4, <1>5, <1>6, <2>2 DEF SendInv, CellInv, Up
    <2> QED
      BY <2>1, <2>2
  <1>7. CellInv(e, s)'
    <2>1. CASE row[s].pc = "sending"
      BY <1>1, <1>3, <1>4, <1>5, <2>1 DEF CellInv, Up, Upto
    <2>2. CASE row[s].pc # "sending"
      BY <1>1, <1>4, <1>5, <2>2 DEF CellInv, Up, RowStep
    <2> QED
      BY <2>1, <2>2
  <1>8. ASSUME NEW t \in Slots, t # s PROVE CellInv(e, t)'
    <2>1. CASE row[t] = worker[e][t]
      BY <1>6, <2>1
    <2>2. CASE row[t] # worker[e][t]
      <3>1. t = "retry" /\ row[t].pc = "waiting"
        BY <1>1, <1>8, <2>2 DEF RowStep, Waiting, Idle
      <3> QED
        BY <1>4, <1>5, <3>1 DEF CellInv, Up
    <2> QED
      BY <2>1, <2>2
  <1>9. ASSUME NEW x \in Entries \ {e}, NEW t \in Slots PROVE CellInv(x, t)'
    <2>1. worker'[x][t] = worker[x][t] /\ box'[x] = box[x]
      BY <1>3, <1>4
    <2>2. CellInv(x, t)
      BY DEF SendInv
    <2> QED
      BY <1>5, <2>1, <2>2 DEF CellInv, Up, Upto
  <1>10. \A x \in Entries : Recorded(x)' => \E c : Upto(box[x], c)'
    BY <1>1, <1>3, <1>5 DEF SendInv, Upto
  <1>11. SendInv'
    BY <1>7, <1>8, <1>9, <1>10 DEF SendInv
  <1>12. CallsOK'
    <2> SUFFICES ASSUME NEW x \in Entries, NEW t \in Slots, worker'[x][t].pc = "sending"
                 PROVE  worker'[x][t].part # 0 /\ worker'[x][t].seen # <<>>
      BY <1>4 DEF CallsOK
    <2>1. CASE x = e /\ t = s
      BY <1>1, <1>4, <2>1, NoParts
    <2>2. CASE ~(x = e /\ t = s)
      <3>1. worker'[x][t] = worker[x][t]
        BY <1>1, <1>4, <2>2 DEF RowStep, Waiting, Idle
      <3> QED
        BY <3>1 DEF TypeOK
    <2> QED
      BY <2>1, <2>2
  <1> QED
    BY <1>3, <1>11, <1>12

\* A call begins to send a record that is there.
LEMMA BeginMoves ==
  ASSUME TypeOK, SendInv, NEW e \in Entries, NEW s \in Slots, Recorded(e),
         box' = box, worker' = [worker EXCEPT ![e] = Begin(@, s, box[e])]
  PROVE  \E row, parts, b : Moves(e, s, row, parts, b)
  <1> DEFINE row == Begin(worker[e], s, box[e])
  <1>1. /\ NumParts \in Nat /\ 0 \in 0 .. NumParts /\ worker[e] \in [Slots -> Worker]
        /\ worker' = [worker EXCEPT ![e] = row]
    BY TelegramAssumption DEF TypeOK
  <1>2. PICK b \in 0 .. NumParts : box[e] \in Parts /\ Upto(box[e], b)
    BY RecordUpto
  <1>3. row = Proceed(worker[e], s, box[e], 0)
    BY DEF Begin
  <1> HIDE DEF row
  <1>4. b = IF b > 0 THEN b ELSE 0
    BY <1>1
  <1>5. /\ RowStep(worker[e], row, s)
        /\ row[s].pc = "sending" => b < NumParts /\ row[s].part = b + 1 /\ row[s].seen = box[e]
    BY <1>1, <1>2, <1>3, <1>4, Proceeds
  <1>6. \A a \in 0 .. NumParts : Upto(box[e], a) => a <= b
    BY <1>1, <1>2, UptoUnique
  <1>7. box' = [box EXCEPT ![e] = box[e]]
    BY DEF TypeOK
  <1>8. row[s].pc = "sending" => b < row[s].part /\ row[s].part <= b + 1
    BY <1>1, <1>5
  <1>9. Moves(e, s, row, box[e], b)
    BY <1>1, <1>2, <1>5, <1>6, <1>7, <1>8 DEF Moves
  <1> QED
    BY <1>9

\* A new record is sent by the call in slot s.
LEMMA RecordMoves ==
  ASSUME TypeOK, SendInv, NEW e \in Entries, NEW s \in Slots, ~Recorded(e),
         box' = Prepared(e), worker' = [worker EXCEPT ![e] = Begin(@, s, NewRecord)]
  PROVE  \E row : Moves(e, s, row, NewRecord, 0) /\ row[s].pc = "sending"
  <1> DEFINE row == Begin(worker[e], s, NewRecord)
  <1>1. /\ NumParts \in Nat \ {0} /\ 0 \in 0 .. NumParts /\ worker[e] \in [Slots -> Worker]
        /\ worker' = [worker EXCEPT ![e] = row]
    BY TelegramAssumption DEF TypeOK
  <1>2. NewRecord \in Parts /\ Upto(NewRecord, 0) /\ NewRecord[0 + 1].due = "due"
    BY NewTyped
  <1>3. row = Proceed(worker[e], s, NewRecord, 0) /\ 0 < NumParts
    BY <1>1 DEF Begin
  <1> HIDE DEF row
  <1>4. 0 = IF 0 > 0 THEN 0 ELSE 0
    OBVIOUS
  <1>5. /\ RowStep(worker[e], row, s)
        /\ row[s].pc = "sending" => row[s].part = 0 + 1 /\ row[s].seen = NewRecord
        /\ row[s].pc = "sending"
    BY <1>1, <1>2, <1>3, <1>4, Proceeds
  <1>6. box' = [box EXCEPT ![e] = NewRecord]
    BY DEF Prepared
  <1>7. \E c \in 0 .. NumParts : /\ Upto(row[s].seen, c)
                                /\ c < row[s].part /\ row[s].part <= 0 + 1
    BY <1>1, <1>2, <1>5
  <1>8. Recorded(e) => \A a \in 0 .. NumParts : Upto(box[e], a) => a <= 0
    OBVIOUS
  <1>9. Moves(e, s, row, NewRecord, 0)
    BY <1>1, <1>2, <1>5, <1>6, <1>7, <1>8 DEF Moves
  <1> QED
    BY <1>5, <1>9

\* The task of the table of retries is scheduled.
LEMMA ScheduleMoves ==
  ASSUME TypeOK, SendInv, NEW e \in Notes, Recorded(e),
         box' = box, worker' = [worker EXCEPT ![e] = Scheduled(@)]
  PROVE  \E parts, b : Moves(e, "retry", Scheduled(worker[e]), parts, b)
  <1> DEFINE old == worker[e]
             row == Scheduled(old)
  <1>1. /\ NumParts \in Nat /\ "retry" \in Slots /\ e \in Entries /\ old \in [Slots -> Worker]
        /\ worker' = [worker EXCEPT ![e] = row]
    BY TelegramAssumption DEF TypeOK, Slots, Entries
  <1>2. PICK b \in 0 .. NumParts : box[e] \in Parts /\ Upto(box[e], b)
    BY <1>1, RecordUpto
  <1>3. Waiting \in Worker /\ Waiting.pc = "waiting"
    BY <1>1 DEF Waiting, Idle, Worker
  <1>4. row = IF old["retry"].pc = "idle" THEN [old EXCEPT !["retry"] = Waiting] ELSE old
    BY DEF Scheduled
  <1>5. \A a \in 0 .. NumParts : Upto(box[e], a) => a <= b
    BY <1>1, <1>2, UptoUnique
  <1>6. box' = [box EXCEPT ![e] = box[e]]
    BY DEF TypeOK
  <1> HIDE DEF old, row
  <1>7. RowStep(old, row, "retry")
    BY <1>1, <1>3, <1>4 DEF RowStep
  <1>8. ASSUME row["retry"].pc = "sending"
        PROVE  /\ row["retry"] = old["retry"] /\ row["retry"].seen \in Parts
               /\ \E c \in 0 .. NumParts : /\ Upto(row["retry"].seen, c)
                                           /\ c < row["retry"].part
                                           /\ row["retry"].part <= b + 1
    <2>1. row["retry"] = old["retry"] /\ worker[e]["retry"].pc = "sending"
      BY <1>1, <1>3, <1>4, <1>8 DEF old
    <2>2. /\ worker[e]["retry"].seen \in Parts /\ worker[e]["retry"].part \in 1 .. NumParts
          /\ \E c, d \in 0 .. NumParts :
                /\ Upto(worker[e]["retry"].seen, c) /\ Upto(box[e], d)
                /\ c < worker[e]["retry"].part /\ worker[e]["retry"].part <= d + 1
      BY <1>1, <2>1, Sending
    <2> QED
      BY <1>2, <2>1, <2>2, UptoUnique DEF old
  <1>9. Moves(e, "retry", row, box[e], b)
    BY <1>1, <1>2, <1>5, <1>6, <1>7, <1>8 DEF Moves, old
  <1> QED
    BY <1>9 DEF row, old

\* A part is marked as sent, the next one is sent.
LEMMA SentMoves ==
  ASSUME TypeOK, SendInv, NEW e \in Entries, NEW s \in Slots, SendOk(e, s)
  PROVE  /\ \E row, parts, b : Moves(e, s, row, parts, b)
         /\ shown' = [shown EXCEPT ![e] = @ \cup {worker[e][s].part}]
         /\ worker[e][s].part \in 1 .. NumParts
         /\ \E c \in 0 .. NumParts :
              /\ Upto(box[e], c) /\ worker[e][s].part <= c + 1
              /\ Upto(box'[e], IF worker[e][s].part > c THEN worker[e][s].part ELSE c)
  <1> DEFINE w == worker[e][s]
             p == w.part
             row == Proceed(worker[e], s, w.seen, p)
             parts == [box[e] EXCEPT ![p].status = "sent"]
  <1>1. /\ NumParts \in Nat /\ worker[e] \in [Slots -> Worker]
        /\ box \in [Entries -> {<<>>} \cup Parts]
    BY TelegramAssumption DEF TypeOK, Parts
  <1>2. /\ w.pc = "sending" /\ shown' = [shown EXCEPT ![e] = @ \cup {p}]
        /\ box' = [box EXCEPT ![e] = parts] /\ worker' = [worker EXCEPT ![e] = row]
    BY DEF SendOk, PartSent
  <1>3. Recorded(e) /\ box[e] \in Parts /\ w.seen \in Parts /\ p \in 1 .. NumParts
    BY <1>2, Sending
  <1>4. PICK c \in 0 .. NumParts, b \in 0 .. NumParts :
           Upto(w.seen, c) /\ Upto(box[e], b) /\ c < p /\ p <= b + 1
    BY <1>2, Sending
  <1> DEFINE d == IF p > b THEN p ELSE b
  <1>5. d \in 0 .. NumParts /\ b <= d
    BY <1>1, <1>3, <1>4
  <1>6. parts \in Parts /\ Upto(parts, d)
    <2> DEFINE part == [box[e][p] EXCEPT !.status = "sent"]
    <2>1. /\ parts \in Parts /\ parts[p].status = "sent"
          /\ \A i \in (1 .. NumParts) \ {p} : parts[i] = box[e][i]
      <3> HIDE DEF p
      <3>1. box[e] \in [1 .. NumParts -> Part] /\ p \in 1 .. NumParts
        BY <1>3 DEF Parts
      <3>2. box[e][p] \in Part
        BY <3>1
      <3>3. part \in Part /\ part.status = "sent"
        BY <3>2 DEF Part
      <3>4. parts = [box[e] EXCEPT ![p] = part]
        OBVIOUS
      <3> HIDE DEF part, parts
      <3> QED
        BY <3>1, <3>3, <3>4 DEF Parts
    <2> HIDE DEF parts, p
    <2>2. \A i \in 1 .. NumParts : parts[i].status = "sent" <=> i <= d
      <3> SUFFICES ASSUME NEW i \in 1 .. NumParts PROVE parts[i].status = "sent" <=> i <= d
        OBVIOUS
      <3>1. box[e][i].status = "sent" <=> i <= b
        BY <1>4 DEF Upto
      <3>2. i = p \/ parts[i] = box[e][i]
        BY <2>1
      <3> QED
        BY <1>1, <1>3, <1>4, <2>1, <3>1, <3>2
    <2> QED
      BY <1>5, <2>1, <2>2 DEF Upto
  <1>7. p = IF c > p THEN c ELSE p
    BY <1>1, <1>3, <1>4
  <1> HIDE DEF row, parts, d, p, w
  <1>8. /\ RowStep(worker[e], row, s)
        /\ row[s].pc = "sending" => p < NumParts /\ row[s].part = p + 1 /\ row[s].seen = w.seen
    <2>1. p \in 0 .. NumParts /\ row = Proceed(worker[e], s, w.seen, p)
      BY <1>1, <1>3 DEF row
    <2> QED
      BY <1>1, <1>3, <1>4, <1>7, <2>1, Proceeds
  <1>9. \A a \in 0 .. NumParts : Upto(box[e], a) => a <= d
    BY <1>1, <1>3, <1>4, <1>5, UptoUnique
  <1>10. ASSUME row[s].pc = "sending"
         PROVE  /\ row[s].seen \in Parts
                /\ \E x \in 0 .. NumParts : /\ Upto(row[s].seen, x)
                                            /\ x < row[s].part /\ row[s].part <= d + 1
                /\ row[s].part = d + 1 \/ box[e][p].status = "sent"
    <2>1. c < p + 1 /\ p + 1 <= d + 1
      BY <1>1, <1>3, <1>4 DEF d
    <2>2. p = d \/ box[e][p].status = "sent"
      BY <1>1, <1>3, <1>4 DEF d, Upto
    <2> QED
      BY <1>3, <1>4, <1>8, <1>10, <2>1, <2>2
  <1>11. Moves(e, s, row, parts, d)
    BY <1>2, <1>5, <1>6, <1>8, <1>9, <1>10 DEF Moves, w, p
  <1>12. box'[e] = parts
    BY <1>1, <1>2
  <1> QED
    BY <1>2, <1>3, <1>4, <1>6, <1>11, <1>12 DEF d, p, w

\* A part has failed: the call ends, and schedules a retry or none.
LEMMA FailedMoves ==
  ASSUME TypeOK, SendInv, NEW e \in Entries, NEW s \in Slots, NEW arrived \in BOOLEAN,
         SendRetryable(e, s, arrived) \/ SendRefused(e, s, arrived)
  PROVE  /\ \E row, parts, b : Moves(e, s, row, parts, b)
         /\ shown' = IF arrived THEN [shown EXCEPT ![e] = @ \cup {worker[e][s].part}] ELSE shown
         /\ worker[e][s].part \in 1 .. NumParts
         /\ \E c \in 0 .. NumParts :
               Upto(box[e], c) /\ worker[e][s].part <= c + 1 /\ Upto(box'[e], c)
  <1> DEFINE w == worker[e][s]
             p == w.part
             stopped == [worker[e] EXCEPT ![s] = Idle]
  <1>1. /\ NumParts \in Nat /\ worker[e] \in [Slots -> Worker]
        /\ box \in [Entries -> {<<>>} \cup Parts]
    BY TelegramAssumption DEF TypeOK, Parts
  <1>2. /\ w.pc = "sending"
        /\ shown' = IF arrived THEN [shown EXCEPT ![e] = @ \cup {p}] ELSE shown
    BY DEF SendRetryable, SendRefused
  <1>3. PICK due \in Dues : box' = PartFailed(e, p, due)
    BY DEF SendRetryable, SendRefused, Dues
  <1>4. PICK row \in {stopped, Scheduled(stopped)} : worker' = [worker EXCEPT ![e] = row]
    <2>1. CASE SendRetryable(e, s, arrived)
      BY <2>1 DEF SendRetryable
    <2>2. CASE SendRefused(e, s, arrived)
      BY <2>2 DEF SendRefused
    <2> QED
      BY <2>1, <2>2
  <1>5. Recorded(e) /\ box[e] \in Parts /\ w.seen \in Parts /\ p \in 1 .. NumParts
    BY <1>2, Sending
  <1>6. PICK b \in 0 .. NumParts : Upto(box[e], b) /\ p <= b + 1
    BY <1>2, Sending
  <1>7. PICK parts \in Parts : box' = [box EXCEPT ![e] = parts] /\ Upto(parts, b)
    <2>1. CASE box[e][p].status = "sent"
      <3>1. box' = [box EXCEPT ![e] = box[e]]
        BY <1>1, <1>3, <2>1 DEF PartFailed
      <3> QED
        BY <1>5, <1>6, <3>1
    <2>2. CASE box[e][p].status # "sent"
      <3> DEFINE parts == [box[e] EXCEPT ![p] = [status |-> "failed", due |-> due]]
      <3>1. box' = [box EXCEPT ![e] = parts]
        BY <1>3, <2>2 DEF PartFailed
      <3>2. parts \in Parts /\ Upto(parts, b)
        BY <1>3, <1>5, <1>6, <2>2 DEF Parts, Part, Upto
      <3> QED
        BY <3>1, <3>2
    <2> QED
      BY <2>1, <2>2
  <1> HIDE DEF p, w, stopped
  <1>8. RowStep(worker[e], row, s) /\ row[s].pc # "sending"
    BY <1>1, <1>4, Retries DEF stopped
  <1>9. \A a \in 0 .. NumParts : Upto(box[e], a) => a <= b
    BY <1>1, <1>5, <1>6, UptoUnique
  <1>10. Moves(e, s, row, parts, b)
    BY <1>4, <1>7, <1>8, <1>9 DEF Moves
  <1>11. box'[e] = parts
    BY <1>1, <1>7
  <1> QED
    BY <1>2, <1>5, <1>6, <1>7, <1>10, <1>11 DEF p, w

\* Time moves no part and no call.
LEMMA ElapseKeeps ==
  ASSUME TypeOK, SendInv, NEW e \in Entries, NEW p \in 1 .. NumParts, Elapse(e, p)
  PROVE  /\ CallsOK' /\ box' \in [Entries -> {<<>>} \cup Parts]
         /\ \A x \in Entries, t \in Slots :
               worker'[x][t].pc = worker[x][t].pc /\ worker'[x][t].part = worker[x][t].part
         /\ \A x \in Entries : Recorded(x)' <=> Recorded(x)
         /\ \A x \in Entries, i \in 1 .. NumParts :
               Recorded(x) => box'[x][i].status = box[x][i].status
         /\ \A x \in Entries : \A c : Recorded(x) => (Upto(box'[x], c) <=> Upto(box[x], c))
         /\ SendInv'
  <1> DEFINE parts == [box[e] EXCEPT ![p].due = "due"]
             row == [s \in Slots |->
                       IF worker[e][s].pc = "sending" /\ worker[e][s].seen[p].due = "later"
                       THEN [worker[e][s] EXCEPT !.seen[p].due = "due"] ELSE worker[e][s]]
  <1>1. /\ NumParts \in Nat /\ worker \in [Entries -> [Slots -> Worker]]
        /\ box \in [Entries -> {<<>>} \cup Parts]
    BY TelegramAssumption DEF TypeOK, Parts
  <1>2. /\ Recorded(e) /\ box' = [box EXCEPT ![e] = parts] /\ worker' = [worker EXCEPT ![e] = row]
        /\ poll' = poll
    BY DEF Elapse
  <1>3. box[e] \in Parts
    BY <1>2, RecordUpto
  <1>4. parts \in Parts /\ \A i \in 1 .. NumParts : parts[i].status = box[e][i].status
    BY <1>3 DEF Parts, Part, Dues
  <1>5. ASSUME NEW s \in Slots
        PROVE  /\ row[s] \in Worker
               /\ row[s].pc = worker[e][s].pc /\ row[s].part = worker[e][s].part
               /\ worker[e][s].pc = "sending" =>
                     /\ row[s].seen \in Parts
                     /\ \A i \in 1 .. NumParts :
                           row[s].seen[i].status = worker[e][s].seen[i].status
    <2> DEFINE w == worker[e][s]
    <2>1. w \in Worker
      BY <1>1
    <2>2. CASE w.pc = "sending" /\ w.seen[p].due = "later"
      <3>1. w.seen \in Parts
        BY <2>2, Sending
      <3> DEFINE seen == [w.seen EXCEPT ![p].due = "due"]
      <3>2. seen \in Parts /\ \A i \in 1 .. NumParts : seen[i].status = w.seen[i].status
        BY <3>1 DEF Parts, Part, Dues
      <3>3. row[s] = [w EXCEPT !.seen = seen]
        BY <2>2
      <3> HIDE DEF row, seen, w
      <3>4. /\ row[s] \in Worker /\ row[s].pc = w.pc /\ row[s].part = w.part
            /\ row[s].seen = seen
        BY <2>1, <3>2, <3>3 DEF Worker, Parts
      <3> QED
        BY <3>2, <3>4 DEF w
    <2>3. CASE ~(w.pc = "sending" /\ w.seen[p].due = "later")
      <3>1. row[s] = w
        BY <2>3
      <3> QED
        BY <2>1, <3>1, Sending
    <2> QED
      BY <2>2, <2>3
  <1>6. /\ box' \in [Entries -> {<<>>} \cup Parts] /\ box'[e] = parts
        /\ \A x \in Entries \ {e} : box'[x] = box[x]
    BY <1>1, <1>2, <1>4
  <1> HIDE DEF parts
  <1>7. row \in [Slots -> Worker]
    BY <1>5
  <1> HIDE DEF row
  <1>8. /\ worker' \in [Entries -> [Slots -> Worker]] /\ worker'[e] = row
        /\ \A x \in Entries \ {e} : worker'[x] = worker[x]
    BY <1>1, <1>2, <1>7
  <1>9. \A x \in Entries : Recorded(x)' <=> Recorded(x)
    BY <1>2, <1>4, <1>6, NoParts DEF Recorded
  <1>10. \A x \in Entries, i \in 1 .. NumParts :
            Recorded(x) => box'[x][i].status = box[x][i].status
    BY <1>4, <1>6
  <1>11. \A x \in Entries : \A c : Recorded(x) => (Upto(box'[x], c) <=> Upto(box[x], c))
    BY <1>10 DEF Upto
  <1>12. \A x \in Entries, t \in Slots :
            worker'[x][t].pc = worker[x][t].pc /\ worker'[x][t].part = worker[x][t].part
    BY <1>5, <1>8
  <1>13. ASSUME NEW x \in Entries, NEW t \in Slots, worker[x][t].pc = "sending"
         PROVE  /\ worker'[x][t].seen \in Parts
                /\ \A i \in 1 .. NumParts :
                      worker'[x][t].seen[i].status = worker[x][t].seen[i].status
    BY <1>5, <1>8, <1>13, Sending
  <1>14. CallsOK'
    <2> SUFFICES ASSUME NEW x \in Entries, NEW t \in Slots, worker'[x][t].pc = "sending"
                 PROVE  worker'[x][t].part # 0 /\ worker'[x][t].seen # <<>>
      BY <1>8 DEF CallsOK
    <2>1. worker[x][t].pc = "sending" /\ worker'[x][t].part = worker[x][t].part
      BY <1>12
    <2>2. worker[x][t].part # 0
      BY <2>1 DEF TypeOK
    <2> QED
      BY <1>13, <2>1, <2>2, NoParts
  <1>15. ASSUME NEW x \in Entries, NEW t \in Slots PROVE CellInv(x, t)'
    <2>1. CellInv(x, t)
      BY DEF SendInv
    <2>2. ASSUME worker[x][t].pc = "sending"
          PROVE  \E c, b : /\ Upto(worker'[x][t].seen, c) /\ Upto(box'[x], b)
                           /\ c < worker'[x][t].part /\ worker'[x][t].part <= b + 1
      <3>1. PICK c \in 0 .. NumParts, b \in 0 .. NumParts :
               /\ Recorded(x) /\ Upto(worker[x][t].seen, c) /\ Upto(box[x], b)
               /\ c < worker[x][t].part /\ worker[x][t].part <= b + 1
        BY <2>2, Sending
      <3>2. Upto(worker'[x][t].seen, c)
        BY <1>13, <2>2, <3>1 DEF Upto
      <3> QED
        BY <1>11, <1>12, <3>1, <3>2
    <2> QED
      BY <1>2, <1>9, <1>12, <2>1, <2>2 DEF CellInv, Up
  <1>16. SendInv'
    BY <1>9, <1>11, <1>15 DEF SendInv
  <1> QED
    BY <1>6, <1>9, <1>10, <1>11, <1>12, <1>14, <1>16

\* Where neither calls nor records change.
LEMMA CallsStay ==
  ASSUME TypeOK, SendInv, worker' = worker, box' = box, poll = "down" \/ poll' # "down"
  PROVE  SendInv' /\ CallsOK' /\ box' \in [Entries -> {<<>>} \cup Parts]
  <1>1. CallsOK' /\ box' \in [Entries -> {<<>>} \cup Parts]
    BY DEF TypeOK, CallsOK, Parts
  <1>2. ASSUME NEW x \in Entries, NEW t \in Slots PROVE CellInv(x, t)'
    <2>1. CellInv(x, t)
      BY DEF SendInv
    <2> QED
      BY <2>1 DEF CellInv, Up, Recorded, Upto
  <1> QED
    BY <1>1, <1>2 DEF SendInv, Recorded, Upto

\* Where no call is left, and at most one record is new.
LEMMA CallsEnd ==
  ASSUME TypeOK, SendInv, worker' = [e \in Entries |-> [s \in Slots |-> Idle]],
         box' = box \/ \E e \in Entries : box' = Prepared(e)
  PROVE  SendInv' /\ CallsOK' /\ box' \in [Entries -> {<<>>} \cup Parts]
  <1>1. Idle \in Worker /\ Idle.pc = "idle"
    BY TelegramAssumption DEF Idle, Worker
  <1>2. /\ worker' \in [Entries -> [Slots -> Worker]]
        /\ \A x \in Entries, t \in Slots : worker'[x][t].pc = "idle"
    BY <1>1
  <1>3. box \in [Entries -> {<<>>} \cup Parts]
    BY DEF TypeOK, Parts
  <1>4. /\ box' \in [Entries -> {<<>>} \cup Parts]
        /\ \A x \in Entries : box'[x] = box[x] \/ box'[x] = NewRecord
    BY <1>3, NewTyped DEF Prepared
  <1>5. CallsOK'
    BY <1>2 DEF CallsOK
  <1>6. \A x \in Entries, t \in Slots : CellInv(x, t)'
    BY <1>2 DEF CellInv
  <1>7. ASSUME NEW x \in Entries, Recorded(x)' PROVE \E c : Upto(box'[x], c)
    <2>1. CASE box'[x] = box[x]
      BY <1>7, <2>1 DEF SendInv, Recorded
    <2>2. CASE box'[x] = NewRecord
      BY <2>2, NewTyped
    <2> QED
      BY <1>4, <2>1, <2>2
  <1>8. \A x \in Entries : Recorded(x)' => (\E c : Upto(box[x], c))'
    BY <1>7 DEF Upto
  <1> QED
    BY <1>4, <1>5, <1>6, <1>8 DEF SendInv

\* Retries of several records are scheduled at once.
LEMMA ManyScheduled ==
  ASSUME TypeOK, SendInv, Up, poll' # "down", box' = box,
         worker' = [e \in Entries |-> IF e \in PendingDeliveries
                                     THEN Scheduled(worker[e]) ELSE worker[e]]
  PROVE  /\ SendInv' /\ CallsOK' /\ box' \in [Entries -> {<<>>} \cup Parts]
         /\ \A x \in Entries, t \in Slots :
               \/ worker'[x][t] = worker[x][t]
               \/ /\ x \in PendingDeliveries /\ t = "retry"
                  /\ worker[x][t].pc = "idle" /\ worker'[x][t].pc = "waiting"
  <1>1. /\ NumParts \in Nat /\ worker \in [Entries -> [Slots -> Worker]] /\ "retry" \in Slots
        /\ box' \in [Entries -> {<<>>} \cup Parts]
    BY TelegramAssumption DEF TypeOK, Parts, Slots
  <1>8. \A e \in PendingDeliveries : Recorded(e)
    BY DEF PendingDeliveries
  <1>2. Waiting \in Worker /\ Waiting.pc = "waiting"
    BY <1>1 DEF Waiting, Idle, Worker
  <1>3. ASSUME NEW x \in Entries
        PROVE  /\ worker'[x] \in [Slots -> Worker]
               /\ \A t \in Slots :
                    \/ worker'[x][t] = worker[x][t]
                    \/ /\ x \in PendingDeliveries /\ t = "retry"
                       /\ worker[x][t].pc = "idle" /\ worker'[x][t] = Waiting
    <2>1. CASE x \in PendingDeliveries /\ worker[x]["retry"].pc = "idle"
      <3>1. worker'[x] = [worker[x] EXCEPT !["retry"] = Waiting]
        BY <2>1 DEF Scheduled
      <3> QED
        BY <1>1, <1>2, <2>1, <3>1
    <2>2. CASE ~(x \in PendingDeliveries /\ worker[x]["retry"].pc = "idle")
      <3>1. worker'[x] = worker[x]
        BY <2>2 DEF Scheduled
      <3> QED
        BY <1>1, <3>1
    <2> QED
      BY <2>1, <2>2
  <1>4. worker' \in [Entries -> [Slots -> Worker]]
    BY <1>3
  <1>5. CallsOK'
    BY <1>2, <1>3, <1>4 DEF CallsOK, TypeOK
  <1>6. ASSUME NEW x \in Entries, NEW t \in Slots PROVE CellInv(x, t)'
    <2>1. CellInv(x, t) /\ (Recorded(x)' <=> Recorded(x))
      BY DEF SendInv, Recorded
    <2>2. CASE worker'[x][t] = worker[x][t]
      BY <2>1, <2>2 DEF CellInv, Up, Upto
    <2>3. CASE worker'[x][t] # worker[x][t]
      BY <1>2, <1>3, <1>8, <2>1, <2>3 DEF CellInv, Up
    <2> QED
      BY <2>2, <2>3
  <1>7. SendInv'
    BY <1>6 DEF SendInv, Recorded, Upto
  <1> QED
    BY <1>1, <1>2, <1>3, <1>5, <1>7

\* The result of an update still has one sender, of a part not yet sent.
LEMMA SoloMoves ==
  ASSUME TypeOK, SendInv, SoloInv, NEW e \in Updates, NEW s \in Slots, s # "replay",
         NEW row, NEW parts, NEW b, Moves(e, s, row, parts, b),
         worker[e][s].pc # "idle" \/ \A t \in Slots : worker[e][t].pc = "idle"
  PROVE  /\ \A t, v \in Slots :
               worker'[e][t].pc # "idle" /\ worker'[e][v].pc # "idle" => t = v
         /\ \A t \in Slots : worker'[e][t].pc = "sending" =>
               box'[e][worker'[e][t].part].status # "sent"
         /\ worker'[e]["replay"].pc = "idle"
         /\ worker'[e] = row
         /\ \A t \in Slots \ {s, "retry"} : row[t] = worker[e][t]
  <1>1. /\ NumParts \in Nat /\ e \in Entries /\ e \notin Notes /\ "replay" \in Slots
        /\ worker' = [worker EXCEPT ![e] = row] /\ RowStep(worker[e], row, s)
        /\ parts \in Parts /\ box' = [box EXCEPT ![e] = parts]
        /\ b \in 0 .. NumParts /\ Upto(parts, b)
    BY TelegramAssumption DEF Moves, Entries, Updates, Slots
  <1>2. worker'[e] = row /\ box'[e] = parts
    BY <1>1 DEF TypeOK
  <1>3. Solo(e)
    BY DEF SoloInv
  <1>4. \A t \in Slots \ {s} : worker[e][t].pc = "idle"
    BY <1>3 DEF Solo
  <1>5. \A t \in Slots \ {s} :
           \/ row[t] = worker[e][t] /\ row[t].pc = "idle"
           \/ t = "retry" /\ row[t].pc = "waiting" /\ row[s].pc = "idle"
    BY <1>1, <1>4 DEF RowStep, Waiting, Idle
  <1>6. \A t, v \in Slots : row[t].pc # "idle" /\ row[v].pc # "idle" => t = v
    BY <1>5
  <1>7. ASSUME NEW t \in Slots, row[t].pc = "sending"
        PROVE  parts[row[t].part].status # "sent"
    <2>1. t = s
      BY <1>5, <1>7
    <2>2. row[s].part = b + 1
      BY <1>1, <1>3, <1>7, <2>1 DEF Moves, Solo
    <2>3. row[s].part \in 0 .. NumParts
      BY <1>1 DEF RowStep, Worker
    <2>4. b + 1 \in 1 .. NumParts /\ ~(b + 1 <= b)
      BY <1>1, <2>2, <2>3
    <2> QED
      BY <1>1, <2>1, <2>2, <2>4 DEF Upto
  <1>8. row["replay"].pc = "idle"
    BY <1>1, <1>5
  <1> QED
    BY <1>2, <1>5, <1>6, <1>7, <1>8

-----------------------------------------------------------------------------
(* Steps of the whole, one lemma per action *)

\* Types of what is neither a record nor a call.
TablesOK ==
    /\ incoming \in [Entries -> Kinds]
    /\ confirmedTo \in 1 .. NumUpdates + 1 /\ nextOffset \in 1 .. NumUpdates + 1
    /\ updates \in [Updates -> Statuses]
    /\ token \in {"pending", "processing", "completed", "failed", "interrupted"}
    /\ poll \in {"down", "notes", "updates", "polling"}
    /\ todo \subseteq Entries
    /\ handler \in [Updates -> {"none", "start", "ack", "exec", "tell", "deliver"}]
    /\ shown \in [Entries -> SUBSET (1 .. NumParts)]
    /\ ran \in [Updates -> 0 .. 2]
    /\ faults \in 0 .. MaxFaults[incoming] /\ downs \in 0 .. MaxDowns

\* The inductive invariant.
DeliveryInv ==
    /\ TypeOK /\ OffsetInv /\ HandlerInv /\ RanInv /\ TodoInv /\ SendInv /\ SoloInv

\* Types, put together again.
LEMMA TypesApart ==
  ASSUME TablesOK', CallsOK', box' \in [Entries -> {<<>>} \cup Parts]
  PROVE  TypeOK'
  BY DEF TypeOK, TablesOK, CallsOK, Parts

\* A call under way goes on: nothing else but its handler moves.
LEMMA DeliveryStep ==
  ASSUME DeliveryInv, NEW e \in Entries, NEW s \in Slots, worker[e][s].pc # "idle", Up,
         UNCHANGED <<incoming, confirmedTo, updates, nextOffset, token, poll, todo, ran>>,
         NEW row, NEW parts, NEW b, Moves(e, s, row, parts, b),
         handler' = HandlerAfter(e, s, worker'[e]), TablesOK'
  PROVE  DeliveryInv'
  <1>1. /\ TypeOK /\ OffsetInv /\ HandlerInv /\ RanInv /\ TodoInv /\ SendInv /\ SoloInv
    BY DEF DeliveryInv
  <1>2. SendInv' /\ TypeOK'
    <2>1. poll' # "down"
      BY DEF Up
    <2>2. SendInv' /\ CallsOK' /\ box' \in [Entries -> {<<>>} \cup Parts]
      BY <1>1, <2>1, SendFrame
    <2> QED
      BY <2>2, TypesApart
  <1>3. /\ Recorded(e) /\ CellInv(e, s)
        /\ worker' = [worker EXCEPT ![e] = row] /\ box' = [box EXCEPT ![e] = parts]
        /\ parts \in Parts
        /\ RowStep(worker[e], row, s)
    BY <1>1 DEF SendInv, CellInv, Moves
  <1>4. /\ \A x \in Entries : Recorded(x)' <=> Recorded(x)
        /\ \A x \in Entries \ {e} : worker'[x] = worker[x] /\ box'[x] = box[x]
    BY <1>1, <1>3, NoParts DEF Recorded, TypeOK
  <1>5. OffsetInv' /\ RanInv'
    BY <1>1 DEF OffsetInv, RanInv
  <1>6. TodoInv'
    BY <1>1, <1>4 DEF TodoInv, TypeOK, Entries
  <1>7. \A u \in Updates : u \in Entries
    BY DEF Entries
  <1>8. CASE e \in Updates /\ s = "direct" /\ row["direct"].pc = "idle"
    <2>1. worker'[e] = row /\ handler' = [handler EXCEPT ![e] = "none"]
      BY <1>1, <1>3, <1>8 DEF HandlerAfter, TypeOK
    <2>2. handler[e] = "deliver" /\ Solo(e) /\ HandlerOf(e)
      BY <1>1, <1>8 DEF SoloInv, Solo, HandlerInv
    <2>3. /\ handler'[e] = "none" /\ \A u \in Updates \ {e} : handler'[u] = handler[u]
      BY <1>1, <1>8, <2>1 DEF TypeOK
    <2>4. ASSUME NEW u \in Updates PROVE HandlerOf(u)'
      <3>1. CASE u = e
        <4>1. updates[e] \in Closed /\ poll = "polling" /\ updates[e] \notin Open
          BY <2>2 DEF HandlerOf, Closed
        <4> QED
          BY <2>3, <3>1, <4>1 DEF HandlerOf, Open, Closed
      <3>2. CASE u # e
        BY <1>1, <1>4, <1>7, <2>3, <3>2 DEF HandlerInv, HandlerOf
      <3> QED
        BY <3>1, <3>2
    <2>5. ASSUME NEW u \in Updates PROVE Solo(u)'
      <3>1. CASE u = e
        <4>1. /\ \A t, v \in Slots :
                    worker'[e][t].pc # "idle" /\ worker'[e][v].pc # "idle" => t = v
              /\ \A t \in Slots : worker'[e][t].pc = "sending" =>
                    box'[e][worker'[e][t].part].status # "sent"
              /\ worker'[e]["replay"].pc = "idle"
              /\ worker'[e] = row
              /\ \A t \in Slots \ {s, "retry"} : row[t] = worker[e][t]
          BY <1>1, <1>8, SoloMoves
        <4>2. "poll" \in Slots \ {s, "retry"} /\ poll = "polling"
          BY <1>8, <2>2 DEF Slots, HandlerOf
        <4> QED
          BY <1>8, <2>2, <2>3, <3>1, <4>1, <4>2 DEF Solo
      <3>2. CASE u # e
        BY <1>1, <1>4, <1>7, <2>3, <3>2 DEF SoloInv, Solo
      <3> QED
        BY <3>1, <3>2
    <2> QED
      BY <1>2, <1>5, <1>6, <2>4, <2>5, <1>1 DEF DeliveryInv, HandlerInv, SoloInv
  <1>9. CASE ~(e \in Updates /\ s = "direct" /\ row["direct"].pc = "idle")
    <2>1. worker'[e] = row /\ handler' = handler
      BY <1>1, <1>3, <1>9 DEF HandlerAfter, TypeOK
    <2>2. HandlerInv'
      BY <1>1, <1>4, <1>7, <2>1 DEF HandlerInv, HandlerOf
    <2>3. ASSUME NEW u \in Updates PROVE Solo(u)'
      <3>1. CASE u = e
        <4>1. Solo(e) /\ s # "replay" /\ e \in Updates
          BY <1>1, <3>1 DEF SoloInv, Solo
        <4>2. /\ \A t, v \in Slots :
                    worker'[e][t].pc # "idle" /\ worker'[e][v].pc # "idle" => t = v
              /\ \A t \in Slots : worker'[e][t].pc = "sending" =>
                    box'[e][worker'[e][t].part].status # "sent"
              /\ worker'[e]["replay"].pc = "idle"
              /\ worker'[e] = row
              /\ \A t \in Slots \ {s, "retry"} : row[t] = worker[e][t]
          BY <1>1, <4>1, SoloMoves
        <4>3. worker'[e]["direct"].pc # "idle" <=> handler'[e] = "deliver"
          BY <1>9, <2>1, <4>1, <4>2 DEF Solo, Slots
        <4>4. worker'[e]["poll"].pc # "idle" => poll = "updates"
          BY <4>1, <4>2 DEF Solo, Slots
        <4>5. poll \notin {"down", "notes"}
          BY <4>1 DEF Solo
        <4> QED
          BY <3>1, <4>2, <4>3, <4>4, <4>5 DEF Solo
      <3>2. CASE u # e
        BY <1>1, <1>4, <1>7, <2>1, <3>2 DEF SoloInv, Solo
      <3> QED
        BY <3>1, <3>2
    <2> QED
      BY <1>2, <1>5, <1>6, <2>2, <2>3, <1>1 DEF DeliveryInv, SoloInv
  <1> QED
    BY <1>8, <1>9

\* A call of a notification moves: nothing of an update does.
LEMMA NoteStep ==
  ASSUME DeliveryInv, NEW e \in Notes, NEW s \in Slots, Up,
         UNCHANGED <<incoming, confirmedTo, updates, nextOffset, token, poll, handler, ran>>,
         todo' \subseteq todo,
         NEW row, NEW parts, NEW b, Moves(e, s, row, parts, b), TablesOK'
  PROVE  DeliveryInv'
  <1>1. /\ TypeOK /\ OffsetInv /\ HandlerInv /\ RanInv /\ TodoInv /\ SendInv /\ SoloInv
    BY DEF DeliveryInv
  <1>2. /\ e \in Entries /\ \A u \in Updates : u \in Entries \ {e}
    BY TelegramAssumption DEF Entries, Updates
  <1>3. poll' # "down"
    BY DEF Up
  <1>4. SendInv' /\ CallsOK' /\ box' \in [Entries -> {<<>>} \cup Parts]
    BY <1>1, <1>2, <1>3, SendFrame
  <1>5. TypeOK'
    BY <1>4, TypesApart
  <1>6. /\ worker' = [worker EXCEPT ![e] = row] /\ box' = [box EXCEPT ![e] = parts]
        /\ parts \in Parts
    BY DEF Moves
  <1>7. /\ Recorded(e)'
        /\ \A x \in Entries \ {e} : Recorded(x)' <=> Recorded(x)
        /\ \A x \in Entries \ {e} : worker'[x] = worker[x] /\ box'[x] = box[x]
    BY <1>1, <1>2, <1>6, NoParts DEF Recorded, TypeOK
  <1>8. OffsetInv' /\ RanInv'
    BY <1>1 DEF OffsetInv, RanInv
  <1>9. TodoInv'
    BY <1>1, <1>2, <1>7 DEF TodoInv, TypeOK, Entries
  <1>10. HandlerInv'
    BY <1>1, <1>2, <1>7 DEF HandlerInv, HandlerOf
  <1>11. ASSUME NEW u \in Updates PROVE Solo(u)'
    BY <1>1, <1>2, <1>7 DEF SoloInv, Solo
  <1> QED
    BY <1>4, <1>5, <1>8, <1>9, <1>10, <1>11 DEF DeliveryInv, SoloInv

\* The task of the retry table wakes up.
LEMMA WakeKeeps ==
  ASSUME DeliveryInv, NEW e \in Entries, NEW s \in Slots, Wake(e, s)
  PROVE  DeliveryInv'
  <1>1. TypeOK /\ SendInv /\ CellInv(e, s)
    BY DEF DeliveryInv, SendInv
  <1>2. /\ Up /\ worker[e][s].pc = "waiting" /\ box' = box
        /\ worker' = [worker EXCEPT ![e] = Begin(@, s, box[e])]
        /\ UNCHANGED <<incoming, confirmedTo, updates, nextOffset, token, poll, todo, ran>>
        /\ UNCHANGED <<handler, shown, faults, downs>>
    BY DEF Wake, telegram, tables, counters
  <1>3. s = "retry" /\ Recorded(e)
    BY <1>1, <1>2 DEF CellInv
  <1>4. PICK row, parts, b : Moves(e, s, row, parts, b)
    BY <1>1, <1>2, <1>3, BeginMoves
  <1>5. handler' = HandlerAfter(e, s, worker'[e])
    BY <1>2, <1>3 DEF HandlerAfter
  <1>6. TablesOK'
    BY <1>1, <1>2 DEF TypeOK, TablesOK
  <1> QED
    BY <1>2, <1>4, <1>5, <1>6, DeliveryStep

\* A send is answered or fails.
LEMMA SendKeeps ==
  ASSUME DeliveryInv, NEW e \in Entries, NEW s \in Slots, NEW arrived \in BOOLEAN,
         SendOk(e, s) \/ SendRetryable(e, s, arrived) \/ SendRefused(e, s, arrived)
  PROVE  DeliveryInv'
  <1>1. TypeOK /\ SendInv
    BY DEF DeliveryInv
  <1>2. /\ Up /\ worker[e][s].pc = "sending"
        /\ UNCHANGED <<incoming, confirmedTo, updates, nextOffset, token, poll, todo, ran, downs>>
        /\ handler' = HandlerAfter(e, s, worker'[e])
        /\ faults' = faults \/ (faults < MaxFaults[incoming] /\ faults' = faults + 1)
    <2>1. CASE SendOk(e, s)
      BY <2>1 DEF SendOk, telegram, counters
    <2>2. CASE SendRetryable(e, s, arrived)
      BY <2>2 DEF SendRetryable, telegram
    <2>3. CASE SendRefused(e, s, arrived)
      BY <2>3 DEF SendRefused, telegram
    <2> QED
      BY <2>1, <2>2, <2>3
  <1>3. /\ \E row, parts, b : Moves(e, s, row, parts, b)
        /\ worker[e][s].part \in 1 .. NumParts
        /\ \/ shown' = [shown EXCEPT ![e] = @ \cup {worker[e][s].part}]
           \/ shown' = shown
    BY <1>1, SentMoves, FailedMoves
  <1>4. PICK row, parts, b : Moves(e, s, row, parts, b)
    BY <1>3
  <1>5. handler' \in [Updates -> {"none", "start", "ack", "exec", "tell", "deliver"}]
    BY <1>1, <1>2 DEF HandlerAfter, TypeOK
  <1>6. shown' \in [Entries -> SUBSET (1 .. NumParts)]
    BY <1>1, <1>3 DEF TypeOK
  <1>7. faults' \in 0 .. MaxFaults[incoming]
    <2>1. MaxFaults[incoming] \in Nat
      BY <1>1, FaultsAssumption DEF TypeOK
    <2> QED
      BY <1>1, <1>2, <2>1 DEF TypeOK
  <1>8. TablesOK'
    BY <1>1, <1>2, <1>5, <1>6, <1>7 DEF TypeOK, TablesOK
  <1> QED
    BY <1>2, <1>4, <1>8, DeliveryStep

\* Time passes.
LEMMA ElapseStep ==
  ASSUME DeliveryInv, NEW e \in Entries, NEW p \in 1 .. NumParts, Elapse(e, p)
  PROVE  DeliveryInv'
  <1>1. /\ TypeOK /\ OffsetInv /\ HandlerInv /\ RanInv /\ TodoInv /\ SendInv /\ SoloInv
    BY DEF DeliveryInv
  <1>2. /\ UNCHANGED <<incoming, confirmedTo, updates, nextOffset, token, poll, todo, ran>>
        /\ UNCHANGED <<handler, shown, faults, downs>>
    BY DEF Elapse, telegram, counters
  <1>3. /\ CallsOK' /\ box' \in [Entries -> {<<>>} \cup Parts] /\ SendInv'
        /\ \A x \in Entries, t \in Slots :
              worker'[x][t].pc = worker[x][t].pc /\ worker'[x][t].part = worker[x][t].part
        /\ \A x \in Entries : Recorded(x)' <=> Recorded(x)
        /\ \A x \in Entries, i \in 1 .. NumParts :
              Recorded(x) => box'[x][i].status = box[x][i].status
    BY <1>1, ElapseKeeps
  <1>4. TypeOK'
    <2>1. TablesOK'
      BY <1>1, <1>2 DEF TypeOK, TablesOK
    <2> QED
      BY <1>3, <2>1, TypesApart
  <1>5. OffsetInv' /\ RanInv'
    BY <1>1, <1>2 DEF OffsetInv, RanInv
  <1>6. TodoInv' /\ HandlerInv'
    BY <1>1, <1>2, <1>3 DEF TodoInv, HandlerInv, HandlerOf, TypeOK, Entries
  <1>7. ASSUME NEW u \in Updates PROVE Solo(u)'
    <2>1. Solo(u) /\ u \in Entries
      BY <1>1 DEF SoloInv, Entries
    <2>2. ASSUME NEW t \in Slots, worker'[u][t].pc = "sending"
          PROVE  box'[u][worker'[u][t].part].status # "sent"
      <3>1. /\ Recorded(u) /\ worker[u][t].part \in 1 .. NumParts
            /\ box[u][worker[u][t].part].status # "sent"
        BY <1>1, <1>3, <2>1, <2>2, Sending DEF Solo
      <3> QED
        BY <1>3, <2>1, <3>1
    <2>3. "replay" \in Slots /\ "direct" \in Slots /\ "poll" \in Slots
      BY DEF Slots
    <2> QED
      BY <1>2, <1>3, <2>1, <2>2, <2>3 DEF Solo
  <1> QED
    BY <1>3, <1>4, <1>5, <1>6, <1>7 DEF DeliveryInv, SoloInv

\* A turn's notification is recorded and sent, for the first time or again.
LEMMA NotifyKeeps ==
  ASSUME DeliveryInv, NEW n \in Notes, Notify(n) \/ NotifyAgain(n)
  PROVE  DeliveryInv'
  <1>1. TypeOK /\ SendInv /\ n \in Entries /\ "direct" \in Slots /\ "replay" \in Slots
    BY DEF DeliveryInv, Entries, Slots
  <1>2. /\ UNCHANGED <<incoming, confirmedTo, updates, nextOffset, token, poll, todo, ran>>
        /\ UNCHANGED <<handler, shown, faults, downs>> /\ Up
    BY DEF Notify, NotifyAgain, telegram, tables, counters
  <1>3. TablesOK'
    BY <1>1, <1>2 DEF TypeOK, TablesOK
  <1>4. CASE Notify(n)
    <2>1. \E row : Moves(n, "direct", row, NewRecord, 0)
      BY <1>1, <1>4, RecordMoves DEF Notify
    <2> QED
      BY <1>1, <1>2, <1>3, <2>1, NoteStep
  <1>5. CASE NotifyAgain(n)
    <2>1. \E row, parts, b : Moves(n, "replay", row, parts, b)
      BY <1>1, <1>5, BeginMoves DEF NotifyAgain, tables
    <2> QED
      BY <1>1, <1>2, <1>3, <2>1, NoteStep
  <1> QED
    BY <1>4, <1>5

\* The recovery takes up a notification: sent, to be retried later, or due.
LEMMA RecoverNoteKeeps ==
  ASSUME DeliveryInv, NEW n \in Notes, RecoverNote(n)
  PROVE  DeliveryInv'
  <1>1. /\ TypeOK /\ SendInv /\ n \in Entries /\ "poll" \in Slots /\ "retry" \in Slots
        /\ TodoInv /\ todo \subseteq Entries
    BY DEF DeliveryInv, Entries, Slots, TypeOK
  <1>2. /\ UNCHANGED <<incoming, confirmedTo, updates, nextOffset, token, poll, ran, box>>
        /\ UNCHANGED <<handler, shown, faults, downs>> /\ poll = "notes" /\ Up
        /\ n \in todo /\ todo' = todo \ {n}
    BY DEF RecoverNote, telegram, tables, counters, Up
  <1>3. TablesOK'
    BY <1>1, <1>2 DEF TypeOK, TablesOK
  <1>4. Recorded(n) /\ todo' \subseteq todo
    BY <1>1, <1>2 DEF TodoInv
  <1>5. CASE Sent(n)
    <2>1. worker' = [worker EXCEPT ![n] = @]
      BY <1>5 DEF RecoverNote
    <2>2. worker' = worker
      BY <1>1, <2>1 DEF TypeOK
    <2>3. SendInv' /\ CallsOK' /\ box' \in [Entries -> {<<>>} \cup Parts]
      BY <1>1, <1>2, <2>2, CallsStay
    <2>4. TypeOK'
      BY <1>3, <2>3, TypesApart
    <2>5. OffsetInv' /\ RanInv' /\ HandlerInv' /\ TodoInv' /\ SoloInv'
      BY <1>2, <2>2 DEF DeliveryInv, OffsetInv, RanInv, HandlerInv, HandlerOf, TodoInv,
                        SoloInv, Solo, Recorded
    <2> QED
      BY <2>3, <2>4, <2>5 DEF DeliveryInv
  <1>6. CASE ~Sent(n) /\ RetryAt(n) = "later"
    <2>1. worker' = [worker EXCEPT ![n] = Scheduled(@)]
      BY <1>6 DEF RecoverNote
    <2>2. \E parts, b : Moves(n, "retry", Scheduled(worker[n]), parts, b)
      BY <1>1, <1>2, <1>4, <2>1, ScheduleMoves
    <2> QED
      BY <1>1, <1>2, <1>3, <1>4, <2>2, NoteStep
  <1>7. CASE ~Sent(n) /\ RetryAt(n) # "later"
    <2>1. worker' = [worker EXCEPT ![n] = Begin(@, "poll", box[n])]
      BY <1>7 DEF RecoverNote
    <2>2. \E row, parts, b : Moves(n, "poll", row, parts, b)
      BY <1>1, <1>2, <1>4, <2>1, BeginMoves
    <2> QED
      BY <1>1, <1>2, <1>3, <1>4, <2>2, NoteStep
  <1> QED
    BY <1>5, <1>6, <1>7

\* What a handler of an update does before its result is recorded.
LEMMA HandlingStep ==
  ASSUME DeliveryInv, NEW u \in Updates, poll = "polling",
         UNCHANGED <<incoming, confirmedTo, nextOffset, box, poll, todo, worker>>,
         handler[u] \notin {"none", "deliver"}, handler'[u] # "deliver",
         \A v \in Updates \ {u} : handler'[v] = handler[v] /\ updates'[v] = updates[v],
         updates'[u] # "absent", HandlerOf(u)', RanInv', TablesOK'
  PROVE  DeliveryInv'
  <1>1. /\ TypeOK /\ OffsetInv /\ HandlerInv /\ RanInv /\ TodoInv /\ SendInv /\ SoloInv
    BY DEF DeliveryInv
  <1>2. SendInv' /\ CallsOK' /\ box' \in [Entries -> {<<>>} \cup Parts]
    BY <1>1, CallsStay
  <1>3. TypeOK'
    BY <1>2, TypesApart
  <1>4. updates[u] # "absent"
    BY <1>1 DEF HandlerInv, HandlerOf, Closed, TypeOK
  <1>5. OffsetInv'
    BY <1>1, <1>4 DEF OffsetInv
  <1>6. TodoInv'
    BY <1>1 DEF TodoInv, Recorded
  <1>7. \A v \in Updates : HandlerOf(v)'
    BY <1>1 DEF HandlerInv, HandlerOf, Recorded
  <1>8. \A v \in Updates : Solo(v)'
    BY <1>1 DEF SoloInv, Solo
  <1> QED
    BY <1>2, <1>3, <1>5, <1>6, <1>7, <1>8 DEF DeliveryInv, HandlerInv, SoloInv

\* A handler routes its update.
LEMMA HandleKeeps ==
  ASSUME DeliveryInv, NEW u \in Updates, Handle(u)
  PROVE  DeliveryInv'
  <1>1. /\ TypeOK /\ HandlerOf(u) /\ RanInv
    BY DEF DeliveryInv, HandlerInv
  <1>2. /\ UNCHANGED <<incoming, confirmedTo, nextOffset, box, poll, todo, worker>>
        /\ UNCHANGED <<token, shown, faults, downs>> /\ handler[u] = "start"
    BY DEF Handle, telegram, counters
  <1>3. /\ poll = "polling" /\ updates[u] = "received" /\ ran[u] = 0 /\ ~Recorded(u)
        /\ incoming[u] \in {"text", "confirm", "panel"}
    BY <1>1, <1>2 DEF HandlerOf, RanInv, Closed, Open
  <1>4. CASE incoming[u] = "text"
    <2>1. /\ updates' = [updates EXCEPT ![u] = "running"]
          /\ handler' = [handler EXCEPT ![u] = "exec"]
          /\ ran' = [ran EXCEPT ![u] = @ + 1]
      BY <1>4 DEF Handle
    <2>2. TablesOK'
      BY <1>1, <1>2, <1>3, <2>1 DEF TypeOK, TablesOK, Statuses
    <2>3. HandlerOf(u)'
      BY <1>1, <1>2, <1>3, <2>1 DEF HandlerOf, Recorded, TypeOK
    <2>4. RanInv'
      BY <1>1, <1>2, <1>3, <1>4, <2>1 DEF RanInv, TypeOK
    <2> QED
      BY <1>1, <1>2, <1>3, <2>1, <2>2, <2>3, <2>4, HandlingStep DEF TypeOK
  <1>5. CASE incoming[u] = "panel" \/ incoming[u] = "confirm"
    <2>1. /\ handler' = [handler EXCEPT ![u] = IF incoming[u] = "panel" THEN "tell" ELSE "ack"]
          /\ updates' = updates /\ ran' = ran
      BY <1>5 DEF Handle
    <2>2. TablesOK'
      BY <1>1, <1>2, <2>1 DEF TypeOK, TablesOK
    <2>3. HandlerOf(u)'
      BY <1>1, <1>2, <1>3, <1>5, <2>1 DEF HandlerOf, Recorded, TypeOK
    <2>4. RanInv'
      BY <1>1, <1>2, <2>1 DEF RanInv
    <2> QED
      BY <1>1, <1>2, <1>3, <2>1, <2>2, <2>3, <2>4, HandlingStep DEF TypeOK
  <1> QED
    BY <1>3, <1>4, <1>5

\* A press claims the button, which nobody has claimed before, or is told so.
LEMMA PressKeeps ==
  ASSUME DeliveryInv, NEW u \in Updates, Press(u)
  PROVE  DeliveryInv'
  <1>1. /\ TypeOK /\ HandlerOf(u) /\ RanInv
    BY DEF DeliveryInv, HandlerInv
  <1>2. /\ UNCHANGED <<incoming, confirmedTo, nextOffset, box, poll, todo, worker>>
        /\ UNCHANGED <<shown, faults, downs>> /\ handler[u] = "ack"
    BY DEF Press, telegram, counters
  <1>3. /\ poll = "polling" /\ updates[u] = "received" /\ ran[u] = 0 /\ ~Recorded(u)
        /\ incoming[u] = "confirm"
    BY <1>1, <1>2 DEF HandlerOf, RanInv, Closed, Open
  <1>4. CASE Claimable
    <2>1. /\ updates' = [updates EXCEPT ![u] = "running"] /\ token' = "processing"
          /\ handler' = [handler EXCEPT ![u] = "exec"]
          /\ ran' = [ran EXCEPT ![u] = @ + 1] /\ token = "pending"
      BY <1>4 DEF Press, Claimable
    <2>2. TablesOK'
      BY <1>1, <1>2, <1>3, <2>1 DEF TypeOK, TablesOK, Statuses
    <2>3. HandlerOf(u)'
      BY <1>1, <1>2, <1>3, <2>1 DEF HandlerOf, Recorded, TypeOK
    <2>4. \A v \in Updates : incoming[v] = "confirm" => ran[v] = 0
      BY <1>1, <2>1 DEF RanInv
    <2>5. /\ \A v \in Updates \ {u} : ran'[v] = ran[v] /\ updates'[v] = updates[v]
          /\ ran'[u] = 1 /\ updates'[u] = "running"
      BY <1>1, <1>3, <2>1 DEF TypeOK
    <2>6. RanInv'
      BY <1>1, <1>2, <1>3, <2>1, <2>4, <2>5 DEF RanInv
    <2> QED
      BY <1>1, <1>2, <1>3, <2>1, <2>2, <2>3, <2>6, HandlingStep DEF TypeOK
  <1>5. CASE ~Claimable
    <2>1. /\ handler' = [handler EXCEPT ![u] = "tell"]
          /\ updates' = updates /\ ran' = ran /\ token' = token
      BY <1>5 DEF Press
    <2>2. TablesOK'
      BY <1>1, <1>2, <2>1 DEF TypeOK, TablesOK
    <2>3. HandlerOf(u)'
      BY <1>1, <1>2, <1>3, <2>1 DEF HandlerOf, Recorded, TypeOK
    <2>4. RanInv'
      BY <1>1, <1>2, <2>1 DEF RanInv
    <2> QED
      BY <1>1, <1>2, <1>3, <2>1, <2>2, <2>3, <2>4, HandlingStep DEF TypeOK
  <1> QED
    BY <1>4, <1>5

\* A turn or operation raises.
LEMMA RaiseKeeps ==
  ASSUME DeliveryInv, NEW u \in Updates, NEW status \in {"rejected", "failed"},
         ExecRaises(u, status)
  PROVE  DeliveryInv'
  <1>1. /\ TypeOK /\ HandlerOf(u) /\ RanInv
    BY DEF DeliveryInv, HandlerInv
  <1>2. /\ UNCHANGED <<incoming, confirmedTo, nextOffset, box, poll, todo, worker>>
        /\ UNCHANGED <<shown, ran, faults, downs>> /\ handler[u] = "exec"
        /\ updates' = [updates EXCEPT ![u] = status]
        /\ token' = IF incoming[u] = "confirm" THEN "failed" ELSE token
        /\ handler' = [handler EXCEPT ![u] = "tell"]
    BY DEF ExecRaises, telegram, counters
  <1>3. poll = "polling" /\ updates[u] = "running" /\ ~Recorded(u)
    BY <1>1, <1>2 DEF HandlerOf, Closed, Open
  <1>4. TablesOK'
    BY <1>1, <1>2 DEF TypeOK, TablesOK, Statuses
  <1>5. status \in Closed
    BY DEF Closed, Statuses, Open
  <1>6. HandlerOf(u)'
    BY <1>1, <1>2, <1>3, <1>5 DEF HandlerOf, Recorded, TypeOK, Closed
  <1>7. RanInv'
    BY <1>1, <1>2 DEF RanInv, TypeOK
  <1> QED
    BY <1>1, <1>2, <1>3, <1>4, <1>6, <1>7, HandlingStep DEF TypeOK

\* An answer without the outbox is over.
LEMMA ToldKeeps ==
  ASSUME DeliveryInv, NEW u \in Updates, Told(u)
  PROVE  DeliveryInv'
  <1>1. /\ TypeOK /\ HandlerOf(u) /\ RanInv
    BY DEF DeliveryInv, HandlerInv
  <1>2. /\ UNCHANGED <<incoming, confirmedTo, nextOffset, box, poll, todo, worker>>
        /\ UNCHANGED <<token, shown, ran, faults, downs>> /\ handler[u] = "tell"
        /\ updates' = [updates EXCEPT ![u] = IF @ = "received" THEN "handled" ELSE @]
        /\ handler' = [handler EXCEPT ![u] = "none"]
    BY DEF Told, Finished, telegram, counters
  <1>3. poll = "polling" /\ updates[u] \in {"received"} \cup Closed
    BY <1>1, <1>2 DEF HandlerOf
  <1>4. "handled" \in Closed /\ "received" \notin Closed /\ Closed \subseteq Statuses
    BY DEF Closed, Open, Statuses
  <1>5. updates'[u] \in Closed /\ (updates[u] # "received" => updates'[u] = updates[u])
    BY <1>1, <1>2, <1>3, <1>4 DEF TypeOK
  <1>6. TablesOK'
    BY <1>1, <1>2, <1>4, <1>5 DEF TypeOK, TablesOK
  <1>7. HandlerOf(u)'
    BY <1>1, <1>2, <1>3, <1>5 DEF HandlerOf, Recorded, TypeOK, Closed
  <1>8. RanInv'
    BY <1>1, <1>2, <1>5 DEF RanInv, TypeOK, Closed, Open
  <1>9. updates'[u] # "absent"
    BY <1>5 DEF Closed
  <1> QED
    BY <1>1, <1>2, <1>3, <1>6, <1>7, <1>8, <1>9, HandlingStep DEF TypeOK

\* The turn has ended: its result is recorded and its first part sent.
LEMMA ExecEndsKeeps ==
  ASSUME DeliveryInv, NEW u \in Updates, NEW status \in {"completed", "failed", "rejected"},
         ExecEnds(u, status)
  PROVE  DeliveryInv'
  <1>1. /\ TypeOK /\ OffsetInv /\ HandlerInv /\ RanInv /\ TodoInv /\ SendInv /\ SoloInv
        /\ HandlerOf(u) /\ Solo(u)
    BY DEF DeliveryInv, HandlerInv, SoloInv
  <1>2. /\ UNCHANGED <<incoming, confirmedTo, nextOffset, poll, todo>>
        /\ UNCHANGED <<shown, ran, faults, downs>> /\ handler[u] = "exec"
        /\ box' = Prepared(u) /\ worker' = [worker EXCEPT ![u] = Begin(@, "direct", NewRecord)]
        /\ updates' = [updates EXCEPT ![u] = IF incoming[u] = "confirm"
                                             THEN "completed" ELSE status]
        /\ token' = IF incoming[u] = "confirm" THEN "completed" ELSE token
        /\ handler' = [handler EXCEPT ![u] = "deliver"]
    BY DEF ExecEnds, telegram, counters
  <1>3. poll = "polling" /\ updates[u] = "running" /\ ~Recorded(u)
    BY <1>1, <1>2 DEF HandlerOf, Closed, Open
  <1>4. /\ u \in Entries /\ {"direct", "replay", "poll", "retry"} = Slots
        /\ \A t \in Slots : worker[u][t].pc = "idle"
    BY <1>1, <1>3 DEF Entries, Slots, SendInv, CellInv
  <1>5. "direct" \in Slots
    BY DEF Slots
  <1>6. PICK row : Moves(u, "direct", row, NewRecord, 0) /\ row["direct"].pc = "sending"
    BY <1>1, <1>2, <1>3, <1>4, <1>5, RecordMoves
  <1>7. SendInv' /\ CallsOK' /\ box' \in [Entries -> {<<>>} \cup Parts]
    <2>1. poll' # "down"
      BY <1>2, <1>3
    <2> QED
      BY <1>1, <1>4, <1>5, <1>6, <2>1, SendFrame
  <1>8. TypeOK'
    <2>1. TablesOK'
      BY <1>1, <1>2 DEF TypeOK, TablesOK, Statuses
    <2> QED
      BY <1>7, <2>1, TypesApart
  <1>9. updates'[u] \in Closed /\ updates'[u] # "absent"
    BY <1>1, <1>2 DEF TypeOK, Closed, Open, Statuses
  <1>10. OffsetInv' /\ RanInv'
    BY <1>1, <1>2, <1>3, <1>9 DEF OffsetInv, RanInv, TypeOK, Closed, Open
  <1>11. /\ worker' = [worker EXCEPT ![u] = row]
         /\ box' = [box EXCEPT ![u] = NewRecord]
    BY <1>6 DEF Moves
  <1>12. /\ \A x \in Entries \ {u} : worker'[x] = worker[x] /\ box'[x] = box[x]
         /\ \A x \in Updates \ {u} : handler'[x] = handler[x] /\ updates'[x] = updates[x]
         /\ handler'[u] = "deliver" /\ \A x \in Updates : x \in Entries
    BY <1>1, <1>2, <1>11 DEF TypeOK, Entries
  <1>13. TodoInv'
    BY <1>1, <1>2, <1>3 DEF TodoInv
  <1>14. ASSUME NEW v \in Updates PROVE HandlerOf(v)'
    <2>1. CASE v = u
      BY <1>1, <1>2, <1>3, <1>9, <1>12, <2>1 DEF HandlerOf
    <2>2. CASE v # u
      BY <1>1, <1>2, <1>12, <2>2 DEF HandlerInv, HandlerOf, Recorded
    <2> QED
      BY <2>1, <2>2
  <1>15. ASSUME NEW v \in Updates PROVE Solo(v)'
    <2>1. CASE v = u
      <3>1. /\ \A t, x \in Slots :
                  worker'[u][t].pc # "idle" /\ worker'[u][x].pc # "idle" => t = x
            /\ \A t \in Slots : worker'[u][t].pc = "sending" =>
                  box'[u][worker'[u][t].part].status # "sent"
            /\ worker'[u]["replay"].pc = "idle"
            /\ worker'[u] = row
            /\ \A t \in Slots \ {"direct", "retry"} : row[t] = worker[u][t]
        BY <1>1, <1>4, <1>5, <1>6, SoloMoves
      <3>2. worker'[u]["poll"].pc = "idle" /\ worker'[u]["direct"].pc # "idle"
        BY <1>4, <1>6, <3>1 DEF Slots
      <3> QED
        BY <1>2, <1>3, <1>12, <2>1, <3>1, <3>2 DEF Solo
    <2>2. CASE v # u
      BY <1>1, <1>2, <1>12, <2>2 DEF SoloInv, Solo
    <2> QED
      BY <2>1, <2>2
  <1> QED
    BY <1>7, <1>8, <1>10, <1>13, <1>14, <1>15 DEF DeliveryInv, HandlerInv, SoloInv

\* The notice of an interrupted update is recorded and its first part sent.
LEMMA RecoverUpdateKeeps ==
  ASSUME DeliveryInv, NEW u \in Updates, RecoverUpdate(u)
  PROVE  DeliveryInv'
  <1>1. /\ TypeOK /\ OffsetInv /\ HandlerInv /\ RanInv /\ TodoInv /\ SendInv /\ SoloInv
        /\ HandlerOf(u) /\ Solo(u)
    BY DEF DeliveryInv, HandlerInv, SoloInv
  <1>2. /\ UNCHANGED <<incoming, confirmedTo, updates, nextOffset, token, poll, handler>>
        /\ UNCHANGED <<shown, ran, faults, downs>>
        /\ box' = Prepared(u) /\ worker' = [worker EXCEPT ![u] = Begin(@, "poll", NewRecord)]
        /\ poll = "updates" /\ u \in todo /\ todo' = todo \ {u}
    BY DEF RecoverUpdate, telegram, counters
  <1>3. updates[u] = "interrupted" /\ ~Recorded(u)
    BY <1>1, <1>2 DEF TodoInv
  <1>4. /\ u \in Entries /\ \A t \in Slots : worker[u][t].pc = "idle"
    BY <1>1, <1>3 DEF Entries, SendInv, CellInv
  <1>5. "poll" \in Slots /\ "direct" \in Slots
    BY DEF Slots
  <1>6. PICK row : Moves(u, "poll", row, NewRecord, 0) /\ row["poll"].pc = "sending"
    BY <1>1, <1>2, <1>3, <1>4, <1>5, RecordMoves
  <1>7. SendInv' /\ CallsOK' /\ box' \in [Entries -> {<<>>} \cup Parts]
    <2>1. poll' # "down"
      BY <1>2
    <2> QED
      BY <1>1, <1>4, <1>5, <1>6, <2>1, SendFrame
  <1>8. TypeOK'
    <2>1. TablesOK'
      BY <1>1, <1>2 DEF TypeOK, TablesOK
    <2> QED
      BY <1>7, <2>1, TypesApart
  <1>9. updates[u] \in Closed
    BY <1>3 DEF Closed, Open, Statuses
  <1>10. OffsetInv' /\ RanInv'
    BY <1>1, <1>2 DEF OffsetInv, RanInv
  <1>11. /\ worker' = [worker EXCEPT ![u] = row]
         /\ box' = [box EXCEPT ![u] = NewRecord]
    BY <1>6 DEF Moves
  <1>12. /\ \A x \in Entries \ {u} : worker'[x] = worker[x] /\ box'[x] = box[x]
         /\ \A x \in Updates : x \in Entries
    BY <1>1, <1>2, <1>11 DEF TypeOK, Entries
  <1>13. TodoInv'
    BY <1>1, <1>2, <1>12 DEF TodoInv, Recorded
  <1>14. ASSUME NEW v \in Updates PROVE HandlerOf(v)'
    BY <1>1, <1>2, <1>9, <1>12 DEF HandlerInv, HandlerOf, Recorded
  <1>15. ASSUME NEW v \in Updates PROVE Solo(v)'
    <2>1. CASE v = u
      <3>1. /\ \A t, x \in Slots :
                  worker'[u][t].pc # "idle" /\ worker'[u][x].pc # "idle" => t = x
            /\ \A t \in Slots : worker'[u][t].pc = "sending" =>
                  box'[u][worker'[u][t].part].status # "sent"
            /\ worker'[u]["replay"].pc = "idle"
            /\ worker'[u] = row
            /\ \A t \in Slots \ {"poll", "retry"} : row[t] = worker[u][t]
        BY <1>1, <1>4, <1>5, <1>6, SoloMoves
      <3>2. worker'[u]["direct"] = worker[u]["direct"]
        BY <1>5, <3>1
      <3> QED
        BY <1>1, <1>2, <1>12, <2>1, <3>1, <3>2 DEF Solo
    <2>2. CASE v # u
      BY <1>1, <1>2, <1>12, <2>2 DEF SoloInv, Solo
    <2> QED
      BY <2>1, <2>2
  <1> QED
    BY <1>7, <1>8, <1>10, <1>13, <1>14, <1>15 DEF DeliveryInv, HandlerInv, SoloInv

\* Telegram forgets what is below the offset, all of which is in the table.
LEMMA AcknowledgeKeeps ==
  ASSUME DeliveryInv, Acknowledge
  PROVE  DeliveryInv'
  <1>1. TypeOK /\ SendInv /\ poll = "polling"
    BY DEF DeliveryInv, Acknowledge
  <1>2. /\ UNCHANGED <<incoming, updates, nextOffset, box, token, poll, todo, handler, worker>>
        /\ UNCHANGED <<shown, ran, faults, downs>> /\ confirmedTo' = nextOffset
    BY DEF Acknowledge, tables, counters
  <1>3. SendInv' /\ CallsOK' /\ box' \in [Entries -> {<<>>} \cup Parts]
    BY <1>1, <1>2, CallsStay
  <1>4. TablesOK'
    BY <1>1, <1>2 DEF TypeOK, TablesOK
  <1>5. OffsetInv'
    BY <1>1, <1>2, TelegramAssumption DEF DeliveryInv, OffsetInv, TypeOK
  <1>6. HandlerInv' /\ RanInv' /\ TodoInv' /\ SoloInv'
    BY <1>2 DEF DeliveryInv, HandlerInv, HandlerOf, RanInv, TodoInv, SoloInv, Solo, Recorded
  <1> QED
    BY <1>3, <1>4, <1>5, <1>6, TypesApart DEF DeliveryInv

\* What claiming a batch keeps of the tables, with or without a crash.
LEMMA ClaimsKeep ==
  ASSUME DeliveryInv, NEW last \in Updates, NEW open, ClaimUpdates(Batch(last), open),
         UNCHANGED <<incoming, confirmedTo, token, ran>>
  PROVE  /\ OffsetInv' /\ RanInv'
         /\ nextOffset' \in 1 .. NumUpdates + 1 /\ updates' \in [Updates -> Statuses]
         /\ \A u \in Updates :
              \/ u \notin Claimed(Batch(last)) /\ updates'[u] = updates[u]
              \/ /\ u \in Claimed(Batch(last)) /\ updates[u] = "absent"
                 /\ incoming[u] \in {"text", "confirm", "panel"} \cup Strangers
                 /\ updates'[u] = IF incoming[u] \in Strangers /\ u \notin open
                                  THEN "ignored" ELSE "received"
  <1>1. TypeOK /\ OffsetInv /\ RanInv
    BY DEF DeliveryInv
  <1> DEFINE new == Claimed(Batch(last))
  <1>2. /\ nextOffset' \in nextOffset .. NumUpdates + 1
        /\ \A u \in Updates : u \in new <=> nextOffset <= u /\ u < nextOffset'
        /\ \A u \in Updates : u \in new => incoming[u] \notin {"none", "turn"}
        /\ \A u \in Updates :
              updates'[u] = IF u \notin new THEN updates[u]
                            ELSE IF incoming[u] \in Strangers /\ u \notin open THEN "ignored"
                            ELSE "received"
    BY <1>1, Claims
  <1>3. /\ NumUpdates \in Nat /\ Updates = 1 .. NumUpdates
        /\ confirmedTo \in 1 .. NumUpdates + 1 /\ nextOffset \in 1 .. NumUpdates + 1
        /\ nextOffset' \in 1 .. NumUpdates + 1
    BY <1>1, <1>2, TelegramAssumption DEF TypeOK, Updates
  <1>4. \A u \in new : updates[u] = "absent"
    BY DEF Claimed
  <1> HIDE DEF new
  <1>5. ASSUME NEW u \in Updates
        PROVE  \/ u \notin new /\ updates'[u] = updates[u]
               \/ /\ u \in new /\ updates[u] = "absent"
                  /\ incoming[u] \in {"text", "confirm", "panel"} \cup Strangers
                  /\ updates'[u] = IF incoming[u] \in Strangers /\ u \notin open
                                   THEN "ignored" ELSE "received"
    <2>1. incoming[u] \in Kinds
      BY <1>1 DEF TypeOK, Entries
    <2> QED
      BY <1>2, <1>4, <2>1 DEF Kinds, Strangers
  <1>6. updates' \in [Updates -> Statuses]
    <2>1. updates' = [u \in Updates |->
                        IF u \notin new THEN updates[u]
                        ELSE IF incoming[u] \in Strangers /\ u \notin open THEN "ignored"
                        ELSE "received"]
      BY DEF ClaimUpdates, new
    <2> QED
      BY <1>1, <2>1 DEF TypeOK, Statuses
  <1>7. OffsetInv'
    <2>1. confirmedTo' <= nextOffset'
      BY <1>1, <1>2, <1>3 DEF OffsetInv
    <2>2. ASSUME NEW u \in Updates PROVE updates'[u] = "absent" <=> u >= nextOffset'
      BY <1>1, <1>2, <1>3, <1>5 DEF OffsetInv
    <2> QED
      BY <1>1, <2>1, <2>2 DEF OffsetInv
  <1>8. RanInv'
    BY <1>1, <1>5 DEF RanInv
  <1> QED
    BY <1>3, <1>5, <1>6, <1>7, <1>8 DEF new

\* A batch is claimed and its handlers start.
LEMMA ReceiveKeeps ==
  ASSUME DeliveryInv, NEW last \in Updates, ReceiveBatch(last)
  PROVE  DeliveryInv'
  <1>1. /\ TypeOK /\ HandlerInv /\ SendInv /\ SoloInv /\ TodoInv
    BY DEF DeliveryInv
  <1> DEFINE new == Claimed(Batch(last))
  <1>2. /\ UNCHANGED <<incoming, confirmedTo, box, token, poll, todo, worker>>
        /\ UNCHANGED <<shown, ran, faults, downs>> /\ poll = "polling"
        /\ ClaimUpdates(Batch(last), {})
        /\ handler' = [u \in Updates |-> IF u \in new /\ incoming[u] \notin Strangers
                                         THEN "start" ELSE handler[u]]
    BY DEF ReceiveBatch, telegram, counters
  <1>3. /\ OffsetInv' /\ RanInv'
        /\ nextOffset' \in 1 .. NumUpdates + 1 /\ updates' \in [Updates -> Statuses]
        /\ \A u \in Updates :
              \/ u \notin new /\ updates'[u] = updates[u]
              \/ /\ u \in new /\ updates[u] = "absent"
                 /\ incoming[u] \in {"text", "confirm", "panel"} \cup Strangers
                 /\ updates'[u] = IF incoming[u] \in Strangers THEN "ignored" ELSE "received"
    BY <1>2, ClaimsKeep
  <1> HIDE DEF new
  <1>4. SendInv' /\ CallsOK' /\ box' \in [Entries -> {<<>>} \cup Parts]
    BY <1>1, <1>2, CallsStay
  <1>5. TypeOK'
    <2>1. TablesOK'
      BY <1>1, <1>2, <1>3 DEF TypeOK, TablesOK
    <2> QED
      BY <1>4, <2>1, TypesApart
  <1>6. TodoInv'
    BY <1>1, <1>2 DEF TodoInv
  <1>7. ASSUME NEW u \in Updates PROVE HandlerOf(u)' /\ Solo(u)'
    <2>1. HandlerOf(u) /\ Solo(u)
      BY <1>1 DEF HandlerInv, SoloInv
    <2>2. CASE u \notin new
      BY <1>2, <1>3, <2>1, <2>2 DEF HandlerOf, Solo, Recorded
    <2>3. CASE u \in new
      <3>1. handler[u] = "none" /\ ~Recorded(u)
        BY <1>1, <1>3, <2>1, <2>3 DEF HandlerOf, Closed, Open, TypeOK
      <3>2. /\ handler'[u] = IF incoming[u] \notin Strangers THEN "start" ELSE "none"
            /\ updates'[u] = IF incoming[u] \in Strangers THEN "ignored" ELSE "received"
            /\ incoming[u] \in {"text", "confirm", "panel"} \cup Strangers
        BY <1>2, <1>3, <2>3, <3>1
      <3>3. HandlerOf(u)'
        BY <1>2, <3>1, <3>2 DEF HandlerOf, Recorded, Open
      <3> QED
        BY <1>2, <2>1, <3>1, <3>2, <3>3 DEF Solo
    <2> QED
      BY <2>2, <2>3
  <1> QED
    BY <1>3, <1>4, <1>5, <1>6, <1>7 DEF DeliveryInv, HandlerInv, SoloInv

\* A process that ends leaves tables that fit the next one.
LEMMA EndStep ==
  ASSUME DeliveryInv, ProcessEnds, downs < MaxDowns, OffsetInv', RanInv',
         nextOffset' \in 1 .. NumUpdates + 1, updates' \in [Updates -> Statuses],
         token' \in {"pending", "processing", "completed", "failed", "interrupted"},
         box' = box \/ \E e \in Entries : box' = Prepared(e),
         \A u \in Updates : Recorded(u)' => updates'[u] \in Closed \cup {"running"}
  PROVE  DeliveryInv'
  <1>1. TypeOK /\ HandlerInv /\ SendInv
    BY DEF DeliveryInv
  <1>2. /\ UNCHANGED <<incoming, confirmedTo, ran, faults>>
        /\ poll' = "down" /\ todo' = {} /\ downs' = downs + 1
        /\ worker' = [e \in Entries |-> [s \in Slots |-> Idle]]
        /\ handler' = [u \in Updates |-> "none"]
    BY DEF ProcessEnds, telegram
  <1>3. SendInv' /\ CallsOK' /\ box' \in [Entries -> {<<>>} \cup Parts]
    BY <1>1, <1>2, CallsEnd
  <1>4. shown' \in [Entries -> SUBSET (1 .. NumParts)]
    <2>1. PICK W \in SUBSET {es \in Entries \X Slots : worker[es[1]][es[2]].pc = "sending"} :
             shown' = [e \in Entries |-> shown[e] \cup
                         {worker[es[1]][es[2]].part : es \in {x \in W : x[1] = e}}]
      BY DEF ProcessEnds
    <2>2. \A es \in W : worker[es[1]][es[2]].part \in 1 .. NumParts
      BY <1>1, Sending
    <2>3. \A e \in Entries : shown[e] \subseteq 1 .. NumParts
      BY <1>1 DEF TypeOK
    <2> QED
      BY <2>1, <2>2, <2>3
  <1>5. downs' \in 0 .. MaxDowns
    BY <1>1, <1>2, TelegramAssumption DEF TypeOK
  <1>6. TablesOK'
    BY <1>1, <1>2, <1>4, <1>5 DEF TypeOK, TablesOK
  <1>7. TypeOK'
    BY <1>3, <1>6, TypesApart
  <1>8. TodoInv'
    BY <1>2 DEF TodoInv
  <1>9. HandlerInv'
    BY <1>1, <1>2 DEF HandlerInv, HandlerOf, Recorded
  <1>10. SoloInv'
    <2>1. \A u \in Updates : u \in Entries
      BY DEF Entries
    <2>2. \A u \in Updates, s \in Slots : worker'[u][s].pc = "idle"
      BY <1>2, <2>1 DEF Idle
    <2>3. {"replay", "direct", "poll"} \subseteq Slots
      BY DEF Slots
    <2> QED
      BY <1>2, <2>2, <2>3 DEF SoloInv, Solo
  <1> QED
    BY <1>3, <1>7, <1>8, <1>9, <1>10 DEF DeliveryInv

\* A record whose update stays as it was, or is closed, is still in order.
LEMMA RecordsFit ==
  ASSUME DeliveryInv, box' = box,
         \A u \in Updates : updates'[u] \in {updates[u]} \cup Closed \/ updates[u] = "absent"
  PROVE  \A u \in Updates : Recorded(u)' => updates'[u] \in Closed \cup {"running"}
  <1> SUFFICES ASSUME NEW u \in Updates, Recorded(u)'
               PROVE  updates'[u] \in Closed \cup {"running"}
    OBVIOUS
  <1>1. HandlerOf(u) /\ Recorded(u)
    BY DEF DeliveryInv, HandlerInv, Recorded
  <1>2. updates[u] \in Closed \cup {"running"}
    BY <1>1 DEF HandlerOf
  <1> QED
    BY <1>2 DEF Closed

\* A crash in the middle of the writes of a batch or of a handler.
LEMMA CutKeeps ==
  ASSUME DeliveryInv, ProcessEnds, downs < MaxDowns, CutShort
  PROVE  DeliveryInv'
  <1>1. TypeOK /\ OffsetInv /\ RanInv /\ HandlerInv
    BY DEF DeliveryInv
  <1>2. UNCHANGED <<incoming, confirmedTo, ran>>
    BY DEF ProcessEnds, telegram
  <1>3. ASSUME NEW last \in Updates, CutBatch(last) PROVE DeliveryInv'
    <2>1. PICK open \in {{}, {last}} : ClaimUpdates(Batch(last), open)
      BY <1>3 DEF CutBatch
    <2>2. box' = box /\ token' = token
      BY <1>3 DEF CutBatch
    <2>3. /\ OffsetInv' /\ RanInv'
          /\ nextOffset' \in 1 .. NumUpdates + 1 /\ updates' \in [Updates -> Statuses]
          /\ \A u \in Updates : updates[u] # "absent" => updates'[u] = updates[u]
      BY <1>2, <2>1, <2>2, ClaimsKeep
    <2>4. \A u \in Updates : Recorded(u)' => updates'[u] \in Closed \cup {"running"}
      BY <2>2, <2>3, RecordsFit
    <2> QED
      BY <1>1, <2>2, <2>3, <2>4, EndStep DEF TypeOK
  <1>4. ASSUME NEW u \in Updates, CutPress(u) PROVE DeliveryInv'
    <2>1. UNCHANGED <<updates, nextOffset, box>> /\ token' = "processing"
      BY <1>4 DEF CutPress
    <2>2. OffsetInv' /\ RanInv'
      BY <1>1, <1>2, <2>1 DEF OffsetInv, RanInv
    <2>3. \A v \in Updates : Recorded(v)' => updates'[v] \in Closed \cup {"running"}
      BY <2>1, RecordsFit
    <2> QED
      BY <1>1, <2>1, <2>2, <2>3, EndStep DEF TypeOK
  <1>5. ASSUME NEW u \in Updates, CutEnd(u) PROVE DeliveryInv'
    <2>1. /\ UNCHANGED <<updates, nextOffset>> /\ box' = Prepared(u) /\ handler[u] = "exec"
          /\ token' \in {token, "completed"}
      BY <1>5 DEF CutEnd
    <2>2. OffsetInv' /\ RanInv'
      BY <1>1, <1>2, <2>1 DEF OffsetInv, RanInv
    <2>3. updates[u] = "running" /\ u \in Entries
      BY <1>1, <2>1 DEF HandlerInv, HandlerOf, Entries
    <2>4. ASSUME NEW v \in Updates, Recorded(v)' PROVE updates'[v] \in Closed \cup {"running"}
      <3>1. CASE v = u
        BY <2>1, <2>3, <3>1
      <3>2. CASE v # u
        <4>1. Recorded(v)
          BY <1>1, <2>1, <2>4, <3>2 DEF Prepared, Recorded, TypeOK, Entries
        <4> QED
          BY <1>1, <2>1, <4>1 DEF HandlerInv, HandlerOf
      <3> QED
        BY <3>1, <3>2
    <2> QED
      BY <1>1, <2>1, <2>2, <2>3, <2>4, EndStep DEF TypeOK
  <1>6. ASSUME NEW u \in Updates, NEW status \in {"rejected", "failed"}, CutRaise(u, status)
        PROVE  DeliveryInv'
    <2>1. /\ UNCHANGED <<nextOffset, box, token>> /\ handler[u] = "exec"
          /\ updates' = [updates EXCEPT ![u] = status]
      BY <1>6 DEF CutRaise
    <2>2. updates[u] = "running" /\ status \in Closed /\ status \in Statuses
      BY <1>1, <2>1 DEF HandlerInv, HandlerOf, Closed, Statuses, Open
    <2>3. OffsetInv' /\ RanInv'
      BY <1>1, <1>2, <2>1, <2>2 DEF OffsetInv, RanInv, TypeOK
    <2>4. \A v \in Updates : updates'[v] \in {updates[v]} \cup Closed
      BY <1>1, <2>1, <2>2 DEF TypeOK
    <2>5. updates' \in [Updates -> Statuses]
      BY <1>1, <2>1, <2>2 DEF TypeOK
    <2>6. \A v \in Updates : Recorded(v)' => updates'[v] \in Closed \cup {"running"}
      BY <2>1, <2>4, RecordsFit
    <2> QED
      BY <1>1, <2>1, <2>3, <2>5, <2>6, EndStep DEF TypeOK
  <1> QED
    BY <1>3, <1>4, <1>5, <1>6 DEF CutShort

\* A crash, between two writes or between two actions.
LEMMA CrashKeeps ==
  ASSUME DeliveryInv, Crash
  PROVE  DeliveryInv'
  <1>1. TypeOK /\ OffsetInv /\ RanInv
    BY DEF DeliveryInv
  <1>2. ProcessEnds /\ downs < MaxDowns /\ UNCHANGED <<incoming, confirmedTo, ran>>
    BY DEF Crash, ProcessEnds, telegram
  <1>3. CASE UNCHANGED tables
    <2>1. UNCHANGED <<updates, nextOffset, box, token>>
      BY <1>3 DEF tables
    <2>2. OffsetInv' /\ RanInv'
      BY <1>1, <1>2, <2>1 DEF OffsetInv, RanInv
    <2>3. \A u \in Updates : Recorded(u)' => updates'[u] \in Closed \cup {"running"}
      BY <2>1, RecordsFit
    <2> QED
      BY <1>1, <1>2, <2>1, <2>2, <2>3, EndStep DEF TypeOK
  <1>4. CASE CutShort
    BY <1>2, <1>4, CutKeeps
  <1> QED
    BY <1>3, <1>4 DEF Crash

\* A stop, which notes down what was running, as far as it gets.
LEMMA StopKeeps ==
  ASSUME DeliveryInv, Stop
  PROVE  DeliveryInv'
  <1>1. TypeOK /\ OffsetInv /\ RanInv
    BY DEF DeliveryInv
  <1>2. /\ ProcessEnds /\ downs < MaxDowns /\ nextOffset' = nextOffset /\ box' = box
        /\ UNCHANGED <<incoming, confirmedTo, ran>>
    BY DEF Stop, ProcessEnds, telegram
  <1>3. PICK noted \in SUBSET {u \in Updates : handler[u] # "none"}, closed \in BOOLEAN :
           /\ updates' = [u \in Updates |->
                            IF u \in noted /\ updates[u] = "running"
                            THEN "interrupted" ELSE updates[u]]
           /\ token' = IF closed /\ \E u \in noted : handler[u] \in {"exec", "deliver"}
                                                    /\ incoming[u] = "confirm"
                       THEN "interrupted" ELSE token
    BY DEF Stop
  <1>4. token' = token \/ token' = "interrupted"
    BY <1>3
  <1>5. updates' \in [Updates -> Statuses]
    BY <1>1, <1>3 DEF TypeOK, Statuses
  <1>6. \A u \in Updates :
           \/ updates'[u] = updates[u]
           \/ updates[u] = "running" /\ updates'[u] = "interrupted"
    BY <1>3
  <1>7. OffsetInv' /\ RanInv'
    BY <1>1, <1>2, <1>4, <1>6 DEF OffsetInv, RanInv
  <1>8. \A u \in Updates : updates'[u] \in {updates[u]} \cup Closed
    BY <1>6 DEF Closed, Open, Statuses
  <1>9. \A u \in Updates : Recorded(u)' => updates'[u] \in Closed \cup {"running"}
    BY <1>2, <1>8, RecordsFit
  <1>10. /\ nextOffset' \in 1 .. NumUpdates + 1
         /\ token' \in {"pending", "processing", "completed", "failed", "interrupted"}
    BY <1>1, <1>2, <1>4 DEF TypeOK
  <1> QED
    BY <1>2, <1>5, <1>7, <1>9, <1>10, EndStep

\* The process starts and lists the notifications that are not yet sent.
LEMMA StartKeeps ==
  ASSUME DeliveryInv, Start
  PROVE  DeliveryInv'
  <1>1. TypeOK /\ SendInv
    BY DEF DeliveryInv
  <1>2. /\ UNCHANGED <<incoming, confirmedTo, updates, nextOffset, box, token, handler, worker>>
        /\ UNCHANGED <<shown, ran, faults, downs>>
        /\ poll = "down" /\ poll' = "notes" /\ todo' = NotesToRecover
    BY DEF Start, telegram, tables, counters
  <1>3. SendInv' /\ CallsOK' /\ box' \in [Entries -> {<<>>} \cup Parts]
    BY <1>1, <1>2, CallsStay
  <1>4. TablesOK'
    BY <1>1, <1>2 DEF TypeOK, TablesOK, NotesToRecover, Entries
  <1>5. TypeOK'
    BY <1>3, <1>4, TypesApart
  <1>6. OffsetInv' /\ RanInv'
    BY <1>2 DEF DeliveryInv, OffsetInv, RanInv
  <1>7. TodoInv'
    BY <1>2 DEF TodoInv, NotesToRecover, Recorded
  <1>8. HandlerInv' /\ SoloInv'
    BY <1>2 DEF DeliveryInv, HandlerInv, HandlerOf, SoloInv, Solo, Recorded
  <1> QED
    BY <1>3, <1>5, <1>6, <1>7, <1>8 DEF DeliveryInv

\* The recovery closes the updates that were open.
LEMMA CloseKeeps ==
  ASSUME DeliveryInv, CloseUpdates
  PROVE  DeliveryInv'
  <1>1. TypeOK /\ OffsetInv /\ HandlerInv /\ RanInv /\ SendInv /\ SoloInv
    BY DEF DeliveryInv
  <1>2. /\ UNCHANGED <<incoming, confirmedTo, nextOffset, box, handler, worker>>
        /\ UNCHANGED <<shown, ran, faults, downs>>
        /\ poll = "notes" /\ poll' = "updates" /\ todo' = {u \in LeftOpen : ~Recorded(u)}
        /\ updates' = [u \in Updates |-> IF u \notin LeftOpen THEN updates[u]
                                          ELSE IF Recorded(u) THEN "completed"
                                          ELSE "interrupted"]
        /\ token' = IF token = "processing" THEN "failed" ELSE token
    BY DEF CloseUpdates, telegram, counters
  <1>3. SendInv' /\ CallsOK' /\ box' \in [Entries -> {<<>>} \cup Parts]
    BY <1>1, <1>2, CallsStay
  <1>4. LeftOpen \subseteq Updates /\ Updates \subseteq Entries
    BY DEF LeftOpen, Entries
  <1>5. TablesOK'
    BY <1>1, <1>2, <1>4 DEF TypeOK, TablesOK, Statuses
  <1>6. TypeOK'
    BY <1>3, <1>5, TypesApart
  <1>7. \A u \in Updates :
           \/ updates[u] \notin Open /\ updates'[u] = updates[u]
           \/ /\ updates[u] \in Open /\ updates'[u] \in {"completed", "interrupted"}
              /\ ~Recorded(u) => updates'[u] = "interrupted"
    BY <1>2 DEF LeftOpen, Open
  <1>8. OffsetInv' /\ RanInv'
    BY <1>1, <1>2, <1>7 DEF OffsetInv, RanInv, Open
  <1>9. TodoInv'
    BY <1>2, <1>4, <1>7 DEF TodoInv, LeftOpen, Open, Recorded
  <1>10. HandlerInv'
    BY <1>1, <1>2, <1>7 DEF HandlerInv, HandlerOf, Recorded, Open, Closed, Statuses
  <1>11. SoloInv'
    BY <1>1, <1>2 DEF SoloInv, Solo
  <1> QED
    BY <1>3, <1>6, <1>8, <1>9, <1>10, <1>11 DEF DeliveryInv

\* The recovery is abandoned at an update without a chat.
LEMMA FailureKeeps ==
  ASSUME DeliveryInv, NEW u \in Updates, RecoveryFails(u)
  PROVE  DeliveryInv'
  <1>1. TypeOK /\ HandlerInv /\ SendInv /\ SoloInv
    BY DEF DeliveryInv
  <1>2. /\ UNCHANGED <<incoming, confirmedTo, updates, nextOffset, box, token, handler, worker>>
        /\ UNCHANGED <<shown, ran, faults, downs>>
        /\ poll = "updates" /\ poll' = "polling" /\ PollFree /\ todo' = {}
    BY DEF RecoveryFails, telegram, tables, counters
  <1>3. SendInv' /\ CallsOK' /\ box' \in [Entries -> {<<>>} \cup Parts]
    BY <1>1, <1>2, CallsStay
  <1>4. TablesOK'
    BY <1>1, <1>2 DEF TypeOK, TablesOK
  <1>5. TypeOK'
    BY <1>3, <1>4, TypesApart
  <1>6. OffsetInv' /\ RanInv' /\ TodoInv'
    BY <1>2 DEF DeliveryInv, OffsetInv, RanInv, TodoInv
  <1>7. HandlerInv'
    BY <1>1, <1>2 DEF HandlerInv, HandlerOf, Recorded
  <1>8. ASSUME NEW v \in Updates PROVE Solo(v)'
    <2>1. Solo(v) /\ v \in Entries
      BY <1>1 DEF SoloInv, Entries
    <2>2. worker[v]["poll"].pc = "idle"
      BY <1>2, <2>1 DEF PollFree
    <2> QED
      BY <1>2, <2>1, <2>2 DEF Solo
  <1> QED
    BY <1>3, <1>5, <1>6, <1>7, <1>8 DEF DeliveryInv, SoloInv

\* The recovery is over and the results that are due get a retry.
LEMMA PollingKeeps ==
  ASSUME DeliveryInv, StartPolling
  PROVE  DeliveryInv'
  <1>1. TypeOK /\ HandlerInv /\ SendInv /\ SoloInv
    BY DEF DeliveryInv
  <1>2. /\ UNCHANGED <<incoming, confirmedTo, updates, nextOffset, box, token, todo, handler>>
        /\ UNCHANGED <<shown, ran, faults, downs>>
        /\ poll = "updates" /\ poll' = "polling" /\ PollFree /\ todo = {}
        /\ worker' = [e \in Entries |-> IF e \in PendingDeliveries
                                        THEN Scheduled(worker[e]) ELSE worker[e]]
    BY DEF StartPolling, telegram, tables, counters
  <1>4. /\ SendInv' /\ CallsOK' /\ box' \in [Entries -> {<<>>} \cup Parts]
        /\ \A x \in Entries, t \in Slots :
              \/ worker'[x][t] = worker[x][t]
              \/ t = "retry" /\ worker'[x][t].pc = "waiting"
    <2>1. Up /\ poll' # "down"
      BY <1>2 DEF Up
    <2> QED
      BY <1>1, <1>2, <2>1, ManyScheduled
  <1>5. TypeOK'
    <2>1. TablesOK'
      BY <1>1, <1>2 DEF TypeOK, TablesOK
    <2> QED
      BY <1>4, <2>1, TypesApart
  <1>6. OffsetInv' /\ RanInv' /\ TodoInv'
    BY <1>2 DEF DeliveryInv, OffsetInv, RanInv, TodoInv
  <1>7. HandlerInv'
    BY <1>1, <1>2 DEF HandlerInv, HandlerOf, Recorded
  <1>8. ASSUME NEW u \in Updates PROVE Solo(u)'
    <2>1. Solo(u) /\ u \in Entries /\ handler[u] = "none"
      BY <1>1, <1>2 DEF SoloInv, Entries, HandlerInv, HandlerOf
    <2>2. {"direct", "replay", "poll", "retry"} = Slots
      BY DEF Slots
    <2>3. worker[u]["direct"].pc = "idle" /\ worker[u]["poll"].pc = "idle"
      BY <1>2, <2>1 DEF Solo, PollFree
    <2>4. \A t \in Slots \ {"retry"} : worker'[u][t].pc = "idle"
      BY <1>4, <2>1, <2>2, <2>3 DEF Solo
    <2>5. \A t \in Slots : worker'[u][t].pc = "sending" =>
             box'[u][worker'[u][t].part].status # "sent"
      BY <1>2, <1>4, <2>1 DEF Solo
    <2> QED
      BY <1>2, <2>1, <2>2, <2>4, <2>5 DEF Solo
  <1> QED
    BY <1>4, <1>5, <1>6, <1>7, <1>8 DEF DeliveryInv, SoloInv

-----------------------------------------------------------------------------
(* Theorems *)

\* Initially nothing has arrived and nothing runs.
LEMMA InitHolds ==
  ASSUME Init
  PROVE  DeliveryInv
  <1>1. /\ NumUpdates \in Nat /\ NumParts \in Nat /\ MaxDowns \in Nat
        /\ MaxFaults[incoming] \in Nat
        /\ Updates = 1 .. NumUpdates /\ incoming \in [Entries -> Kinds]
        /\ Updates \subseteq Entries /\ {"replay", "direct", "poll"} \subseteq Slots
    BY TelegramAssumption, FaultsAssumption, IncomingAssumption DEF Init, Updates, Entries, Slots
  <1>2. Idle \in Worker /\ Idle.pc = "idle"
    BY <1>1 DEF Idle, Worker
  <1>3. worker = [e \in Entries |-> [s \in Slots |-> Idle]]
    BY DEF Init
  <1>4. /\ worker \in [Entries -> [Slots -> Worker]]
        /\ \A e \in Entries, s \in Slots : worker[e][s].pc = "idle"
    BY <1>2, <1>3
  <1>5. \A e \in Entries : ~Recorded(e)
    BY DEF Init, Recorded
  <1>6. TypeOK
    BY <1>1, <1>4 DEF Init, TypeOK, Statuses
  <1>7. OffsetInv /\ RanInv /\ TodoInv
    BY <1>1 DEF Init, OffsetInv, RanInv, TodoInv
  <1>8. HandlerInv
    BY <1>1, <1>5 DEF Init, HandlerInv, HandlerOf
  <1>9. SendInv
    BY <1>4, <1>5 DEF SendInv, CellInv
  <1>10. SoloInv
    BY <1>1, <1>4 DEF Init, SoloInv, Solo
  <1> QED
    BY <1>6, <1>7, <1>8, <1>9, <1>10 DEF DeliveryInv

\* A step that changes nothing.
LEMMA StutterKeeps ==
  ASSUME DeliveryInv, UNCHANGED vars
  PROVE  DeliveryInv'
  <1>1. /\ UNCHANGED <<incoming, confirmedTo, updates, nextOffset, box, token, poll, todo>>
        /\ UNCHANGED <<handler, worker, shown, ran, faults, downs>> /\ TypeOK /\ SendInv
    BY DEF vars, telegram, tables, counters, DeliveryInv
  <1>2. SendInv' /\ CallsOK' /\ box' \in [Entries -> {<<>>} \cup Parts]
    BY <1>1, CallsStay
  <1>3. TablesOK'
    BY <1>1 DEF TypeOK, TablesOK
  <1>4. TypeOK'
    BY <1>2, <1>3, TypesApart
  <1>5. OffsetInv' /\ RanInv' /\ TodoInv' /\ HandlerInv' /\ SoloInv'
    BY <1>1 DEF DeliveryInv, OffsetInv, RanInv, TodoInv, HandlerInv, HandlerOf, SoloInv, Solo,
                Recorded
  <1> QED
    BY <1>2, <1>4, <1>5 DEF DeliveryInv

\* Every step keeps the invariant.
LEMMA StepKeeps ==
  ASSUME DeliveryInv, [Next]_vars
  PROVE  DeliveryInv'
  <1>1. ASSUME NEW u \in Updates, HandleUpdate(u) PROVE DeliveryInv'
    BY <1>1, HandleKeeps, PressKeeps, ToldKeeps, ExecEndsKeeps, RaiseKeeps DEF HandleUpdate
  <1>2. ASSUME NEW e \in Entries, Deliver(e) PROVE DeliveryInv'
    <2>1. ASSUME NEW s \in Slots, Wake(e, s) \/ SendOk(e, s) PROVE DeliveryInv'
      BY <2>1, WakeKeeps, SendKeeps
    <2>2. ASSUME NEW s \in Slots, NEW arrived \in BOOLEAN,
                 SendRetryable(e, s, arrived) \/ SendRefused(e, s, arrived)
          PROVE  DeliveryInv'
      BY <2>2, SendKeeps
    <2>3. ASSUME NEW p \in 1 .. NumParts, Elapse(e, p) PROVE DeliveryInv'
      BY <2>3, ElapseStep
    <2> QED
      BY <1>2, <2>1, <2>2, <2>3 DEF Deliver
  <1>3. ASSUME Recover PROVE DeliveryInv'
    BY <1>3, RecoverNoteKeeps, CloseKeeps, RecoverUpdateKeeps, FailureKeeps, PollingKeeps
       DEF Recover
  <1>4. CASE Acknowledge
    BY <1>4, AcknowledgeKeeps
  <1>5. CASE \E last \in Updates : ReceiveBatch(last)
    BY <1>5, ReceiveKeeps
  <1>6. CASE \E n \in Notes : Notify(n) \/ NotifyAgain(n)
    BY <1>6, NotifyKeeps
  <1>7. CASE Crash \/ Stop \/ Start
    BY <1>7, CrashKeeps, StopKeeps, StartKeeps
  <1>8. CASE UNCHANGED vars
    BY <1>8, StutterKeeps
  <1> QED
    BY <1>1, <1>2, <1>3, <1>4, <1>5, <1>6, <1>7, <1>8 DEF Next

\* The invariant holds, whatever crashes, stops, failed sends and repeated
\* answers there are.
THEOREM DeliveryInvHolds == Spec => []DeliveryInv
  <1>1. Init => DeliveryInv
    BY InitHolds
  <1>2. DeliveryInv /\ [Next]_vars => DeliveryInv'
    BY StepKeeps
  <1> QED
    BY <1>1, <1>2, PTL DEF Spec

\* Tables, calls and histories keep their types.
THEOREM DeliveryTypes == Spec => []TypeOK
  <1>1. DeliveryInv => TypeOK
    BY DEF DeliveryInv
  <1> QED
    BY <1>1, DeliveryInvHolds, PTL

\* The turn of an update is started at most once, and of all presses of the
\* confirmation button only one runs its operation, for any number of updates,
\* restarts and repeated answers of Telegram (claim, claim_interaction).
THEOREM RunsOnce == Spec => []RunsAtMostOnce
  <1>1. ASSUME DeliveryInv PROVE RunsAtMostOnce
    <2> DEFINE pressed == {u \in Updates : incoming[u] = "confirm" /\ ran[u] > 0}
    <2>1. /\ \A u \in Updates : ran[u] <= 1
          /\ \A u, v \in pressed : u = v
      BY <1>1 DEF DeliveryInv, RanInv
    <2>2. pressed = {} \/ \E u : pressed = {u}
      BY <2>1
    <2> HIDE DEF pressed
    <2>3. Cardinality(pressed) <= 1
      <3>1. CASE pressed = {}
        BY <3>1, FS_EmptySet
      <3>2. CASE \E x : pressed = {x}
        BY <3>2, FS_Singleton
      <3> QED
        BY <2>2, <3>1, <3>2
    <2> QED
      BY <2>1, <2>3 DEF RunsAtMostOnce, pressed
  <1> QED
    BY <1>1, DeliveryInvHolds, PTL

\* What Telegram has been told to forget is in the table, and after the
\* recovery every open update has a live handler (claim, next_offset,
\* recover_after_restart).
THEOREM NoneLost == Spec => []NoUpdateLost
  <1>1. ASSUME DeliveryInv PROVE NoUpdateLost
    <2>1. ASSUME NEW u \in Updates, u < confirmedTo PROVE updates[u] # "absent"
      BY <1>1, <2>1, TelegramAssumption DEF DeliveryInv, OffsetInv, TypeOK, Updates
    <2>2. ASSUME NEW u \in Updates, poll = "polling", updates[u] \in {"received", "running"}
          PROVE  handler[u] \notin {"none", "deliver"}
      BY <1>1, <2>2 DEF DeliveryInv, HandlerInv, HandlerOf, Open, Closed
    <2> QED
      BY <2>1, <2>2 DEF NoUpdateLost
  <1> QED
    BY <1>1, DeliveryInvHolds, PTL

\* The result of an update has at most one sender, and none sends a part that
\* is marked as sent (_deliver_persisted, _schedule_delivery_retry,
\* _recover_state).
THEOREM OneSender == Spec => []ResultHasOneSender
  <1>1. ASSUME DeliveryInv PROVE ResultHasOneSender
    <2> SUFFICES ASSUME NEW u \in Updates
                 PROVE  /\ Cardinality({s \in Slots : worker[u][s].pc = "sending"}) <= 1
                        /\ \A s \in Slots : worker[u][s].pc = "sending" =>
                              /\ Recorded(u)
                              /\ box[u][worker[u][s].part].status # "sent"
      BY DEF ResultHasOneSender
    <2> DEFINE senders == {s \in Slots : worker[u][s].pc = "sending"}
    <2>1. Solo(u) /\ u \in Entries /\ SendInv
      BY <1>1 DEF DeliveryInv, SoloInv, Entries
    <2>2. \A s, t \in senders : s = t
      BY <2>1 DEF Solo
    <2>3. senders = {} \/ \E s : senders = {s}
      BY <2>2
    <2>4. \A s \in Slots : worker[u][s].pc = "sending" =>
             /\ Recorded(u)
             /\ box[u][worker[u][s].part].status # "sent"
      BY <2>1 DEF Solo, SendInv, CellInv
    <2> HIDE DEF senders
    <2>5. Cardinality(senders) <= 1
      <3>1. CASE senders = {}
        BY <3>1, FS_EmptySet
      <3>2. CASE \E x : senders = {x}
        BY <3>2, FS_Singleton
      <3> QED
        BY <2>3, <3>1, <3>2
    <2> QED
      BY <2>4, <2>5 DEF senders
  <1> QED
    BY <1>1, DeliveryInvHolds, PTL

-----------------------------------------------------------------------------
(* The refinement of the outbox *)

\* The number of leading parts that are marked as sent.
Count(parts) == IF Unsent(parts) = {} THEN NumParts ELSE SmallestOf(Unsent(parts)) - 1

\* It is what Upto says.
LEMMA CountIs ==
  ASSUME NEW parts \in Parts, NEW c, Upto(parts, c)
  PROVE  Count(parts) = c
  <1>1. NumParts \in Nat /\ c \in 0 .. NumParts /\ DOMAIN parts = 1 .. NumParts
    BY TelegramAssumption DEF Upto, Parts
  <1>2. {k \in Unsent(parts) : k > 0} = Unsent(parts)
    BY <1>1 DEF Unsent
  <1>3. c = (IF c > 0 THEN c ELSE 0) /\ 0 \in 0 .. NumParts
    BY <1>1
  <1>4. /\ c = NumParts => Unsent(parts) = {}
        /\ c < NumParts => Unsent(parts) # {} /\ SmallestOf(Unsent(parts)) = c + 1
    BY <1>1, <1>2, <1>3, NextPart
  <1> QED
    BY <1>1, <1>4 DEF Count

\* What the outbox is told, in terms of the record alone.
LEMMA ConfirmedCounts ==
  ASSUME NEW e
  PROVE  /\ Confirmed(e) = IF box[e] = <<>> THEN 0 ELSE Count(box[e])
         /\ Confirmed(e)' = IF box'[e] = <<>> THEN 0 ELSE Count(box'[e])
  BY DEF Confirmed, Recorded, Sent, Count

\* What the outbox sees of a record with c parts sent, now and afterwards.
LEMMA Seen ==
  ASSUME DeliveryInv, DeliveryInv', NEW e \in Entries
  PROVE  /\ Recorded(e) => \A c : Upto(box[e], c) => Confirmed(e) = c
         /\ Recorded(e)' => \A c : Upto(box'[e], c) => Confirmed(e)' = c
         /\ ~Recorded(e) => Confirmed(e) = 0
         /\ ~Recorded(e)' => Confirmed(e)' = 0
  <1>1. box[e] \in {<<>>} \cup Parts /\ box'[e] \in {<<>>} \cup Parts
    BY DEF DeliveryInv, TypeOK, Parts
  <1>2. /\ Confirmed(e) = IF box[e] = <<>> THEN 0 ELSE Count(box[e])
        /\ Confirmed(e)' = IF box'[e] = <<>> THEN 0 ELSE Count(box'[e])
    BY ConfirmedCounts
  <1> QED
    BY <1>1, <1>2, CountIs DEF Recorded

\* The outbox sees neither calls nor clocks.
LEMMA OutboxStays ==
  ASSUME \A e \in Entries : (Recorded(e)' <=> Recorded(e)) /\ Confirmed(e)' = Confirmed(e),
         shown' = shown
  PROVE  UNCHANGED Outbox!outbox
  <1>1. [e \in Entries |-> Recorded(e)]' = [e \in Entries |-> Recorded(e)]
    BY DEF Recorded
  <1>2. [e \in Entries |-> Confirmed(e)]' = [e \in Entries |-> Confirmed(e)]
    OBVIOUS
  <1> QED
    BY <1>1, <1>2 DEF Outbox!outbox

\* Where no record changes, the outbox sees none change.
LEMMA BoxStays ==
  ASSUME box' = box
  PROVE  \A e \in Entries : (Recorded(e)' <=> Recorded(e)) /\ Confirmed(e)' = Confirmed(e)
  BY DEF Recorded, Confirmed, Sent

\* A result that is recorded.
LEMMA RecordMaps ==
  ASSUME DeliveryInv, DeliveryInv', NEW e \in Entries, ~Recorded(e), box' = Prepared(e),
         shown' = shown
  PROVE  Outbox!Record(e)
  <1>1. box' = [box EXCEPT ![e] = NewRecord]
    BY DEF Prepared
  <1>2. /\ box'[e] = NewRecord /\ Upto(box'[e], 0) /\ Recorded(e)'
        /\ \A x \in Entries \ {e} : box'[x] = box[x]
    BY <1>1, NewTyped, NoParts DEF DeliveryInv, TypeOK, Recorded
  <1>3. Confirmed(e)' = Confirmed(e)
    BY <1>2, Seen
  <1>4. \A x \in Entries \ {e} : Confirmed(x)' = Confirmed(x)
    BY <1>2 DEF Confirmed, Recorded, Sent
  <1>5. [x \in Entries |-> Confirmed(x)]' = [x \in Entries |-> Confirmed(x)]
    BY <1>3, <1>4
  <1>6. [x \in Entries |-> Recorded(x)]' = [[x \in Entries |-> Recorded(x)] EXCEPT ![e] = TRUE]
    BY <1>2 DEF Recorded
  <1> QED
    BY <1>5, <1>6 DEF Outbox!Record

\* A part that has reached the chat.
LEMMA ShowMaps ==
  ASSUME DeliveryInv, DeliveryInv', NEW e \in Entries, NEW p \in 1 .. NumParts,
         NEW c \in 0 .. NumParts, Recorded(e), Upto(box[e], c), p <= c + 1,
         Recorded(e)', Upto(box'[e], c) \/ Upto(box'[e], IF p > c THEN p ELSE c),
         \A x \in Entries \ {e} : box'[x] = box[x],
         shown' = [shown EXCEPT ![e] = @ \cup {p}]
  PROVE  Outbox!Show(e, p)
  <1>1. Confirmed(e) = c /\ (Confirmed(e)' = c \/ Confirmed(e)' = IF p > c THEN p ELSE c)
    BY Seen
  <1>2. \A x \in Entries \ {e} : Confirmed(x)' = Confirmed(x)
    BY DEF Confirmed, Recorded, Sent
  <1>3. [x \in Entries |-> Recorded(x)]' = [x \in Entries |-> Recorded(x)]
    BY DEF Recorded
  <1> DEFINE conf == [x \in Entries |-> Confirmed(x)]
  <1>4. conf[e] = c
    BY <1>1
  <1>5. conf' = [conf EXCEPT ![e] = IF p > @ THEN p ELSE @] \/ conf' = conf
    BY <1>1, <1>2
  <1> QED
    BY <1>3, <1>4, <1>5 DEF Outbox!Show

\* A send that ends, whatever its answer.
LEMMA SendMaps ==
  ASSUME DeliveryInv, DeliveryInv', NEW e \in Entries, NEW s \in Slots, NEW arrived \in BOOLEAN,
         SendOk(e, s) \/ SendRetryable(e, s, arrived) \/ SendRefused(e, s, arrived)
  PROVE  [Outbox!Next]_(Outbox!outbox)
  <1> DEFINE p == worker[e][s].part
  <1>1. TypeOK /\ SendInv /\ worker[e][s].pc = "sending"
    BY DEF DeliveryInv, SendOk, SendRetryable, SendRefused
  <1>2. Recorded(e) /\ p \in 1 .. NumParts
    BY <1>1, Sending
  <1>3. PICK c \in 0 .. NumParts :
           /\ Upto(box[e], c) /\ p <= c + 1
           /\ \/ Upto(box'[e], c) /\ shown' = shown
              \/ /\ Upto(box'[e], c) \/ Upto(box'[e], IF p > c THEN p ELSE c)
                 /\ shown' = [shown EXCEPT ![e] = @ \cup {p}]
    <2>1. CASE SendOk(e, s)
      BY <1>1, <2>1, SentMoves
    <2>2. CASE SendRetryable(e, s, arrived) \/ SendRefused(e, s, arrived)
      BY <1>1, <2>2, FailedMoves
    <2> QED
      BY <2>1, <2>2
  <1>4. PICK row, parts, b : Moves(e, s, row, parts, b)
    BY <1>1, SentMoves, FailedMoves
  <1>5. /\ Recorded(e)' /\ \A x \in Entries \ {e} : box'[x] = box[x]
    BY <1>1, <1>4, NoParts DEF Moves, TypeOK, Recorded
  <1> HIDE DEF p
  <1>6. CASE shown' = [shown EXCEPT ![e] = @ \cup {p}]
    <2>1. Outbox!Show(e, p)
      BY <1>2, <1>3, <1>5, <1>6, ShowMaps
    <2> QED
      BY <1>2, <2>1 DEF Outbox!Next
  <1>7. CASE Upto(box'[e], c) /\ shown' = shown
    <2>1. Confirmed(e)' = c /\ Confirmed(e) = c
      BY <1>2, <1>3, <1>5, <1>7, Seen
    <2>2. ASSUME NEW x \in Entries
          PROVE  (Recorded(x)' <=> Recorded(x)) /\ Confirmed(x)' = Confirmed(x)
      <3>1. CASE x = e
        BY <1>2, <1>5, <2>1, <3>1
      <3>2. CASE x # e
        BY <1>5, <3>2 DEF Recorded, Confirmed, Sent
      <3> QED
        BY <3>1, <3>2
    <2> QED
      BY <1>7, <2>2, OutboxStays
  <1> QED
    BY <1>3, <1>6, <1>7

\* Messages that a dying process leaves in flight, with a result that it has
\* just recorded.
LEMMA EndMaps ==
  ASSUME DeliveryInv, DeliveryInv', ProcessEnds,
         \/ box' = box
         \/ \E u \in Entries : ~Recorded(u) /\ box' = Prepared(u)
  PROVE  Outbox!ShowUnanswered
  <1>1. TypeOK /\ SendInv
    BY DEF DeliveryInv
  <1>2. PICK W \in SUBSET {es \in Entries \X Slots : worker[es[1]][es[2]].pc = "sending"} :
           shown' = [e \in Entries |-> shown[e] \cup
                       {worker[es[1]][es[2]].part : es \in {x \in W : x[1] = e}}]
    BY DEF ProcessEnds
  <1>3. \A es \in W : /\ worker[es[1]][es[2]].part \in 1 .. NumParts /\ Recorded(es[1])
                      /\ worker[es[1]][es[2]].part <= Confirmed(es[1]) + 1
    <2> SUFFICES ASSUME NEW es \in W
                 PROVE  /\ worker[es[1]][es[2]].part \in 1 .. NumParts /\ Recorded(es[1])
                        /\ worker[es[1]][es[2]].part <= Confirmed(es[1]) + 1
      OBVIOUS
    <2>1. es[1] \in Entries /\ es[2] \in Slots /\ worker[es[1]][es[2]].pc = "sending"
      OBVIOUS
    <2>2. /\ Recorded(es[1]) /\ box[es[1]] \in Parts
          /\ worker[es[1]][es[2]].part \in 1 .. NumParts
          /\ \E c, b \in 0 .. NumParts :
                /\ Upto(worker[es[1]][es[2]].seen, c) /\ Upto(box[es[1]], b)
                /\ c < worker[es[1]][es[2]].part /\ worker[es[1]][es[2]].part <= b + 1
      BY <1>1, <2>1, Sending
    <2>3. Confirmed(es[1]) = Count(box[es[1]])
      BY <2>2, ConfirmedCounts, NoParts
    <2> QED
      BY <2>2, <2>3, CountIs
  <1>4. ASSUME NEW e \in Entries
        PROVE  /\ shown[e] \subseteq shown'[e] /\ shown'[e] \subseteq 1 .. NumParts
               /\ \A p \in shown'[e] \ shown[e] : Recorded(e) /\ p <= Confirmed(e) + 1
    <2>1. shown'[e] = shown[e] \cup {worker[es[1]][es[2]].part : es \in {x \in W : x[1] = e}}
      BY <1>2
    <2>2. shown[e] \subseteq 1 .. NumParts
      BY <1>1 DEF TypeOK
    <2> QED
      BY <1>3, <2>1, <2>2
  <1>5. shown' \in [Entries -> SUBSET (1 .. NumParts)]
    BY <1>2, <1>4
  <1> DEFINE rec == [e \in Entries |-> Recorded(e)]
  <1>6. /\ rec' = rec \/ \E u \in Entries : rec' = [rec EXCEPT ![u] = TRUE]
        /\ [e \in Entries |-> Confirmed(e)]' = [e \in Entries |-> Confirmed(e)]
    <2>1. CASE box' = box
      BY <2>1 DEF Recorded, Confirmed, Sent
    <2>2. CASE \E u \in Entries : ~Recorded(u) /\ box' = Prepared(u)
      <3>1. PICK u \in Entries : ~Recorded(u) /\ box' = Prepared(u)
        BY <2>2
      <3>2. box' = [box EXCEPT ![u] = NewRecord]
        BY <3>1 DEF Prepared
      <3>3. /\ box'[u] = NewRecord /\ Upto(box'[u], 0) /\ Recorded(u)'
            /\ \A x \in Entries \ {u} : box'[x] = box[x]
        BY <1>1, <3>2, NewTyped, NoParts DEF TypeOK, Recorded
      <3>4. Confirmed(u)' = Confirmed(u)
        BY <3>1, <3>3, Seen
      <3>5. \A x \in Entries \ {u} : Confirmed(x)' = Confirmed(x)
        BY <3>3 DEF Confirmed, Recorded, Sent
      <3>6. [e \in Entries |-> Confirmed(e)]' = [e \in Entries |-> Confirmed(e)]
        BY <3>4, <3>5
      <3>7. rec' = [rec EXCEPT ![u] = TRUE]
        BY <3>3 DEF Recorded
      <3> QED
        BY <3>6, <3>7
    <2> QED
      BY <2>1, <2>2
  <1> QED
    BY <1>4, <1>5, <1>6 DEF Outbox!ShowUnanswered

\* Every step is one of the outbox, or none.
LEMMA StepMaps ==
  ASSUME DeliveryInv, DeliveryInv', [Next]_vars
  PROVE  [Outbox!Next]_(Outbox!outbox)
  <1>1. ASSUME box' = box, shown' = shown PROVE UNCHANGED Outbox!outbox
    BY <1>1, BoxStays, OutboxStays
  <1>2. ASSUME NEW e \in Entries, ~Recorded(e), box' = Prepared(e), shown' = shown
        PROVE  Outbox!Next
    BY <1>2, RecordMaps DEF Outbox!Next
  <1>3. ASSUME NEW u \in Updates, HandleUpdate(u) PROVE [Outbox!Next]_(Outbox!outbox)
    <2>1. CASE Handle(u) \/ Press(u) \/ Told(u)
                \/ \E status \in {"rejected", "failed"} : ExecRaises(u, status)
      BY <1>1, <2>1 DEF Handle, Press, Told, ExecRaises, counters
    <2>2. CASE \E status \in {"completed", "failed", "rejected"} : ExecEnds(u, status)
      <3>1. box' = Prepared(u) /\ shown' = shown /\ handler[u] = "exec"
        BY <2>2 DEF ExecEnds
      <3>2. ~Recorded(u) /\ u \in Entries
        BY <3>1 DEF DeliveryInv, HandlerInv, HandlerOf, Closed, Open, Entries
      <3> QED
        BY <1>2, <3>1, <3>2
    <2> QED
      BY <1>3, <2>1, <2>2 DEF HandleUpdate
  <1>4. ASSUME NEW e \in Entries, Deliver(e) PROVE [Outbox!Next]_(Outbox!outbox)
    <2>1. ASSUME NEW s \in Slots, Wake(e, s) PROVE [Outbox!Next]_(Outbox!outbox)
      BY <1>1, <2>1 DEF Wake, tables
    <2>2. ASSUME NEW s \in Slots, SendOk(e, s) PROVE [Outbox!Next]_(Outbox!outbox)
      <3>1. TRUE \in BOOLEAN
        OBVIOUS
      <3> QED
        BY <2>2, <3>1, SendMaps
    <2>3. ASSUME NEW s \in Slots, NEW arrived \in BOOLEAN,
                 SendRetryable(e, s, arrived) \/ SendRefused(e, s, arrived)
          PROVE  [Outbox!Next]_(Outbox!outbox)
      BY <2>3, SendMaps
    <2>4. ASSUME NEW p \in 1 .. NumParts, Elapse(e, p) PROVE UNCHANGED Outbox!outbox
      <3>1. /\ \A x \in Entries : Recorded(x)' <=> Recorded(x)
            /\ \A x \in Entries : \A c : Recorded(x) => (Upto(box'[x], c) <=> Upto(box[x], c))
        BY <2>4, ElapseKeeps DEF DeliveryInv
      <3>2. ASSUME NEW x \in Entries PROVE Confirmed(x)' = Confirmed(x)
        <4>1. CASE Recorded(x)
          <5>1. PICK c : Upto(box[x], c)
            BY <4>1, RecordUpto DEF DeliveryInv
          <5> QED
            BY <3>1, <4>1, <5>1, Seen
        <4>2. CASE ~Recorded(x)
          BY <3>1, <4>2, Seen
        <4> QED
          BY <4>1, <4>2
      <3>3. shown' = shown
        BY <2>4 DEF Elapse
      <3> QED
        BY <3>1, <3>2, <3>3, OutboxStays
    <2> QED
      BY <1>4, <2>1, <2>2, <2>3, <2>4 DEF Deliver
  <1>5. ASSUME NEW n \in Notes, Notify(n) \/ NotifyAgain(n) PROVE [Outbox!Next]_(Outbox!outbox)
    <2>1. n \in Entries
      BY DEF Entries
    <2>2. CASE Notify(n)
      BY <1>2, <2>1, <2>2 DEF Notify
    <2>3. CASE NotifyAgain(n)
      BY <1>1, <2>3 DEF NotifyAgain, tables
    <2> QED
      BY <1>5, <2>2, <2>3
  <1>6. ASSUME Recover PROVE [Outbox!Next]_(Outbox!outbox)
    <2>1. ASSUME NEW n \in Notes, RecoverNote(n) PROVE UNCHANGED Outbox!outbox
      BY <1>1, <2>1 DEF RecoverNote, tables
    <2>2. CASE CloseUpdates
      BY <1>1, <2>2 DEF CloseUpdates
    <2>3. ASSUME NEW u \in Updates, RecoverUpdate(u) PROVE Outbox!Next
      <3>1. box' = Prepared(u) /\ shown' = shown /\ poll = "updates" /\ u \in todo
        BY <2>3 DEF RecoverUpdate
      <3>2. ~Recorded(u) /\ u \in Entries
        BY <3>1 DEF DeliveryInv, TodoInv, Entries
      <3> QED
        BY <1>2, <3>1, <3>2
    <2>4. CASE StartPolling \/ \E u \in Updates : RecoveryFails(u)
      BY <1>1, <2>4 DEF StartPolling, RecoveryFails, tables
    <2> QED
      BY <1>6, <2>1, <2>2, <2>3, <2>4 DEF Recover
  <1>7. CASE Acknowledge \/ (\E last \in Updates : ReceiveBatch(last)) \/ Start \/ UNCHANGED vars
    BY <1>1, <1>7 DEF Acknowledge, ReceiveBatch, Start, vars, tables
  <1>8. CASE Crash \/ Stop
    <2>1. box' = box \/ \E u \in Updates : CutEnd(u)
      BY <1>8 DEF Crash, Stop, CutShort, CutBatch, CutPress, CutRaise, tables
    <2>2. ASSUME NEW u \in Updates, CutEnd(u)
          PROVE  u \in Entries /\ ~Recorded(u) /\ box' = Prepared(u)
      BY <2>2 DEF CutEnd, DeliveryInv, HandlerInv, HandlerOf, Closed, Open, Entries
    <2>3. \/ box' = box
          \/ \E u \in Entries : ~Recorded(u) /\ box' = Prepared(u)
      BY <2>1, <2>2
    <2> QED
      BY <1>8, <2>3, EndMaps DEF Crash, Stop, Outbox!Next
  <1> QED
    BY <1>3, <1>4, <1>5, <1>6, <1>7, <1>8 DEF Next

\* Initially nothing is recorded.
LEMMA InitMaps ==
  ASSUME Init
  PROVE  Outbox!Init
  <1>1. \A e \in Entries : ~Recorded(e) /\ Confirmed(e) = 0
    BY DEF Init, Recorded, Confirmed
  <1>2. [e \in Entries |-> Recorded(e)] = [e \in Entries |-> FALSE]
    BY DEF Init, Recorded
  <1>3. [e \in Entries |-> Confirmed(e)] = [e \in Entries |-> 0]
    BY <1>1
  <1> QED
    BY <1>2, <1>3 DEF Init, Outbox!Init

\* The delivery keeps the outbox's promise: a result is persisted before its
\* first send, its parts reach the chat in order, and a part is marked as sent
\* only after it has reached the chat, whatever crashes and retries there are
\* (create_delivery, deliver_parts, mark_delivery_part_sent).
THEOREM DeliveryImplementsOutbox == Spec => ImplementsOutbox
  <1>1. Init => Outbox!Init
    BY InitMaps
  <1>2. DeliveryInv /\ DeliveryInv' /\ [Next]_vars => [Outbox!Next]_(Outbox!outbox)
    BY StepMaps
  <1> QED
    BY <1>1, <1>2, DeliveryInvHolds, PTL DEF Spec, ImplementsOutbox, Outbox!Spec
=============================================================================
