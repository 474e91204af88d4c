-------------------------- MODULE TelegramDelivery --------------------------
(***************************************************************************)
(* Long polling, the handling of updates and the durable delivery of       *)
(* results of src/bot/telegram: gateway.py, state.py, notifications.py.    *)
(* The tables of the SQLite file survive a crash, tasks of the event loop  *)
(* do not.  An action is the code between two awaits.  Every write commits *)
(* by itself: where an action has several, a crash may fall between them   *)
(* (CutShort).                                                             *)
(* Left out: navigation panels and settings beyond the fact that they      *)
(* answer without the outbox, reply prompts (claimed like a confirmation), *)
(* a random restart of Telegram's update ids, and failures of SQLite.      *)
(***************************************************************************)
EXTENDS Naturals, Sequences, FiniteSets

CONSTANTS NumUpdates, \* ids of updates are 1 .. NumUpdates
          Incoming,   \* what may happen: kinds of updates, turns that end
          Notes,      \* completions of web turns, one per recipient
          NumParts,   \* messages one result is split into
          MaxFaults,  \* bound on failed sends, in each of Incoming
          MaxDowns    \* bound on crashes and stops

ASSUME TelegramAssumption == /\ NumUpdates \in Nat /\ NumParts \in Nat \ {0}
                             /\ MaxDowns \in Nat
                             /\ Notes \cap (1 .. NumUpdates) = {}

Updates == 1 .. NumUpdates
Entries == Updates \cup Notes
Kinds == {"text", "confirm", "panel", "foreign", "chatless", "turn", "none"}
\* Senders that are not allowed; an old message's button comes without a chat.
Strangers == {"foreign", "chatless"}

ASSUME FaultsAssumption == MaxFaults \in [[Entries -> Kinds] -> Nat]

ASSUME IncomingAssumption ==
    /\ Incoming \subseteq [Entries -> Kinds]
    /\ \A k \in Incoming, u \in Updates : k[u] # "turn"
    \* Telegram counts the updates of a bot without gaps.
    /\ \A k \in Incoming : \E n \in 0 .. NumUpdates :
          \A u \in Updates : k[u] = "none" <=> u > n

Statuses == {"absent", "received", "ignored", "running", "handled",
             "completed", "failed", "rejected", "interrupted"}
\* Who runs _deliver_persisted of an entry: the handler of the update or the
\* stream that ended, the same stream resumed, the recovery of the polling
\* task, the task of the table of retries.
Slots == {"direct", "replay", "poll", "retry"}
Dues == {"due", "later", "never"}
Part == [status : {"pending", "sent", "failed"}, due : Dues]

VARIABLES incoming,    \* kind of each update, turns of the web that end
          confirmedTo, \* Telegram: updates below are not returned any more
          updates,     \* table updates: status
          nextOffset,  \* table polling_cursors
          box,         \* deliveries and completion_notifications: their parts
          token,       \* status of the confirmation button in interactions
          poll,        \* where the polling task is, "down" without a process
          todo,        \* entries the recovery has listed and not yet done
          handler,     \* where _handle is for each update
          worker,      \* calls of _deliver_persisted
          shown,       \* history: parts that reached the chat
          ran,         \* history: times an update's side effects were started
          faults, downs

tables == <<updates, nextOffset, box, token>>
telegram == <<incoming, confirmedTo>>
counters == <<faults, downs>>
vars == <<telegram, tables, poll, todo, handler, worker, shown, ran, counters>>

Up == poll # "down"
Idle == [pc |-> "idle", part |-> 0, seen |-> <<>>]
Waiting == [Idle EXCEPT !.pc = "waiting"]
NewRecord == [i \in 1 .. NumParts |-> [status |-> "pending", due |-> "due"]]
SmallestOf(S) == CHOOSE i \in S : \A j \in S : i <= j

Recorded(e) == box[e] # <<>>
Unsent(parts) == {i \in DOMAIN parts : parts[i].status # "sent"}
Sent(e) == Recorded(e) /\ Unsent(box[e]) = {}
\* retry_at of the record is that of its first unsent part.
RetryAt(e) == box[e][SmallestOf(Unsent(box[e]))].due

-----------------------------------------------------------------------------
(* Delivery of a record: _deliver_persisted and deliver_parts. *)

\* Schedule a retry unless a task of the table is still alive.
Scheduled(row) ==
    IF row["retry"].pc = "idle" THEN [row EXCEPT !["retry"] = Waiting] ELSE row

\* The call in slot s has read the parts into seen and is done with the
\* first i of them: it sends the next unsent part, or it ends.
Proceed(row, s, seen, i) ==
    LET rest == {k \in Unsent(seen) : k > i}
        ended == [row EXCEPT ![s] = Idle]
        next == SmallestOf(rest)
    IN  IF rest = {} THEN ended
        ELSE CASE seen[next].due = "never" -> ended
               [] seen[next].due = "later" -> Scheduled(ended)
               [] seen[next].due = "due" ->
                    [row EXCEPT ![s] = [pc |-> "sending", part |-> next,
                                        seen |-> seen]]

Begin(row, s, parts) == Proceed(row, s, parts, 0)

\* The task of the table wakes up; the clock of the event loop is not the
\* clock of retry_at, so it may find that its part is not due yet.
Wake(e, s) ==
    /\ Up /\ worker[e][s].pc = "waiting"
    /\ worker' = [worker EXCEPT ![e] = Begin(@, s, box[e])]
    /\ UNCHANGED <<telegram, tables, poll, todo, handler, shown, ran, counters>>

\* The handler ends when its own call of _deliver_persisted has ended.
HandlerAfter(e, s, row) ==
    IF e \in Updates /\ s = "direct" /\ row["direct"].pc = "idle"
    THEN [handler EXCEPT ![e] = "none"] ELSE handler

\* Mutant of PartSent: marking a part as sent comes before the answer.
PartSentEarly(e, p) ==
    [box EXCEPT ![e] = [i \in 1 .. NumParts |->
        IF i <= p + 1 THEN [@[i] EXCEPT !.status = "sent"] ELSE @[i]]]

PartSent(e, p) == [box EXCEPT ![e][p].status = "sent"]

PartFailed(e, p, due) ==
    IF box[e][p].status = "sent" THEN box
    ELSE [box EXCEPT ![e][p] = [status |-> "failed", due |-> due]]

\* send_message has answered: the part is marked and the next one sent.
SendOk(e, s) ==
    LET w == worker[e][s] IN
    /\ Up /\ w.pc = "sending"
    /\ shown' = [shown EXCEPT ![e] = @ \cup {w.part}]
    /\ box' = PartSent(e, w.part)
    /\ worker' = [worker EXCEPT ![e] = Proceed(@, s, w.seen, w.part)]
    /\ handler' = HandlerAfter(e, s, worker'[e])
    /\ UNCHANGED <<telegram, updates, nextOffset, token, poll, todo, ran, counters>>

\* A failure that may be repeated (network, timeout, 429, 5xx): after a
\* timeout the message may have reached the chat all the same.
SendRetryable(e, s, arrived) ==
    LET w == worker[e][s] IN
    /\ Up /\ w.pc = "sending" /\ faults < MaxFaults[incoming]
    /\ faults' = faults + 1
    /\ shown' = IF arrived THEN [shown EXCEPT ![e] = @ \cup {w.part}] ELSE shown
    /\ box' = PartFailed(e, w.part, "later")
    /\ worker' = [worker EXCEPT ![e] = Scheduled([@ EXCEPT ![s] = Idle])]
    /\ handler' = HandlerAfter(e, s, worker'[e])
    /\ UNCHANGED <<telegram, updates, nextOffset, token, poll, todo, ran, downs>>

\* Any other failure, and an answer without a message id.
SendRefused(e, s, arrived) ==
    LET w == worker[e][s] IN
    /\ Up /\ w.pc = "sending" /\ faults < MaxFaults[incoming]
    /\ faults' = faults + 1
    /\ shown' = IF arrived THEN [shown EXCEPT ![e] = @ \cup {w.part}] ELSE shown
    /\ box' = PartFailed(e, w.part, "never")
    /\ worker' = [worker EXCEPT ![e][s] = Idle]
    /\ handler' = HandlerAfter(e, s, worker'[e])
    /\ UNCHANGED <<telegram, updates, nextOffset, token, poll, todo, ran, downs>>

\* Time passes: the retry_at of a part is reached, for those who have read it
\* as well; it does so while the process is down too.
Elapse(e, p) ==
    /\ Recorded(e) /\ box[e][p].due = "later"
    /\ box' = [box EXCEPT ![e][p].due = "due"]
    /\ worker' = [worker EXCEPT ![e] = [s \in Slots |->
                    IF @[s].pc = "sending" /\ @[s].seen[p].due = "later"
                    THEN [@[s] EXCEPT !.seen[p].due = "due"] ELSE @[s]]]
    /\ UNCHANGED <<telegram, updates, nextOffset, token, poll, todo, handler,
                   shown, ran, counters>>

-----------------------------------------------------------------------------
(* Polling: _poll, receive_update, TelegramState.claim. *)

\* getUpdates(offset) reaches Telegram, which forgets what is below.
Acknowledge ==
    /\ poll = "polling" /\ confirmedTo # nextOffset
    /\ confirmedTo' = nextOffset
    /\ UNCHANGED <<incoming, tables, poll, todo, handler, worker, shown, ran,
                   counters>>

\* What Telegram returns: the updates up to last that it has not forgotten.
Batch(last) == {u \in confirmedTo .. last : incoming[u] # "none"}

Claimed(us) == {u \in us : updates[u] = "absent"}

\* Mutant of OffsetAfter: the offset skips an update.
OffsetPast(us) ==
    IF Claimed(us) = {} THEN nextOffset
    ELSE CHOOSE o \in {u + 2 : u \in Claimed(us)} : \A u \in Claimed(us) : u + 2 <= o

OffsetAfter(us) ==
    IF Claimed(us) = {} THEN nextOffset
    ELSE CHOOSE o \in {u + 1 : u \in Claimed(us)} : \A u \in Claimed(us) : u < o

\* receive_update of every update of us: new ones get a handler, unless the
\* sender is not allowed.  The claim commits before "ignored" does: updates
\* of open have got no further than that.
ClaimUpdates(us, open) ==
    /\ updates' = [u \in Updates |->
                     IF u \notin Claimed(us) THEN updates[u]
                     ELSE IF incoming[u] \in Strangers /\ u \notin open THEN "ignored"
                     ELSE "received"]
    /\ nextOffset' = OffsetAfter(us)

\* A batch is claimed without an await in between.
ReceiveBatch(last) ==
    /\ poll = "polling" /\ Batch(last) # {}
    /\ ClaimUpdates(Batch(last), {})
    /\ handler' = [u \in Updates |->
                     IF u \in Claimed(Batch(last)) /\ incoming[u] \notin Strangers
                     THEN "start" ELSE handler[u]]
    /\ UNCHANGED <<telegram, box, token, poll, todo, worker, shown, ran, counters>>

-----------------------------------------------------------------------------
(* Handling of an update: _handle, _send_text, _execute, _confirm. *)

Finished(u) == handler' = [handler EXCEPT ![u] = "none"]

\* A text is routed to its agent and the turn starts; a panel answers; the
\* press of a button is acknowledged first.
Handle(u) ==
    /\ Up /\ handler[u] = "start"
    /\ CASE incoming[u] = "text" ->
              /\ updates' = [updates EXCEPT ![u] = "running"]
              /\ handler' = [handler EXCEPT ![u] = "exec"]
              /\ ran' = [ran EXCEPT ![u] = @ + 1]
         [] incoming[u] = "panel" ->
              /\ handler' = [handler EXCEPT ![u] = "tell"]
              /\ UNCHANGED <<updates, ran>>
         [] incoming[u] = "confirm" ->
              /\ handler' = [handler EXCEPT ![u] = "ack"]
              /\ UNCHANGED <<updates, ran>>
    /\ UNCHANGED <<telegram, nextOffset, box, token, poll, todo, worker, shown,
                   counters>>

\* Mutant of Claimable: a button whose operation has ended is claimed again.
ClaimableAgain == token # "processing"

Claimable == token = "pending"

\* The acknowledgement is over: the first press that claims the button runs
\* its operation, any other is told the result of the first.
Press(u) ==
    /\ Up /\ handler[u] = "ack"
    /\ IF Claimable
       THEN /\ token' = "processing"
            /\ updates' = [updates EXCEPT ![u] = "running"]
            /\ handler' = [handler EXCEPT ![u] = "exec"]
            /\ ran' = [ran EXCEPT ![u] = @ + 1]
       ELSE /\ handler' = [handler EXCEPT ![u] = "tell"]
            /\ UNCHANGED <<token, updates, ran>>
    /\ UNCHANGED <<telegram, nextOffset, box, poll, todo, worker, shown, counters>>

\* create_delivery: an existing record of the update is left as it is.
Prepared(e) == IF Recorded(e) THEN box ELSE [box EXCEPT ![e] = NewRecord]

\* The turn or the operation has ended: its result is persisted, then the
\* button and the update are closed, then the first part is sent.
ExecEnds(u, status) ==
    /\ Up /\ handler[u] = "exec"
    /\ box' = Prepared(u)
    /\ token' = IF incoming[u] = "confirm" THEN "completed" ELSE token
    /\ updates' = [updates EXCEPT ![u] = IF incoming[u] = "confirm"
                                         THEN "completed" ELSE status]
    /\ worker' = [worker EXCEPT ![u] = Begin(@, "direct", NewRecord)]
    /\ handler' = [handler EXCEPT ![u] = "deliver"]
    /\ UNCHANGED <<telegram, nextOffset, poll, todo, shown, ran, counters>>

\* It raised instead: the error is told without the outbox.
ExecRaises(u, status) ==
    /\ Up /\ handler[u] = "exec"
    /\ updates' = [updates EXCEPT ![u] = status]
    /\ token' = IF incoming[u] = "confirm" THEN "failed" ELSE token
    /\ handler' = [handler EXCEPT ![u] = "tell"]
    /\ UNCHANGED <<telegram, nextOffset, box, poll, todo, worker, shown, ran,
                   counters>>

\* The answer without the outbox is over, sent or not.
Told(u) ==
    /\ Up /\ handler[u] = "tell"
    /\ updates' = [updates EXCEPT ![u] = IF @ = "received" THEN "handled" ELSE @]
    /\ Finished(u)
    /\ UNCHANGED <<telegram, nextOffset, box, token, poll, todo, worker, shown,
                   ran, counters>>

-----------------------------------------------------------------------------
(* Notifications of the turns of the web: notify_completion. *)

\* The stream of a turn yields its last event: the notification is persisted
\* and its first part sent.
Notify(n) ==
    /\ Up /\ incoming[n] = "turn" /\ ~Recorded(n)
    /\ box' = Prepared(n)
    /\ worker' = [worker EXCEPT ![n] = Begin(@, "direct", NewRecord)]
    /\ UNCHANGED <<telegram, updates, nextOffset, token, poll, todo, handler,
                   shown, ran, counters>>

\* A resumed stream yields the last event again.
NotifyAgain(n) ==
    /\ Up /\ Recorded(n) /\ worker[n]["replay"].pc = "idle"
    /\ ~Sent(n)
    /\ worker' = [worker EXCEPT ![n] = Begin(@, "replay", box[n])]
    /\ UNCHANGED <<telegram, tables, poll, todo, handler, shown, ran, counters>>

-----------------------------------------------------------------------------
(* The process dies, is stopped, and starts again. *)

\* Nothing of the event loop is left; a message under way may have arrived.
ProcessEnds ==
    /\ poll' = "down" /\ todo' = {}
    /\ worker' = [e \in Entries |-> [s \in Slots |-> Idle]]
    /\ handler' = [u \in Updates |-> "none"]
    /\ downs' = downs + 1
    /\ \E W \in SUBSET {es \in Entries \X Slots :
                          worker[es[1]][es[2]].pc = "sending"} :
          shown' = [e \in Entries |-> shown[e] \cup
                      {worker[es[1]][es[2]].part : es \in {x \in W : x[1] = e}}]
    /\ UNCHANGED <<telegram, ran, faults>>

\* Some updates of a batch are claimed and none of them has a handler yet; the
\* last of them, from a sender who is not allowed, may still be open.
CutBatch(last) ==
    /\ poll = "polling"
    /\ \E open \in {{}, {last}} : ClaimUpdates(Batch(last), open)
    /\ UNCHANGED <<box, token>>

\* The button is claimed, its update is not yet running.
CutPress(u) ==
    /\ handler[u] = "ack" /\ Claimable
    /\ token' = "processing"
    /\ UNCHANGED <<updates, nextOffset, box>>

\* The result is persisted, its update still running; so may its button be.
CutEnd(u) ==
    /\ handler[u] = "exec"
    /\ box' = Prepared(u)
    /\ \/ UNCHANGED token
       \/ incoming[u] = "confirm" /\ token' = "completed"
    /\ UNCHANGED <<updates, nextOffset>>

\* The update has failed, its button is not closed.
CutRaise(u, status) ==
    /\ handler[u] = "exec" /\ incoming[u] = "confirm"
    /\ updates' = [updates EXCEPT ![u] = status]
    /\ UNCHANGED <<nextOffset, box, token>>

\* The first of the writes that the code makes between two awaits.
CutShort ==
    \/ \E last \in Updates : CutBatch(last)
    \/ \E u \in Updates : CutPress(u) \/ CutEnd(u)
    \/ \E u \in Updates, status \in {"rejected", "failed"} : CutRaise(u, status)

\* A crash, between two writes or between two actions.
Crash ==
    /\ Up /\ downs < MaxDowns
    /\ ProcessEnds
    /\ CutShort \/ UNCHANGED tables

\* stop: every task is cancelled, and _handle notes down what it was doing,
\* first in the update, then in the button that it claimed; a kill that does
\* not wait for it leaves only some of that noted.
Stop ==
    /\ Up /\ downs < MaxDowns
    /\ ProcessEnds
    /\ \E noted \in SUBSET {u \in Updates : handler[u] # "none"}, closed \in BOOLEAN :
          /\ updates' = [u \in Updates |->
                           IF u \in noted /\ updates[u] = "running"
                           THEN "interrupted" ELSE updates[u]]
          /\ token' = IF closed /\ \E u \in noted : handler[u] \in {"exec", "deliver"}
                                                   /\ incoming[u] = "confirm"
                      THEN "interrupted" ELSE token
    /\ UNCHANGED <<nextOffset, box>>

\* Mutant of NotesToRecover: those whose retry_at lies ahead are left out.
NotesDue == {n \in Notes : Recorded(n) /\ ~Sent(n) /\ RetryAt(n) = "due"}

\* list_incomplete_completion_notifications.
NotesToRecover == {n \in Notes : Recorded(n) /\ ~Sent(n) /\ RetryAt(n) # "never"}

\* The polling task begins with the notifications that are not yet sent.
Start ==
    /\ poll = "down"
    /\ poll' = "notes"
    /\ todo' = NotesToRecover
    /\ UNCHANGED <<telegram, tables, handler, worker, shown, ran, counters>>

\* Mutant of PollFree: the recovery does not await what it delivers.
PollNotAwaited == TRUE

PollFree == \A e \in Entries : worker[e]["poll"].pc = "idle"

\* recover: what is due is delivered and awaited, the rest is scheduled.
RecoverNote(n) ==
    /\ poll = "notes" /\ PollFree /\ n \in todo
    /\ todo' = todo \ {n}
    /\ worker' = [worker EXCEPT ![n] =
                    IF Sent(n) THEN @
                    ELSE IF RetryAt(n) = "later" THEN Scheduled(@)
                    ELSE Begin(@, "poll", box[n])]
    /\ UNCHANGED <<telegram, tables, poll, handler, shown, ran, counters>>

\* Mutant of LeftOpen: an update with a result is taken to be closed.
LeftUnrecorded ==
    {u \in Updates : updates[u] \in {"received", "running"} /\ ~Recorded(u)}

LeftOpen == {u \in Updates : updates[u] \in {"received", "running"}}

\* recover_after_restart: an open update with a result is completed, without
\* one it is interrupted; its button operation has failed.
CloseUpdates ==
    /\ poll = "notes" /\ PollFree /\ todo = {}
    /\ poll' = "updates"
    /\ todo' = {u \in LeftOpen : ~Recorded(u)}
    /\ updates' = [u \in Updates |-> IF u \notin LeftOpen THEN updates[u]
                                     ELSE IF Recorded(u) THEN "completed"
                                     ELSE "interrupted"]
    /\ token' = IF token = "processing" THEN "failed" ELSE token
    /\ UNCHANGED <<telegram, nextOffset, box, handler, worker, shown, ran, counters>>

\* The notice of an interrupted update is persisted, sent and awaited.
RecoverUpdate(u) ==
    /\ poll = "updates" /\ PollFree /\ u \in todo /\ \A v \in todo : u <= v
    /\ incoming[u] # "chatless"
    /\ todo' = todo \ {u}
    /\ box' = Prepared(u)
    /\ worker' = [worker EXCEPT ![u] = Begin(@, "poll", NewRecord)]
    /\ UNCHANGED <<telegram, updates, nextOffset, token, poll, handler, shown,
                   ran, counters>>

\* The update has no chat to tell: the recovery raises and is abandoned, with
\* the notices and the retries that were still to come.
RecoveryFails(u) ==
    /\ poll = "updates" /\ PollFree /\ u \in todo /\ \A v \in todo : u <= v
    /\ incoming[u] = "chatless"
    /\ poll' = "polling" /\ todo' = {}
    /\ UNCHANGED <<telegram, tables, handler, worker, shown, ran, counters>>

\* list_pending_deliveries: only what is due now.
PendingDeliveries == {u \in Updates : Recorded(u) /\ ~Sent(u) /\ RetryAt(u) = "due"}

StartPolling ==
    /\ poll = "updates" /\ PollFree /\ todo = {}
    /\ poll' = "polling"
    /\ worker' = [e \in Entries |-> IF e \in PendingDeliveries
                                    THEN Scheduled(worker[e]) ELSE worker[e]]
    /\ UNCHANGED <<telegram, tables, todo, handler, shown, ran, counters>>

-----------------------------------------------------------------------------
Init ==
    /\ incoming \in Incoming /\ confirmedTo = 1
    /\ updates = [u \in Updates |-> "absent"] /\ nextOffset = 1
    /\ box = [e \in Entries |-> <<>>] /\ token = "pending"
    /\ poll = "down" /\ todo = {}
    /\ handler = [u \in Updates |-> "none"]
    /\ worker = [e \in Entries |-> [s \in Slots |-> Idle]]
    /\ shown = [e \in Entries |-> {}] /\ ran = [u \in Updates |-> 0]
    /\ faults = 0 /\ downs = 0

Deliver(e) ==
    \/ \E s \in Slots : Wake(e, s) \/ SendOk(e, s)
    \/ \E s \in Slots, arrived \in BOOLEAN :
          SendRetryable(e, s, arrived) \/ SendRefused(e, s, arrived)
    \/ \E p \in 1 .. NumParts : Elapse(e, p)

HandleUpdate(u) ==
    \/ Handle(u) \/ Press(u) \/ Told(u)
    \/ \E status \in {"completed", "failed", "rejected"} : ExecEnds(u, status)
    \/ \E status \in {"rejected", "failed"} : ExecRaises(u, status)

Recover ==
    \/ \E n \in Notes : RecoverNote(n)
    \/ CloseUpdates
    \/ \E u \in Updates : RecoverUpdate(u) \/ RecoveryFails(u)
    \/ StartPolling

Next ==
    \/ Acknowledge
    \/ \E last \in Updates : ReceiveBatch(last)
    \/ \E u \in Updates : HandleUpdate(u)
    \/ \E e \in Entries : Deliver(e)
    \/ \E n \in Notes : Notify(n) \/ NotifyAgain(n)
    \/ Crash \/ Stop \/ Start \/ Recover

Spec == Init /\ [][Next]_vars

\* Every send ends with an answer or a failure, the clock runs, sleeping
\* tasks wake up and the recovery goes on.  Nothing makes the process start
\* again, a user press a button, or a turn end.
Answered(e, s) ==
    \/ SendOk(e, s)
    \/ \E arrived \in BOOLEAN : SendRetryable(e, s, arrived)
                                \/ SendRefused(e, s, arrived)

FairSpec ==
    /\ Spec
    /\ WF_vars(Recover)
    /\ \A e \in Entries :
          /\ \A s \in Slots : WF_vars(Answered(e, s)) /\ WF_vars(Wake(e, s))
          /\ \A p \in 1 .. NumParts : WF_vars(Elapse(e, p))

-----------------------------------------------------------------------------
Worker == [pc : {"idle", "waiting", "sending"}, part : 0 .. NumParts,
           seen : {<<>>} \cup [1 .. NumParts -> Part]]

\* Types of the tables, of the event loop's state and of the histories.
TypeOK ==
    /\ incoming \in [Entries -> Kinds]
    /\ confirmedTo \in 1 .. NumUpdates + 1 /\ nextOffset \in 1 .. NumUpdates + 1
    /\ updates \in [Updates -> Statuses]
    /\ box \in [Entries -> {<<>>} \cup [1 .. NumParts -> Part]]
    /\ token \in {"pending", "processing", "completed", "failed", "interrupted"}
    /\ poll \in {"down", "notes", "updates", "polling"}
    /\ todo \subseteq Entries
    /\ handler \in [Updates -> {"none", "start", "ack", "exec", "tell", "deliver"}]
    /\ worker \in [Entries -> [Slots -> Worker]]
    /\ \A e \in Entries, s \in Slots :
          worker[e][s].pc = "sending" => /\ worker[e][s].part # 0
                                         /\ worker[e][s].seen # <<>>
    /\ shown \in [Entries -> SUBSET (1 .. NumParts)]
    /\ ran \in [Updates -> 0 .. 2]
    /\ faults \in 0 .. MaxFaults[incoming] /\ downs \in 0 .. MaxDowns

\* Whatever crashes, restarts and repeated answers of Telegram there are, the
\* turn of an update is started at most once, and of all presses of one
\* confirmation button only one runs its operation (claim in state.py, the
\* claim of the interaction in _handle, recover_after_restart).
RunsAtMostOnce ==
    /\ \A u \in Updates : ran[u] <= 1
    /\ Cardinality({u \in Updates : incoming[u] = "confirm" /\ ran[u] > 0}) <= 1

\* No update is lost, wherever a crash falls: what Telegram has been told to
\* forget is in the table, and once the recovery is over an update that counts
\* as received or running has a live handler, so that none stays open for ever
\* (_poll, claim, _handle, recover_after_restart).
NoUpdateLost ==
    /\ \A u \in Updates : u < confirmedTo => updates[u] # "absent"
    /\ poll = "polling" =>
         \A u \in Updates : updates[u] \in {"received", "running"} =>
                              handler[u] \notin {"none", "deliver"}

\* The result of an update never has two senders at a time, and none of them
\* sends a part that is marked as sent: handler, recovery and the task of the
\* retry table hand the delivery over to each other (_deliver_persisted,
\* _schedule_delivery_retry, _recover_state).
ResultHasOneSender ==
    \A u \in Updates :
      /\ Cardinality({s \in Slots : worker[u][s].pc = "sending"}) <= 1
      /\ \A s \in Slots : worker[u][s].pc = "sending" =>
            /\ Recorded(u)
            /\ box[u][worker[u][s].part].status # "sent"

Given(e) == Recorded(e) => Sent(e) \/ RetryAt(e) = "never"

\* The delivery as seen from outside implements the promise of the outbox.
Confirmed(e) == IF ~Recorded(e) THEN 0
                ELSE IF Sent(e) THEN NumParts ELSE SmallestOf(Unsent(box[e])) - 1

Outbox == INSTANCE TelegramOutbox WITH
            Parts <- NumParts,
            recorded <- [e \in Entries |-> Recorded(e)],
            confirmed <- [e \in Entries |-> Confirmed(e)],
            shown <- shown

\* Persist before the first send, parts in order, marked only when shown.
ImplementsOutbox == Outbox!Spec

\* A sender is at a part that another one has marked as sent; when it then
\* gives up on that part, nothing is scheduled for the ones that follow.
Overtaken(e) ==
    \E s \in Slots : /\ worker[e][s].pc = "sending"
                     /\ box[e][worker[e][s].part].status = "sent"

\* A notification ends up sent or refused while the process stays up, whatever
\* sends failed and whatever restarts there were before, unless the stream and
\* the table of retries sent it at a time and one overtook the other; so does
\* the result of an update as long as there was no restart: one whose next try
\* lies ahead then is not listed any more (list_pending_deliveries).
ResultSettles ==
    /\ \A n \in Notes : []~Overtaken(n) =>
                           ((Recorded(n) /\ Up) ~> (Given(n) \/ ~Up))
    /\ \A u \in Updates : (Recorded(u) /\ downs = 0) ~> (Given(u) \/ downs > 0)
=============================================================================
