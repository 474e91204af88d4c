----------------------------- MODULE TurnChannel -----------------------------
(***************************************************************************)
(* The channel that lets a client lose its connection to a running turn of *)
(* the native agent and resume it: PiTurnChannel of                        *)
(* bot/native_agent/pi_turn_stream.py, with its opening, pruning and abort *)
(* in service.py and the generator it reads (produce in api_service.py).   *)
(*                                                                         *)
(* Budgets in bytes are left out, those in events stand for them.  Left    *)
(* out too: an abort that raises, and the shutdown of the service.         *)
(***************************************************************************)
EXTENDS Naturals, Sequences, FiniteSets

CONSTANTS
    ReplayMax,  \* events kept for a replay
    ControlMax, \* critical events among them
    MaxEvents,  \* bound: events of the turn
    MaxReaders  \* bound: connections of the client

ASSUME ChannelAssumption ==
    /\ ReplayMax \in Nat \ {0} /\ ControlMax \in Nat \ {0}
    /\ MaxEvents \in Nat /\ MaxReaders \in Nat \ {0}

VARIABLES
    log,      \* kinds of the events appended so far; their index is sequence
    frames,   \* sequence numbers of _frames
    producer, \* where _run_producer is
    turn,     \* the turn behind it: "running", or "aborted" by abort_turn
    reader,   \* the active consumer, a call of events()
    grace,    \* is _grace_task asleep?
    pruned,   \* is the channel out of _turn_channels?
    got,      \* history: events the client has received
    seen,     \* the client's after_sequence
    readers   \* connections so far

vars == <<log, frames, producer, turn, reader, grace, pruned, got, seen, readers>>

\* "reading" the generator; "aborting" the turn from inside _append; "left"
\* the loop with the generator suspended at its yield; "done" when the
\* generator has run its finally, which releases the session.
Finished == producer \in {"left", "done"}
Held == producer # "done"

Critical(events, n) == events[n] # "data"
Overflowed == \E n \in DOMAIN log : log[n] = "overflow"
Evicted == DOMAIN log \ frames
NoReader == [on |-> FALSE, cursor |-> 0, requested |-> 0, gapSent |-> FALSE,
             batch |-> {}, gap |-> 0, last |-> FALSE]

-----------------------------------------------------------------------------
(* The producer *)

\* First part of _enforce_budget_locked: the oldest events that are not
\* critical go until the rest fits.
OverBudget(events, kept) ==
    LET data == {e \in kept : ~Critical(events, e)} IN
    {d \in data : Cardinality({e \in data : e < d}) + ReplayMax < Cardinality(kept)}

\* Second part: too many critical events, ...
ControlSpent(events, kept) ==
    Cardinality({e \in kept : Critical(events, e)}) > ControlMax

\* ... which also costs the events in front of the first of them.
Leading(events, kept) ==
    {d \in kept : \A c \in kept : Critical(events, c) => d < c}

AfterAppend(overflow) == IF overflow THEN "aborting" ELSE "reading"

\* Mutant of OverflowSequence: the number is counted up twice.
OverflowSequenceTwice(events) == Len(events) + 2

OverflowSequence(events) == Len(events) + 1

\* _append: the event, and once an error in place of all that follows.
Appended(kind) ==
    LET events == Append(log, kind)
        all == frames \cup {Len(events)}
        kept == all \ OverBudget(events, all)
        overflow == ControlSpent(events, kept)
    IN  /\ log' = IF overflow THEN Append(events, "overflow") ELSE events
        /\ frames' = IF overflow
                     THEN (kept \ Leading(events, kept)) \cup {OverflowSequence(events)}
                     ELSE kept

\* The generator yields an event.
Produce(kind) ==
    /\ producer = "reading" /\ Len(log) < MaxEvents
    /\ Appended(kind)
    /\ producer' = AfterAppend(Len(log') > Len(log) + 1)
    /\ UNCHANGED <<turn, reader, grace, pruned, got, seen, readers>>

\* abort_turn has returned: the loop is left, the generator not closed.
AbortReturns ==
    /\ producer = "aborting"
    /\ producer' = "left"
    /\ turn' = "aborted"
    /\ UNCHANGED <<log, frames, reader, grace, pruned, got, seen, readers>>

\* The turn ends and with it the generator ...
ProducerEnds ==
    /\ producer = "reading"
    /\ producer' = "done"
    /\ UNCHANGED <<log, frames, turn, reader, grace, pruned, got, seen, readers>>

\* ... or the generator raises, and an error is appended for it.
ProducerRaises ==
    /\ producer = "reading" /\ Len(log) < MaxEvents
    /\ Appended("critical")
    /\ producer' = "done"
    /\ UNCHANGED <<turn, reader, grace, pruned, got, seen, readers>>

\* Another turn's channel is opened or resumed a minute after this one has
\* finished: the channel is forgotten and its generator closed.
Prune ==
    /\ Finished /\ ~pruned
    /\ pruned' = TRUE
    /\ producer' = "done"
    /\ UNCHANGED <<log, frames, turn, reader, grace, got, seen, readers>>

-----------------------------------------------------------------------------
(* Consumers *)

\* The client comes back and resumes after what it has; one consumer at a
\* time.
Attach ==
    /\ ~reader.on /\ ~pruned /\ readers < MaxReaders
    /\ readers' = readers + 1
    /\ reader' = [NoReader EXCEPT !.on = TRUE, !.cursor = seen, !.requested = seen]
    /\ grace' = FALSE
    /\ UNCHANGED <<log, frames, producer, turn, pruned, got, seen>>

\* Nothing is left of what the last look found.
Given == reader.batch = {} /\ reader.gap = 0

\* Mutant of GapUntold: only a consumer that begins with the turn is told.
GapUntoldAtFirst ==
    /\ ~reader.gapSent /\ reader.requested = 0
    /\ \E e \in Evicted : e > reader.cursor

\* An eviction ahead of the consumer, which has had no gap event yet.
GapUntold == ~reader.gapSent /\ \E e \in Evicted : e > reader.cursor

\* Mutant of Prefix: the gap event takes the place of all that is before it.
PrefixDropped(end) == {}

\* Critical events that the gap event would jump over.
Prefix(end) ==
    {n \in frames : Critical(log, n) /\ n > reader.cursor /\ n <= end}

\* A look under the condition that finds an eviction, the first time ...
LookAtGap ==
    /\ reader.on /\ Given /\ ~reader.last /\ GapUntold
    /\ \E end \in Evicted :
          /\ \A e \in Evicted : e <= end
          /\ reader' = [reader EXCEPT !.gapSent = TRUE, !.gap = end,
                                      !.batch = Prefix(end)]
    /\ UNCHANGED <<log, frames, producer, turn, grace, pruned, got, seen, readers>>

\* ... or new events, or the end.
LookAtFrames ==
    /\ reader.on /\ Given /\ ~reader.last /\ ~GapUntold
    /\ \/ \E n \in frames : n > reader.cursor
       \/ Finished
    /\ reader' = [reader EXCEPT !.batch = {n \in frames : n > reader.cursor},
                                !.last = Finished]
    /\ UNCHANGED <<log, frames, producer, turn, grace, pruned, got, seen, readers>>

\* One event of the batch is yielded and reaches the client.
Yield ==
    /\ reader.on
    /\ \E n \in reader.batch :
          /\ \A k \in reader.batch : n <= k
          /\ reader' = [reader EXCEPT !.cursor = n, !.batch = @ \ {n}]
          /\ got' = got \cup {n}
          /\ seen' = n
    /\ UNCHANGED <<log, frames, producer, turn, grace, pruned, readers>>

\* The gap event follows its prefix.
YieldGap ==
    /\ reader.on /\ reader.batch = {} /\ reader.gap # 0
    /\ seen' = IF reader.gap > seen THEN reader.gap ELSE seen
    /\ reader' = [reader EXCEPT !.cursor = seen', !.gap = 0]
    /\ UNCHANGED <<log, frames, producer, turn, grace, pruned, got, readers>>

\* Mutant of GraceDue: a consumer that went away before the turn began to
\* produce leaves no grace task.
GraceDueOnceFed == ~Finished /\ reader.cursor > 0

GraceDue == ~Finished

\* The consumer returns after the last batch of a finished turn, or goes away
\* at any point; what it has yielded and the client not received is asked for
\* again, so that it counts as not yielded.
Detach ==
    /\ reader.on
    /\ grace' = GraceDue
    /\ reader' = NoReader
    /\ UNCHANGED <<log, frames, producer, turn, pruned, got, seen, readers>>

Returns == reader.last /\ Given /\ Detach

\* _expire_grace: nobody has come back.
GraceExpires ==
    /\ grace
    /\ grace' = FALSE
    /\ turn' = IF Finished THEN turn ELSE "aborted"
    /\ UNCHANGED <<log, frames, producer, reader, pruned, got, seen, readers>>

-----------------------------------------------------------------------------
\* The first consumer attaches in the step that opens the channel.
Init ==
    /\ log = <<>> /\ frames = {}
    /\ producer = "reading" /\ turn = "running"
    /\ reader = [NoReader EXCEPT !.on = TRUE]
    /\ grace = FALSE /\ pruned = FALSE
    /\ got = {} /\ seen = 0 /\ readers = 1

Write ==
    \/ \E kind \in {"data", "critical"} : Produce(kind)
    \/ AbortReturns \/ ProducerEnds \/ ProducerRaises \/ Prune

Consume ==
    \/ Attach \/ LookAtGap \/ LookAtFrames \/ Yield \/ YieldGap
    \/ Detach \/ GraceExpires

Next == Write \/ Consume

Spec == Init /\ [][Next]_vars

\* The event loop runs the consumer and the grace task, an abort returns and
\* ends the turn.  Nobody has to connect again, to prune, or to end a turn
\* that was not aborted.
FairSpec ==
    /\ Spec
    /\ WF_vars(LookAtGap \/ LookAtFrames \/ Yield \/ YieldGap \/ Returns)
    /\ WF_vars(GraceExpires)
    /\ WF_vars(AbortReturns)
    /\ WF_vars(turn = "aborted" /\ ProducerEnds)

-----------------------------------------------------------------------------
(* Properties *)

Readers == [on : BOOLEAN, cursor : Nat, requested : Nat, gapSent : BOOLEAN,
            batch : SUBSET DOMAIN log, gap : Nat, last : BOOLEAN]

\* Types, and the range of the sequence numbers.
TypeOK ==
    /\ log \in Seq({"data", "critical", "overflow"})
    /\ frames \subseteq DOMAIN log
    /\ producer \in {"reading", "aborting", "left", "done"}
    /\ turn \in {"running", "aborted"}
    /\ reader \in Readers
    /\ grace \in BOOLEAN /\ pruned \in BOOLEAN
    /\ got \subseteq DOMAIN log
    /\ seen \in 0 .. Len(log)
    /\ readers \in 0 .. MaxReaders

\* However often the client reconnects and whatever was evicted meanwhile, it
\* is never past a critical event (permission, error, done) that it did not
\* receive, gap events included (events, _enforce_budget_locked).
CriticalDelivered ==
    \A n \in 1 .. seen : Critical(log, n) => n \in got

\* A connection is past an event that it did not deliver only if it has had,
\* or is about to have, a gap event that asks for a snapshot.
SkipsFlagged ==
    reader.on =>
      \A n \in reader.requested + 1 .. seen : n \in got \/ reader.gapSent

\* The client sees the events of the turn as ResumableFeed promises: in their
\* order, none of them twice, and none left out but data of which the
\* connection has had, or is about to have, a gap event (events, _append).
Feed == INSTANCE ResumableFeed WITH
    events <- log, position <- seen, received <- got, snapshot <- reader.gapSent

ImplementsFeed == Feed!Spec

\* A turn that lost its client ends unless the client comes back, and a client
\* that stays gets the turn to its last event (_expire_grace, events).
ChannelSettles ==
    /\ ~reader.on ~> (reader.on \/ Finished)
    /\ (reader.on /\ Finished) ~> (seen = Len(log) \/ ~reader.on)

\* "A reconnectable turn can outlive its first consumer; record its real end"
\* (produce in api_service.py): after an overflow the generator is aborted and
\* its finally releases the session.
OverflowReleases == Overflowed ~> ~Held
=============================================================================
