-------------------------- MODULE ClusterTeamProofs --------------------------
(***************************************************************************)
(* Proofs about ClusterTeam.                                               *)
(***************************************************************************)
EXTENDS ClusterTeam, FiniteSetTheorems, TLAPS

-----------------------------------------------------------------------------
(* The inductive invariant *)

\* Who waits has a request; the bot lock is for configure and resize; a
\* configure that waits for the conversation lock holds the bot lock; only a
\* resize that holds it has a target; a thread works for the first in line.
QueueInv ==
    /\ \A i \in 1..Len(botQ) :
        call[botQ[i]] # NoCall /\ call[botQ[i]].op \in {"configure", "resize"}
    /\ \A i \in 1..Len(convQ) :
        /\ call[convQ[i]] # NoCall
        /\ call[convQ[i]].op # "resize"
        /\ call[convQ[i]].op = "configure" => botQ # <<>> /\ convQ[i] = botQ[1]
    /\ \A i, j \in 1..Len(botQ) : botQ[i] = botQ[j] => i = j
    /\ \A i, j \in 1..Len(convQ) : convQ[i] = convQ[j] => i = j
    /\ target # 0 => botQ # <<>> /\ call[botQ[1]].op = "resize"
    /\ thread => convQ # <<>> /\ call[convQ[1]].op = "change"

\* A run in the table knows its id, which is its revision and no newer than
\* the stored one; the current one has the stored team.  An alias leads from
\* an older id to a run in the table.
RunsInv ==
    /\ \A id \in Revisions : table[id] # None =>
        /\ table[id] <= id /\ id <= revision
        /\ run[table[id]] \in RunObject
        /\ run[table[id]].id = id /\ run[table[id]].rev = id
        /\ id = revision => run[table[id]].team = team
    /\ \A a \in Revisions : alias[a] # None =>
        a < alias[a] /\ table[a] = None /\ table[alias[a]] # None

\* Pending work is in the current run and in its control, under the team that
\* is stored.
WorkInv ==
    /\ \A t \in Tasks : status[t] \in Pending =>
        /\ work[t] \in Work
        /\ table[revision] = work[t].run
        /\ work[t].id = revision \/ alias[work[t].id] = revision
        /\ t \in control[revision]
        /\ team[work[t].slot] = [role |-> work[t].role, rev |-> work[t].rev]
    /\ \A id \in Revisions : id > revision => control[id] = {}

ChildInv ==
    /\ \A s \in Slots : team[s] # Free => team[s].rev <= revision
    /\ \A c \in children : c.rev <= revision
    /\ RoleOwnsConversation

IInv == TypeOK /\ QueueInv /\ RunsInv /\ WorkInv /\ ChildInv /\ TeamFits

-----------------------------------------------------------------------------
(* Facts about queues *)

LEMMA AppendFacts ==
    ASSUME NEW q \in Seq(Calls), NEW k \in Calls
    PROVE  /\ Append(q, k) \in Seq(Calls) /\ Append(q, k) # <<>>
           /\ Len(Append(q, k)) = Len(q) + 1
           /\ \A i \in 1..Len(q) : Append(q, k)[i] = q[i]
           /\ Append(q, k)[Len(q) + 1] = k
           /\ q # <<>> => Append(q, k)[1] = q[1]
           /\ q = <<>> => Append(q, k)[1] = k
  OBVIOUS

LEMMA TailFacts ==
    ASSUME NEW q \in Seq(Calls), NEW k \in Calls, First(q, k)
    PROVE  /\ Tail(q) \in Seq(Calls) /\ q # <<>> /\ q[1] = k
           /\ Len(q) \in Nat \ {0}
           /\ Len(Tail(q)) = Len(q) - 1
           /\ \A i \in 1..Len(Tail(q)) : Tail(q)[i] = q[i + 1]
           /\ Tail(q) # <<>> => Len(Tail(q)) >= 1
  BY DEF First

LEMMA SlotCount == Cardinality(Slots) \in Nat
  BY TeamConstantsAssumption, FS_CardinalityType

\* A current id is the stored revision.
LEMMA CurrentId ==
    ASSUME IInv, NEW id \in Revisions, GetRun(id) # None,
           run[GetRun(id)].rev = revision
    PROVE  /\ Resolve(id) = revision /\ GetRun(id) = table[revision]
           /\ run[table[revision]] \in RunObject
           /\ run[table[revision]].team = team
           /\ id = revision \/ alias[id] = revision
  <1> DEFINE at == Resolve(id)
  <1>1. at \in Revisions /\ table[at] # None
    BY DEF IInv, TypeOK, Resolve, ResolveIn, GetRun
  <1>2. run[table[at]].rev = at
    BY <1>1 DEF IInv, RunsInv
  <1>3. at = revision
    BY <1>1, <1>2 DEF GetRun
  <1> QED
    BY <1>1, <1>3 DEF IInv, RunsInv, TypeOK, GetRun, Resolve, ResolveIn

\* The stored revision is nobody's alias.
LEMMA RevisionResolves ==
    ASSUME IInv
    PROVE  Resolve(revision) = revision /\ alias[revision] = None
  <1>1. revision \in Revisions /\ alias \in [Revisions -> Revisions \cup {None}]
    BY DEF IInv, TypeOK
  <1>2. CASE alias[revision] # None
    <2>1. revision < alias[revision] /\ alias[revision] \in Revisions
          /\ alias[revision] <= revision
      BY <1>1, <1>2 DEF IInv, RunsInv
    <2> QED BY <2>1, <1>1 DEF Revisions
  <1>3. CASE alias[revision] = None
    BY <1>3 DEF Resolve, ResolveIn
  <1> QED BY <1>2, <1>3

-----------------------------------------------------------------------------
(* The queues *)

LEMMA QueuesAlone ==
    ASSUME QueueInv, UNCHANGED <<call, botQ, convQ, thread, target>>
    PROVE  QueueInv'
  BY DEF QueueInv

\* A request that is not configure and not resize joins the conversation lock.
LEMMA ConvJoins ==
    ASSUME TypeOK, QueueInv, NEW k \in Calls, NEW op, NEW id,
           [op |-> op, id |-> id] \in Request,
           op \notin {"configure", "resize"}, Waits(k, op, id),
           convQ' = Append(convQ, k), UNCHANGED <<botQ, thread, target>>
    PROVE  QueueInv'
  <1> DEFINE new == [op |-> op, id |-> id]
  <1>1. /\ call \in [Calls -> Request \cup {NoCall}] /\ botQ \in Seq(Calls)
        /\ convQ \in Seq(Calls)
    BY DEF TypeOK
  <1>0. new # NoCall
    BY TeamConstantsAssumption
  <1>2. call' = [call EXCEPT ![k] = new] /\ call[k] = NoCall /\ new # NoCall /\ new.op = op
    BY <1>0 DEF Waits
  <1>3. \A i \in 1..Len(botQ) : botQ[i] # k /\ call'[botQ[i]] = call[botQ[i]]
    BY <1>1, <1>2 DEF QueueInv
  <1>4. \A i \in 1..Len(convQ) : convQ[i] # k /\ call'[convQ[i]] = call[convQ[i]]
    BY <1>1, <1>2 DEF QueueInv
  <1>5. /\ Len(convQ') = Len(convQ) + 1 /\ convQ' # <<>>
        /\ \A i \in 1..Len(convQ) : convQ'[i] = convQ[i]
        /\ convQ'[Len(convQ) + 1] = k
        /\ convQ # <<>> => convQ'[1] = convQ[1]
    BY <1>1, AppendFacts
  <1>6. Len(convQ) \in Nat /\ (botQ # <<>> => Len(botQ) \in Nat \ {0}) /\ (convQ # <<>> => Len(convQ) >= 1)
    BY <1>1
  <1>7. call'[k] # NoCall /\ call'[k].op = op
    BY <1>1, <1>2
  <1> HIDE DEF new
  <1> QED
    BY <1>1, <1>3, <1>4, <1>5, <1>6, <1>7 DEF QueueInv

\* A request joins the bot lock.
LEMMA BotJoins ==
    ASSUME TypeOK, QueueInv, NEW k \in Calls, NEW op \in {"configure", "resize"}, NEW id,
           [op |-> op, id |-> id] \in Request, Waits(k, op, id),
           botQ' = Append(botQ, k), UNCHANGED <<thread, target>>,
           \/ UNCHANGED convQ
           \/ convQ' = Append(convQ, k) /\ botQ = <<>> /\ op = "configure"
    PROVE  QueueInv'
  <1> DEFINE new == [op |-> op, id |-> id]
  <1>1. /\ call \in [Calls -> Request \cup {NoCall}] /\ botQ \in Seq(Calls)
        /\ convQ \in Seq(Calls)
    BY DEF TypeOK
  <1>0. new # NoCall
    BY TeamConstantsAssumption
  <1>2. call' = [call EXCEPT ![k] = new] /\ call[k] = NoCall /\ new # NoCall /\ new.op = op
    BY <1>0 DEF Waits
  <1>3. \A i \in 1..Len(botQ) : botQ[i] # k /\ call'[botQ[i]] = call[botQ[i]]
    BY <1>1, <1>2 DEF QueueInv
  <1>4. \A i \in 1..Len(convQ) : convQ[i] # k /\ call'[convQ[i]] = call[convQ[i]]
    BY <1>1, <1>2 DEF QueueInv
  <1>5. /\ Len(botQ') = Len(botQ) + 1 /\ botQ' # <<>>
        /\ \A i \in 1..Len(botQ) : botQ'[i] = botQ[i]
        /\ botQ'[Len(botQ) + 1] = k
        /\ botQ # <<>> => botQ'[1] = botQ[1]
        /\ botQ = <<>> => botQ'[1] = k
    BY <1>1, AppendFacts
  <1>6. Len(convQ) \in Nat /\ Len(botQ) \in Nat /\ (botQ # <<>> => Len(botQ) >= 1)
        /\ (convQ # <<>> => Len(convQ) >= 1)
    BY <1>1
  <1>7. call'[k] # NoCall /\ call'[k].op = op
    BY <1>1, <1>2
  <1> HIDE DEF new
  <1>8. CASE UNCHANGED convQ
    BY <1>1, <1>3, <1>4, <1>5, <1>6, <1>7, <1>8 DEF QueueInv
  <1>9. CASE convQ' = Append(convQ, k) /\ botQ = <<>> /\ op = "configure"
    <2>1. /\ Len(convQ') = Len(convQ) + 1 /\ convQ' # <<>>
          /\ \A i \in 1..Len(convQ) : convQ'[i] = convQ[i]
          /\ convQ'[Len(convQ) + 1] = k
          /\ convQ # <<>> => convQ'[1] = convQ[1]
      BY <1>1, <1>9, AppendFacts
    <2> QED
      BY <1>1, <1>3, <1>4, <1>5, <1>6, <1>7, <1>9, <2>1 DEF QueueInv
  <1> QED
    BY <1>8, <1>9

\* The first in line for the conversation lock leaves; a configure gives up
\* the bot lock as well.
LEMMA ConvLeaves ==
    ASSUME TypeOK, QueueInv, NEW k \in Calls, First(convQ, k), call[k] # NoCall,
           convQ' = Tail(convQ), call' = [call EXCEPT ![k] = NoCall],
           ~thread', UNCHANGED target,
           IF call[k].op = "configure" THEN botQ' = Tail(botQ) ELSE UNCHANGED botQ
    PROVE  QueueInv'
  <1>1. /\ call \in [Calls -> Request \cup {NoCall}] /\ botQ \in Seq(Calls)
        /\ convQ \in Seq(Calls)
    BY DEF TypeOK
  <1>2. /\ Len(convQ') = Len(convQ) - 1 /\ convQ[1] = k
        /\ \A i \in 1..Len(convQ') : convQ'[i] = convQ[i + 1]
        /\ Len(convQ) \in Nat \ {0}
    BY <1>1, TailFacts
  <1>3. \A i \in 1..Len(convQ') : convQ'[i] # k /\ call'[convQ'[i]] = call[convQ[i + 1]]
    BY <1>1, <1>2 DEF QueueInv
  <1>4. CASE call[k].op = "configure"
    <2>1. botQ # <<>> /\ botQ[1] = k /\ First(botQ, k)
      BY <1>1, <1>2, <1>4 DEF QueueInv, First
    <2>2. /\ Len(botQ') = Len(botQ) - 1
          /\ \A i \in 1..Len(botQ') : botQ'[i] = botQ[i + 1]
          /\ Len(botQ) \in Nat \ {0}
      BY <1>1, <1>4, <2>1, TailFacts
    <2>3. \A i \in 1..Len(botQ') :
            /\ i + 1 \in 1..Len(botQ) /\ 1 \in 1..Len(botQ) /\ i + 1 # 1
            /\ botQ[i + 1] # k
      BY <2>1, <2>2 DEF QueueInv
    <2>4. \A i \in 1..Len(botQ') : botQ'[i] # k /\ call'[botQ'[i]] = call[botQ[i + 1]]
      BY <1>1, <2>2, <2>3
    <2>5. \A i \in 1..Len(convQ') : call[convQ[i + 1]].op # "configure"
      BY <1>1, <1>2, <1>3, <2>1 DEF QueueInv
    <2>6. target = 0 /\ target' = 0
      BY <1>4, <2>1 DEF QueueInv
    <2>7. \A i \in 1..Len(botQ') :
            call'[botQ'[i]] # NoCall /\ call'[botQ'[i]].op \in {"configure", "resize"}
      BY <2>2, <2>3, <2>4 DEF QueueInv
    <2>8. \A i \in 1..Len(convQ') :
            /\ call'[convQ'[i]] # NoCall /\ call'[convQ'[i]].op # "resize"
            /\ call'[convQ'[i]].op # "configure"
      BY <1>2, <1>3, <2>5 DEF QueueInv
    <2>9. \A i, j \in 1..Len(botQ') : botQ'[i] = botQ'[j] => i = j
      BY <2>2 DEF QueueInv
    <2>10. \A i, j \in 1..Len(convQ') : convQ'[i] = convQ'[j] => i = j
      BY <1>2 DEF QueueInv
    <2> QED
      BY <2>6, <2>7, <2>8, <2>9, <2>10 DEF QueueInv
  <1>5. CASE call[k].op # "configure"
    <2>1. \A i \in 1..Len(botQ) : botQ[i] # k \/ call[k].op = "resize"
      BY <1>5 DEF QueueInv
    <2>2. call[k].op # "resize"
      BY <1>2 DEF QueueInv
    <2>3. \A i \in 1..Len(botQ) : call'[botQ[i]] = call[botQ[i]]
      BY <1>1, <2>1, <2>2
    <2>4. botQ' = botQ /\ (botQ # <<>> => Len(botQ) >= 1)
      BY <1>1, <1>5
    <2> QED
      BY <1>2, <1>3, <2>3, <2>4 DEF QueueInv
  <1> QED
    BY <1>4, <1>5

\* The holder of the bot lock leaves without the other lock.
LEMMA BotLeaves ==
    ASSUME TypeOK, QueueInv, NEW k \in Calls, First(botQ, k), call[k] # NoCall,
           \A i \in 1..Len(convQ) : convQ[i] # k,
           botQ' = Tail(botQ), call' = [call EXCEPT ![k] = NoCall],
           target' = 0, UNCHANGED <<convQ, thread>>
    PROVE  QueueInv'
  <1>1. /\ call \in [Calls -> Request \cup {NoCall}] /\ botQ \in Seq(Calls)
        /\ convQ \in Seq(Calls)
    BY DEF TypeOK
  <1>2. /\ Len(botQ') = Len(botQ) - 1 /\ botQ[1] = k
        /\ \A i \in 1..Len(botQ') : botQ'[i] = botQ[i + 1]
        /\ Len(botQ) \in Nat \ {0}
    BY <1>1, TailFacts
  <1>3. \A i \in 1..Len(botQ') : botQ'[i] # k /\ call'[botQ'[i]] = call[botQ[i + 1]]
    BY <1>1, <1>2 DEF QueueInv
  <1>4. \A i \in 1..Len(convQ) :
          call'[convQ[i]] = call[convQ[i]] /\ call[convQ[i]].op # "configure"
    BY <1>1, <1>2 DEF QueueInv
  <1>5. convQ # <<>> => Len(convQ) >= 1
    BY <1>1
  <1> QED
    BY <1>2, <1>3, <1>4, <1>5 DEF QueueInv

-----------------------------------------------------------------------------
(* The table of runs *)

\* What ensure_run leaves when no run is newer than the revision it is for.
LEMMA EnsureFacts ==
    ASSUME TypeOK, RunsInv,
           NEW objects \in [Revisions -> RunObject \cup {None}],
           NEW rv \in Revisions, revision <= rv, NEW tm \in Teams,
           \A id \in Revisions : table[id] # None =>
               /\ objects[table[id]] \in RunObject
               /\ objects[table[id]].id = id /\ objects[table[id]].rev = id,
           Ensure(objects, rv, tm)
    PROVE  /\ run' \in [Revisions -> RunObject \cup {None}]
           /\ table' \in [Revisions -> Revisions \cup {None}]
           /\ alias' \in [Revisions -> Revisions \cup {None}]
           /\ table'[rv] # None /\ run'[table'[rv]].team = tm
           /\ \A id \in Revisions : table'[id] # None =>
                /\ table'[id] <= id /\ run'[table'[id]] \in RunObject
                /\ run'[table'[id]].id = id /\ run'[table'[id]].rev = id
                /\ id = rv \/ table[id] # None
           /\ \A a \in Revisions : alias'[a] # None =>
                /\ alias'[a] = alias[a] /\ table'[a] = None /\ table'[alias'[a]] # None
           /\ \A id \in Revisions : table[id] # None /\ ~Drained(table[id]) =>
                /\ table'[id] = table[id]
                /\ \A a \in Revisions : alias[a] = id => alias'[a] = id
  <1>1. PICK old \in SUBSET Evictable(objects) :
          LET tb == [id \in Revisions |-> IF id \in old THEN None ELSE table[id]]
              al == [id \in Revisions |->
                      IF alias[id] # None /\ tb[alias[id]] = None THEN None ELSE alias[id]]
              r  == tb[ResolveIn(tb, al, rv)]
          IN /\ alias' = al
             /\ \/ /\ r = None
                   /\ table' = [tb EXCEPT ![rv] = rv]
                   /\ run' = [objects EXCEPT ![rv] =
                         [id |-> rv, rev |-> rv, team |-> tm, finished |-> FALSE]]
                \/ /\ r # None
                   /\ table' = tb
                   /\ run' = IF objects[r].rev = rv
                             THEN [objects EXCEPT ![r].team = tm, ![r].finished = FALSE]
                             ELSE objects
    BY DEF Ensure
  <1> DEFINE tb == [id \in Revisions |-> IF id \in old THEN None ELSE table[id]]
             al == [id \in Revisions |->
                     IF alias[id] # None /\ tb[alias[id]] = None THEN None ELSE alias[id]]
             new == [id |-> rv, rev |-> rv, team |-> tm, finished |-> FALSE]
  <1>2. /\ revision \in Nat /\ rv \in Nat /\ Revisions \subseteq Nat /\ None \notin Nat
        /\ table \in [Revisions -> Revisions \cup {None}]
        /\ alias \in [Revisions -> Revisions \cup {None}]
    BY TeamConstantsAssumption DEF TypeOK, Revisions
  <1>3. alias[rv] = None
    <2> SUFFICES ASSUME alias[rv] # None PROVE FALSE
      OBVIOUS
    <2>1. alias[rv] \in Revisions /\ rv < alias[rv] /\ table[alias[rv]] # None
      BY <1>2 DEF RunsInv
    <2>2. alias[rv] <= revision
      BY <2>1 DEF RunsInv
    <2>3. alias[rv] \in Nat /\ rv \in Nat /\ revision \in Nat
      BY <1>2, <2>1
    <2> DEFINE n == alias[rv]
    <2>4. n \in Nat /\ rv < n /\ n <= revision
      BY <2>1, <2>2, <2>3
    <2> HIDE DEF n
    <2> QED BY <2>3, <2>4
  <1>4. /\ tb \in [Revisions -> Revisions \cup {None}]
        /\ al \in [Revisions -> Revisions \cup {None}]
        /\ \A id \in Revisions : tb[id] # None => tb[id] = table[id]
        /\ \A a \in Revisions : al[a] # None => al[a] = alias[a] /\ tb[al[a]] # None
        /\ al[rv] = None
    BY <1>2, <1>3
  <1>5. \A id \in Revisions : table[id] # None /\ ~Drained(table[id]) =>
          /\ tb[id] = table[id]
          /\ \A a \in Revisions : alias[a] = id => al[a] = id
    BY <1>2 DEF Evictable
  <1>6. ResolveIn(tb, al, rv) = rv
    BY <1>4 DEF ResolveIn
  <1>7. /\ alias' = al
        /\ \/ /\ tb[rv] = None
              /\ table' = [tb EXCEPT ![rv] = rv]
              /\ run' = [objects EXCEPT ![rv] = new]
           \/ /\ tb[rv] # None
              /\ table' = tb
              /\ run' = IF objects[tb[rv]].rev = rv
                        THEN [objects EXCEPT ![tb[rv]].team = tm, ![tb[rv]].finished = FALSE]
                        ELSE objects
    BY <1>1, <1>6
  <1>8. /\ \A id \in Revisions : tb[id] # None =>
             /\ tb[id] \in Revisions /\ tb[id] <= id /\ id <= revision
             /\ objects[tb[id]] \in RunObject
             /\ objects[tb[id]].id = id /\ objects[tb[id]].rev = id
        /\ \A a \in Revisions : al[a] # None => al[a] \in Revisions /\ tb[a] = None /\ a # rv
    BY <1>2, <1>4 DEF RunsInv
  <1>9. new \in RunObject /\ new.id = rv /\ new.rev = rv /\ new.team = tm
    BY DEF RunObject
  <1> HIDE DEF tb, al, new
  <1>10. CASE tb[rv] = None /\ table' = [tb EXCEPT ![rv] = rv] /\ run' = [objects EXCEPT ![rv] = new]
    <2>1. /\ table'[rv] = rv /\ run'[rv] = new
          /\ \A id \in Revisions \ {rv} : table'[id] = tb[id] /\ run'[id] = objects[id]
          /\ run' \in [Revisions -> RunObject \cup {None}]
          /\ table' \in [Revisions -> Revisions \cup {None}]
      BY <1>4, <1>9, <1>10
    <2>2. \A id \in Revisions : table'[id] # None =>
            /\ table'[id] <= id /\ run'[table'[id]] \in RunObject
            /\ run'[table'[id]].id = id /\ run'[table'[id]].rev = id
            /\ id = rv \/ table[id] # None
      <3> SUFFICES ASSUME NEW id \in Revisions, table'[id] # None
                   PROVE  /\ table'[id] <= id /\ run'[table'[id]] \in RunObject
                          /\ run'[table'[id]].id = id /\ run'[table'[id]].rev = id
                          /\ id = rv \/ table[id] # None
        OBVIOUS
      <3>1. CASE id = rv
        BY <3>1, <2>1, <1>2, <1>9
      <3>2. CASE id # rv
        <4>1. tb[id] # None /\ table'[id] = tb[id] /\ tb[id] \in Revisions
              /\ tb[id] <= id /\ id <= revision
          BY <3>2, <2>1, <1>8
        <4>2. tb[id] # rv
          BY <4>1, <3>2, <1>2
        <4> QED BY <4>1, <4>2, <2>1, <1>4, <1>8
      <3> QED BY <3>1, <3>2
    <2>3. \A a \in Revisions : alias'[a] # None =>
            /\ alias'[a] = alias[a] /\ table'[a] = None /\ table'[alias'[a]] # None
      BY <2>1, <1>2, <1>4, <1>7, <1>8
    <2>4. \A id \in Revisions : table[id] # None /\ ~Drained(table[id]) =>
            /\ table'[id] = table[id]
            /\ \A a \in Revisions : alias[a] = id => alias'[a] = id
      BY <2>1, <1>5, <1>7, <1>10
    <2> QED BY <2>1, <2>2, <2>3, <2>4, <1>2, <1>4, <1>7, <1>9
  <1>11. CASE /\ tb[rv] # None /\ table' = tb
              /\ run' = IF objects[tb[rv]].rev = rv
                        THEN [objects EXCEPT ![tb[rv]].team = tm, ![tb[rv]].finished = FALSE]
                        ELSE objects
    <2>1. /\ run' = [objects EXCEPT ![tb[rv]].team = tm, ![tb[rv]].finished = FALSE]
          /\ tb[rv] \in Revisions /\ objects[tb[rv]] \in RunObject
      BY <1>8, <1>11
    <2>2. /\ run'[tb[rv]] \in RunObject /\ run'[tb[rv]].team = tm
          /\ run'[tb[rv]].id = objects[tb[rv]].id /\ run'[tb[rv]].rev = objects[tb[rv]].rev
          /\ \A o \in Revisions \ {tb[rv]} : run'[o] = objects[o]
          /\ run' \in [Revisions -> RunObject \cup {None}]
      BY <2>1 DEF RunObject
    <2>3. \A id \in Revisions : table'[id] # None =>
            /\ table'[id] <= id /\ run'[table'[id]] \in RunObject
            /\ run'[table'[id]].id = id /\ run'[table'[id]].rev = id
            /\ id = rv \/ table[id] # None
      <3> SUFFICES ASSUME NEW id \in Revisions, table'[id] # None
                   PROVE  /\ table'[id] <= id /\ run'[table'[id]] \in RunObject
                          /\ run'[table'[id]].id = id /\ run'[table'[id]].rev = id
                          /\ id = rv \/ table[id] # None
        OBVIOUS
      <3>1. /\ table'[id] = tb[id] /\ tb[id] \in Revisions /\ tb[id] <= id
            /\ objects[tb[id]] \in RunObject
            /\ objects[tb[id]].id = id /\ objects[tb[id]].rev = id
            /\ table[id] # None
        BY <1>4, <1>8, <1>11
      <3>2. CASE tb[id] = tb[rv]
        BY <3>1, <3>2, <2>2
      <3>3. CASE tb[id] # tb[rv]
        <4>1. run'[tb[id]] = objects[tb[id]]
          BY <3>1, <3>3, <2>2
        <4> QED BY <3>1, <4>1
      <3> QED BY <3>2, <3>3
    <2>4. \A a \in Revisions : alias'[a] # None =>
            /\ alias'[a] = alias[a] /\ table'[a] = None /\ table'[alias'[a]] # None
      BY <1>4, <1>7, <1>8, <1>11
    <2>5. \A id \in Revisions : table[id] # None /\ ~Drained(table[id]) =>
            /\ table'[id] = table[id]
            /\ \A a \in Revisions : alias[a] = id => alias'[a] = id
      BY <1>5, <1>7, <1>11
    <2>6. table'[rv] # None /\ run'[table'[rv]].team = tm
      BY <2>2, <1>11
    <2>7. table' \in [Revisions -> Revisions \cup {None}]
          /\ alias' \in [Revisions -> Revisions \cup {None}]
      BY <1>4, <1>7, <1>11
    <2> QED BY <2>2, <2>3, <2>4, <2>5, <2>6, <2>7
  <1> QED BY <1>7, <1>10, <1>11

\* An id that is up to date is the stored revision.
LEMMA UpToDateId ==
    ASSUME IInv, NEW id \in Revisions, UpToDate(id)
    PROVE  /\ id = revision /\ Resolve(id) = revision /\ GetRun(id) = table[revision]
           /\ table[revision] \in Revisions /\ where = "here"
  <1>1. /\ Resolve(id) = revision /\ GetRun(id) = table[revision]
        /\ table[revision] # None /\ run[table[revision]].id = id
    BY CurrentId DEF UpToDate
  <1>2. revision \in Revisions /\ table[revision] \in Revisions
    BY <1>1 DEF IInv, TypeOK
  <1> QED BY <1>1, <1>2 DEF IInv, RunsInv, UpToDate

\* Pending work keeps its run from being cleaned up.
LEMMA PendingRun ==
    ASSUME TypeOK, WorkInv, NEW t \in Tasks, status[t] \in Pending
    PROVE  /\ work[t] \in Work /\ table[revision] = work[t].run
           /\ table[revision] \in Revisions /\ table[revision] # None
           /\ ~Drained(table[revision])
  <1>1. work[t] \in Work /\ table[revision] = work[t].run
    BY DEF WorkInv
  <1>2. work[t].run \in Revisions /\ Revisions \subseteq Nat /\ None \notin Nat
    BY <1>1, TeamConstantsAssumption DEF Work, Revisions
  <1> QED BY <1>1, <1>2 DEF Drained, TasksOf

LEMMA RunsKnown ==
    ASSUME TypeOK, RunsInv
    PROVE  \A id \in Revisions : table[id] # None =>
             /\ run[table[id]] \in RunObject
             /\ run[table[id]].id = id /\ run[table[id]].rev = id
  BY DEF RunsInv

RunTypes ==
    /\ run \in [Revisions -> RunObject \cup {None}]
    /\ table \in [Revisions -> Revisions \cup {None}]
    /\ alias \in [Revisions -> Revisions \cup {None}]

\* A chat, or a configure that changes nothing.
LEMMA EnsureCurrent ==
    ASSUME TypeOK, RunsInv, WorkInv, Ensure(run, revision, team),
           UNCHANGED <<revision, team, status, work, control>>
    PROVE  RunTypes' /\ RunsInv' /\ WorkInv'
  <1>1. /\ revision \in Revisions /\ revision \in Nat /\ team \in Teams
        /\ run \in [Revisions -> RunObject \cup {None}] /\ Revisions \subseteq Nat
    BY TeamConstantsAssumption DEF TypeOK, Revisions
  <1>2. revision <= revision
    BY <1>1
  <1>3. /\ RunTypes'
        /\ table'[revision] # None /\ run'[table'[revision]].team = team
        /\ \A id \in Revisions : table'[id] # None =>
             /\ table'[id] <= id /\ run'[table'[id]] \in RunObject
             /\ run'[table'[id]].id = id /\ run'[table'[id]].rev = id
             /\ id = revision \/ table[id] # None
        /\ \A a \in Revisions : alias'[a] # None =>
             /\ alias'[a] = alias[a] /\ table'[a] = None /\ table'[alias'[a]] # None
        /\ \A id \in Revisions : table[id] # None /\ ~Drained(table[id]) =>
             /\ table'[id] = table[id]
             /\ \A a \in Revisions : alias[a] = id => alias'[a] = id
    BY <1>1, <1>2, RunsKnown, EnsureFacts DEF RunTypes
  <1>4. RunsInv'
    <2>1. \A id \in Revisions : table'[id] # None => id <= revision'
      BY <1>1, <1>3 DEF RunsInv
    <2>2. \A a \in Revisions : alias'[a] # None => a < alias'[a]
      BY <1>3 DEF RunsInv
    <2> QED BY <1>3, <2>1, <2>2 DEF RunsInv
  <1>5. WorkInv'
    <2>1. \A t \in Tasks : status[t] \in Pending =>
            /\ table'[revision] = table[revision]
            /\ alias[work[t].id] = revision => alias'[work[t].id] = revision
      <3> TAKE t \in Tasks
      <3> HAVE status[t] \in Pending
      <3>1. work[t].id \in Revisions
        BY PendingRun DEF Work
      <3> QED BY <3>1, <1>1, <1>3, PendingRun
    <2> QED BY <2>1 DEF WorkInv
  <1> QED BY <1>3, <1>4, <1>5

\* A replacement: a new run, and nobody works.
LEMMA EnsureNext ==
    ASSUME TypeOK, RunsInv, WorkInv, ~HasPending, revision < MaxRevision,
           table[revision] \in Revisions, NEW tm \in Teams,
           Ensure([run EXCEPT ![table[revision]].finished = TRUE], revision + 1, tm),
           revision' = revision + 1, team' = tm, UNCHANGED <<status, work, control>>
    PROVE  RunTypes' /\ RunsInv' /\ WorkInv'
  <1> DEFINE objects == [run EXCEPT ![table[revision]].finished = TRUE]
             rv == revision + 1
  <1>1. /\ revision \in Revisions /\ revision \in Nat /\ Revisions \subseteq Nat
        /\ rv \in Revisions /\ revision <= rv /\ None \notin Nat
        /\ run \in [Revisions -> RunObject \cup {None}]
        /\ table \in [Revisions -> Revisions \cup {None}]
    BY TeamConstantsAssumption DEF TypeOK, Revisions
  <1>2. run[table[revision]] \in RunObject
    BY <1>1 DEF RunsInv
  <1>3. /\ objects \in [Revisions -> RunObject \cup {None}]
        /\ objects[table[revision]] \in RunObject
        /\ objects[table[revision]].id = run[table[revision]].id
        /\ objects[table[revision]].rev = run[table[revision]].rev
        /\ \A o \in Revisions \ {table[revision]} : objects[o] = run[o]
    BY <1>1, <1>2 DEF RunObject
  <1>4. Ensure(objects, rv, tm) /\ revision' = rv
    OBVIOUS
  <1> HIDE DEF objects, rv
  <1>5. \A id \in Revisions : table[id] # None =>
          /\ objects[table[id]] \in RunObject
          /\ objects[table[id]].id = id /\ objects[table[id]].rev = id
    <2> TAKE id \in Revisions
    <2> HAVE table[id] # None
    <2>1. table[id] \in Revisions /\ run[table[id]] \in RunObject
          /\ run[table[id]].id = id /\ run[table[id]].rev = id
      BY <1>1 DEF RunsInv
    <2>2. CASE table[id] = table[revision]
      BY <2>1, <2>2, <1>3
    <2>3. CASE table[id] # table[revision]
      BY <2>1, <2>3, <1>3
    <2> QED BY <2>2, <2>3
  <1>6. /\ RunTypes'
        /\ table'[rv] # None /\ run'[table'[rv]].team = tm
        /\ \A id \in Revisions : table'[id] # None =>
             /\ table'[id] <= id /\ run'[table'[id]] \in RunObject
             /\ run'[table'[id]].id = id /\ run'[table'[id]].rev = id
             /\ id = rv \/ table[id] # None
        /\ \A a \in Revisions : alias'[a] # None =>
             /\ alias'[a] = alias[a] /\ table'[a] = None /\ table'[alias'[a]] # None
    BY <1>1, <1>3, <1>4, <1>5, EnsureFacts DEF RunTypes
  <1>7. RunsInv'
    <2>1. \A id \in Revisions : table[id] # None => id <= revision
      BY DEF RunsInv
    <2>2. \A id \in Revisions : id <= revision => id <= rv
      BY <1>1 DEF rv
    <2>3. \A id \in Revisions : table'[id] # None => id <= revision'
      BY <1>1, <1>4, <1>6, <2>1, <2>2
    <2>4. \A a \in Revisions : alias'[a] # None => a < alias'[a]
      BY <1>6 DEF RunsInv
    <2> QED BY <1>4, <1>6, <2>3, <2>4 DEF RunsInv
  <1>8. WorkInv'
    <2>1. \A t \in Tasks : status'[t] \notin Pending
      BY DEF HasPending
    <2>2. \A id \in Revisions : id > rv => id > revision
      BY <1>1 DEF rv
    <2> QED BY <1>4, <2>1, <2>2 DEF WorkInv
  <1> QED BY <1>6, <1>7, <1>8

\* An extension: the run moves on with its tasks, its aliases and its control.
LEMMA RekeyMovesAll ==
    ASSUME TypeOK, RunsInv, WorkInv, revision < MaxRevision,
           table[revision] \in Revisions, NEW tm \in Teams,
           \A s \in Slots : team[s] # Free => tm[s] = team[s],
           Rekey(revision, revision + 1, tm),
           revision' = revision + 1, team' = tm, UNCHANGED <<status, work>>
    PROVE  /\ RunTypes' /\ RunsInv' /\ WorkInv'
           /\ control' \in [Revisions -> SUBSET Tasks]
  <1> DEFINE rv == revision + 1
             new == [id |-> rv, rev |-> rv, team |-> tm, finished |-> FALSE]
             o == table[revision]
  <1>1. /\ revision \in Revisions /\ revision \in Nat /\ Revisions \subseteq Nat
        /\ rv \in Revisions /\ revision < rv /\ None \notin Nat
        /\ run \in [Revisions -> RunObject \cup {None}]
        /\ table \in [Revisions -> Revisions \cup {None}]
        /\ alias \in [Revisions -> Revisions \cup {None}]
        /\ control \in [Revisions -> SUBSET Tasks]
    BY TeamConstantsAssumption DEF TypeOK, Revisions
  <1>2. /\ o \in Revisions /\ o <= revision /\ new \in RunObject
        /\ new.id = rv /\ new.rev = rv /\ new.team = tm
    BY <1>1 DEF RunsInv, RunObject
  <1>3. /\ table' = [table EXCEPT ![revision] = None, ![rv] = o]
        /\ alias' = [a \in Revisions |-> IF a = rv THEN None
                       ELSE IF a = revision \/ alias[a] = revision THEN rv ELSE alias[a]]
        /\ run' = [run EXCEPT ![o] = new]
        /\ control' = [control EXCEPT ![revision] = {},
                         ![rv] = IF @ = {} THEN control[revision] ELSE @]
    BY DEF Rekey, Aliases, ControlMoved
  <1>4. revision' = rv
    OBVIOUS
  <1>5. \A id \in Revisions : id > rv => id > revision
    BY <1>1
  <1>6. \A id \in Revisions : id <= revision => id <= rv /\ id # rv
    BY <1>1
  <1>7. rv > revision /\ o # None /\ o <= rv
    <2>1. o \in Nat /\ rv \in Nat /\ o <= revision /\ revision < rv
      BY <1>1, <1>2
    <2> HIDE DEF o, rv
    <2> QED BY <1>1, <2>1
  <1> HIDE DEF rv, new, o
  <1>8. /\ table'[revision] = None /\ table'[rv] = o
        /\ \A id \in Revisions \ {revision, rv} : table'[id] = table[id]
        /\ table' \in [Revisions -> Revisions \cup {None}]
    BY <1>1, <1>2, <1>3
  <1>9. /\ alias'[revision] = rv /\ alias'[rv] = None
        /\ \A a \in Revisions : alias[a] = revision /\ a # rv => alias'[a] = rv
        /\ \A a \in Revisions : alias'[a] # None =>
             /\ a # rv
             /\ \/ alias'[a] = rv /\ (a = revision \/ alias[a] = revision)
                \/ alias'[a] = alias[a] /\ alias[a] \in Revisions /\ alias[a] # revision
                   /\ a # revision
        /\ alias' \in [Revisions -> Revisions \cup {None}]
    BY <1>1, <1>3
  <1>10. /\ run'[o] = new /\ \A x \in Revisions \ {o} : run'[x] = run[x]
         /\ run' \in [Revisions -> RunObject \cup {None}]
    BY <1>1, <1>2, <1>3
  <1>11. /\ control'[revision] = {} /\ control[revision] \subseteq control'[rv]
         /\ \A id \in Revisions \ {revision, rv} : control'[id] = control[id]
         /\ control' \in [Revisions -> SUBSET Tasks]
    <2>1. control[rv] = {}
      BY <1>1, <1>7 DEF WorkInv
    <2> QED BY <2>1, <1>1, <1>3
  <1>12. RunsInv'
    <2>1. ASSUME NEW id \in Revisions, table'[id] # None
          PROVE  /\ table'[id] <= id /\ id <= revision'
                 /\ run'[table'[id]] \in RunObject
                 /\ run'[table'[id]].id = id /\ run'[table'[id]].rev = id
                 /\ id = revision' => run'[table'[id]].team = team'
      <3>1. CASE id = rv
        BY <3>1, <1>1, <1>2, <1>4, <1>7, <1>8, <1>10
      <3>2. CASE id # rv
        <4>1. id # revision /\ table'[id] = table[id] /\ table[id] \in Revisions
          BY <3>2, <2>1, <1>1, <1>8
        <4>2. /\ table[id] <= id /\ id <= revision /\ run[table[id]] \in RunObject
              /\ run[table[id]].id = id /\ run[table[id]].rev = id
          BY <4>1, <2>1 DEF RunsInv
        <4>3. run[o].id = revision
          BY <1>1, <1>7 DEF RunsInv, o
        <4>4. run'[table[id]] = run[table[id]]
          BY <4>1, <4>2, <4>3, <1>10
        <4> QED BY <3>2, <4>1, <4>2, <4>4, <1>4, <1>6
      <3> QED BY <3>1, <3>2
    <2>2. ASSUME NEW a \in Revisions, alias'[a] # None
          PROVE  a < alias'[a] /\ table'[a] = None /\ table'[alias'[a]] # None
      <3>1. CASE alias'[a] = rv /\ a = revision
        BY <3>1, <1>1, <1>7, <1>8
      <3>2. CASE alias'[a] = rv /\ alias[a] = revision /\ a # revision
        <4>1. a < revision /\ table[a] = None /\ a # rv
          BY <3>2, <1>1, <2>2, <1>9 DEF RunsInv
        <4>2. a < rv
          BY <4>1, <1>1
        <4> QED BY <3>2, <4>1, <4>2, <1>7, <1>8
      <3>3. CASE alias'[a] = alias[a] /\ alias[a] \in Revisions /\ alias[a] # revision
                 /\ a # revision
        <4>1. /\ a < alias[a] /\ table[a] = None /\ table[alias[a]] # None /\ a # rv
          BY <3>3, <2>2, <1>9 DEF RunsInv
        <4>2. alias[a] # rv
          BY <4>1, <3>3, <1>6 DEF RunsInv
        <4> QED BY <3>3, <4>1, <4>2, <1>8
      <3> QED BY <2>2, <1>9, <3>1, <3>2, <3>3
    <2> QED BY <2>1, <2>2 DEF RunsInv
  <1>13. WorkInv'
    <2>1. ASSUME NEW t \in Tasks, status'[t] \in Pending
          PROVE  /\ work'[t] \in Work
                 /\ table'[revision'] = work'[t].run
                 /\ work'[t].id = revision' \/ alias'[work'[t].id] = revision'
                 /\ t \in control'[revision']
                 /\ team'[work'[t].slot] = [role |-> work'[t].role, rev |-> work'[t].rev]
      <3>1. /\ work[t] \in Work /\ table[revision] = work[t].run
            /\ work[t].id = revision \/ alias[work[t].id] = revision
            /\ t \in control[revision]
            /\ team[work[t].slot] = [role |-> work[t].role, rev |-> work[t].rev]
        BY <2>1 DEF WorkInv
      <3>2. work[t].id \in Revisions /\ work[t].slot \in Slots /\ work[t].role \in Roles
            /\ work[t].rev \in Nat
        BY <3>1, <1>1 DEF Work
      <3>3. team[work[t].slot] # Free
        BY <3>1, <3>2, TeamConstantsAssumption
      <3>4. work[t].id # rv
        <4>1. CASE work[t].id = revision
          BY <4>1, <1>1
        <4>2. CASE alias[work[t].id] = revision
          <5>1. work[t].id < revision
            BY <4>2, <3>2, <1>1 DEF RunsInv
          <5> QED BY <5>1, <3>2, <1>1
        <4> QED BY <4>1, <4>2, <3>1
      <3>5. alias'[work[t].id] = rv
        BY <3>1, <3>2, <3>4, <1>9
      <3> QED BY <3>1, <3>2, <3>3, <3>5, <1>4, <1>8, <1>11, <2>1 DEF o
    <2>2. \A id \in Revisions : id > revision' => control'[id] = {}
      <3> TAKE id \in Revisions
      <3> HAVE id > revision'
      <3>1. id > revision /\ id # revision /\ id # rv
        BY <1>1, <1>4, <1>5
      <3> QED BY <3>1, <1>11 DEF WorkInv
    <2> QED BY <2>1, <2>2 DEF WorkInv
  <1> QED BY <1>8, <1>9, <1>10, <1>11, <1>12, <1>13 DEF RunTypes

-----------------------------------------------------------------------------
(* Teams *)

\* A list of roles goes to slots of the given set.
LEMMA RoleListSlots ==
    ASSUME NEW S, NEW f \in RoleLists(S)
    PROVE  DOMAIN f \subseteq S /\ \A s \in DOMAIN f : f[s] \in Roles
  BY DEF RoleLists, FirstOf

\* An extension keeps who has a slot and fills free slots of the cluster.
LEMMA ExtensionKeeps ==
    ASSUME TypeOK, revision < MaxRevision, NEW tm \in Extensions
    PROVE  /\ tm \in Teams
           /\ \A s \in Slots :
                /\ team[s] # Free => tm[s] = team[s]
                /\ team[s] = Free /\ tm[s] # Free =>
                     Position[s] <= capacity /\ tm[s].rev = revision + 1
  <1>1. PICK f \in RoleLists(ActiveSlots \ Assigned) :
          tm = [s \in Slots |-> IF s \in DOMAIN f
                                THEN [role |-> f[s], rev |-> revision + 1] ELSE team[s]]
    BY DEF Extensions
  <1>2. DOMAIN f \subseteq ActiveSlots \ Assigned /\ \A s \in DOMAIN f : f[s] \in Roles
    BY RoleListSlots
  <1>3. revision + 1 \in Revisions /\ team \in Teams
    BY TeamConstantsAssumption DEF TypeOK, Revisions
  <1>4. \A s \in DOMAIN f : [role |-> f[s], rev |-> revision + 1] \in Assignment
    BY <1>2, <1>3 DEF Assignment
  <1>5. tm \in Teams
    BY <1>1, <1>3, <1>4 DEF Teams
  <1>6. \A s \in Slots : team[s] # Free => tm[s] = team[s]
    BY <1>1, <1>2 DEF Assigned
  <1>7. \A s \in Slots : team[s] = Free /\ tm[s] # Free =>
          s \in DOMAIN f /\ tm[s].rev = revision + 1
    <2> TAKE s \in Slots
    <2> HAVE team[s] = Free /\ tm[s] # Free
    <2>1. s \in DOMAIN f
      BY <1>1
    <2>2. tm[s] = [role |-> f[s], rev |-> revision + 1]
      BY <2>1, <1>1
    <2> QED BY <2>1, <2>2
  <1>8. \A s \in DOMAIN f : Position[s] <= capacity
    BY <1>2 DEF ActiveSlots
  <1> QED BY <1>5, <1>6, <1>7, <1>8

\* A replacement stays within the cluster; a slot that does not keep its role
\* gets a new revision.
LEMMA ReplacementRenews ==
    ASSUME TypeOK, revision < MaxRevision, NEW tm \in Replacements
    PROVE  /\ tm \in Teams
           /\ \A s \in Slots : tm[s] # Free =>
                /\ Position[s] <= capacity
                /\ (tm[s] = team[s] /\ team[s] # Free) \/ tm[s].rev = revision + 1
  <1>1. PICK f \in RoleLists(ActiveSlots) :
          tm = [s \in Slots |-> IF s \notin DOMAIN f THEN Free
                  ELSE [role |-> f[s],
                        rev |-> IF Keeps(s, f[s]) THEN team[s].rev ELSE revision + 1]]
    BY DEF Replacements
  <1>2. DOMAIN f \subseteq ActiveSlots /\ \A s \in DOMAIN f : f[s] \in Roles
    BY RoleListSlots
  <1>3. revision + 1 \in Revisions /\ team \in [Slots -> Assignment \cup {Free}]
    BY TeamConstantsAssumption DEF TypeOK, Revisions, Teams
  <1>4. ASSUME NEW s \in Slots, s \in DOMAIN f
        PROVE  /\ tm[s] \in Assignment
               /\ (tm[s] = team[s] /\ team[s] # Free) \/ tm[s].rev = revision + 1
    <2>1. CASE Keeps(s, f[s])
      <3>1. team[s] \in Assignment /\ team[s] # Free /\ team[s].role = f[s]
        BY <2>1, <1>3 DEF Keeps
      <3>2. tm[s] = [role |-> f[s], rev |-> team[s].rev]
        BY <2>1, <1>1, <1>4
      <3> QED BY <3>1, <3>2 DEF Assignment
    <2>2. CASE ~Keeps(s, f[s])
      <3>1. tm[s] = [role |-> f[s], rev |-> revision + 1]
        BY <2>2, <1>1, <1>4
      <3> QED BY <3>1, <1>2, <1>3, <1>4 DEF Assignment
    <2> QED BY <2>1, <2>2
  <1>5. \A s \in Slots : s \notin DOMAIN f => tm[s] = Free
    BY <1>1
  <1>6. tm \in Teams
    BY <1>1, <1>4, <1>5 DEF Teams
  <1> QED BY <1>2, <1>4, <1>5, <1>6 DEF ActiveSlots

\* What configure_team leaves; the caller has shown that nobody resizes.
LEMMA ConfiguredKeeps ==
    ASSUME IInv, NEW id \in Revisions, Configured(id), target = 0,
           UNCHANGED <<where, children, status, work, capacity, target>>
    PROVE  /\ revision' \in Revisions /\ team' \in Teams
           /\ RunTypes' /\ control' \in [Revisions -> SUBSET Tasks]
           /\ RunsInv' /\ WorkInv' /\ ChildInv' /\ TeamFits'
           /\ \/ UNCHANGED <<revision, team>>
              \/ /\ revision' = revision + 1
                 /\ \/ \A s \in Slots :
                         /\ team[s] # Free => team'[s] = team[s]
                         /\ team[s] = Free /\ team'[s] # Free => team'[s].rev = revision'
                    \/ ~HasPending /\ \A s \in Slots :
                         team'[s] = Free \/ team'[s] = team[s] \/ team'[s].rev = revision'
  <1>1. /\ TypeOK /\ RunsInv /\ WorkInv /\ ChildInv /\ TeamFits
        /\ revision \in Revisions /\ revision \in Nat /\ team \in Teams
        /\ control \in [Revisions -> SUBSET Tasks]
        /\ children \subseteq Child
    BY TeamConstantsAssumption DEF IInv, TypeOK, Revisions
  <1>2. /\ id = revision /\ GetRun(id) = table[revision]
        /\ table[revision] \in Revisions /\ where = "here"
    BY UpToDateId DEF Configured
  <1>3. CASE Unchanged(id)
    <2>1. /\ Ensure(run, revision, team)
          /\ UNCHANGED <<revision, team, control>>
      BY <1>2, <1>3 DEF Unchanged, stored
    <2>2. RunTypes' /\ RunsInv' /\ WorkInv'
      BY <1>1, <2>1, EnsureCurrent
    <2>3. ChildInv' /\ TeamFits'
      BY <1>1, <2>1 DEF ChildInv, RoleOwnsConversation, TeamFits, Assigned
    <2> QED BY <1>1, <2>1, <2>2, <2>3
  <1>4. CASE Extended(id)
    <2>1. PICK tm \in Extensions :
            /\ revision < MaxRevision /\ revision' = revision + 1 /\ team' = tm
            /\ Rekey(revision, revision + 1, tm)
      BY <1>2, <1>4 DEF Extended
    <2>2. /\ tm \in Teams
          /\ \A s \in Slots :
               /\ team[s] # Free => tm[s] = team[s]
               /\ team[s] = Free /\ tm[s] # Free =>
                    Position[s] <= capacity /\ tm[s].rev = revision + 1
      BY <1>1, <2>1, ExtensionKeeps
    <2>3. /\ RunTypes' /\ RunsInv' /\ WorkInv'
          /\ control' \in [Revisions -> SUBSET Tasks]
      BY <1>1, <1>2, <2>1, <2>2, RekeyMovesAll
    <2>4. revision' \in Revisions
      BY <1>1, <2>1, TeamConstantsAssumption DEF Revisions
    <2>5. ChildInv'
      <3>1. \A s \in Slots : team'[s] # Free => team'[s].rev <= revision'
        BY <1>1, <2>1, <2>2 DEF ChildInv, Teams, Assignment, Revisions
      <3>2. \A c \in children' : c.rev <= revision' /\ c.slot \in Slots /\ c.rev # revision'
        BY <1>1, <2>1 DEF ChildInv, Child, Revisions
      <3>3. \A c \in children' : team'[c.slot] # Free /\ team'[c.slot].rev = c.rev =>
              team'[c.slot].role = c.role
        BY <1>1, <2>1, <2>2, <3>2 DEF ChildInv, RoleOwnsConversation
      <3> QED BY <1>1, <3>1, <3>2, <3>3 DEF ChildInv, RoleOwnsConversation
    <2>6. TeamFits'
      BY <1>1, <2>1, <2>2 DEF TeamFits, Assigned
    <2> QED BY <2>1, <2>2, <2>3, <2>4, <2>5, <2>6
  <1>5. CASE Replaced(id)
    <2>1. PICK tm \in Replacements :
            /\ ~HasPending
            /\ revision < MaxRevision /\ revision' = revision + 1 /\ team' = tm
            /\ Ensure([run EXCEPT ![table[revision]].finished = TRUE], revision + 1, tm)
            /\ UNCHANGED control
      BY <1>2, <1>5 DEF Replaced, MayReplace
    <2>2. /\ tm \in Teams
          /\ \A s \in Slots : tm[s] # Free =>
               /\ Position[s] <= capacity
               /\ (tm[s] = team[s] /\ team[s] # Free) \/ tm[s].rev = revision + 1
      BY <1>1, <2>1, ReplacementRenews
    <2>3. RunTypes' /\ RunsInv' /\ WorkInv'
      BY <1>1, <1>2, <2>1, <2>2, EnsureNext
    <2>4. revision' \in Revisions
      BY <1>1, <2>1, TeamConstantsAssumption DEF Revisions
    <2>5. ChildInv'
      <3>1. \A s \in Slots : team'[s] # Free => team'[s].rev <= revision'
        BY <1>1, <2>1, <2>2 DEF ChildInv, Teams, Assignment, Revisions
      <3>2. \A c \in children' : c.rev <= revision' /\ c.slot \in Slots /\ c.rev # revision'
        BY <1>1, <2>1 DEF ChildInv, Child, Revisions
      <3>3. \A c \in children' : team'[c.slot] # Free /\ team'[c.slot].rev = c.rev =>
              team'[c.slot].role = c.role
        BY <1>1, <2>1, <2>2, <3>2 DEF ChildInv, RoleOwnsConversation
      <3> QED BY <1>1, <3>1, <3>2, <3>3 DEF ChildInv, RoleOwnsConversation
    <2>6. TeamFits'
      BY <1>1, <2>1, <2>2 DEF TeamFits, Assigned
    <2>7. \A s \in Slots :
            team'[s] = Free \/ team'[s] = team[s] \/ team'[s].rev = revision'
      BY <2>1, <2>2
    <2> QED BY <1>1, <2>1, <2>2, <2>3, <2>4, <2>5, <2>6, <2>7
  <1> QED BY <1>3, <1>4, <1>5 DEF Configured

-----------------------------------------------------------------------------
(* The parts of the invariant that a step which only waits, gets or releases *)
(* a lock leaves alone, and those it changes.                                *)

DataTypes ==
    /\ revision \in Revisions
    /\ team \in Teams
    /\ where \in {"here", "away", "gone"}
    /\ children \subseteq Child
    /\ RunTypes
    /\ control \in [Revisions -> SUBSET Tasks]
    /\ status \in [Tasks -> {"none", "ended"} \cup Pending]
    /\ work \in [Tasks -> Work \cup {NoWork}]

SizeTypes == capacity \in 1..Cardinality(Slots) /\ target \in 0..Cardinality(Slots)

LockTypes ==
    /\ call \in [Calls -> Request \cup {NoCall}]
    /\ botQ \in Seq(Calls) /\ convQ \in Seq(Calls)
    /\ thread \in BOOLEAN

DataInv == DataTypes /\ RunsInv /\ WorkInv /\ ChildInv

LEMMA InvParts ==
    IInv <=> DataInv /\ SizeTypes /\ TeamFits /\ LockTypes /\ QueueInv
  BY DEF IInv, TypeOK, DataInv, DataTypes, RunTypes, SizeTypes, LockTypes

LEMMA InvNext ==
    ASSUME DataInv', SizeTypes', TeamFits', LockTypes', QueueInv'
    PROVE  IInv'
  BY DEF IInv, TypeOK, DataInv, DataTypes, RunTypes, SizeTypes, LockTypes

LEMMA DataKept ==
    ASSUME DataInv,
           UNCHANGED <<revision, team, where, children, run, table, alias, control,
                       status, work>>
    PROVE  DataInv'
  BY DEF DataInv, DataTypes, RunTypes, RunsInv, WorkInv, ChildInv, RoleOwnsConversation

LEMMA SizeKept ==
    ASSUME SizeTypes, TeamFits, UNCHANGED <<team, where, capacity, target>>
    PROVE  SizeTypes' /\ TeamFits'
  BY DEF SizeTypes, TeamFits, Assigned

LEMMA LocksKept ==
    ASSUME LockTypes, QueueInv, UNCHANGED <<call, botQ, convQ, thread, target>>
    PROVE  LockTypes' /\ QueueInv'
  BY QueuesAlone DEF LockTypes

LEMMA JoinTypes ==
    ASSUME LockTypes, NEW k \in Calls, NEW op, NEW id,
           [op |-> op, id |-> id] \in Request, Waits(k, op, id)
    PROVE  /\ call' \in [Calls -> Request \cup {NoCall}]
           /\ Append(botQ, k) \in Seq(Calls) /\ Append(convQ, k) \in Seq(Calls)
  BY AppendFacts DEF LockTypes, Waits

LEMMA LeaveTypes ==
    ASSUME LockTypes, NEW k \in Calls
    PROVE  /\ [call EXCEPT ![k] = NoCall] \in [Calls -> Request \cup {NoCall}]
           /\ First(botQ, k) => Tail(botQ) \in Seq(Calls)
           /\ First(convQ, k) => Tail(convQ) \in Seq(Calls)
           /\ call[k] # NoCall /\ call[k].op \in {"ask", "session", "configure"} =>
                call[k].id \in Revisions
  BY TailFacts DEF LockTypes, Request

\* A request queues for the conversation lock, for another reason than a team.
LEMMA ConvStep ==
    ASSUME IInv, NEW k \in Calls, NEW op, NEW id, [op |-> op, id |-> id] \in Request,
           op \notin {"configure", "resize"}, Waits(k, op, id), convQ' = Append(convQ, k),
           UNCHANGED <<revision, team, where, children, run, table, alias, control,
                       status, work, capacity, target, botQ, thread>>
    PROVE  IInv'
  <1>1. QueueInv'
    BY ConvJoins DEF IInv
  <1>2. LockTypes'
    BY InvParts, JoinTypes DEF LockTypes
  <1>3. DataInv' /\ SizeTypes' /\ TeamFits'
    BY InvParts, DataKept, SizeKept
  <1> QED BY <1>1, <1>2, <1>3, InvNext

\* The request that had the conversation lock for a step is served.
LEMMA ConvServed ==
    ASSUME IInv, NEW k \in Calls, First(convQ, k), call[k] # NoCall,
           call[k].op # "configure", convQ' = Tail(convQ),
           call' = [call EXCEPT ![k] = NoCall], ~thread', thread' \in BOOLEAN,
           UNCHANGED <<botQ, target>>
    PROVE  LockTypes' /\ QueueInv'
  <1>1. QueueInv'
    BY ConvLeaves DEF IInv
  <1>2. LockTypes'
    BY InvParts, LeaveTypes DEF LockTypes
  <1> QED BY <1>1, <1>2

-----------------------------------------------------------------------------
(* The steps *)

\* ask_agent and new_agent_session under the lock.
LEMMA ServedKeeps ==
    ASSUME IInv, NEW op, NEW id \in Revisions, Current(id), Served(op, id),
           UNCHANGED <<revision, team, where, run, table, alias>>
    PROVE  DataInv'
  <1>1. /\ DataInv /\ DataTypes /\ RunsInv /\ WorkInv /\ ChildInv
    BY InvParts DEF DataInv
  <1>2. /\ Resolve(id) = revision /\ GetRun(id) = table[revision]
        /\ run[table[revision]] \in RunObject
        /\ run[table[revision]].team = team
        /\ id = revision \/ alias[id] = revision
    BY CurrentId DEF Current
  <1>3. /\ revision \in Revisions /\ Revisions \subseteq Nat /\ None \notin Nat
        /\ table[revision] \in Revisions /\ team \in [Slots -> Assignment \cup {Free}]
    BY <1>1, <1>2, TeamConstantsAssumption DEF DataTypes, RunTypes, Revisions, Teams, Current
  <1>4. CASE Delegated(id)
    <2>1. PICK t \in Tasks, s \in Slots :
            /\ status[t] = "none" /\ team[s] # Free
            /\ status' = [status EXCEPT ![t] = "queued"]
            /\ work' = [work EXCEPT ![t] =
                  [id |-> id, run |-> table[revision], slot |-> s,
                   role |-> team[s].role, rev |-> team[s].rev]]
            /\ control' = [control EXCEPT ![revision] = @ \cup {t}]
            /\ UNCHANGED children
      BY <1>2, <1>4 DEF Delegated
    <2> DEFINE new == [id |-> id, run |-> table[revision], slot |-> s,
                       role |-> team[s].role, rev |-> team[s].rev]
    <2>2. /\ team[s] \in Assignment
          /\ team[s] = [role |-> team[s].role, rev |-> team[s].rev]
      BY <1>3, <2>1 DEF Assignment
    <2>3. /\ new \in Work /\ new.id = id /\ new.run = table[revision] /\ new.slot = s
          /\ team[new.slot] = [role |-> new.role, rev |-> new.rev]
      BY <1>3, <2>2 DEF Assignment, Work
    <2> HIDE DEF new
    <2>4. work' = [work EXCEPT ![t] = new]
      BY <2>1 DEF new
    <2>5. /\ status' \in [Tasks -> {"none", "ended"} \cup Pending]
          /\ work' \in [Tasks -> Work \cup {NoWork}]
          /\ control' \in [Revisions -> SUBSET Tasks]
      BY <1>1, <1>3, <2>1, <2>3, <2>4 DEF DataTypes, Pending
    <2>6. DataTypes'
      BY <1>1, <2>1, <2>5 DEF DataTypes, RunTypes
    <2>7. RunsInv' /\ ChildInv'
      BY <1>1, <2>1 DEF RunsInv, ChildInv, RoleOwnsConversation
    <2>8. WorkInv'
      <3>1. ASSUME NEW u \in Tasks, status'[u] \in Pending
            PROVE  /\ work'[u] \in Work
                   /\ table'[revision'] = work'[u].run
                   /\ work'[u].id = revision' \/ alias'[work'[u].id] = revision'
                   /\ u \in control'[revision']
                   /\ team'[work'[u].slot] = [role |-> work'[u].role, rev |-> work'[u].rev]
        <4>1. CASE u = t
          <5>1. work'[u] = new /\ u \in control'[revision]
            BY <4>1, <2>1, <2>4, <1>1, <1>3 DEF DataTypes
          <5> QED BY <5>1, <1>2, <2>3
        <4>2. CASE u # t
          <5>1. work'[u] = work[u] /\ status[u] \in Pending
                /\ control[revision] \subseteq control'[revision]
            BY <4>2, <3>1, <2>1, <2>4, <1>1, <1>3 DEF DataTypes
          <5> QED BY <5>1, <1>1 DEF WorkInv
        <4> QED BY <4>1, <4>2
      <3>2. \A i \in Revisions : i > revision' => control'[i] = {}
        BY <1>1, <1>3, <2>1 DEF WorkInv, DataTypes
      <3> QED BY <3>1, <3>2 DEF WorkInv
    <2> QED BY <2>6, <2>7, <2>8 DEF DataInv
  <1>5. CASE NewSession(id)
    <2>1. PICK s \in Slots :
            /\ team[s] # Free
            /\ children' = children \cup
                 {[slot |-> s, rev |-> team[s].rev, role |-> team[s].role]}
            /\ UNCHANGED <<status, work, control>>
      BY <1>2, <1>5 DEF NewSession
    <2> DEFINE new == [slot |-> s, rev |-> team[s].rev, role |-> team[s].role]
    <2>2. team[s] \in Assignment
      BY <1>3, <2>1
    <2>3. /\ new \in Child /\ new.slot = s /\ new.rev = team[s].rev
          /\ new.role = team[s].role /\ new.rev <= revision
      BY <1>1, <2>1, <2>2 DEF Assignment, Child, ChildInv
    <2> HIDE DEF new
    <2>4. children' = children \cup {new}
      BY <2>1 DEF new
    <2>5. DataTypes' /\ RunsInv' /\ WorkInv'
      BY <1>1, <2>1, <2>3, <2>4 DEF DataTypes, RunTypes, RunsInv, WorkInv
    <2>6. RoleOwnsConversation'
      <3>1. ASSUME NEW c \in children', NEW d \in children', d.slot = c.slot, d.rev = c.rev
            PROVE  d = c
        <4>1. c \in Child /\ d \in Child
          BY <2>5 DEF DataTypes
        <4>2. d.role = c.role
          BY <3>1, <2>1, <2>3, <2>4, <1>1 DEF ChildInv, RoleOwnsConversation
        <4>3. /\ c = [slot |-> c.slot, rev |-> c.rev, role |-> c.role]
              /\ d = [slot |-> d.slot, rev |-> d.rev, role |-> d.role]
          BY <4>1 DEF Child
        <4> QED BY <3>1, <4>2, <4>3
      <3>2. ASSUME NEW c \in children', team'[c.slot] # Free, team'[c.slot].rev = c.rev
            PROVE  team'[c.slot].role = c.role
        BY <3>2, <2>3, <2>4, <1>1 DEF ChildInv, RoleOwnsConversation
      <3> QED BY <3>1, <3>2 DEF RoleOwnsConversation
    <2>7. ChildInv'
      BY <1>1, <2>3, <2>4, <2>6 DEF ChildInv
    <2> QED BY <2>5, <2>7 DEF DataInv
  <1> QED BY <1>4, <1>5 DEF Served

LEMMA AskKeeps ==
    ASSUME IInv, AskStep
    PROVE  IInv'
  <1>1. PICK op \in {"ask", "session"} :
          \/ \E id \in Revisions : Ask(op, id)
          \/ \E k \in Calls, id \in Revisions : AskQueues(k, op, id)
          \/ \E k \in Calls : AskResumes(k, op)
    BY DEF AskStep
  <1>2. /\ op \notin {"configure", "resize"}
        /\ \A id \in Revisions : [op |-> op, id |-> id] \in Request
    BY <1>1 DEF Request
  <1>3. ASSUME NEW id \in Revisions, Ask(op, id)
        PROVE  IInv'
    <2>1. /\ Current(id) /\ Served(op, id)
          /\ UNCHANGED <<revision, team, where, run, table, alias>>
          /\ UNCHANGED <<capacity, target, call, botQ, convQ, thread>>
      BY <1>3 DEF Ask, stored, runs, locks
    <2>2. DataInv'
      BY <2>1, ServedKeeps
    <2>3. SizeTypes' /\ TeamFits' /\ LockTypes' /\ QueueInv'
      BY <2>1, InvParts, SizeKept, LocksKept
    <2> QED BY <2>2, <2>3, InvNext
  <1>4. ASSUME NEW k \in Calls, NEW id \in Revisions, AskQueues(k, op, id)
        PROVE  IInv'
    <2>1. /\ Waits(k, op, id) /\ convQ' = Append(convQ, k)
          /\ UNCHANGED <<revision, team, where, children, run, table, alias, control,
                         status, work, capacity, target, botQ, thread>>
      BY <1>4 DEF AskQueues, QueuesForConv, stored, runs
    <2> QED BY <2>1, <1>2, ConvStep
  <1>5. ASSUME NEW k \in Calls, AskResumes(k, op)
        PROVE  IInv'
    <2>1. /\ First(convQ, k) /\ call[k] # NoCall /\ call[k].op = op
          /\ convQ' = Tail(convQ) /\ call' = [call EXCEPT ![k] = NoCall]
          /\ ~thread
      BY <1>5 DEF AskResumes, ConvTurn
    <2>2. /\ Refused \/ (Current(call[k].id) /\ Served(op, call[k].id))
          /\ UNCHANGED <<stored, where, runs, capacity, target, botQ, thread>>
      BY <1>5 DEF AskResumes
    <2>3. /\ UNCHANGED <<revision, team, where, run, table, alias>>
          /\ UNCHANGED <<capacity, target, botQ>> /\ UNCHANGED thread
      BY <2>2 DEF stored, runs
    <2>4. LockTypes' /\ QueueInv'
      <3>1. call[k].op # "configure" /\ ~thread' /\ thread' \in BOOLEAN
        BY <2>1, <2>3, <1>2, InvParts DEF LockTypes
      <3> QED BY <2>1, <2>3, <3>1, ConvServed
    <2>5. SizeTypes' /\ TeamFits'
      BY <2>3, InvParts, SizeKept
    <2>6. DataInv'
      <3>1. CASE Refused
        BY <2>3, <3>1, InvParts, DataKept DEF Refused
      <3>2. CASE Current(call[k].id) /\ Served(op, call[k].id)
        <4>1. call[k].id \in Revisions
          BY <1>1, <2>1, InvParts, LeaveTypes
        <4> QED BY <2>3, <3>2, <4>1, ServedKeeps
      <3> QED BY <2>2, <3>1, <3>2
    <2> QED BY <2>4, <2>5, <2>6, InvNext
  <1> QED BY <1>1, <1>3, <1>4, <1>5

\* configure_team under both locks, refused or not.
LEMMA ConfiguredData ==
    ASSUME IInv, NEW id \in Revisions, target = 0,
           \/ Configured(id)
           \/ UNCHANGED <<revision, team, run, table, alias, control>>,
           UNCHANGED <<where, children, status, work, capacity, target>>
    PROVE  DataInv' /\ SizeTypes' /\ TeamFits'
  <1>1. CASE Configured(id)
    <2>1. /\ revision' \in Revisions /\ team' \in Teams
          /\ RunTypes' /\ control' \in [Revisions -> SUBSET Tasks]
          /\ RunsInv' /\ WorkInv' /\ ChildInv' /\ TeamFits'
      BY <1>1, ConfiguredKeeps
    <2>2. DataTypes /\ SizeTypes
      BY InvParts DEF DataInv
    <2>3. DataTypes' /\ SizeTypes'
      BY <2>1, <2>2 DEF DataTypes, SizeTypes
    <2> QED BY <2>1, <2>3 DEF DataInv
  <1>2. CASE UNCHANGED <<revision, team, run, table, alias, control>>
    BY <1>2, InvParts, DataKept, SizeKept
  <1> QED BY <1>1, <1>2

\* Whoever may configure has the bot lock, so nobody is about to resize.
LEMMA NobodyResizes ==
    ASSUME QueueInv
    PROVE  /\ botQ = <<>> => target = 0
           /\ botQ # <<>> /\ call[botQ[1]].op = "configure" => target = 0
  BY DEF QueueInv

LEMMA ConfigureKeeps ==
    ASSUME IInv, ConfigureStep
    PROVE  IInv'
  <1>1. LockTypes /\ QueueInv /\ DataInv /\ SizeTypes /\ TeamFits
    BY InvParts
  <1>2. ASSUME NEW id \in Revisions, Configure(id)
        PROVE  IInv'
    <2>1. /\ botQ = <<>> /\ Configured(id)
          /\ UNCHANGED <<where, children, status, work, capacity, target, locks>>
      BY <1>2 DEF Configure, BotFree
    <2>2. DataInv' /\ SizeTypes' /\ TeamFits'
      BY <1>1, <2>1, NobodyResizes, ConfiguredData
    <2>3. LockTypes' /\ QueueInv'
      BY <1>1, <2>1, LocksKept DEF locks
    <2> QED BY <2>2, <2>3, InvNext
  <1>3. ASSUME NEW k \in Calls, NEW id \in Revisions, ConfigureQueues(k, id)
        PROVE  IInv'
    <2>1. /\ Waits(k, "configure", id) /\ botQ' = Append(botQ, k)
          /\ convQ' = IF botQ = <<>> THEN Append(convQ, k) ELSE convQ
          /\ UNCHANGED <<stored, where, children, runs, control, status, work,
                         capacity, target, thread>>
      BY <1>3 DEF ConfigureQueues, BotFree
    <2>2. [op |-> "configure", id |-> id] \in Request
      BY DEF Request
    <2>3. LockTypes'
      BY <1>1, <2>1, <2>2, JoinTypes DEF LockTypes
    <2>4. TypeOK /\ UNCHANGED <<thread, target>>
      BY <2>1 DEF IInv
    <2>5. \/ UNCHANGED convQ
          \/ convQ' = Append(convQ, k) /\ botQ = <<>>
      BY <2>1
    <2>6. QueueInv'
      BY <1>1, <2>1, <2>2, <2>4, <2>5, BotJoins
    <2>7. DataInv' /\ SizeTypes' /\ TeamFits'
      BY <1>1, <2>1, DataKept, SizeKept DEF stored, runs
    <2> QED BY <2>3, <2>6, <2>7, InvNext
  <1>4. ASSUME NEW k \in Calls, ConfigureMovesOn(k)
        PROVE  IInv'
    <2>1. /\ First(botQ, k) /\ call[k] # NoCall /\ call[k].op = "configure"
          /\ \A i \in 1..Len(convQ) : convQ[i] # k
          /\ convQ' = Append(convQ, k)
      BY <1>1, <1>4 DEF ConfigureMovesOn, HasBot, LockTypes
    <2>2. UNCHANGED <<stored, where, children, runs, control, status, work,
                      capacity, target, call, botQ, thread>>
      BY <1>4 DEF ConfigureMovesOn
    <2>3. /\ Len(convQ') = Len(convQ) + 1 /\ convQ' # <<>> /\ convQ' \in Seq(Calls)
          /\ \A i \in 1..Len(convQ) : convQ'[i] = convQ[i]
          /\ convQ'[Len(convQ) + 1] = k
          /\ convQ # <<>> => convQ'[1] = convQ[1]
          /\ Len(convQ) \in Nat /\ (convQ # <<>> => Len(convQ) >= 1)
      BY <1>1, <2>1, AppendFacts DEF LockTypes
    <2>4. botQ # <<>> /\ botQ[1] = k
      BY <2>1 DEF First
    <2>5. UNCHANGED <<call, botQ, target>> /\ UNCHANGED thread
      BY <2>2
    <2>6. QueueInv'
      <3>1. \A i \in 1..Len(convQ') :
              /\ call[convQ'[i]] # NoCall
              /\ call[convQ'[i]].op # "resize"
              /\ call[convQ'[i]].op = "configure" => botQ # <<>> /\ convQ'[i] = botQ[1]
        BY <1>1, <2>1, <2>3, <2>4 DEF QueueInv
      <3>2. \A i, j \in 1..Len(convQ') : convQ'[i] = convQ'[j] => i = j
        BY <1>1, <2>1, <2>3 DEF QueueInv
      <3>3. thread => convQ' # <<>> /\ call[convQ'[1]].op = "change"
        BY <1>1, <2>3 DEF QueueInv
      <3> QED BY <1>1, <2>5, <3>1, <3>2, <3>3 DEF QueueInv
    <2>7. LockTypes'
      BY <1>1, <2>3, <2>5 DEF LockTypes
    <2>8. DataInv' /\ SizeTypes' /\ TeamFits'
      BY <1>1, <2>2, DataKept, SizeKept DEF stored, runs
    <2> QED BY <2>6, <2>7, <2>8, InvNext
  <1>5. ASSUME NEW k \in Calls, ConfigureGoesOn(k)
        PROVE  IInv'
    <2>1. /\ First(botQ, k) /\ call[k] # NoCall /\ call[k].op = "configure"
          /\ \A i \in 1..Len(convQ) : convQ[i] # k
          /\ botQ' = Tail(botQ) /\ call' = [call EXCEPT ![k] = NoCall]
      BY <1>1, <1>5 DEF ConfigureGoesOn, HasBot, LockTypes
    <2>2. /\ (UNCHANGED <<stored, runs, control>>) \/ Configured(call[k].id)
          /\ UNCHANGED <<where, children, status, work, capacity, target, convQ, thread>>
      BY <1>5 DEF ConfigureGoesOn
    <2>3. call[k].id \in Revisions
      BY <1>1, <2>1, LeaveTypes
    <2>4. target = 0
      BY <1>1, <2>1, NobodyResizes DEF First
    <2>5. DataInv' /\ SizeTypes' /\ TeamFits'
      BY <2>2, <2>3, <2>4, ConfiguredData DEF stored, runs
    <2>6. UNCHANGED convQ /\ UNCHANGED thread /\ target' = 0
      BY <2>2, <2>4
    <2>7. QueueInv'
      BY <1>1, <2>1, <2>6, BotLeaves DEF IInv
    <2>8. LockTypes'
      BY <1>1, <2>1, <2>6, LeaveTypes DEF LockTypes
    <2> QED BY <2>5, <2>7, <2>8, InvNext
  <1>6. ASSUME NEW k \in Calls, ConfigureResumes(k)
        PROVE  IInv'
    <2>1. /\ First(convQ, k) /\ call[k] # NoCall /\ call[k].op = "configure"
          /\ convQ' = Tail(convQ) /\ call' = [call EXCEPT ![k] = NoCall]
          /\ botQ' = Tail(botQ) /\ ~thread
      BY <1>6 DEF ConfigureResumes, ConvTurn
    <2>2. /\ (UNCHANGED <<stored, runs, control>>) \/ Configured(call[k].id)
          /\ UNCHANGED <<where, children, status, work, capacity, target, thread>>
      BY <1>6 DEF ConfigureResumes
    <2>3. call[k].id \in Revisions
      BY <1>1, <2>1, LeaveTypes
    <2>4. Len(convQ) \in Nat \ {0} /\ convQ[1] = k
      BY <1>1, <2>1, TailFacts DEF LockTypes
    <2>5. botQ # <<>> /\ k = botQ[1]
      BY <1>1, <2>1, <2>4 DEF QueueInv
    <2>6. target = 0 /\ First(botQ, k)
      BY <1>1, <2>1, <2>5, NobodyResizes DEF First
    <2>7. DataInv' /\ SizeTypes' /\ TeamFits'
      BY <2>2, <2>3, <2>6, ConfiguredData DEF stored, runs
    <2>8. UNCHANGED target /\ UNCHANGED thread
      BY <2>2
    <2>9. ~thread' /\ thread' \in BOOLEAN
      BY <1>1, <2>1, <2>8 DEF LockTypes
    <2>10. QueueInv'
      BY <1>1, <2>1, <2>8, <2>9, ConvLeaves DEF IInv
    <2>11. LockTypes'
      BY <1>1, <2>1, <2>6, <2>9, LeaveTypes DEF LockTypes
    <2> QED BY <2>7, <2>10, <2>11, InvNext
  <1> QED BY <1>2, <1>3, <1>4, <1>5, <1>6 DEF ConfigureStep

LEMMA ResizeKeeps ==
    ASSUME IInv, ResizeStep
    PROVE  IInv'
  <1>1. LockTypes /\ QueueInv /\ DataInv /\ SizeTypes /\ TeamFits /\ TypeOK
    BY InvParts DEF IInv
  <1>2. ASSUME NEW k \in Calls, ResizeQueues(k)
        PROVE  IInv'
    <2>1. /\ Waits(k, "resize", None) /\ botQ' = Append(botQ, k)
          /\ UNCHANGED <<stored, where, children, runs, control, status, work,
                         capacity, target, convQ, thread>>
      BY <1>2 DEF ResizeQueues
    <2>2. [op |-> "resize", id |-> None] \in Request
      BY DEF Request
    <2>3. UNCHANGED <<thread, target>> /\ UNCHANGED convQ
      BY <2>1
    <2>4. LockTypes'
      BY <1>1, <2>1, <2>2, <2>3, JoinTypes DEF LockTypes
    <2>5. QueueInv'
      BY <1>1, <2>1, <2>2, <2>3, BotJoins
    <2>6. DataInv' /\ SizeTypes' /\ TeamFits'
      BY <1>1, <2>1, DataKept, SizeKept DEF stored, runs
    <2> QED BY <2>4, <2>5, <2>6, InvNext
  <1>3. ASSUME NEW k \in Calls, ResizeChecks(k)
        PROVE  IInv'
    <2>1. PICK n \in 1..Cardinality(Slots) : ~Blocked(n) /\ target' = n
      BY <1>3 DEF ResizeChecks
    <2>2. /\ First(botQ, k) /\ call[k].op = "resize"
          /\ UNCHANGED <<revision, team, where, children, run, table, alias, control,
                         status, work>>
          /\ UNCHANGED <<capacity, call, botQ, convQ>> /\ UNCHANGED thread
      BY <1>3 DEF ResizeChecks, Resizes, stored, runs
    <2>3. DataInv'
      BY <1>1, <2>2, DataKept
    <2>4. SizeTypes' /\ LockTypes'
      BY <1>1, <2>1, <2>2, SlotCount DEF SizeTypes, LockTypes
    <2>5. capacity \in Nat /\ n \in Nat /\ \A s \in Slots : Position[s] \in Nat
      BY <1>1, SlotCount, TeamConstantsAssumption DEF SizeTypes
    <2>6. TeamFits'
      BY <1>1, <2>1, <2>2, <2>5 DEF TeamFits, Assigned, Blocked
    <2>7. botQ # <<>> /\ call[botQ[1]].op = "resize"
      BY <2>2 DEF First
    <2>8. QueueInv'
      BY <1>1, <2>2, <2>7 DEF QueueInv
    <2> QED BY <2>3, <2>4, <2>6, <2>8, InvNext
  <1>4. ASSUME NEW k \in Calls, ResizeEnds(k)
        PROVE  IInv'
    <2>1. /\ First(botQ, k) /\ call[k] # NoCall /\ call[k].op = "resize"
          /\ capacity' = (IF target = 0 THEN capacity ELSE target) /\ target' = 0
          /\ botQ' = Tail(botQ) /\ call' = [call EXCEPT ![k] = NoCall]
          /\ UNCHANGED <<revision, team, where, children, run, table, alias, control,
                         status, work>>
          /\ UNCHANGED convQ /\ UNCHANGED thread
      BY <1>4 DEF ResizeEnds, Resizes, stored, runs
    <2>2. DataInv'
      BY <1>1, <2>1, DataKept
    <2>3. SizeTypes' /\ TeamFits'
      BY <1>1, <2>1, SlotCount DEF SizeTypes, TeamFits, Assigned
    <2>4. \A i \in 1..Len(convQ) : convQ[i] # k
      BY <1>1, <2>1 DEF QueueInv
    <2>5. QueueInv'
      BY <1>1, <2>1, <2>4, BotLeaves
    <2>6. LockTypes'
      BY <1>1, <2>1, LeaveTypes DEF LockTypes
    <2> QED BY <2>2, <2>3, <2>5, <2>6, InvNext
  <1> QED BY <1>2, <1>3, <1>4 DEF ResizeStep

LEMMA TurnData ==
    ASSUME IInv, TurnStarts,
           UNCHANGED <<revision, team, where, children, control, status, work>>
    PROVE  DataInv'
  <1>1. TypeOK /\ RunsInv /\ WorkInv /\ ChildInv /\ DataTypes
    BY InvParts DEF IInv, DataInv
  <1>2. RunTypes' /\ RunsInv' /\ WorkInv'
    BY <1>1, EnsureCurrent DEF TurnStarts
  <1>3. DataTypes' /\ ChildInv'
    BY <1>1, <1>2 DEF DataTypes, ChildInv, RoleOwnsConversation
  <1> QED BY <1>2, <1>3 DEF DataInv

\* What a conversation operation does in its thread.
LEMMA ChangeData ==
    ASSUME IInv, Left \/ Removed \/ Selected \/ NothingDone,
           UNCHANGED <<revision, team, table, alias, control, status, work,
                       capacity, target>>
    PROVE  DataInv' /\ SizeTypes' /\ TeamFits'
  <1>1. /\ TypeOK /\ DataInv /\ DataTypes /\ RunTypes /\ RunsInv /\ WorkInv /\ ChildInv
        /\ SizeTypes /\ TeamFits
    BY InvParts DEF IInv, DataInv, DataTypes
  <1>2. WorkInv' /\ SizeTypes'
    BY <1>1 DEF WorkInv, SizeTypes
  <1>3. TeamFits'
    BY <1>1 DEF TeamFits, Assigned, Left, Removed, Selected, NothingDone
  <1>4. ChildInv' /\ children' \subseteq Child /\ where' \in {"here", "away", "gone"}
    BY <1>1 DEF ChildInv, RoleOwnsConversation, DataTypes, Left, Removed, Selected, NothingDone
  <1>5. \/ UNCHANGED run
        \/ /\ table[revision] \in Revisions
           /\ run' = [run EXCEPT ![table[revision]].finished = TRUE]
    <2>1. CASE Removed
      <3>1. GetRun(revision) = table[revision] /\ revision \in Revisions
        BY <1>1, RevisionResolves DEF GetRun, TypeOK
      <3>2. table[revision] \in Revisions \cup {None}
        BY <3>1, <1>1 DEF RunTypes
      <3> QED BY <2>1, <3>1, <3>2 DEF Removed, Retired
    <2>2. CASE Left \/ Selected \/ NothingDone
      BY <2>2 DEF Left, Selected, NothingDone
    <2> QED BY <2>1, <2>2
  <1>6. /\ run' \in [Revisions -> RunObject \cup {None}]
        /\ \A id \in Revisions : table[id] # None =>
             /\ run'[table[id]] \in RunObject
             /\ run'[table[id]].id = id /\ run'[table[id]].rev = id
             /\ run'[table[id]].team = run[table[id]].team
    <2>1. CASE UNCHANGED run
      BY <2>1, <1>1 DEF RunTypes, RunsInv
    <2>2. CASE /\ table[revision] \in Revisions
               /\ run' = [run EXCEPT ![table[revision]].finished = TRUE]
      <3>1. revision \in Revisions /\ table[revision] # None
        BY <2>2, <1>1, TeamConstantsAssumption DEF TypeOK, Revisions
      <3>2. run[table[revision]] \in RunObject /\ run \in [Revisions -> RunObject \cup {None}]
        BY <3>1, <1>1 DEF RunsInv, RunTypes
      <3>3. /\ run' \in [Revisions -> RunObject \cup {None}]
            /\ run'[table[revision]] \in RunObject
            /\ run'[table[revision]].id = run[table[revision]].id
            /\ run'[table[revision]].rev = run[table[revision]].rev
            /\ run'[table[revision]].team = run[table[revision]].team
            /\ \A o \in Revisions \ {table[revision]} : run'[o] = run[o]
        BY <2>2, <3>2 DEF RunObject
      <3>4. ASSUME NEW id \in Revisions, table[id] # None
            PROVE  /\ run'[table[id]] \in RunObject
                   /\ run'[table[id]].id = id /\ run'[table[id]].rev = id
                   /\ run'[table[id]].team = run[table[id]].team
        <4>1. table[id] \in Revisions /\ run[table[id]] \in RunObject
              /\ run[table[id]].id = id /\ run[table[id]].rev = id
          BY <3>4, <1>1 DEF RunsInv, RunTypes
        <4>2. CASE table[id] = table[revision]
          BY <4>1, <4>2, <3>3
        <4>3. CASE table[id] # table[revision]
          BY <4>1, <4>3, <3>3
        <4> QED BY <4>2, <4>3
      <3> QED BY <3>3, <3>4
    <2> QED BY <1>5, <2>1, <2>2
  <1>7. RunsInv'
    BY <1>1, <1>6 DEF RunsInv
  <1>8. DataTypes'
    BY <1>1, <1>4, <1>6 DEF DataTypes, RunTypes
  <1> QED BY <1>2, <1>3, <1>4, <1>7, <1>8 DEF DataInv

LEMMA ConversationKeeps ==
    ASSUME IInv, ConversationStep
    PROVE  IInv'
  <1>1. LockTypes /\ QueueInv /\ DataInv /\ SizeTypes /\ TeamFits /\ TypeOK
    BY InvParts DEF IInv
  <1>2. CASE Turn
    <2>1. TurnStarts /\ UNCHANGED <<stored, where, children, control, status, work,
                                    capacity, target, locks>>
      BY <1>2 DEF Turn
    <2>2. DataInv' /\ SizeTypes' /\ TeamFits'
      BY <1>1, <2>1, TurnData, SizeKept DEF stored
    <2>3. LockTypes' /\ QueueInv'
      BY <1>1, <2>1, LocksKept DEF locks
    <2> QED BY <2>2, <2>3, InvNext
  <1>3. ASSUME NEW k \in Calls, TurnQueues(k)
        PROVE  IInv'
    <2>1. /\ Waits(k, "turn", None) /\ convQ' = Append(convQ, k)
          /\ UNCHANGED <<revision, team, where, children, run, table, alias, control,
                         status, work, capacity, target, botQ, thread>>
      BY <1>3 DEF TurnQueues, QueuesForConv, stored, runs
    <2>2. [op |-> "turn", id |-> None] \in Request
      BY DEF Request
    <2> QED BY <2>1, <2>2, ConvStep
  <1>4. ASSUME NEW k \in Calls, TurnResumes(k)
        PROVE  IInv'
    <2>1. /\ First(convQ, k) /\ call[k] # NoCall /\ call[k].op = "turn"
          /\ convQ' = Tail(convQ) /\ call' = [call EXCEPT ![k] = NoCall] /\ ~thread
      BY <1>4 DEF TurnResumes, ConvTurn
    <2>2. /\ TurnStarts \/ UNCHANGED runs
          /\ UNCHANGED <<stored, where, children, control, status, work, capacity,
                         target, botQ, thread>>
      BY <1>4 DEF TurnResumes
    <2>3. DataInv' /\ SizeTypes' /\ TeamFits'
      BY <1>1, <2>2, TurnData, DataKept, SizeKept DEF stored, runs
    <2>4. UNCHANGED <<botQ, target>> /\ UNCHANGED thread
      BY <2>2
    <2>5. ~thread' /\ thread' \in BOOLEAN
      BY <1>1, <2>1, <2>4 DEF LockTypes
    <2>6. LockTypes' /\ QueueInv'
      BY <2>1, <2>4, <2>5, ConvServed
    <2> QED BY <2>3, <2>6, InvNext
  <1>5. ASSUME NEW k \in Calls, ChangeQueues(k)
        PROVE  IInv'
    <2>1. /\ Waits(k, "change", None) /\ convQ' = Append(convQ, k)
          /\ UNCHANGED <<revision, team, where, children, run, table, alias, control,
                         status, work, capacity, target, botQ, thread>>
      BY <1>5 DEF ChangeQueues, stored, runs
    <2>2. [op |-> "change", id |-> None] \in Request
      BY DEF Request
    <2> QED BY <2>1, <2>2, ConvStep
  <1>6. ASSUME NEW k \in Calls, ChangeBegins(k)
        PROVE  IInv'
    <2>1. /\ First(convQ, k) /\ call[k].op = "change" /\ thread' = TRUE
      BY <1>6 DEF ChangeBegins
    <2>2. UNCHANGED <<stored, where, children, runs, control, status, work,
                      capacity, target, call, botQ, convQ>>
      BY <1>6 DEF ChangeBegins
    <2>3. DataInv' /\ SizeTypes' /\ TeamFits'
      BY <1>1, <2>2, DataKept, SizeKept DEF stored, runs
    <2>4. convQ # <<>> /\ call[convQ[1]].op = "change"
      BY <2>1 DEF First
    <2>5. UNCHANGED <<call, botQ, convQ, target>>
      BY <2>2
    <2>6. LockTypes' /\ QueueInv'
      BY <1>1, <2>1, <2>4, <2>5 DEF LockTypes, QueueInv
    <2> QED BY <2>3, <2>6, InvNext
  <1>7. ASSUME NEW k \in Calls, ChangeEnds(k)
        PROVE  IInv'
    <2>1. /\ First(convQ, k) /\ thread /\ thread' = FALSE
          /\ convQ' = Tail(convQ) /\ call' = [call EXCEPT ![k] = NoCall]
      BY <1>7 DEF ChangeEnds
    <2>2. /\ Left \/ Removed \/ Selected \/ NothingDone
          /\ UNCHANGED <<stored, table, alias, control, status, work, capacity, target, botQ>>
      BY <1>7 DEF ChangeEnds
    <2>3. DataInv' /\ SizeTypes' /\ TeamFits'
      BY <2>2, ChangeData DEF stored
    <2>4. Len(convQ) \in Nat \ {0} /\ convQ[1] = k
      BY <1>1, <2>1, TailFacts DEF LockTypes
    <2>5. call[k] # NoCall /\ call[k].op = "change"
      BY <1>1, <2>1, <2>4 DEF QueueInv
    <2>6. LockTypes' /\ QueueInv'
      BY <2>1, <2>2, <2>5, ConvServed
    <2> QED BY <2>3, <2>6, InvNext
  <1> QED BY <1>2, <1>3, <1>4, <1>5, <1>6, <1>7 DEF ConversationStep


\* A task's own steps.
LEMMA TaskKeeps ==
    ASSUME IInv, TaskStep
    PROVE  IInv'
  <1>1. /\ LockTypes /\ QueueInv /\ DataInv /\ SizeTypes /\ TeamFits
        /\ DataTypes /\ RunsInv /\ WorkInv /\ ChildInv
    BY InvParts DEF DataInv
  <1>2. PICK t \in Tasks : TaskStarts(t) \/ TaskEnds(t)
    BY DEF TaskStep
  <1>3. UNCHANGED <<stored, where, runs, work, capacity, target, locks>>
    BY <1>2 DEF TaskStarts, TaskEnds
  <1>4. SizeTypes' /\ TeamFits' /\ LockTypes' /\ QueueInv'
    BY <1>1, <1>3, SizeKept, LocksKept DEF stored, locks
  <1>5. /\ UNCHANGED <<revision, team, where, run, table, alias, work>>
        /\ RunsInv'
    BY <1>1, <1>3 DEF stored, runs, RunsInv
  <1>6. CASE TaskStarts(t)
    <2>1. /\ status[t] \in Pending /\ status' = [status EXCEPT ![t] = "running"]
          /\ UNCHANGED control
      BY <1>6 DEF TaskStarts, Pending
    <2>2. WorkInv'
      BY <1>1, <1>5, <2>1 DEF WorkInv, DataTypes
    <2> DEFINE new == [slot |-> work[t].slot, rev |-> work[t].rev, role |-> work[t].role]
    <2>3. /\ work[t] \in Work
          /\ team[work[t].slot] = [role |-> work[t].role, rev |-> work[t].rev]
      BY <1>1, <2>1 DEF WorkInv
    <2>4. /\ new \in Child /\ team[new.slot] # Free
          /\ team[new.slot].rev = new.rev /\ team[new.slot].role = new.role
          /\ new.rev <= revision
      <3>1. new \in Child /\ new.slot \in Slots
        BY <2>3 DEF Child, Work
      <3>2. team[new.slot] = [role |-> new.role, rev |-> new.rev]
        BY <2>3
      <3>3. team[new.slot] # Free
        BY <3>1, <3>2, TeamConstantsAssumption DEF Child, Revisions
      <3> HIDE DEF new
      <3> QED BY <3>1, <3>2, <3>3, <1>1 DEF ChildInv
    <2>5. \/ UNCHANGED children
          \/ /\ children' = children \cup {new}
             /\ \A c \in children : c.slot # new.slot \/ c.rev # new.rev
      <3>1. CASE \E c \in children : c.slot = work[t].slot /\ c.rev = work[t].rev
        BY <1>6, <3>1 DEF TaskStarts
      <3>2. CASE ~\E c \in children : c.slot = work[t].slot /\ c.rev = work[t].rev
        BY <1>6, <3>2 DEF TaskStarts
      <3> QED BY <3>1, <3>2
    <2> HIDE DEF new
    <2>6. /\ status' \in [Tasks -> {"none", "ended"} \cup Pending]
          /\ children' \subseteq Child
      BY <1>1, <2>1, <2>4, <2>5 DEF DataTypes, Pending
    <2>7. DataTypes'
      BY <1>1, <1>5, <2>1, <2>6 DEF DataTypes, RunTypes
    <2>8. RoleOwnsConversation'
      BY <1>1, <1>5, <2>4, <2>5 DEF ChildInv, RoleOwnsConversation
    <2>9. ChildInv'
      BY <1>1, <1>5, <2>4, <2>5, <2>8 DEF ChildInv
    <2> QED BY <1>4, <1>5, <2>2, <2>7, <2>9, InvNext DEF DataInv
  <1>7. CASE TaskEnds(t)
    <2>1. /\ status' = [status EXCEPT ![t] = "ended"]
          /\ control' = [id \in Revisions |-> control[id] \ {t}]
          /\ UNCHANGED children
      BY <1>7 DEF TaskEnds
    <2>2. DataTypes'
      BY <1>1, <1>5, <2>1 DEF DataTypes, RunTypes
    <2>3. \A u \in Tasks : status'[u] \in Pending => u # t /\ status[u] \in Pending
      BY <1>1, <2>1 DEF DataTypes, Pending
    <2>4. revision \in Revisions
      BY <1>1 DEF DataTypes
    <2>5. WorkInv'
      BY <1>1, <1>5, <2>1, <2>3, <2>4 DEF WorkInv
    <2>6. ChildInv'
      BY <1>1, <1>5, <2>1 DEF ChildInv, RoleOwnsConversation
    <2> QED BY <1>4, <1>5, <2>2, <2>5, <2>6, InvNext DEF DataInv
  <1> QED BY <1>2, <1>6, <1>7

\* A restart forgets the runs and the requests.
LEMMA RestartKeeps ==
    ASSUME IInv, Restart
    PROVE  IInv'
  <1>1. /\ LockTypes /\ QueueInv /\ DataInv /\ SizeTypes /\ TeamFits
        /\ DataTypes /\ RunsInv /\ WorkInv /\ ChildInv
    BY InvParts DEF DataInv
  <1>2. /\ run' = [r \in Revisions |-> None] /\ table' = [r \in Revisions |-> None]
        /\ alias' = [r \in Revisions |-> None] /\ control' = [r \in Revisions |-> {}]
        /\ status' = [t \in Tasks |-> IF status[t] \in Pending THEN "ended" ELSE status[t]]
        /\ UNCHANGED <<revision, team, where, children, work, capacity>>
    BY DEF Restart, stored
  <1>3. /\ call' = [k \in Calls |-> NoCall] /\ botQ' = <<>> /\ convQ' = <<>>
        /\ target' = 0 /\ thread' = FALSE
    BY DEF Restart
  <1>4. LockTypes' /\ QueueInv'
    <2>1. call' \in [Calls -> Request \cup {NoCall}] /\ <<>> \in Seq(Calls) /\ Len(<<>>) = 0
      BY <1>3
    <2>2. thread' \in BOOLEAN /\ ~thread'
      BY <1>3
    <2> QED BY <1>3, <2>1, <2>2 DEF LockTypes, QueueInv
  <1>5. SizeTypes' /\ TeamFits'
    BY <1>1, <1>2, <1>3, SlotCount DEF SizeTypes, TeamFits, Assigned
  <1>6. DataTypes'
    BY <1>1, <1>2 DEF DataTypes, RunTypes, Pending
  <1>7. \A t \in Tasks : status'[t] \notin Pending
    BY <1>1, <1>2 DEF DataTypes, Pending
  <1>8. RunsInv' /\ WorkInv'
    BY <1>1, <1>2, <1>7 DEF RunsInv, WorkInv, DataTypes
  <1>9. ChildInv'
    BY <1>1, <1>2 DEF ChildInv, RoleOwnsConversation
  <1> QED BY <1>4, <1>5, <1>6, <1>8, <1>9, InvNext DEF DataInv

LEMMA InitInv == Init => IInv
  <1> SUFFICES ASSUME Init
               PROVE  IInv
    OBVIOUS
  <1>1. 0 \in Revisions
    BY TeamConstantsAssumption DEF Revisions
  <1>2. NoTeam \in Teams /\ \A s \in Slots : NoTeam[s] = Free
    BY DEF NoTeam, Teams
  <1>3. LockTypes /\ QueueInv
    <2>1. call = [k \in Calls |-> NoCall] /\ botQ = <<>> /\ convQ = <<>> /\ target = 0
      BY DEF Init, NoCalls
    <2>2. call \in [Calls -> Request \cup {NoCall}] /\ <<>> \in Seq(Calls) /\ Len(<<>>) = 0
      BY <2>1
    <2>3. thread \in BOOLEAN /\ ~thread
      BY DEF Init, NoCalls
    <2> QED BY <2>1, <2>2, <2>3 DEF LockTypes, QueueInv
  <1>4. SizeTypes /\ TeamFits
    BY <1>2, SlotCount DEF Init, NoCalls, SizeTypes, TeamFits, Assigned
  <1>5. DataTypes
    BY <1>1, <1>2 DEF Init, NoRuns, DataTypes, RunTypes, Pending
  <1>6. RunsInv /\ WorkInv
    BY <1>1 DEF Init, NoRuns, RunsInv, WorkInv, Pending
  <1>7. ChildInv
    BY <1>2 DEF Init, ChildInv, RoleOwnsConversation
  <1> QED BY <1>3, <1>4, <1>5, <1>6, <1>7, InvParts DEF DataInv

LEMMA StepKeeps == IInv /\ [Next]_vars => IInv'
  <1>1. ASSUME IInv, UNCHANGED vars
        PROVE  IInv'
    <2>1. DataInv' /\ SizeTypes' /\ TeamFits' /\ LockTypes' /\ QueueInv'
      BY <1>1, InvParts, DataKept, SizeKept, LocksKept DEF vars
    <2> QED BY <2>1, InvNext
  <1> QED BY <1>1, AskKeeps, ConfigureKeeps, ResizeKeeps, ConversationKeeps, TaskKeeps,
             RestartKeeps DEF Next

\* The stored team, the table of runs and its aliases, the pending work, the
\* child conversations and the waiting requests stay consistent with each
\* other through every tool call, resize, conversation operation and restart.
THEOREM Inductive == Spec => []IInv
  BY InitInv, StepKeeps, PTL DEF Spec

-----------------------------------------------------------------------------
(* The properties of the runs *)

\* Every variable keeps its type, for any number of slots, roles and requests.
THEOREM Typed == Spec => []TypeOK
  <1>1. IInv => TypeOK
    BY DEF IInv
  <1> QED BY <1>1, Inductive, PTL

\* The run the current run_id leads to has the stored revision and team: what
\* ask_agent checks against the run is what the store holds.
THEOREM RunInStep == Spec => []InStep
  <1>1. IInv => InStep
    <2> SUFFICES ASSUME IInv
                 PROVE  InStep
      OBVIOUS
    <2>1. GetRun(revision) = table[revision] /\ revision \in Revisions
      BY RevisionResolves DEF GetRun, IInv, TypeOK
    <2>2. RunsInv
      BY DEF IInv
    <2> QED BY <2>1, <2>2 DEF InStep, RunsInv
  <1> QED BY <1>1, Inductive, PTL

\* Through extensions, evictions and turns a pending task stays in the run the
\* current run_id leads to, and the run_id it was asked with leads there too.
THEOREM TasksStayReachable == Spec => []TasksReachable
  <1>1. IInv => TasksReachable
    <2> SUFFICES ASSUME IInv, NEW t \in Tasks, status[t] \in Pending
                 PROVE  GetRun(revision) = work[t].run /\ GetRun(work[t].id) = work[t].run
      BY DEF TasksReachable
    <2>1. /\ TypeOK /\ WorkInv /\ RunsInv /\ revision \in Revisions
          /\ alias \in [Revisions -> Revisions \cup {None}] /\ None \notin Revisions
      BY TeamConstantsAssumption DEF IInv, TypeOK, Revisions
    <2>2. /\ work[t] \in Work /\ table[revision] = work[t].run
          /\ work[t].id = revision \/ alias[work[t].id] = revision
      BY <2>1 DEF WorkInv
    <2>3. GetRun(revision) = table[revision]
      BY RevisionResolves DEF GetRun
    <2>4. CASE work[t].id = revision
      BY <2>2, <2>3, <2>4
    <2>5. CASE alias[work[t].id] = revision
      <3>1. work[t].id \in Revisions
        BY <2>2 DEF Work
      <3>2. table[work[t].id] = None
        BY <2>1, <2>5, <3>1 DEF RunsInv
      <3>3. Resolve(work[t].id) = revision
        BY <2>1, <2>5, <3>2 DEF Resolve, ResolveIn
      <3> QED BY <2>2, <2>3, <3>3 DEF GetRun
    <2> QED BY <2>2, <2>3, <2>4, <2>5
  <1> QED BY <1>1, Inductive, PTL

\* A stop through the current run_id finds the control with the coroutine of
\* every pending task, whatever the run was called when the task was asked for.
THEOREM ControlIsFound == Spec => []ControlFollows
  <1>1. IInv => ControlFollows
    BY RevisionResolves DEF IInv, WorkInv, ControlFollows
  <1> QED BY <1>1, Inductive, PTL

\* No configure, resize or conversation operation takes a slot's role away
\* while a task is pending on it.
THEOREM RoleKept == Spec => []PendingKeepsRole
  <1>1. IInv => PendingKeepsRole
    BY DEF IInv, WorkInv, PendingKeepsRole
  <1> QED BY <1>1, Inductive, PTL

\* A slot and an assignment revision never name two roles, so that no role
\* continues the child conversation of another.
THEOREM ConversationOwned == Spec => []RoleOwnsConversation
  <1>1. IInv => RoleOwnsConversation
    BY DEF IInv, ChildInv
  <1> QED BY <1>1, Inductive, PTL

\* A resize that was checked while a configure waited, or the other way round,
\* leaves every assigned slot inside the cluster.
THEOREM TeamAlwaysFits == Spec => []TeamFits
  <1>1. IInv => TeamFits
    BY DEF IInv
  <1> QED BY <1>1, Inductive, PTL

-----------------------------------------------------------------------------
(* The register *)

LEMMA RegisterSame ==
    ASSUME UNCHANGED <<revision, team, status, work>>
    PROVE  UNCHANGED Register!vars
  BY DEF Register!vars, PendingWork

\* Asking: the task gets the role the stored team gives the slot.
LEMMA DelegatedIsDelegate ==
    ASSUME IInv, NEW op, NEW id \in Revisions, Current(id), Served(op, id),
           UNCHANGED <<revision, team>>
    PROVE  Register!Delegate \/ UNCHANGED Register!vars
  <1>1. CASE NewSession(id)
    BY <1>1, RegisterSame DEF NewSession
  <1>2. CASE Delegated(id)
    <2>1. GetRun(id) = table[revision] /\ run[table[revision]].team = team
      BY CurrentId DEF Current
    <2>2. PICK t \in Tasks, s \in Slots :
            /\ status[t] = "none" /\ team[s] # Free
            /\ status' = [status EXCEPT ![t] = "queued"]
            /\ work' = [work EXCEPT ![t] =
                  [id |-> id, run |-> table[revision], slot |-> s,
                   role |-> team[s].role, rev |-> team[s].rev]]
      BY <1>2, <2>1 DEF Delegated
    <2>3. /\ status \in [Tasks -> {"none", "ended"} \cup Pending]
          /\ work \in [Tasks -> Work \cup {NoWork}]
      BY DEF IInv, TypeOK
    <2>4. /\ status'[t] \in Pending /\ status[t] \notin Pending
          /\ work'[t].slot = s /\ work'[t].role = team[s].role
          /\ work'[t].rev = team[s].rev
          /\ \A u \in Tasks \ {t} : status'[u] = status[u] /\ work'[u] = work[u]
      BY <2>2, <2>3 DEF Pending
    <2>5. \A w \in PendingWork : w.task # t
      BY <2>4 DEF PendingWork
    <2>6. PendingWork' = PendingWork \cup
            {[task |-> t, slot |-> s, role |-> team[s].role, rev |-> team[s].rev]}
      BY <2>4 DEF PendingWork
    <2> QED BY <2>2, <2>5, <2>6 DEF Register!Delegate
  <1> QED BY <1>1, <1>2 DEF Served

\* Configuring: an extension, a replacement while nobody works, or nothing.
LEMMA ConfiguredIsExtendOrReplace ==
    ASSUME IInv, NEW id \in Revisions, Configured(id), target = 0,
           UNCHANGED <<where, children, status, work, capacity, target>>
    PROVE  Register!Extend \/ Register!Replace \/ UNCHANGED Register!vars
  <1>1. /\ team' \in Teams
        /\ \/ UNCHANGED <<revision, team>>
           \/ /\ revision' = revision + 1
              /\ \/ \A s \in Slots :
                      /\ team[s] # Free => team'[s] = team[s]
                      /\ team[s] = Free /\ team'[s] # Free => team'[s].rev = revision'
                 \/ ~HasPending /\ \A s \in Slots :
                      team'[s] = Free \/ team'[s] = team[s] \/ team'[s].rev = revision'
    BY ConfiguredKeeps
  <1>2. Assignment \subseteq Register!Assignment
    BY DEF Assignment, Register!Assignment, Revisions
  <1>3. team' \in [Slots -> Register!Assignment \cup {Free}]
    BY <1>1, <1>2 DEF Teams
  <1>4. PendingWork' = PendingWork
    BY DEF PendingWork
  <1>5. CASE UNCHANGED <<revision, team>>
    BY <1>4, <1>5 DEF Register!vars
  <1>6. CASE /\ revision' = revision + 1
             /\ \A s \in Slots :
                  /\ team[s] # Free => team'[s] = team[s]
                  /\ team[s] = Free /\ team'[s] # Free => team'[s].rev = revision'
    BY <1>3, <1>4, <1>6 DEF Register!Extend
  <1>7. CASE /\ revision' = revision + 1 /\ ~HasPending
             /\ \A s \in Slots :
                  team'[s] = Free \/ team'[s] = team[s] \/ team'[s].rev = revision'
    <2>1. PendingWork = {}
      BY <1>7 DEF PendingWork, HasPending
    <2> QED BY <1>3, <1>4, <1>7, <2>1 DEF Register!Replace
  <1> QED BY <1>1, <1>5, <1>6, <1>7

LEMMA ConfigureImplements ==
    ASSUME IInv, ConfigureStep
    PROVE  Register!Extend \/ Register!Replace \/ UNCHANGED Register!vars
  <1>1. LockTypes /\ QueueInv
    BY InvParts
  <1>2. ASSUME NEW id \in Revisions, Configure(id)
        PROVE  Register!Extend \/ Register!Replace \/ UNCHANGED Register!vars
    <2>1. target = 0
      BY <1>1, <1>2, NobodyResizes DEF Configure, BotFree
    <2> QED BY <1>2, <2>1, ConfiguredIsExtendOrReplace DEF Configure
  <1>3. ASSUME NEW k \in Calls, NEW id \in Revisions, ConfigureQueues(k, id)
        PROVE  UNCHANGED Register!vars
    BY <1>3, RegisterSame DEF ConfigureQueues, stored
  <1>4. ASSUME NEW k \in Calls, ConfigureMovesOn(k)
        PROVE  UNCHANGED Register!vars
    BY <1>4, RegisterSame DEF ConfigureMovesOn, stored
  <1>5. ASSUME NEW k \in Calls, ConfigureGoesOn(k) \/ ConfigureResumes(k)
        PROVE  Register!Extend \/ Register!Replace \/ UNCHANGED Register!vars
    <2>1. /\ UNCHANGED <<stored, runs, control>> \/ Configured(call[k].id)
          /\ UNCHANGED <<where, children, status, work, capacity, target, thread>>
          /\ First(botQ, k) \/ First(convQ, k)
          /\ call[k] # NoCall /\ call[k].op = "configure"
      BY <1>5 DEF ConfigureGoesOn, ConfigureResumes, HasBot, ConvTurn
    <2>2. call[k].id \in Revisions
      BY <1>1, <2>1, LeaveTypes
    <2>3. botQ # <<>> /\ botQ[1] = k
      <3>1. CASE First(botQ, k)
        BY <3>1 DEF First
      <3>2. CASE First(convQ, k)
        <4>1. Len(convQ) \in Nat \ {0} /\ convQ[1] = k
          BY <1>1, <3>2, TailFacts DEF LockTypes
        <4> QED BY <1>1, <2>1, <4>1 DEF QueueInv
      <3> QED BY <2>1, <3>1, <3>2
    <2>4. target = 0
      BY <1>1, <2>1, <2>3, NobodyResizes
    <2>5. CASE UNCHANGED <<stored, runs, control>>
      BY <2>1, <2>5, RegisterSame DEF stored
    <2>6. CASE Configured(call[k].id)
      BY <2>1, <2>2, <2>4, <2>6, ConfiguredIsExtendOrReplace
    <2> QED BY <2>1, <2>5, <2>6
  <1> QED BY <1>2, <1>3, <1>4, <1>5 DEF ConfigureStep

LEMMA AskImplements ==
    ASSUME IInv, AskStep
    PROVE  Register!Delegate \/ UNCHANGED Register!vars
  <1>1. PICK op \in {"ask", "session"} :
          \/ \E id \in Revisions : Ask(op, id)
          \/ \E k \in Calls, id \in Revisions : AskQueues(k, op, id)
          \/ \E k \in Calls : AskResumes(k, op)
    BY DEF AskStep
  <1>2. ASSUME NEW id \in Revisions, Ask(op, id)
        PROVE  Register!Delegate \/ UNCHANGED Register!vars
    BY <1>2, DelegatedIsDelegate DEF Ask, stored
  <1>3. ASSUME NEW k \in Calls, NEW id \in Revisions, AskQueues(k, op, id)
        PROVE  UNCHANGED Register!vars
    BY <1>3, RegisterSame DEF AskQueues, QueuesForConv, stored
  <1>4. ASSUME NEW k \in Calls, AskResumes(k, op)
        PROVE  Register!Delegate \/ UNCHANGED Register!vars
    <2>1. /\ Refused \/ (Current(call[k].id) /\ Served(op, call[k].id))
          /\ UNCHANGED stored
          /\ call[k] # NoCall /\ call[k].op = op
      BY <1>4 DEF AskResumes, ConvTurn
    <2>2. call[k].id \in Revisions
      BY <1>1, <2>1, InvParts, LeaveTypes
    <2> QED BY <2>1, <2>2, DelegatedIsDelegate, RegisterSame DEF Refused, stored
  <1> QED BY <1>1, <1>2, <1>3, <1>4

LEMMA TaskImplements ==
    ASSUME IInv, TaskStep
    PROVE  Register!Finish
  <1>1. PICK t \in Tasks : TaskStarts(t) \/ TaskEnds(t)
    BY DEF TaskStep
  <1>2. /\ status[t] \in Pending
        /\ \E st \in {"running", "ended"} : status' = [status EXCEPT ![t] = st]
        /\ UNCHANGED <<revision, team, work>>
    BY <1>1 DEF TaskStarts, TaskEnds, stored, Pending
  <1>3. status \in [Tasks -> {"none", "ended"} \cup Pending]
    BY DEF IInv, TypeOK
  <1>4. \A u \in Tasks : status'[u] \in Pending => status[u] \in Pending
    BY <1>2, <1>3
  <1>5. PendingWork' \subseteq PendingWork
    BY <1>2, <1>4 DEF PendingWork
  <1> QED BY <1>2, <1>5 DEF Register!Finish

LEMMA RestartImplements ==
    ASSUME IInv, Restart
    PROVE  Register!Finish
  <1>1. /\ status' = [t \in Tasks |-> IF status[t] \in Pending THEN "ended" ELSE status[t]]
        /\ UNCHANGED <<revision, team, work>>
    BY DEF Restart, stored
  <1>2. \A u \in Tasks : status'[u] \notin Pending
    BY <1>1 DEF Pending
  <1>3. PendingWork' = {}
    BY <1>2 DEF PendingWork
  <1> QED BY <1>1, <1>3 DEF Register!Finish

\* Whatever the run_ids, the locks and the restarts do, the stored team and the
\* pending work behave as the versioned register: roles change one version at
\* a time, and a slot changes hands only when nobody works.
THEOREM Implements == Spec => ImplementsRegister
  <1>1. Init => Register!Init
    <2> SUFFICES ASSUME Init
                 PROVE  Register!Init
      OBVIOUS
    <2>1. PendingWork = {}
      BY DEF Init, PendingWork, Pending
    <2>2. revision \in Nat /\ team \in [Slots -> Register!Assignment \cup {Free}]
      BY DEF Init, NoTeam
    <2> QED BY <2>1, <2>2 DEF Register!Init
  <1>2. IInv /\ [Next]_vars => [Register!Next]_(Register!vars)
    <2> SUFFICES ASSUME IInv, [Next]_vars
                 PROVE  [Register!Next]_(Register!vars)
      OBVIOUS
    <2>1. CASE UNCHANGED vars
      BY <2>1, RegisterSame DEF vars
    <2>2. CASE AskStep
      BY <2>2, AskImplements DEF Register!Next
    <2>3. CASE ConfigureStep
      BY <2>3, ConfigureImplements DEF Register!Next
    <2>4. CASE ResizeStep
      BY <2>4, RegisterSame DEF ResizeStep, ResizeQueues, ResizeChecks, ResizeEnds, Resizes,
                                stored
    <2>5. CASE ConversationStep
      BY <2>5, RegisterSame DEF ConversationStep, Turn, TurnQueues, QueuesForConv, TurnResumes,
                                ChangeQueues, ChangeBegins, ChangeEnds, stored
    <2>6. CASE TaskStep
      BY <2>6, TaskImplements DEF Register!Next
    <2>7. CASE Restart
      BY <2>7, RestartImplements DEF Register!Next
    <2> QED BY <2>1, <2>2, <2>3, <2>4, <2>5, <2>6, <2>7 DEF Next
  <1> QED BY <1>1, <1>2, Inductive, PTL DEF Spec, ImplementsRegister, Register!Spec

=============================================================================
