------------------------------ MODULE EntityProofs ------------------------------
(***************************************************************************)
(* What sensors, switches, numbers and selects show, and, in the second    *)
(* half, what NEFIT circuits and zones show and do, for every set of       *)
(* tasks, entities, circuits, resources, programs and values.              *)
(***************************************************************************)
EXTENDS EntityProperties, OverrideProperties, QueueProofs, TLAPS

\* The records of the model have their types.
LEMMA RecordTypes ==
  /\ NoAsk \in AskTypes /\ NoReply \in ReplyTypes /\ NoJob \in JobTypes /\ Raised \in JobTypes
  /\ \A k \in Keys : Get(k) \in AskTypes /\ Domain[k] \subseteq AllValues
  /\ \A k \in Keys, v \in AllValues : Put(k, v) \in AskTypes
  /\ \A e \in Entities : KeyOf[e] \in Keys
  /\ NoWish \in Wishes /\ \A t \in Tasks, v \in AllValues : [by |-> t, val |-> v] \in Wishes
<1>1. NoAsk \in AskTypes /\ NoReply \in ReplyTypes
  BY DEF NoAsk, NoReply, AskTypes, ReplyTypes
<1>2. NoJob \in JobTypes /\ Raised \in JobTypes
  BY DEF NoJob, Raised, JobTypes
<1>3. \A k \in Keys : Get(k) \in AskTypes /\ Domain[k] \subseteq AllValues
  BY DEF Get, NoAsk, AskTypes, AllValues
<1>4. \A k \in Keys, v \in AllValues : Put(k, v) \in AskTypes
  BY DEF Put, AskTypes
<1>5. \A e \in Entities : KeyOf[e] \in Keys
  BY EntityAssumption
<1>6. NoWish \in Wishes /\ \A t \in Tasks, v \in AllValues : [by |-> t, val |-> v] \in Wishes
  BY DEF NoWish, Wishes
<1> QED BY <1>1, <1>2, <1>3, <1>4, <1>5, <1>6

\* A task that is in no call fits every request.
LEMMA IdleFits == \A r : JobFits(NoJob, r) /\ JobFits(Raised, r)
BY DEF JobFits, NoJob, Raised

\* A call fits the request it makes, and is none of the idle jobs.
LEMMA CallFits ==
  ASSUME NEW e \in Entities
  PROVE  LET u == [kind |-> "update", of |-> e]
             c == [kind |-> "command", of |-> e]
         IN /\ u \in JobTypes \ {NoJob, Raised} /\ JobFits(u, Get(KeyOf[e]))
            /\ c \in JobTypes \ {NoJob, Raised}
            /\ \A v \in Domain[KeyOf[e]] : Settable(e) => JobFits(c, Put(KeyOf[e], v))
<1> DEFINE u == [kind |-> "update", of |-> e]
           c == [kind |-> "command", of |-> e]
<1>1. u.kind = "update" /\ u.of = e /\ c.kind = "command" /\ c.of = e
  OBVIOUS
<1>2. u \in JobTypes /\ c \in JobTypes
  BY DEF JobTypes
<1> HIDE DEF u, c
<1>3. u \notin {NoJob, Raised} /\ c \notin {NoJob, Raised}
  BY <1>1 DEF NoJob, Raised
<1>4. JobFits(u, Get(KeyOf[e]))
  BY <1>1 DEF JobFits, Get, NoAsk
<1>5. \A v \in Domain[KeyOf[e]] : Settable(e) => JobFits(c, Put(KeyOf[e], v))
  BY <1>1 DEF JobFits, Put
<1> QED BY <1>2, <1>3, <1>4, <1>5 DEF u, c

\* What is read can be shown; of what can be commanded it is the value itself.
LEMMA Readings ==
  ASSUME TypeOK, NEW e \in Entities, NEW v \in AllValues
  PROVE  Reading(e, v) \in Shows /\ (Settable(e) => Reading(e, v) = v)
<1>1. Message(v) \in Shows /\ Title(v) \in Shows /\ "No notifications" \in Shows /\ v \in Shows
  BY DEF Shows, Messages
<1>2. Settable(e) => class[e] \notin Notifications
  BY DEF Settable, Settables, Notifications
<1>3. Reading(e, v) \in {v, Message(v), Title(v), "No notifications"}
  BY DEF Reading
<1>4. class[e] \notin Notifications => Reading(e, v) = v
  BY DEF Reading, Notifications
<1> QED BY <1>1, <1>2, <1>3, <1>4

\* What a task that starts a request leaves behind.
LEMMA Calling ==
  ASSUME CacheInv, NEW t \in Tasks, NEW r \in AskTypes, NEW j \in JobTypes \ {NoJob, Raised},
         Idle(t), JobFits(j, r), Ask(t, r), Become(t, j),
         UNCHANGED <<class, shown, good>>, wanted' \in [Entities -> Wishes]
  PROVE  CacheInv'
<1> USE DEF CacheInv, Ask, Become
<1>1. queue \in Seq(Tasks) /\ Once(queue) /\ \A i \in 1..Len(queue) : queue[i] # t
  BY DEF TypeOK, ConnectorTypes, QueueUse
<1>2. queue' \in Seq(Tasks) /\ Once(queue') /\ (queue # << >> => Head(queue') = Head(queue))
  BY <1>1, Joins
<1>3. TypeOK'
  BY <1>2 DEF TypeOK, ConnectorTypes
<1>4. QueueUse'
  <2>1. \A i \in 1..Len(queue') : queue'[i] = IF i <= Len(queue) THEN queue[i] ELSE t
    BY <1>1
  <2>2. \A i \in 1..Len(queue) : job[queue[i]] \notin {NoJob, Raised}
    BY DEF QueueUse, Idle
  <2>3. job'[t] = j /\ \A u \in Tasks \ {t} : job'[u] = job[u]
    BY DEF TypeOK
  <2>4. \A i \in 1..Len(queue') : job'[queue'[i]] \notin {NoJob, Raised}
    BY <1>1, <1>2, <2>1, <2>2, <2>3
  <2> QED BY <1>2, <2>4 DEF QueueUse, Idle
<1>5. JobUse'
  BY DEF JobUse, JobFits, Settable, TypeOK, ConnectorTypes
<1>6. ReplyUse' /\ (\A k \in Keys : Arriving(k) <=> Arriving(k)')
  <2>1. CASE queue = << >>
    <3> reply = NoReply
      BY <2>1 DEF ReplyUse
    <3> QED BY <2>1, <1>2 DEF ReplyUse, NoReply, Arriving
  <2>2. CASE queue # << >>
    <3>1. Head(queue) # t /\ Head(queue) \in Tasks
      BY <1>1, <2>2
    <3>2. queue' # << >> /\ OnWire' = OnWire
      BY <1>1, <1>2, <2>2, <3>1 DEF OnWire, TypeOK, ConnectorTypes
    <3> QED BY <2>2, <3>2 DEF ReplyUse, Arriving, OnWire
  <2> QED BY <2>1, <2>2
<1>7. ShownKnown'
  BY <1>6, RecordTypes DEF ShownKnown, MayShow, Reading, TellsUnknown
<1> QED BY <1>3, <1>4, <1>5, <1>6, <1>7

\* What a task whose call returns leaves behind.
LEMMA Returning ==
  ASSUME CacheInv, NEW t \in Tasks, NEW how \in {NoJob, Raised}, Returned(t), Return(t, how),
         shown' \in [Entities -> Shows], good' \in [Entities -> BOOLEAN],
         wanted' \in [Entities -> Wishes],
         \A e \in Entities : KeyOf[e] \in stale \/ MayShow(e, shown'[e])
  PROVE  CacheInv'
<1> USE DEF CacheInv, Return, Leave, Become, Returned
<1>1. queue \in Seq(Tasks) /\ Once(queue) /\ queue # << >> /\ Head(queue) = t
  BY DEF TypeOK, ConnectorTypes, QueueUse
<1>2. /\ ask' = [ask EXCEPT ![t] = NoAsk] /\ reply' = NoReply /\ queue' = Tail(queue)
      /\ UNCHANGED <<dev, stale, changes, class>>
  OBVIOUS
<1>3. job'[t] = how /\ \A u \in Tasks \ {t} : job'[u] = job[u]
  BY DEF TypeOK
<1>4. QueueUse' /\ queue' \in Seq(Tasks)
  <2>1. /\ queue' \in Seq(Tasks) /\ Once(queue')
        /\ \A i \in 1..Len(queue') : queue'[i] = queue[i + 1] /\ queue'[i] # t
    BY <1>1, <1>2, Leaves
  <2>2. \A i \in 1..Len(queue') : i + 1 \in 1..Len(queue)
    BY <1>1, <1>2
  <2>3. \A i \in 1..Len(queue') : job'[queue'[i]] \notin {NoJob, Raised}
    BY <1>1, <1>3, <2>1, <2>2 DEF QueueUse, Idle
  <2> QED BY <2>1, <2>3 DEF QueueUse, Idle
<1>5. TypeOK'
  BY <1>2, <1>4, RecordTypes DEF TypeOK, ConnectorTypes
<1>6. JobUse'
  BY <1>2, IdleFits DEF JobUse, JobFits, Settable, TypeOK, ConnectorTypes
<1>7. ReplyUse'
  BY <1>2 DEF ReplyUse, NoReply
<1>8. ShownKnown'
  BY <1>2 DEF ShownKnown, MayShow, Reading, TellsUnknown
<1> QED BY <1>4, <1>5, <1>6, <1>7, <1>8

\* An answer that arrived is what the device holds, unless the key is stale;
\* the entities that did not wait for it show what they may show.
LEMMA Answered ==
  ASSUME CacheInv, NEW t \in Tasks, Returned(t), job[t].kind \in {"update", "command"}
  PROVE  LET e == job[t].of IN
         /\ e \in Entities /\ ask[t] = OnWire /\ ask[t].key = KeyOf[e] /\ KeyOf[e] \in Keys
         /\ \A d \in Entities \ {e} : KeyOf[d] \in stale \/ MayShow(d, shown[d])
         /\ reply.st # "ok" => KeyOf[e] \in stale \/ MayShow(e, shown[e])
         /\ job[t].kind = "update" /\ reply.st = "ok" =>
              /\ reply.val \in AllValues
              /\ KeyOf[e] \notin stale => dev[KeyOf[e]] = reply.val
         /\ job[t].kind = "command" =>
              /\ Settable(e) /\ ask[t].val \in AllValues
              /\ reply.st = "void" => KeyOf[e] \in stale
              /\ reply.st = "ok" /\ KeyOf[e] \notin stale => dev[KeyOf[e]] = ask[t].val
<1> USE DEF CacheInv, Returned
<1>1. ask[t] = OnWire /\ JobFits(job[t], ask[t])
  BY DEF OnWire, JobUse
<1>2. PICK e \in Entities : /\ e = job[t].of /\ ask[t].key = KeyOf[e] /\ KeyOf[e] \in Keys
                            /\ ask[t].op = IF job[t].kind = "update" THEN "get" ELSE "put"
                            /\ job[t].kind = "command" => Settable(e) /\ ask[t].val \in Domain[KeyOf[e]]
  BY <1>1, RecordTypes DEF JobFits
<1>3. \A d \in Entities : Arriving(KeyOf[d]) <=> reply.st = "ok" /\ d = e
  BY <1>1, <1>2, EntityAssumption DEF Arriving, OnWire
<1>4. \A d \in Entities \ {e} : KeyOf[d] \in stale \/ MayShow(d, shown[d])
  BY <1>3 DEF ShownKnown
<1>5. reply.st # "ok" => KeyOf[e] \in stale \/ MayShow(e, shown[e])
  BY <1>3 DEF ShownKnown
<1>6. job[t].kind = "update" /\ reply.st = "ok" =>
        reply.val \in AllValues /\ (KeyOf[e] \notin stale => dev[KeyOf[e]] = reply.val)
  BY <1>1, <1>2, RecordTypes DEF ReplyUse
<1>7. job[t].kind = "command" =>
        /\ Settable(e) /\ ask[t].val \in AllValues
        /\ reply.st = "void" => KeyOf[e] \in stale
        /\ reply.st = "ok" /\ KeyOf[e] \notin stale => dev[KeyOf[e]] = ask[t].val
  BY <1>1, <1>2, RecordTypes DEF ReplyUse
<1> QED BY <1>1, <1>2, <1>4, <1>5, <1>6, <1>7

\* A call of a consumer.
LEMMA CallStep ==
  ASSUME CacheInv, NEW t \in Tasks, NEW e \in Entities, Call(t, e) PROVE CacheInv'
<1>1. ASSUME Update(t, e) PROVE CacheInv'
  <2>1. wanted' \in [Entities -> Wishes] /\ UNCHANGED <<class, shown, good>>
    BY <1>1 DEF Update, CacheInv, TypeOK
  <2> QED BY <1>1, <2>1, Calling, CallFits, RecordTypes DEF Update
<1>2. ASSUME NEW v \in Domain[KeyOf[e]], Idle(t), Settable(e), Send(t, e, v),
             wanted' \in [Entities -> Wishes]
      PROVE  CacheInv'
  <2>1. v \in AllValues /\ KeyOf[e] \in Keys
    BY RecordTypes
  <2>2. Put(KeyOf[e], v) \in AskTypes
    BY <2>1, RecordTypes
  <2> QED BY <1>2, <2>2, Calling, CallFits DEF Send
<1>3. ASSUME NEW v \in Domain[KeyOf[e]], Wish(e, t, v) PROVE wanted' \in [Entities -> Wishes]
  <2>1. v \in AllValues
    BY RecordTypes
  <2>2. [by |-> t, val |-> v] \in Wishes
    BY <2>1, RecordTypes
  <2> QED BY <1>3, <2>2 DEF Wish, CacheInv, TypeOK
<1>4. ASSUME NEW v \in Allowed[e], SetValue(t, e, v) PROVE CacheInv'
  <2>1. v \in Domain[KeyOf[e]] /\ Settable(e)
    BY <1>4, EntityAssumption DEF SetValue, Settable, Settables
  <2> QED BY <1>2, <1>3, <1>4, <2>1 DEF SetValue
<1>5. ASSUME NEW states \in {OnStates, OffStates}, Turn(t, e, states) PROVE CacheInv'
  <2>1. PICK i \in DOMAIN states :
          FirstAllowed(e, states, i) /\ Send(t, e, states[i]) /\ Wish(e, t, states[i])
    BY <1>5 DEF Turn
  <2>2. states[i] \in Domain[KeyOf[e]] /\ Settable(e) /\ Idle(t)
    BY <1>5, <2>1, EntityAssumption DEF Turn, FirstAllowed, Settable, Settables
  <2> QED BY <1>2, <1>3, <2>1, <2>2
<1>6. ASSUME NEW on \in BOOLEAN, TurnBinary(t, e, on) PROVE CacheInv'
  <2> DEFINE v == IF on THEN OnAction ELSE OffAction
  <2>1. v \in Domain[KeyOf[e]] /\ Settable(e) /\ Idle(t)
    BY <1>6, EntityAssumption DEF TurnBinary, Settable, Settables, CacheInv, TypeOK
  <2>2. [wanted EXCEPT ![e] = NoWish] \in [Entities -> Wishes]
        /\ [wanted EXCEPT ![e] = [by |-> t, val |-> v]] \in [Entities -> Wishes]
    <3>1. v \in AllValues
      BY <2>1, RecordTypes
    <3> HIDE DEF v
    <3>2. [by |-> t, val |-> v] \in Wishes /\ NoWish \in Wishes
      BY <3>1, RecordTypes
    <3> QED BY <3>2 DEF CacheInv, TypeOK
  <2>3. CASE (shown[e] = OnAction) # on
    <3>1. Send(t, e, v)
      BY <1>6, <2>3 DEF TurnBinary
    <3>2. wanted' \in [Entities -> Wishes]
      BY <1>6, <2>2, <2>3 DEF TurnBinary, Wish
    <3> HIDE DEF v
    <3> QED BY <1>2, <2>1, <3>1, <3>2
  <2>4. CASE ~((shown[e] = OnAction) # on)
    <3>1. UNCHANGED <<connectorVars, class, shown, good, job>> /\ wanted' \in [Entities -> Wishes]
      <4>1. UNCHANGED <<connectorVars, class, shown, good, job>>
        BY <1>6, <2>4 DEF TurnBinary
      <4>2. wanted' \in {[wanted EXCEPT ![e] = NoWish], [wanted EXCEPT ![e] = [by |-> t, val |-> v]]}
        BY <1>6, <2>4 DEF TurnBinary
      <4> QED BY <2>2, <4>1, <4>2
    <3> QED BY <3>1 DEF connectorVars, CacheInv, TypeOK, ConnectorTypes, QueueUse, Idle, Once,
          JobUse, JobFits, Settable, ReplyUse, OnWire, ShownKnown, MayShow, Reading, TellsUnknown, Arriving
  <2> QED BY <2>3, <2>4
<1> QED BY <1>1, <1>4, <1>5, <1>6 DEF Call

\* A call returns to its task.
LEMMA ReturnStep ==
  ASSUME CacheInv, NEW t \in Tasks, UpdateDone(t) \/ UpdateFailed(t) \/ CommandDone(t)
  PROVE  CacheInv'
<1> DEFINE e == job[t].of
<1>0. Returned(t) /\ job[t].kind \in {"update", "command"}
  BY DEF UpdateDone, UpdateFailed, CommandDone
<1>1. e \in Entities /\ KeyOf[e] \in Keys
  BY <1>0, Answered
<1>2. /\ shown \in [Entities -> Shows] /\ good \in [Entities -> BOOLEAN]
      /\ wanted \in [Entities -> Wishes]
  BY DEF CacheInv, TypeOK
<1>3. CASE UpdateDone(t)
  <2>1. PICK s \in Shows : \/ /\ reply.st = "ok" /\ shown' = [shown EXCEPT ![e] = s]
                              /\ KeyOf[e] \in stale \/ MayShow(e, s)
                           \/ /\ reply.st # "ok" /\ TellsUnknown(e)
                              /\ shown' = [shown EXCEPT ![e] = s] /\ s = "Unknown"
                           \/ reply.st # "ok" /\ shown' = shown
    <3>1. CASE reply.st = "ok"
      <4>1. /\ reply.val \in AllValues /\ shown' = [shown EXCEPT ![e] = Learned(e)]
            /\ KeyOf[e] \notin stale => dev[KeyOf[e]] = reply.val
        BY <1>0, <1>3, <3>1, Answered DEF UpdateDone
      <4>2. Reading(e, reply.val) \in Shows /\ shown[e] \in Shows
        BY <1>1, <1>2, <4>1, Readings DEF CacheInv
      <4>3. Learned(e) \in Shows /\ (KeyOf[e] \in stale \/ MayShow(e, Learned(e)))
        BY <4>1, <4>2 DEF Learned, MayShow
      <4> QED BY <3>1, <4>1, <4>3
    <3>2. CASE reply.st # "ok"
      <4>1. "Unknown" \in Shows
        BY DEF Shows, Messages
      <4> QED BY <1>3, <3>2, <4>1 DEF UpdateDone
    <3> QED BY <3>1, <3>2
  <2>2. PICK how \in {NoJob, Raised} : Return(t, how)
    BY <1>3 DEF UpdateDone
  <2>3. good' \in [Entities -> BOOLEAN] /\ wanted' = wanted
    BY <1>2, <1>3 DEF UpdateDone
  <2>4. shown' \in [Entities -> Shows]
    BY <1>1, <1>2, <2>1
  <2>5. \A d \in Entities : KeyOf[d] \in stale \/ MayShow(d, shown'[d])
    <3> TAKE d \in Entities
    <3>1. CASE d = e
      BY <1>0, <1>1, <1>2, <2>1, <3>1, Answered DEF MayShow
    <3>2. CASE d # e
      BY <1>0, <1>1, <1>2, <2>1, <3>2, Answered
    <3> QED BY <3>1, <3>2
  <2> QED BY <1>0, <1>2, <2>2, <2>3, <2>4, <2>5, Returning
<1>4. CASE UpdateFailed(t)
  <2>1. reply.st # "ok" /\ shown' = shown /\ wanted' = wanted
    BY <1>4 DEF UpdateFailed
  <2>2. PICK how \in {NoJob, Raised} : Return(t, how)
    BY <1>4 DEF UpdateFailed
  <2>3. good' \in [Entities -> BOOLEAN]
    BY <1>2, <1>4 DEF UpdateFailed
  <2>4. \A d \in Entities : KeyOf[d] \in stale \/ MayShow(d, shown'[d])
    BY <1>0, <2>1, Answered
  <2> QED BY <1>0, <1>2, <2>1, <2>2, <2>3, <2>4, Returning
<1>5. CASE CommandDone(t)
  <2>0. job[t].kind = "command" /\ good' = good
    BY <1>5 DEF CommandDone
  <2>1. CASE reply.st \in {"ok", "void"}
    <3>1. shown' = [shown EXCEPT ![e] = ask[t].val] /\ Return(t, NoJob) /\ wanted' = wanted
      BY <1>5, <2>1 DEF CommandDone
    <3>2. Settable(e) /\ ask[t].val \in AllValues /\ ask[t].val \in Shows
      BY <1>0, <2>0, Answered DEF Shows
    <3>3. KeyOf[e] \in stale \/ MayShow(e, ask[t].val)
      <4>1. KeyOf[e] \in stale \/ dev[KeyOf[e]] = ask[t].val
        BY <1>0, <2>0, <2>1, Answered
      <4>2. Reading(e, ask[t].val) = ask[t].val
        BY <1>1, <3>2, Readings DEF CacheInv
      <4> QED BY <4>1, <4>2 DEF MayShow
    <3>4. \A d \in Entities : KeyOf[d] \in stale \/ MayShow(d, shown'[d])
      BY <1>0, <1>1, <1>2, <3>1, <3>3, Answered
    <3>5. shown' \in [Entities -> Shows]
      BY <1>1, <1>2, <3>1, <3>2
    <3> QED BY <1>0, <1>2, <2>0, <3>1, <3>4, <3>5, Returning
  <2>2. CASE reply.st \notin {"ok", "void"}
    <3>1. shown' = shown /\ Return(t, Raised)
          /\ wanted' = [wanted EXCEPT ![e] = IF @.by = t THEN NoWish ELSE @]
      BY <1>5, <2>2 DEF CommandDone
    <3>2. wanted' \in [Entities -> Wishes]
      BY <1>1, <1>2, <3>1, RecordTypes
    <3>3. \A d \in Entities : KeyOf[d] \in stale \/ MayShow(d, shown'[d])
      BY <1>0, <2>2, <3>1, Answered
    <3> QED BY <1>0, <1>2, <2>0, <3>1, <3>2, <3>3, Returning
  <2> QED BY <2>1, <2>2
<1> QED BY <1>3, <1>4, <1>5

\* The request of a task that asks fits its call and the resource.
LEMMA OnWireFits ==
  ASSUME CacheInv, queue # << >>
  PROVE  LET e == job[Head(queue)].of IN
         /\ Head(queue) \in Tasks /\ OnWire \in AskTypes /\ e \in Entities
         /\ OnWire.key = KeyOf[e] /\ KeyOf[e] \in Keys
         /\ OnWire.op = "put" => OnWire.val \in Domain[OnWire.key] /\ OnWire.val \in AllValues
<1>1. /\ Head(queue) \in Tasks /\ OnWire \in AskTypes /\ ~Idle(Head(queue))
      /\ JobFits(job[Head(queue)], OnWire)
  BY DEF CacheInv, TypeOK, ConnectorTypes, QueueUse, JobUse, OnWire
<1>2. job[Head(queue)].kind \in {"update", "command"}
  BY <1>1 DEF JobFits, Idle
<1>3. PICK e \in Entities : /\ e = job[Head(queue)].of /\ OnWire.key = KeyOf[e]
                            /\ OnWire.op = "put" => OnWire.val \in Domain[OnWire.key]
  BY <1>1, <1>2 DEF JobFits
<1> QED BY <1>1, <1>3, RecordTypes

\* The request on the wire is repeated, answered or lost, or the device is used.
LEMMA WorldStep ==
  ASSUME CacheInv, World PROVE CacheInv'
<1> USE DEF CacheInv
<1>0. /\ UNCHANGED <<class, shown, good, job>> /\ shown \in [Entities -> Shows]
      /\ good \in [Entities -> BOOLEAN] /\ wanted \in [Entities -> Wishes]
      /\ class \in Devices /\ job \in [Tasks -> JobTypes]
      /\ queue \in Seq(Tasks) /\ ask \in [Tasks -> AskTypes] /\ reply \in ReplyTypes
      /\ stale \subseteq Keys /\ changes \in Nat
      /\ dev \in [Keys -> AllValues] /\ \A k \in Keys : dev[k] \in Domain[k]
  BY DEF World, ownVars, AnsweredNothing, RefusedInSilence, TypeOK, ConnectorTypes
<1>1. CASE Repeated /\ UNCHANGED ownVars
  <2> DEFINE h == Head(queue)
  <2>1. h \in Tasks /\ queue # << >> /\ reply = NoReply
    BY <1>0, <1>1 DEF Repeated, Pending
  <2>2. queue' = Append(Tail(queue), h) /\ UNCHANGED <<dev, reply, stale, changes, wanted>>
        /\ ask' = [ask EXCEPT ![h].failed = @ + 1]
    BY <1>1 DEF Repeated, ownVars
  <2>3. ask' \in [Tasks -> AskTypes] /\ \A u \in Tasks : /\ ask'[u].op = ask[u].op
                                                      /\ ask'[u].key = ask[u].key
                                                      /\ ask'[u].val = ask[u].val
    <3>1. ask[h] \in AskTypes /\ ask[h].failed + 1 \in Nat
      BY <1>0, <2>1 DEF AskTypes
    <3>2. [ask[h] EXCEPT !.failed = ask[h].failed + 1] \in AskTypes
      BY <3>1 DEF AskTypes
    <3> HIDE DEF h
    <3> QED BY <1>0, <2>1, <2>2, <3>1, <3>2 DEF AskTypes
  <2>4. /\ queue' \in Seq(Tasks) /\ Once(queue')
        /\ \A i \in 1..Len(queue') : \E k \in 1..Len(queue) : queue'[i] = queue[k]
    BY <1>0, <2>1, <2>2, Requeues DEF QueueUse
  <2>5. TypeOK'
    BY <1>0, <2>2, <2>3, <2>4 DEF TypeOK, ConnectorTypes
  <2>6. QueueUse'
    BY <1>0, <2>4 DEF QueueUse, Idle
  <2>7. JobUse'
    BY <1>0, <2>3 DEF JobUse, JobFits, Settable
  <2>8. ReplyUse' /\ ShownKnown'
    BY <1>0, <2>1, <2>2 DEF ReplyUse, ShownKnown, NoReply, Arriving, MayShow, Reading, TellsUnknown
  <2> QED BY <2>5, <2>6, <2>7, <2>8
<1>2. ASSUME queue # << >>, reply = NoReply, UNCHANGED <<queue, ask, changes>>,
             wanted' \in [Entities -> Wishes], reply' \in ReplyTypes, reply'.st # "none",
             \/ dev' = dev
             \/ OnWire.op = "put" /\ dev' = [dev EXCEPT ![OnWire.key] = OnWire.val],
             stale' \in {stale, stale \cup {OnWire.key}, stale \ {OnWire.key}},
             reply'.st # "ok" =>
               /\ stale' # stale \ {OnWire.key} \/ stale' = stale
               /\ dev' # dev => stale' = stale \cup {OnWire.key},
             reply'.st = "void" => OnWire.op = "get" \/ OnWire.key \in stale',
             reply'.st = "ok" => /\ OnWire.op = "get" => dev' = dev /\ reply'.val = dev[OnWire.key]
                                 /\ OnWire.op # "get" => dev'[OnWire.key] = OnWire.val
      PROVE  CacheInv'
  <2>1. /\ OnWire' = OnWire /\ OnWire \in AskTypes /\ OnWire.key \in Keys
        /\ OnWire.op = "put" => OnWire.val \in Domain[OnWire.key] /\ OnWire.val \in AllValues
    BY <1>2, OnWireFits DEF OnWire
  <2>2. QueueUse' /\ JobUse'
    BY <1>0, <1>2 DEF QueueUse, Idle, Once, JobUse, JobFits, Settable
  <2>3. /\ dev' \in [Keys -> AllValues] /\ \A k \in Keys : dev'[k] \in Domain[k]
        /\ \A k \in Keys \ {OnWire.key} : dev'[k] = dev[k]
    BY <1>0, <1>2, <2>1
  <2>4. TypeOK'
    BY <1>0, <1>2, <2>1, <2>3 DEF TypeOK, ConnectorTypes
  <2>5. ReplyUse'
    BY <1>0, <1>2, <2>1 DEF ReplyUse, NoReply
  <2>6. ShownKnown'
    <3> SUFFICES ASSUME NEW e \in Entities, KeyOf[e] \notin stale', ~Arriving(KeyOf[e])'
                 PROVE  MayShow(e, shown[e])'
      BY <1>0 DEF ShownKnown
    <3>1. KeyOf[e] \in Keys /\ ~Arriving(KeyOf[e])
      BY <1>2, RecordTypes DEF Arriving, NoReply
    <3>2. KeyOf[e] \notin stale /\ dev'[KeyOf[e]] = dev[KeyOf[e]]
      <4>1. CASE KeyOf[e] = OnWire.key
        <5>1. reply'.st # "ok"
          BY <1>2, <2>1, <4>1 DEF Arriving, OnWire
        <5> QED BY <1>2, <4>1, <5>1
      <4>2. CASE KeyOf[e] # OnWire.key
        BY <1>2, <2>3, <3>1, <4>2
      <4> QED BY <4>1, <4>2
    <3> QED BY <1>0, <3>1, <3>2 DEF ShownKnown, MayShow, Reading, TellsUnknown
  <2> QED BY <2>2, <2>4, <2>5, <2>6
<1>3. CASE (GetAnswered \/ PutTaken \/ PutUnconfirmed \/ Failed) /\ UNCHANGED ownVars
  <2>1. queue # << >> /\ reply = NoReply /\ UNCHANGED <<queue, ask, changes, wanted>>
    BY <1>3 DEF GetAnswered, PutTaken, PutUnconfirmed, Failed, Pending, ownVars
  <2>2. OnWire \in AskTypes /\ OnWire.key \in Keys /\ wanted' \in [Entities -> Wishes]
        /\ dev[OnWire.key] \in AllValues
    BY <1>0, <2>1, OnWireFits
  <2>3. CASE GetAnswered
    <3>1. /\ OnWire.op = "get" /\ dev' = dev /\ stale' = stale \ {OnWire.key}
          /\ reply' = [st |-> "ok", val |-> dev[OnWire.key]] /\ reply' \in ReplyTypes
      BY <2>2, <2>3 DEF GetAnswered, ReplyTypes
    <3> QED BY <1>2, <2>1, <2>2, <3>1
  <2>4. CASE PutTaken
    <3>1. /\ OnWire.op = "put" /\ stale' = stale \ {OnWire.key}
          /\ dev' = [dev EXCEPT ![OnWire.key] = OnWire.val]
          /\ reply' = [st |-> "ok", val |-> "none"] /\ reply' \in ReplyTypes
      BY <2>2, <2>4 DEF PutTaken, ReplyTypes, NoReply
    <3> QED BY <1>0, <1>2, <2>1, <2>2, <3>1
  <2>5. CASE PutUnconfirmed
    <3>1. /\ OnWire.op = "put" /\ stale' = stale \cup {OnWire.key}
          /\ dev' = [dev EXCEPT ![OnWire.key] = OnWire.val]
          /\ reply' \in ReplyTypes /\ reply'.st \in {"down", "void"}
      BY <2>2, <2>5 DEF PutUnconfirmed, ReplyTypes, NoReply
    <3> QED BY <1>0, <1>2, <2>1, <2>2, <3>1
  <2>6. CASE Failed
    <3>1. /\ dev' = dev /\ stale' = stale /\ reply' \in ReplyTypes
          /\ reply'.st \in {"refused", "down"}
      BY <2>6 DEF Failed, ReplyTypes, NoReply
    <3> QED BY <1>2, <2>1, <2>2, <3>1
  <2> QED BY <1>3, <2>3, <2>4, <2>5, <2>6
<1>4. CASE AnsweredNothing
  <2>1. /\ OnWire.op = "get" /\ dev' = dev /\ stale' = stale /\ queue # << >> /\ reply = NoReply
        /\ UNCHANGED <<queue, ask, changes, wanted>>
        /\ reply' = [st |-> "void", val |-> "none"] /\ reply' \in ReplyTypes
    BY <1>4 DEF AnsweredNothing, Pending, ReplyTypes, NoReply, ownVars
  <2> QED BY <1>0, <1>2, <2>1
<1>5. CASE RefusedInSilence
  <2>1. /\ dev' = dev /\ stale' = stale \cup {OnWire.key} /\ queue # << >> /\ reply = NoReply
        /\ UNCHANGED <<queue, ask, changes>>
        /\ reply' = [st |-> "void", val |-> "none"] /\ reply' \in ReplyTypes
        /\ wanted' = [wanted EXCEPT ![job[Head(queue)].of] = NoWish]
    BY <1>5 DEF RefusedInSilence, Pending, ReplyTypes, NoReply
  <2>2. wanted' \in [Entities -> Wishes]
    BY <1>0, <2>1, RecordTypes
  <2> QED BY <1>0, <1>2, <2>1, <2>2
<1>6. CASE OwnerChanges /\ wanted' = [e \in Entities |-> IF dev'[KeyOf[e]] # dev[KeyOf[e]]
                                                        THEN NoWish ELSE wanted[e]]
  <2>1. PICK k \in OwnerKeys : \E v \in Domain[k] : dev' = [dev EXCEPT ![k] = v] /\ stale' = stale \cup {k}
    BY <1>6 DEF OwnerChanges
  <2>2. PICK v \in Domain[k] : dev' = [dev EXCEPT ![k] = v]
    BY <2>1
  <2>3. k \in Keys /\ v \in AllValues /\ UNCHANGED <<queue, ask, reply, OnWire>> /\ changes' = changes + 1
    BY <1>6, RecordTypes, KeyAssumption DEF OwnerChanges, OnWire
  <2>4. wanted' \in [Entities -> Wishes]
    BY <1>0, <1>6, RecordTypes
  <2>5. TypeOK'
    BY <1>0, <2>1, <2>2, <2>3, <2>4 DEF TypeOK, ConnectorTypes
  <2>6. QueueUse' /\ JobUse'
    BY <1>0, <2>3 DEF QueueUse, Idle, Once, JobUse, JobFits, Settable
  <2>7. ReplyUse'
    BY <1>0, <2>1, <2>2, <2>3 DEF ReplyUse
  <2>8. ShownKnown'
    BY <1>0, <2>1, <2>2, <2>3, RecordTypes
       DEF ShownKnown, Arriving, OnWire, MayShow, Reading, TellsUnknown
  <2> QED BY <2>5, <2>6, <2>7, <2>8
<1> QED BY <1>1, <1>3, <1>4, <1>5, <1>6 DEF World, DeviceStep

\* A task is cancelled: what the entities show is still known.
LEMMA CancelStep ==
  ASSUME CacheInv, NEW t \in Tasks, Cancelled(t) PROVE CacheInv'
<1> USE DEF CacheInv
<1>0. /\ queue \in Seq(Tasks) /\ ask \in [Tasks -> AskTypes] /\ reply \in ReplyTypes
      /\ stale \subseteq Keys /\ Once(queue) /\ job \in [Tasks -> JobTypes]
      /\ dev \in [Keys -> AllValues] /\ \A k \in Keys : dev[k] \in Domain[k]
  BY DEF TypeOK, ConnectorTypes, QueueUse
<1>1. PICK i \in 1..Len(queue) :
         /\ queue[i] = t /\ queue' = RemoveAt(queue, i)
         /\ IF i = 1
              THEN /\ reply' = NoReply /\ stale' = stale \cup ({ask[t].key} \cap Keys)
                   /\ \/ UNCHANGED dev
                      \/ /\ Pending /\ OnWire.op = "put" /\ OnWire.key \in Keys
                         /\ dev' = [dev EXCEPT ![OnWire.key] = OnWire.val]
              ELSE UNCHANGED <<dev, reply, stale>>
  BY DEF Cancelled, Abandon
<1>2. /\ ask' = [ask EXCEPT ![t] = NoAsk] /\ job' = [job EXCEPT ![t] = Raised]
      /\ UNCHANGED <<changes, class, shown, good>>
      /\ wanted' \in [Entities -> Wishes]
  BY RecordTypes DEF Cancelled, Abandon, Become, TypeOK
<1>3. /\ queue' \in Seq(Tasks) /\ Once(queue')
      /\ \A j \in 1..Len(queue') : queue'[j] # t /\ \E k \in 1..Len(queue) : queue'[j] = queue[k]
      /\ i # 1 => queue' # << >> /\ Head(queue') = Head(queue)
  BY <1>0, <1>1, GivesUp
<1>4. QueueUse'
  <2>1. \A k \in 1..Len(queue) : queue[k] \in Tasks /\ job[queue[k]] \notin {NoJob, Raised}
    BY <1>0 DEF QueueUse, Idle
  <2>2. \A u \in Tasks \ {t} : job'[u] = job[u]
    BY <1>0, <1>2
  <2>3. \A j \in 1..Len(queue') : job'[queue'[j]] \notin {NoJob, Raised}
    BY <1>3, <2>1, <2>2
  <2> QED BY <1>3, <2>3 DEF QueueUse, Idle
<1>5. JobUse'
  BY <1>0, <1>2, IdleFits DEF JobUse, JobFits, Settable
<1>6. CASE i = 1
  <2>1. t = Head(queue) /\ OnWire = ask[t] /\ queue # << >>
    BY <1>0, <1>1, <1>6 DEF OnWire
  <2>2. /\ OnWire.key \in Keys
        /\ OnWire.op = "put" => OnWire.val \in Domain[OnWire.key] /\ OnWire.val \in AllValues
    BY <2>1, OnWireFits
  <2>3. /\ dev' \in [Keys -> AllValues] /\ \A k \in Keys : dev'[k] \in Domain[k]
        /\ \A k \in Keys \ {OnWire.key} : dev'[k] = dev[k]
    BY <1>0, <1>1, <1>6, <2>2
  <2>4. TypeOK'
    BY <1>0, <1>1, <1>2, <1>3, <1>6, <2>3, RecordTypes DEF TypeOK, ConnectorTypes
  <2>5. ReplyUse'
    BY <1>1, <1>6 DEF ReplyUse, NoReply
  <2>6. ShownKnown'
    <3> SUFFICES ASSUME NEW e \in Entities, KeyOf[e] \notin stale' PROVE MayShow(e, shown[e])'
      BY <1>2 DEF ShownKnown
    <3>1. KeyOf[e] # OnWire.key /\ KeyOf[e] \notin stale /\ KeyOf[e] \in Keys
      BY <1>1, <1>6, <2>1, <2>2, RecordTypes
    <3>2. dev'[KeyOf[e]] = dev[KeyOf[e]] /\ ~Arriving(KeyOf[e])
      BY <2>3, <3>1 DEF Arriving, OnWire
    <3> QED BY <1>2, <3>1, <3>2 DEF ShownKnown, MayShow, Reading, TellsUnknown
  <2> QED BY <1>4, <1>5, <2>4, <2>5, <2>6
<1>7. CASE i # 1
  <2>1. UNCHANGED <<dev, reply, stale, OnWire>> /\ queue # << >> /\ Head(queue) # t
    <3>1. queue # << >> /\ Head(queue) = queue[1] /\ queue[1] \in Tasks
      BY <1>0, <1>1
    <3>2. queue[1] # t
      BY <1>0, <1>1, <1>7 DEF Once
    <3> QED BY <1>0, <1>1, <1>2, <1>3, <1>7, <3>1, <3>2 DEF OnWire
  <2>2. TypeOK'
    BY <1>0, <1>2, <1>3, <2>1, RecordTypes DEF TypeOK, ConnectorTypes
  <2>3. ReplyUse'
    BY <1>3, <1>7, <2>1 DEF ReplyUse
  <2>4. ShownKnown'
    BY <1>2, <1>3, <1>7, <2>1 DEF ShownKnown, Arriving, OnWire, MayShow, Reading, TellsUnknown
  <2> QED BY <1>4, <1>5, <2>2, <2>3, <2>4
<1> QED BY <1>6, <1>7

\* The entities start with what Switches.initialize has read, or with nothing.
LEMMA CacheStart == Init => CacheInv
<1> SUFFICES ASSUME Init PROVE CacheInv
  OBVIOUS
<1>1. ConnectorTypes
  BY RecordTypes, KeyAssumption DEF Init, ConnectorInit, ConnectorTypes, AllValues
<1>2. \A e \in Entities : KeyOf[e] \in Keys /\ dev[KeyOf[e]] \in AllValues /\ KeyOf[e] \in stale
  BY <1>1, RecordTypes DEF ConnectorTypes, Init, ConnectorInit
<1>3. shown \in [Entities -> Shows]
  <2>1. \A e \in Entities : (IF Settable(e) THEN dev[KeyOf[e]] ELSE NoValue) \in Shows
    BY <1>2 DEF Shows
  <2> QED BY <2>1 DEF Init
<1>4. TypeOK
  BY <1>1, <1>3, RecordTypes DEF Init, TypeOK
<1>5. QueueUse /\ ReplyUse
  BY DEF Init, ConnectorInit, QueueUse, Once, ReplyUse, NoReply
<1>6. JobUse
  BY IdleFits DEF Init, JobUse
<1>7. ShownKnown
  BY <1>2 DEF ShownKnown
<1> QED BY <1>4, <1>5, <1>6, <1>7 DEF CacheInv

\* Every step keeps what the entities know.
LEMMA CacheStep == CacheInv /\ [Next]_vars => CacheInv'
<1> SUFFICES ASSUME CacheInv, [Next]_vars PROVE CacheInv'
  OBVIOUS
<1>1. CASE World
  BY <1>1, WorldStep
<1>2. ASSUME NEW t \in Tasks, UpdateDone(t) \/ UpdateFailed(t) \/ CommandDone(t) \/ Cancelled(t)
      PROVE  CacheInv'
  BY <1>2, ReturnStep, CancelStep
<1>3. ASSUME NEW t \in Tasks, NEW e \in Entities, Call(t, e) PROVE CacheInv'
  BY <1>3, CallStep
<1>4. CASE UNCHANGED vars
  BY <1>4 DEF vars, connectorVars, ownVars, CacheInv, TypeOK, ConnectorTypes, QueueUse, Idle, Once,
     JobUse, JobFits, Settable, ReplyUse, OnWire, ShownKnown, MayShow, Reading, TellsUnknown, Arriving
<1> QED BY <1>1, <1>2, <1>3, <1>4 DEF Next

-----------------------------------------------------------------------------
(* The last command                                                        *)

\* A task that joins the queue comes last, and changes nothing for the others.
LEMMA BeforeJoins ==
  ASSUME NEW q \in Seq(Tasks), NEW t \in Tasks, NEW u \in Tasks
  PROVE  /\ Before(Append(q, t), t, t)
         /\ Before(q, u, u) => Before(Append(q, t), u, t)
         /\ \A w \in Tasks : Before(q, u, w) => Before(Append(q, t), u, w)
<1>1. /\ Len(q) \in Nat /\ Len(Append(q, t)) = Len(q) + 1 /\ Append(q, t)[Len(q) + 1] = t
      /\ \A i \in 1..Len(q) : Append(q, t)[i] = q[i]
  OBVIOUS
<1>2. Before(Append(q, t), t, t)
  <2>1. Len(q) + 1 \in 1..Len(Append(q, t)) /\ Len(q) + 1 \in (Len(q) + 1)..Len(Append(q, t))
    BY <1>1
  <2> QED BY <1>1, <2>1 DEF Before
<1>3. ASSUME Before(q, u, u) PROVE Before(Append(q, t), u, t)
  <2>1. PICK i \in 1..Len(q) : q[i] = u
    BY <1>3 DEF Before
  <2>2. i \in 1..Len(Append(q, t)) /\ Len(q) + 1 \in i..Len(Append(q, t))
    BY <1>1, <2>1
  <2> QED BY <1>1, <2>1, <2>2 DEF Before
<1>4. ASSUME NEW w \in Tasks, Before(q, u, w) PROVE Before(Append(q, t), u, w)
  <2>1. PICK i \in 1..Len(q) : \E j \in i..Len(q) : q[i] = u /\ q[j] = w
    BY <1>4 DEF Before
  <2>2. PICK j \in i..Len(q) : q[i] = u /\ q[j] = w
    BY <2>1
  <2>3. i \in 1..Len(Append(q, t)) /\ j \in i..Len(Append(q, t)) /\ j \in 1..Len(q)
    BY <1>1, <2>1, <2>2
  <2> QED BY <1>1, <2>1, <2>2, <2>3 DEF Before
<1> QED BY <1>2, <1>3, <1>4

\* When the first task leaves, the order of the others stays.
LEMMA BeforeLeaves ==
  ASSUME NEW q \in Seq(Tasks), q # << >>, NEW u \in Tasks, NEW w \in Tasks, Before(q, u, w),
         u # Head(q)
  PROVE  Before(Tail(q), u, w)
<1>1. Len(Tail(q)) = Len(q) - 1 /\ \A k \in 1..Len(Tail(q)) : Tail(q)[k] = q[k + 1]
  OBVIOUS
<1>2. PICK i \in 1..Len(q) : \E j \in i..Len(q) : q[i] = u /\ q[j] = w
  BY DEF Before
<1>3. PICK j \in i..Len(q) : q[i] = u /\ q[j] = w
  BY <1>2
<1>4. i # 1
  BY <1>3
<1>5. i - 1 \in 1..Len(Tail(q)) /\ j - 1 \in (i - 1)..Len(Tail(q)) /\ j - 1 \in 1..Len(Tail(q))
  BY <1>1, <1>2, <1>3, <1>4
<1>6. Tail(q)[i - 1] = u /\ Tail(q)[j - 1] = w
  BY <1>1, <1>3, <1>5
<1> QED BY <1>5, <1>6 DEF Before

\* When it starts over at the end, the order of the others stays.
LEMMA BeforeRequeues ==
  ASSUME NEW q \in Seq(Tasks), q # << >>, NEW u \in Tasks, NEW w \in Tasks, Before(q, u, w)
  PROVE  LET r == Append(Tail(q), Head(q)) IN
         /\ u # Head(q) => Before(r, u, w)
         /\ u = w => Before(r, u, w)
<1>1. Tail(q) \in Seq(Tasks) /\ Head(q) \in Tasks
  OBVIOUS
<1>2. u # Head(q) => Before(Tail(q), u, w)
  BY BeforeLeaves
<1> QED BY <1>1, <1>2, BeforeJoins

\* When a task at any place gives up, the order of the others stays.
LEMMA BeforeGivesUp ==
  ASSUME NEW q \in Seq(Tasks), NEW i \in 1..Len(q), NEW u \in Tasks, NEW w \in Tasks,
         Before(q, u, w), u # q[i], w # q[i]
  PROVE  Before(RemoveAt(q, i), u, w)
<1> DEFINE r == RemoveAt(q, i)
<1>1. r \in Seq(Tasks) /\ Len(r) = Len(q) - 1
      /\ \A j \in 1..Len(r) : r[j] = IF j < i THEN q[j] ELSE q[j + 1]
  BY Without
<1> HIDE DEF r
<1>2. ASSUME NEW k \in 1..Len(q), k # i
      PROVE  LET m == IF k < i THEN k ELSE k - 1 IN m \in 1..Len(r) /\ r[m] = q[k]
  <2>1. CASE k < i
    BY <1>1, <2>1
  <2>2. CASE k > i
    <3>1. k - 1 \in 1..Len(r) /\ ~(k - 1 < i) /\ (k - 1) + 1 = k
      BY <1>1, <2>2
    <3> QED BY <1>1, <2>2, <3>1
  <2> QED BY <1>2, <2>1, <2>2
<1>3. PICK x \in 1..Len(q) : \E y \in x..Len(q) : q[x] = u /\ q[y] = w
  BY DEF Before
<1>4. PICK y \in x..Len(q) : q[x] = u /\ q[y] = w
  BY <1>3
<1> DEFINE m == IF x < i THEN x ELSE x - 1
           n == IF y < i THEN y ELSE y - 1
<1>5. x # i /\ y # i /\ y \in 1..Len(q)
  BY <1>3, <1>4
<1>6. m \in 1..Len(r) /\ r[m] = u /\ n \in 1..Len(r) /\ r[n] = w
  BY <1>2, <1>4, <1>5
<1>7. n \in m..Len(r)
  BY <1>1, <1>3, <1>4, <1>5
<1> HIDE DEF m, n
<1> QED BY <1>6, <1>7 DEF Before, r

\* Nobody is before the first task.
LEMMA FirstIsFirst ==
  ASSUME NEW q \in Seq(Tasks), Once(q), q # << >>, NEW u \in Tasks, Before(q, u, Head(q))
  PROVE  u = Head(q)
<1>1. PICK i \in 1..Len(q) : \E j \in i..Len(q) : q[i] = u /\ q[j] = Head(q)
  BY DEF Before
<1>2. PICK j \in i..Len(q) : q[i] = u /\ q[j] = q[1]
  BY <1>1
<1>3. j \in 1..Len(q) /\ 1 \in 1..Len(q)
  BY <1>1
<1>4. j = 1
  BY <1>2, <1>3 DEF Once
<1> QED BY <1>1, <1>2, <1>4

\* A task that starts a call leaves the wishes of the entities it does not
\* command as they are.
LEMMA WishKept ==
  ASSUME EntityInv, NEW t \in Tasks, NEW r \in AskTypes, NEW j \in JobTypes \ {NoJob, Raised},
         Idle(t), Ask(t, r), Become(t, j), UNCHANGED <<class, shown>>,
         NEW d \in Entities, wanted[d] # NoWish, j # [kind |-> "command", of |-> d]
  PROVE  WishFits(d, wanted[d].by, wanted[d].val)'
         \/ wanted'[d] # wanted[d]
<1> SUFFICES ASSUME wanted'[d] = wanted[d]
             PROVE  WishFits(d, wanted[d].by, wanted[d].val)'
  OBVIOUS
<1> DEFINE by == wanted[d].by
           v == wanted[d].val
<1> USE DEF EntityInv, CacheInv
<1>0. /\ WishFits(d, by, v) /\ queue \in Seq(Tasks) /\ ask \in [Tasks -> AskTypes]
      /\ job \in [Tasks -> JobTypes] /\ \A i \in 1..Len(queue) : queue[i] # t
  BY DEF WishUse, TypeOK, ConnectorTypes, QueueUse
<1>1. /\ queue' = Append(queue, t) /\ ask' = [ask EXCEPT ![t] = r] /\ job' = [job EXCEPT ![t] = j]
      /\ UNCHANGED <<dev, reply, stale>>
  BY DEF Ask, Become
<1>2. ~Commanding(t, d) /\ \A u \in Tasks : Commanding(u, d)' <=> Commanding(u, d)
  BY <1>0, <1>1 DEF Commanding, Idle, NoJob, Raised
<1>3. (Alone(d)' <=> Alone(d)) /\ by' = by /\ v' = v /\ by \in Tasks /\ Settable(d)'
  BY <1>0, <1>2 DEF Alone, WishFits, Settable
<1>4. ~Alone(d) => Commanding(by, d)' /\ ask'[by].val = v
  BY <1>0, <1>1, <1>2 DEF WishFits
<1>5. \A u \in Tasks : Commanding(u, d)' => Before(queue', u, by)
  BY <1>0, <1>1, <1>2, <1>3, BeforeJoins DEF WishFits
<1>6. CASE queue = << >>
  <2>1. reply' = NoReply
    BY <1>1, <1>6 DEF ReplyUse
  <2> QED BY <1>0, <1>1, <1>3, <1>4, <1>5, <2>1 DEF WishFits, Returned, Arriving, NoReply
<1>7. CASE queue # << >>
  <2>1. queue' # << >> /\ Head(queue') = Head(queue) /\ Head(queue) \in Tasks /\ Head(queue) # t
    BY <1>0, <1>1, <1>7
  <2>2. ask'[Head(queue')] = ask[Head(queue)]
    BY <1>0, <1>1, <2>1
  <2>3. Commanding(by, d)' /\ Returned(by)' => Commanding(by, d) /\ Returned(by)
    BY <1>1, <1>2, <1>3, <1>7, <2>1 DEF Returned
  <2>4. Arriving(KeyOf[d])' => Arriving(KeyOf[d])
    BY <1>1, <1>7, <2>2 DEF Arriving
  <2> QED BY <1>0, <1>1, <1>3, <1>4, <1>5, <2>3, <2>4 DEF WishFits
<1> QED BY <1>6, <1>7

\* The wish of the command that a task sends.
LEMMA WishMade ==
  ASSUME EntityInv, NEW t \in Tasks, NEW e \in Entities, NEW v, Idle(t), Settable(e), Send(t, e, v)
  PROVE  WishFits(e, t, v)'
<1> USE DEF EntityInv, CacheInv
<1>0. /\ queue \in Seq(Tasks) /\ ask \in [Tasks -> AskTypes] /\ job \in [Tasks -> JobTypes]
      /\ \A i \in 1..Len(queue) : queue[i] # t
  BY DEF TypeOK, ConnectorTypes, QueueUse
<1>1. /\ queue' = Append(queue, t) /\ ask' = [ask EXCEPT ![t] = Put(KeyOf[e], v)]
      /\ job' = [job EXCEPT ![t] = [kind |-> "command", of |-> e]]
      /\ UNCHANGED <<dev, reply, stale, class, shown>>
  BY DEF Send, Ask, Become
<1>2. Commanding(t, e)' /\ ask'[t].val = v /\ Settable(e)' /\ ~Alone(e)'
  BY <1>0, <1>1 DEF Commanding, Put, Settable, Alone
<1>3. \A u \in Tasks : Commanding(u, e)' => Before(queue', u, t)
  <2> SUFFICES ASSUME NEW u \in Tasks, Commanding(u, e)', u # t PROVE Before(queue', u, t)
    BY <1>0, <1>1, BeforeJoins
  <2>1. ~Idle(u)
    BY <1>0, <1>1 DEF Commanding, Idle, NoJob, Raised
  <2> QED BY <1>0, <1>1, <2>1, BeforeJoins DEF WishUse
<1>4. ~Returned(t)'
  <2>1. CASE queue = << >>
    BY <1>1, <2>1 DEF ReplyUse, Returned
  <2>2. CASE queue # << >>
    BY <1>0, <1>1, <2>2 DEF Returned
  <2> QED BY <2>1, <2>2
<1> QED BY <1>2, <1>3, <1>4 DEF WishFits

\* Whoever joins the queue, everybody who is busy is in it.
LEMMA BusyJoins ==
  ASSUME EntityInv, NEW t \in Tasks, NEW r, NEW j, Ask(t, r), Become(t, j)
  PROVE  \A u \in Tasks : Idle(u)' \/ Before(queue', u, u)
<1>1. queue \in Seq(Tasks) /\ queue' = Append(queue, t) /\ job \in [Tasks -> JobTypes]
      /\ job' = [job EXCEPT ![t] = j]
  BY DEF Ask, Become, EntityInv, CacheInv, TypeOK, ConnectorTypes
<1>2. \A u \in Tasks : Before(queue, u, u) => Before(queue', u, u)
  BY <1>1, BeforeJoins
<1>3. Before(queue', t, t)
  BY <1>1, BeforeJoins
<1>4. \A u \in Tasks \ {t} : Idle(u)' <=> Idle(u)
  BY <1>1 DEF Idle
<1> QED BY <1>2, <1>3, <1>4 DEF EntityInv, WishUse

\* A call of a consumer keeps the wishes, or makes a new one.
LEMMA WishCall ==
  ASSUME EntityInv, NEW t \in Tasks, NEW e \in Entities, Call(t, e) PROVE WishUse'
<1> USE DEF EntityInv, CacheInv
<1>0. wanted \in [Entities -> Wishes] /\ shown \in [Entities -> Shows]
  BY DEF TypeOK
<1>1. ASSUME Update(t, e) PROVE WishUse'
  <2> DEFINE j == [kind |-> "update", of |-> e]
  <2>1. /\ Idle(t) /\ Ask(t, Get(KeyOf[e])) /\ Become(t, j) /\ UNCHANGED <<class, shown, wanted>>
        /\ Get(KeyOf[e]) \in AskTypes
    BY <1>1, RecordTypes DEF Update
  <2>2. j \in JobTypes \ {NoJob, Raised} /\ \A d \in Entities : j # [kind |-> "command", of |-> d]
    BY CallFits
  <2> HIDE DEF j
  <2>3. \A d \in Entities : wanted[d] # NoWish => WishFits(d, wanted[d].by, wanted[d].val)'
    BY <2>1, <2>2, WishKept
  <2> QED BY <2>1, <2>3, BusyJoins DEF WishUse
<1>2. ASSUME NEW v \in Domain[KeyOf[e]], Idle(t), Settable(e), Send(t, e, v),
             \E w \in {NoWish, [by |-> t, val |-> v]} : wanted' = [wanted EXCEPT ![e] = w]
      PROVE  WishUse'
  <2> DEFINE j == [kind |-> "command", of |-> e]
  <2>1. /\ Ask(t, Put(KeyOf[e], v)) /\ Become(t, j) /\ UNCHANGED <<class, shown>>
        /\ Put(KeyOf[e], v) \in AskTypes /\ j \in JobTypes \ {NoJob, Raised}
        /\ \A d \in Entities \ {e} : j # [kind |-> "command", of |-> d]
    <3>1. v \in AllValues /\ KeyOf[e] \in Keys
      BY RecordTypes
    <3>2. Put(KeyOf[e], v) \in AskTypes
      BY <3>1, RecordTypes
    <3> QED BY <1>2, <3>2, CallFits DEF Send
  <2> HIDE DEF j
  <2>2. \A d \in Entities \ {e} : wanted'[d] # NoWish => WishFits(d, wanted[d].by, wanted[d].val)'
    BY <1>0, <1>2, <2>1, WishKept
  <2>3. WishFits(e, t, v)'
    BY <1>2, WishMade
  <2>4. wanted'[e] # NoWish => wanted'[e].by = t /\ wanted'[e].val = v
    BY <1>0, <1>2
  <2>5. \A d \in Entities \ {e} : wanted'[d] = wanted[d]
    BY <1>0, <1>2
  <2>6. wanted'[e] # NoWish => WishFits(e, wanted[e].by, wanted[e].val)'
    BY <2>3, <2>4 DEF WishFits
  <2> QED BY <2>1, <2>2, <2>5, <2>6, BusyJoins DEF WishUse
<1>3. ASSUME NEW v \in Allowed[e], SetValue(t, e, v) PROVE WishUse'
  <2>1. v \in Domain[KeyOf[e]] /\ Settable(e) /\ Idle(t) /\ Send(t, e, v)
        /\ wanted' = [wanted EXCEPT ![e] = [by |-> t, val |-> v]]
    BY <1>3, EntityAssumption DEF SetValue, Wish, Settable, Settables
  <2> QED BY <1>2, <2>1
<1>4. ASSUME NEW states \in {OnStates, OffStates}, Turn(t, e, states) PROVE WishUse'
  <2>1. PICK i \in DOMAIN states :
          FirstAllowed(e, states, i) /\ Send(t, e, states[i]) /\ Wish(e, t, states[i])
    BY <1>4 DEF Turn
  <2>2. states[i] \in Domain[KeyOf[e]] /\ Settable(e) /\ Idle(t)
    BY <1>4, <2>1, EntityAssumption DEF Turn, FirstAllowed, Settable, Settables
  <2> QED BY <1>2, <2>1, <2>2 DEF Wish
<1>5. ASSUME NEW on \in BOOLEAN, TurnBinary(t, e, on) PROVE WishUse'
  <2> DEFINE v == IF on THEN OnAction ELSE OffAction
  <2>1. v \in Domain[KeyOf[e]] /\ Settable(e) /\ Idle(t)
    BY <1>5, EntityAssumption DEF TurnBinary, Settable, Settables, TypeOK
  <2>2. CASE (shown[e] = OnAction) # on
    <3>1. Send(t, e, v) /\ \E w \in {NoWish, [by |-> t, val |-> v]} : wanted' = [wanted EXCEPT ![e] = w]
      BY <1>5, <2>2 DEF TurnBinary, Wish
    <3> HIDE DEF v
    <3> QED BY <1>2, <2>1, <3>1
  <2>3. CASE ~((shown[e] = OnAction) # on)
    <3>1. /\ UNCHANGED <<connectorVars, class, shown, good, job>>
          /\ wanted' = [wanted EXCEPT ![e] =
                          IF Alone(e) /\ KeyOf[e] \notin stale /\ ~Arriving(KeyOf[e]) /\ shown[e] = v
                          THEN [by |-> t, val |-> v] ELSE NoWish]
      BY <1>5, <2>3 DEF TurnBinary
    <3>2. v \in AllValues
      BY <2>1, RecordTypes
    <3> HIDE DEF v
    <3>3. UNCHANGED <<dev, queue, ask, reply, stale, class, shown, job>>
      BY <3>1 DEF connectorVars
    <3>4. \A d \in Entities \ {e} : wanted'[d] = wanted[d]
      BY <1>0, <3>1
    <3>5. ASSUME wanted'[e] # NoWish PROVE WishFits(e, wanted'[e].by, wanted'[e].val)
      <4>1. /\ Alone(e) /\ KeyOf[e] \notin stale /\ ~Arriving(KeyOf[e]) /\ shown[e] = v
            /\ wanted'[e] = [by |-> t, val |-> v]
        BY <1>0, <3>1, <3>5
      <4>2. dev[KeyOf[e]] = v
        <5>1. MayShow(e, v) /\ ~TellsUnknown(e) /\ class[e] # "crawl"
          BY <2>1, <4>1 DEF ShownKnown, TellsUnknown, Settable, Settables
        <5>2. KeyOf[e] \in Keys /\ dev[KeyOf[e]] \in AllValues
          BY RecordTypes DEF TypeOK, ConnectorTypes
        <5>3. Reading(e, dev[KeyOf[e]]) = dev[KeyOf[e]]
          BY <2>1, <5>2, Readings
        <5> QED BY <5>1, <5>3 DEF MayShow
      <4> QED BY <2>1, <4>1, <4>2 DEF WishFits, Alone
    <3>6. \A d \in Entities : wanted'[d] # NoWish => WishFits(d, wanted'[d].by, wanted'[d].val)
      BY <3>4, <3>5 DEF WishUse
    <3> QED BY <3>3, <3>6 DEF WishUse, WishFits, Settable, Alone, Commanding, Returned, Arriving, Idle
  <2> QED BY <2>2, <2>3
<1> QED BY <1>1, <1>3, <1>4, <1>5 DEF Call

\* A call that returns leaves the wishes of the entities it did not command,
\* unless it shows another value on one of them.
LEMMA WishLeft ==
  ASSUME EntityInv, NEW t \in Tasks, NEW how \in {NoJob, Raised}, Returned(t), Return(t, how),
         NEW d \in Entities, wanted[d] # NoWish, wanted[d].by # t \/ ~Commanding(t, d),
         shown'[d] = shown[d] \/ (Alone(d) => shown'[d] = wanted[d].val)
                              \/ Commanding(t, d)
  PROVE  WishFits(d, wanted[d].by, wanted[d].val)'
         \/ wanted'[d] # wanted[d]
<1> SUFFICES ASSUME wanted'[d] = wanted[d]
             PROVE  WishFits(d, wanted[d].by, wanted[d].val)'
  OBVIOUS
<1> DEFINE by == wanted[d].by
           v == wanted[d].val
<1> USE DEF EntityInv, CacheInv
<1>0. /\ WishFits(d, by, v) /\ queue \in Seq(Tasks) /\ ask \in [Tasks -> AskTypes]
      /\ job \in [Tasks -> JobTypes] /\ queue # << >> /\ Head(queue) = t
  BY DEF WishUse, TypeOK, ConnectorTypes, Returned
<1>1. /\ queue' = Tail(queue) /\ ask' = [ask EXCEPT ![t] = NoAsk] /\ job' = [job EXCEPT ![t] = how]
      /\ reply' = NoReply /\ UNCHANGED <<dev, stale, class>>
  BY DEF Return, Leave, Become
<1>2. \A u \in Tasks : Commanding(u, d)' <=> Commanding(u, d) /\ u # t
  BY <1>0, <1>1 DEF Commanding, NoJob, Raised
<1>3. by' = by /\ v' = v /\ by \in Tasks /\ Settable(d)'
  BY <1>0, <1>1 DEF WishFits, Settable
<1>4. ~Alone(d) => ~Alone(d)' /\ Commanding(by, d)' /\ ask'[by].val = v
  <2> SUFFICES ASSUME ~Alone(d) PROVE ~Alone(d)' /\ Commanding(by, d)' /\ ask'[by].val = v
    OBVIOUS
  <2>1. Commanding(by, d) /\ ask[by].val = v
    BY <1>0 DEF WishFits
  <2>2. by # t
    BY <2>1
  <2>3. Commanding(by, d)' /\ ask'[by].val = v
    BY <1>0, <1>1, <1>2, <1>3, <2>1, <2>2
  <2> QED BY <1>3, <2>3 DEF Alone
<1>5. \A u \in Tasks : Commanding(u, d)' => Before(queue', u, by)
  BY <1>0, <1>1, <1>2, <1>3, BeforeLeaves DEF WishFits
<1>6. Alone(d) => Alone(d)' /\ dev[KeyOf[d]] = v /\ shown'[d] = v
  BY <1>0, <1>2 DEF WishFits, Alone
<1>7. ~Returned(by)' /\ ~Arriving(KeyOf[d])'
  BY <1>1 DEF Returned, Arriving, NoReply
<1> QED BY <1>1, <1>3, <1>4, <1>5, <1>6, <1>7 DEF WishFits

\* The last command that was carried out: no other is on its way.
LEMMA WishDone ==
  ASSUME EntityInv, NEW t \in Tasks, Returned(t), Return(t, NoJob), NEW e \in Entities,
         Commanding(t, e), wanted[e] # NoWish, wanted[e].by = t, reply.st \in {"ok", "void"},
         shown'[e] = ask[t].val
  PROVE  WishFits(e, wanted[e].by, wanted[e].val)'
         \/ wanted'[e] # wanted[e]
<1> SUFFICES ASSUME wanted'[e] = wanted[e]
             PROVE  WishFits(e, wanted[e].by, wanted[e].val)'
  OBVIOUS
<1> DEFINE v == wanted[e].val
<1> USE DEF EntityInv, CacheInv
<1>0. /\ WishFits(e, t, v) /\ queue \in Seq(Tasks) /\ Once(queue) /\ job \in [Tasks -> JobTypes]
      /\ queue # << >> /\ Head(queue) = t
  BY DEF WishUse, TypeOK, ConnectorTypes, QueueUse, Returned
<1>1. /\ queue' = Tail(queue) /\ job' = [job EXCEPT ![t] = NoJob]
      /\ reply' = NoReply /\ UNCHANGED <<dev, stale, class>>
  BY DEF Return, Leave, Become
<1>2. \A u \in Tasks : Commanding(u, e) => u = t
  BY <1>0, FirstIsFirst DEF WishFits
<1>3. \A u \in Tasks : ~Commanding(u, e)'
  BY <1>0, <1>1, <1>2 DEF Commanding, NoJob
<1>4. ask[t].val = v /\ dev[KeyOf[e]] = v
  BY <1>0 DEF WishFits, Alone
<1>5. ~Arriving(KeyOf[e])'
  BY <1>1 DEF Arriving, NoReply
<1>6. Settable(e)' /\ t \in Tasks
  BY <1>0, <1>1 DEF WishFits, Settable
<1> QED BY <1>1, <1>3, <1>4, <1>5, <1>6 DEF WishFits, Alone

\* Whoever leaves the queue, everybody who is busy is in it.
LEMMA BusyLeaves ==
  ASSUME EntityInv, NEW t \in Tasks, NEW how \in {NoJob, Raised}, Returned(t), Return(t, how)
  PROVE  \A u \in Tasks : Idle(u)' \/ Before(queue', u, u)
<1>1. /\ queue \in Seq(Tasks) /\ queue' = Tail(queue) /\ job \in [Tasks -> JobTypes]
      /\ job' = [job EXCEPT ![t] = how] /\ queue # << >> /\ Head(queue) = t
  BY DEF Return, Leave, Become, Returned, EntityInv, CacheInv, TypeOK, ConnectorTypes
<1>2. \A u \in Tasks \ {t} : Before(queue, u, u) => Before(queue', u, u)
  BY <1>1, BeforeLeaves
<1>3. Idle(t)' /\ \A u \in Tasks \ {t} : Idle(u)' <=> Idle(u)
  BY <1>1 DEF Idle
<1> QED BY <1>2, <1>3 DEF EntityInv, WishUse

\* A call that returns keeps the wishes that are kept.
LEMMA WishReturn ==
  ASSUME EntityInv, NEW t \in Tasks, UpdateDone(t) \/ UpdateFailed(t) \/ CommandDone(t)
  PROVE  WishUse'
<1> DEFINE e == job[t].of
<1> USE DEF EntityInv, CacheInv
<1>0. /\ Returned(t) /\ job[t].kind \in {"update", "command"}
      /\ \E how \in {NoJob, Raised} : Return(t, how)
  BY DEF UpdateDone, UpdateFailed, CommandDone
<1>1. /\ e \in Entities /\ wanted \in [Entities -> Wishes] /\ shown \in [Entities -> Shows]
      /\ job \in [Tasks -> JobTypes]
  BY <1>0, Answered DEF TypeOK
<1>2. PICK how \in {NoJob, Raised} : Return(t, how)
  BY <1>0
<1>3. \A u \in Tasks : Idle(u)' \/ Before(queue', u, u)
  BY <1>0, <1>2, BusyLeaves
<1>4. \A d \in Entities : Commanding(t, d) => d = e /\ job[t].kind = "command"
  BY DEF Commanding
<1>5. ASSUME UpdateDone(t) \/ UpdateFailed(t), NEW d \in Entities, wanted[d] # NoWish
      PROVE  WishFits(d, wanted[d].by, wanted[d].val)'
  <2>1. job[t].kind = "update" /\ wanted' = wanted
    BY <1>5 DEF UpdateDone, UpdateFailed
  <2>2. shown'[d] = shown[d] \/ (Alone(d) => shown'[d] = wanted[d].val)
    <3>1. CASE d # e \/ UpdateFailed(t)
      BY <1>1, <1>5, <3>1 DEF UpdateDone, UpdateFailed
    <3>2. CASE d = e /\ UpdateDone(t)
      <4>1. WishFits(e, wanted[e].by, wanted[e].val) /\ Settable(e)
        BY <1>5, <3>2 DEF WishUse, WishFits
      <4>2. class[e] # "crawl" /\ ~TellsUnknown(e)
        BY <4>1 DEF Settable, Settables, TellsUnknown
      <4>3. CASE reply.st = "ok"
        <5>1. shown'[e] = Reading(e, reply.val)
          BY <1>1, <3>2, <4>2, <4>3 DEF UpdateDone, Learned
        <5>2. shown'[e] = reply.val
          BY <1>0, <1>1, <2>1, <4>1, <4>3, <5>1, Answered, Readings
        <5>3. Arriving(KeyOf[e])
          BY <1>0, <4>3, Answered DEF Arriving, Returned
        <5> QED BY <3>2, <4>1, <5>2, <5>3 DEF WishFits
      <4>4. CASE reply.st # "ok"
        BY <3>2, <4>2, <4>4 DEF UpdateDone
      <4> QED BY <4>3, <4>4
    <3> QED BY <1>5, <3>1, <3>2
  <2>3. ~Commanding(t, d)
    BY <1>4, <2>1
  <2> QED BY <1>0, <1>2, <1>5, <2>1, <2>2, <2>3, WishLeft
<1>6. ASSUME CommandDone(t), NEW d \in Entities, wanted'[d] # NoWish
      PROVE  wanted'[d] = wanted[d] /\ WishFits(d, wanted[d].by, wanted[d].val)'
  <2>1. job[t].kind = "command" /\ Commanding(t, e)
    <3>1. job[t].kind = "command" /\ job[t] \in JobTypes
      BY <1>1, <1>6 DEF CommandDone
    <3> QED BY <3>1 DEF Commanding, JobTypes
  <2>2. CASE d # e
    <3>1. wanted'[d] = wanted[d] /\ shown'[d] = shown[d] /\ ~Commanding(t, d)
      BY <1>1, <1>4, <1>6, <2>2 DEF CommandDone
    <3> QED BY <1>0, <1>2, <1>6, <3>1, WishLeft
  <2>3. CASE d = e /\ reply.st \in {"ok", "void"}
    <3>1. wanted' = wanted /\ shown' = [shown EXCEPT ![e] = ask[t].val] /\ Return(t, NoJob)
      BY <1>6, <2>3 DEF CommandDone
    <3>2. shown'[e] = ask[t].val
      BY <1>1, <3>1
    <3>3. CASE wanted[e].by = t
      BY <1>0, <1>1, <1>6, <2>1, <2>3, <3>1, <3>2, <3>3, WishDone
    <3>4. CASE wanted[e].by # t
      BY <1>0, <1>1, <1>6, <2>1, <2>3, <3>1, <3>4, WishLeft
    <3> QED BY <3>3, <3>4
  <2>4. CASE d = e /\ reply.st \notin {"ok", "void"}
    <3>1. /\ wanted' = [wanted EXCEPT ![e] = IF @.by = t THEN NoWish ELSE @]
          /\ Return(t, Raised)
      BY <1>6, <2>4 DEF CommandDone
    <3>2. wanted'[e] = wanted[e] /\ wanted[e].by # t
      BY <1>1, <1>6, <2>4, <3>1
    <3> QED BY <1>0, <1>1, <1>6, <2>1, <2>4, <3>1, <3>2, WishLeft
  <2> QED BY <2>2, <2>3, <2>4
<1>7. CASE UpdateDone(t) \/ UpdateFailed(t)
  <2>1. wanted' = wanted
    BY <1>7 DEF UpdateDone, UpdateFailed
  <2> QED BY <1>3, <1>5, <1>7, <2>1 DEF WishUse
<1>8. CASE CommandDone(t)
  BY <1>3, <1>6, <1>8 DEF WishUse
<1> QED BY <1>7, <1>8

\* The first task is in a command to an entity exactly if it puts to its resource.
LEMMA OnWireCommands ==
  ASSUME CacheInv, queue # << >>, NEW d \in Entities
  PROVE  /\ Commanding(Head(queue), d) => OnWire.op = "put" /\ OnWire.key = KeyOf[d]
         /\ OnWire.op = "put" /\ OnWire.key = KeyOf[d] => Commanding(Head(queue), d)
<1> DEFINE h == Head(queue)
<1>1. h \in Tasks /\ job[h] \in JobTypes /\ JobFits(job[h], OnWire) /\ job[h].of \in Entities
      /\ OnWire.key = KeyOf[job[h].of]
  BY OnWireFits DEF CacheInv, TypeOK, JobUse, OnWire
<1>2. Commanding(h, d) => OnWire.op = "put" /\ OnWire.key = KeyOf[d]
  BY <1>1 DEF Commanding, JobFits
<1>3. ASSUME OnWire.op = "put", OnWire.key = KeyOf[d] PROVE Commanding(h, d)
  <2>1. job[h].of = d
    BY <1>1, <1>3, EntityAssumption
  <2>2. job[h].kind = "command"
    <3>1. ~Idle(h)
      BY DEF CacheInv, QueueUse, TypeOK, ConnectorTypes
    <3> QED BY <1>1, <1>3, <3>1 DEF JobFits, Idle
  <2> QED BY <1>1, <2>1, <2>2 DEF Commanding, JobTypes
<1> QED BY <1>2, <1>3

\* The outcome of the request on the wire agrees with the wishes that are kept.
LEMMA WishAnswered ==
  ASSUME EntityInv, queue # << >>, reply = NoReply, UNCHANGED <<queue, ask, class, shown, job>>,
         NEW d \in Entities, wanted[d] # NoWish,
         dev' = dev \/ (OnWire.op = "put" /\ dev' = [dev EXCEPT ![OnWire.key] = OnWire.val]),
         reply'.st = "ok" => OnWire.op = "put" \/ reply'.val = dev[OnWire.key],
         Commanding(Head(queue), d) /\ reply'.st \in {"ok", "void"} =>
           dev' = [dev EXCEPT ![OnWire.key] = OnWire.val]
  PROVE  WishFits(d, wanted[d].by, wanted[d].val)'
         \/ wanted'[d] # wanted[d]
<1> SUFFICES ASSUME wanted'[d] = wanted[d]
             PROVE  WishFits(d, wanted[d].by, wanted[d].val)'
  OBVIOUS
<1> DEFINE by == wanted[d].by
           v == wanted[d].val
           h == Head(queue)
<1> USE DEF EntityInv, CacheInv
<1>0. WishFits(d, by, v) /\ dev \in [Keys -> AllValues] /\ KeyOf[d] \in Keys
  BY RecordTypes DEF WishUse, TypeOK, ConnectorTypes
<1>1. \A u \in Tasks : Commanding(u, d)' <=> Commanding(u, d)
  BY DEF Commanding
<1>2. (Alone(d)' <=> Alone(d)) /\ by' = by /\ v' = v /\ by \in Tasks /\ Settable(d)'
  BY <1>0, <1>1 DEF Alone, WishFits, Settable
<1>3. h \in Tasks /\ OnWire' = OnWire
  BY OnWireFits DEF OnWire
<1>4. Commanding(by, d)' /\ Returned(by)' /\ reply'.st \in {"ok", "void"} => dev'[KeyOf[d]] = v
  <2> SUFFICES ASSUME Commanding(by, d), by = h, reply'.st \in {"ok", "void"}
               PROVE  dev'[KeyOf[d]] = v
    BY <1>1, <1>2 DEF Returned
  <2>1. OnWire.key = KeyOf[d] /\ OnWire.val = v
    BY <1>0, <1>2, OnWireCommands DEF WishFits, Alone, OnWire
  <2> QED BY <1>0, <2>1
<1>5. Alone(d) => dev'[KeyOf[d]] = v /\ shown'[d] = v /\ (Arriving(KeyOf[d])' => reply'.val = v)
  <2> SUFFICES ASSUME Alone(d)
               PROVE  dev'[KeyOf[d]] = v /\ shown'[d] = v /\ (Arriving(KeyOf[d])' => reply'.val = v)
    OBVIOUS
  <2>1. ~(OnWire.op = "put" /\ OnWire.key = KeyOf[d])
    BY <1>3, OnWireCommands DEF Alone
  <2>2. dev'[KeyOf[d]] = dev[KeyOf[d]] /\ dev[KeyOf[d]] = v /\ shown[d] = v
    BY <1>0, <2>1 DEF WishFits
  <2>3. Arriving(KeyOf[d])' => reply'.st = "ok" /\ OnWire.key = KeyOf[d]
    BY DEF Arriving, OnWire
  <2> QED BY <2>1, <2>2, <2>3
<1>6. \A u \in Tasks : Commanding(u, d)' => Before(queue', u, by)
  BY <1>0, <1>1 DEF WishFits
<1>7. ~Alone(d)' => Commanding(by, d)' /\ ask'[by].val = v
  BY <1>0, <1>1, <1>2 DEF WishFits
<1> QED BY <1>2, <1>4, <1>5, <1>6, <1>7 DEF WishFits

\* A request that starts over is no command, and leaves the order of those.
LEMMA WishRepeated ==
  ASSUME EntityInv, Repeated, UNCHANGED ownVars PROVE WishUse'
<1> DEFINE h == Head(queue)
<1> USE DEF EntityInv, CacheInv
<1>0. /\ queue \in Seq(Tasks) /\ queue # << >> /\ h \in Tasks /\ OnWire.op = "get"
      /\ ask \in [Tasks -> AskTypes]
  BY DEF Repeated, Pending, TypeOK, ConnectorTypes
<1>1. /\ queue' = Append(Tail(queue), h) /\ ask' = [ask EXCEPT ![h].failed = @ + 1]
      /\ UNCHANGED <<dev, reply, stale, class, shown, job, wanted>> /\ reply' = NoReply
  BY DEF Repeated, Pending, ownVars
<1>2. \A u \in Tasks : ask'[u].val = ask[u].val
  BY <1>0, <1>1 DEF AskTypes
<1>3. \A u, w \in Tasks : Before(queue, u, w) /\ (u # h \/ u = w) => Before(queue', u, w)
  BY <1>0, <1>1, BeforeRequeues
<1>4. \A d \in Entities : ~Commanding(h, d)
  BY <1>0, OnWireCommands
<1>5. \A u \in Tasks : Idle(u)' \/ Before(queue', u, u)
  BY <1>1, <1>3 DEF WishUse, Idle
<1>6. ASSUME NEW d \in Entities, wanted[d] # NoWish
      PROVE  WishFits(d, wanted[d].by, wanted[d].val)'
  <2> DEFINE by == wanted[d].by
             v == wanted[d].val
  <2>1. WishFits(d, by, v)
    BY <1>6 DEF WishUse
  <2>2. /\ \A u \in Tasks : Commanding(u, d)' <=> Commanding(u, d)
        /\ Alone(d)' <=> Alone(d)
        /\ by' = by /\ v' = v /\ by \in Tasks /\ Settable(d)'
    BY <1>1, <2>1 DEF Commanding, Alone, Settable, WishFits
  <2>3. \A u \in Tasks : Commanding(u, d)' => Before(queue', u, by)
    BY <1>3, <1>4, <2>1, <2>2 DEF WishFits
  <2>4. ~Returned(by)' /\ ~Arriving(KeyOf[d])'
    BY <1>1 DEF Returned, Arriving, NoReply
  <2> QED BY <1>1, <1>2, <2>1, <2>2, <2>3, <2>4 DEF WishFits
<1> QED BY <1>1, <1>5, <1>6 DEF WishUse

\* What becomes of the request on the wire, and of the device, agrees with the
\* wishes that are kept.
LEMMA WishWorld ==
  ASSUME EntityInv, World PROVE WishUse'
<1> USE DEF EntityInv, CacheInv
<1>0. wanted \in [Entities -> Wishes] /\ dev \in [Keys -> AllValues]
  BY DEF TypeOK, ConnectorTypes
<1>1. CASE Repeated /\ UNCHANGED ownVars
  BY <1>1, WishRepeated
<1>2. CASE (GetAnswered \/ PutTaken \/ PutUnconfirmed \/ Failed) /\ UNCHANGED ownVars
  <2>1. queue # << >> /\ reply = NoReply /\ UNCHANGED <<queue, ask, class, shown, job, wanted>>
    BY <1>2 DEF GetAnswered, PutTaken, PutUnconfirmed, Failed, Pending, ownVars
  <2>2. \/ dev' = dev /\ OnWire.op = "get" /\ reply'.val = dev[OnWire.key]
        \/ OnWire.op = "put" /\ dev' = [dev EXCEPT ![OnWire.key] = OnWire.val]
        \/ dev' = dev /\ reply'.st \in {"refused", "down"}
    BY <1>2 DEF GetAnswered, PutTaken, PutUnconfirmed, Failed, NoReply
  <2>3. \A d \in Entities : Commanding(Head(queue), d) => OnWire.op = "put"
    BY <2>1, OnWireCommands
  <2>4. ASSUME NEW d \in Entities, wanted[d] # NoWish
        PROVE  WishFits(d, wanted[d].by, wanted[d].val)'
    <3>1. dev' = dev \/ (OnWire.op = "put" /\ dev' = [dev EXCEPT ![OnWire.key] = OnWire.val])
      BY <2>2
    <3>2. reply'.st = "ok" => OnWire.op = "put" \/ reply'.val = dev[OnWire.key]
      BY <2>2
    <3>3. Commanding(Head(queue), d) /\ reply'.st \in {"ok", "void"} =>
            dev' = [dev EXCEPT ![OnWire.key] = OnWire.val]
      BY <2>2, <2>3
    <3>4. wanted'[d] = wanted[d]
      BY <2>1
    <3> QED BY <2>1, <2>4, <3>1, <3>2, <3>3, <3>4, WishAnswered
  <2> QED BY <2>1, <2>4 DEF WishUse, Idle
<1>3. CASE AnsweredNothing
  <2>1. /\ queue # << >> /\ reply = NoReply /\ UNCHANGED <<queue, ask, class, shown, job, wanted>>
        /\ dev' = dev /\ OnWire.op = "get" /\ reply'.st = "void"
    BY <1>3 DEF AnsweredNothing, Pending, NoReply, ownVars
  <2>2. \A d \in Entities : ~Commanding(Head(queue), d)
    BY <2>1, OnWireCommands
  <2>3. ASSUME NEW d \in Entities, wanted[d] # NoWish
        PROVE  WishFits(d, wanted[d].by, wanted[d].val)'
    <3>1. wanted'[d] = wanted[d]
      BY <2>1
    <3> QED BY <2>1, <2>2, <2>3, <3>1, WishAnswered
  <2> QED BY <2>1, <2>3 DEF WishUse, Idle
<1>4. CASE RefusedInSilence
  <2>1. /\ queue # << >> /\ reply = NoReply /\ UNCHANGED <<queue, ask, class, shown, job>>
        /\ dev' = dev /\ OnWire.op = "put" /\ reply'.st = "void"
        /\ wanted' = [wanted EXCEPT ![job[Head(queue)].of] = NoWish]
    BY <1>4 DEF RefusedInSilence, Pending, NoReply
  <2>2. ASSUME NEW d \in Entities, wanted'[d] # NoWish
        PROVE  wanted'[d] = wanted[d] /\ WishFits(d, wanted[d].by, wanted[d].val)'
    <3>1. d # job[Head(queue)].of /\ wanted'[d] = wanted[d]
      BY <1>0, <2>1, <2>2
    <3>2. ~Commanding(Head(queue), d)
      BY <3>1 DEF Commanding
    <3>3. wanted[d] # NoWish /\ (reply'.st = "ok" => OnWire.op = "put")
      BY <2>1, <2>2, <3>1
    <3> QED BY <2>1, <3>1, <3>2, <3>3, WishAnswered
  <2> QED BY <2>1, <2>2 DEF WishUse, Idle
<1>5. CASE OwnerChanges /\ wanted' = [e \in Entities |-> IF dev'[KeyOf[e]] # dev[KeyOf[e]]
                                                        THEN NoWish ELSE wanted[e]]
  <2>1. UNCHANGED <<queue, ask, reply, class, shown, job>>
    BY <1>5 DEF OwnerChanges, World, ownVars, AnsweredNothing, RefusedInSilence
  <2>2. ASSUME NEW d \in Entities, wanted'[d] # NoWish
        PROVE  WishFits(d, wanted[d].by, wanted[d].val)' /\ wanted'[d] = wanted[d]
    <3>1. wanted'[d] = wanted[d] /\ dev'[KeyOf[d]] = dev[KeyOf[d]]
      BY <1>5, <2>2
    <3>2. WishFits(d, wanted[d].by, wanted[d].val)
      BY <2>2, <3>1 DEF WishUse
    <3> QED BY <2>1, <3>1, <3>2 DEF WishFits, Settable, Alone, Commanding, Returned, Arriving
  <2> QED BY <2>1, <2>2 DEF WishUse, Idle
<1> QED BY <1>1, <1>2, <1>3, <1>4, <1>5 DEF World, DeviceStep

\* A task that is cancelled takes its own wish with it and no other.
LEMMA WishCancel ==
  ASSUME EntityInv, NEW t \in Tasks, Cancelled(t) PROVE WishUse'
<1> USE DEF EntityInv, CacheInv
<1>0. /\ queue \in Seq(Tasks) /\ ask \in [Tasks -> AskTypes] /\ job \in [Tasks -> JobTypes]
      /\ dev \in [Keys -> AllValues]
  BY DEF TypeOK, ConnectorTypes
<1>1. PICK i \in 1..Len(queue) :
         /\ queue[i] = t /\ queue' = RemoveAt(queue, i)
         /\ IF i = 1
              THEN /\ reply' = NoReply
                   /\ \/ UNCHANGED dev
                      \/ /\ Pending /\ OnWire.op = "put" /\ OnWire.key \in Keys
                         /\ dev' = [dev EXCEPT ![OnWire.key] = OnWire.val]
              ELSE UNCHANGED <<dev, reply>>
  BY DEF Cancelled, Abandon
<1>2. /\ ask' = [ask EXCEPT ![t] = NoAsk] /\ job' = [job EXCEPT ![t] = Raised]
      /\ UNCHANGED <<class, shown>>
      /\ wanted' = [e \in Entities |-> IF wanted[e].by = t /\ job[t].of = e THEN NoWish ELSE wanted[e]]
  BY DEF Cancelled, Abandon, Become
<1>3. \A u, w \in Tasks \ {t} : Before(queue, u, w) => Before(queue', u, w)
  BY <1>0, <1>1, BeforeGivesUp
<1>4. \A u \in Tasks \ {t} : job'[u] = job[u] /\ ask'[u] = ask[u]
  BY <1>0, <1>2
<1>5. Idle(t)' /\ \A d \in Entities : ~Commanding(t, d)'
  BY <1>0, <1>2 DEF Idle, Commanding, Raised
<1>6. \A u \in Tasks : Idle(u)' \/ Before(queue', u, u)
  BY <1>3, <1>4, <1>5 DEF WishUse, Idle
<1>7. ASSUME NEW d \in Entities, wanted'[d] # NoWish
      PROVE  WishFits(d, wanted[d].by, wanted[d].val)' /\ wanted'[d] = wanted[d]
  <2> DEFINE by == wanted[d].by
             v == wanted[d].val
  <2>1. wanted'[d] = wanted[d] /\ ~(by = t /\ job[t].of = d)
    BY <1>2, <1>7
  <2>2. WishFits(d, by, v) /\ KeyOf[d] \in Keys
    BY <1>7, <2>1, RecordTypes DEF WishUse
  <2>3. by' = by /\ v' = v /\ by \in Tasks /\ Settable(d)'
    BY <1>2, <2>1, <2>2 DEF WishFits, Settable
  <2>4. \A u \in Tasks : Commanding(u, d)' <=> Commanding(u, d) /\ u # t
    BY <1>4, <1>5 DEF Commanding
  <2>5. ~Alone(d) => by # t /\ Commanding(by, d)' /\ ask'[by].val = v /\ ~Alone(d)'
    <3> SUFFICES ASSUME ~Alone(d)
                 PROVE  by # t /\ Commanding(by, d)' /\ ask'[by].val = v /\ ~Alone(d)'
      OBVIOUS
    <3>1. Commanding(by, d) /\ ask[by].val = v
      BY <2>2 DEF WishFits
    <3>2. by # t
      BY <2>1, <3>1 DEF Commanding
    <3> QED BY <1>4, <2>3, <2>4, <3>1, <3>2 DEF Alone
  <2>6. Alone(d) => Alone(d)'
    BY <2>4 DEF Alone
  <2>7. \A u \in Tasks : Commanding(u, d)' => Before(queue', u, by)
    <3> SUFFICES ASSUME NEW u \in Tasks, Commanding(u, d)' PROVE Before(queue', u, by)
      OBVIOUS
    <3>1. Commanding(u, d) /\ u # t /\ by # t
      BY <2>4, <2>5 DEF Alone
    <3> QED BY <1>3, <2>2, <2>3, <3>1 DEF WishFits
  <2>8. CASE i = 1
    <3>1. queue # << >> /\ Head(queue) = t /\ reply' = NoReply
      BY <1>0, <1>1, <2>8
    <3>2. ~Returned(by)' /\ ~Arriving(KeyOf[d])'
      BY <3>1 DEF Returned, Arriving, NoReply
    <3>3. ASSUME Alone(d) PROVE dev'[KeyOf[d]] = v /\ shown'[d] = v
      <4>1. ~(OnWire.op = "put" /\ OnWire.key = KeyOf[d])
        BY <3>1, <3>3, OnWireCommands DEF Alone
      <4>2. dev'[KeyOf[d]] = dev[KeyOf[d]]
        BY <1>0, <1>1, <2>2, <2>8, <4>1
      <4> QED BY <1>2, <2>2, <3>3, <4>2 DEF WishFits
    <3> QED BY <2>1, <2>3, <2>5, <2>6, <2>7, <3>2, <3>3 DEF WishFits
  <2>9. CASE i # 1
    <3>1. UNCHANGED <<dev, reply>> /\ queue # << >> /\ queue' # << >> /\ Head(queue') = Head(queue)
          /\ Head(queue) \in Tasks
      BY <1>0, <1>1, <2>9, GivesUp DEF QueueUse
    <3>2. Head(queue) # t
      <4>1. Once(queue) /\ 1 \in 1..Len(queue) /\ Head(queue) = queue[1]
        BY <1>0, <3>1 DEF QueueUse
      <4> QED BY <1>1, <2>9, <4>1 DEF Once
    <3>3. Arriving(KeyOf[d])' => Arriving(KeyOf[d])
      BY <1>4, <3>1, <3>2 DEF Arriving
    <3>4. Returned(by)' => Returned(by)
      BY <2>3, <3>1 DEF Returned
    <3>5. Alone(d) => dev'[KeyOf[d]] = v /\ shown'[d] = v /\ (Arriving(KeyOf[d])' => reply'.val = v)
      BY <1>2, <2>2, <3>1, <3>3 DEF WishFits
    <3>6. Commanding(by, d)' /\ Returned(by)' /\ reply'.st \in {"ok", "void"} => dev'[KeyOf[d]] = v
      BY <2>2, <2>3, <2>4, <3>1, <3>4 DEF WishFits
    <3> QED BY <2>1, <2>3, <2>5, <2>6, <2>7, <3>5, <3>6 DEF WishFits
  <2> QED BY <2>8, <2>9
<1> QED BY <1>6, <1>7 DEF WishUse

-----------------------------------------------------------------------------
(* The theorems                                                            *)

\* Nobody wants anything at the start.
LEMMA EntityStart == Init => EntityInv
<1> SUFFICES ASSUME Init PROVE EntityInv
  OBVIOUS
<1>1. \A t \in Tasks : Idle(t)
  BY DEF Init, Idle
<1>2. \A e \in Entities : wanted[e] = NoWish
  BY DEF Init
<1> QED BY <1>1, <1>2, CacheStart DEF EntityInv, WishUse

\* Every step keeps what the entities know and what is wanted of them.
LEMMA EntityStep == EntityInv /\ [Next]_vars => EntityInv'
<1> SUFFICES ASSUME EntityInv, [Next]_vars PROVE EntityInv'
  OBVIOUS
<1>1. CacheInv'
  BY CacheStep DEF EntityInv
<1>2. CASE World
  BY <1>1, <1>2, WishWorld DEF EntityInv
<1>3. ASSUME NEW t \in Tasks, UpdateDone(t) \/ UpdateFailed(t) \/ CommandDone(t) \/ Cancelled(t)
      PROVE  EntityInv'
  BY <1>1, <1>3, WishReturn, WishCancel DEF EntityInv
<1>4. ASSUME NEW t \in Tasks, NEW e \in Entities, Call(t, e) PROVE EntityInv'
  BY <1>1, <1>4, WishCall DEF EntityInv
<1>5. CASE UNCHANGED vars
  <2>1. UNCHANGED <<dev, queue, ask, reply, stale, class, shown, job, wanted>>
    BY <1>5 DEF vars, connectorVars, ownVars
  <2> QED BY <1>1, <2>1 DEF EntityInv, WishUse, WishFits, Settable, Alone, Commanding, Returned,
          Arriving, Idle
<1> QED BY <1>2, <1>3, <1>4, <1>5 DEF Next

\* Types are kept, a busy task waits once in the queue for the request of its
\* call, an answer that arrived is what the device holds, the entities show
\* what they may show, and the command that is to hold is the last one queued.
THEOREM EntityInvariance == Spec => []EntityInv
BY EntityStart, EntityStep, PTL DEF Spec

\* An entity shows what the device has, unless somebody else has changed it
\* since, for any number of tasks that poll, command and are cancelled.
THEOREM EntitiesShowTheDevice == Spec => []ShownKnown
<1>1. EntityInv => ShownKnown
  BY DEF EntityInv, CacheInv
<1> QED BY <1>1, EntityInvariance, PTL

\* Once every command to an entity has returned, the device has the value of
\* the last one and the entity shows it, however the commands and polls of any
\* number of tasks were mixed with each other.
THEOREM LastCommandHolds == Spec => []LastCommandWins
<1>1. EntityInv => LastCommandWins
  BY DEF EntityInv, WishUse, WishFits, LastCommandWins
<1> QED BY <1>1, EntityInvariance, PTL

-----------------------------------------------------------------------------
(* Overrides: what NEFIT circuits and zones show, for every set of tasks,  *)
(* circuits, programs and values.                                          *)

\* The records and the values that the requests are made of.
LEMMA WorkTypes ==
  /\ NoWork \in Works /\ \A k \in Keys \cup {"target"} : Get(k) \in Requests
  /\ \A k \in Keys : Domain[k] \subseteq AllValues
  /\ \A k \in Keys, v \in AllValues : Put(k, v) \in Requests
  /\ \A k \in {"list", "preset", "active"} : Work(k) \in Works \ {NoWork} /\ Work(k).kind = k
  /\ \A p \in 1..4 : Polling(p) \in Works \ {NoWork} /\ Polling(p).kind = "update" /\ Polling(p).pos = p
<1>1. \A k \in Keys : Domain[k] \subseteq AllValues
  BY DEF AllValues
<1>2. NoWork \in Works
  BY DEF NoWork, Works
<1>3. \A k \in Keys \cup {"target"} : Get(k) \in Requests
  BY DEF Get, NoAsk, Requests
<1>4. \A k \in Keys, v \in AllValues : Put(k, v) \in Requests
  BY DEF Put, Requests
<1>5. ASSUME NEW k \in {"list", "preset", "active"}
      PROVE  Work(k) \in Works \ {NoWork} /\ Work(k).kind = k
  <2>1. Work(k) \in Works
    BY <1>2 DEF Works, Work
  <2>2. Work(k).kind = k /\ NoWork.kind = "none"
    BY DEF Work, NoWork
  <2> QED BY <2>1, <2>2
<1>6. ASSUME NEW p \in 1..4
      PROVE  Polling(p) \in Works \ {NoWork} /\ Polling(p).kind = "update" /\ Polling(p).pos = p
  <2>0. Work("update") \in Works /\ p \in 0..4
    BY <1>2 DEF Works, Work
  <2>1. Polling(p) \in Works
    BY <2>0 DEF Works, Polling
  <2>2. Polling(p).kind = "update" /\ Polling(p).pos = p /\ NoWork.kind = "none"
    BY DEF Polling, Work, NoWork
  <2> QED BY <2>1, <2>2
<1> QED BY <1>1, <1>2, <1>3, <1>4, <1>5, <1>6

USE KeyAssumption, OverrideAssumption

\* What depends on nothing but the circuit stays as it is.
LEMMA SameSite ==
  ASSUME site' = site
  PROVE  /\ family' = family /\ used' = used /\ Poll' = Poll
         /\ \A j, r : WorkFits(j, r)' <=> WorkFits(j, r)
BY DEF family, used, Poll, WorkFits

\* A task at rest calls the connector.
LEMMA AskStep ==
  ASSUME OverrideInv, site' = site, NEW t \in Tasks, AtRest(t),
         NEW r \in Requests, NEW j \in Works, j # NoWork, WorkFits(j, r), Ask(t, r), WorkOn(t, j)
  PROVE  /\ queue' \in Seq(Tasks) /\ ask' \in [Tasks -> Requests] /\ work' \in [Tasks -> Works]
         /\ WorkUse'
         /\ queue # << >> => queue' # << >> /\ Head(queue') = Head(queue) /\ OnWire' = OnWire
         /\ queue = << >> => reply = NoReply
         /\ ~Returned(t) /\ \A u \in Tasks : Returned(u)' <=> Returned(u)
<1> USE DEF OverrideInv, OverrideTypes
<1>1. /\ queue' = Append(queue, t) /\ ask' = [ask EXCEPT ![t] = r] /\ reply' = reply
      /\ work' = [work EXCEPT ![t] = j] /\ ~Among(t, queue)
  BY DEF Ask, WorkOn, WorkUse
<1>0. \A i \in 1..Len(queue) : queue[i] # t
  BY <1>1 DEF Among
<1>2. /\ queue' \in Seq(Tasks) /\ Once(queue')
      /\ queue # << >> => queue' # << >> /\ Head(queue') = Head(queue)
  BY <1>0, <1>1, Joins DEF WorkUse
<1>3. queue # << >> => Head(queue) \in Tasks /\ Head(queue) # t
  BY <1>0
<1>4. ASSUME NEW u \in Tasks PROVE AtRest(u)' <=> ~Among(u, queue')
  BY <1>1, StillAmong DEF WorkUse, AtRest
<1>5. ASSUME NEW u \in Tasks PROVE WorkFits(work[u], ask[u])'
  BY <1>1, SameSite DEF WorkUse
<1>6. WorkUse'
  BY <1>2, <1>4, <1>5 DEF WorkUse
<1>7. ASSUME queue = << >> PROVE reply = NoReply
  BY <1>7 DEF AnswerUse
<1>8. \A u \in Tasks : Returned(u)' <=> Returned(u)
  BY <1>1, <1>2, <1>7 DEF Returned
<1>9. OnWire' = OnWire \/ queue = << >>
  BY <1>1, <1>2, <1>3 DEF OnWire
<1> QED BY <1>1, <1>2, <1>3, <1>6, <1>7, <1>8, <1>9 DEF Returned

\* The task whose request has an outcome makes another one.
LEMMA AgainStep ==
  ASSUME OverrideInv, site' = site, NEW t \in Tasks, Returned(t), ~AtRest(t),
         NEW r \in Requests, NEW j \in Works, j # NoWork, WorkFits(j, r), AskAgain(t, r), WorkOn(t, j)
  PROVE  /\ queue' \in Seq(Tasks) /\ ask' \in [Tasks -> Requests] /\ work' \in [Tasks -> Works]
         /\ WorkUse' /\ reply' = NoReply
<1> USE DEF OverrideInv, OverrideTypes
<1>1. /\ queue' = Append(Tail(queue), t) /\ ask' = [ask EXCEPT ![t] = r] /\ reply' = NoReply
      /\ work' = [work EXCEPT ![t] = j] /\ queue # << >> /\ Head(queue) = t
  BY DEF AskAgain, WorkOn, Returned
<1>2. queue' \in Seq(Tasks) /\ Once(queue')
  BY <1>1, Requeues DEF WorkUse
<1>3. Tail(queue) \in Seq(Tasks)
  BY <1>1
<1>4. ASSUME NEW u \in Tasks PROVE AtRest(u)' <=> ~Among(u, queue')
  <2>1. Among(u, queue) <=> Among(u, queue')
    BY <1>1, <1>3, StillAmong
  <2>2. AtRest(u)' <=> AtRest(u)
    BY <1>1 DEF AtRest
  <2> QED BY <2>1, <2>2 DEF WorkUse
<1>5. ASSUME NEW u \in Tasks PROVE WorkFits(work[u], ask[u])'
  BY <1>1, SameSite DEF WorkUse
<1> QED BY <1>1, <1>2, <1>4, <1>5 DEF WorkUse

\* Or its call returns.
LEMMA DoneStep ==
  ASSUME OverrideInv, site' = site, NEW t \in Tasks, Returned(t), Done(t)
  PROVE  /\ queue' \in Seq(Tasks) /\ ask' \in [Tasks -> Requests] /\ work' \in [Tasks -> Works]
         /\ WorkUse' /\ reply' = NoReply
<1> USE DEF OverrideInv, OverrideTypes
<1>1. /\ queue' = Tail(queue) /\ ask' = [ask EXCEPT ![t] = NoAsk] /\ reply' = NoReply
      /\ work' = [work EXCEPT ![t] = NoWork] /\ queue # << >> /\ Head(queue) = t
  BY DEF Done, Leave, WorkOn, Returned
<1>2. queue' \in Seq(Tasks) /\ Once(queue') /\ ~Among(t, queue')
  BY <1>1, Leaves DEF WorkUse, Among
<1>3. NoAsk \in Requests /\ NoWork \in Works
  BY DEF NoAsk, NoWork, Works, Requests
<1>4. ASSUME NEW u \in Tasks PROVE AtRest(u)' <=> ~Among(u, queue')
  <2>1. CASE u = t
    BY <1>1, <1>2, <2>1 DEF AtRest
  <2>2. CASE u # t
    <3>1. Among(u, queue) <=> Among(u, queue')
      BY <1>1, <2>2, StillAmong
    <3>2. AtRest(u)' <=> AtRest(u)
      BY <1>1, <2>2 DEF AtRest
    <3> QED BY <3>1, <3>2 DEF WorkUse
  <2> QED BY <2>1, <2>2
<1>5. ASSUME NEW u \in Tasks PROVE WorkFits(work[u], ask[u])'
  <2>1. WorkFits(NoWork, NoAsk)
    BY DEF WorkFits, NoWork
  <2> QED BY <1>1, <2>1, SameSite DEF WorkUse
<1>6. ask' \in [Tasks -> Requests] /\ work' \in [Tasks -> Works]
  BY <1>1, <1>3
<1> QED BY <1>1, <1>2, <1>4, <1>5, <1>6 DEF WorkUse

\* What a task awaits, it awaits for its call.
LEMMA Awaited ==
  ASSUME OverrideInv, NEW t \in Tasks
  PROVE  /\ ask[t] \in Requests /\ work[t] \in Works
         /\ work[t].kind = "none" <=> AtRest(t)
         /\ ~AtRest(t) /\ ask[t].op = "put" =>
              /\ ask[t].key \in Keys \ {"list", "schedule", "target"}
              /\ ask[t].val \in Domain[ask[t].key]
         /\ work[t].kind = "list" => ask[t].op = "get" /\ ask[t].key = "list"
         /\ work[t].kind = "update" => /\ ask[t].op = "get" /\ work[t].pos \in 1..Len(Poll)
                                       /\ ask[t].key = Poll[work[t].pos]
                                       /\ ask[t].key \in {"mode", "manual", "target", "program"}
         /\ work[t].kind \in {"temp", "override"} =>
              /\ ask[t].op = "put" /\ ask[t].key \in {"manual", "override"}
              /\ ask[t].val = work[t].val /\ work[t].val \in Requested
         /\ work[t].kind = "override" => ask[t].key = "override"
         /\ work[t].kind = "status" => /\ ask[t].op = "put" /\ ask[t].key = "status" /\ ask[t].val = "on"
                                       /\ work[t].val \in Requested
         /\ work[t].kind = "mode" => /\ ask[t].op = "put" /\ ask[t].key = "mode"
                                     /\ ask[t].val = work[t].val /\ work[t].val \in Modes
         /\ work[t].kind = "preset" => ask[t].op = "put" /\ ask[t].key = "program"
         /\ work[t].kind = "active" => ask[t].op = "get" /\ ask[t].key = "program"
<1> USE DEF OverrideInv, OverrideTypes
<1> DEFINE j == work[t]
           r == ask[t]
<1>1. r \in Requests /\ j \in Works /\ WorkFits(j, r)
  BY DEF WorkUse
<1> HIDE DEF j, r
<1>2. j.kind \in {"none", "list", "update", "override", "temp", "status", "mode", "preset", "active"}
  BY <1>1 DEF Works
<1>3. j.kind = "none" <=> j = NoWork
  BY <1>1, <1>2 DEF WorkFits, NoWork
<1>4. CASE j.kind = "update"
  <2>1. r.op = "get" /\ j.pos \in 1..Len(Poll) /\ r.key = Poll[j.pos]
    BY <1>1, <1>4 DEF WorkFits
  <2>2. \A i \in 1..Len(Poll) : Poll[i] \in {"mode", "manual", "target", "program"}
    <3>1. CASE family = "nefit"
      <4>1. Poll = <<"mode", "target">>
        BY <3>1 DEF Poll
      <4> QED BY <4>1
    <3>2. CASE family # "nefit"
      <4>1. Poll = <<"mode", "manual", "target", "program">>
        BY <3>2 DEF Poll
      <4> QED BY <4>1
    <3> QED BY <3>1, <3>2
  <2> QED BY <1>1, <1>3, <1>4, <2>1, <2>2 DEF r, j, AtRest
<1>5. CASE j.kind # "update"
  BY <1>1, <1>2, <1>3, <1>5 DEF WorkFits, NoWork, Modes, r, j, AtRest
<1> QED BY <1>4, <1>5

\* What is known of the circuit and the device does not depend on who waits.
LEMMA SameReadings ==
  ASSUME UNCHANGED <<site, dev>>
  PROVE  \A k : Held(dev, k)' = Held(dev, k)
BY DEF Held, Effective, Overridden, family, used

\* A task at rest that calls the connector leaves everything as it is known; a
\* temperature goes to the resource that the mode tells.
LEMMA Asking ==
  ASSUME OverrideInv, NEW t \in Tasks, AtRest(t),
         NEW r \in Requests, NEW j \in Works, j # NoWork, WorkFits(j, r), Ask(t, r), WorkOn(t, j),
         UNCHANGED <<site, cache, opMode, programs, fresh, unread>>,
         met' \in SUBSET Tasks, met \ {t} \subseteq met',
         j.kind \in {"temp", "override", "status"} =>
           /\ j.kind # "status" /\ opMode # NotRead /\ ("mode" \in stale => t \in met')
           /\ j.kind = "temp" => r.key = WriteKey /\ (family = "nefit" => WriteKey = "manual")
           /\ j.kind = "override" => family = "nefit" /\ WriteKey = "override"
  PROVE  OverrideInv'
<1>1. /\ queue' \in Seq(Tasks) /\ ask' \in [Tasks -> Requests] /\ work' \in [Tasks -> Works]
      /\ WorkUse'
      /\ queue # << >> => queue' # << >> /\ Head(queue') = Head(queue) /\ OnWire' = OnWire
      /\ queue = << >> => reply = NoReply
      /\ ~Returned(t) /\ \A u \in Tasks : Returned(u)' <=> Returned(u)
  BY AskStep
<1>2. /\ ask'[t] = r /\ work'[t] = j /\ \A u \in Tasks \ {t} : ask'[u] = ask[u] /\ work'[u] = work[u]
      /\ UNCHANGED <<dev, reply, stale, changes>>
  BY DEF Ask, WorkOn, OverrideInv, OverrideTypes
<1>3. /\ \A k : Held(dev, k)' = Held(dev, k)
      /\ WriteKey' = WriteKey /\ family' = family
  BY <1>2, SameReadings DEF WriteKey, CurrentMode, family, used
<1>4. /\ \A k : Answering(k)' <=> Answering(k)
      /\ \A k : Arrived(k)' <=> Arrived(k)
      /\ ModeRead' <=> ModeRead
  BY <1>1, <1>2 DEF Answering, Arrived, ModeRead, NoReply
<1>5. OverrideTypes'
  BY <1>1, <1>2 DEF OverrideInv, OverrideTypes
<1>6. AnswerUse'
  <2>1. CASE queue = << >>
    BY <1>1, <1>2, <1>3, <1>4, <2>1 DEF OverrideInv, AnswerUse, NoReply, Answering
  <2>2. CASE queue # << >>
    BY <1>1, <1>2, <1>3, <1>4, <2>2 DEF OverrideInv, AnswerUse
  <2> QED BY <2>1, <2>2
<1>7. ModeUse'
  BY <1>2, <1>4 DEF OverrideInv, ModeUse
<1>8. CommandUse'
  <2> SUFFICES ASSUME NEW u \in Tasks \ met', Setting(u)' PROVE Unmet(u)'
    BY DEF CommandUse
  <2>1. CASE u = t
    <3>1. opMode # NotRead /\ ModeRead
      BY <1>2, <2>1 DEF Setting, OverrideInv, ModeUse
    <3> QED BY <1>1, <1>2, <1>3, <1>4, <2>1, <3>1 DEF Unmet, Setting
  <2>2. CASE u # t
    BY <1>1, <1>2, <1>3, <1>4, <2>2 DEF Unmet, Setting, OverrideInv, CommandUse
  <2> QED BY <2>1, <2>2
<1>9. KnownShown' /\ ProgramsKnown'
  BY <1>2, <1>3, <1>4 DEF OverrideInv, KnownShown, ProgramsKnown
<1> QED BY <1>1, <1>5, <1>6, <1>7, <1>8, <1>9 DEF OverrideInv

\* A task that goes on leaves an answer behind for nobody.
LEMMA GoingOn ==
  ASSUME OverrideInv, NEW t \in Tasks, Returned(t), ~AtRest(t),
         UNCHANGED <<site, dev, stale, changes>>,
         NEW r \in Requests, NEW j \in Works,
         \/ j # NoWork /\ WorkFits(j, r) /\ AskAgain(t, r) /\ WorkOn(t, j)
         \/ j = NoWork /\ Done(t),
         cache' \in [Shown -> AllValues \cup {NotRead}], opMode' \in Modes \cup {NotRead},
         programs' \in [Ids -> Names], fresh' \in BOOLEAN, unread' \subseteq Shown,
         met' = IF opMode' # opMode THEN Tasks ELSE met,
         "mode" \notin stale => opMode' = dev["mode"],
         opMode' = opMode /\ ModeRead => opMode = dev["mode"],
         j.kind \notin {"temp", "override"},
         j.kind = "status" /\ t \notin met =>
           opMode' = opMode /\ family = "nefit" /\ WriteKey = "override" /\ opMode # NotRead
           /\ (j.res => dev["override"] = j.val) /\ ModeRead,
         \A k \in Shown \ unread' : cache'[k] = Held(dev, k),
         "list" \notin stale =>
           \A i \in Ids : Lists[dev["list"]][i] # NoName => programs'[i] = Lists[dev["list"]][i]
  PROVE  OverrideInv'
<1>1. /\ queue' \in Seq(Tasks) /\ ask' \in [Tasks -> Requests] /\ work' \in [Tasks -> Works]
      /\ WorkUse' /\ reply' = NoReply
  BY AgainStep, DoneStep
<1>2. /\ work'[t] = j /\ \A u \in Tasks \ {t} : ask'[u] = ask[u] /\ work'[u] = work[u]
  BY DEF AskAgain, Done, Leave, WorkOn, OverrideInv, OverrideTypes
<1>3. /\ \A k : Held(dev, k)' = Held(dev, k)
      /\ family' = family /\ (opMode' = opMode => WriteKey' = WriteKey)
  BY SameReadings DEF WriteKey, CurrentMode, family, used
<1>4. /\ \A k : ~Answering(k)' /\ ~Arrived(k)'
      /\ \A u \in Tasks : ~Returned(u)'
      /\ ModeRead' <=> opMode' = dev["mode"]
  BY <1>1 DEF Answering, Arrived, ModeRead, Returned, NoReply
<1>5. OverrideTypes'
  BY <1>1 DEF OverrideInv, OverrideTypes, NoReply, ReplyTypes
<1>6. AnswerUse'
  BY <1>1, <1>4 DEF AnswerUse, NoReply
<1>7. ModeUse'
  BY <1>4 DEF ModeUse
<1>8. CommandUse'
  <2> SUFFICES ASSUME NEW u \in Tasks \ met', Setting(u)' PROVE Unmet(u)'
    BY DEF CommandUse
  <2>1. opMode' = opMode /\ u \notin met
    OBVIOUS
  <2>2. CASE u = t
    <3>1. j.kind = "status"
      BY <1>2, <2>2 DEF Setting
    <3>2. opMode = dev["mode"]
      BY <2>1, <2>2, <3>1
    <3> QED BY <1>2, <1>3, <1>4, <2>1, <2>2, <3>1, <3>2 DEF Unmet
  <2>3. CASE u # t
    <3>1. Setting(u) /\ Unmet(u)
      BY <1>2, <2>1, <2>3 DEF Setting, OverrideInv, CommandUse
    <3>2. opMode = dev["mode"]
      BY <2>1, <3>1 DEF Unmet
    <3> QED BY <1>2, <1>3, <1>4, <2>1, <2>3, <3>1, <3>2 DEF Unmet
  <2> QED BY <2>2, <2>3
<1>9. KnownShown' /\ ProgramsKnown'
  BY <1>3, <1>4 DEF KnownShown, ProgramsKnown
<1> QED BY <1>1, <1>5, <1>6, <1>7, <1>8, <1>9 DEF OverrideInv

\* A poll asks for at most four resources, one after the other.
LEMMA PollFits ==
  ASSUME NEW p \in 1..Len(Poll)
  PROVE  /\ Get(Poll[p]) \in Requests /\ Polling(p) \in Works \ {NoWork}
         /\ Polling(p).kind = "update" /\ WorkFits(Polling(p), Get(Poll[p]))
         /\ Len(Poll) \in 1..4
<1>1. Len(Poll) \in {2, 4} /\ Poll[p] \in {"mode", "manual", "target", "program"}
  <2>1. CASE family = "nefit"
    <3>1. Poll = <<"mode", "target">>
      BY <2>1 DEF Poll
    <3> QED BY <3>1
  <2>2. CASE family # "nefit"
    <3>1. Poll = <<"mode", "manual", "target", "program">>
      BY <2>2 DEF Poll
    <3> QED BY <3>1
  <2> QED BY <2>1, <2>2
<1>2. p \in 1..4
  BY <1>1
<1>3. Get(Poll[p]).op = "get" /\ Get(Poll[p]).key = Poll[p]
  BY DEF Get, NoAsk
<1> QED BY <1>1, <1>2, <1>3, WorkTypes DEF WorkFits

\* Whoever the answer is for, it tells nothing of other resources.
LEMMA ForMe ==
  ASSUME OverrideInv, NEW t \in Tasks, Returned(t)
  PROVE  /\ OnWire = ask[t]
         /\ \A k : Answering(k) => reply.st = "ok" /\ ask[t].op = "get" /\ ask[t].key = k
         /\ \A k : reply.st = "ok" /\ ask[t].op = "get" /\ ask[t].key = k => Answering(k)
         /\ \A k : Arrived(k) <=> reply.st = "ok" /\ ask[t].key = k
         /\ \A k \in Shown \ unread : ~Answering(k) => cache[k] = Held(dev, k)
         /\ "list" \notin stale /\ ~Answering("list") =>
              \A i \in Ids : Lists[dev["list"]][i] # NoName => programs[i] = Lists[dev["list"]][i]
         /\ "mode" \notin stale /\ ~Arrived("mode") => opMode = dev["mode"]
         /\ ~Arrived("mode") => (ModeRead <=> opMode = dev["mode"])
BY DEF Returned, OnWire, Answering, Arrived, OverrideInv, KnownShown, ProgramsKnown, ModeUse, ModeRead

\* A task whose call returns.
LEMMA Finishing ==
  ASSUME OverrideInv, NEW t \in Tasks, Returned(t), ~AtRest(t), Done(t), site' = site,
         cache' \in [Shown -> AllValues \cup {NotRead}], opMode' \in Modes \cup {NotRead},
         programs' \in [Ids -> Names], fresh' \in BOOLEAN, unread' \subseteq Shown,
         met' = IF opMode' # opMode THEN Tasks ELSE met,
         "mode" \notin stale => opMode' = dev["mode"],
         opMode' = opMode /\ ModeRead => opMode = dev["mode"],
         \A k \in Shown \ unread' : cache'[k] = Held(dev, k),
         "list" \notin stale =>
           \A i \in Ids : Lists[dev["list"]][i] # NoName => programs'[i] = Lists[dev["list"]][i]
  PROVE  OverrideInv'
<1>1. NoWork.kind = "none" /\ NoWork \in Works /\ Get("list") \in Requests
  BY WorkTypes DEF NoWork
<1>2. UNCHANGED <<dev, stale, changes>>
  BY DEF Done, Leave
<1> QED BY <1>1, <1>2, GoingOn

\* The programs have arrived, or not.
LEMMA ListStep ==
  ASSUME OverrideInv, NEW t \in Tasks, ListDone(t) PROVE OverrideInv'
<1> USE DEF ListDone, Back, Keep
<1>1. Returned(t) /\ work[t].kind = "list" /\ ~AtRest(t) /\ ask[t].op = "get" /\ ask[t].key = "list"
  BY Awaited
<1>2. UNCHANGED <<site, dev, stale, changes, cache, opMode, unread, met>>
  BY DEF AskAgain, Done, Leave
<1>3. ~Arrived("mode") /\ \A k \in Shown : ~Answering(k)
  BY <1>1, ForMe DEF Shown
<1>4. /\ \A k \in Shown \ unread : cache[k] = Held(dev, k)
      /\ "mode" \notin stale => opMode = dev["mode"]
      /\ ModeRead => opMode = dev["mode"]
  BY <1>1, <1>3, ForMe
<1>5. CASE reply.st = "ok"
  <2>1. /\ programs' = ListLearned(reply.val) /\ fresh' = TRUE
        /\ AskAgain(t, Get(Poll[1])) /\ WorkOn(t, Polling(1))
    BY <1>5
  <2>2. Answering("list") /\ reply.val \in DOMAIN Lists /\ ("list" \notin stale => reply.val = dev["list"])
    BY <1>1, <1>5, ForMe DEF OverrideInv, AnswerUse
  <2>3. programs' \in [Ids -> Names]
    <3>1. programs \in [Ids -> Names]
      BY DEF OverrideInv, OverrideTypes
    <3>2. \A i \in Ids : Lists[reply.val][i] \in Names
      BY <2>2 DEF Names
    <3> QED BY <2>1, <3>1, <3>2 DEF ListLearned
  <2>4. "list" \notin stale =>
          \A i \in Ids : Lists[dev["list"]][i] # NoName => programs'[i] = Lists[dev["list"]][i]
    BY <2>1, <2>2 DEF ListLearned
  <2>5. 1 \in 1..Len(Poll)
    BY DEF Poll
  <2>6. /\ Get(Poll[1]) \in Requests /\ Polling(1) \in Works \ {NoWork}
        /\ Polling(1).kind = "update" /\ WorkFits(Polling(1), Get(Poll[1]))
    BY <2>5, PollFits
  <2> QED BY <1>1, <1>2, <1>3, <1>4, <2>1, <2>3, <2>4, <2>6, GoingOn DEF OverrideInv, OverrideTypes
<1>6. CASE reply.st # "ok"
  <2>1. ~Answering("list")
    BY <1>1, <1>6, ForMe
  <2>2. "list" \notin stale =>
          \A i \in Ids : Lists[dev["list"]][i] # NoName => programs[i] = Lists[dev["list"]][i]
    BY <1>1, <2>1, ForMe
  <2>3. Done(t) /\ UNCHANGED <<programs, fresh>>
    BY <1>6
  <2>5. /\ cache \in [Shown -> AllValues \cup {NotRead}] /\ opMode \in Modes \cup {NotRead}
        /\ programs \in [Ids -> Names] /\ fresh \in BOOLEAN /\ unread \subseteq Shown
    BY DEF OverrideInv, OverrideTypes
  <2> QED BY <1>1, <1>2, <1>3, <1>4, <2>2, <2>3, <2>5, Finishing
<1> QED BY <1>5, <1>6

\* One resource of a poll after the other.
LEMMA PollStep ==
  ASSUME OverrideInv, NEW t \in Tasks, PollNext(t) PROVE OverrideInv'
<1> USE DEF PollNext, Back, Keep
<1> DEFINE k == Poll[work[t].pos]
<1>1. /\ Returned(t) /\ work[t].kind = "update" /\ ~AtRest(t) /\ work[t].pos \in 1..Len(Poll)
      /\ ask[t].op = "get" /\ ask[t].key = k /\ k \in Shown \cup {"mode"}
  BY Awaited DEF Shown
<1>2. /\ UNCHANGED <<site, dev, stale, changes, programs, fresh, unread>>
      /\ met' = IF opMode' # opMode THEN Tasks ELSE met
      /\ reply.st # "ok" => UNCHANGED <<cache, opMode>>
      /\ reply.st = "ok" /\ k = "mode" => opMode' = reply.val /\ cache' = cache
      /\ reply.st = "ok" /\ k # "mode" => cache' = [cache EXCEPT ![k] = reply.val] /\ opMode' = opMode
      /\ work[t].pos = Len(Poll) => Done(t)
      /\ work[t].pos # Len(Poll) =>
           AskAgain(t, Get(Poll[work[t].pos + 1])) /\ WorkOn(t, Polling(work[t].pos + 1))
  BY DEF AskAgain, Done, Leave
<1>3. /\ cache \in [Shown -> AllValues \cup {NotRead}] /\ opMode \in Modes \cup {NotRead}
      /\ programs \in [Ids -> Names] /\ fresh \in BOOLEAN /\ unread \subseteq Shown
  BY DEF OverrideInv, OverrideTypes
<1> HIDE DEF k, PollNext
<1>4. /\ reply.st = "ok" /\ k = "mode" => reply.val \in Modes
      /\ reply.st = "ok" /\ k \in Shown =>
           reply.val \in AllValues /\ (k \notin unread => reply.val = Held(dev, k))
  BY <1>1, ForMe DEF OverrideInv, AnswerUse
<1>5. /\ cache' \in [Shown -> AllValues \cup {NotRead}] /\ opMode' \in Modes \cup {NotRead}
      /\ programs' \in [Ids -> Names] /\ fresh' \in BOOLEAN /\ unread' \subseteq Shown
  BY <1>1, <1>2, <1>3, <1>4 DEF Shown
<1>6. \A x \in Shown \ unread' : cache'[x] = Held(dev, x)
  <2> TAKE x \in Shown \ unread'
  <2>1. CASE reply.st = "ok" /\ x = k
    <3>1. cache'[x] = reply.val
      BY <1>2, <1>3, <2>1 DEF Shown
    <3> QED BY <1>2, <1>4, <2>1, <3>1
  <2>2. CASE ~(reply.st = "ok" /\ x = k)
    <3>1. ~Answering(x) /\ cache'[x] = cache[x]
      BY <1>1, <1>2, <1>3, <2>2, ForMe
    <3> QED BY <1>1, <1>2, <3>1, ForMe
  <2> QED BY <2>1, <2>2
<1>7. "list" \notin stale =>
        \A i \in Ids : Lists[dev["list"]][i] # NoName => programs'[i] = Lists[dev["list"]][i]
  <2>1. ~Answering("list")
    BY <1>1, ForMe DEF Shown
  <2> QED BY <1>1, <1>2, <2>1, ForMe
<1>8. /\ "mode" \notin stale => opMode' = dev["mode"]
      /\ opMode' = opMode /\ ModeRead => opMode = dev["mode"]
  <2>1. CASE reply.st = "ok" /\ k = "mode"
    <3>1. Arrived("mode") /\ OnWire.op = "get"
      BY <1>1, <2>1, ForMe
    <3> QED BY <1>2, <2>1, <3>1 DEF OverrideInv, ModeUse, ModeRead
  <2>2. CASE ~(reply.st = "ok" /\ k = "mode")
    <3>1. ~Arrived("mode") /\ opMode' = opMode
      BY <1>1, <1>2, <2>2, ForMe
    <3> QED BY <1>1, <3>1, ForMe DEF ModeRead
  <2> QED BY <2>1, <2>2
<1>9. CASE work[t].pos = Len(Poll)
  BY <1>1, <1>2, <1>5, <1>6, <1>7, <1>8, <1>9, Finishing
<1>10. CASE work[t].pos # Len(Poll)
  <2> DEFINE n == work[t].pos + 1
  <2>1. n \in 1..Len(Poll)
    <3>1. Len(Poll) \in Nat
      BY DEF Poll
    <3> QED BY <1>1, <1>10, <3>1
  <2>2. /\ Get(Poll[n]) \in Requests /\ Polling(n) \in Works \ {NoWork}
        /\ Polling(n).kind = "update" /\ WorkFits(Polling(n), Get(Poll[n]))
    BY <2>1, PollFits
  <2>3. AskAgain(t, Get(Poll[n])) /\ WorkOn(t, Polling(n))
    BY <1>2, <1>10
  <2> HIDE DEF n
  <2> QED BY <1>1, <1>2, <1>5, <1>6, <1>7, <1>8, <2>2, <2>3, GoingOn
<1> QED BY <1>9, <1>10

\* Requests that failed, and those whose answer shows nothing.
LEMMA QuietStep ==
  ASSUME OverrideInv, NEW t \in Tasks, PollFails(t) \/ OverrideDone(t) \/ PresetDone(t)
  PROVE  OverrideInv'
<1> USE DEF PollFails, OverrideDone, PresetDone, Back, Keep
<1>1. /\ Returned(t) /\ work[t].kind \in {"update", "override", "preset"} /\ ~AtRest(t)
      /\ reply.st # "ok" \/ (ask[t].op = "put" /\ ask[t].key # "mode")
      /\ ask[t].key # "list"
  BY Awaited
<1>2. UNCHANGED <<site, dev, stale, changes, cache, opMode, programs, fresh, unread, met>>
  BY DEF AskAgain, Done, Leave
<1>3. ~Arrived("mode") /\ ~Answering("list") /\ \A k \in Shown : ~Answering(k)
  BY <1>1, ForMe
<1>4. /\ \A k \in Shown \ unread : cache[k] = Held(dev, k)
      /\ "mode" \notin stale => opMode = dev["mode"]
      /\ ModeRead => opMode = dev["mode"]
      /\ "list" \notin stale =>
           \A i \in Ids : Lists[dev["list"]][i] # NoName => programs[i] = Lists[dev["list"]][i]
  BY <1>1, <1>3, ForMe
<1>5. /\ cache \in [Shown -> AllValues \cup {NotRead}] /\ opMode \in Modes \cup {NotRead}
      /\ programs \in [Ids -> Names] /\ fresh \in BOOLEAN /\ unread \subseteq Shown
  BY DEF OverrideInv, OverrideTypes
<1>6. CASE Done(t)
  BY <1>1, <1>2, <1>4, <1>5, <1>6, Finishing
<1>7. CASE PresetDone(t) /\ AskAgain(t, Get("program")) /\ WorkOn(t, Work("active"))
  <2>1. /\ Get("program") \in Requests /\ Work("active") \in Works \ {NoWork}
        /\ Work("active").kind = "active"
    BY WorkTypes
  <2>2. WorkFits(Work("active"), Get("program"))
    BY <2>1 DEF WorkFits, Get, NoAsk
  <2> QED BY <1>1, <1>2, <1>4, <1>5, <1>7, <2>1, <2>2, GoingOn
<1>8. CASE OverrideDone(t) /\ reply.st \in {"ok", "void"}
  <2> DEFINE j == [work[t] EXCEPT !.kind = "status", !.res = reply.st = "ok"]
  <2>1. /\ work[t] \in Works /\ work[t].kind = "override" /\ work[t].val \in Requested
        /\ ask[t].key = "override" /\ ask[t].val = work[t].val
    BY <1>8, Awaited
  <2>2. j \in Works /\ j.kind = "status" /\ j.val = work[t].val /\ j.res = (reply.st = "ok")
    BY <2>1 DEF Works
  <2>3. j # NoWork
    BY <2>2 DEF NoWork
  <2>4. AskAgain(t, Put("status", "on")) /\ WorkOn(t, j)
    BY <1>8
  <2> HIDE DEF j
  <2>5. "on" \in AllValues
    BY DEF AllValues
  <2>6. Put("status", "on") \in Requests /\ WorkFits(j, Put("status", "on"))
    BY <2>1, <2>2, <2>5, WorkTypes DEF WorkFits, Put
  <2>7. t \notin met => /\ family = "nefit" /\ WriteKey = "override" /\ opMode # NotRead
                        /\ j.res => dev["override"] = j.val
                        /\ ModeRead
    BY <1>1, <1>8, <2>1, <2>2 DEF OverrideInv, CommandUse, Setting, Unmet
  <2> QED BY <1>1, <1>2, <1>4, <1>5, <2>2, <2>3, <2>4, <2>6, <2>7, GoingOn
<1> QED BY <1>6, <1>7, <1>8

\* The mode was set, or not.
LEMMA ModeStep ==
  ASSUME OverrideInv, NEW t \in Tasks, ModeDone(t) PROVE OverrideInv'
<1> USE DEF ModeDone, Back, Keep
<1>1. /\ Returned(t) /\ work[t].kind = "mode" /\ ~AtRest(t) /\ Done(t)
      /\ ask[t].op = "put" /\ ask[t].key = "mode" /\ ask[t].val = work[t].val /\ work[t].val \in Modes
  BY Awaited
<1>2. /\ UNCHANGED <<site, cache, programs, fresh, unread>>
      /\ met' = IF opMode' # opMode THEN Tasks ELSE met
      /\ opMode' = IF reply.st \in {"ok", "void"} THEN work[t].val ELSE opMode
  OBVIOUS
<1>3. ~Answering("list") /\ \A k \in Shown : ~Answering(k)
  BY <1>1, ForMe
<1>4. /\ \A k \in Shown \ unread : cache[k] = Held(dev, k)
      /\ "list" \notin stale =>
           \A i \in Ids : Lists[dev["list"]][i] # NoName => programs[i] = Lists[dev["list"]][i]
  BY <1>1, <1>3, ForMe
<1>5. /\ cache \in [Shown -> AllValues \cup {NotRead}] /\ opMode' \in Modes \cup {NotRead}
      /\ programs \in [Ids -> Names] /\ fresh \in BOOLEAN /\ unread \subseteq Shown
  BY <1>1, <1>2 DEF OverrideInv, OverrideTypes
<1>6. /\ "mode" \notin stale => opMode' = dev["mode"]
      /\ opMode' = opMode /\ ModeRead => opMode = dev["mode"]
  <2>1. CASE reply.st = "ok"
    <3>1. Arrived("mode") /\ OnWire = ask[t]
      BY <1>1, <2>1, ForMe
    <3> QED BY <1>1, <1>2, <2>1, <3>1 DEF OverrideInv, ModeUse, ModeRead
  <2>2. CASE reply.st # "ok"
    <3>1. ~Arrived("mode") /\ OnWire = ask[t]
      BY <1>1, <2>2, ForMe
    <3>2. reply.st = "void" => "mode" \in stale
      BY <1>1, <3>1 DEF OverrideInv, AnswerUse
    <3> QED BY <1>1, <1>2, <2>2, <3>1, <3>2, ForMe
  <2> QED BY <2>1, <2>2
<1> QED BY <1>1, <1>2, <1>4, <1>5, <1>6, Finishing

\* A temperature whose command succeeded and met no change is in force.
LEMMA InForce ==
  ASSUME OverrideInv, NEW t \in Tasks, Returned(t), work[t].kind \in {"temp", "status"},
         Succeeded(t), t \notin met
  PROVE  /\ Effective(dev) = work[t].val
         /\ SetpointKey \in Shown => Held(dev, SetpointKey) = work[t].val
<1>1. /\ Unmet(t) /\ work[t].val \in Requested /\ ask[t].key # "mode"
      /\ work[t].kind = "temp" => ask[t].val = work[t].val
      /\ work[t].kind = "status" => ask[t].key = "status" /\ ask[t].val = "on"
  BY Awaited DEF OverrideInv, CommandUse, Setting
<1>2. opMode = dev["mode"] /\ opMode # NotRead
  BY <1>1, ForMe DEF Unmet
<1>3. work[t].val # NoOverride /\ dev["mode"] \in Modes
  BY <1>1 DEF OverrideInv, OverrideTypes
<1>4. CASE work[t].kind = "temp"
  <2>1. dev[WriteKey] = work[t].val /\ (family = "nefit" => WriteKey = "manual")
    BY <1>1, <1>4 DEF Succeeded, Unmet
  <2>2. CASE WriteKey = "manual"
    <3>1. CurrentMode # "clock"
      BY <2>2 DEF WriteKey
    <3>2. dev["mode"] = "manual" \/ ~used
      BY <1>2, <1>3, <3>1 DEF CurrentMode, Modes
    <3>3. Effective(dev) = dev["manual"]
      BY <3>2 DEF Effective
    <3> QED BY <2>1, <2>2, <3>3 DEF SetpointKey, Held
  <2>3. CASE WriteKey = "override"
    <3>1. CurrentMode = "clock" /\ family # "nefit"
      BY <2>1, <2>3 DEF WriteKey
    <3>2. dev["mode"] = "clock" /\ used
      BY <1>2, <3>1 DEF CurrentMode
    <3>3. family = "zone"
      BY <3>1 DEF family, OverrideInv, OverrideTypes
    <3>4. Effective(dev) = dev["override"]
      BY <1>3, <2>1, <2>3, <3>2, <3>3 DEF Effective, Overridden
    <3> QED BY <2>1, <2>3, <3>1, <3>4 DEF SetpointKey, Shown
  <2> QED BY <2>2, <2>3 DEF WriteKey
<1>5. CASE work[t].kind = "status"
  <2>1. family = "nefit" /\ WriteKey = "override" /\ dev["override"] = work[t].val /\ dev["status"] = "on"
    BY <1>1, <1>5 DEF Succeeded, Unmet
  <2>2. dev["mode"] = "clock" /\ used
    BY <1>2, <2>1 DEF WriteKey, CurrentMode
  <2>3. Effective(dev) = dev["override"]
    BY <2>1, <2>2 DEF Effective, Overridden
  <2> QED BY <2>1, <2>3 DEF SetpointKey, Held
<1> QED BY <1>4, <1>5

\* The temperature was set, or not; the programs' choice has arrived, or not.
LEMMA ShowStep ==
  ASSUME OverrideInv, NEW t \in Tasks, TemperatureDone(t) \/ ActiveDone(t) PROVE OverrideInv'
<1> USE DEF TemperatureDone, ActiveDone, Back, Keep
<1>1. /\ Returned(t) /\ ~AtRest(t) /\ Done(t) /\ ask[t].key # "mode"
      /\ ActiveDone(t) => ask[t].op = "get" /\ ask[t].key = "program"
      /\ TemperatureDone(t) => ask[t].op = "put" /\ work[t].kind \in {"temp", "status"}
                                                /\ work[t].val \in Requested
  BY Awaited
<1>2. UNCHANGED <<site, opMode, programs, fresh, met, dev>>
  BY DEF Done, Leave
<1>3. ~Arrived("mode") /\ ~Answering("list")
  BY <1>1, ForMe
<1>4. /\ "mode" \notin stale => opMode = dev["mode"]
      /\ ModeRead => opMode = dev["mode"]
      /\ "list" \notin stale =>
           \A i \in Ids : Lists[dev["list"]][i] # NoName => programs[i] = Lists[dev["list"]][i]
  BY <1>1, <1>3, ForMe
<1>5. /\ cache \in [Shown -> AllValues \cup {NotRead}] /\ opMode \in Modes \cup {NotRead}
      /\ programs \in [Ids -> Names] /\ fresh \in BOOLEAN /\ unread \subseteq Shown
  BY DEF OverrideInv, OverrideTypes
<1>6. ASSUME cache' \in [Shown -> AllValues \cup {NotRead}], unread' \subseteq Shown,
             \A k \in Shown \ unread' : cache'[k] = Held(dev, k)
      PROVE  OverrideInv'
  BY <1>1, <1>2, <1>4, <1>5, <1>6, Finishing
<1>7. \A k \in Shown \ unread : ~Answering(k) => cache[k] = Held(dev, k)
  BY <1>1, ForMe
<1>8. CASE ActiveDone(t)
  <2> DEFINE p == "program"
  <2>1. /\ unread' = unread /\ cache' = IF reply.st = "ok" THEN [cache EXCEPT ![p] = reply.val] ELSE cache
        /\ p \in Shown /\ ask[t].op = "get" /\ ask[t].key = p
    BY <1>1, <1>8 DEF Shown
  <2> HIDE DEF p, ActiveDone, TemperatureDone
  <2>2. \A k \in Shown : Answering(k) <=> reply.st = "ok" /\ k = p
    BY <1>1, <2>1, ForMe
  <2>3. reply.st = "ok" => reply.val \in AllValues /\ (p \notin unread => reply.val = Held(dev, p))
    BY <2>1, <2>2 DEF OverrideInv, AnswerUse
  <2>4. cache' \in [Shown -> AllValues \cup {NotRead}]
    BY <1>5, <2>1, <2>3
  <2>5. \A k \in Shown \ unread : cache'[k] = Held(dev, k)
    BY <1>5, <1>7, <2>1, <2>2, <2>3
  <2> QED BY <1>5, <1>6, <2>1, <2>4, <2>5
<1>9. CASE TemperatureDone(t)
  <2>1. \A k \in Shown \ unread : cache[k] = Held(dev, k)
    BY <1>1, <1>7, <1>9, ForMe
  <2>2. CASE Succeeded(t) /\ SetpointKey \in Shown
    <3>1. /\ cache' = [cache EXCEPT ![SetpointKey] = work[t].val]
          /\ unread' = IF t \in met THEN unread \cup {SetpointKey} ELSE unread \ {SetpointKey}
      BY <1>9, <2>2
    <3>2. t \notin met => Held(dev, SetpointKey) = work[t].val
      BY <1>1, <1>9, <2>2, InForce
    <3>3. work[t].val \in AllValues
      BY <1>1, <1>9 DEF AllValues
    <3>4. cache' \in [Shown -> AllValues \cup {NotRead}] /\ unread' \subseteq Shown
      BY <1>5, <2>2, <3>1, <3>3
    <3>5. \A k \in Shown \ unread' : cache'[k] = Held(dev, k)
      BY <1>5, <2>1, <2>2, <3>1, <3>2
    <3> QED BY <1>6, <3>4, <3>5
  <2>3. CASE ~(Succeeded(t) /\ SetpointKey \in Shown)
    <3>1. cache' = cache /\ unread' = unread
      BY <1>9, <2>3
    <3> QED BY <1>5, <1>6, <2>1, <3>1
  <2> QED BY <2>2, <2>3
<1> QED BY <1>8, <1>9

\* A task of the consumer calls the circuit.
LEMMA BeginStep ==
  ASSUME OverrideInv, NEW t \in Tasks, Begin(t) PROVE OverrideInv'
<1>1. met \subseteq Tasks
  BY DEF OverrideInv, OverrideTypes
<1>2. ASSUME StartPoll(t) PROVE OverrideInv'
  <2>1. /\ AtRest(t) /\ UNCHANGED <<site, cache, opMode, programs, fresh, unread>> /\ met' = met
        /\ \/ Ask(t, Get("list")) /\ WorkOn(t, Work("list"))
           \/ Ask(t, Get(Poll[1])) /\ WorkOn(t, Polling(1))
    BY <1>2 DEF StartPoll, Keep
  <2>2. CASE Ask(t, Get("list")) /\ WorkOn(t, Work("list"))
    <3>1. /\ Get("list") \in Requests /\ Work("list") \in Works \ {NoWork} /\ Work("list").kind = "list"
          /\ WorkFits(Work("list"), Get("list"))
      BY WorkTypes DEF WorkFits, Get, NoAsk
    <3> QED BY <1>1, <2>1, <2>2, <3>1, Asking
  <2>3. CASE Ask(t, Get(Poll[1])) /\ WorkOn(t, Polling(1))
    <3>1. 1 \in 1..Len(Poll)
      BY DEF Poll
    <3>2. /\ Get(Poll[1]) \in Requests /\ Polling(1) \in Works \ {NoWork}
          /\ Polling(1).kind = "update" /\ WorkFits(Polling(1), Get(Poll[1]))
      BY <3>1, PollFits
    <3> QED BY <1>1, <2>1, <2>3, <3>2, Asking
  <2> QED BY <2>1, <2>2, <2>3
<1>3. ASSUME NEW r \in Requests, NEW j \in Works, j # NoWork, WorkFits(j, r), Command(t, r, j),
             j.kind \in {"temp", "override", "status"} =>
               /\ j.kind # "status" /\ opMode # NotRead
               /\ j.kind = "temp" => r.key = WriteKey /\ (family = "nefit" => WriteKey = "manual")
               /\ j.kind = "override" => family = "nefit" /\ WriteKey = "override"
      PROVE  OverrideInv'
  <2>1. /\ AtRest(t) /\ UNCHANGED <<site, cache, opMode, programs, fresh, unread>>
        /\ Ask(t, r) /\ WorkOn(t, j)
        /\ met' = IF "mode" \in stale THEN met \cup {t} ELSE met \ {t}
    BY <1>3 DEF Command, Keep
  <2> QED BY <1>1, <1>3, <2>1, Asking
<1>4. ASSUME NEW v \in Requested, SetTemperature(t, v) PROVE OverrideInv'
  <2> DEFINE kind == IF family = "nefit" /\ WriteKey = "override" THEN "override" ELSE "temp"
             j == [Work(kind) EXCEPT !.val = v]
  <2>1. v \in AllValues /\ WriteKey \in {"manual", "override"} /\ kind \in {"override", "temp"}
    BY DEF AllValues, WriteKey
  <2>2. Command(t, Put(WriteKey, v), j) /\ opMode # NotRead
    BY <1>4 DEF SetTemperature
  <2>3. kind = "override" <=> family = "nefit" /\ WriteKey = "override"
    OBVIOUS
  <2> HIDE DEF kind
  <2>4. Work(kind) \in Works /\ Work(kind).kind = kind
    BY <2>1, WorkTypes DEF Work, Works
  <2>5. j \in Works /\ j.kind = kind /\ j.val = v
    BY <2>1, <2>4 DEF Works
  <2> HIDE DEF j
  <2>6. j # NoWork /\ Put(WriteKey, v) \in Requests
    BY <2>1, <2>5, WorkTypes DEF NoWork
  <2>7. /\ WorkFits(j, Put(WriteKey, v)) /\ Put(WriteKey, v).key = WriteKey
    BY <2>1, <2>3, <2>5 DEF WorkFits, Put
  <2> QED BY <1>3, <2>1, <2>2, <2>3, <2>5, <2>6, <2>7
<1>5. ASSUME NEW m \in Modes, SetMode(t, m) PROVE OverrideInv'
  <2> DEFINE j == [Work("mode") EXCEPT !.val = m]
  <2>1. Work("mode") \in Works /\ Work("mode").kind = "mode" /\ m \in AllValues
    BY WorkTypes DEF Work, Works, AllValues
  <2>2. j \in Works /\ j.kind = "mode" /\ j.val = m
    BY <2>1 DEF Works
  <2>3. Command(t, Put("mode", m), j)
    BY <1>5 DEF SetMode
  <2> HIDE DEF j
  <2>4. j # NoWork /\ Put("mode", m) \in Requests
    BY <2>1, <2>2, WorkTypes DEF NoWork
  <2>5. WorkFits(j, Put("mode", m))
    BY <2>2 DEF WorkFits, Put
  <2> QED BY <1>3, <2>2, <2>3, <2>4, <2>5
<1>6. ASSUME NEW name, SetPreset(t, name) PROVE OverrideInv'
  <2>1. PICK i \in Ids : Command(t, Put("program", i), Work("preset"))
    BY <1>6 DEF SetPreset
  <2>2. Work("preset") \in Works \ {NoWork} /\ Work("preset").kind = "preset" /\ i \in AllValues
    BY WorkTypes DEF AllValues
  <2>3. Put("program", i) \in Requests /\ WorkFits(Work("preset"), Put("program", i))
    BY <2>2, WorkTypes DEF WorkFits, Put
  <2> QED BY <1>3, <2>1, <2>2, <2>3
<1> QED BY <1>2, <1>4, <1>5, <1>6 DEF Begin

\* The request on the wire is one of a busy task.
LEMMA OnTheWire ==
  ASSUME OverrideInv, queue # << >>
  PROVE  LET h == Head(queue) IN
         /\ h \in Tasks /\ ~AtRest(h) /\ OnWire = ask[h] /\ OnWire \in Requests
         /\ OnWire.op = "put" => /\ OnWire.key \in Keys \ {"list", "schedule", "target"}
                                 /\ OnWire.val \in Domain[OnWire.key]
         /\ Setting(h) => OnWire.op = "put" /\ OnWire.key # "mode"
         /\ work[h].kind = "status" => OnWire.key = "status"
<1>1. Head(queue) \in Tasks /\ Among(Head(queue), queue)
  BY DEF OverrideInv, OverrideTypes, Among
<1>2. ~AtRest(Head(queue)) /\ OnWire = ask[Head(queue)]
  BY <1>1 DEF OverrideInv, WorkUse, OnWire
<1> QED BY <1>1, <1>2, Awaited DEF Setting

\* The request gets an answer that does not change the device, or fails.
LEMMA AnswerStep ==
  ASSUME OverrideInv, GetAnswered \/ TargetAnswered \/ Failed, DeviceAnswers PROVE OverrideInv'
<1> USE DEF GetAnswered, TargetAnswered, Failed, DeviceAnswers
<1>1. /\ queue # << >> /\ reply = NoReply
      /\ UNCHANGED <<dev, queue, ask, changes, site, cache, opMode, programs, fresh, work, met>>
      /\ reply' # NoReply /\ reply'.st \in {"ok", "refused", "down"}
  BY DEF Pending, circuitVars, NoReply
<1>2. /\ \A k : Held(dev, k)' = Held(dev, k)
      /\ WriteKey' = WriteKey /\ family' = family /\ OnWire' = OnWire /\ WorkUse'
  <2>1. /\ WriteKey' = WriteKey /\ family' = family /\ OnWire' = OnWire
        /\ \A k : Held(dev, k)' = Held(dev, k)
    BY <1>1, SameReadings DEF WriteKey, CurrentMode, family, used, OnWire
  <2>2. WorkUse'
    BY <1>1, SameSite DEF OverrideInv, WorkUse, AtRest, NoWork
  <2> QED BY <2>1, <2>2
<1>3. /\ stale' \subseteq stale /\ unread' \subseteq unread /\ unread \subseteq Shown /\ stale \subseteq Keys
      /\ reply'.st = "ok" =>
           /\ OnWire.op = "get" /\ unread' = unread \ {OnWire.key}
           /\ reply'.val = Held(dev, OnWire.key) /\ stale' \in {stale, stale \ {OnWire.key}}
           /\ reply'.val \in Domain[OnWire.key] \/ OnWire.key = "target"
           /\ reply'.val \in AllValues
           /\ OnWire.key \in Keys \/ OnWire.key = "target"
      /\ reply'.st # "ok" => stale' = stale /\ unread' = unread
  <2>1. stale \subseteq Keys /\ unread \subseteq Shown /\ dev \in [Keys -> AllValues]
        /\ \A k \in Keys : dev[k] \in Domain[k]
    BY DEF OverrideInv, OverrideTypes
  <2>2. CASE GetAnswered
    <3>1. /\ OnWire.op = "get" /\ OnWire.key \in Keys /\ stale' = stale \ {OnWire.key}
          /\ reply' = [st |-> "ok", val |-> dev[OnWire.key]]
      BY <2>2
    <3>2. unread' = unread \ {OnWire.key} /\ Held(dev, OnWire.key) = dev[OnWire.key]
      BY <3>1 DEF Held
    <3> QED BY <2>1, <3>1, <3>2
  <2>3. CASE TargetAnswered
    <3>1. /\ OnWire.op = "get" /\ OnWire.key = "target" /\ stale' = stale
          /\ reply' = [st |-> "ok", val |-> Effective(dev)]
      BY <2>3
    <3>2. Effective(dev) \in AllValues
      BY <2>1 DEF Effective
    <3> QED BY <2>1, <3>1, <3>2 DEF Held
  <2>4. CASE Failed
    <3>1. stale' = stale /\ reply'.st \in {"refused", "down"} /\ dev' = dev
      BY <2>4 DEF NoReply
    <3>2. Changed = {} /\ unread' = unread
      BY <1>2, <3>1 DEF Changed
    <3> QED BY <2>1, <3>1, <3>2
  <2> QED BY <2>2, <2>3, <2>4
<1>4. /\ \A k : ~Answering(k) /\ ~Arrived(k)
      /\ \A k : Answering(k)' <=> reply'.st = "ok" /\ OnWire.key = k
      /\ \A k : Arrived(k)' <=> reply'.st = "ok" /\ OnWire.key = k
      /\ ModeRead <=> opMode = dev["mode"]
  BY <1>1, <1>2, <1>3 DEF Answering, Arrived, ModeRead, NoReply
<1> HIDE DEF GetAnswered, TargetAnswered, Failed, DeviceAnswers
<1>5. OverrideTypes'
  <2>1. reply' \in ReplyTypes
    BY <1>1, <1>3 DEF ReplyTypes, GetAnswered, TargetAnswered, Failed, NoReply
  <2> QED BY <1>1, <1>3, <2>1 DEF OverrideInv, OverrideTypes
<1>6. AnswerUse'
  <2>1. reply'.st # "void" /\ reply'.st # "none"
    BY <1>1
  <2>2. \A k \in Shown : Answering(k)' => reply'.val \in AllValues /\ reply'.val = Held(dev, k)
    BY <1>3, <1>4
  <2>3. Answering("list")' => reply'.val \in Domain["list"] /\ reply'.val = dev["list"]
    BY <1>3, <1>4 DEF Held
  <2>4. Answering("mode")' => reply'.val \in Modes
    BY <1>3, <1>4
  <2> QED BY <1>1, <1>2, <2>1, <2>2, <2>3, <2>4 DEF AnswerUse
<1>7. ModeRead => ModeRead'
  <2>1. CASE Arrived("mode")'
    <3>1. reply'.val = dev["mode"] /\ OnWire.op = "get"
      BY <1>3, <1>4, <2>1 DEF Held
    <3> QED BY <1>1, <1>2, <2>1, <3>1 DEF ModeRead
  <2>2. CASE ~Arrived("mode")'
    BY <1>1, <1>4, <2>2 DEF ModeRead
  <2> QED BY <2>1, <2>2
<1>8. ModeUse'
  <2>1. CASE reply'.st = "ok" /\ OnWire.key = "mode"
    <3>1. reply'.val = dev["mode"] /\ OnWire.op = "get" /\ Arrived("mode")'
      BY <1>3, <1>4, <2>1 DEF Held
    <3> QED BY <1>1, <1>2, <3>1 DEF ModeUse, ModeRead
  <2>2. CASE ~(reply'.st = "ok" /\ OnWire.key = "mode")
    BY <1>3, <1>7, <2>2 DEF OverrideInv, ModeUse
  <2> QED BY <2>1, <2>2
<1>9. CommandUse'
  <2> SUFFICES ASSUME NEW u \in Tasks \ met, Setting(u) PROVE Unmet(u)'
    BY <1>1 DEF CommandUse, Setting
  <2>1. Unmet(u)
    BY DEF OverrideInv, CommandUse
  <2>2. ~(Returned(u)' /\ reply'.st \in {"ok", "void"})
    BY <1>1, <1>3, OnTheWire DEF Returned
  <2> QED BY <1>1, <1>2, <1>7, <2>1, <2>2 DEF Unmet
<1>10. KnownShown' /\ ProgramsKnown'
  <2>1. KnownShown'
    BY <1>1, <1>2, <1>3, <1>4 DEF OverrideInv, KnownShown
  <2>2. "list" \in stale /\ ~Answering("list")' => "list" \in stale'
    BY <1>3, <1>4
  <2> QED BY <1>1, <1>4, <2>1, <2>2 DEF OverrideInv, ProgramsKnown
<1> QED BY <1>2, <1>5, <1>6, <1>8, <1>9, <1>10 DEF OverrideInv

\* The device takes a value, whether its task hears of it or not.
LEMMA PutStep ==
  ASSUME OverrideInv, PutTaken \/ PutUnconfirmed, DeviceAnswers PROVE OverrideInv'
<1> DEFINE h == Head(queue)
<1>1. /\ queue # << >> /\ reply = NoReply /\ OnWire.op = "put"
      /\ UNCHANGED <<queue, ask, changes, site, cache, opMode, programs, fresh, work>>
      /\ dev' = [dev EXCEPT ![OnWire.key] = OnWire.val]
      /\ reply' # NoReply /\ reply'.st \in {"ok", "void", "down"} /\ reply' \in ReplyTypes
      /\ unread' = unread \cup Changed
      /\ met' = IF dev' # dev THEN met \cup (Tasks \ {h}) ELSE met
      /\ reply'.st = "ok" => stale' = stale \ {OnWire.key}
      /\ reply'.st # "ok" => stale' = stale \cup {OnWire.key}
  BY DEF PutTaken, PutUnconfirmed, DeviceAnswers, Pending, circuitVars, NoReply, ReplyTypes
<1>2. /\ h \in Tasks /\ OnWire.key \in Keys \ {"list", "schedule", "target"}
      /\ OnWire.val \in Domain[OnWire.key] /\ OnWire = ask[h] /\ OnWire.val \in AllValues
      /\ Setting(h) => OnWire.key # "mode"
      /\ work[h].kind = "status" => OnWire.key = "status"
  BY <1>1, OnTheWire DEF AllValues
<1>3. /\ dev \in [Keys -> AllValues] /\ \A k \in Keys : dev[k] \in Domain[k]
      /\ stale \subseteq Keys /\ unread \subseteq Shown /\ met \subseteq Tasks
  BY DEF OverrideInv, OverrideTypes
<1>4. /\ dev' \in [Keys -> AllValues] /\ \A k \in Keys : dev'[k] \in Domain[k]
      /\ dev'[OnWire.key] = OnWire.val /\ \A k \in Keys \ {OnWire.key} : dev'[k] = dev[k]
  BY <1>1, <1>2, <1>3
<1>5. /\ WriteKey' = WriteKey /\ family' = family /\ OnWire' = OnWire /\ WorkUse'
  <2>1. /\ WriteKey' = WriteKey /\ family' = family /\ OnWire' = OnWire
    BY <1>1 DEF WriteKey, CurrentMode, family, used, OnWire
  <2>2. WorkUse'
    BY <1>1, SameSite DEF OverrideInv, WorkUse, AtRest, NoWork
  <2> QED BY <2>1, <2>2
<1>6. /\ \A k : ~Answering(k) /\ ~Arrived(k) /\ ~Answering(k)'
      /\ \A k : Arrived(k)' <=> reply'.st = "ok" /\ OnWire.key = k
      /\ ModeRead <=> opMode = dev["mode"]
      /\ ModeRead' <=> dev'["mode"] = IF Arrived("mode")' THEN OnWire.val ELSE opMode
  BY <1>1, <1>5 DEF Answering, Arrived, ModeRead, NoReply
<1>7. \A k \in Shown \ unread' : k \notin unread /\ Held(dev, k)' = Held(dev, k)
  <2> TAKE k \in Shown \ unread'
  <2>1. k \notin unread /\ k \notin Changed
    BY <1>1
  <2>2. Held(dev', k) = Held(dev, k)
    BY <2>1 DEF Changed
  <2>3. Held(dev, k)' = Held(dev', k)
    BY <1>1 DEF Held, Effective, Overridden, family, used
  <2> QED BY <2>1, <2>2, <2>3
<1> HIDE DEF h
<1>8. OverrideTypes'
  <2>1. unread' \subseteq Shown /\ met' \subseteq Tasks /\ stale' \subseteq Keys
    BY <1>1, <1>2, <1>3 DEF Changed
  <2> QED BY <1>1, <1>4, <2>1 DEF OverrideInv, OverrideTypes
<1>9. AnswerUse'
  BY <1>1, <1>5, <1>6 DEF AnswerUse
<1>10. ModeUse'
  <2>1. CASE OnWire.key = "mode" /\ reply'.st = "ok"
    BY <1>4, <1>6, <2>1 DEF ModeUse
  <2>2. CASE OnWire.key = "mode" /\ reply'.st # "ok"
    BY <1>1, <2>2 DEF ModeUse
  <2>3. CASE OnWire.key # "mode"
    <3>1. dev'["mode"] = dev["mode"] /\ ("mode" \in stale' <=> "mode" \in stale)
      BY <1>1, <1>4, <2>3
    <3> QED BY <1>6, <2>3, <3>1 DEF OverrideInv, ModeUse
  <2> QED BY <2>1, <2>2, <2>3
<1>11. CommandUse'
  <2> SUFFICES ASSUME NEW u \in Tasks \ met', Setting(u)' PROVE Unmet(u)'
    BY DEF CommandUse
  <2>1. u \notin met /\ Setting(u) /\ (dev' = dev \/ u = h)
    BY <1>1 DEF Setting
  <2>2. Unmet(u) /\ opMode = dev["mode"]
    BY <1>6, <2>1 DEF OverrideInv, CommandUse, Unmet
  <2>3. ModeRead'
    <3>1. CASE OnWire.key = "mode"
      <4>1. dev' = dev /\ dev'["mode"] = OnWire.val
        BY <1>2, <1>4, <2>1, <3>1
      <4> QED BY <1>6, <2>2, <4>1
    <3>2. CASE OnWire.key # "mode"
      BY <1>4, <1>6, <2>2, <3>2
    <3> QED BY <3>1, <3>2
  <2>4. Returned(u)' => dev'[ask[u].key] = ask[u].val
    <3>1. Returned(u)' => u = h
      BY <1>1 DEF Returned, h
    <3> QED BY <1>2, <1>4, <3>1
  <2>5. work[u].kind = "status" /\ work[u].res => dev'["override"] = work[u].val
    <3>1. CASE dev' = dev
      BY <2>2, <3>1 DEF Unmet
    <3>2. CASE u = h
      BY <1>2, <1>4, <2>2, <3>2 DEF Unmet
    <3> QED BY <2>1, <3>1, <3>2
  <2> QED BY <1>1, <1>5, <2>2, <2>3, <2>4, <2>5 DEF Unmet
<1>12. KnownShown' /\ ProgramsKnown'
  <2>1. KnownShown'
    BY <1>1, <1>6, <1>7 DEF OverrideInv, KnownShown
  <2>2. dev'["list"] = dev["list"] /\ ("list" \in stale' <=> "list" \in stale)
    BY <1>1, <1>2, <1>4
  <2> QED BY <1>1, <1>6, <2>1, <2>2 DEF OverrideInv, ProgramsKnown
<1> QED BY <1>5, <1>8, <1>9, <1>10, <1>11, <1>12 DEF OverrideInv

\* A get() goes to the end of the queue again.
LEMMA RepeatStep ==
  ASSUME OverrideInv, Repeated, DeviceAnswers PROVE OverrideInv'
<1> DEFINE h == Head(queue)
<1>1. /\ queue # << >> /\ reply = NoReply
      /\ UNCHANGED <<dev, stale, reply, changes, site, cache, opMode, programs, fresh, work>>
      /\ queue' = Append(Tail(queue), h)
      /\ ask' = [ask EXCEPT ![h].failed = @ + 1]
  BY DEF Repeated, DeviceAnswers, Pending, circuitVars
<1>2. /\ \A k : Held(dev, k)' = Held(dev, k) /\ Held(dev', k) = Held(dev, k)
      /\ WriteKey' = WriteKey /\ family' = family
  BY <1>1, SameReadings DEF WriteKey, CurrentMode, family, used
<1>3. met' = met /\ unread' = unread
  <2>1. Changed = {} /\ reply'.st # "ok"
    BY <1>1, <1>2 DEF Changed, NoReply
  <2> QED BY <1>1, <2>1 DEF DeviceAnswers
<1>4. /\ h \in Tasks /\ ask \in [Tasks -> Requests] /\ queue \in Seq(Tasks) /\ Tail(queue) \in Seq(Tasks)
  BY <1>1 DEF OverrideInv, OverrideTypes
<1>5. /\ queue' \in Seq(Tasks) /\ Once(queue')
      /\ \A u \in Tasks : Among(u, queue') <=> Among(u, queue)
  BY <1>1, <1>4, Requeues, StillAmong DEF OverrideInv, WorkUse
<1>6. /\ ask' \in [Tasks -> Requests]
      /\ \A u \in Tasks : ask'[u].op = ask[u].op /\ ask'[u].key = ask[u].key /\ ask'[u].val = ask[u].val
  <2>1. ask[h] \in Requests /\ ask[h].failed + 1 \in Nat
    BY <1>4 DEF Requests
  <2>2. [ask[h] EXCEPT !.failed = ask[h].failed + 1] \in Requests
    BY <2>1 DEF Requests
  <2> HIDE DEF h
  <2> QED BY <1>1, <1>4, <2>1, <2>2 DEF Requests
<1> HIDE DEF h
<1>7. WorkUse'
  <2>1. \A u \in Tasks : WorkFits(work[u], ask[u])'
    BY <1>1, <1>6 DEF OverrideInv, WorkUse, WorkFits, Poll, family
  <2> QED BY <1>1, <1>5, <2>1 DEF OverrideInv, WorkUse, AtRest, NoWork
<1>8. /\ \A k : ~Answering(k) /\ ~Answering(k)'
      /\ ModeRead' <=> ModeRead
      /\ \A u \in Tasks : ~Returned(u)' /\ ~Returned(u)
  BY <1>1 DEF Answering, Arrived, ModeRead, Returned, NoReply
<1>9. OverrideTypes'
  BY <1>1, <1>3, <1>5, <1>6 DEF OverrideInv, OverrideTypes
<1>10. AnswerUse'
  BY <1>1, <1>8 DEF AnswerUse, NoReply
<1>11. ModeUse'
  BY <1>1, <1>8 DEF OverrideInv, ModeUse
<1>12. CommandUse'
  <2> SUFFICES ASSUME NEW u \in Tasks \ met, Setting(u) PROVE Unmet(u)'
    BY <1>1, <1>3 DEF CommandUse, Setting
  <2>1. Unmet(u)
    BY DEF OverrideInv, CommandUse
  <2> QED BY <1>1, <1>2, <1>6, <1>8, <2>1 DEF Unmet
<1>13. KnownShown' /\ ProgramsKnown'
  BY <1>1, <1>2, <1>3, <1>8 DEF OverrideInv, KnownShown, ProgramsKnown
<1> QED BY <1>7, <1>9, <1>10, <1>11, <1>12, <1>13 DEF OverrideInv

\* Somebody else changes the device, or ten minutes pass.
LEMMA OutsideStep ==
  ASSUME OverrideInv, SomebodyElse \/ TimePasses PROVE OverrideInv'
<1>0. /\ dev \in [Keys -> AllValues] /\ \A k \in Keys : dev[k] \in Domain[k]
      /\ stale \subseteq Keys /\ unread \subseteq Shown /\ met \subseteq Tasks /\ changes \in Nat
  BY DEF OverrideInv, OverrideTypes
<1>1. /\ UNCHANGED <<queue, ask, reply, site, cache, opMode, programs, work>>
      /\ fresh' \in BOOLEAN /\ stale \subseteq stale' /\ stale' \subseteq Keys
      /\ dev' \in [Keys -> AllValues] /\ \A k \in Keys : dev'[k] \in Domain[k]
      /\ \A k \in Keys \ stale' : dev'[k] = dev[k]
      /\ unread' = unread \cup Changed /\ met' \in {met, Tasks} /\ (dev' # dev => met' = Tasks)
      /\ changes' \in Nat
  <2>1. CASE SomebodyElse
    <3>0. PICK k \in OwnerKeys :
            \E v \in Domain[k] : dev' = [dev EXCEPT ![k] = v] /\ stale' = stale \cup {k}
      BY <2>1 DEF SomebodyElse, OwnerChanges
    <3>1. PICK v \in Domain[k] : dev' = [dev EXCEPT ![k] = v] /\ stale' = stale \cup {k}
      BY <3>0
    <3>2. k \in Keys /\ v \in AllValues
      BY DEF AllValues
    <3>3. /\ dev' \in [Keys -> AllValues] /\ \A x \in Keys : dev'[x] \in Domain[x]
          /\ \A x \in Keys \ stale' : dev'[x] = dev[x]
          /\ stale \subseteq stale' /\ stale' \subseteq Keys
      BY <1>0, <3>1, <3>2
    <3>4. /\ UNCHANGED <<queue, ask, reply, site, cache, opMode, programs, work, fresh>>
          /\ unread' = unread \cup Changed /\ met' = Tasks /\ changes' \in Nat
      BY <1>0, <2>1 DEF SomebodyElse, OwnerChanges, circuitVars
    <3> QED BY <3>3, <3>4 DEF OverrideInv, OverrideTypes
  <2>2. CASE TimePasses
    <3>1. /\ UNCHANGED <<dev, queue, ask, reply, stale, changes>> /\ fresh' = FALSE
          /\ UNCHANGED <<site, cache, opMode, programs, work, unread, met>>
      BY <2>2 DEF TimePasses, connectorVars
    <3>2. Changed = {}
      BY <3>1 DEF Changed
    <3> QED BY <1>0, <3>1, <3>2
  <2> QED BY <2>1, <2>2
<1>2. /\ WriteKey' = WriteKey /\ family' = family /\ OnWire' = OnWire /\ WorkUse'
      /\ \A k : (Answering(k)' <=> Answering(k)) /\ (Arrived(k)' <=> Arrived(k))
      /\ \A u \in Tasks : Returned(u)' <=> Returned(u)
  <2>1. /\ WriteKey' = WriteKey /\ family' = family /\ OnWire' = OnWire
        /\ \A k : (Answering(k)' <=> Answering(k)) /\ (Arrived(k)' <=> Arrived(k))
        /\ \A u \in Tasks : Returned(u)' <=> Returned(u)
    BY <1>1 DEF WriteKey, CurrentMode, family, used, OnWire, Answering, Arrived, Returned
  <2>2. WorkUse'
    BY <1>1, SameSite DEF OverrideInv, WorkUse, AtRest, NoWork
  <2> QED BY <2>1, <2>2
<1>3. \A k \in Shown \ unread' : k \notin unread /\ Held(dev, k)' = Held(dev, k)
  <2> TAKE k \in Shown \ unread'
  <2>1. k \notin unread /\ k \notin Changed
    BY <1>1
  <2>2. Held(dev', k) = Held(dev, k)
    BY <2>1 DEF Changed
  <2>3. Held(dev, k)' = Held(dev', k)
    BY <1>1 DEF Held, Effective, Overridden, family, used
  <2> QED BY <2>1, <2>2, <2>3
<1>4. OverrideTypes'
  BY <1>0, <1>1, <1>2 DEF OverrideInv, OverrideTypes, Changed
<1>5. AnswerUse'
  <2>1. reply' # NoReply => queue' # << >> /\ reply'.st # "none"
    BY <1>1 DEF OverrideInv, AnswerUse
  <2>2. reply'.st = "void" => OnWire' \in Requests /\ OnWire'.key \in stale'
    BY <1>1, <1>2, OnTheWire DEF OverrideInv, AnswerUse, NoReply
  <2>3. Answering("list") =>
          reply.val \in Domain["list"] /\ ("list" \notin stale' => reply.val = dev'["list"])
    BY <1>1 DEF OverrideInv, AnswerUse
  <2> QED BY <1>1, <1>2, <1>3, <2>1, <2>2, <2>3 DEF OverrideInv, AnswerUse
<1>6. "mode" \notin stale' \/ dev' = dev => (ModeRead' <=> ModeRead)
  BY <1>1, <1>2 DEF ModeRead
<1>7. ModeUse'
  BY <1>1, <1>6 DEF OverrideInv, ModeUse
<1>8. CommandUse'
  <2> SUFFICES ASSUME NEW u \in Tasks \ met', Setting(u)' PROVE Unmet(u)'
    BY DEF CommandUse
  <2>1. dev' = dev /\ Setting(u) /\ u \notin met
    BY <1>1 DEF Setting
  <2>2. Unmet(u)
    BY <2>1 DEF OverrideInv, CommandUse
  <2> QED BY <1>1, <1>2, <1>6, <2>1, <2>2 DEF Unmet
<1>9. KnownShown' /\ ProgramsKnown'
  <2>1. KnownShown'
    BY <1>1, <1>2, <1>3 DEF OverrideInv, KnownShown
  <2>2. ProgramsKnown'
    BY <1>1, <1>2 DEF OverrideInv, ProgramsKnown
  <2> QED BY <2>1, <2>2
<1> QED BY <1>2, <1>4, <1>5, <1>7, <1>8, <1>9 DEF OverrideInv

\* A task is cancelled.
LEMMA GivenUpStep ==
  ASSUME OverrideInv, NEW t \in Tasks, GivenUp(t) PROVE OverrideInv'
<1>0. /\ dev \in [Keys -> AllValues] /\ \A k \in Keys : dev[k] \in Domain[k]
      /\ queue \in Seq(Tasks) /\ ask \in [Tasks -> Requests] /\ work \in [Tasks -> Works]
      /\ stale \subseteq Keys /\ unread \subseteq Shown /\ met \subseteq Tasks /\ Once(queue)
      /\ reply \in ReplyTypes
  BY DEF OverrideInv, OverrideTypes, WorkUse
<1>1. /\ UNCHANGED <<site, cache, opMode, programs, fresh, changes>>
      /\ ask' = [ask EXCEPT ![t] = NoAsk] /\ work' = [work EXCEPT ![t] = NoWork]
      /\ unread' = unread \cup Changed \cup ({ask[t].key} \cap Shown)
      /\ met' = IF dev' # dev \/ "mode" \in stale' THEN Tasks ELSE met
  BY DEF GivenUp, Abandon, WorkOn, Keep
<1>2. PICK i \in 1..Len(queue) :
        /\ queue[i] = t /\ queue' = RemoveAt(queue, i)
        /\ IF i = 1
             THEN /\ reply' = NoReply /\ stale' = stale \cup ({ask[t].key} \cap Keys)
                  /\ \/ UNCHANGED dev
                     \/ /\ Pending /\ OnWire.op = "put" /\ OnWire.key \in Keys
                        /\ dev' = [dev EXCEPT ![OnWire.key] = OnWire.val]
             ELSE UNCHANGED <<dev, reply, stale>>
  BY DEF GivenUp, Abandon
<1>3. /\ queue' \in Seq(Tasks) /\ Once(queue') /\ queue # << >>
      /\ ~Among(t, queue') /\ \A u \in Tasks \ {t} : Among(u, queue') <=> Among(u, queue)
      /\ i # 1 => queue' # << >> /\ Head(queue') = Head(queue) /\ Head(queue) # t
  <2>1. /\ queue' \in Seq(Tasks) /\ Once(queue') /\ ~Among(t, queue')
        /\ i # 1 => queue' # << >> /\ Head(queue') = Head(queue)
    BY <1>0, <1>2, GivesUp DEF Among
  <2>2. \A u \in Tasks \ {t} : Among(u, queue') <=> Among(u, queue)
    BY <1>0, <1>2, StillAmong
  <2>3. queue # << >> /\ (i # 1 => Head(queue) # t)
    BY <1>0, <1>2 DEF Once
  <2> QED BY <2>1, <2>2, <2>3
<1>4. i = 1 => OnWire = ask[t]
  BY <1>0, <1>2 DEF OnWire
<1>5. /\ dev' \in [Keys -> AllValues] /\ \A k \in Keys : dev'[k] \in Domain[k]
      /\ \A k \in Keys \ stale' : dev'[k] = dev[k]
      /\ stale \subseteq stale' /\ stale' \subseteq Keys /\ dev'["list"] = dev["list"]
  <2>1. CASE dev' = dev
    BY <1>0, <1>2, <2>1
  <2>2. CASE dev' # dev
    <3>1. /\ i = 1 /\ OnWire.op = "put" /\ OnWire.key \in Keys \ {"list"} /\ OnWire.val \in AllValues
          /\ OnWire.val \in Domain[OnWire.key]
          /\ dev' = [dev EXCEPT ![OnWire.key] = OnWire.val] /\ stale' = stale \cup {OnWire.key}
      BY <1>2, <1>3, <1>4, <2>2, OnTheWire DEF AllValues
    <3> QED BY <1>0, <3>1
  <2> QED BY <2>1, <2>2
<1>6. /\ ask' \in [Tasks -> Requests] /\ work' \in [Tasks -> Works]
      /\ work'[t] = NoWork /\ \A u \in Tasks \ {t} : ask'[u] = ask[u] /\ work'[u] = work[u]
  <2>1. NoAsk \in Requests /\ NoWork \in Works
    BY WorkTypes DEF NoAsk, Requests
  <2> QED BY <1>0, <1>1, <2>1
<1>7. WorkUse'
  <2>1. ASSUME NEW u \in Tasks PROVE AtRest(u)' <=> ~Among(u, queue')
    BY <1>3, <1>6 DEF OverrideInv, WorkUse, AtRest, NoWork
  <2>2. WorkFits(NoWork, ask'[t])
    BY DEF WorkFits, NoWork
  <2>3. ASSUME NEW u \in Tasks PROVE WorkFits(work[u], ask[u])'
    BY <1>1, <1>6, <2>2, SameSite DEF OverrideInv, WorkUse
  <2> QED BY <1>3, <2>1, <2>3 DEF WorkUse
<1>8. /\ WriteKey' = WriteKey /\ family' = family
      /\ i # 1 => OnWire' = OnWire /\ \A u \in Tasks : Returned(u)' => Returned(u)
      /\ i = 1 => reply' = NoReply /\ \A u \in Tasks : ~Returned(u)'
  <2>1. i # 1 => Head(queue) \in Tasks
    BY <1>0, <1>3
  <2> QED BY <1>1, <1>2, <1>3, <1>6, <2>1 DEF WriteKey, CurrentMode, family, used, OnWire, Returned
<1>9. /\ \A k : Answering(k)' => i # 1 /\ Answering(k)
      /\ \A k : Answering(k) /\ ~Answering(k)' => i = 1 /\ k = ask[t].key
      /\ i # 1 => \A k : Arrived(k)' <=> Arrived(k)
      /\ i = 1 => \A k : ~Arrived(k)'
      /\ \A k : Arrived(k) /\ i = 1 => k = ask[t].key
  BY <1>2, <1>3, <1>4, <1>8 DEF Answering, Arrived, NoReply
<1>10. \A k \in Shown \ unread' : k \notin unread /\ k # ask[t].key /\ Held(dev, k)' = Held(dev, k)
  <2> TAKE k \in Shown \ unread'
  <2>1. k \notin unread /\ k \notin Changed /\ k # ask[t].key
    BY <1>1
  <2>2. Held(dev', k) = Held(dev, k)
    BY <2>1 DEF Changed
  <2>3. Held(dev, k)' = Held(dev', k)
    BY <1>1 DEF Held, Effective, Overridden, family, used
  <2> QED BY <2>1, <2>2, <2>3
<1>11. OverrideTypes'
  <2>1. unread' \subseteq Shown /\ met' \subseteq Tasks /\ reply' \in ReplyTypes
    BY <1>0, <1>1, <1>2 DEF Changed, NoReply, ReplyTypes
  <2> QED BY <1>1, <1>3, <1>5, <1>6, <2>1 DEF OverrideInv, OverrideTypes
<1>12. AnswerUse'
  <2>1. CASE i = 1
    BY <1>8, <1>9, <2>1 DEF AnswerUse, NoReply
  <2>2. CASE i # 1
    <3>1. reply' = reply /\ dev' = dev /\ stale' = stale /\ OnWire' = OnWire /\ queue' # << >>
      BY <1>2, <1>3, <1>8, <2>2
    <3> QED BY <1>9, <1>10, <3>1 DEF OverrideInv, AnswerUse
  <2> QED BY <2>1, <2>2
<1>13. "mode" \notin stale' => ModeRead'
  <2> SUFFICES ASSUME "mode" \notin stale' PROVE ModeRead'
    OBVIOUS
  <2>1. dev'["mode"] = dev["mode"] /\ ModeRead
    BY <1>5 DEF OverrideInv, ModeUse
  <2>2. CASE i = 1
    <3>1. ask[t].key # "mode"
      BY <1>2, <2>2
    <3> QED BY <1>1, <1>9, <2>1, <2>2, <3>1 DEF ModeRead
  <2>3. CASE i # 1
    BY <1>1, <1>2, <1>8, <1>9, <2>1, <2>3 DEF ModeRead
  <2> QED BY <2>2, <2>3
<1>14. ModeUse'
  BY <1>13 DEF ModeUse
<1>15. CommandUse'
  <2> SUFFICES ASSUME NEW u \in Tasks \ met', Setting(u)' PROVE Unmet(u)'
    BY DEF CommandUse
  <2>1. u # t /\ dev' = dev /\ "mode" \notin stale' /\ u \notin met
    BY <1>1, <1>6 DEF Setting, NoWork
  <2>2. Setting(u) /\ ask'[u] = ask[u] /\ work'[u] = work[u]
    BY <1>6, <2>1 DEF Setting
  <2>3. Unmet(u) /\ ModeRead'
    BY <1>13, <2>1, <2>2 DEF OverrideInv, CommandUse
  <2>4. Returned(u)' => Returned(u) /\ reply' = reply
    BY <1>2, <1>8
  <2> QED BY <1>1, <1>8, <2>1, <2>2, <2>3, <2>4 DEF Unmet
<1>16. KnownShown'
  BY <1>1, <1>9, <1>10 DEF OverrideInv, KnownShown
<1>17. ProgramsKnown'
  <2> SUFFICES ASSUME "list" \notin stale', ~Answering("list")' PROVE ProgramsKnown'
    BY DEF ProgramsKnown
  <2>1. "list" \notin stale /\ ~Answering("list")
    BY <1>2, <1>5, <1>9
  <2> QED BY <1>1, <1>5, <2>1 DEF OverrideInv, ProgramsKnown
<1> QED BY <1>7, <1>11, <1>12, <1>14, <1>15, <1>16, <1>17 DEF OverrideInv

LEMMA OverrideStarts == OverrideInit => OverrideInv
<1> SUFFICES ASSUME OverrideInit PROVE OverrideInv
  OBVIOUS
<1> USE DEF OverrideInit, ConnectorInit
<1>1. NoAsk \in Requests /\ NoWork \in Works /\ NoReply \in ReplyTypes
  BY WorkTypes DEF NoAsk, Requests, NoReply, ReplyTypes
<1>2. OverrideTypes
  <2>1. programs \in [Ids -> Names]
    BY DEF NoPrograms, Names
  <2>2. dev \in [Keys -> AllValues] /\ \A k \in Keys : dev[k] \in Domain[k]
    BY DEF AllValues
  <2>3. cache \in [Shown -> AllValues \cup {NotRead}] /\ opMode \in Modes \cup {NotRead}
    OBVIOUS
  <2>4. ask \in [Tasks -> Requests] /\ work \in [Tasks -> Works]
    BY <1>1
  <2>5. queue \in Seq(Tasks) /\ stale \subseteq Keys /\ changes \in Nat /\ met \subseteq Tasks
    OBVIOUS
  <2>6. reply \in ReplyTypes
    BY <1>1
  <2>7. site \in Sites /\ fresh \in BOOLEAN /\ unread \subseteq Shown
    OBVIOUS
  <2> QED BY <2>1, <2>2, <2>3, <2>4, <2>5, <2>6, <2>7 DEF OverrideTypes
<1>3. WorkUse
  <2>1. \A t \in Tasks : WorkFits(work[t], ask[t])
    BY DEF WorkFits, NoWork
  <2> QED BY <2>1 DEF WorkUse, Once, Among, AtRest
<1>4. \A k : ~Answering(k) /\ ~Arrived(k)
  BY DEF Answering, Arrived
<1>5. AnswerUse /\ ModeUse /\ KnownShown /\ ProgramsKnown
  BY <1>4 DEF AnswerUse, ModeUse, KnownShown, ProgramsKnown, NoReply
<1>6. CommandUse
  BY DEF CommandUse, Setting, NoWork
<1> QED BY <1>2, <1>3, <1>5, <1>6 DEF OverrideInv

LEMMA OverrideStep == OverrideInv /\ [OverrideNext]_overrideVars => OverrideInv'
<1> SUFFICES ASSUME OverrideInv, [OverrideNext]_overrideVars PROVE OverrideInv'
  OBVIOUS
<1>1. ASSUME DeviceAnswers PROVE OverrideInv'
  BY <1>1, AnswerStep, PutStep, RepeatStep DEF DeviceAnswers, Answers, DeviceStep
<1>2. ASSUME NEW t \in Tasks, Begin(t) \/ Continue(t) \/ GivenUp(t) PROVE OverrideInv'
  BY <1>2, BeginStep, GivenUpStep, ListStep, PollStep, QuietStep, ModeStep, ShowStep DEF Continue
<1>3. ASSUME UNCHANGED overrideVars PROVE OverrideInv'
  <2>1. /\ UNCHANGED <<dev, queue, ask, reply, stale, changes, site, cache, opMode, programs>>
        /\ UNCHANGED <<fresh, work, unread, met>>
    BY <1>3 DEF overrideVars, connectorVars, overrideOwn, circuitVars
  <2>2. /\ WriteKey' = WriteKey /\ family' = family /\ OnWire' = OnWire
        /\ \A k : Held(dev, k)' = Held(dev, k)
    BY <2>1, SameReadings DEF WriteKey, CurrentMode, family, used, OnWire
  <2>3. OverrideTypes' /\ WorkUse'
    BY <2>1, SameSite DEF OverrideInv, OverrideTypes, WorkUse, AtRest, NoWork
  <2>4. /\ \A k : (Answering(k)' <=> Answering(k)) /\ (Arrived(k)' <=> Arrived(k))
        /\ \A u \in Tasks : Returned(u)' <=> Returned(u)
        /\ ModeRead' <=> ModeRead
    BY <2>1, <2>2 DEF Answering, Arrived, Returned, ModeRead
  <2>5. AnswerUse' /\ ModeUse' /\ KnownShown' /\ ProgramsKnown'
    BY <2>1, <2>2, <2>4 DEF OverrideInv, AnswerUse, ModeUse, KnownShown, ProgramsKnown
  <2>6. CommandUse'
    <3> SUFFICES ASSUME NEW u \in Tasks \ met', Setting(u)' PROVE Unmet(u)'
      BY DEF CommandUse
    <3>1. Unmet(u)
      BY <2>1 DEF OverrideInv, CommandUse, Setting
    <3> QED BY <2>1, <2>2, <2>4, <3>1 DEF Unmet
  <2> QED BY <2>3, <2>5, <2>6 DEF OverrideInv
<1> QED BY <1>1, <1>2, <1>3, OutsideStep DEF OverrideNext

-----------------------------------------------------------------------------
(* What follows for every set of tasks, of circuits, and of programs.      *)

\* A busy task is in the queue once, with the request of its call; an answer
\* that has arrived, the mode that is known, and what a command that met no
\* change has written so far are what the device has.
THEOREM OverrideInvariance == OverrideSpec => []OverrideInv
BY OverrideStarts, OverrideStep, PTL DEF OverrideSpec

\* What a circuit shows and has read since it last changed is what the device
\* has, or aims at.
THEOREM KnownIsShown == OverrideSpec => []KnownShown
<1>1. OverrideInv => KnownShown
  BY DEF OverrideInv
<1> QED BY <1>1, OverrideInvariance, PTL

\* Every program of the list is known by its name, once the list was read and
\* until it changes.
THEOREM ProgramsAreKnown == OverrideSpec => []ProgramsKnown
<1>1. OverrideInv => ProgramsKnown
  BY DEF OverrideInv
<1> QED BY <1>1, OverrideInvariance, PTL

\* A temperature whose command succeeds, and met no change on the way, is the
\* one that the device aims at then.
THEOREM TargetIsReached == OverrideSpec => TargetReached
<1> DEFINE A == \A t \in Tasks :
                  TemperatureDone(t) /\ Succeeded(t) /\ t \notin met => Effective(dev) = work[t].val
<1>1. OverrideInv => A
  BY InForce DEF TemperatureDone
<1>2. OverrideInv /\ [OverrideNext]_overrideVars => [A]_overrideVars
  BY <1>1
<1> QED BY <1>2, OverrideInvariance, PTL DEF OverrideSpec, TargetReached
=============================================================================
