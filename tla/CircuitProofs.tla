------------------------------ MODULE CircuitProofs ------------------------------
(***************************************************************************)
(* What a circuit remembers, for every set of tasks, modes, temperatures   *)
(* and resources.                                                          *)
(***************************************************************************)
EXTENDS CircuitProperties, QueueProofs, TLAPS

-----------------------------------------------------------------------------
(* The mode                                                                *)

\* The records of the model have their types.
LEMMA RecordTypes ==
  /\ NoAsk \in AskTypes /\ NoReply \in ReplyTypes /\ NoJob \in JobTypes
  /\ \A k \in Keys : Get(k) \in AskTypes /\ Domain[k] \subseteq AllValues
  /\ \A k \in Keys \cup {NoKey}, v \in AllValues : Put(k, v) \in AskTypes
  /\ ModeKey \in Keys /\ Setpoints \subseteq Keys
  /\ Len(Poll) \in Nat \ {0} /\ \A p \in 1..Len(Poll) : Poll[p] \in Keys
<1>1. /\ ModeKey \in Keys /\ Setpoints \subseteq Keys
      /\ Len(Poll) \in Nat \ {0} /\ \A p \in 1..Len(Poll) : Poll[p] \in Keys
  BY CircuitAssumption
<1>2. NoAsk \in AskTypes /\ NoReply \in ReplyTypes
  BY DEF NoAsk, NoReply, AskTypes, ReplyTypes
<1>3. NoJob \in JobTypes
  BY <1>1 DEF NoJob, JobTypes, Kinds
<1>4. \A k \in Keys : Get(k) \in AskTypes /\ Domain[k] \subseteq AllValues
  BY DEF Get, NoAsk, AskTypes, AllValues
<1>5. \A k \in Keys \cup {NoKey}, v \in AllValues : Put(k, v) \in AskTypes
  BY DEF Put, AskTypes
<1> QED BY <1>1, <1>2, <1>3, <1>4, <1>5

\* What a task that starts a request leaves behind.
LEMMA Calling ==
  ASSUME ModeInv, NEW t \in Tasks, NEW r \in AskTypes, NEW j \in JobTypes,
         Idle(t), j # NoJob, JobFits(j, r), Ask(t, r), Become(t, j),
         UNCHANGED <<cache, opMode, state>>
  PROVE  ModeInv' /\ \A k \in Keys : Arriving(k) <=> Arriving(k)'
<1> USE DEF ModeInv, Ask, Become, Idle
<1>1. queue \in Seq(Tasks) /\ Once(queue) /\ \A i \in 1..Len(queue) : queue[i] # t
  BY DEF TypeOK, ConnectorTypes, QueueUse, Busy
<1>2. queue' \in Seq(Tasks) /\ Once(queue') /\ (queue # << >> => Head(queue') = Head(queue))
  BY <1>1, Joins
<1>3. TypeOK'
  BY <1>2 DEF TypeOK, ConnectorTypes
<1>4. QueueUse'
  <2>1. \A i \in 1..Len(queue') : queue'[i] = IF i <= Len(queue) THEN queue[i] ELSE t
    BY <1>1
  <2>2. \A i \in 1..Len(queue) : job[queue[i]] # NoJob
    BY DEF QueueUse, Busy
  <2>3. job'[t] = j /\ \A u \in Tasks \ {t} : job'[u] = job[u]
    BY DEF TypeOK
  <2>4. Busy(queue)'
    BY <1>1, <1>2, <2>1, <2>2, <2>3 DEF Busy
  <2> QED BY <1>2, <2>4 DEF QueueUse, Busy
<1>5. JobUse'
  BY DEF JobUse, TypeOK, ConnectorTypes
<1>6. ReplyUse' /\ (\A k \in Keys : Arriving(k) <=> Arriving(k)')
  <2>1. CASE queue = << >>
    <3> reply = NoReply
      BY <2>1 DEF ReplyUse
    <3> QED BY <2>1, <1>2 DEF ReplyUse, NoReply, Arriving
  <2>2. CASE queue # << >>
    <3>1. Head(queue) # t /\ Head(queue) \in Tasks
      BY <1>1, <2>2
    <3>2. queue' # << >> /\ OnWire' = OnWire
      BY <1>1, <1>2, <2>2, <3>1 DEF OnWire, TypeOK, ConnectorTypes
    <3> QED BY <2>2, <3>2 DEF ReplyUse, Arriving, OnWire
  <2> QED BY <2>1, <2>2
<1>7. ModeKnown'
  BY <1>6, RecordTypes DEF ModeKnown
<1> QED BY <1>3, <1>4, <1>5, <1>6, <1>7

\* What a task that runs on leaves behind, when it asks for more or leaves.
LEMMA RunningOn ==
  ASSUME ModeInv, NEW t \in Tasks, NEW r \in AskTypes, NEW j \in JobTypes, Returned(t),
         Become(t, j), JobFits(j, r),
         \/ AskAgain(t, r) /\ j # NoJob
         \/ Leave(t) /\ j = NoJob /\ r = NoAsk,
         opMode' \in Modes \cup {NoMode}, state' \in BOOLEAN,
         cache' \in [Setpoints -> AllValues \cup {NoTemp}],
         ModeKey \notin stale => opMode' = dev[ModeKey]
  PROVE  ModeInv'
<1> USE DEF ModeInv, Become, Idle, Returned
<1>1. queue \in Seq(Tasks) /\ Once(queue) /\ queue # << >> /\ Head(queue) = t
  BY DEF TypeOK, ConnectorTypes, QueueUse
<1>2. /\ ask' = [ask EXCEPT ![t] = r] /\ reply' = NoReply
      /\ UNCHANGED <<dev, stale, changes>>
  BY DEF AskAgain, Leave
<1>3. job'[t] = j /\ \A u \in Tasks \ {t} : job'[u] = job[u]
  BY DEF TypeOK
<1>4. queue' \in Seq(Tasks) /\ Once(queue') /\ Busy(queue)'
  <2>1. CASE AskAgain(t, r) /\ j # NoJob
    <3>1. queue' = Append(Tail(queue), Head(queue))
      BY <2>1, <1>1 DEF AskAgain
    <3>2. /\ queue' \in Seq(Tasks) /\ Once(queue')
          /\ \A i \in 1..Len(queue') : \E k \in 1..Len(queue) : queue'[i] = queue[k]
      BY <1>1, <3>1, Requeues
    <3>3. \A i \in 1..Len(queue') : job'[queue'[i]] # NoJob
      BY <1>1, <1>3, <2>1, <3>2 DEF QueueUse, Busy
    <3> QED BY <3>2, <3>3 DEF Busy
  <2>2. CASE Leave(t) /\ j = NoJob
    <3>1. queue' = Tail(queue)
      BY <2>2 DEF Leave
    <3>2. /\ queue' \in Seq(Tasks) /\ Once(queue')
          /\ \A i \in 1..Len(queue') : queue'[i] = queue[i + 1] /\ queue'[i] # t
      BY <1>1, <3>1, Leaves
    <3>3. \A i \in 1..Len(queue') : i + 1 \in 1..Len(queue)
      BY <1>1, <3>1
    <3>4. \A i \in 1..Len(queue') : job'[queue'[i]] # NoJob
      BY <1>1, <1>3, <3>2, <3>3 DEF QueueUse, Busy
    <3> QED BY <3>2, <3>4 DEF Busy
  <2> QED BY <2>1, <2>2
<1>5. TypeOK'
  BY <1>2, <1>4, RecordTypes DEF TypeOK, ConnectorTypes
<1>6. QueueUse'
  BY <1>4 DEF QueueUse, Busy
<1>7. JobUse'
  BY <1>2 DEF JobUse, TypeOK, ConnectorTypes
<1>8. ReplyUse' /\ ModeKnown'
  BY <1>2 DEF ReplyUse, ModeKnown, NoReply
<1> QED BY <1>5, <1>6, <1>7, <1>8

\* No job fits every request.
LEMMA NoJobFits == \A r : JobFits(NoJob, r)
BY DEF JobFits, NoJob

\* An answer that arrived is what the device holds, unless the key is stale.
LEMMA Answered ==
  ASSUME ModeInv, NEW t \in Tasks, Returned(t)
  PROVE  /\ ask[t] = OnWire /\ ask[t] \in AskTypes /\ job[t] \in JobTypes
         /\ JobFits(job[t], ask[t])
         /\ reply.st = "ok" /\ ask[t].op = "get" =>
              /\ reply.val \in Domain[ask[t].key] /\ ask[t].key \in Keys
              /\ ask[t].key \notin stale => dev[ask[t].key] = reply.val
         /\ reply.st = "ok" /\ ask[t].op = "put" =>
              /\ ask[t].key \in Keys
              /\ ask[t].key \notin stale => dev[ask[t].key] = ask[t].val
         /\ reply.st = "void" => ask[t].op = "put" /\ ask[t].key \in stale
         /\ ModeKey \notin stale => opMode = dev[ModeKey] \/ (ask[t].key = ModeKey /\ reply.st = "ok")
         /\ opMode \in Modes \cup {NoMode} /\ state \in BOOLEAN
         /\ cache \in [Setpoints -> AllValues \cup {NoTemp}]
<1>1. ask[t] = OnWire /\ ask[t] \in AskTypes /\ job[t] \in JobTypes /\ JobFits(job[t], ask[t])
  BY DEF ModeInv, TypeOK, ConnectorTypes, Returned, OnWire, JobUse
<1> QED BY <1>1 DEF ModeInv, ReplyUse, ModeKnown, Arriving, Returned, OnWire, TypeOK

\* A read temperature is a value.
LEMMA SetpointValues ==
  /\ \A k \in Setpoints : Domain[k] \subseteq AllValues
  /\ TempSetpoint \in Setpoints \cup {NoKey} \/ opMode \notin Modes \cup {NoMode}
  /\ NoKey \notin Setpoints
<1>1. NoKey \notin Setpoints /\ \A k \in Setpoints : Domain[k] \subseteq AllValues
  BY RecordTypes, KeyAssumption
<1>2. ASSUME opMode \in Modes \cup {NoMode} PROVE TempSetpoint \in Setpoints \cup {NoKey}
  BY <1>2, CircuitAssumption DEF TempSetpoint
<1> QED BY <1>1, <1>2

\* A call of a task.
LEMMA CallStep ==
  ASSUME ModeInv, NEW t \in Tasks, Call(t) PROVE ModeInv'
<1>1. ASSUME Update(t) PROVE ModeInv'
  <2> DEFINE j == [kind |-> "update", pos |-> 1, old |-> NoKey]
  <2>1. j.kind = "update" /\ j.pos = 1
    OBVIOUS
  <2>2. 1 \in 1..Len(Poll) /\ 1 \in 0..Len(Poll) /\ Poll[1] \in Keys
    BY RecordTypes
  <2>3. Get(Poll[1]) \in AskTypes /\ Get(Poll[1]).op = "get" /\ Get(Poll[1]).key = Poll[1]
    BY <2>2, RecordTypes DEF Get, NoAsk
  <2> HIDE DEF j
  <2>4. j \in JobTypes /\ j # NoJob
    BY <2>1, <2>2 DEF j, NoJob, JobTypes, Kinds
  <2>5. JobFits(j, Get(Poll[1]))
    BY <2>1, <2>2, <2>3 DEF JobFits
  <2>6. Ask(t, Get(Poll[1])) /\ Become(t, j) /\ Idle(t) /\ UNCHANGED <<cache, opMode, state>>
    BY <1>1 DEF Update, j
  <2> QED BY <2>3, <2>4, <2>5, <2>6, Calling
<1>2. ASSUME NEW v \in Settable, SetTemperature(t, v) PROVE ModeInv'
  <2> DEFINE j == [NoJob EXCEPT !.kind = "temp"]
  <2>1. TempSetpoint \in Setpoints /\ v \in Domain[TempSetpoint] /\ v \in AllValues
    BY <1>2, SetpointValues, CircuitAssumption DEF SetTemperature, ModeInv, TypeOK
  <2>2. j \in JobTypes /\ j # NoJob /\ Put(TempSetpoint, v) \in AskTypes
    BY <2>1, RecordTypes DEF NoJob, JobTypes, Kinds
  <2>3. JobFits(j, Put(TempSetpoint, v))
    BY <2>1 DEF JobFits, NoJob, Put
  <2> QED BY <1>2, <2>2, <2>3, Calling DEF SetTemperature
<1>3. ASSUME NEW m \in Commands, NEW kind \in {"mode", "haMode"}, SetMode(t, m, kind) PROVE ModeInv'
  <2> DEFINE j == [NoJob EXCEPT !.kind = kind, !.old = TempSetpoint]
             r == Put(IF opMode = NoMode THEN NoKey ELSE ModeKey, m)
  <2>1. m \in Modes /\ m \in AllValues /\ TempSetpoint \in Keys \cup {NoKey}
    BY RecordTypes, SetpointValues, CircuitAssumption DEF Modes, ModeInv, TypeOK
  <2>2. j \in JobTypes /\ j # NoJob /\ r \in AskTypes
    BY <2>1, RecordTypes DEF NoJob, JobTypes, Kinds
  <2>3. JobFits(j, r)
    BY <2>1 DEF JobFits, NoJob, Put
  <2> QED BY <1>3, <2>2, <2>3, Calling DEF SetMode
<1> QED BY <1>1, <1>2, <1>3 DEF Call

\* A task runs on after an answer.
LEMMA ContinueStep ==
  ASSUME ModeInv, NEW t \in Tasks, Continue(t) PROVE ModeInv'
<1> USE DEF Back
<1>0. Returned(t)
  BY DEF Continue, UpdateNext, UpdateFails, SetTemperatureDone, SetModeDone, RefreshDone
<1>1. ASSUME UpdateNext(t) PROVE ModeInv'
  <2>1. /\ job[t].pos \in 1..Len(Poll) /\ ask[t].op = "get" /\ ask[t].key = Poll[job[t].pos]
        /\ reply.st # "down"
    BY <1>0, <1>1, Answered DEF UpdateNext, JobFits
  <2>2. Learn(ask[t].key)
    BY <1>1, <2>1 DEF UpdateNext
  <2>3. /\ opMode' \in Modes \cup {NoMode} /\ cache' \in [Setpoints -> AllValues \cup {NoTemp}]
        /\ ModeKey \notin stale => opMode' = dev[ModeKey]
    <3>1. CASE reply.st # "ok"
      BY <1>0, <2>2, <3>1, Answered DEF Learn
    <3>2. CASE reply.st = "ok" /\ ask[t].key = ModeKey
      BY <1>0, <2>1, <2>2, <3>2, Answered DEF Learn, Modes
    <3>3. CASE reply.st = "ok" /\ ask[t].key # ModeKey
      <4>1. ask[t].key \in Setpoints /\ reply.val \in AllValues
        BY <1>0, <2>1, <3>3, Answered, SetpointValues, CircuitAssumption
      <4> QED BY <1>0, <2>2, <3>3, <4>1, Answered DEF Learn, Remember
    <3> QED BY <3>1, <3>2, <3>3
  <2>4. CASE job[t].pos = Len(Poll)
    BY <1>0, <1>1, <2>3, <2>4, RunningOn, RecordTypes, NoJobFits DEF UpdateNext
  <2>5. CASE job[t].pos # Len(Poll)
    <3> DEFINE j == [job[t] EXCEPT !.pos = @ + 1]
               r == Get(Poll[job[t].pos + 1])
    <3>1. j \in JobTypes /\ j # NoJob /\ j.kind = "update" /\ j.pos \in 1..Len(Poll)
      BY <1>0, <1>1, <2>1, <2>5, RecordTypes, Answered DEF UpdateNext, JobTypes, NoJob
    <3>2. r \in AskTypes /\ JobFits(j, r)
      BY <1>0, <2>1, <3>1, Answered, RecordTypes DEF JobFits, Get, NoAsk, JobTypes
    <3>3. AskAgain(t, r) /\ Become(t, j) /\ state' = state
      BY <1>1, <2>5 DEF UpdateNext
    <3> QED BY <1>0, <2>3, <3>1, <3>2, <3>3, Answered, RunningOn
  <2> QED BY <2>4, <2>5
<1>2. ASSUME UpdateFails(t) PROVE ModeInv'
  BY <1>0, <1>2, Answered, RunningOn, RecordTypes, NoJobFits DEF UpdateFails
<1>3. ASSUME SetTemperatureDone(t) PROVE ModeInv'
  <2>1. ask[t].key # ModeKey /\ ask[t].val \in AllValues
    BY <1>0, <1>3, Answered, SetpointValues, CircuitAssumption DEF SetTemperatureDone, JobFits
  <2>2. cache' \in [Setpoints -> AllValues \cup {NoTemp}]
    BY <1>0, <1>3, <2>1, Answered, SetpointValues DEF SetTemperatureDone, Remember
  <2> QED BY <1>0, <1>3, <2>1, <2>2, Answered, RunningOn, RecordTypes, NoJobFits DEF SetTemperatureDone
<1>4. ASSUME SetModeDone(t) PROVE ModeInv'
  <2>1. ask[t].op = "put" /\ ask[t].key \in {ModeKey, NoKey} /\ ask[t].val \in Modes
    BY <1>0, <1>4, Answered DEF SetModeDone, JobFits
  <2>2. cache' \in [Setpoints -> AllValues \cup {NoTemp}] /\ state' \in BOOLEAN
    BY <1>0, <1>4, Answered DEF SetModeDone
  <2>3. CASE reply.st \in {"refused", "down"}
    BY <1>0, <1>4, <2>2, <2>3, Answered, RunningOn, RecordTypes, NoJobFits DEF SetModeDone
  <2>4. CASE reply.st \notin {"refused", "down"}
    <3>1. reply.st \in {"ok", "void"} /\ ask[t].key = ModeKey
      <4>1. reply.st \in {"ok", "void"}
        BY <1>0, <2>4 DEF ModeInv, TypeOK, ConnectorTypes, ReplyTypes, ReplyUse, Returned, NoReply
      <4>2. stale \subseteq Keys
        BY DEF ModeInv, TypeOK, ConnectorTypes
      <4>3. ask[t].key \in Keys
        BY <1>0, <2>1, <4>1, <4>2, Answered
      <4> QED BY <2>1, <4>1, <4>3, KeyAssumption
    <3>2. opMode' = ask[t].val /\ (ModeKey \notin stale => dev[ModeKey] = ask[t].val)
      BY <1>0, <1>4, <2>1, <2>4, <3>1, Answered DEF SetModeDone
    <3>3. CASE Leave(t) /\ Become(t, NoJob)
      BY <1>0, <2>1, <2>2, <3>2, <3>3, RunningOn, RecordTypes, NoJobFits
    <3>4. CASE /\ AskAgain(t, Get(SetpointOf[opMode']))
               /\ Become(t, [NoJob EXCEPT !.kind = "refresh"])
               /\ NeedsTemperature(opMode', job[t].old)
      <4> DEFINE j == [NoJob EXCEPT !.kind = "refresh"]
                 r == Get(SetpointOf[opMode'])
      <4>1. SetpointOf[opMode'] \in Setpoints
        BY <2>1, <3>2, <3>4, CircuitAssumption DEF NeedsTemperature
      <4>2. r \in AskTypes /\ r.op = "get" /\ r.key = SetpointOf[opMode']
        BY <4>1, RecordTypes DEF Get, NoAsk
      <4>3. j \in JobTypes /\ j # NoJob /\ j.kind = "refresh"
        BY RecordTypes DEF JobTypes, NoJob, Kinds
      <4>4. JobFits(j, r)
        BY <4>1, <4>2, <4>3 DEF JobFits
      <4>5. opMode' \in Modes \cup {NoMode} /\ (ModeKey \notin stale => opMode' = dev[ModeKey])
        BY <2>1, <3>2
      <4> HIDE DEF j, r
      <4>6. AskAgain(t, r) /\ Become(t, j)
        BY <3>4 DEF j, r
      <4> QED BY <1>0, <2>2, <4>2, <4>3, <4>4, <4>5, <4>6, RunningOn
    <3> QED BY <1>4, <2>4, <3>3, <3>4 DEF SetModeDone
  <2> QED BY <2>3, <2>4
<1>5. ASSUME RefreshDone(t) PROVE ModeInv'
  <2>1. ask[t].key \in Setpoints /\ ask[t].op = "get" /\ ask[t].key # ModeKey
    BY <1>0, <1>5, Answered, CircuitAssumption DEF RefreshDone, JobFits
  <2>2. cache' \in [Setpoints -> AllValues \cup {NoTemp}]
    <3>1. reply.st = "ok" => reply.val \in AllValues
      BY <1>0, <2>1, Answered, SetpointValues
    <3> QED BY <1>0, <1>5, <3>1, Answered, SetpointValues DEF RefreshDone, Remember
  <2> QED BY <1>0, <1>5, <2>1, <2>2, Answered, RunningOn, RecordTypes, NoJobFits DEF RefreshDone
<1> QED BY <1>1, <1>2, <1>3, <1>4, <1>5 DEF Continue

\* The request on the wire is repeated, answered or lost.
LEMMA WorldStep ==
  ASSUME ModeInv, World PROVE ModeInv'
<1> USE DEF ModeInv
<1>0. /\ UNCHANGED <<cache, opMode, state, job>>
      /\ queue \in Seq(Tasks) /\ ask \in [Tasks -> AskTypes] /\ reply \in ReplyTypes
      /\ stale \subseteq Keys
  BY DEF World, TypeOK, ConnectorTypes
<1>1. CASE Repeated
  <2> DEFINE h == Head(queue)
  <2>1. h \in Tasks /\ queue # << >> /\ reply = NoReply
    BY <1>0, <1>1 DEF Repeated, Pending
  <2>2. queue' = Append(Tail(queue), h) /\ UNCHANGED <<dev, reply, stale, changes>>
        /\ ask' = [ask EXCEPT ![h].failed = @ + 1]
    BY <1>1 DEF Repeated
  <2>3. ask' \in [Tasks -> AskTypes] /\ \A u \in Tasks : /\ ask'[u].op = ask[u].op
                                                      /\ ask'[u].key = ask[u].key
                                                      /\ ask'[u].val = ask[u].val
    <3>1. ask[h] \in AskTypes /\ ask[h].failed + 1 \in Nat
      BY <1>0, <2>1 DEF AskTypes
    <3>2. [ask[h] EXCEPT !.failed = ask[h].failed + 1] \in AskTypes
      BY <3>1 DEF AskTypes
    <3> HIDE DEF h
    <3> QED BY <1>0, <2>1, <2>2, <3>1, <3>2 DEF AskTypes
  <2>4. /\ queue' \in Seq(Tasks) /\ Once(queue')
        /\ \A i \in 1..Len(queue') : \E k \in 1..Len(queue) : queue'[i] = queue[k]
    BY <1>0, <2>1, <2>2, Requeues DEF QueueUse
  <2>5. TypeOK'
    BY <1>0, <2>2, <2>3, <2>4 DEF TypeOK, ConnectorTypes
  <2>6. QueueUse'
    BY <1>0, <2>4 DEF QueueUse, Busy, Idle
  <2>7. JobUse'
    BY <1>0, <2>3 DEF JobUse, JobFits
  <2>8. ReplyUse' /\ ModeKnown'
    BY <1>0, <2>1, <2>2 DEF ReplyUse, ModeKnown, NoReply, Arriving
  <2> QED BY <2>5, <2>6, <2>7, <2>8
<1>2. CASE GetAnswered \/ PutTaken \/ PutUnconfirmed \/ Failed
  <2>1. /\ queue # << >> /\ reply = NoReply /\ OnWire \in AskTypes
        /\ UNCHANGED <<queue, ask, changes, OnWire>>
    BY <1>0, <1>2 DEF GetAnswered, PutTaken, PutUnconfirmed, Failed, Pending, OnWire
  <2>2. QueueUse' /\ JobUse'
    BY <1>0, <2>1 DEF QueueUse, Busy, Idle, Once, JobUse
  <2>3. Head(queue) \in Tasks /\ JobFits(job[Head(queue)], OnWire)
        /\ job[Head(queue)] \in JobTypes /\ job[Head(queue)] # NoJob
    BY <1>0, <2>1 DEF JobUse, OnWire, QueueUse, Busy, Idle, TypeOK
  <2>4. ModeKey \notin stale => opMode = dev[ModeKey]
    BY <2>1 DEF ModeKnown, Arriving, NoReply
  <2>5. \A k \in Keys : dev[k] \in Domain[k] /\ dev[k] \in AllValues
    BY RecordTypes DEF TypeOK, ConnectorTypes
  <2>6. CASE GetAnswered
    <3>1. /\ OnWire.op = "get" /\ OnWire.key \in Keys /\ UNCHANGED dev
          /\ reply' = [st |-> "ok", val |-> dev[OnWire.key]] /\ stale' = stale \ {OnWire.key}
      BY <2>6 DEF GetAnswered
    <3>2. TypeOK'
      BY <1>0, <2>1, <2>5, <3>1 DEF TypeOK, ConnectorTypes, ReplyTypes
    <3>3. ReplyUse'
      BY <2>1, <2>5, <3>1 DEF ReplyUse
    <3>4. ModeKnown'
      BY <1>0, <2>1, <2>4, <3>1 DEF ModeKnown, Arriving, OnWire
    <3> QED BY <2>2, <3>2, <3>3, <3>4
  <2>7. CASE PutTaken
    <3>1. /\ OnWire.op = "put" /\ OnWire.key \in Keys
          /\ dev' = [dev EXCEPT ![OnWire.key] = OnWire.val]
          /\ reply' = [NoReply EXCEPT !.st = "ok"] /\ stale' = stale \ {OnWire.key}
      BY <2>7 DEF PutTaken
    <3>2. OnWire.val \in Domain[OnWire.key] /\ OnWire.val \in AllValues
      BY <2>3, <3>1, RecordTypes, KeyAssumption DEF JobFits, JobTypes, Kinds, Modes, NoJob
    <3>3. TypeOK'
      BY <1>0, <2>1, <3>1, <3>2 DEF TypeOK, ConnectorTypes, ReplyTypes, NoReply
    <3>4. ReplyUse'
      BY <1>0, <2>1, <3>1 DEF ReplyUse, TypeOK, ConnectorTypes, NoReply
    <3>5. ModeKnown'
      BY <1>0, <2>1, <2>4, <3>1, RecordTypes DEF ModeKnown, Arriving, OnWire, NoReply, TypeOK,
         ConnectorTypes
    <3> QED BY <2>2, <3>3, <3>4, <3>5
  <2>8. CASE PutUnconfirmed
    <3>1. /\ OnWire.op = "put" /\ OnWire.key \in Keys
          /\ dev' = [dev EXCEPT ![OnWire.key] = OnWire.val] /\ stale' = stale \cup {OnWire.key}
          /\ \E st \in {"down", "void"} : reply' = [NoReply EXCEPT !.st = st]
      BY <2>8 DEF PutUnconfirmed
    <3>2. OnWire.val \in Domain[OnWire.key] /\ OnWire.val \in AllValues
      BY <2>3, <3>1, RecordTypes, KeyAssumption DEF JobFits, JobTypes, Kinds, Modes, NoJob
    <3>3. TypeOK'
      BY <1>0, <2>1, <3>1, <3>2 DEF TypeOK, ConnectorTypes, ReplyTypes, NoReply
    <3>4. ReplyUse'
      BY <2>1, <3>1 DEF ReplyUse, NoReply
    <3>5. ModeKnown'
      BY <1>0, <2>4, <3>1, RecordTypes DEF ModeKnown, TypeOK, ConnectorTypes
    <3> QED BY <2>2, <3>3, <3>4, <3>5
  <2>9. CASE Failed
    <3>1. /\ UNCHANGED <<dev, stale>>
          /\ \E st \in {"refused", "down"} : reply' = [NoReply EXCEPT !.st = st]
      BY <2>9 DEF Failed
    <3>2. TypeOK'
      BY <1>0, <2>1, <3>1 DEF TypeOK, ConnectorTypes, ReplyTypes, NoReply
    <3>3. ReplyUse' /\ ModeKnown'
      BY <1>0, <2>1, <2>4, <3>1 DEF ReplyUse, ModeKnown, NoReply
    <3> QED BY <2>2, <3>2, <3>3
  <2> QED BY <1>2, <2>6, <2>7, <2>8, <2>9
<1>3. CASE OwnerChanges
  <2>1. PICK k \in OwnerKeys : \E v \in Domain[k] : dev' = [dev EXCEPT ![k] = v] /\ stale' = stale \cup {k}
    BY <1>3 DEF OwnerChanges
  <2>2. PICK v \in Domain[k] : dev' = [dev EXCEPT ![k] = v]
    BY <2>1
  <2>3. k \in Keys /\ v \in AllValues /\ UNCHANGED <<queue, ask, reply, OnWire>> /\ changes' = changes + 1
    BY <1>3, RecordTypes, KeyAssumption DEF OwnerChanges, OnWire
  <2>4. TypeOK'
    BY <1>0, <2>1, <2>2, <2>3 DEF TypeOK, ConnectorTypes
  <2>5. QueueUse' /\ JobUse'
    BY <1>0, <2>3 DEF QueueUse, Busy, Idle, Once, JobUse
  <2>6. ReplyUse'
    BY <1>0, <2>1, <2>2, <2>3 DEF ReplyUse, TypeOK, ConnectorTypes
  <2>7. ModeKnown'
    BY <1>0, <2>1, <2>2, <2>3, RecordTypes DEF ModeKnown, Arriving, TypeOK, ConnectorTypes
  <2> QED BY <2>4, <2>5, <2>6, <2>7
<1> QED BY <1>1, <1>2, <1>3 DEF World, DeviceStep

\* A task is cancelled.
LEMMA CancelStep ==
  ASSUME ModeInv, NEW t \in Tasks, Cancelled(t) PROVE ModeInv'
<1> USE DEF ModeInv
<1>0. /\ queue \in Seq(Tasks) /\ ask \in [Tasks -> AskTypes] /\ reply \in ReplyTypes
      /\ stale \subseteq Keys /\ Once(queue) /\ job \in [Tasks -> JobTypes]
  BY DEF TypeOK, ConnectorTypes, QueueUse
<1>1. PICK i \in 1..Len(queue) :
         /\ queue[i] = t /\ queue' = RemoveAt(queue, i)
         /\ IF i = 1
              THEN /\ reply' = NoReply /\ stale' = stale \cup ({ask[t].key} \cap Keys)
                   /\ \/ UNCHANGED dev
                      \/ /\ Pending /\ OnWire.op = "put" /\ OnWire.key \in Keys
                         /\ dev' = [dev EXCEPT ![OnWire.key] = OnWire.val]
              ELSE UNCHANGED <<dev, reply, stale>>
  BY DEF Cancelled, Abandon
<1>2. /\ ask' = [ask EXCEPT ![t] = NoAsk] /\ job' = [job EXCEPT ![t] = NoJob]
      /\ UNCHANGED <<changes, cache, opMode, state>>
  BY DEF Cancelled, Abandon, Become
<1>3. /\ queue' \in Seq(Tasks) /\ Once(queue')
      /\ \A j \in 1..Len(queue') : queue'[j] # t /\ \E k \in 1..Len(queue) : queue'[j] = queue[k]
      /\ i # 1 => queue' # << >> /\ Head(queue') = Head(queue)
  BY <1>0, <1>1, GivesUp
<1>4. QueueUse'
  BY <1>0, <1>2, <1>3 DEF QueueUse, Busy, Idle
<1>5. JobUse'
  BY <1>0, <1>2, NoJobFits DEF JobUse
<1>6. CASE i = 1
  <2>1. t = Head(queue) /\ OnWire = ask[t] /\ queue # << >>
    BY <1>0, <1>1, <1>6 DEF OnWire
  <2>2. OnWire.op = "put" /\ OnWire.key \in Keys =>
          OnWire.val \in Domain[OnWire.key] /\ OnWire.val \in AllValues
    <3>1. JobFits(job[t], ask[t]) /\ job[t] # NoJob /\ job[t] \in JobTypes
      BY <1>0, <1>1 DEF JobUse, QueueUse, Busy, Idle
    <3> QED BY <2>1, <3>1, RecordTypes, KeyAssumption DEF JobFits, JobTypes, Kinds, Modes, NoJob
  <2>3. dev' \in [Keys -> AllValues] /\ \A k \in Keys : dev'[k] \in Domain[k]
    BY <1>1, <1>6, <2>2 DEF TypeOK, ConnectorTypes
  <2>4. TypeOK'
    BY <1>0, <1>1, <1>2, <1>3, <1>6, <2>3, RecordTypes DEF TypeOK, ConnectorTypes
  <2>5. ReplyUse'
    BY <1>1, <1>6 DEF ReplyUse, NoReply
  <2>6. ModeKnown'
    <3>1. SUFFICES ASSUME ModeKey \notin stale' PROVE opMode' = dev'[ModeKey]
      BY DEF ModeKnown
    <3>2. ask[t].key # ModeKey /\ ModeKey \notin stale
      BY <1>1, <1>6, <3>1, RecordTypes
    <3>3. dev'[ModeKey] = dev[ModeKey]
      BY <1>1, <1>6, <2>1, <3>2, RecordTypes DEF TypeOK, ConnectorTypes
    <3> QED BY <1>2, <2>1, <3>2, <3>3 DEF ModeKnown, Arriving, OnWire
  <2> QED BY <1>4, <1>5, <2>4, <2>5, <2>6
<1>7. CASE i # 1
  <2>1. UNCHANGED <<dev, reply, stale, OnWire>> /\ queue # << >> /\ Head(queue) # t
    <3>1. queue # << >> /\ Head(queue) = queue[1] /\ queue[1] \in Tasks
      BY <1>0, <1>1
    <3>2. queue[1] # t
      BY <1>0, <1>1, <1>7 DEF Once
    <3> QED BY <1>0, <1>1, <1>2, <1>3, <1>7, <3>1, <3>2 DEF OnWire
  <2>2. TypeOK'
    BY <1>0, <1>2, <1>3, <2>1, RecordTypes DEF TypeOK, ConnectorTypes
  <2>3. ReplyUse'
    BY <1>3, <1>7, <2>1 DEF ReplyUse
  <2>4. ModeKnown'
    BY <1>2, <1>3, <1>7, <2>1 DEF ModeKnown, Arriving, OnWire
  <2> QED BY <1>4, <1>5, <2>2, <2>3, <2>4
<1> QED BY <1>6, <1>7

\* The circuit starts with what it knows: nothing.
LEMMA CircuitStart == Init => ModeInv
<1> SUFFICES ASSUME Init PROVE ModeInv
  OBVIOUS
<1>1. TypeOK
  <2>1. ConnectorTypes
    BY RecordTypes, KeyAssumption DEF Init, ConnectorInit, ConnectorTypes, AllValues
  <2>2. job \in [Tasks -> JobTypes] /\ cache \in [Setpoints -> AllValues \cup {NoTemp}]
    BY RecordTypes DEF Init
  <2> QED BY <2>1, <2>2 DEF Init, TypeOK
<1>2. QueueUse /\ ReplyUse
  BY DEF Init, ConnectorInit, QueueUse, Busy, Once, ReplyUse, NoReply
<1>3. JobUse
  BY NoJobFits DEF Init, JobUse
<1>4. ModeKnown
  BY RecordTypes DEF Init, ConnectorInit, ModeKnown
<1> QED BY <1>1, <1>2, <1>3, <1>4 DEF ModeInv

\* Every step keeps what the circuit knows.
LEMMA CircuitStep == ModeInv /\ [Next]_vars => ModeInv'
<1> SUFFICES ASSUME ModeInv, [Next]_vars PROVE ModeInv'
  OBVIOUS
<1>1. CASE World
  BY <1>1, WorldStep
<1>2. ASSUME NEW t \in Tasks, Call(t) \/ Continue(t) \/ Cancelled(t) PROVE ModeInv'
  BY <1>2, CallStep, ContinueStep, CancelStep
<1>3. CASE UNCHANGED vars
  BY <1>3 DEF vars, connectorVars, ModeInv, TypeOK, ConnectorTypes, QueueUse, Busy, Idle, Once,
     JobUse, ReplyUse, OnWire, ModeKnown, Arriving
<1> QED BY <1>1, <1>2, <1>3 DEF Next

\* The inductive invariant holds of every state the circuit reaches: types
\* are kept, a busy task waits in the queue for the request its operation
\* made, and the mode is known.
THEOREM ModeInvariance == Spec => []ModeInv
BY CircuitStart, CircuitStep, PTL DEF Spec

\* The mode a circuit shows is the mode of the device unless somebody else
\* changed it, for any number of tasks that poll, command and are cancelled.
THEOREM ModeIsKnown == Spec => []ModeKnown
<1>1. ModeInv => ModeKnown
  BY DEF ModeInv
<1> QED BY <1>1, ModeInvariance, PTL

-----------------------------------------------------------------------------
(* The temperatures                                                        *)

\* Nobody changes the operation mode.
ModeFixed == Commands = {} /\ ModeKey \notin OwnerKeys

\* A call asks, and nothing that is remembered changes.
LEMMA FixedCall ==
  ASSUME ModeFixed, FixedModeInv, NEW t \in Tasks, Call(t) PROVE FixedModeInv'
<1> USE DEF FixedModeInv, ModeSettled, PlainJobs
<1>1. ModeInv'
  BY CallStep
<1>2. \/ Update(t) \/ \E v \in Settable : SetTemperature(t, v)
  BY DEF Call, ModeFixed
<1>3. PICK r, j : /\ Idle(t) /\ Ask(t, r) /\ Become(t, j) /\ UNCHANGED <<cache, opMode, state>>
                  /\ r \in AskTypes /\ j \in JobTypes /\ j # NoJob /\ JobFits(j, r)
                  /\ j.kind \in {"update", "temp"} /\ (j.kind = "temp" => r.key = TempSetpoint)
  <2>1. CASE Update(t)
    <3> DEFINE j == [kind |-> "update", pos |-> 1, old |-> NoKey]
               r == Get(Poll[1])
    <3>1. Idle(t) /\ Ask(t, r) /\ Become(t, j) /\ UNCHANGED <<cache, opMode, state>>
      BY <2>1 DEF Update
    <3>2. 1 \in 1..Len(Poll) /\ 1 \in 0..Len(Poll) /\ Poll[1] \in Keys
      BY RecordTypes
    <3>3. r \in AskTypes /\ r.op = "get" /\ r.key = Poll[1]
      BY <3>2, RecordTypes DEF Get, NoAsk
    <3>4. j \in JobTypes /\ j # NoJob /\ j.kind = "update" /\ j.pos = 1
      BY <3>2 DEF NoJob, JobTypes, Kinds
    <3> HIDE DEF j, r
    <3>5. JobFits(j, r)
      BY <3>2, <3>3, <3>4 DEF JobFits
    <3> QED BY <3>1, <3>3, <3>4, <3>5
  <2>2. ASSUME NEW v \in Settable, SetTemperature(t, v)
        PROVE  \E r, j : /\ Idle(t) /\ Ask(t, r) /\ Become(t, j) /\ UNCHANGED <<cache, opMode, state>>
                         /\ r \in AskTypes /\ j \in JobTypes /\ j # NoJob /\ JobFits(j, r)
                         /\ j.kind \in {"update", "temp"} /\ (j.kind = "temp" => r.key = TempSetpoint)
    <3> DEFINE j == [NoJob EXCEPT !.kind = "temp"]
               r == Put(TempSetpoint, v)
    <3>1. Idle(t) /\ Ask(t, r) /\ Become(t, j) /\ UNCHANGED <<cache, opMode, state>>
      BY <2>2 DEF SetTemperature
    <3>2. TempSetpoint \in Setpoints /\ v \in Domain[TempSetpoint] /\ v \in AllValues
      BY <2>2, SetpointValues, CircuitAssumption DEF SetTemperature, ModeInv, TypeOK
    <3>3. r \in AskTypes /\ r.op = "put" /\ r.key = TempSetpoint /\ r.val = v
      BY <3>2, RecordTypes DEF Put
    <3>4. j \in JobTypes /\ j # NoJob /\ j.kind = "temp"
      BY RecordTypes DEF NoJob, JobTypes, Kinds
    <3> HIDE DEF j, r
    <3>5. JobFits(j, r)
      BY <3>2, <3>3, <3>4 DEF JobFits
    <3> QED BY <3>1, <3>3, <3>4, <3>5
  <2> QED BY <1>2, <2>1, <2>2
<1>4. \A k \in Keys : Arriving(k) <=> Arriving(k)'
  BY <1>3, Calling
<1>5. UNCHANGED <<dev, stale, reply, cache, opMode, TempSetpoint>>
  BY <1>3 DEF Ask, TempSetpoint
<1>6. /\ job' = [job EXCEPT ![t] = j] /\ ask' = [ask EXCEPT ![t] = r]
      /\ job \in [Tasks -> JobTypes] /\ ask \in [Tasks -> AskTypes]
  BY <1>3 DEF Become, Ask, ModeInv, TypeOK, ConnectorTypes
<1>7. SetpointsKnown'
  BY <1>4, <1>5, RecordTypes DEF SetpointsKnown
<1>8. ModeSettled'
  BY <1>4, <1>5, RecordTypes
<1>9. PlainJobs'
  BY <1>3, <1>5, <1>6
<1> QED BY <1>1, <1>7, <1>8, <1>9

\* An answer is taken into account at once.
LEMMA FixedContinue ==
  ASSUME ModeFixed, FixedModeInv, NEW t \in Tasks, Continue(t) PROVE FixedModeInv'
<1> USE DEF FixedModeInv, ModeSettled, PlainJobs, Back
<1>1. ModeInv'
  BY ContinueStep
<1>2. UpdateNext(t) \/ UpdateFails(t) \/ SetTemperatureDone(t)
  BY DEF Continue, SetModeDone, RefreshDone
<1>3. Returned(t) /\ UNCHANGED <<dev, stale>> /\ reply' = NoReply
  BY <1>2 DEF UpdateNext, UpdateFails, SetTemperatureDone, AskAgain, Leave
<1>4. \A k \in Keys : /\ Arriving(k) <=> reply.st = "ok" /\ ask[t].key = k
                      /\ ~Arriving(k)'
  BY <1>3 DEF Arriving, Returned, NoReply
<1>5. /\ opMode' \in {NoMode, dev[ModeKey]} /\ (opMode # NoMode => opMode' = opMode)
      /\ \A k \in Setpoints : k \notin stale => cache'[k] = dev[k]
  <2>1. CASE UpdateFails(t)
    BY <1>3, <1>4, <2>1, RecordTypes DEF UpdateFails, SetpointsKnown
  <2>2. CASE SetTemperatureDone(t)
    <3>1. ask[t].op = "put" /\ ask[t].key \in Setpoints /\ ask[t].key = TempSetpoint /\ TempSetpoint # NoKey
      BY <1>3, <2>2, Answered, SetpointValues DEF SetTemperatureDone, JobFits
    <3>2. CASE reply.st = "ok"
      <4>1. cache' = [cache EXCEPT ![ask[t].key] = ask[t].val] /\ opMode' = opMode
        BY <2>2, <3>1, <3>2 DEF SetTemperatureDone, Remember
      <4>2. ask[t].key \notin stale => dev[ask[t].key] = ask[t].val
        BY <1>3, <3>1, <3>2, Answered
      <4>3. \A k \in Setpoints : k # ask[t].key => ~Arriving(k)
        BY <1>4, RecordTypes
      <4> QED BY <1>3, <3>1, <4>1, <4>2, <4>3, Answered DEF SetpointsKnown
    <3>3. CASE reply.st # "ok"
      BY <1>3, <1>4, <2>2, <3>3, RecordTypes DEF SetTemperatureDone, SetpointsKnown
    <3> QED BY <3>2, <3>3
  <2>3. CASE UpdateNext(t)
    <3>1. ask[t].op = "get" /\ ask[t].key \in Keys /\ Learn(ask[t].key)
      BY <1>3, <2>3, Answered, RecordTypes DEF UpdateNext, JobFits
    <3>2. CASE reply.st # "ok"
      BY <1>3, <1>4, <3>1, <3>2, RecordTypes DEF Learn, SetpointsKnown
    <3>3. CASE reply.st = "ok" /\ ask[t].key = ModeKey
      <4>1. opMode' = dev[ModeKey] /\ cache' = cache
        BY <1>4, <3>1, <3>3, RecordTypes DEF Learn
      <4>2. \A k \in Setpoints : ~Arriving(k)
        BY <1>4, <3>3, CircuitAssumption
      <4> QED BY <1>3, <4>1, <4>2 DEF SetpointsKnown
    <3>4. CASE reply.st = "ok" /\ ask[t].key # ModeKey
      <4>1. cache' = [cache EXCEPT ![ask[t].key] = reply.val] /\ opMode' = opMode
        BY <3>1, <3>4 DEF Learn, Remember
      <4>2. ask[t].key \notin stale => dev[ask[t].key] = reply.val
        BY <1>3, <3>1, <3>4, Answered
      <4>3. \A k \in Setpoints : k # ask[t].key => ~Arriving(k)
        BY <1>4, RecordTypes
      <4> QED BY <1>3, <4>1, <4>2, <4>3, Answered DEF SetpointsKnown
    <3> QED BY <3>2, <3>3, <3>4
  <2> QED BY <1>2, <2>1, <2>2, <2>3
<1>6. SetpointsKnown' /\ ModeSettled'
  BY <1>3, <1>4, <1>5, RecordTypes DEF SetpointsKnown
<1>7. PlainJobs'
  <2>1. \A u \in Tasks \ {t} : job'[u] = job[u] /\ ask'[u] = ask[u]
    BY <1>2 DEF UpdateNext, UpdateFails, SetTemperatureDone, AskAgain, Leave, Become, ModeInv,
       TypeOK, ConnectorTypes
  <2>2. job'[t].kind \in {"none", "update"}
    BY <1>2, <1>3, Answered DEF UpdateNext, UpdateFails, SetTemperatureDone, Become, NoJob, ModeInv,
       TypeOK, JobTypes
  <2>3. ASSUME NEW u \in Tasks, job[u].kind = "temp" PROVE TempSetpoint' = TempSetpoint
    <3>1. ask[u].key = TempSetpoint /\ ask[u].key \in Setpoints
      BY <2>3 DEF ModeInv, JobUse, JobFits
    <3>2. opMode # NoMode
      BY <3>1, SetpointValues DEF TempSetpoint
    <3> QED BY <1>5, <3>2 DEF TempSetpoint
  <2> QED BY <2>1, <2>2, <2>3
<1> QED BY <1>1, <1>6, <1>7

\* What the connector, the owner and a cancellation do to the temperatures.
LEMMA FixedOthers ==
  ASSUME ModeFixed, FixedModeInv, World \/ \E t \in Tasks : Cancelled(t) PROVE FixedModeInv'
<1> USE DEF FixedModeInv, ModeSettled, PlainJobs
<1>1. ModeInv'
  BY WorldStep, CancelStep
<1>2. UNCHANGED <<cache, opMode, TempSetpoint>>
  BY DEF World, Cancelled, TempSetpoint
<1>3. PlainJobs'
  <2>1. CASE World
    <3>1. UNCHANGED job /\ queue \in Seq(Tasks) /\ ask \in [Tasks -> AskTypes]
      BY <2>1 DEF World, ModeInv, TypeOK, ConnectorTypes
    <3>2. \A u \in Tasks : ask'[u].key = ask[u].key
      <4>1. CASE Repeated
        <5>1. Head(queue) \in Tasks /\ ask' = [ask EXCEPT ![Head(queue)].failed = @ + 1]
          BY <3>1, <4>1 DEF Repeated, Pending
        <5> QED BY <3>1, <5>1 DEF AskTypes
      <4>2. CASE ~Repeated
        BY <2>1, <4>2 DEF World, DeviceStep, GetAnswered, PutTaken, PutUnconfirmed, Failed, OwnerChanges
      <4> QED BY <4>1, <4>2
    <3> QED BY <1>2, <3>1, <3>2
  <2>2. ASSUME NEW t \in Tasks, Cancelled(t) PROVE PlainJobs'
    <3>1. /\ job' = [job EXCEPT ![t] = NoJob] /\ ask' = [ask EXCEPT ![t] = NoAsk]
          /\ job \in [Tasks -> JobTypes] /\ ask \in [Tasks -> AskTypes]
      BY <2>2 DEF Cancelled, Abandon, Become, ModeInv, TypeOK, ConnectorTypes
    <3> QED BY <1>2, <3>1 DEF NoJob
  <2> QED BY <2>1, <2>2
<1>4. /\ dev'[ModeKey] = dev[ModeKey] /\ (Arriving(ModeKey)' => reply'.val = dev'[ModeKey])
      /\ \A k \in Setpoints \ stale' :
           Arriving(k)' \/ (dev'[k] = dev[k] /\ k \notin stale /\ ~Arriving(k))
  <2>0. /\ queue \in Seq(Tasks) /\ Once(queue) /\ dev \in [Keys -> AllValues] /\ stale \subseteq Keys
        /\ ModeKey \in Keys /\ Setpoints \subseteq Keys /\ ModeKey \notin Setpoints
    BY RecordTypes, CircuitAssumption DEF ModeInv, TypeOK, ConnectorTypes, QueueUse
  <2>1. ASSUME queue # << >> PROVE
          /\ OnWire = ask[Head(queue)] /\ Head(queue) \in Tasks
          /\ OnWire.op = "put" => OnWire.key \in Setpoints
    <3>1. OnWire = ask[Head(queue)] /\ Head(queue) \in Tasks /\ Head(queue) = queue[1] /\ 1 \in 1..Len(queue)
      BY <2>0, <2>1 DEF OnWire
    <3>2. JobFits(job[Head(queue)], OnWire) /\ job[Head(queue)] # NoJob
      BY <3>1 DEF ModeInv, JobUse, QueueUse, Busy, Idle
    <3> QED BY <3>1, <3>2 DEF JobFits
  <2>2. CASE World
    <3>1. CASE Repeated
      BY <2>0, <3>1 DEF Repeated, Pending, Arriving, NoReply
    <3>2. CASE GetAnswered
      BY <2>0, <2>1, <3>2 DEF GetAnswered, Pending, Arriving, NoReply, OnWire
    <3>3. CASE PutTaken
      BY <2>0, <2>1, <3>3 DEF PutTaken, Pending, Arriving, NoReply, OnWire
    <3>4. CASE PutUnconfirmed
      BY <2>0, <2>1, <3>4 DEF PutUnconfirmed, Pending, Arriving, NoReply, OnWire
    <3>5. CASE Failed
      BY <2>0, <3>5 DEF Failed, Pending, Arriving, NoReply
    <3>6. CASE OwnerChanges
      <4>1. PICK k \in OwnerKeys : \E v \in Domain[k] : dev' = [dev EXCEPT ![k] = v] /\ stale' = stale \cup {k}
        BY <3>6 DEF OwnerChanges
      <4>2. k # ModeKey /\ stale' = stale \cup {k} /\ UNCHANGED <<queue, ask, reply>>
        BY <3>6, <4>1 DEF OwnerChanges, ModeFixed
      <4>3. \A l \in Keys : Arriving(l)' <=> Arriving(l)
        BY <4>2 DEF Arriving
      <4> QED BY <2>0, <4>1, <4>2, <4>3
    <3> QED BY <2>2, <3>1, <3>2, <3>3, <3>4, <3>5, <3>6 DEF World, DeviceStep
  <2>3. ASSUME NEW t \in Tasks, Cancelled(t)
        PROVE  /\ dev'[ModeKey] = dev[ModeKey] /\ (Arriving(ModeKey)' => reply'.val = dev'[ModeKey])
               /\ \A k \in Setpoints \ stale' :
                    Arriving(k)' \/ (dev'[k] = dev[k] /\ k \notin stale /\ ~Arriving(k))
    <3>1. PICK i \in 1..Len(queue) :
             /\ queue[i] = t /\ queue' = RemoveAt(queue, i)
             /\ IF i = 1
                  THEN /\ reply' = NoReply /\ stale' = stale \cup ({ask[t].key} \cap Keys)
                       /\ \/ UNCHANGED dev
                          \/ /\ Pending /\ OnWire.op = "put" /\ OnWire.key \in Keys
                             /\ dev' = [dev EXCEPT ![OnWire.key] = OnWire.val]
                  ELSE UNCHANGED <<dev, reply, stale>>
      BY <2>3 DEF Cancelled, Abandon
    <3>2. queue # << >> /\ Head(queue) = queue[1] /\ ask' = [ask EXCEPT ![t] = NoAsk]
      BY <2>0, <2>3, <3>1 DEF Cancelled, Abandon
    <3>3. CASE i = 1
      <4>1. OnWire = ask[t]
        BY <2>1, <3>1, <3>2, <3>3
      <4>2. /\ \A k \in Keys : ~Arriving(k)'
            /\ \A k \in Setpoints \ stale' : k # OnWire.key /\ k \notin stale
        BY <2>0, <3>1, <3>3, <4>1 DEF Arriving, NoReply
      <4>3. /\ \A k \in Setpoints \ stale' : dev'[k] = dev[k] /\ ~Arriving(k)
            /\ dev'[ModeKey] = dev[ModeKey]
        BY <2>0, <2>1, <3>1, <3>2, <3>3, <4>2 DEF Arriving, OnWire
      <4> QED BY <2>0, <4>2, <4>3
    <3>4. CASE i # 1
      <4>1. queue' # << >> /\ Head(queue') = Head(queue)
        BY <2>0, <3>1, <3>4, GivesUp
      <4>2. Head(queue) # t
        BY <2>0, <3>1, <3>2, <3>4 DEF Once
      <4>3. UNCHANGED <<dev, reply, stale, OnWire>>
        BY <2>1, <3>1, <3>2, <3>4, <4>1, <4>2 DEF OnWire
      <4>4. \A k \in Keys : Arriving(k)' <=> Arriving(k)
        BY <3>2, <4>1, <4>3 DEF Arriving, OnWire
      <4> QED BY <2>0, <4>3, <4>4
    <3> QED BY <3>3, <3>4
  <2> QED BY <2>2, <2>3
<1>5. SetpointsKnown' /\ ModeSettled'
  BY <1>2, <1>4 DEF SetpointsKnown
<1> QED BY <1>1, <1>3, <1>5

\* As long as nobody changes the mode, a temperature the circuit shows is the
\* one of the device unless somebody else changed it: no poll overwrites what
\* set_temperature has written, and no refused write is shown.
THEOREM SetpointsAreKnown == ASSUME ModeFixed PROVE Spec => []SetpointsKnown
<1>1. Init => FixedModeInv
  <2> SUFFICES ASSUME Init PROVE FixedModeInv
    OBVIOUS
  <2>1. ModeInv
    BY CircuitStart
  <2>2. SetpointsKnown /\ ModeSettled
    BY RecordTypes DEF Init, ConnectorInit, SetpointsKnown, ModeSettled, Arriving
  <2>3. PlainJobs
    BY DEF Init, PlainJobs, NoJob
  <2> QED BY <2>1, <2>2, <2>3 DEF FixedModeInv
<1>2. FixedModeInv /\ [Next]_vars => FixedModeInv'
  <2> SUFFICES ASSUME FixedModeInv, [Next]_vars PROVE FixedModeInv'
    OBVIOUS
  <2>1. CASE World
    BY <2>1, FixedOthers
  <2>2. ASSUME NEW t \in Tasks, Call(t) \/ Continue(t) \/ Cancelled(t) PROVE FixedModeInv'
    BY <2>2, FixedCall, FixedContinue, FixedOthers
  <2>3. CASE UNCHANGED vars
    <3>1. ModeInv'
      BY <2>3, CircuitStep DEF FixedModeInv
    <3>2. SetpointsKnown' /\ ModeSettled' /\ PlainJobs'
      BY <2>3 DEF vars, connectorVars, FixedModeInv, SetpointsKnown, ModeSettled, PlainJobs, Arriving,
         TempSetpoint
    <3> QED BY <3>1, <3>2 DEF FixedModeInv
  <2> QED BY <2>1, <2>2, <2>3 DEF Next
<1>3. FixedModeInv => SetpointsKnown
  BY DEF FixedModeInv
<1> QED BY <1>1, <1>2, <1>3, PTL DEF Spec
=============================================================================
