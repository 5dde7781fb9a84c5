------------------------------ MODULE ScheduleProofs ------------------------------
(***************************************************************************)
(* What a schedule remembers, for every set of tasks, programs and levels  *)
(* and switch points of any number.                                        *)
(***************************************************************************)
EXTENDS ScheduleProperties, QueueProofs, WellFoundedInduction, TLAPS

\* What the assumptions say of the resources.
LEMMA Resources ==
  /\ ActiveKey \in Keys /\ ClockKey \in Keys /\ Programs \subseteq Keys /\ Levels \subseteq Keys
  /\ NoKey \notin Keys /\ (ModeKey # NoKey => ModeKey \in Keys)
  /\ ModeKey \notin {ActiveKey, ClockKey} \cup Programs \cup Levels \cup OwnerKeys
  /\ \A k \in Keys : Domain[k] \subseteq AllValues
<1>1. /\ Keys = {ActiveKey, ClockKey} \cup ({ModeKey} \ {NoKey}) \cup Programs \cup Levels
      /\ ModeKey # ActiveKey /\ ModeKey # ClockKey /\ ModeKey \notin Programs \cup Levels
  BY ScheduleAssumption
<1>2. NoKey \notin Keys /\ ModeKey \notin OwnerKeys
  BY KeyAssumption, ModeAssumption
<1> QED BY <1>1, <1>2 DEF AllValues

\* The records of the model have their types.
LEMMA RecordTypes ==
  /\ NoAsk \in AskTypes /\ NoReply \in ReplyTypes /\ NoJob \in JobTypes
  /\ \A k \in Keys : Get(k) \in AskTypes /\ Get(k).op = "get" /\ Get(k).key = k
  /\ \A k \in Keys : \A v \in Domain[k] : Put(k, v) \in AskTypes
  /\ \A kind \in Kinds : Do(kind) \in JobTypes /\ Do(kind).kind = kind
                         /\ (kind # "none" => Do(kind) # NoJob)
<1>1. NoJob \in JobTypes
  <2>1. << >> \in PointLists
    BY DEF PointLists
  <2> QED BY <2>1 DEF NoJob, JobTypes, Kinds
<1>2. NoAsk \in AskTypes /\ NoReply \in ReplyTypes
  BY DEF NoAsk, NoReply, AskTypes, ReplyTypes
<1>3. \A k \in Keys : Get(k) \in AskTypes /\ Get(k).op = "get" /\ Get(k).key = k
  BY DEF Get, NoAsk, AskTypes
<1>4. \A k \in Keys : \A v \in Domain[k] : Put(k, v) \in AskTypes
  BY DEF Put, AskTypes, AllValues
<1>5. \A kind \in Kinds : Do(kind) \in JobTypes /\ Do(kind).kind = kind
                          /\ (kind # "none" => Do(kind) # NoJob)
  <2>1. SUFFICES ASSUME NEW kind \in Kinds
                 PROVE  Do(kind) \in JobTypes /\ Do(kind).kind = kind /\ (kind # "none" => Do(kind) # NoJob)
    OBVIOUS
  <2>2. Do(kind) = [kind |-> kind, pts |-> << >>, pos |-> 0]
    BY DEF Do, NoJob
  <2>3. << >> \in PointLists
    BY DEF PointLists
  <2> QED BY <2>2, <2>3 DEF JobTypes, NoJob
<1> QED BY <1>1, <1>2, <1>3, <1>4, <1>5

\* The levels of switch points.
LEMMA ElementsOfLists ==
  ASSUME NEW pts \in PointLists PROVE \A i \in 1..Len(pts) : pts[i].level \in Levels
<1> DEFINE P == [at : 0..Week-1, level : Levels]
<1>1. pts \in Seq(P)
  BY DEF PointLists
<1>2. \A p \in P : p.level \in Levels
  OBVIOUS
<1> HIDE DEF P
<1>3. \A i \in 1..Len(pts) : pts[i] \in P
  BY <1>1
<1> QED BY <1>2, <1>3

\* A job that changes.
LEMMA Becoming ==
  ASSUME job \in [Tasks -> JobTypes], NEW t \in Tasks, NEW j \in JobTypes, Become(t, j)
  PROVE  /\ job' \in [Tasks -> JobTypes] /\ job'[t] = j
         /\ \A u \in Tasks \ {t} : job'[u] = job[u]
BY DEF Become

-----------------------------------------------------------------------------
(* The connector                                                           *)

\* What a task that starts a request leaves behind.
LEMMA Calling ==
  ASSUME ConnectorUse, NEW t \in Tasks, NEW r \in AskTypes, NEW j \in JobTypes,
         Idle(t), j # NoJob, JobFits(j, r), Ask(t, r), Become(t, j)
  PROVE  ConnectorUse'
<1> USE DEF ConnectorUse, Ask, Idle
<1>1. queue \in Seq(Tasks) /\ Once(queue) /\ \A i \in 1..Len(queue) : queue[i] # t
  BY DEF ConnectorTypes, Busy
<1>2. queue' \in Seq(Tasks) /\ Once(queue') /\ (queue # << >> => Head(queue') = Head(queue))
  BY <1>1, Joins
<1>3. ConnectorTypes' /\ job' \in [Tasks -> JobTypes]
  BY <1>2, Becoming DEF ConnectorTypes
<1>4. Busy(queue)'
  <2>1. \A i \in 1..Len(queue') : queue'[i] = IF i <= Len(queue) THEN queue[i] ELSE t
    BY <1>1
  <2>2. \A i \in 1..Len(queue) : job[queue[i]] # NoJob
    BY DEF Busy
  <2> QED BY <1>1, <1>2, <2>1, <2>2, Becoming DEF Busy
<1>5. \A u \in Tasks : JobFits(job'[u], ask'[u])
  BY Becoming DEF ConnectorTypes
<1>6. CASE queue = << >>
  <2>1. reply = NoReply /\ reply' = NoReply /\ queue' # << >>
    BY <1>2, <1>6
  <2> QED BY <1>2, <1>3, <1>4, <1>5, <2>1 DEF NoReply, JobFits
<1>7. CASE queue # << >>
  <2>1. Head(queue) # t /\ Head(queue) \in Tasks
    BY <1>1, <1>7
  <2>2. queue' # << >> /\ OnWire' = OnWire
    BY <1>1, <1>2, <1>7, <2>1 DEF OnWire, ConnectorTypes
  <2> QED BY <1>2, <1>3, <1>4, <1>5, <2>2 DEF JobFits
<1> QED BY <1>6, <1>7

\* What a task that runs on leaves behind, when it asks for more or leaves.
LEMMA RunningOn ==
  ASSUME ConnectorUse, NEW t \in Tasks, NEW r \in AskTypes, NEW j \in JobTypes, Returned(t),
         Become(t, j), JobFits(j, r),
         \/ AskAgain(t, r) /\ j # NoJob
         \/ Leave(t) /\ j = NoJob /\ r = NoAsk
  PROVE  ConnectorUse'
<1> USE DEF ConnectorUse, Idle, Returned
<1>1. queue \in Seq(Tasks) /\ Once(queue) /\ queue # << >> /\ Head(queue) = t
  BY DEF ConnectorTypes
<1>2. /\ ask' = [ask EXCEPT ![t] = r] /\ reply' = NoReply
      /\ UNCHANGED <<dev, stale, changes>>
  BY DEF AskAgain, Leave
<1>3. job'[t] = j /\ (\A u \in Tasks \ {t} : job'[u] = job[u]) /\ job' \in [Tasks -> JobTypes]
  BY Becoming
<1>4. queue' \in Seq(Tasks) /\ Once(queue') /\ Busy(queue)'
  <2>1. CASE AskAgain(t, r) /\ j # NoJob
    <3>1. queue' = Append(Tail(queue), Head(queue))
      BY <2>1, <1>1 DEF AskAgain
    <3>2. /\ queue' \in Seq(Tasks) /\ Once(queue')
          /\ \A i \in 1..Len(queue') : \E k \in 1..Len(queue) : queue'[i] = queue[k]
      BY <1>1, <3>1, Requeues
    <3>3. \A i \in 1..Len(queue') : job'[queue'[i]] # NoJob
      BY <1>1, <1>3, <2>1, <3>2 DEF Busy
    <3> QED BY <3>2, <3>3 DEF Busy
  <2>2. CASE Leave(t) /\ j = NoJob
    <3>1. queue' = Tail(queue)
      BY <2>2 DEF Leave
    <3>2. /\ queue' \in Seq(Tasks) /\ Once(queue')
          /\ \A i \in 1..Len(queue') : queue'[i] = queue[i + 1] /\ queue'[i] # t
      BY <1>1, <3>1, Leaves
    <3>3. \A i \in 1..Len(queue') : i + 1 \in 1..Len(queue)
      BY <1>1, <3>1
    <3>4. \A i \in 1..Len(queue') : job'[queue'[i]] # NoJob
      BY <1>1, <1>3, <3>2, <3>3 DEF Busy
    <3> QED BY <3>2, <3>4 DEF Busy
  <2> QED BY <2>1, <2>2
<1>5. ConnectorTypes'
  BY <1>2, <1>4, RecordTypes DEF ConnectorTypes
<1>6. \A u \in Tasks : JobFits(job'[u], ask'[u])
  BY <1>2, <1>3 DEF ConnectorTypes
<1> QED BY <1>2, <1>3, <1>4, <1>5, <1>6 DEF NoReply, JobFits

\* What a task that runs on knows of its answer.
LEMMA Answered ==
  ASSUME ConnectorUse, NEW t \in Tasks, Returned(t)
  PROVE  /\ ask[t] \in AskTypes /\ job[t] \in JobTypes /\ JobFits(job[t], ask[t])
         /\ Ok /\ ask[t].op = "get" =>
              /\ ask[t].key \in Keys /\ reply.val \in Domain[ask[t].key]
              /\ ask[t].key = ModeKey => reply.val = dev[ModeKey]
BY DEF ConnectorUse, ConnectorTypes, Returned, OnWire, Ok

\* No job fits every request.
LEMMA NoJobFits == \A r : JobFits(NoJob, r)
BY DEF JobFits, NoJob

\* The device, and those who use it, leave what the schedule remembers alone.
LEMMA WorldStep ==
  ASSUME ScheduleInv, World PROVE ScheduleInv'
<1> USE DEF ScheduleInv
<1>0. /\ UNCHANGED <<cacheVars, job>>
      /\ queue \in Seq(Tasks) /\ ask \in [Tasks -> AskTypes] /\ reply \in ReplyTypes
      /\ dev \in [Keys -> AllValues] /\ stale \subseteq Keys
  BY DEF World, ConnectorUse, ConnectorTypes
<1>1. SUFFICES ConnectorUse' /\ (ModeKey # NoKey => dev'[ModeKey] = dev[ModeKey])
  BY <1>0 DEF TypeOK, CacheTypes, ConnectorUse, ModeOnce, ProgramNamed, FetchedSoFar, LevelsKnown, cacheVars
<1> USE DEF ConnectorUse
<1>2. CASE Repeated
  <2> DEFINE h == Head(queue)
  <2>1. h \in Tasks /\ queue # << >> /\ reply = NoReply
    BY <1>0, <1>2 DEF Repeated, Pending
  <2>2. queue' = Append(Tail(queue), h) /\ UNCHANGED <<dev, reply, stale, changes>>
        /\ ask' = [ask EXCEPT ![h].failed = @ + 1]
    BY <1>2 DEF Repeated
  <2>3. ask' \in [Tasks -> AskTypes] /\ \A u \in Tasks : /\ ask'[u].op = ask[u].op
                                                      /\ ask'[u].key = ask[u].key
                                                      /\ ask'[u].val = ask[u].val
    <3>1. ask[h] \in AskTypes /\ ask[h].failed + 1 \in Nat
      BY <1>0, <2>1 DEF AskTypes
    <3>2. [ask[h] EXCEPT !.failed = ask[h].failed + 1] \in AskTypes
      BY <3>1 DEF AskTypes
    <3> HIDE DEF h
    <3> QED BY <1>0, <2>1, <2>2, <3>1, <3>2 DEF AskTypes
  <2>4. /\ queue' \in Seq(Tasks) /\ Once(queue') /\ queue' # << >>
        /\ \A i \in 1..Len(queue') : \E k \in 1..Len(queue) : queue'[i] = queue[k]
    BY <1>0, <2>1, <2>2, Requeues
  <2>5. ConnectorTypes'
    BY <1>0, <2>2, <2>3, <2>4 DEF ConnectorTypes
  <2>6. Busy(queue)'
    BY <1>0, <2>4 DEF Busy, Idle
  <2>7. \A u \in Tasks : JobFits(job'[u], ask'[u])
    BY <1>0, <2>3 DEF JobFits
  <2> QED BY <1>0, <2>1, <2>2, <2>4, <2>5, <2>6, <2>7 DEF NoReply
<1>3. CASE GetAnswered \/ PutTaken \/ PutUnconfirmed \/ Failed
  <2>1. /\ queue # << >> /\ reply = NoReply /\ OnWire \in AskTypes
        /\ UNCHANGED <<queue, ask, changes, OnWire>>
    BY <1>0, <1>3 DEF GetAnswered, PutTaken, PutUnconfirmed, Failed, Pending, OnWire
  <2>2. Once(queue') /\ Busy(queue)' /\ \A u \in Tasks : JobFits(job'[u], ask'[u])
    BY <1>0, <2>1 DEF Busy, Idle, Once
  <2>3. JobFits(job[Head(queue)], OnWire) /\ job[Head(queue)] # NoJob /\ job[Head(queue)] \in JobTypes
    BY <1>0, <2>1 DEF OnWire, Busy, Idle
  <2>4. \A k \in Keys : dev[k] \in Domain[k] /\ dev[k] \in AllValues
    BY Resources DEF ConnectorTypes
  <2>5. CASE GetAnswered
    <3>1. /\ OnWire.op = "get" /\ OnWire.key \in Keys /\ UNCHANGED dev
          /\ reply' = [st |-> "ok", val |-> dev[OnWire.key]] /\ stale' = stale \ {OnWire.key}
      BY <2>5 DEF GetAnswered
    <3>2. ConnectorTypes'
      BY <1>0, <2>1, <2>4, <3>1 DEF ConnectorTypes, ReplyTypes
    <3> QED BY <1>0, <2>1, <2>2, <2>4, <3>1, <3>2
  <2>6. CASE PutTaken \/ PutUnconfirmed
    <3>1. /\ OnWire.op = "put" /\ OnWire.key \in Keys
          /\ dev' = [dev EXCEPT ![OnWire.key] = OnWire.val]
          /\ stale' \subseteq Keys
          /\ \E st \in {"ok", "down", "void"} : reply' = [NoReply EXCEPT !.st = st]
      BY <1>0, <2>6 DEF PutTaken, PutUnconfirmed
    <3>2. OnWire.key # ModeKey /\ OnWire.val \in Domain[OnWire.key] /\ OnWire.val \in AllValues
      BY <2>3, <3>1, Resources, ScheduleAssumption DEF JobFits, JobTypes, Kinds
    <3>3. dev' \in [Keys -> AllValues] /\ \A k \in Keys : dev'[k] \in Domain[k]
      BY <1>0, <2>4, <3>1, <3>2
    <3>4. ConnectorTypes'
      BY <1>0, <2>1, <3>1, <3>3 DEF ConnectorTypes, ReplyTypes, NoReply
    <3>5. ModeKey # NoKey => dev'[ModeKey] = dev[ModeKey]
      BY <1>0, <3>1, <3>2, Resources
    <3> QED BY <1>0, <2>1, <2>2, <3>1, <3>4, <3>5
  <2>7. CASE Failed
    <3>1. /\ UNCHANGED <<dev, stale>>
          /\ \E st \in {"refused", "down"} : reply' = [NoReply EXCEPT !.st = st]
      BY <2>7 DEF Failed
    <3>2. ConnectorTypes'
      BY <1>0, <2>1, <3>1 DEF ConnectorTypes, ReplyTypes, NoReply
    <3> QED BY <1>0, <2>1, <2>2, <3>1, <3>2 DEF NoReply
  <2> QED BY <1>3, <2>5, <2>6, <2>7
<1>4. CASE OwnerChanges
  <2>1. PICK k \in OwnerKeys : \E v \in Domain[k] : dev' = [dev EXCEPT ![k] = v] /\ stale' = stale \cup {k}
    BY <1>4 DEF OwnerChanges
  <2>2. PICK v \in Domain[k] : dev' = [dev EXCEPT ![k] = v]
    BY <2>1
  <2>3. k \in Keys /\ k # ModeKey /\ v \in AllValues /\ UNCHANGED <<queue, ask, reply, OnWire>>
        /\ changes' = changes + 1
    BY <1>4, Resources, KeyAssumption DEF OwnerChanges, OnWire
  <2>4. ConnectorTypes'
    BY <1>0, <2>1, <2>2, <2>3 DEF ConnectorTypes
  <2>5. Once(queue') /\ Busy(queue)' /\ \A u \in Tasks : JobFits(job'[u], ask'[u])
    BY <1>0, <2>3 DEF Busy, Idle, Once
  <2>6. ModeKey # NoKey => dev'[ModeKey] = dev[ModeKey]
    BY <1>0, <2>2, <2>3, Resources
  <2> QED BY <1>0, <2>3, <2>4, <2>5, <2>6, Resources
<1> QED BY <1>2, <1>3, <1>4 DEF World, DeviceStep

\* A task is cancelled.
LEMMA CancelStep ==
  ASSUME ScheduleInv, NEW t \in Tasks, Cancelled(t) PROVE ScheduleInv'
<1> USE DEF ScheduleInv, ConnectorUse
<1>0. /\ queue \in Seq(Tasks) /\ ask \in [Tasks -> AskTypes] /\ reply \in ReplyTypes
      /\ stale \subseteq Keys /\ dev \in [Keys -> AllValues]
  BY DEF ConnectorTypes
<1>1. PICK i \in 1..Len(queue) :
         /\ queue[i] = t /\ queue' = RemoveAt(queue, i)
         /\ IF i = 1
              THEN /\ reply' = NoReply /\ stale' = stale \cup ({ask[t].key} \cap Keys)
                   /\ \/ UNCHANGED dev
                      \/ /\ Pending /\ OnWire.op = "put" /\ OnWire.key \in Keys
                         /\ dev' = [dev EXCEPT ![OnWire.key] = OnWire.val]
              ELSE UNCHANGED <<dev, reply, stale>>
  BY DEF Cancelled, Abandon
<1>2. ask' = [ask EXCEPT ![t] = NoAsk] /\ Become(t, NoJob) /\ UNCHANGED <<changes, cacheVars>>
  BY DEF Cancelled, Abandon
<1>3. /\ job' \in [Tasks -> JobTypes] /\ job'[t] = NoJob
      /\ \A u \in Tasks \ {t} : job'[u] = job[u]
  BY <1>2, Becoming, RecordTypes
<1>4. /\ queue' \in Seq(Tasks) /\ Once(queue')
      /\ \A j \in 1..Len(queue') : queue'[j] # t /\ \E k \in 1..Len(queue) : queue'[j] = queue[k]
      /\ i # 1 => queue' # << >> /\ Head(queue') = Head(queue)
  BY <1>0, <1>1, GivesUp
<1>5. Busy(queue)' /\ \A u \in Tasks : JobFits(job'[u], ask'[u])
  BY <1>0, <1>2, <1>3, <1>4, NoJobFits DEF Busy, Idle
<1>6. (dev' \in [Keys -> AllValues] /\ \A k \in Keys : dev'[k] \in Domain[k])
      /\ (ModeKey # NoKey => dev'[ModeKey] = dev[ModeKey])
  <2>1. CASE UNCHANGED dev
    BY <1>0, <2>1 DEF ConnectorTypes
  <2>2. CASE i = 1 /\ OnWire.op = "put" /\ OnWire.key \in Keys /\ dev' = [dev EXCEPT ![OnWire.key] = OnWire.val]
    <3>1. OnWire = ask[t] /\ JobFits(job[t], OnWire) /\ job[t] # NoJob /\ job[t] \in JobTypes
      BY <1>0, <1>1, <2>2 DEF OnWire, Busy, Idle
    <3>2. OnWire.key # ModeKey /\ OnWire.val \in Domain[OnWire.key] /\ OnWire.val \in AllValues
      BY <2>2, <3>1, Resources, ScheduleAssumption DEF JobFits, JobTypes, Kinds
    <3> QED BY <1>0, <2>2, <3>2, Resources DEF ConnectorTypes
  <2> QED BY <1>1, <2>1, <2>2
<1>7. ConnectorTypes'
  <2>1. reply' \in ReplyTypes /\ stale' \subseteq Keys
    BY <1>0, <1>1, RecordTypes
  <2> QED BY <1>0, <1>2, <1>4, <1>6, <2>1, RecordTypes DEF ConnectorTypes
<1>8. ConnectorUse'
  <2>1. CASE i = 1
    BY <1>1, <1>3, <1>4, <1>5, <1>7, <2>1 DEF NoReply
  <2>2. CASE i # 1
    <3>1. queue # << >> /\ Head(queue) = queue[1] /\ queue[1] \in Tasks /\ queue[1] # t
      BY <1>0, <1>1, <2>2 DEF Once
    <3>2. UNCHANGED <<dev, reply, OnWire>>
      BY <1>0, <1>1, <1>2, <1>4, <2>2, <3>1 DEF OnWire
    <3> QED BY <1>3, <1>4, <1>5, <1>7, <2>2, <3>2
  <2> QED BY <2>1, <2>2
<1>9. TypeOK' /\ ModeOnce'
  BY <1>2, <1>3, <1>6, <1>7 DEF TypeOK, CacheTypes, ModeOnce, cacheVars
<1>10. ProgramNamed' /\ FetchedSoFar' /\ LevelsKnown'
  BY <1>2, <1>3 DEF ProgramNamed, FetchedSoFar, LevelsKnown, cacheVars, NoJob
<1> QED BY <1>8, <1>9, <1>10

-----------------------------------------------------------------------------
(* The schedule                                                            *)

\* A task turns to its next request, and what the schedule remembers only
\* grows.
LEMMA Moving ==
  ASSUME ScheduleInv, NEW t \in Tasks, NEW j \in JobTypes, Become(t, j),
         ConnectorUse', CacheTypes', dev' = dev,
         program # NoProgram => program' # NoProgram, active # NoProgram => active' # NoProgram,
         j.kind \in {"mode", "clock"} => active' # NoProgram,
         j.kind \in {"preset", "confirm"} => program' # NoProgram,
         DOMAIN temps \subseteq DOMAIN temps',
         mode' = mode \/ (mode' = dev[ModeKey] /\ ModeKey # NoKey),
         j.kind = "level" /\ mode' = "levels" =>
           \A i \in 1..j.pos - 1 : j.pts[i].level \in DOMAIN temps',
         points' = points \/ LevelsKnown'
  PROVE  ScheduleInv'
<1> USE DEF ScheduleInv
<1>1. /\ job' \in [Tasks -> JobTypes] /\ job'[t] = j
      /\ \A u \in Tasks \ {t} : job'[u] = job[u]
  BY Becoming DEF ConnectorUse
<1>2. mode' = "levels" => mode = "levels"
  BY DEF ModeOnce
<1>3. TypeOK' /\ ModeOnce'
  BY <1>1 DEF TypeOK, ConnectorUse, ModeOnce
<1>4. ProgramNamed'
  BY <1>1 DEF ProgramNamed
<1>5. FetchedSoFar'
  <2>1. SUFFICES ASSUME mode' = "levels", NEW u \in Tasks, job'[u].kind = "level",
                        NEW i \in 1..job'[u].pos - 1
                 PROVE  job'[u].pts[i].level \in DOMAIN temps'
    BY DEF FetchedSoFar
  <2>2. CASE u = t
    BY <1>1, <2>1, <2>2
  <2>3. CASE u # t
    <3>1. job'[u] = job[u]
      BY <1>1, <2>3
    <3> QED BY <1>2, <2>1, <3>1 DEF FetchedSoFar
  <2> QED BY <2>2, <2>3
<1>6. LevelsKnown'
  BY <1>2 DEF LevelsKnown
<1> QED BY <1>3, <1>4, <1>5, <1>6

\* A task leaves.
LEMMA Stopping ==
  ASSUME ConnectorUse, NEW t \in Tasks, Returned(t), Stop(t)
  PROVE  ConnectorUse' /\ Become(t, NoJob) /\ dev' = dev
BY RunningOn, RecordTypes, NoJobFits DEF Stop, Leave

\* A task asks for a resource that fits a job without switch points.
LEMMA Asking ==
  ASSUME ConnectorUse, NEW t \in Tasks, Returned(t), NEW kind \in Kinds, kind # "none",
         NEW k \in Keys, JobFits(Do(kind), Get(k)),
         AskAgain(t, Get(k)), Become(t, Do(kind))
  PROVE  ConnectorUse' /\ Do(kind) \in JobTypes /\ Do(kind).kind = kind /\ dev' = dev
BY RunningOn, RecordTypes DEF AskAgain

\* The schedule of a program that is known is next.
LEMMA Beginning ==
  ASSUME ScheduleInv, NEW t \in Tasks, Returned(t), program' \in Programs, Begin(t, program'),
         UNCHANGED <<mode, time, points, temps, found>>
  PROVE  ScheduleInv'
<1>0. ConnectorUse /\ CacheTypes /\ NoProgram \notin Programs
  BY ScheduleAssumption DEF ScheduleInv, TypeOK
<1>1. active' = program' /\ CacheTypes'
  BY <1>0 DEF Begin, CacheTypes
<1>2. CASE ModeKey # NoKey
  <2>1. AskAgain(t, Get(ModeKey)) /\ Become(t, Do("mode"))
    BY <1>2 DEF Begin
  <2>2. JobFits(Do("mode"), Get(ModeKey)) /\ ModeKey \in Keys /\ "mode" \in Kinds
    BY <1>2, RecordTypes, Resources DEF JobFits, Kinds
  <2>3. ConnectorUse' /\ Do("mode") \in JobTypes /\ Do("mode").kind = "mode" /\ dev' = dev
    BY <1>0, <2>1, <2>2, Asking
  <2> QED BY <1>0, <1>1, <2>1, <2>3, Moving
<1>3. CASE ModeKey = NoKey
  <2>1. AskAgain(t, Get(ClockKey)) /\ Become(t, Do("clock"))
    BY <1>3 DEF Begin
  <2>2. JobFits(Do("clock"), Get(ClockKey)) /\ ClockKey \in Keys /\ "clock" \in Kinds
    BY RecordTypes, Resources DEF JobFits, Kinds
  <2>3. ConnectorUse' /\ Do("clock") \in JobTypes /\ Do("clock").kind = "clock" /\ dev' = dev
    BY <1>0, <2>1, <2>2, Asking
  <2> QED BY <1>0, <1>1, <2>1, <2>3, Moving
<1> QED BY <1>2, <1>3

\* The next level that is missing is asked for, or the schedule is complete.
LEMMA Parsing ==
  ASSUME ScheduleInv, NEW t \in Tasks, Returned(t), NEW pts \in PointLists, NEW i \in Nat \ {0},
         DOMAIN temps \subseteq DOMAIN temps', DOMAIN temps' \subseteq Levels,
         NEW have, have = DOMAIN temps', Parse(t, pts, i, have),
         mode = "levels" => \A k \in 1..Len(pts) : k < i => pts[k].level \in have,
         UNCHANGED <<program, active, mode, time>>
  PROVE  ScheduleInv'
<1>0. ConnectorUse /\ CacheTypes
  BY DEF ScheduleInv, TypeOK
<1>1. \A k \in 1..Len(pts) : pts[k].level \in Levels
  BY ElementsOfLists
<1>2. \A k \in Missing(pts, i, have) :
         k \in 1..Len(pts) /\ k >= i /\ mode = "levels" /\ pts[k].level \notin have
  BY DEF Missing, PointLists
<1>3. \A k \in 1..Len(pts) : mode = "levels" /\ pts[k].level \notin have => k \in Missing(pts, i, have)
  BY DEF Missing, PointLists
<1>4. CASE Missing(pts, i, have) = {}
  <2>1. points' = pts /\ found' = TRUE /\ Stop(t)
    BY <1>4 DEF Parse
  <2>2. ConnectorUse' /\ Become(t, NoJob) /\ dev' = dev
    BY <1>0, <2>1, Stopping
  <2>3. CacheTypes' /\ LevelsKnown'
    BY <1>0, <1>3, <1>4, <2>1 DEF CacheTypes, LevelsKnown
  <2> QED BY <2>2, <2>3, Moving, RecordTypes DEF NoJob
<1>5. CASE Missing(pts, i, have) # {}
  <2>1. PICK j \in Missing(pts, i, have) :
           /\ \A k \in Missing(pts, i, have) : j <= k
           /\ AskAgain(t, Get(pts[j].level))
           /\ Become(t, [kind |-> "level", pts |-> pts, pos |-> j])
    BY <1>5 DEF Parse
  <2> DEFINE l == [kind |-> "level", pts |-> pts, pos |-> j]
             r == Get(pts[j].level)
  <2>2. j \in 1..Len(pts) /\ pts[j].level \in Keys
    BY <1>1, <1>2, <2>1, Resources
  <2>3. l \in JobTypes /\ l # NoJob /\ r \in AskTypes /\ r.op = "get" /\ r.key = pts[j].level
    <3>1. r \in AskTypes /\ r.op = "get" /\ r.key = pts[j].level
      BY <2>2, RecordTypes
    <3>2. j \in Nat
      BY <2>2
    <3>3. l \in JobTypes /\ l # NoJob
      BY <3>2 DEF JobTypes, Kinds, NoJob
    <3> QED BY <3>1, <3>3
  <2>4. JobFits(l, r)
    BY <2>2, <2>3 DEF JobFits
  <2>5. ConnectorUse' /\ dev' = dev
    BY <1>0, <2>1, <2>3, <2>4, RunningOn DEF AskAgain
  <2>6. mode = "levels" => \A k \in 1..j - 1 : pts[k].level \in have
    BY <1>3, <2>1, <2>2 DEF PointLists
  <2>7. CacheTypes' /\ points' = points
    BY <1>0, <1>5 DEF Parse, CacheTypes
  <2> QED BY <2>1, <2>3, <2>5, <2>6, <2>7, Moving
<1> QED BY <1>4, <1>5

\* A task runs on after an answer.
LEMMA ContinueStep ==
  ASSUME ScheduleInv, NEW t \in Tasks, Continue(t) PROVE ScheduleInv'
<1> USE DEF Back
<1>0. /\ Returned(t) /\ ConnectorUse /\ CacheTypes /\ NoProgram \notin Programs
      /\ ask[t] \in AskTypes /\ job[t] \in JobTypes /\ JobFits(job[t], ask[t])
      /\ Ok /\ ask[t].op = "get" =>
           /\ ask[t].key \in Keys /\ reply.val \in Domain[ask[t].key]
           /\ ask[t].key = ModeKey => reply.val = dev[ModeKey]
  <2>1. Returned(t)
    BY DEF Continue, UpdateDone, UpdateFails, PresetDone, Confirmed, SetTemperatureDone, ModeDone,
       ClockDone, ProgramDone, LevelDone, LevelMissing, ScheduleFails, Fails
  <2>2. ConnectorUse /\ CacheTypes /\ NoProgram \notin Programs
    BY ScheduleAssumption DEF ScheduleInv, TypeOK
  <2> QED BY <2>1, <2>2, Answered
<1>s. ASSUME Stop(t), UNCHANGED <<program, active, mode, points>>, CacheTypes',
             DOMAIN temps \subseteq DOMAIN temps'
      PROVE  ScheduleInv'
  BY <1>0, <1>s, Stopping, RecordTypes, Moving DEF NoJob
<1>1. ASSUME UpdateDone(t) PROVE ScheduleInv'
  <2>1. program' \in Programs \cup {NoProgram}
    BY <1>0, <1>1, ScheduleAssumption DEF UpdateDone, JobFits, CacheTypes
  <2>2. CASE program' = NoProgram
    <3>1. program = NoProgram
      BY <1>0, <1>1, <2>2, ScheduleAssumption DEF UpdateDone, JobFits, CacheTypes
    <3> QED BY <1>0, <1>1, <1>s, <2>2, <3>1 DEF UpdateDone, CacheTypes
  <2>3. CASE program' # NoProgram
    BY <1>0, <1>1, <2>1, <2>3, Beginning DEF UpdateDone
  <2> QED BY <2>2, <2>3
<1>2. ASSUME UpdateFails(t) PROVE ScheduleInv'
  BY <1>0, <1>2, <1>s DEF UpdateFails, cacheVars, CacheTypes
<1>3. ASSUME PresetDone(t) PROVE ScheduleInv'
  <2>1. UNCHANGED cacheVars /\ CacheTypes' /\ program # NoProgram
    BY <1>0, <1>3 DEF PresetDone, cacheVars, CacheTypes, ScheduleInv, ProgramNamed
  <2>2. CASE reply.st \in {"refused", "down"}
    BY <1>3, <1>s, <2>1, <2>2 DEF PresetDone, cacheVars
  <2>3. CASE reply.st \notin {"refused", "down"}
    <3>1. AskAgain(t, Get(ActiveKey)) /\ Become(t, Do("confirm"))
      BY <1>3, <2>3 DEF PresetDone
    <3>2. JobFits(Do("confirm"), Get(ActiveKey)) /\ ActiveKey \in Keys /\ "confirm" \in Kinds
      BY RecordTypes, Resources DEF JobFits, Kinds
    <3>3. ConnectorUse' /\ Do("confirm") \in JobTypes /\ Do("confirm").kind = "confirm" /\ dev' = dev
      BY <1>0, <3>1, <3>2, Asking
    <3> QED BY <2>1, <3>1, <3>3, Moving DEF cacheVars
  <2> QED BY <2>2, <2>3
<1>4. ASSUME Confirmed(t) PROVE ScheduleInv'
  <2>1. program \in Programs
    BY <1>0, <1>4 DEF Confirmed, CacheTypes, ScheduleInv, ProgramNamed
  <2>2. program' \in Programs
    BY <1>0, <1>4, <2>1, ScheduleAssumption DEF Confirmed, JobFits
  <2> QED BY <1>0, <1>4, <2>2, Beginning DEF Confirmed
<1>5. ASSUME SetTemperatureDone(t) PROVE ScheduleInv'
  <2>1. DOMAIN temps' = DOMAIN temps
    BY <1>0, <1>5 DEF SetTemperatureDone, Learn
  <2>2. Stop(t) /\ UNCHANGED <<program, active, mode, time, points, found>>
    BY <1>5 DEF SetTemperatureDone
  <2> QED BY <1>0, <1>s, <2>1, <2>2 DEF CacheTypes
<1>6. ASSUME ModeDone(t) PROVE ScheduleInv'
  <2>1. /\ AskAgain(t, Get(ClockKey)) /\ Become(t, Do("clock"))
        /\ UNCHANGED <<program, active, time, points, temps, found>>
    BY <1>6 DEF ModeDone
  <2>2. JobFits(Do("clock"), Get(ClockKey)) /\ ClockKey \in Keys /\ "clock" \in Kinds
    BY RecordTypes, Resources DEF JobFits, Kinds
  <2>3. ConnectorUse' /\ Do("clock") \in JobTypes /\ Do("clock").kind = "clock" /\ dev' = dev
    BY <1>0, <2>1, <2>2, Asking
  <2>4. ModeKey # NoKey /\ ask[t].key = ModeKey /\ ask[t].op = "get" /\ active # NoProgram
    BY <1>0, <1>6 DEF ModeDone, JobFits, ScheduleInv, ProgramNamed
  <2>5. mode' = mode \/ mode' = dev[ModeKey]
    BY <1>0, <1>6, <2>4 DEF ModeDone
  <2>6. mode' \in {"levels", "absolute"}
    BY <1>0, <1>6, <2>4, Resources, ScheduleAssumption DEF ModeDone, CacheTypes
  <2>7. CacheTypes'
    BY <1>0, <2>1, <2>6 DEF CacheTypes
  <2> QED BY <2>1, <2>3, <2>4, <2>5, <2>7, Moving
<1>7. ASSUME ClockDone(t) PROVE ScheduleInv'
  <2>1. /\ AskAgain(t, Get(active)) /\ Become(t, Do("program"))
        /\ UNCHANGED <<program, active, mode, points, temps, found>>
    BY <1>7 DEF ClockDone
  <2>2. active \in Programs /\ active \in Keys
    BY <1>0, <1>7, Resources DEF ClockDone, CacheTypes, ScheduleInv, ProgramNamed
  <2>3. JobFits(Do("program"), Get(active)) /\ "program" \in Kinds
    BY <2>2, RecordTypes DEF JobFits, Kinds
  <2>4. ConnectorUse' /\ Do("program") \in JobTypes /\ Do("program").kind = "program" /\ dev' = dev
    BY <1>0, <2>1, <2>2, <2>3, Asking
  <2>5. CacheTypes'
    BY <1>0, <1>7, <2>1, ScheduleAssumption DEF ClockDone, CacheTypes
  <2> QED BY <2>1, <2>4, <2>5, Moving
<1>8. ASSUME ProgramDone(t) PROVE ScheduleInv'
  <2>1. SwitchPoints[reply.val] \in PointLists
    BY <1>0, <1>8, ScheduleAssumption DEF ProgramDone, JobFits, PointLists
  <2>2. DOMAIN temps \subseteq DOMAIN temps'
    BY <1>8 DEF ProgramDone, Parse
  <2> QED BY <1>0, <1>8, <2>1, <2>2, Parsing DEF ProgramDone, CacheTypes
<1>9. ASSUME LevelDone(t) PROVE ScheduleInv'
  <2> DEFINE pts == job[t].pts
             pos == job[t].pos
             have == DOMAIN temps \cup {pts[pos].level}
  <2>1. /\ DOMAIN temps' = have /\ Parse(t, pts, pos + 1, have)
        /\ UNCHANGED <<program, active, mode, time>>
    BY <1>9 DEF LevelDone, Learn
  <2>2. job[t].kind = "level"
    BY <1>9 DEF LevelDone
  <2>3. pts \in PointLists /\ pos \in 1..Len(pts) /\ pos + 1 \in Nat \ {0}
    <3>1. pts \in PointLists /\ pos \in Nat
      BY <1>0 DEF JobTypes
    <3>2. pos \in 1..Len(pts)
      BY <1>0, <2>2 DEF JobFits
    <3> QED BY <3>1, <3>2
  <2>4. have \subseteq Levels
    <3>1. pts[pos].level \in Levels
      BY <2>3, ElementsOfLists
    <3> QED BY <1>0, <3>1 DEF CacheTypes
  <2>5. mode = "levels" => \A k \in 1..Len(pts) : k < pos + 1 => pts[k].level \in have
    BY <2>2, <2>3 DEF ScheduleInv, FetchedSoFar
  <2> HIDE DEF pts, pos, have
  <2>6. PICK l \in PointLists, i \in Nat \ {0}, h \in SUBSET Levels : l = pts /\ i = pos + 1 /\ h = have
    BY <2>3, <2>4
  <2>7. Parse(t, l, i, h)
    BY <2>1, <2>6
  <2>8. mode = "levels" => \A k \in 1..Len(l) : k < i => l[k].level \in h
    BY <2>5, <2>6
  <2>9. DOMAIN temps \subseteq DOMAIN temps' /\ DOMAIN temps' \subseteq Levels /\ h = DOMAIN temps'
    BY <2>1, <2>4, <2>6 DEF have
  <2> QED BY <1>0, <2>1, <2>6, <2>7, <2>8, <2>9, Parsing
<1>10. ASSUME LevelMissing(t) PROVE ScheduleInv'
  <2>1. /\ AskAgain(t, Get(HighLevel)) /\ Become(t, Do("high")) /\ UNCHANGED cacheVars
    BY <1>10 DEF LevelMissing
  <2>2. HighLevel \in Levels
    <3>1. job[t].pts \in PointLists /\ job[t].pos \in 1..Len(job[t].pts)
      BY <1>0, <1>10 DEF LevelMissing, JobFits, JobTypes
    <3>2. OnLevel \in Levels
      BY <1>10, <3>1, ElementsOfLists DEF LevelMissing
    <3> QED BY <3>2, Resources, ScheduleAssumption
  <2>3. JobFits(Do("high"), Get(HighLevel)) /\ HighLevel \in Keys /\ "high" \in Kinds
    BY <2>2, RecordTypes, Resources DEF JobFits, Kinds
  <2>4. ConnectorUse' /\ Do("high") \in JobTypes /\ Do("high").kind = "high" /\ dev' = dev
    BY <1>0, <2>1, <2>3, Asking
  <2> QED BY <1>0, <2>1, <2>4, Moving DEF cacheVars, CacheTypes
<1>11. ASSUME ScheduleFails(t) PROVE ScheduleInv'
  BY <1>0, <1>11, <1>s DEF ScheduleFails, CacheTypes
<1> QED BY <1>1, <1>2, <1>3, <1>4, <1>5, <1>6, <1>7, <1>8, <1>9, <1>10, <1>11 DEF Continue

\* A task calls the circuit.
LEMMA CallStep ==
  ASSUME ScheduleInv, NEW t \in Tasks, Call(t) PROVE ScheduleInv'
<1> USE DEF cacheVars
<1>0. ConnectorUse /\ CacheTypes
  BY DEF ScheduleInv, TypeOK
<1>a. ASSUME NEW kind \in Kinds \ {"none", "mode", "clock", "level"}, NEW r \in AskTypes, Idle(t),
             kind = "preset" => program # NoProgram, kind # "confirm",
             JobFits(Do(kind), r), Ask(t, r), Become(t, Do(kind)), UNCHANGED cacheVars
      PROVE  ScheduleInv'
  <2>1. Do(kind) \in JobTypes /\ Do(kind).kind = kind /\ Do(kind) # NoJob
    BY RecordTypes
  <2>2. ConnectorUse' /\ dev' = dev
    BY <1>0, <1>a, <2>1, Calling DEF Ask
  <2>3. CacheTypes'
    BY <1>0, <1>a DEF CacheTypes
  <2> QED BY <1>a, <2>1, <2>2, <2>3, Moving
<1>1. ASSUME Update(t) PROVE ScheduleInv'
  <2>1. Get(ActiveKey) \in AskTypes /\ JobFits(Do("poll"), Get(ActiveKey)) /\ "poll" \in Kinds
    BY RecordTypes, Resources DEF JobFits, Kinds
  <2> QED BY <1>1, <1>a, <2>1 DEF Update
<1>2. ASSUME NEW p \in Programs, SetPreset(t, p) PROVE ScheduleInv'
  <2>1. "preset" \in Kinds /\ Do("preset").kind = "preset" /\ program # NoProgram
    BY <1>2, RecordTypes DEF Kinds, SetPreset
  <2>2. Put(ActiveKey, p) \in AskTypes /\ JobFits(Do("preset"), Put(ActiveKey, p))
    BY <2>1, RecordTypes, Resources, ScheduleAssumption DEF JobFits, Put
  <2> QED BY <1>2, <1>a, <2>1, <2>2 DEF SetPreset
<1>3. ASSUME NEW v \in Settable, SetTemperature(t, v) PROVE ScheduleInv'
  <2>1. "temp" \in Kinds /\ Do("temp").kind = "temp"
    BY RecordTypes DEF Kinds
  <2>2. ActiveLevel \in Levels
    BY <1>0, <1>3 DEF SetTemperature, CacheTypes
  <2>3. Put(ActiveLevel, v) \in AskTypes /\ JobFits(Do("temp"), Put(ActiveLevel, v))
    BY <2>1, <2>2, RecordTypes, Resources, ScheduleAssumption DEF JobFits, Put
  <2> QED BY <1>3, <1>a, <2>1, <2>2, <2>3 DEF SetTemperature
<1> QED BY <1>1, <1>2, <1>3 DEF Call

\* The schedule starts with no program and no switch points.
LEMMA ScheduleStart == Init => ScheduleInv
<1> SUFFICES ASSUME Init PROVE ScheduleInv
  OBVIOUS
<1> USE DEF Init
<1>1. ConnectorTypes
  BY RecordTypes, KeyAssumption DEF ConnectorInit, ConnectorTypes, AllValues
<1>2. job \in [Tasks -> JobTypes] /\ \A t \in Tasks : job[t] = NoJob
  BY RecordTypes
<1>3. CacheTypes
  <2>1. << >> \in PointLists /\ DOMAIN temps = {}
    BY DEF PointLists
  <2> QED BY <2>1, DefaultAssumption DEF CacheTypes
<1>4. ConnectorUse
  BY <1>1, <1>2, NoJobFits DEF ConnectorUse, ConnectorInit, Once, Busy, NoReply
<1>5. ModeOnce
  BY DefaultAssumption DEF ModeOnce
<1>6. ProgramNamed /\ FetchedSoFar /\ LevelsKnown
  BY <1>2 DEF ProgramNamed, FetchedSoFar, LevelsKnown, NoJob
<1> QED BY <1>1, <1>2, <1>3, <1>4, <1>5, <1>6 DEF ScheduleInv, TypeOK

\* The inductive invariant of the schedule: what is remembered of the
\* program, its mode and its levels fits together after any interleaving of
\* update_schedule(), set_preset_mode() and set_temperature().
THEOREM ScheduleInvariance == Spec => []ScheduleInv
<1>1. ASSUME ScheduleInv, [Next]_vars PROVE ScheduleInv'
  <2>1. CASE Next
    BY <1>1, <2>1, WorldStep, CallStep, ContinueStep, CancelStep DEF Next
  <2>2. CASE UNCHANGED vars
    BY <1>1, <2>2 DEF vars, connectorVars, cacheVars, ScheduleInv, TypeOK, ConnectorTypes, CacheTypes,
       ConnectorUse, Busy, Idle, Once, OnWire, ModeOnce, ProgramNamed, FetchedSoFar, LevelsKnown
  <2> QED BY <1>1, <2>1, <2>2
<1> QED BY <1>1, ScheduleStart, PTL DEF Spec

\* The levels of the switch points that get_temp_in_schedule looks up
\* without a default (schedule/__init__.py:297-300) have been fetched.
THEOREM LevelsAreKnown == Spec => []LevelsKnown
<1>1. ScheduleInv => LevelsKnown
  BY DEF ScheduleInv
<1> QED BY <1>1, ScheduleInvariance, PTL

-----------------------------------------------------------------------------
(* The active switch point                                                 *)

\* The minutes of switch points.
LEMMA Minutes ==
  ASSUME NEW pts \in PointLists
  PROVE  Len(pts) \in Nat /\ \A i \in 1..Len(pts) : pts[i].at \in 0..Week-1
<1> DEFINE P == [at : 0..Week-1, level : Levels]
<1>1. pts \in Seq(P) /\ \A p \in P : p.at \in 0..Week-1
  BY DEF PointLists
<1> HIDE DEF P
<1>2. \A i \in 1..Len(pts) : pts[i] \in P
  BY <1>1
<1> QED BY <1>1, <1>2

\* Numbers with a bound have a greatest one among them.
LEMMA Greatest ==
  ASSUME NEW n \in Nat, NEW T \in SUBSET (0..n), T # {}
  PROVE  \E x \in T : \A y \in T : y <= x
<1> DEFINE U == {n - x : x \in T}
<1>1. U \subseteq Nat /\ U # {}
  <2>1. \A x \in T : x \in Nat /\ n - x \in Nat
    OBVIOUS
  <2>2. PICK x \in T : TRUE
    OBVIOUS
  <2>3. n - x \in U
    OBVIOUS
  <2> QED BY <2>1, <2>3
<1>2. PICK u \in U : \A v \in U : ~(<<v, u>> \in OpToRel(<, Nat))
  BY <1>1, WFMin, NatLessThanWellFounded
<1>3. \A v \in U : ~(v < u)
  BY <1>1, <1>2 DEF OpToRel
<1>4. PICK x \in T : u = n - x
  OBVIOUS
<1>5. \A y \in T : y <= x
  <2>1. SUFFICES ASSUME NEW y \in T PROVE y <= x
    OBVIOUS
  <2>2. n - y \in U /\ ~(n - y < n - x)
    BY <1>3, <1>4
  <2> QED BY <2>2
<1> QED BY <1>5

\* The sort has a last switch point.
LEMMA LastExists ==
  ASSUME NEW pts \in PointLists, NEW S \in SUBSET (1..Len(pts)), S # {}
  PROVE  /\ LastOf(pts, S) \in S
         /\ \A j \in S \ {LastOf(pts, S)} : Before(pts, j, LastOf(pts, S))
<1>1. /\ Len(pts) \in Nat /\ Week \in Nat /\ Week - 1 \in Nat
      /\ \A i \in S : i \in Nat /\ pts[i].at \in 0..Week-1
  BY Minutes, ScheduleAssumption
<1> DEFINE M == {pts[i].at : i \in S}
<1>2. PICK m \in M : \A y \in M : y <= m
  <2>1. M \in SUBSET (0..Week-1) /\ M # {}
    BY <1>1
  <2> QED BY <1>1, <2>1, Greatest
<1> DEFINE I == {i \in S : pts[i].at = m}
<1>3. PICK i \in I : \A j \in I : j <= i
  <2>1. I \in SUBSET (0..Len(pts))
    <3>1. I \subseteq S /\ S \subseteq 1..Len(pts) /\ 1..Len(pts) \subseteq 0..Len(pts)
      OBVIOUS
    <3> QED BY <3>1
  <2>0. I # {}
    <3>1. PICK w \in S : pts[w].at = m
      BY <1>2
    <3> QED BY <3>1
  <2>2. Len(pts) \in Nat
    BY <1>1
  <2> HIDE DEF I
  <2> QED BY <2>0, <2>1, <2>2, Greatest
<1>4. \A j \in S \ {i} : Before(pts, j, i)
  <2>1. SUFFICES ASSUME NEW j \in S, j # i PROVE Before(pts, j, i)
    OBVIOUS
  <2>2. pts[j].at <= m
    <3>1. pts[j].at \in M
      OBVIOUS
    <3> QED BY <1>2, <3>1
  <2>3. i \in S /\ pts[i].at = m
    BY <1>3
  <2>4. pts[j].at = m => j <= i
    <3>1. pts[j].at = m => j \in I
      OBVIOUS
    <3> QED BY <1>3, <3>1
  <2> HIDE DEF M, I
  <2> QED BY <1>1, <2>1, <2>2, <2>3, <2>4 DEF Before
<1>5. \E l \in S : \A j \in S \ {l} : Before(pts, j, l)
  BY <1>3, <1>4
<1>6. LastOf(pts, S) = CHOOSE l \in S : \A j \in S \ {l} : Before(pts, j, l)
  BY DEF LastOf
<1> HIDE DEF M, I
<1> QED BY <1>5, <1>6, Zenon

\* The switch point that get_temp_in_schedule takes (schedule/__init__.py:283-293)
\* is the one reached last, in the week before if none is reached yet.
THEOREM ActivePointIsLatest == Spec => []ActiveIsLatest
<1>1. ASSUME ScheduleInv PROVE ActiveIsLatest
  <2>1. SUFFICES ASSUME InSchedule, NEW k \in 1..Len(points)
                 PROVE  Elapsed(points[ActivePoint(points, time)].at, time) <= Elapsed(points[k].at, time)
    BY DEF ActiveIsLatest
  <2>2. points \in PointLists /\ time \in 0..Week-1 /\ Week \in Nat /\ 1..Len(points) # {}
    BY <1>1, <2>1, ScheduleAssumption DEF ScheduleInv, TypeOK, CacheTypes, InSchedule
  <2>3. \A i \in 1..Len(points) : points[i].at \in 0..Week-1
    BY <2>2, Minutes
  <2> DEFINE S == IF Reached(points, time) = {} THEN 1..Len(points) ELSE Reached(points, time)
             a == LastOf(points, S)
  <2>4. S \in SUBSET (1..Len(points)) /\ S # {}
    BY <2>2 DEF Reached
  <2>5. a \in S /\ \A j \in S \ {a} : Before(points, j, a)
    BY <2>2, <2>4, LastExists
  <2>6. ActivePoint(points, time) = a
    BY DEF ActivePoint
  <2> HIDE DEF a
  <2>7. k \in S => points[k].at <= points[a].at
    BY <2>2, <2>3, <2>4, <2>5 DEF Before
  <2>8. CASE Reached(points, time) = {}
    <3>1. S = 1..Len(points) /\ points[k].at > time /\ points[a].at > time /\ k \in S
      BY <2>1, <2>2, <2>3, <2>4, <2>5, <2>8 DEF Reached
    <3> QED BY <2>2, <2>3, <2>4, <2>5, <2>6, <2>7, <3>1 DEF Elapsed
  <2>9. CASE Reached(points, time) # {}
    <3>1. points[a].at <= time /\ a \in 1..Len(points)
      BY <2>5, <2>9 DEF Reached
    <3>2. points[k].at <= time => k \in S
      BY <2>1, <2>9 DEF Reached
    <3> QED BY <2>2, <2>3, <2>6, <2>7, <3>1, <3>2 DEF Elapsed
  <2> QED BY <2>8, <2>9
<1> QED BY <1>1, ScheduleInvariance, PTL
=============================================================================
