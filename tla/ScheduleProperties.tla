-------------------------- MODULE ScheduleProperties --------------------------
(***************************************************************************)
(* What those who ask for the active switch point may rely on.             *)
(***************************************************************************)
EXTENDS ScheduleCache

Kinds == {"none", "poll", "preset", "confirm", "temp", "mode", "clock", "program", "level", "high"}
PointLists == Seq([at : 0..Week-1, level : Levels])
JobTypes == [kind : Kinds, pts : PointLists, pos : Nat]

CacheTypes ==
  /\ program \in Programs \cup {NoProgram} /\ active \in Programs \cup {NoProgram}
  /\ mode \in {"levels", "absolute"} /\ time \in (0..Week-1) \cup {NoTime}
  /\ points \in PointLists /\ DOMAIN temps \subseteq Levels /\ found \in BOOLEAN

\* Every variable has its type.
TypeOK == ConnectorTypes /\ job \in [Tasks -> JobTypes] /\ CacheTypes

\* Nobody who asks for the active switch point finds a level whose
\* temperature was never fetched (schedule/__init__.py:297 would raise): not
\* while a program is being fetched, nor after a failure half-way, nor when
\* another task has taken the mode or the program from under it.
LevelsKnown ==
  mode = "levels" => \A i \in 1..Len(points) : points[i].level \in DOMAIN temps

\* The active switch point is the one that was reached last: from no other
\* has less time of the week passed (schedule/__init__.py:283-293).
Elapsed(at, now) == IF at <= now THEN now - at ELSE now - at + Week

ActiveIsLatest ==
  InSchedule =>
    \A i \in 1..Len(points) :
      Elapsed(points[ActivePoint(points, time)].at, time) <= Elapsed(points[i].at, time)

\* What makes LevelsKnown so: each task waits for the request its operation
\* made; an answer about the mode is the one the device gave from the start;
\* and the levels before the one that is being fetched are known.
JobFits(j, r) ==
  CASE j.kind \in {"poll", "confirm"} -> r.op = "get" /\ r.key = ActiveKey
    [] j.kind = "preset" -> r.op = "put" /\ r.key = ActiveKey /\ r.val \in Programs
    [] j.kind = "temp" -> r.op = "put" /\ r.key \in Levels /\ r.val \in Settable
    [] j.kind = "mode" -> r.op = "get" /\ r.key = ModeKey /\ ModeKey # NoKey
    [] j.kind = "clock" -> r.op = "get" /\ r.key = ClockKey
    [] j.kind = "program" -> r.op = "get" /\ r.key \in Programs
    [] j.kind = "level" -> r.op = "get" /\ j.pos \in 1..Len(j.pts) /\ r.key = j.pts[j.pos].level
    [] j.kind = "high" -> r.op = "get" /\ r.key \in Levels
    [] OTHER -> j = NoJob

Busy(q) == \A i \in 1..Len(q) : ~Idle(q[i])

ConnectorUse ==
  /\ ConnectorTypes /\ job \in [Tasks -> JobTypes]
  /\ Once(queue) /\ Busy(queue)
  /\ \A t \in Tasks : JobFits(job[t], ask[t])
  /\ reply # NoReply => queue # << >>
  /\ reply.st = "ok" /\ OnWire.op = "get" =>
       /\ OnWire.key \in Keys /\ reply.val \in Domain[OnWire.key]
       /\ OnWire.key = ModeKey => reply.val = dev[ModeKey]

ModeOnce == ModeKey # NoKey /\ dev[ModeKey] = "levels" => mode = "levels"

ProgramNamed ==
  \A t \in Tasks : /\ job[t].kind \in {"mode", "clock"} => active # NoProgram
                   /\ job[t].kind \in {"preset", "confirm"} => program # NoProgram

FetchedSoFar ==
  mode = "levels" =>
    \A t \in Tasks : job[t].kind = "level" =>
      \A i \in 1..job[t].pos - 1 : job[t].pts[i].level \in DOMAIN temps

ScheduleInv ==
  TypeOK /\ ConnectorUse /\ ModeOnce /\ ProgramNamed /\ FetchedSoFar /\ LevelsKnown

\* Every update and every setter returns, however long the schedule is and
\* whatever fails (circuit.py:410-415, ivt/base.py:156-170).
ScheduleReturns == \A t \in Tasks : ~Idle(t) ~> Idle(t)
=============================================================================
