----------------------------- MODULE ScheduleCache -----------------------------
(***************************************************************************)
(* The weekly schedule of a circuit that follows one: update() and         *)
(* set_preset_mode() fetch the active program, its switch points and the   *)
(* temperatures of its levels, one request after the other; readers and    *)
(* set_temperature() ask at any time which switch point is active.         *)
(***************************************************************************)
EXTENDS SerialConnector

CONSTANTS
  ActiveKey,    \* the resource that names the active program
  ModeKey,      \* whether setpoints are levels or temperatures; NoKey if never asked
  ClockKey,     \* the date of the gateway
  Programs,     \* the resources of the programs
  SwitchPoints, \* the switch points in the body of a program
  MinuteOf,     \* the minute of the week of a date
  Levels,       \* the resources of the temperature levels
  OffLevel, OnLevel, HighLevel, \* those _get_setpoint_temp treats apart, or NoKey
  Week,         \* the number of minutes of a week
  DefaultMode,  \* "levels" or "absolute", from the device database
  Settable,     \* the temperatures a consumer asks for
  NoProgram, NoTime, NoTemp

ASSUME ScheduleAssumption ==
  /\ Keys = {ActiveKey, ClockKey} \cup ({ModeKey} \ {NoKey}) \cup Programs \cup Levels
  /\ ActiveKey \notin {ClockKey, ModeKey} \cup Programs \cup Levels
  /\ ClockKey \notin {ModeKey} \cup Programs \cup Levels
  /\ ModeKey \notin Programs \cup Levels /\ Programs \cap Levels = {}
  /\ Week \in Nat \ {0} /\ NoProgram \notin Programs /\ NoTime \notin 0..Week-1
  /\ Domain[ActiveKey] = Programs /\ Domain[ClockKey] # {}
  /\ MinuteOf \in [Domain[ClockKey] -> 0..Week-1]
  /\ ModeKey \in Keys => Domain[ModeKey] \subseteq {"levels", "absolute"}
  /\ \A p \in Programs : Domain[p] \subseteq DOMAIN SwitchPoints
  /\ SwitchPoints \in [DOMAIN SwitchPoints -> Seq([at : 0..Week-1, level : Levels])]
  /\ {OffLevel, OnLevel, HighLevel} \subseteq Levels \cup {NoKey}
  /\ OnLevel # NoKey => HighLevel # NoKey
  /\ \A l \in Levels : Settable \subseteq Domain[l]

\* Whether a program holds levels or temperatures is not changed while we look.
ASSUME ModeAssumption == ModeKey \notin OwnerKeys

\* Of the databases only mblan has another default, and it never asks the mode.
ASSUME DefaultAssumption ==
  DefaultMode = "levels" \/ (DefaultMode = "absolute" /\ ModeKey = NoKey)

VARIABLES
  program,     \* the VALUE in _data of the active program
  active,      \* _active_program
  mode,        \* _switchprogram_mode
  time,        \* _time, as the minute of the week
  points,      \* _switch_points
  temps,       \* _setpoints_temp
  found,       \* _schedule_found
  job          \* what each task is doing

cacheVars == <<program, active, mode, time, points, temps, found>>
vars == <<connectorVars, cacheVars, job>>

NoJob == [kind |-> "none", pts |-> << >>, pos |-> 0]

Init ==
  /\ ConnectorInit
  /\ program = NoProgram /\ active = NoProgram
  /\ mode = DefaultMode /\ time = NoTime
  /\ points = << >> /\ temps = << >> /\ found = FALSE
  /\ job = [t \in Tasks |-> NoJob]

Idle(t) == job[t] = NoJob
Become(t, j) == job' = [job EXCEPT ![t] = j]
Stop(t) == Leave(t) /\ Become(t, NoJob)
Do(kind) == [NoJob EXCEPT !.kind = kind]
Back(t, kind) == Returned(t) /\ job[t].kind = kind
Ok == reply.st = "ok"

-----------------------------------------------------------------------------
(* The active switch point.                                                *)

\* Now is appended to the switch points, and a stable sort by the minute
\* follows: it comes behind the points of its own minute.
Before(pts, i, j) == pts[i].at < pts[j].at \/ (pts[i].at = pts[j].at /\ i < j)
Reached(pts, now) == {i \in 1..Len(pts) : pts[i].at <= now}
LastOf(pts, S) == CHOOSE i \in S : \A j \in S \ {i} : Before(pts, j, i)

ActivePoint_NoWrap(pts, now) ==
  IF Reached(pts, now) # {} THEN LastOf(pts, Reached(pts, now))
    ELSE CHOOSE i \in 1..Len(pts) : \A j \in (1..Len(pts)) \ {i} : Before(pts, i, j)

\* switch_points[index - 1]: of the first one this is the last of the week.
ActivePoint(pts, now) ==
  LastOf(pts, IF Reached(pts, now) = {} THEN 1..Len(pts) ELSE Reached(pts, now))

InSchedule == time # NoTime /\ points # << >>
ActiveLevel == points[ActivePoint(points, time)].level

-----------------------------------------------------------------------------
(* update_schedule()                                                       *)

\* The answer for the active program is known: the schedule is next.
Begin(t, p) ==
  /\ active' = p
  /\ IF ModeKey # NoKey
       THEN AskAgain(t, Get(ModeKey)) /\ Become(t, Do("mode"))
       ELSE AskAgain(t, Get(ClockKey)) /\ Become(t, Do("clock"))

ModeDone(t) ==
  /\ Back(t, "mode")
  /\ mode' = IF Ok THEN reply.val ELSE mode
  /\ AskAgain(t, Get(ClockKey)) /\ Become(t, Do("clock"))
  /\ UNCHANGED <<program, active, time, points, temps, found>>

\* Without an answer the time is the one of this computer.  The program that
\* is fetched is the one that is active now.
ClockDone(t) ==
  /\ Back(t, "clock")
  /\ \E date \in Domain[ClockKey] : (Ok => date = reply.val) /\ time' = MinuteOf[date]
  /\ AskAgain(t, Get(active)) /\ Become(t, Do("program"))
  /\ UNCHANGED <<program, active, mode, points, temps, found>>

\* The switch points from i on whose level has to be fetched.
Missing(pts, i, have) ==
  {j \in i..Len(pts) : mode = "levels" /\ pts[j].level \notin have}

\* The first of them is, or the schedule is complete.
Parse(t, pts, i, have) ==
  IF Missing(pts, i, have) = {}
    THEN points' = pts /\ found' = TRUE /\ Stop(t)
    ELSE /\ \E j \in Missing(pts, i, have) :
              /\ \A k \in Missing(pts, i, have) : j <= k
              /\ AskAgain(t, Get(pts[j].level))
              /\ Become(t, [kind |-> "level", pts |-> pts, pos |-> j])
         /\ UNCHANGED <<points, found>>

ProgramDone_PointsFirst(t) ==
  /\ Back(t, "program") /\ Ok
  /\ points' = SwitchPoints[reply.val]
  /\ \/ Parse(t, points', 1, DOMAIN temps)
     \/ UNCHANGED found /\ \E i \in 1..Len(points') :
          /\ AskAgain(t, Get(points'[i].level))
          /\ Become(t, [kind |-> "level", pts |-> points', pos |-> i])
  /\ UNCHANGED <<program, active, mode, time, temps>>

ProgramDone(t) ==
  /\ Back(t, "program") /\ Ok
  /\ Parse(t, SwitchPoints[reply.val], 1, DOMAIN temps)
  /\ UNCHANGED <<program, active, mode, time, temps>>

Learn(level, v) == temps' = [l \in DOMAIN temps \cup {level} |-> IF l = level THEN v ELSE temps[l]]

\* Off needs no temperature, even if it could not be asked.
LevelDone(t) ==
  LET level == job[t].pts[job[t].pos].level IN
  /\ Back(t, "level") /\ (Ok \/ level = OffLevel)
  /\ Learn(level, IF Ok THEN reply.val ELSE NoTemp)
  /\ Parse(t, job[t].pts, job[t].pos + 1, DOMAIN temps \cup {level})
  /\ UNCHANGED <<program, active, mode, time>>

\* For on, high is asked, and given up all the same.
LevelMissing(t) ==
  /\ Back(t, "level") /\ ~Ok /\ job[t].pts[job[t].pos].level = OnLevel
  /\ OnLevel # OffLevel
  /\ AskAgain(t, Get(HighLevel)) /\ Become(t, Do("high"))
  /\ UNCHANGED cacheVars

Fails(t) ==
  \/ Back(t, "program") /\ ~Ok
  \/ Back(t, "level") /\ ~Ok /\ job[t].pts[job[t].pos].level \notin {OffLevel, OnLevel}
  \/ Back(t, "high")

ScheduleFails_KeepsLock(t) ==
  /\ Fails(t)
  /\ found' = FALSE /\ Become(t, NoJob)
  /\ UNCHANGED <<connectorVars, program, active, mode, time, points, temps>>

ScheduleFails(t) ==
  /\ Fails(t)
  /\ found' = FALSE /\ Stop(t)
  /\ UNCHANGED <<program, active, mode, time, points, temps>>

-----------------------------------------------------------------------------
(* update(), of which only the active program matters here; the rest of    *)
(* the poll is in CircuitCache.                                            *)

Update(t) ==
  /\ Idle(t)
  /\ Ask(t, Get(ActiveKey)) /\ Become(t, Do("poll"))
  /\ UNCHANGED cacheVars

UpdateDone(t) ==
  /\ Back(t, "poll") /\ reply.st # "down"
  /\ program' = IF Ok THEN reply.val ELSE program
  /\ IF program' = NoProgram THEN Stop(t) /\ UNCHANGED active
                             ELSE Begin(t, program')
  /\ UNCHANGED <<mode, time, points, temps, found>>

UpdateFails(t) ==
  /\ Back(t, "poll") /\ reply.st = "down"
  /\ Stop(t) /\ UNCHANGED cacheVars

(* set_preset_mode()                                                       *)

SetPreset(t, p) ==
  /\ Idle(t) /\ program \notin {NoProgram, p}
  /\ Ask(t, Put(ActiveKey, p)) /\ Become(t, Do("preset"))
  /\ UNCHANGED cacheVars

PresetDone(t) ==
  /\ Back(t, "preset") /\ UNCHANGED cacheVars
  /\ IF reply.st \in {"refused", "down"} THEN Stop(t)
     ELSE AskAgain(t, Get(ActiveKey)) /\ Become(t, Do("confirm"))

Confirmed(t) ==
  /\ Back(t, "confirm")
  /\ program' = IF Ok THEN reply.val ELSE program
  /\ Begin(t, program')
  /\ UNCHANGED <<mode, time, points, temps, found>>

(* set_temperature() in a mode whose temperature is that of the active     *)
(* level.  One that could not be asked has no range.                       *)

SetTemperature(t, v) ==
  /\ Idle(t) /\ found /\ InSchedule /\ mode = "levels"
  /\ ActiveLevel \in DOMAIN temps /\ temps[ActiveLevel] \notin {NoTemp, v}
  /\ Ask(t, Put(ActiveLevel, v)) /\ Become(t, Do("temp"))
  /\ UNCHANGED cacheVars

\* cache_temp_for_mode() looks up the active level again.
SetTemperatureDone(t) ==
  /\ Back(t, "temp") /\ Stop(t)
  /\ IF Ok /\ mode = "levels" /\ ActiveLevel \in DOMAIN temps
       THEN Learn(ActiveLevel, ask[t].val) ELSE UNCHANGED temps
  /\ UNCHANGED <<program, active, mode, time, points, found>>

-----------------------------------------------------------------------------
\* The task is cancelled, or an exception that is no DeviceException ends it.
Cancelled(t) == Abandon(t) /\ Become(t, NoJob) /\ UNCHANGED cacheVars

World == (DeviceStep \/ OwnerChanges) /\ UNCHANGED <<cacheVars, job>>

Continue(t) ==
  \/ UpdateDone(t) \/ UpdateFails(t) \/ PresetDone(t) \/ Confirmed(t) \/ SetTemperatureDone(t)
  \/ ModeDone(t) \/ ClockDone(t) \/ ProgramDone(t) \/ LevelDone(t) \/ LevelMissing(t)
  \/ ScheduleFails(t)

Call(t) ==
  \/ Update(t) \/ \E p \in Programs : SetPreset(t, p)
  \/ \E v \in Settable : SetTemperature(t, v)

Next == World \/ \E t \in Tasks : Call(t) \/ Continue(t) \/ Cancelled(t)

Spec == Init /\ [][Next]_vars

\* The connector's time-outs bound every request; a task that can run does run.
Fairness ==
  /\ WF_vars(DeviceStep /\ UNCHANGED <<cacheVars, job>>)
  /\ \A t \in Tasks : WF_vars(Continue(t))

FairSpec == Spec /\ Fairness
=============================================================================
