---------------------------- MODULE OverrideCircuit ----------------------------
(***************************************************************************)
(* NEFIT heating circuits and EasyControl zones.  The temperature that is  *)
(* aimed at depends on the device's mode, its own schedule and an          *)
(* override; set_temperature() writes one resource and target_temperature  *)
(* shows another.  The zones of a gateway share the list of its programs,  *)
(* which is fetched every ten minutes at most.                             *)
(***************************************************************************)
EXTENDS SerialConnector

CONSTANTS
  Sites,      \* a circuit, what each task calls, and the resources that do not vary
  Requested,  \* the temperatures a consumer asks for, all of them in range
  Ids,        \* programs of a zone
  Lists,      \* the contents of the list of programs, by its value
  NoName,     \* no program of that id
  NoOverride, \* the temperature of an override the device has dropped
  NotRead     \* nothing read yet

Modes == {"manual", "clock"}
Shown == {"manual", "target", "program"}
\* Resources of the device but "schedule", which is its own business.
ASSUME OverrideAssumption ==
  /\ Sites \subseteq [family : {"nefit", "zone"}, used : BOOLEAN, fixed : SUBSET Keys,
                     does : [Tasks -> SUBSET {"update", "temp", "mode", "preset"}]]
  /\ {"mode", "manual", "override", "status", "schedule", "program", "list"} \subseteq Keys
  /\ "target" \notin Keys
  /\ Domain["mode"] = Modes /\ Domain["status"] = {"on", "off"}
  /\ Domain["program"] = Ids /\ Domain["list"] = DOMAIN Lists
  /\ Requested \subseteq Domain["manual"] \cap Domain["override"] /\ Domain["schedule"] \subseteq Domain["manual"]
  /\ Domain["override"] \subseteq Domain["manual"] \cup {NoOverride} /\ NoOverride \notin Domain["manual"]

VARIABLES
  site,      \* the circuit: its class, USED of its operation mode, its tasks
  cache,     \* VALUE of the resources that are shown
  opMode,    \* VALUE of the operation mode
  programs,  \* ZonePrograms._programs: a name, or NoName
  fresh,     \* _last_updated is less than ten minutes ago
  work,      \* what each task is doing
  unread,    \* for the properties: what has changed on the device and was not read since
  met        \* and the tasks whose command met another change, or an unknown mode

circuitVars == <<site, cache, opMode, programs, fresh, work>>
overrideOwn == <<circuitVars, unread, met>>
overrideVars == <<connectorVars, overrideOwn>>

family == site.family
used == site.used   \* a zone whose mode is not used is manual

NoWork == [kind |-> "none", pos |-> 0, val |-> NotRead, res |-> FALSE]
Work(k) == [NoWork EXCEPT !.kind = k]
NoPrograms == [i \in Ids |-> NoName]

-----------------------------------------------------------------------------
(* The device: the temperature it aims at. *)

Overridden(d) == IF family = "zone" THEN d["override"] # NoOverride ELSE d["status"] = "on"
Effective(d) ==
  IF d["mode"] = "manual" \/ ~used THEN d["manual"]
  ELSE IF Overridden(d) THEN d["override"] ELSE d["schedule"]
Held(d, k) == IF k = "target" THEN Effective(d) ELSE d[k]

\* Resources a circuit does not have keep one value.
Plain(d) ==
  /\ \A k \in site.fixed : d[k] = CHOOSE v \in Domain[k] : TRUE
  /\ family = "nefit" => d["override"] # NoOverride

OverrideInit ==
  /\ site \in Sites
  /\ ConnectorInit /\ Plain(dev)
  /\ cache = [k \in Shown |-> NotRead] /\ opMode = NotRead
  /\ programs = NoPrograms /\ fresh = FALSE
  /\ work = [t \in Tasks |-> NoWork]
  /\ unread = Shown /\ met = {}

-----------------------------------------------------------------------------
(* The operation mode *)

\* EasyControlOperationModeHelper.current_mode
CurrentMode == IF used \/ opMode = NotRead THEN opMode ELSE "manual"
\* What target_temperature shows.
TargetKey == IF family = "nefit" \/ CurrentMode = "clock" THEN "target" ELSE "manual"
\* Where set_temperature() writes to.
WriteKey == IF CurrentMode = "clock" THEN "override" ELSE "manual"
\* _temp_setpoint, which it remembers the temperature under.
SetpointKey == IF family = "nefit" THEN "target" ELSE WriteKey

Does(t, call) == call \in site.does[t]
AtRest(t) == work[t] = NoWork
WorkOn(t, j) == work' = [work EXCEPT ![t] = j]
Back(t, kind) == Returned(t) /\ work[t].kind = kind
\* Mutant: the call returns and does not give its place to the next one.
Done_Holds(t) == WorkOn(t, NoWork) /\ UNCHANGED connectorVars

Done(t) == Leave(t) /\ WorkOn(t, NoWork)

\* t alone goes on; u is what has changed and was not read.
Keep(u, m) == unread' = u /\ met' = m /\ UNCHANGED site

-----------------------------------------------------------------------------
(* update() *)

Poll == IF family = "nefit" THEN <<"mode", "target">> ELSE <<"mode", "manual", "target", "program">>
Polling(p) == [Work("update") EXCEPT !.pos = p]

\* A zone begins with the programs, if they are older than ten minutes.
StartPoll(t) ==
  /\ AtRest(t)
  /\ IF family = "zone" /\ ~fresh
     THEN Ask(t, Get("list")) /\ WorkOn(t, Work("list"))
     ELSE Ask(t, Get(Poll[1])) /\ WorkOn(t, Polling(1))
  /\ Keep(unread, met) /\ UNCHANGED <<cache, opMode, programs, fresh>>

\* Mutant: a program that is known already keeps its name.
ListLearned_Keeps(l) == [i \in Ids |-> IF programs[i] # NoName THEN programs[i] ELSE Lists[l][i]]

\* A program that is on the list no more is kept.
ListLearned(l) == [i \in Ids |-> IF Lists[l][i] = NoName THEN programs[i] ELSE Lists[l][i]]

ListDone(t) ==
  /\ Back(t, "list")
  /\ IF reply.st = "ok"
     THEN /\ programs' = ListLearned(reply.val) /\ fresh' = TRUE
          /\ AskAgain(t, Get(Poll[1])) /\ WorkOn(t, Polling(1))
     \* Whatever the failure: the zone itself is not polled.
     ELSE Done(t) /\ UNCHANGED <<programs, fresh>>
  /\ Keep(unread, met) /\ UNCHANGED <<cache, opMode>>

PollNext(t) ==
  LET k == Poll[work[t].pos] IN
  /\ Back(t, "update") /\ reply.st # "down"
  /\ IF reply.st # "ok" THEN UNCHANGED <<cache, opMode>>
     ELSE IF k = "mode" THEN opMode' = reply.val /\ UNCHANGED cache
     ELSE cache' = [cache EXCEPT ![k] = reply.val] /\ UNCHANGED opMode
  /\ IF work[t].pos = Len(Poll)
     THEN Done(t)
     ELSE AskAgain(t, Get(Poll[work[t].pos + 1])) /\ WorkOn(t, Polling(work[t].pos + 1))
  /\ Keep(unread, IF opMode' # opMode THEN Tasks ELSE met)
  /\ UNCHANGED <<programs, fresh>>

PollFails(t) ==
  /\ Back(t, "update") /\ reply.st = "down"
  /\ Done(t)
  /\ Keep(unread, met) /\ UNCHANGED <<cache, opMode, programs, fresh>>

\* Ten minutes.  (A bound: the list is read again only where it varies.)
TimePasses ==
  /\ "list" \notin site.fixed
  /\ fresh /\ fresh' = FALSE
  /\ UNCHANGED <<connectorVars, site, cache, opMode, programs, work, unread, met>>

-----------------------------------------------------------------------------
(* Commands *)

Command(t, request, j) ==
  /\ AtRest(t)
  /\ Ask(t, request) /\ WorkOn(t, j)
  /\ Keep(unread, IF "mode" \in stale THEN met \cup {t} ELSE met \ {t})
  /\ UNCHANGED <<cache, opMode, programs, fresh>>

\* Mutant: the override of a NEFIT circuit is not switched on.
SetTemperature_Alone(t, v) ==
  /\ opMode # NotRead /\ v # cache[TargetKey]
  /\ Command(t, Put(WriteKey, v), [Work("temp") EXCEPT !.val = v])

\* A temperature that is shown already is not sent, and none before the mode
\* is known, which tells where to.
SetTemperature(t, v) ==
  /\ opMode # NotRead /\ v # cache[TargetKey]
  /\ Command(t, Put(WriteKey, v),
       [Work(IF family = "nefit" /\ WriteKey = "override" THEN "override" ELSE "temp") EXCEPT !.val = v])

\* The override is to be switched on as well.
OverrideDone(t) ==
  /\ Back(t, "override")
  /\ IF reply.st \in {"ok", "void"}
     THEN /\ AskAgain(t, Put("status", "on"))
          /\ WorkOn(t, [work[t] EXCEPT !.kind = "status", !.res = reply.st = "ok"])
     ELSE Done(t)
  /\ Keep(unread, met) /\ UNCHANGED <<cache, opMode, programs, fresh>>

\* The result of the first put counts; the second one must not have raised.
Succeeded(t) ==
  IF work[t].kind = "temp" THEN reply.st = "ok" ELSE work[t].res /\ reply.st \in {"ok", "void"}

\* Mutant: the temperature is shown whatever the outcome.
TemperatureDone_Trusts(t) ==
  /\ Returned(t) /\ work[t].kind \in {"temp", "status"}
  /\ Done(t)
  /\ cache' = IF SetpointKey \in Shown THEN [cache EXCEPT ![SetpointKey] = work[t].val] ELSE cache
  /\ Keep(unread, met) /\ UNCHANGED <<opMode, programs, fresh>>

TemperatureDone(t) ==
  /\ Returned(t) /\ work[t].kind \in {"temp", "status"}
  /\ Done(t)
  /\ IF Succeeded(t) /\ SetpointKey \in Shown
     THEN /\ cache' = [cache EXCEPT ![SetpointKey] = work[t].val]
          /\ Keep(IF t \in met THEN unread \cup {SetpointKey} ELSE unread \ {SetpointKey}, met)
     \* Nothing shows the cached temperature of a zone's override.
     ELSE UNCHANGED cache /\ Keep(unread, met)
  /\ UNCHANGED <<opMode, programs, fresh>>

SetMode(t, m) == opMode # NotRead /\ CurrentMode # m /\ Command(t, Put("mode", m), [Work("mode") EXCEPT !.val = m])

ModeDone(t) ==
  /\ Back(t, "mode")
  /\ opMode' = IF reply.st \in {"ok", "void"} THEN work[t].val ELSE opMode
  /\ Done(t)
  /\ Keep(unread, IF opMode' # opMode THEN Tasks ELSE met)
  /\ UNCHANGED <<cache, programs, fresh>>

\* Of several programs of that name the one that was listed first, which may
\* be any.
SetPreset(t, name) ==
  /\ family = "zone" /\ name # NoName
  /\ \E i \in Ids : programs[i] = name /\ Command(t, Put("program", i), Work("preset"))

PresetDone(t) ==
  /\ Back(t, "preset")
  /\ IF reply.st \in {"ok", "void"} THEN AskAgain(t, Get("program")) /\ WorkOn(t, Work("active")) ELSE Done(t)
  /\ Keep(unread, met) /\ UNCHANGED <<cache, opMode, programs, fresh>>

\* update_requested_key() does not tell its caller of a failure.
ActiveDone(t) ==
  /\ Back(t, "active") /\ Done(t)
  /\ cache' = IF reply.st = "ok" THEN [cache EXCEPT !["program"] = reply.val] ELSE cache
  /\ Keep(unread, met) /\ UNCHANGED <<opMode, programs, fresh>>

-----------------------------------------------------------------------------
Changed == {k \in Shown : Held(dev', k) # Held(dev, k)}

GivenUp(t) ==
  /\ Abandon(t) /\ WorkOn(t, NoWork)
  /\ Keep(unread \cup Changed \cup ({ask[t].key} \cap Shown),
          IF dev' # dev \/ "mode" \in stale' THEN Tasks ELSE met)
  /\ UNCHANGED <<cache, opMode, programs, fresh>>

\* The resource of the target, which the device computes.
TargetAnswered ==
  /\ Pending /\ OnWire.op = "get" /\ OnWire.key = "target"
  /\ reply' = [st |-> "ok", val |-> Effective(dev)]
  /\ UNCHANGED <<dev, queue, ask, stale, changes>>

Answers == DeviceStep \/ TargetAnswered
DeviceAnswers ==
  /\ Answers
  /\ unread' = IF reply'.st = "ok" /\ OnWire.op = "get" THEN unread \ {OnWire.key} ELSE unread \cup Changed
  /\ met' = IF dev' # dev THEN met \cup (Tasks \ {Head(queue)}) ELSE met
  /\ UNCHANGED circuitVars

\* Somebody else's override also switches it on.
SomebodyElse ==
  /\ OwnerChanges /\ Plain(dev')
  /\ unread' = unread \cup Changed /\ met' = Tasks
  /\ UNCHANGED circuitVars

Begin(t) ==
  \/ Does(t, "update") /\ StartPoll(t)
  \/ Does(t, "temp") /\ \E v \in Requested : SetTemperature(t, v)
  \/ Does(t, "mode") /\ \E m \in Modes : SetMode(t, m)
  \/ Does(t, "preset") /\ \E i \in Ids : SetPreset(t, programs[i])

Continue(t) ==
  \/ ListDone(t) \/ PollNext(t) \/ PollFails(t)
  \/ OverrideDone(t) \/ TemperatureDone(t) \/ ModeDone(t) \/ PresetDone(t) \/ ActiveDone(t)

OverrideNext ==
  \/ DeviceAnswers \/ SomebodyElse \/ TimePasses
  \/ \E t \in Tasks : Begin(t) \/ Continue(t) \/ GivenUp(t)

OverrideSpec == OverrideInit /\ [][OverrideNext]_overrideVars
=============================================================================
