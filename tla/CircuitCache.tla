----------------------------- MODULE CircuitCache -----------------------------
(***************************************************************************)
(* A heating or hot-water circuit: update() polls its resources one after  *)
(* the other, and the setters write to the device and, when the call       *)
(* returns, to what the circuit remembers.  Tasks run all of this at the   *)
(* same time.                                                              *)
(***************************************************************************)
EXTENDS SerialConnector

CONSTANTS
  ModeKey,     \* the resource of the operation mode
  Setpoints,   \* the resources of the temperatures
  Poll,        \* all of them, in the order of _data
  SetpointOf,  \* the temperature a mode uses, or NoKey
  ModeType,    \* "manual", "auto" or "off"
  Settable,    \* the temperatures between min_temp and max_temp
  NoMode,      \* current_mode before the first update
  NoTemp,      \* a temperature of 0, or none: get_value(key, 0) reads both as 0
  Commands     \* the modes a consumer asks for

Modes == Domain[ModeKey]

ASSUME CircuitAssumption ==
  /\ ModeKey \notin Setpoints /\ Keys = {ModeKey} \cup Setpoints
  /\ Poll \in Seq(Keys) /\ Poll # << >> /\ NoMode \notin Modes /\ Commands \subseteq Modes
  /\ SetpointOf \in [Modes -> Setpoints \cup {NoKey}]
  /\ ModeType \in [Modes -> {"manual", "auto", "off"}]
  /\ \A k \in Setpoints : Settable \subseteq Domain[k] /\ NoTemp \notin Domain[k]

VARIABLES
  cache,   \* the VALUE in _data of each setpoint
  opMode,  \* current_mode; the mode's uri is known with it
  state,   \* _state
  job      \* what each task is doing

vars == <<connectorVars, cache, opMode, state, job>>

NoJob == [kind |-> "none", pos |-> 0, old |-> NoKey]

Init ==
  /\ ConnectorInit
  /\ cache = [k \in Setpoints |-> NoTemp]
  /\ opMode = NoMode /\ state = FALSE
  /\ job = [t \in Tasks |-> NoJob]

Idle(t) == job[t] = NoJob
Become(t, j) == job' = [job EXCEPT ![t] = j]

\* _temp_setpoint, evaluated anew at every use.
TempSetpoint == IF opMode = NoMode THEN NoKey ELSE SetpointOf[opMode]
IsType(type) == opMode # NoMode /\ ModeType[opMode] = type

Remember(k, v) == cache' = [cache EXCEPT ![k] = v]
Back(t, kind) == Returned(t) /\ job[t].kind = kind

-----------------------------------------------------------------------------
(* update()                                                                *)

Update(t) ==
  /\ Idle(t)
  /\ Ask(t, Get(Poll[1]))
  /\ Become(t, [kind |-> "update", pos |-> 1, old |-> NoKey])
  /\ UNCHANGED <<cache, opMode, state>>

Learn(k) ==
  IF reply.st # "ok" THEN UNCHANGED <<cache, opMode>>
  ELSE IF k = ModeKey THEN opMode' = reply.val /\ UNCHANGED cache
  ELSE Remember(k, reply.val) /\ UNCHANGED opMode

\* A resource is read, or skipped when the gateway refused it.
UpdateNext(t) ==
  /\ Back(t, "update") /\ reply.st # "down"
  /\ Learn(Poll[job[t].pos])
  /\ IF job[t].pos = Len(Poll)
       THEN Leave(t) /\ state' = TRUE /\ Become(t, NoJob)
       ELSE /\ AskAgain(t, Get(Poll[job[t].pos + 1]))
            /\ Become(t, [job[t] EXCEPT !.pos = @ + 1])
            /\ UNCHANGED state

UpdateFails_KeepsLock(t) ==
  /\ Back(t, "update") /\ reply.st = "down"
  /\ state' = FALSE /\ Become(t, NoJob)
  /\ UNCHANGED <<connectorVars, cache, opMode>>

\* The gateway is unreachable: the rest of the poll is not done.
UpdateFails(t) ==
  /\ Back(t, "update") /\ reply.st = "down"
  /\ Leave(t) /\ state' = FALSE /\ Become(t, NoJob)
  /\ UNCHANGED <<cache, opMode>>

-----------------------------------------------------------------------------
(* set_temperature()                                                       *)

SetTemperature_RemembersFirst(t, v) ==
  /\ Idle(t) /\ ~IsType("off") /\ TempSetpoint # NoKey
  /\ v \in Settable /\ v # cache[TempSetpoint]
  /\ Ask(t, Put(TempSetpoint, v))
  /\ Become(t, [NoJob EXCEPT !.kind = "temp"])
  /\ Remember(TempSetpoint, v)
  /\ UNCHANGED <<opMode, state>>

SetTemperature(t, v) ==
  /\ Idle(t) /\ ~IsType("off") /\ TempSetpoint # NoKey
  /\ v \in Settable /\ v # cache[TempSetpoint]
  /\ Ask(t, Put(TempSetpoint, v))
  /\ Become(t, [NoJob EXCEPT !.kind = "temp"])
  /\ UNCHANGED <<cache, opMode, state>>

\* The value is remembered only if the call was answered by a result.
SetTemperatureDone(t) ==
  /\ Back(t, "temp")
  /\ IF reply.st = "ok" /\ TempSetpoint # NoKey
       THEN Remember(TempSetpoint, ask[t].val)
       ELSE UNCHANGED cache
  /\ Leave(t) /\ Become(t, NoJob)
  /\ UNCHANGED <<opMode, state>>

-----------------------------------------------------------------------------
(* set_operation_mode() and set_ha_mode(), which reads a temperature next. *)

SetMode(t, m, kind) ==
  /\ Idle(t) /\ opMode # m
  /\ Ask(t, Put(IF opMode = NoMode THEN NoKey ELSE ModeKey, m))
  /\ Become(t, [NoJob EXCEPT !.kind = kind, !.old = TempSetpoint])
  /\ UNCHANGED <<cache, opMode, state>>

NeedsTemperature(m, old) ==
  /\ SetpointOf[m] \notin {old, NoKey} /\ ModeType[m] = "manual"
  /\ cache[SetpointOf[m]] = NoTemp

SetModeDone_IgnoresFailure(t) ==
  /\ Returned(t) /\ job[t].kind \in {"mode", "haMode"}
  /\ opMode' = ask[t].val
  /\ Leave(t) /\ Become(t, NoJob)
  /\ UNCHANGED <<cache, state>>

SetModeDone(t) ==
  /\ Returned(t) /\ job[t].kind \in {"mode", "haMode"}
  /\ UNCHANGED <<cache, state>>
  /\ IF reply.st \in {"refused", "down"}
       THEN UNCHANGED opMode /\ Leave(t) /\ Become(t, NoJob)
       ELSE /\ opMode' = ask[t].val
            /\ IF job[t].kind = "haMode" /\ NeedsTemperature(opMode', job[t].old)
                 THEN /\ AskAgain(t, Get(SetpointOf[opMode']))
                      /\ Become(t, [NoJob EXCEPT !.kind = "refresh"])
                 ELSE Leave(t) /\ Become(t, NoJob)

RefreshDone(t) ==
  /\ Back(t, "refresh")
  /\ IF reply.st = "ok" /\ TempSetpoint # NoKey
       THEN Remember(TempSetpoint, reply.val)
       ELSE UNCHANGED cache
  /\ Leave(t) /\ Become(t, NoJob)
  /\ UNCHANGED <<opMode, state>>

-----------------------------------------------------------------------------
Cancelled(t) ==
  /\ Abandon(t) /\ Become(t, NoJob)
  /\ UNCHANGED <<cache, opMode, state>>

World == (DeviceStep \/ OwnerChanges) /\ UNCHANGED <<cache, opMode, state, job>>

Continue(t) ==
  \/ UpdateNext(t) \/ UpdateFails(t) \/ SetTemperatureDone(t) \/ SetModeDone(t) \/ RefreshDone(t)

Call(t) ==
  \/ Update(t)
  \/ \E v \in Settable : SetTemperature(t, v)
  \/ \E m \in Commands, kind \in {"mode", "haMode"} : SetMode(t, m, kind)

Next == World \/ \E t \in Tasks : Call(t) \/ Continue(t) \/ Cancelled(t)

Spec == Init /\ [][Next]_vars

\* The connector's time-outs bound every request; a task that can run does run.
FairSpec ==
  /\ Spec
  /\ WF_vars(DeviceStep /\ UNCHANGED <<cache, opMode, state, job>>)
  /\ \A t \in Tasks : WF_vars(Continue(t))
=============================================================================
