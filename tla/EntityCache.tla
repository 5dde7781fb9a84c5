------------------------------ MODULE EntityCache ------------------------------
(***************************************************************************)
(* Sensors, switches, numbers and selects: each polls one resource, shows  *)
(* what it read last, and writes to it what a consumer commands.  Tasks    *)
(* poll and command at the same time, over one connector.                  *)
(***************************************************************************)
EXTENDS SerialConnector

CONSTANTS
  Entities,
  Devices,    \* their classes on each device
  KeyOf,      \* the resource of each
  Allowed,    \* its allowedValues, or the numbers from minValue to maxValue
  OnAction,   \* BinarySwitch: on_action and off_action
  OffAction,
  Empty,      \* a list without elements, as a value
  Notice,     \* a value as the entry of a notification
  Table,      \* errorcodes of EasyControl: the rows of a code
  Titles,     \* errorcodes of IVT: the title of a code
  NoValue     \* no VALUE in RESULT yet

Settables == {"switch", "binary", "number", "select"}
Notifications == {"notice", "notice_ivt", "notice_nefit"}   \* "notice": EasyControl
Classes == {"sensor", "crawl"} \cup Notifications \cup Settables

ASSUME EntityAssumption ==
  /\ Devices \subseteq [Entities -> Classes]
  /\ KeyOf \in [Entities -> Keys]
  /\ \A d, e \in Entities : KeyOf[d] = KeyOf[e] => d = e
  /\ \A e \in Entities : Allowed[e] \subseteq Domain[KeyOf[e]]
  /\ \A d \in Devices, e \in Entities :
       d[e] = "binary" => {OnAction, OffAction} \subseteq Domain[KeyOf[e]]
  /\ NoValue \notin Entities /\ NoKey \notin Tasks

VARIABLES
  class,   \* the class of each entity
  shown,   \* VALUE in the RESULT of each entity
  good,    \* _state
  job,     \* what each task is doing
  wanted   \* for the properties: the last command to each entity, if it holds

ownVars == <<class, shown, good, job, wanted>>
vars == <<connectorVars, ownVars>>

NoJob == [kind |-> "none", of |-> NoValue]
Raised == [kind |-> "raised", of |-> NoValue]
NoWish == [by |-> NoKey, val |-> NoValue]

Settable(e) == class[e] \in Settables

Init ==
  /\ ConnectorInit
  /\ class \in Devices
  \* Switches.initialize has read the resource a first time.
  /\ shown = [e \in Entities |-> IF Settable(e) THEN dev[KeyOf[e]] ELSE NoValue]
  /\ good = [e \in Entities |-> FALSE]
  /\ job = [t \in Tasks |-> NoJob]
  /\ wanted = [e \in Entities |-> NoWish]

Idle(t) == job[t] \in {NoJob, Raised}
Become(t, j) == job' = [job EXCEPT ![t] = j]
Return(t, how) == Leave(t) /\ Become(t, how) /\ UNCHANGED class

Arriving(k) == queue # << >> /\ reply.st = "ok" /\ ask[Head(queue)].key = k

-----------------------------------------------------------------------------
(* update()                                                                *)

Update(t, e) ==
  /\ Idle(t)
  /\ Ask(t, Get(KeyOf[e]))
  /\ Become(t, [kind |-> "update", of |-> e])
  /\ UNCHANGED <<class, shown, good, wanted>>

\* get_error_message(): the row of the code; of several rows the first that has
\* the failure type and the error class, else the last that has one of them.
Message(v) ==
  LET n == Notice[v]
      rows == Table[n.code]
      both == {i \in DOMAIN rows : rows[i].act = n.act /\ rows[i].fc = n.fc}
      one == {i \in DOMAIN rows : rows[i].act = n.act \/ rows[i].fc = n.fc}
  IN IF n.code \notin DOMAIN Table THEN "Unknown error"
     ELSE IF Len(rows) = 1 THEN rows[1].message
     ELSE IF both # {} THEN rows[CHOOSE i \in both : \A j \in both : i <= j].message
     ELSE IF one # {} THEN rows[CHOOSE i \in one : \A j \in one : j <= i].message
     ELSE "Unknown error"

Title(v) == IF Notice[v].code \in DOMAIN Titles THEN Titles[Notice[v].code] ELSE "Unknown error"

\* What process_results() and state make of a value of the device.  The cause of
\* a NEFIT notification is never asked for, so that its code is shown as it is.
Reading(e, v) ==
  CASE class[e] \in Notifications /\ v = Empty -> "No notifications"
    [] class[e] = "notice" /\ v # Empty -> Message(v)
    [] class[e] = "notice_ivt" /\ v # Empty -> Title(v)
    [] OTHER -> v

\* CrawlSensor: if not value: continue
Learned(e) == IF class[e] = "crawl" /\ reply.val = Empty THEN shown[e] ELSE Reading(e, reply.val)

\* No result: a notification is unknown.  None is no container and has no get(),
\* so that the others raise what no caller expects; an empty object leaves them
\* as they are.
TellsUnknown(e) == class[e] \in {"notice", "notice_ivt"}

UpdateDone(t) ==
  LET e == job[t].of IN
  /\ Returned(t) /\ job[t].kind = "update" /\ reply.st \in {"ok", "void"}
  /\ IF reply.st = "ok" \/ TellsUnknown(e)
     THEN /\ shown' = [shown EXCEPT ![e] = IF reply.st = "ok" THEN Learned(e) ELSE "Unknown"]
          /\ good' = [good EXCEPT ![e] = TRUE]
          /\ Return(t, NoJob)
     ELSE /\ UNCHANGED shown
          /\ \/ UNCHANGED good /\ Return(t, Raised)
             \/ good' = [good EXCEPT ![e] = TRUE] /\ Return(t, NoJob)
  /\ UNCHANGED wanted

\* CrawlSensor takes a connection that fails for any other failure.
Swallows(e) == class[e] = "crawl"

UpdateFailed(t) ==
  LET e == job[t].of IN
  /\ Returned(t) /\ job[t].kind = "update" /\ reply.st \in {"refused", "down"}
  /\ good' = [good EXCEPT ![e] = FALSE]
  /\ Return(t, IF reply.st = "down" /\ ~Swallows(e) THEN Raised ELSE NoJob)
  /\ UNCHANGED <<shown, wanted>>

-----------------------------------------------------------------------------
(* Commands                                                                *)

Commanding(t, e) == job[t] = [kind |-> "command", of |-> e]
Alone(e) == \A t \in Tasks : ~Commanding(t, e)
Wish(e, t, v) == wanted' = [wanted EXCEPT ![e] = [by |-> t, val |-> v]]

Send(t, e, v) ==
  /\ Ask(t, Put(KeyOf[e], v))
  /\ Become(t, [kind |-> "command", of |-> e])
  /\ UNCHANGED <<class, shown, good>>

\* Mutant: nothing is sent if the entity shows the value already.
SetValue_SkipsShown(t, e, v) ==
  /\ Idle(t) /\ class[e] \in {"number", "select"} /\ v \in Allowed[e]
  /\ IF shown[e] # v THEN Send(t, e, v) ELSE UNCHANGED <<connectorVars, class, shown, good, job>>
  /\ IF KeyOf[e] \in stale THEN wanted' = [wanted EXCEPT ![e] = NoWish] ELSE Wish(e, t, v)

\* NumberSwitch.set_value, SelectSwitch.set_value
SetValue(t, e, v) ==
  /\ Idle(t) /\ class[e] \in {"number", "select"}
  /\ v \in Allowed[e]
  /\ Send(t, e, v) /\ Wish(e, t, v)

OnStates == <<"start", "on", "active">>
OffStates == <<"stop", "off">>
FirstAllowed(e, states, i) ==
  states[i] \in Allowed[e] /\ \A j \in 1..(i - 1) : states[j] \notin Allowed[e]

\* Switch: the first of the states that is allowed, if any.
Turn(t, e, states) ==
  /\ Idle(t) /\ class[e] = "switch"
  /\ \E i \in DOMAIN states :
       FirstAllowed(e, states, i) /\ Send(t, e, states[i]) /\ Wish(e, t, states[i])

\* BinarySwitch: nothing is sent if the switch shows the state already.  A
\* command that meets another one on its way may be lost in this way.
TurnBinary(t, e, on) ==
  LET v == IF on THEN OnAction ELSE OffAction IN
  /\ Idle(t) /\ class[e] = "binary"
  /\ IF (shown[e] = OnAction) # on
     THEN /\ Send(t, e, v)
          /\ IF Alone(e) THEN Wish(e, t, v) ELSE wanted' = [wanted EXCEPT ![e] = NoWish]
     ELSE /\ wanted' = [wanted EXCEPT ![e] =
               IF Alone(e) /\ KeyOf[e] \notin stale /\ ~Arriving(KeyOf[e]) /\ shown[e] = v
               THEN [by |-> t, val |-> v] ELSE NoWish]
          /\ UNCHANGED <<connectorVars, class, shown, good, job>>

\* Mutant: the value that was sent is not shown.
CommandDone_Forgets(t) ==
  /\ Returned(t) /\ job[t].kind = "command"
  /\ LET e == job[t].of IN
     IF reply.st \in {"ok", "void"}
     THEN Return(t, NoJob) /\ UNCHANGED <<shown, wanted>>
     ELSE /\ Return(t, Raised) /\ UNCHANGED shown
          /\ wanted' = [wanted EXCEPT ![e] = IF @.by = t THEN NoWish ELSE @]
  /\ UNCHANGED good

\* The value is shown once put() returns, whatever it returns.
CommandDone(t) ==
  /\ Returned(t) /\ job[t].kind = "command"
  /\ LET e == job[t].of IN
     IF reply.st \in {"ok", "void"}
     THEN /\ shown' = [shown EXCEPT ![e] = ask[t].val]
          /\ Return(t, NoJob) /\ UNCHANGED wanted
     ELSE /\ Return(t, Raised) /\ UNCHANGED shown
          /\ wanted' = [wanted EXCEPT ![e] = IF @.by = t THEN NoWish ELSE @]
  /\ UNCHANGED good

-----------------------------------------------------------------------------
Cancelled(t) ==
  /\ Abandon(t) /\ Become(t, Raised)
  /\ wanted' = [e \in Entities |-> IF wanted[e].by = t /\ job[t].of = e THEN NoWish ELSE wanted[e]]
  /\ UNCHANGED <<class, shown, good>>

\* 200 without a body, or with an empty object.
AnsweredNothing ==
  /\ Pending /\ OnWire.op = "get"
  /\ reply' = [NoReply EXCEPT !.st = "void"]
  /\ UNCHANGED <<dev, queue, ask, stale, changes, ownVars>>

\* HttpConnector.put returns the text of an answer that refuses the value.
RefusedInSilence ==
  /\ Pending /\ OnWire.op = "put"
  /\ reply' = [NoReply EXCEPT !.st = "void"]
  /\ stale' = stale \cup {OnWire.key}
  /\ wanted' = [wanted EXCEPT ![job[Head(queue)].of] = NoWish]
  /\ UNCHANGED <<dev, queue, ask, changes, class, shown, good, job>>

World ==
  \/ DeviceStep /\ UNCHANGED ownVars
  \/ AnsweredNothing
  \/ RefusedInSilence
  \/ /\ OwnerChanges
     /\ wanted' = [e \in Entities |-> IF dev'[KeyOf[e]] # dev[KeyOf[e]] THEN NoWish ELSE wanted[e]]
     /\ UNCHANGED <<class, shown, good, job>>

Call(t, e) ==
  \/ Update(t, e)
  \/ \E v \in Allowed[e] : SetValue(t, e, v)
  \/ \E states \in {OnStates, OffStates} : Turn(t, e, states)
  \/ \E on \in BOOLEAN : TurnBinary(t, e, on)

Next ==
  \/ World
  \/ \E t \in Tasks : UpdateDone(t) \/ UpdateFailed(t) \/ CommandDone(t) \/ Cancelled(t)
  \/ \E t \in Tasks, e \in Entities : Call(t, e)

Spec == Init /\ [][Next]_vars
=============================================================================
