# A verification model of bosch-thermostat-client

`bosch_thermostat_client` is an asyncio library that talks to Bosch, Buderus,
Junkers and IVT heating gateways, over XMPP (through the vendor's server) or over
local HTTP. A consumer (Home Assistant, or the CLI in `bosch_cli.py`) creates a
gateway object, initialises it, polls its entities with `update()` and writes
with setters such as `set_temperature()`. Everything runs in one event loop: a
step of a task is the code between two awaits, and every await lets the other
tasks, the slixmpp callbacks and the timers run.

Source paths below are relative to `src/bosch_thermostat_client/`.

## 1. Inventory

| Component | State | Operations | Hard behaviour | What makes it correct |
|---|---|---|---|---|
| XMPP connector (`connectors/xmpp.py` and its three subclasses) | `_request_lock`, `_pending`, `_put_locks`, `_count`, `_last_timeout_seq`, `_auth_success`, `connected_event`, `disconnect_event` | `get`, `put`, `close`; callbacks `auth_success`, `failed_auth`, `session_start`, `session_end`, `main_listener` | several tasks, late and lost replies, reconnects, timers, cancellation | requests are serialised; a reply answers the request it belongs to; nobody is stranded; only GET is retried; every call returns |
| HTTP connector (`connectors/http.py`) | `_lock` | `get`, `put`, `close` | one lock, time-outs, cancellation | as above, one try per request, and no lock leaks |
| Gateway (`gateway/*.py`) | `_data`, `_initialized`, `_firmware_version`, `device`, `_bus_type`, the entity collections | `check_connection`, `initialize`, `get_capabilities`, `rawscan`, `custom_test`, `close` | discovery fails half-way and is repeated | a transport failure is not taken for a missing capability; a retry starts from a sound state |
| Entities, crawling (`helper.py`) | `_data`, `_update_initialized`, `_state`, the URIs a crawl found | `update`, `initialize`, `fetch_value`, `process_results` | an update races a write; a crawl fails in the middle | the cached value comes from the gateway or from the last write |
| Circuits (`circuits/**`) | `_data`, `_op_mode`, `_schedule`, `_temp_setpoint` | `initialize`, `update`, `set_temperature`, `set_operation_mode`, `set_ha_mode` | several requests for one setter; optimistic writes | only temperatures in range reach the device; the cache follows what was written |
| Operation mode (`operation_mode/*.py`) | `current_mode`, `_operation_mode` | `init_op_mode`, `set_new_operation_mode`, `set_operation_mode` | modes of a schedule against manual modes | the mode shown is a mode of the device |
| Schedule (`schedule/__init__.py`) | `_active_program`, `_switch_points`, `_switchprogram_mode`, `_setpoints_temp`, `_time`, `_schedule_found` | `update_schedule`, `get_temp_in_schedule`, `cache_temp_for_mode` | weeks wrap around; up to a dozen requests for one update, any of which may fail | the active switch point is the last one that has passed; its temperature is known |
| Zone programs (`schedule/easycontrol_programs.py`) | `_programs`, `_last_updated` | `update`, `preset_names`, `preset_name`, `get_preset_index_by_name` | a cache with an age; removed programs stay | at most one fetch in ten minutes; a failed one is repeated |
| Sensors, recordings (`sensors/*.py`) | `_data`, `_past_data`, `_attrs` | `update`, `fetch_range`, `fetch_all` | paging, days without data | a range is fetched once and the loop ends |
| Switches, numbers, selects (`switches/*.py`) | `_data`, `_state` | `initialize`, `update`, `turn_on`, `turn_off`, `set_value` | a URI that fails among many | the others still appear |
| Encryption (`encryption/*.py`) | key | `encrypt`, `decrypt`, `json_decrypt` | raises on what is no cipher text or no JSON | callers turn it into a client exception |
| Database (`db/`), error codes, constants | static JSON | lookup by firmware | | |
| Command line (`bosch_cli.py`), examples | `rawlist`, the output file | `scan`, `query`, `put` | a scan is recursive, any request may fail, Ctrl-C at any await | a scan asks for everything reachable or says it failed; the connector is closed however it ends |

How they interact: the consumer calls the gateway and the entities; these call
`connector.get(path)` and `connector.put(path, value)` and interpret the
exceptions (`exceptions.py`); the connector calls slixmpp or aiohttp, which call
back. Nothing is persisted and there are no threads. The only shared mutable
state that tasks race on is the connector's, the entities' caches (a task may
update an entity while another one sets it) and the lists of a gateway while it
is being initialised.

## 2. Plan

Order: what every other part relies on first. All steps are done.

1. `Callers`, `XmppConnector`, `XmppProperties`, `RequestReply`, `ConnectorProofs`: the XMPP connector, the abstract
   connector it implements, the theorems about both connectors. Section 3.
2. `HttpConnector`: lock, one try; a refinement of `RequestReply`. Section 4.
3. `Queues`, `SerialConnector`, `CircuitCache`, `CircuitProperties`, `QueueProofs`, `CircuitProofs`: a circuit whose polls and
   setters interleave, over what 1 and 2 have in common. Section 5.
4. `ScheduleCache`, `ScheduleProperties`, `ScheduleProofs`: circuits that follow a weekly schedule. Section 6.
5. `GatewayDiscovery`, `DiscoveryProperties`, `DiscoveryProofs`: `check_connection`, `initialize`,
   `get_capabilities` with requests that fail in every way and place, repeated by the consumer. Section 7.
6. `OverrideCircuit`, `OverrideProperties`, with its theorems in `EntityProofs`: the NEFIT override, which takes two requests, and zones with their programs. Section 8.
7. `EntityCache`, `EntityProperties`, `EntityProofs`: sensors, notifications, switches, numbers, selects. Section 9.
8. `HistorySensors`, `HistoryProperties`, `HistoryProofs`: recordings and energy history. Section 10.
9. `CommandLine`, `CommandLineProperties`, `CommandLineProofs`: scan, query and put. Section 11.

What could follow: a restart of the process in the XMPP model (`_count` starts again at 0).

Composition: `CircuitCache`, `ScheduleCache`, `OverrideCircuit` and `EntityCache` extend `SerialConnector`; `XmppConnector` and
`HttpConnector` are both shown to implement `RequestReply`; `CommandLine` takes the outcome of `check_connection()`
from `GatewayDiscovery`. An operator named `X_Y` that stands
before `X` is a faulty version of `X` that a plausible slip would produce. No specification uses it;
each property has one that breaks it.

The inductive invariants (`Inv` of `XmppProperties`, `HttpInv`, `ModeInv`, `FixedModeInv`, `ScheduleInv`, `DiscoveryInv`, `OverrideInv`,
`EntityInv`, `HistoryInv`, `CommandInv`; on top of these `CleanInv`, `UpdateUse`, `RecordUse` and `QuerySoFar`) contain the
type invariants. They were checked with TLC on the instances below before they were proved; the runs check what they are for.

## 3. The XMPP connector

### Modules

- `XmppConnector`: state and actions.
- `XmppProperties`: types, invariants, action and liveness properties, the refinement mapping.
- `RequestReply`: the abstract specification.
- `Callers`: the tasks and bounds it has in common with `HttpConnector`.
- `MCXmpp`: values for TLC.
- `ConnectorProofs`: the proofs for both connectors.

### State and actions

| Model | Code |
|---|---|
| `pc[t]`, `call[t]` | where the coroutine of task `t` is suspended: queueing for `_request_lock`, in `connected_event.wait()`, or in `await shield(future)`; its arguments, `attempt` and `seq_no` |
| `fut[t]` | the future of its request: open, or what it was set to (`data` a body with an id, `anon` a body without, `true`, `empty`, `msg`, `denied`, `crypt`, `lost`) |
| `lockOwner`, `lockWaiters` | `asyncio.Lock`, which is FIFO |
| `pending`, `putLocks`, `count`, `lastTimeoutSeq`, `authSuccess`, `connectedEvent`, `disconnectEvent` | the attributes of the same names |
| `link`, `handler` | the slixmpp client: transport and stream stage, and a session event whose coroutine handler is scheduled but has not run |
| `unanswered` | requests the gateway may still answer; a request may also never be answered |
| `closer` | a `close()` that waits for `disconnect_event` |
| `by`, `about`, `calls`, `closes`, `result` | history for properties and bounds |

| Action | Code |
|---|---|
| `Start` | a call up to the request for the lock |
| `BeginConnect`, `SkipConnectWait`, `Rejected`, `ConnectTimeout` | xmpp.py:289-303 |
| `Transmit` | xmpp.py:305-321, up to the next await |
| `Resume`, `RequestTimeout` | the end of the wait, the `finally` clause, the verdict of `get()` and `put()` and a retry, in one step because nothing awaits in between |
| `CancelWaiting`, `CancelConnecting`, `CancelQueued` | the consumer cancels the task |
| `MainListener` | `main_listener` with `_match_response` |
| `AuthSuccess`, `AuthFailure`, `SessionStart`, `SessionEnd` | the event handlers |
| `TcpUp`, `SessionOpens`, `LinkLost` | slixmpp and the network |
| `CloseUnconnected`, `CloseConnected`, `CloseReturns`, `CloseTimeout` | `close()` |

### What is external, and assumed

- *The event loop.* A callback that is ready runs before the socket is read again
  (`NetReady`): slixmpp schedules coroutine handlers of session events as tasks, and
  a task woken by `connected_event` is in the ready queue.
- *slixmpp.* `connect()` on a client without a transport starts an attempt; the
  stages are open, authenticated, session. `session_end` follows a session that
  started; for an earlier stage both readings of the library are allowed.
  `send_message()` neither blocks nor raises, so `IqError` and `IqTimeout`, which only IQ stanzas
  raise, do not occur. The listener is registered by `session_start`; with
  `NetReady` this is before the first reply.
- *The gateway.* It answers a request at most once, at any time, in any order, or never, with any
  of `Kinds`; its Seq-No header is, reply by reply, one of `SeqStyles`: an echo, 0, or absent, the three
  behaviours `_match_response` distinguishes.
- *A payload id* is compared with `in`, a substring test: `IdIn` says which ids are
  substrings of which paths. It is reflexive, nothing more is assumed.

`_put_locks` never makes a task wait (theorem `PutLocksAreUncontended`), so `Transmit` is
one step; its guard would block if the lock were held.

### Runs

`xmpp_queue` uses symmetry in the tasks.

| Run | Question | Bounds |
|---|---|---|
| `xmpp_echo` | with an echoed Seq-No and replies of every kind, are requests answered by their own reply, is nobody stranded, and does every `get()`, `put()` and `close()` return, while replies are late, sessions end, tasks are cancelled and `close()` is called? | 2 tasks, 2 nested paths, 2 calls, 1 close, fair |
| `xmpp_queue` | with replies that carry Seq-No 0 or none: one request at a time; FIFO hand-over between the attempts of a failing GET; refinement of `RequestReply`; does a body with an id only resolve a request it fits, is a future set once? | 3 tasks, 2 nested paths, 3 calls, replies with data |

Two calls that each may be retried give up to four requests on the wire: a late
reply to a first attempt, to a timed-out call and to the pending one can all coexist. Three tasks are
needed for a queue of two, the least in which overtaking can happen. The link
may go down and up any number of times in every run.

### Fairness

`FairSpec` assumes that a task that can run does run, that timers fire (`asyncio.timeout`
of 10 s and 30 s) and that scheduled handlers run: the event loop's own promise.
Nothing is assumed of the network, the gateway, the consumer's calls or cancellations.
A task woken by `connected_event` may still lose to its timer, so timers and steps are
fair separately.

### Proofs

`ConnectorProofs` proves for every set of tasks, paths, kinds of replies, every
`IdIn` and `SeqStyles` and every bound:

- `TypeCorrect`: the type invariant.
- `Invariance`: `Inv`, the inductive invariant. `Serialised` alone is not inductive: that the one pending
  entry belongs to the task holding the lock needs `FutureUse` and `CallUse` (what an idle or queued task can still own),
  `SeqOrder` (numbers are fresh, so removing "the entry with my number" removes mine), and
  `PutLockUncontended` needs that the holder's own PUT is the only one.
- `RequestsAreSerialised`, `NobodyIsStranded`, `PutLocksAreUncontended`, `AnswersFit`: conjuncts of `Inv`.
- `LateReplyGuardIsIdle`: the test of xmpp.py:429 is never true.
- `FuturesAreSetOnce`, `PutsAreSentOnce`: action properties, from `Inv`.
- `TheQueueMovesUp`: when a request ends, the first of the queue is next and the others keep their order; a task stops waiting for its reply only
  by handing the lock on, and a `get()` that queues again comes last.
- `EchoedRepliesMatch`: with `SeqStyles = {"echo"}` a request is resolved by its own reply or the reply to request 0.
- `Refinement`: the connector implements `RequestReply`.

Only model-checked: `CallsReturn` and `CloseTerminates` (liveness).

## 4. The HTTP connector

`HttpConnector` (with its properties), `MCHttp`, theorems in `ConnectorProofs`. State: `owner` and `waiters` are
`_lock`, an `asyncio.Lock`; `phase[t]` says whether the coroutine of `t` queues for it or awaits the response; `answer` is what
has become of the request on the wire: a response, or the loss of it (the connection fails, the response breaks, `_request_timeout` of 10 s); `session` is the aiohttp session of the consumer.

| Action | Code |
|---|---|
| `Call` | `get`, `put` up to the lock (http.py:80-108) |
| `Send`, `SendClosed` | `_request` with an open session, and with one that `close(force=True)` closed |
| `Return` | `get_response` or an except clause of `_request`; the lock is released |
| `CancelCall` | the consumer cancels the task: queued, or in the request |
| `CloseSession` | `close(force=True)` |
| `Arrives` | external: a response or a loss (`Outcomes`) |

Run `http`, three tasks, one close, any number of calls: `HttpInv` (`LockSound`: whatever is cancelled or fails, the lock is free or held by a task in a
call, and everybody else in a call waits once), `HttpKeepsPromise` (one request per call, no retry) and, with a fair loop
and a request that ends, at the latest by its time-out of 10 s, `HttpReturns`. Which value or exception a response becomes is a table
(http.py:37-67) on which no state of the connector depends, and no property is about it: the code itself tells a broken response as a refusal, and a
refused PUT as a success (section 14). The callers' models take every such outcome as an input.
`ConnectorProofs` proves `LockIsSound` and `HttpRefinement` for every set of tasks. The type invariant
alone would not do for the refinement: that only the holder's request is on the wire is `LockSound`. Liveness is only model-checked.

## 5. Circuits

`SerialConnector` is a connector as its callers see it: calls queue, one is carried out at a time, the device
takes a write or not, answers or not, and a task whose call returns runs on until its next await.
`dev` is the device, `queue` the callers in the order of the lock, `ask` their requests, `reply` the outcome of the
first one that its task has not seen yet. `stale` holds the resources the library cannot know: changed by their owner, or written by
a request whose confirmation was lost. A GET that fails queues again, at most `MaxRetries` times; `refused` is a DeviceException,
`down` a DeviceConnectionError, `void` a PUT that returned a false result. It assumes that a refused
write raises, which holds over XMPP; over HTTP a refused PUT ends as a success (http.py:45), which `EntityCache` includes (`RefusedInSilence`).

`CircuitCache`: `cache` is the VALUE of each setpoint in `_data`, `opMode` the `OperationModeHelper`'s current mode, `state` is `_state`,
`job[t]` where the coroutine of `t` is.

| Action | Code |
|---|---|
| `Update`, `UpdateNext`, `UpdateFails` | `Circuit.update`, one step from await to await (circuit.py:290-327) |
| `SetTemperature`, `SetTemperatureDone` | easycontrol/base.py:64-90, nefit/base.py:70-97: the checks, the put, what is remembered |
| `SetMode`, `SetModeDone`, `RefreshDone` | `set_operation_mode`, `set_ha_mode`, `update_temp_after_ha_mode` (circuit.py:156-220) |
| `Cancelled` | the task is cancelled; a request on the wire may still be carried out |

It is a circuit of EasyControl, or of NEFIT without the override of heating.py, and the generic part of every
circuit. `_temp_setpoint` is evaluated where the code evaluates it, which matters: see section 14.

| Run | Question | Bounds |
|---|---|---|
| `circuit_modes` | is the mode shown the device's, unless somebody else changed it (`ModeKnown`); does every call return? | 2 tasks, 3 modes, 2 of them commanded, 1 retry, 1 change by the owner, fair |
| `circuit_setpoints` | the same for the temperatures while the mode stays (`SetpointsKnown`) | 2 tasks, 2 setpoints, 2 temperatures, 1 retry, 1 change by the owner |

Two tasks are enough for every pair of operations to overlap; each may call any number of times. One change by the owner at any moment
reaches all that a second one could: a key becomes stale until the next answer.

`CircuitProofs` (with the lemmas on the queue in `QueueProofs`): `ModeInvariance` and `ModeIsKnown` for any tasks, modes, temperatures and
bounds. `ModeKnown` is not inductive: a task must be in the queue exactly while it is busy, and once (`QueueUse`), wait
for the request of its operation (`JobUse`), and an answer that has arrived must be what the device still holds
(`ReplyUse`): no other request runs between an answer and the step that uses it. `SetpointsAreKnown`
is proved under `ModeFixed` (nobody commands or changes the mode), because without it the mode that another task sets during a put is a counterexample (section 14);
`FixedModeInv` adds that a write under way is that of the setpoint in use.

## 6. Schedules

`ScheduleCache` extends `SerialConnector`: a circuit of IVT gateways that takes its temperature from a weekly program.
`program` is the active program in `_data`; `active`, `mode`, `time`, `points`, `temps` and `found` are `_active_program`,
`_switchprogram_mode`, `_time`, `_switch_points`, `_setpoints_temp` and `_schedule_found`. Dates and bodies of programs are
values that `MinuteOf` and `SwitchPoints` translate, as `strptime` and the JSON parser do.

| Action | Code |
|---|---|
| `Update`, `UpdateDone`, `UpdateFails` | circuit.py:410-415; of the poll only the active program |
| `ModeDone`, `ClockDone`, `ProgramDone`, `LevelDone`, `LevelMissing`, `ScheduleFails` | the awaits of `update_schedule` one by one (schedule/__init__.py:89-190) |
| `SetPreset`, `PresetDone`, `Confirmed` | ivt/base.py:156-170 |
| `SetTemperature`, `SetTemperatureDone` | ivt/base.py:101-133 by way of the schedule |
| `ActivePoint` | `get_temp_in_schedule` (schedule/__init__.py:260-294): append now, stable sort, take the one before |

Without an answer to the date, the computer's clock is used: any date. The mode of a program (levels or temperatures) is
assumed not to change on the device (`ModeAssumption`): if it did, `get_temp_in_schedule` could meet switch points whose levels were never fetched.

Run `schedule`: two tasks, two programs of three and two switch points in a week of six minutes: out of order, two at the minute of the
date, and a program none of whose points has been reached, so that the week wraps around. One date (the state space is five times
larger with two; the proof covers all); levels on, off and high, so that both special cases of a missing level occur, at 20 degrees at first (`ColdSpec`), and a consumer that asks for 22; requests that fail anywhere.
No retry (a retry only delays) and no change by the owner. The history variable `stale`, which nothing in this run reads, is projected away with a VIEW.
It shows `LevelsKnown`, `ActiveIsLatest` and `ScheduleReturns`.

`ScheduleProofs` proves `ScheduleInvariance`, `LevelsAreKnown` and `ActivePointIsLatest` for any number of tasks, programs, levels and
switch points. `LevelsKnown` needs that the levels before the one being fetched are known
(`FetchedSoFar`), in every task at once, and that `mode` never becomes "levels" later (`ModeOnce`): from the assumption on the mode, and because
the databases that ask for it default to levels (`DefaultAssumption`). That a sort has a last element rests on the well-foundedness of the naturals.

Left out: the `currentSetpoint` indirection of CAN gateways, modes that are levels themselves (RC35 manual), the first of `switchPrograms` as
active program, and `set_temperature` when no schedule was found.

## 7. Identification and discovery

`GatewayDiscovery`, `DiscoveryProperties`, `MCDiscovery`, `DiscoveryProofs`: one gateway object from its first
`check_connection()` on. A step is what happens between two requests; `at` says which request the task awaits
(`Wanted`), and each `...Answered(st)` is everything the code does with its result: an answer, `refused` (a DeviceException) or
`down` (a DeviceConnectionError).

| Model | Code |
|---|---|
| `present` | what the device has; chosen at first and never read by the code's branches, only by the answers and the properties |
| `info`, `bus`, `initialized` | which keys `_data[GATEWAY]` holds, `_bus_type`, `_initialized` |
| `circuits`, `sensors`, `switches`, `bases` | the items of `_data[hc]` and so on, of `_data[SENSORS]` (the crawled ones), of `_data[SWITCHES]`, and `Switches._bases` |
| `todo`, `found` | the calls of `crawl()` on the stack, the next one first, and its list |
| `draft` | the circuit object whose `initialize()` runs |
| `supported` | the list of that name in `get_capabilities`, as a set |
| `outcome`, `met`, `ended`, `refused` | history: how the call ended, what failed in it, how each `initialize_circuits` ended, whether the device refused it something that it has |

| Action | Code |
|---|---|
| `CheckConnection`, `InfoAnswered`, `Identify`, `UuidAnswered` | `check_connection`, `initialize`, `_update_info` and `get_device_model` of the three classes (gateway/base.py:79-101, 337-350; ivt.py, nefit.py, easycontrol.py) |
| `GetCapabilities`, `NextType` | the loop of `get_capabilities` with its `except` (gateway/base.py:246-259) |
| `CircuitsAnswered`, `Create`, `CreateAnswered` | `Circuits.initialize` with its strict crawl, `create_circuit` and the three kinds of `initialize()` of circuits (`StyleOf`) |
| `StartSensors`, `SensorsAnswered` | `initialize_sensors`, `Sensors.initialize` with its lenient crawl |
| `StartSwitches`, `BaseAnswered`, `ProbeAnswered`, `Finish` | `initialize_switches`, `Switches.initialize`, the end of `get_capabilities` |
| `Cancelled` | the consumer cancels; an exception that nothing here catches (a rejected login) ends the call the same way |

The database, the resources of the device and its references are constants, so that the theorems hold for all of
them. The device may refuse now and then what it has (a gateway that is busy answers 403 or 5xx); it does not change while it
is asked. Discovery by two tasks at once is not modelled: no consumer does it.

| Run | Question | Bounds |
|---|---|---|
| `discovery` | is no failed connection taken for a missing circuit (`CircuitsNotMissing`) or an unknown device (`IdentityNotMissing`); does a discovery without failures find exactly what the device has, whatever earlier ones left (`CleanDiscovery`); does every call return? | 3 gateway classes, 5 of 29 resources optional, any number of calls, fair |
| `discovery_down` | the disagreement of section 14 | the same |

The instance has one case of each kind: two circuits of which the second is inactive, a zone, a device list with a leaf in it, a crawl two
levels deep with an exclusion, a base shared by two switch entries that have a probe in common, a plain switch. Nothing counts calls:
the state is finite because discovery makes its objects anew, which is what `CleanDiscovery` is about. The optional resources
are one of each role: what identifies, the firmware, a circuit's status, a base, a device's status.
Fairness: a request ends (`WF_vars(Answered)`), which `CallsReturn` and `HttpReturns` show of the connectors.

`DiscoveryProofs`: `DiscoveryInvariance`, `CircuitsAreNotMissing`, `IdentityIsNotMissing`, `DiscoveryIsClean`. `CircuitsNotMissing` speaks of the end of
`initialize_circuits()`; it becomes inductive with `CircuitsInv`: until then, every circuit the device has is still to be met
(`Awaited`) as the directory, as a child on the stack, in the list of `crawl()`, in the rest of the list to create, or it is listed. A connection that fails in any
of these places ends the type as failed, and that is what the strict flag of `crawl()` and `update_requested_key()` is for.
`IdentityNotMissing` needs that an IVT gateway that met a failed connection has stopped asking (`CallInv`). `DiscoveryReturns` is only model-checked.

`DiscoveryIsClean` proves `CleanDiscovery` for every device, tree and database. What a call finds is stated without the order in which it asks:
the list of a type has just the circuits of its directory that the device has, in their order, each once (`ListsExactly`); the sensors are
the names of the leaves below the crawl roots (`Leaves`, a function of the depth and the key); the switches are those of the entries' probes up
to the first that the device lacks. `CleanDiscovery` speaks of the last step of a call only. `CleanInv` says what every step before
it has done, as long as nothing failed: the types behind it and what they add to the capabilities (`TypesSoFar`); of the
type at hand the references behind the crawl and those before it (`CrawlSoFar`), or the circuits made so far and the draft of
the next one (`CreateSoFar`); the sensors found, together with all that is still to be found below the stack of the crawl and below
the roots to come (`SensorsSoFar`); the entries behind (`SwitchesSoFar`). Nothing is assumed of what earlier calls left: a call that starts
establishes all of it by itself, because each list is made anew before it is filled. That is the point of the property, and a call that fails, or is
cancelled, needs no care. `Leaves` is unfolded by its definition (`LeavesUnfold`); that there is such a function is shown by the least
depth for which there would be none, so no induction theorem with an operator is needed. TLC finds `CleanInv` to hold on the instance of
`discovery`, where it can be added to the invariants.

## 8. Overrides and zones

`OverrideCircuit`, `OverrideProperties`, `MCOverride`, theorems in `EntityProofs`: NEFIT heating circuits and EasyControl zones. What a device aims at
(`Effective`) depends on its mode, its own schedule and an override, and `target_temperature` shows that resource or the
manual one. In clock mode `set_temperature()` of a NEFIT circuit takes two puts, the temperature of the override and its switch.

| Action | Code |
|---|---|
| `StartPoll`, `ListDone`, `PollNext`, `PollFails`, `TimePasses` | `Circuit.update`; a zone first reads the list of programs, once in ten minutes (zone.py, easycontrol_programs.py:16-25) |
| `SetTemperature`, `OverrideDone`, `TemperatureDone` | easycontrol/base.py:64-90, nefit/heating.py:18-33 |
| `SetMode`, `ModeDone` | `set_operation_mode`, with the mode that is fixed when it is not used (operation_mode/easycontrol.py); `set_ha_mode`, whose `update_temp_after_ha_mode` may ask for the temperature (circuit.py:203-206), and a command before the first poll are in `CircuitCache` alone |
| `SetPreset`, `PresetDone`, `ActiveDone` | `set_preset_mode` of a zone: the put, then the program again |
| `TargetAnswered`, `DeviceAnswers`, `SomebodyElse`, `GivenUp` | external: the device computes the target; owner; cancellation |

Run `override`: two tasks, one change by the owner of the mode or of the list, no retry, one temperature to set and one program to choose. `Sites` are three
circuits: a NEFIT circuit on which both tasks do everything, a zone that one task polls while another sets temperature and mode, and a zone that one task polls while another chooses a program. `fixed` names the
resources that do not vary at a site, and the list is read again only where it varies. The bounds keep every pair of operations; two setters of a zone at once
are left to section 5, whose code they share.

It shows `KnownShown` (what is shown is what the device has or aims at, unless it could not be known), `TargetReached` (a
temperature that was set is the one the device aims at, although other tasks get requests through between the two puts), `ProgramsKnown` (no program of the
list is missing) and `OverrideInv`, the inductive invariant.

`EntityProofs` proves all four (`OverrideInvariance`, `KnownIsShown`, `TargetIsReached`, `ProgramsAreKnown`) for any number of tasks, temperatures,
modes, programs and kinds of sites. `KnownShown` alone says nothing of the two puts of an override. `OverrideInv` adds: who is in the queue waits for the
request of its call, and which of the two puts that is (`WorkUse`); an answer on its way is what the device still has (`AnswerUse`); the mode
known, or about to be, is the device's (`ModeUse`); and a command that met no change still has the mode it chose its resource by, with what it has written in force
(`CommandUse`), which is `TargetReached` when it returns. Other tasks do get requests through between the two puts, so each part is shown for all tasks at once.

## 9. Sensors, switches, numbers, selects

`EntityCache`, `EntityProperties`, `MCEntity`, `EntityProofs`: every entity with one resource. `class[e]` is its Python class, `shown[e]` the VALUE in its RESULT, `good[e]` is
`_state`. An answer may have no body or be an empty object (`AnsweredNothing`: the one raises a TypeError in `update()`, the other counts as a success that changes nothing), and over HTTP a refused PUT looks like a success (`RefusedInSilence`).

| Action | Code |
|---|---|
| `Update`, `UpdateDone`, `UpdateFailed` | `BoschSingleEntity.update` (helper.py:311-333), `Sensor.update`, `CrawlSensor.update`, `process_results` of each class of notifications (`Reading`, `Message`, `Title`) |
| `SetValue`, `Turn`, `TurnBinary`, `CommandDone` | number.py:47-52, select.py:27-32, switch.py:56-69, boolean.py:11-28 |
| `Cancelled` | the task is cancelled; a request on the wire may still be carried out |

`wanted[e]` is a history variable: who gave the last command to an entity and with which value, until that command fails or is cancelled or
somebody else changes the value.

Run `entities`: two tasks and two entities of different classes, five devices that have every class between them, two values, one retry, one change by the owner, any number of calls, symmetry in the tasks. Two
commands to one entity, or a command and a poll, are all that can race for a value; the proof covers more. `EntityProofs` also holds the theorems of section 8.

- `ShownKnown`: an entity shows what the device has, unless somebody else has changed it since.
- `LastCommandWins`: when no command to an entity is on its way any more, the device has the value of the last one and the entity shows it. Not so for a `BinarySwitch`
  that is commanded while an earlier command is on its way: it compares with what it still shows and sends nothing (boolean.py:18-23).

`EntityProofs` proves both for any number of tasks, entities, values and devices. `ShownKnown` rests on the same argument as `ModeKnown`. `LastCommandWins` needs to know that commands take effect in the order they were given,
while they wait in a queue whose members may give up at any place and whose polls start over at the end:
`WishUse` says that of the commands to an entity that have not returned the wanted one comes last (`Before`), that the device has its value once it was carried out, and that
with none left an answer on its way brings that value, too.

## 10. Recordings and energy history

`HistorySensors`, `HistoryProperties`, `MCHistory`, `HistoryProofs`. Time is counted in hours; the device records hours and stores a row for each day, `PageSize` of them to a page, the newest page being the pointer of the resource. `past`
is `_past_data`, which calls share and keep; `queue` is `_lock`; `call[t]` holds where `fetch_range`, `fetch_all` or `update` of a task is.

There are two clocks. The device's is `now`, and the ranges of `fetch_range` are in its hours. A caller of `update()` is `ahead` of it: by 0 hours if it passes the device's time, by
some other number if it leaves the time to the default, which is UTC (recording.py:123). The `today` of `fetch_range` is the host's. Both are taken from `Offsets`.

| Action | Code |
|---|---|
| `FetchRange`, `FetchAll`, `Locked`, `GotRows`, `GotDay`, `GotNothing`, `FetchRaises` | recording.py:75-110, ecus_recording.py:67-80, energy.py:71-164, one step per request; an answer may come without rows, or without recordings (recording.py:91) |
| `Update`, `GotPointer`, `GotUpdate`, `NoUpdate`, `UpdateSwallows`, `UpdateRaises` | `update()` of the three classes; `Record` empties the value for an answer of another day (recording.py:54-58) |
| `NoPointer` | no new page number. For an answer without a value the ECUS sensor divides the number it knows once more, so that it shrinks (ecus_recording.py:93-95) |
| `ClearPastData` | `clear_past_data`, which in the ECUS sensor makes a list of the dictionary |
| `Tick`, `StoreRow` | external: an hour passes, the device stores the row of a day |

Run `history`: two tasks, days of two hours, pages of two rows, three ranges (within a day, over a midnight, into the future), a caller whose clock is the device's or an hour behind. `Span` bounds the time for each class of sensor: over a midnight
for recordings and the energy history, and the last hour of day 2 and the first of day 3 for an ECUS, so that there may be a third row, on a second page whose number can shrink. One midnight and one rollover are all that a
call can meet: it takes seconds.

- `RangeExact`: a range of a recording holds its own hours and no others, and all that were recorded when it was asked for, but those of a day answered without recordings and the last hours of a range that ends at an earlier hour than it begins.
- `FetchComplete`: a fetch that every page answered returns every row that was in reach when it was called; `fetch_all`, those that were in reach still when it took the lock: what a shrinking page number puts out of reach while it waits, it misses.
- `UpdateFinds`: an update leaves the newest record, also on the day a page rolls over and in the first hour of a day, if both clocks have the hour to be found on the same day. When they do not, it is missed until they do: that is what the default does between midnight in UTC and at the device.
- `RecordAdvances`: the record never goes back to an earlier day, whatever the answer is about and however late it comes. An answer of another day than the one asked for empties the value; without that check (`Record_AnyDay`) the record would be of the wrong day.
- `HistoryInv`: the inductive invariant.
- `FetchReturns`, with a gateway that answers: only `fetch_range` of a recording, once a day came back empty, does not end (section 14).

`HistoryProofs` proves the five safety properties for any number of tasks, hours, days, ranges, clocks and rows to a page (`HistoryInvariance`, `RangeIsExact`,
`FetchIsComplete`, `UpdatesFind`, `RecordsAdvance`). That `past` is shared is why the properties of what a call returns are not inductive. `HistoryInv` has the types and:

- `LockUse`: a call between its first request and its return is the head of the queue, every other one waits behind it, once.
- `DeviceUse`: a row is of a day that is over, and the page number that is known is not beyond the pointer.
- `FetchUse`: what a call still looks for. `HoursFit`: while a range of a recording is read, `past` has hours of that range alone, and all those of the days behind
  the loop that were answered. `RowsFit`: a row that was in reach is in `past` or on a page still to be asked for, as long as nobody clears `past`; a row stored meanwhile
  moves to no other page, because pages are counted from the oldest, and a page number that shrinks meanwhile takes no page from a loop that has begun.

An update reads no more than the newest two pages. That this is enough rests on time: an update takes seconds, and a page has as many rows as days, so `UpdateFinds` is
stated for updates that do not take as many midnights as a page has rows (`InTime`); a page of an ECUS has 32 (ecus_recording.py:103). `UpdateUse` adds the
rest: rows are stored in the order of their days (`RowsInOrder`), and what an update should find is in the record or on a page it has still to ask for
(`UpdateFits`). `RecordAdvances` needs `RecordUse`: a record is of one day, which is none after the day that the update under way, or the next one, asks for. It is stated for a caller that
keeps to one clock. `FetchReturns` is liveness and stays with TLC.

Rows and hours are what the device sends well formed: a row without its fields, or a day of 23 or 25 hours, is not modelled.

## 11. The command line

`CommandLine`, `CommandLineProperties`, `MCCommandLine`, `CommandLineProofs`: `bosch_cli scan`, `query` and `put`, a process for each command. `todo`, `list` and `results` are the open calls of
`deep_into()`, their common list and `rawlist`; `file` and `shown` what this process has written and printed; `log` its requests, for the properties.

| Action | Code |
|---|---|
| `Run`, `Begin`, `Checked` | bosch_cli.py up to the first request, `check_connection()` as the outcomes `GatewayDiscovery` gives it |
| `ResourceAnswered`, `PageAnswered`, `IntervalAnswered` | `deep_into` (helper.py) with the page of an energy history and the intervals of a recording |
| `QueryAnswered`, `Slept`, `PutAnswered`, `PutResult` | `raw_query`, `raw_put` |
| `Write`, `Written` | the end of `_scan`: the result is printed, or `open(out_file, "w")` empties the file, or raises; then `json.dump` writes it bit by bit, and may raise in between (bosch_cli.py:88-94) |
| `Fails`, `Closed` | an exception, the `finally` clause |
| `Interrupt` | Ctrl-C: the first one cancels what is awaited, and is put off while nothing is, as when the file is written; the second one raises KeyboardInterrupt there; one while the gateway is being closed ends the process (`asyncio.run` since Python 3.11) |
| `Dies` | a signal that cannot be caught, at any point |

`disk` is the output file: as this process found it (`kept`), a part of its result, or the whole.

Masking, a device or protocol that does not exist, and option parsing are left out.

Run `command`: a device with two roots, a history, a recording with three intervals, and a leaf that two resources refer to; scans of three and of two targets, small scans with and
without `--ignore-unknown`, a query with a path that is asked for twice, a put; each request ends in each of five ways, opening and writing the file may fail, and at any point the user may interrupt, twice too, and the process may be killed. The tree is the least with siblings left on the stack when a branch fails.

`ScanComplete` (a scan that was written holds everything the device answered, and asked for every reference of it), `SessionClosed` (unless the process was killed, or interrupted while closing), `FileSafe`, `QueryExact` and, as every request ends, `CommandEnds`.

`FileSafe` says what `_scan` keeps of the file of an earlier scan: it is touched only when all targets are done, for a result that misses nothing the device answered, and a scan that ends
normally has written all of it. So a failure, wrong credentials or Ctrl-C in the minutes that the requests take leave it as it was. It does not say that the file is never half
a file, because it may be: `open()` empties it first, and a full disk, a second Ctrl-C or a kill while `json.dump` writes leave a part of the new result and nothing of the old one. A scan
that is saved in place of the earlier one although it failed (`Fails_Saves`) violates it.

`CommandLineProofs` proves the first four for every device and every set of commands. `ScanComplete` is inductive with `ScanSoFar`:
an answer is in the list, or waits for its page or its intervals, and a reference was asked for or is in `todo`. `QueryExact` compares the requests and answers
of the log with the list asked for, by position (`Answers`), and is inductive as `QuerySoFar`, for the part of the list already asked for.

## 12. Fairness

`FairSpec` of each module assumes that a task that can run does run, that timers fire (`asyncio.timeout`
of 10 s and 30 s over XMPP, aiohttp's total time-out) and that scheduled handlers run: the event loop's own promise.
Nothing is assumed of the network, the gateway, the consumer's calls or cancellations. In `XmppConnector`
a task woken by `connected_event` may still lose to its timer, so timers and steps are
fair separately. Circuits, schedules, recordings and the command line assume that a request on the wire ends, which is what `CallsReturn` and `HttpReturns` show of the connectors.

## 13. Not proved, not modelled

Liveness is only model-checked; every other property of the passing runs is a theorem. All theorems rest on the
named assumptions on constants, which TLC evaluates in every run.

- Encryption: what it raises is an input of the connector models.
- The device database, error code tables, constants: static data, which the models take as constants.
- Examples; option parsing and printing of the CLI.
- `custom_initialize()`, the value checks of `DeviceClassEntity`, the extra hot water of DHW circuits, the renamed modes of the NEFIT DHW circuit.
- Two gateways at once: they share nothing.

## 14. Where the code and its documentation disagree

- `discovery_down`: tests/test_startup_connection.py:1 says that transport failures must not look like missing capabilities; `get_capabilities`
  catches the DeviceConnectionError of `initialize_circuits` with the DeviceException, and leaves the type out (gateway/base.py:255). The run's one property states this and is violated.

Seen in the code while modelling, without a run. Connectors:

- xmpp.py:427-428 says a request that gave up cannot be answered by a ghost; the guard compares
  the pending request, which is always newer (theorem `LateReplyGuardIsIdle`), so the late reply to request 0 confirms another task's PUT.
- `_count` restarts at 0 with the process, and an exact Seq-No does not look at the path: a reply to the previous process may fit (xmpp.py:103).
- A GET interrupted by `close()` is retried and connects again (xmpp.py:131, 226).
- A rejected login leaves `connected_event` set; the next request is refused without waiting for the server's answer, though xmpp.py:187 says otherwise (xmpp.py:114).
- `disconnect_event` is never cleared, so a second `close()` does not wait (xmpp.py:190).
- A reply that decrypts to no JSON makes its request end as a time-out, a DeviceConnectionError, though the gateway did answer (xmpp.py:474, exceptions.py:37).
- A PUT that is answered with 4xx or 5xx and a body ends as a success over HTTP (http.py:45). A truncated body ends as DeviceException, not DeviceConnectionError (http.py:64, exceptions.py:22); EncryptionException leaves the HTTP connector unmapped.

Gateways, circuits, schedules:

- NEFIT and EasyControl gateways swallow a failed connection while they identify a device, and call it unknown (nefit.py:83, easycontrol.py:88); sensors and switches that a failed connection hides are missing without an error (helper.py:130, switches/__init__.py:114).
- `set_temperature` evaluates `_temp_setpoint` before and after its put; if another task changes the mode in between, the temperature
  is remembered for the wrong setpoint and shown until the next poll (easycontrol/base.py:72, 80).
- Before the first update `set_operation_mode` puts to the path False (circuit.py:162).
- `update_temp_after_ha_mode` of a NEFIT circuit never fetches; the second put of an override that fails leaves the first one in force (nefit/heating.py:27).
- After an override the temperature a zone shows lags behind until the next poll, and setting back the one still shown is refused. A failing program list ends the poll of a zone; removed programs stay; of two programs of one name the first is chosen. `get_activeswitchprogram` of a zone reads `_program_list`, which nothing defines (zone.py:103).
- The mode that a NEFIT DHW circuit shows is not one of those it can be set to.
- `update_schedule` sets the active program before its first await and the switch points after its last (schedule/__init__.py:97). When level "on" is missing, "high" is fetched and dropped (schedule/__init__.py:157-166).

Sensors and the command line:

- `CrawlSensor` and the recording, ECUS and energy sensors swallow a failed connection in `update()`, which tests/test_connection_error_contract.py:105 has every polled object raise.
- `fetch_range` of a recording asks again and again for a day that comes back empty, holding the lock (recording.py:90). A pagination answer without a value has the ECUS sensor divide its page number by 32 (ecus_recording.py:93), and until the next good one fetches and updates look at too few pages. Around midnight the UTC default of a recording's `update()` asks for another day than the device is on (recording.py:123). `clear_past_data` of the ECUS sensor makes a list of a dictionary, and every later `fetch_all` raises. The row of today is kept as if it were final (energy.py:127).
- The file of an earlier scan is emptied before the new result is written, so that a failure in between leaves neither (bosch_cli.py:91).
- A 200 without a body ends a scan with a TypeError; a refused page of the energy history takes the resource out of the scan; `put` logs success when `raw_put` swallowed a refusal; `--ignore-unknown` with a small scan fails; Ctrl-C during `close()` ends the process without it.
