--------------------------- MODULE GatewayDiscovery ---------------------------
(***************************************************************************)
(* check_connection() and get_capabilities() of a gateway: what the library *)
(* takes a device for, and which circuits, sensors and switches it finds,  *)
(* one request after the other.  Every request may be refused or find the  *)
(* gateway unreachable, the consumer may cancel, and calls again.          *)
(***************************************************************************)
EXTENDS Integers, Sequences

CONSTANTS
  Keys, NoKey,  \* the resources a device may have
  Optional,     \* those it need not have
  Directories,  \* those that answer with references
  Refs,         \* which ones
  Info,         \* the resources of _update_info, in their order
  UuidKey, BusKey, IdKey, FirmwareKey, \* those that are looked at
  OnCan,        \* whether the bus is CAN
  Gateways,     \* the gateway classes
  Types,        \* the circuit types in the databases
  TypesOf,      \* those of a gateway class, as indices; in this order
  DirectoryOf,  \* the directory of each
  StyleOf,      \* how their circuits are initialised
  StatusOf, NameOf, SwitchesOf, \* resources of a circuit
  Inactive,     \* circuits whose status says that they are no circuits
  CrawlRoots,   \* the crawlSensors of the database
  SensorName,   \* the last part of a path
  Entries,      \* the switches of the database
  Numbers, Selects \* the switches of these types

Kinds == {"IVT", "NEFIT", "EASYCONTROL"}
Styles == {"strict", "zone", "device"}
All == 1..Len(Types)

ASSUME KeyAssumption ==
  /\ NoKey \notin Keys /\ Optional \subseteq Keys /\ Directories \subseteq Keys
  /\ Refs \in [Directories -> Seq(Keys)]
  /\ Info \in Seq(Keys) /\ Info # << >>
  /\ {UuidKey, BusKey, IdKey, FirmwareKey} \subseteq Keys
  /\ OnCan \in BOOLEAN /\ Gateways \subseteq Kinds

ASSUME CircuitAssumption ==
  /\ Types \in Seq(STRING) /\ TypesOf \in [Gateways -> (SUBSET All) \ {{}}]
  /\ DirectoryOf \in [All -> Directories] /\ StyleOf \in [All -> Styles]
  /\ StatusOf \in [Directories -> Keys] /\ NameOf \in [Directories -> Keys]
  /\ SwitchesOf \in [Directories -> Seq(Keys)]

ASSUME DatabaseAssumption ==
  /\ CrawlRoots \in Seq([key : Keys, deep : Nat, exclude : SUBSET Keys])
  /\ SensorName \in [Keys -> STRING]
  /\ Entries \in Seq([base : Keys \cup {NoKey}, probes : Seq(Keys)])
  /\ \A e \in 1..Len(Entries) : Entries[e].base = NoKey => Entries[e].probes # << >>
  /\ Numbers \cup Selects \subseteq Keys

VARIABLES
  present,     \* what this device has
  gateway,     \* the class of the gateway
  info,        \* what _data[GATEWAY] holds
  bus,         \* _bus_type
  initialized, \* _initialized
  circuits,    \* _data of each circuit type
  sensors,     \* the crawled ones of _data[SENSORS]
  switches,    \* _data[SWITCHES]
  bases,       \* Switches._bases
  supported,   \* what get_capabilities() has so far
  at,          \* which request the task awaits
  todo, found, \* what crawl() has before it, and its list
  draft,       \* the circuit that is being initialised
  outcome,     \* how the last call ended
  met,         \* failures of this call, apart from resources the device does not have
  ended,       \* how initialize_circuits() ended, for each type
  refused      \* whether the device refused it a circuit that it has

device == <<present, gateway>>
identity == <<info, bus, initialized>>
entities == <<circuits, sensors, switches, bases>>
progress == <<supported, todo, found, draft, ended, refused>>
vars == <<device, identity, entities, progress, at, outcome, met>>

NoDraft == [status |-> FALSE, name |-> FALSE, switches |-> {}]
Await(phase, n, j, p) == [phase |-> phase, n |-> n, j |-> j, p |-> p]
Nowhere == Await("idle", 0, 0, 0)

Init ==
  /\ present \in {Keys \ S : S \in SUBSET Optional} /\ gateway \in Gateways
  /\ info = {} /\ bus = "none" /\ initialized = FALSE
  /\ circuits = [n \in All |-> << >>] /\ sensors = {} /\ switches = {} /\ bases = {}
  /\ supported = {} /\ todo = << >> /\ found = << >> /\ draft = NoDraft
  /\ ended = [n \in All |-> "none"] /\ refused = [n \in All |-> FALSE]
  /\ at = Nowhere /\ outcome = "none" /\ met = {}

Least(S) == CHOOSE i \in S : \A j \in S : i <= j
First == Least(TypesOf[gateway])

Call == outcome' = "none" /\ met' = {}
Return(how) == at' = Nowhere /\ outcome' = how
GoOn(place) == at' = place /\ UNCHANGED outcome

\* Requests(c) of a circuit type, in the order of initialize().
Requests(n, c) ==
  CASE StyleOf[n] = "strict" -> <<StatusOf[c]>> \o SwitchesOf[c]
    [] StyleOf[n] = "zone" -> <<StatusOf[c], NameOf[c]>>
    [] OTHER -> <<StatusOf[c], NameOf[c]>> \o SwitchesOf[c]

Wanted ==
  CASE at.phase = "info" -> Info[at.n]
    [] at.phase = "uuid" -> UuidKey
    [] at.phase \in {"circuits", "sensors"} -> Head(todo).key
    [] at.phase = "create" -> Requests(at.n, found[at.j])[at.p]
    [] at.phase = "base" -> Entries[at.j].base
    [] at.phase = "probe" -> Entries[at.j].probes[at.p]

\* The device refuses what it does not have, and now and then what it has.
Answer(phase, st) ==
  /\ at.phase = phase
  /\ st = "ok" => Wanted \in present
  /\ met' = IF st = "ok" \/ (st = "refused" /\ Wanted \notin present) THEN met
                                                                     ELSE met \cup {st}
  /\ UNCHANGED device

-----------------------------------------------------------------------------
(* check_connection() and initialize()                                     *)

CheckConnection ==
  /\ at = Nowhere /\ Call
  /\ at' = IF initialized THEN Await("uuid", 0, 0, 0) ELSE Await("info", 1, 0, 0)
  /\ UNCHANGED <<device, identity, entities, progress>>

BusFound(known) ==
  CASE gateway = "IVT" -> IF OnCan /\ BusKey \in known THEN "CAN" ELSE "EMS"
    [] gateway = "NEFIT" -> "EMS"
    [] gateway = "EASYCONTROL" -> IF BusKey \in known THEN "EMS" ELSE bus

ModelFound(known) ==
  CASE gateway = "IVT" -> BusFound(known) = "CAN" \/ IdKey \in known
    [] gateway = "NEFIT" -> IdKey \in known
    [] gateway = "EASYCONTROL" -> BusFound(known) = "EMS" /\ IdKey \in known

Identify(known) ==
  /\ bus' = BusFound(known)
  /\ initialized' = (ModelFound(known) /\ FirmwareKey \in known)
  /\ Return(IF ~ModelFound(known) THEN "unknown"
            ELSE IF FirmwareKey \notin known THEN "firmware" ELSE "known")

Learned(st) == info \cup {k \in {Wanted} : st = "ok"}

InfoAnswered_Swallows(st) ==
  /\ Answer("info", st) /\ info' = Learned(st)
  /\ IF at.n < Len(Info)
       THEN GoOn(Await("info", at.n + 1, 0, 0)) /\ UNCHANGED <<bus, initialized>>
       ELSE Identify(info')
  /\ UNCHANGED <<entities, progress>>

\* Only IVT gateways tell that the gateway is unreachable.
InfoAnswered(st) ==
  /\ Answer("info", st) /\ info' = Learned(st)
  /\ IF st = "down" /\ gateway = "IVT" THEN Return("down") /\ UNCHANGED <<bus, initialized>>
     ELSE IF at.n < Len(Info)
       THEN GoOn(Await("info", at.n + 1, 0, 0)) /\ UNCHANGED <<bus, initialized>>
       ELSE Identify(info')
  /\ UNCHANGED <<entities, progress>>

UuidAnswered(st) ==
  /\ Answer("uuid", st) /\ info' = Learned(st)
  /\ Return(IF st = "down" THEN "down" ELSE "known")
  /\ UNCHANGED <<bus, initialized, entities, progress>>

-----------------------------------------------------------------------------
(* crawl()                                                                 *)

Opens(step) == step.key \in Directories /\ step.deep > 0

Below(step) ==
  [i \in 1..Len(Refs[step.key]) |-> [key |-> Refs[step.key][i], deep |-> step.deep - 1]]

Left(st) ==
  IF st = "ok" /\ Opens(Head(todo)) THEN Below(Head(todo)) \o Tail(todo) ELSE Tail(todo)

Got(st, exclude) ==
  IF st = "ok" /\ ~Opens(Head(todo)) /\ Wanted \notin exclude THEN Append(found, Wanted)
                                                             ELSE found

Crawl(key, deep) == <<[key |-> key, deep |-> deep]>>

-----------------------------------------------------------------------------
(* The switches of the gateway, the last of get_capabilities().            *)

Finish(root, list) ==
  /\ supported' = list \cup {"switch", "sensor"}
                    \cup {c \in {"number"} : root \cap Numbers # {}}
                    \cup {c \in {"select"} : root \cap Selects # {}}
  /\ Return("capabilities")

\* The first entry from e on that needs a request.
NextEntry(e, fetched, root, list) ==
  LET asks == {j \in e..Len(Entries) : Entries[j].base \notin fetched \/ Entries[j].probes # << >>} IN
  IF asks = {} THEN Finish(root, list)
  ELSE LET j == Least(asks) IN
       /\ GoOn(IF Entries[j].base \in fetched \cup {NoKey} THEN Await("probe", 0, j, 1)
                                                           ELSE Await("base", 0, j, 0))
       /\ supported' = list

BaseAnswered_Restarts(st) ==
  /\ Answer("base", st)
  /\ bases' = bases \cup {k \in {Wanted} : st = "ok"}
  /\ IF st = "ok" /\ Entries[at.j].probes # << >>
       THEN GoOn(Await("probe", 0, at.j, 1)) /\ UNCHANGED supported
       ELSE NextEntry(IF st = "down" THEN 1 ELSE at.j + 1, bases', switches, supported)
  /\ UNCHANGED <<identity, circuits, sensors, switches, todo, found, draft, ended, refused>>

\* The second entry of a base does not ask for it again; one that failed is.
BaseAnswered(st) ==
  /\ Answer("base", st)
  /\ bases' = bases \cup {k \in {Wanted} : st = "ok"}
  /\ IF st = "ok" /\ Entries[at.j].probes # << >>
       THEN GoOn(Await("probe", 0, at.j, 1)) /\ UNCHANGED supported
       ELSE NextEntry(at.j + 1, bases', switches, supported)
  /\ UNCHANGED <<identity, circuits, sensors, switches, todo, found, draft, ended, refused>>

\* A probe that fails ends its entry.
ProbeAnswered(st) ==
  /\ Answer("probe", st)
  /\ switches' = switches \cup {k \in {Wanted} : st = "ok"}
  /\ IF st = "ok" /\ at.p < Len(Entries[at.j].probes)
       THEN GoOn(Await("probe", 0, at.j, at.p + 1)) /\ UNCHANGED supported
       ELSE NextEntry(at.j + 1, bases, switches', supported)
  /\ UNCHANGED <<identity, circuits, sensors, bases, todo, found, draft, ended, refused>>

-----------------------------------------------------------------------------
(* initialize_sensors()                                                    *)

\* Both objects are made anew.
StartSwitches(list) == switches' = {} /\ bases' = {} /\ NextEntry(1, {}, {}, list)

StartSensors(list) ==
  /\ sensors' = {} /\ found' = << >>
  /\ IF CrawlRoots = << >> THEN todo' = << >> /\ StartSwitches(list)
     ELSE /\ todo' = Crawl(CrawlRoots[1].key, CrawlRoots[1].deep) /\ supported' = list
          /\ GoOn(Await("sensors", 1, 0, 0)) /\ UNCHANGED <<switches, bases>>

SensorsAnswered(st) ==
  LET list == Got(st, CrawlRoots[at.n].exclude) IN
  /\ Answer("sensors", st)
  /\ IF Left(st) # << >>
       THEN /\ todo' = Left(st) /\ found' = list /\ GoOn(at)
            /\ UNCHANGED <<sensors, supported, switches, bases>>
     ELSE IF at.n < Len(CrawlRoots)
       THEN /\ todo' = Crawl(CrawlRoots[at.n + 1].key, CrawlRoots[at.n + 1].deep)
            /\ found' = list /\ GoOn(Await("sensors", at.n + 1, 0, 0))
            /\ UNCHANGED <<sensors, supported, switches, bases>>
       ELSE /\ sensors' = {SensorName[list[i]] : i \in 1..Len(list)}
            /\ todo' = << >> /\ found' = << >> /\ StartSwitches(supported)
  /\ UNCHANGED <<identity, circuits, draft, ended, refused>>

-----------------------------------------------------------------------------
(* initialize_circuits()                                                   *)

GetCapabilities_Keeps ==
  /\ at = Nowhere /\ initialized /\ Call
  /\ supported' = {} /\ at' = Await("circuits", First, 0, 0)
  /\ todo' = Crawl(DirectoryOf[First], 1) /\ found' = << >>
  /\ ended' = [n \in All |-> "none"] /\ refused' = [n \in All |-> FALSE]
  /\ UNCHANGED <<device, identity, circuits, sensors, switches, bases, draft>>

GetCapabilities ==
  /\ at = Nowhere /\ initialized /\ Call
  /\ supported' = {} /\ at' = Await("circuits", First, 0, 0)
  /\ todo' = Crawl(DirectoryOf[First], 1) /\ found' = << >>
  /\ circuits' = [circuits EXCEPT ![First] = << >>]
  /\ ended' = [n \in All |-> "none"] /\ refused' = [n \in All |-> FALSE]
  /\ UNCHANGED <<device, identity, sensors, switches, bases, draft>>

\* Whether the type is supported; the next one, or the sensors.  Only the
\* first circuit is asked for number switches.
NextType(how, lists) ==
  LET n == at.n
      rest == {m \in TypesOf[gateway] : m > n}
      adds == IF how = "failed" \/ lists[n] = << >> THEN {}
              ELSE {Types[n]} \cup {c \in {"number"} : lists[n][1].switches \cap Numbers # {}} IN
  /\ draft' = NoDraft /\ ended' = [ended EXCEPT ![n] = how]
  /\ IF rest # {}
       THEN /\ circuits' = [lists EXCEPT ![Least(rest)] = << >>]
            /\ supported' = supported \cup adds
            /\ todo' = Crawl(DirectoryOf[Least(rest)], 1) /\ found' = << >>
            /\ GoOn(Await("circuits", Least(rest), 0, 0))
            /\ UNCHANGED <<sensors, switches, bases>>
       ELSE circuits' = lists /\ StartSensors(supported \cup adds)

\* The first circuit of list from i on, if there is one.
Create(i, list, lists) ==
  LET circuit == {j \in i..Len(list) : list[j] \in Directories} IN
  IF circuit = {} THEN NextType("ok", lists)
  ELSE /\ GoOn(Await("create", at.n, Least(circuit), 1)) /\ draft' = NoDraft
       /\ circuits' = lists /\ todo' = << >> /\ found' = list
       /\ UNCHANGED <<sensors, switches, bases, supported, ended>>

Refuses(st) ==
  refused' = [refused EXCEPT ![at.n] = @ \/ (st = "refused" /\ Wanted \in present)]

CircuitsAnswered_Lenient(st) ==
  /\ Answer("circuits", st) /\ Refuses(st)
  /\ IF Left(st) = << >> THEN Create(1, Got(st, {}), circuits)
     ELSE /\ todo' = Left(st) /\ found' = Got(st, {}) /\ GoOn(at)
          /\ UNCHANGED <<circuits, sensors, switches, bases, supported, draft, ended>>
  /\ UNCHANGED identity

CircuitsAnswered(st) ==
  /\ Answer("circuits", st) /\ Refuses(st)
  /\ IF st = "down" THEN NextType("failed", circuits)
     ELSE IF Left(st) = << >> THEN Create(1, Got(st, {}), circuits)
     ELSE /\ todo' = Left(st) /\ found' = Got(st, {}) /\ GoOn(at)
          /\ UNCHANGED <<circuits, sensors, switches, bases, supported, draft, ended>>
  /\ UNCHANGED identity

\* What the circuit learns from the request at.p.
Drafted(st) ==
  IF st # "ok" THEN draft
  ELSE IF at.p = 1 THEN [draft EXCEPT !.status = TRUE]
  ELSE IF at.p = 2 /\ StyleOf[at.n] # "strict" THEN [draft EXCEPT !.name = TRUE]
  ELSE [draft EXCEPT !.switches = @ \cup {Wanted}]

\* state, after initialize()
Shown(style, c, d) ==
  CASE style = "strict" -> d.status /\ c \notin Inactive
    [] style = "zone" -> d.status /\ d.name /\ c \notin Inactive
    [] style = "device" -> d.name /\ ~(d.status /\ c \in Inactive)

CreateAnswered(st) ==
  LET n == at.n
      c == found[at.j]
      d == Drafted(st)
      new == IF Shown(StyleOf[n], c, d) THEN <<[id |-> c, switches |-> d.switches]>> ELSE << >> IN
  /\ Answer("create", st)
  /\ IF at.p = 1 THEN Refuses(st) ELSE UNCHANGED refused
  /\ IF at.p = 1 /\ StyleOf[n] = "strict" /\ st = "down" THEN NextType("failed", circuits)
     ELSE IF at.p < Len(Requests(n, c))
       THEN /\ GoOn([at EXCEPT !.p = @ + 1]) /\ draft' = d
            /\ UNCHANGED <<circuits, sensors, switches, bases, supported, todo, found, ended>>
     ELSE Create(at.j + 1, found, [circuits EXCEPT ![n] = @ \o new])
  /\ UNCHANGED identity

-----------------------------------------------------------------------------
\* The consumer gives up; what the gateway has by then stays.
Cancelled ==
  /\ at # Nowhere /\ Return("cancelled")
  /\ UNCHANGED <<device, identity, entities, progress, met>>

Answered ==
  \E st \in {"ok", "refused", "down"} :
    \/ InfoAnswered(st) \/ UuidAnswered(st)
    \/ CircuitsAnswered(st) \/ CreateAnswered(st)
    \/ SensorsAnswered(st) \/ BaseAnswered(st) \/ ProbeAnswered(st)

Next == CheckConnection \/ GetCapabilities \/ Answered \/ Cancelled

Spec == Init /\ [][Next]_vars

\* The connector answers, refuses or gives up: its timeouts are finite.
Fairness == WF_vars(Answered)
FairSpec == Spec /\ Fairness
=============================================================================
