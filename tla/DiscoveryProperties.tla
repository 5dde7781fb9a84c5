-------------------------- MODULE DiscoveryProperties --------------------------
(***************************************************************************)
(* What the library may say about a device after asking it.                *)
(***************************************************************************)
EXTENDS GatewayDiscovery

(* The device's own truth, to compare with.                                *)

\* A circuit that the device has and that its status does not disown.
HasCircuit(n, c) ==
  /\ DirectoryOf[n] \in present /\ c \in Directories /\ c \in present
  /\ CASE StyleOf[n] = "strict" -> StatusOf[c] \in present /\ c \notin Inactive
       [] StyleOf[n] = "zone" -> {StatusOf[c], NameOf[c]} \subseteq present /\ c \notin Inactive
       [] OTHER -> NameOf[c] \in present /\ ~(StatusOf[c] \in present /\ c \in Inactive)

SwitchesOn(n, c) ==
  IF StyleOf[n] = "zone" THEN {} ELSE {SwitchesOf[c][i] : i \in DOMAIN SwitchesOf[c]} \cap present

Listed(n) == {circuits[n][i].id : i \in 1..Len(circuits[n])}

\* list has the members of all at places, in their order.
Placed(list, all, places, place) ==
  /\ \A i, j \in DOMAIN list : i < j => place[i] < place[j]
  /\ \A p \in places : \E i \in DOMAIN list : place[i] = p
  /\ \A i \in DOMAIN list : list[i] = all[place[i]]
Picks(list, all, places) ==
  \E place \in [DOMAIN list -> places] : Placed(list, all, places, place)

\* Where the directory of a type has the circuits, and a list of just these.
RefsOf(n) == Refs[DirectoryOf[n]]
TruePlaces(n) == {r \in 1..Len(RefsOf(n)) : HasCircuit(n, RefsOf(n)[r])}
ListsExactly(n, list, places) ==
  /\ Picks([i \in 1..Len(list) |-> list[i].id], RefsOf(n), places)
  /\ \A i \in 1..Len(list) : list[i].switches = SwitchesOn(n, list[i].id)

\* What a crawl finds that is at a key and may still go deep: what answers with
\* no references, or is as deep as the crawl goes.
Leaves(top) ==
  LET leaves[deep \in 0..top] ==
        [k \in Keys |->
           IF k \notin present THEN {}
           ELSE IF k \notin Directories \/ deep = 0 THEN {k}
           ELSE UNION {leaves[deep - 1][Refs[k][i]] : i \in 1..Len(Refs[k])}]
  IN leaves

Names(keys) == {SensorName[k] : k \in keys}
RootSensors(root) == Names(Leaves(root.deep)[root.deep][root.key] \ root.exclude)
TrueSensors == UNION {RootSensors(CrawlRoots[i]) : i \in DOMAIN CrawlRoots}

\* The switches of an entry, up to the first one that the device lacks.
EntrySwitches(e) ==
  IF e.base \notin present \cup {NoKey} THEN {}
  ELSE {e.probes[p] : p \in {q \in DOMAIN e.probes : \A i \in 1..q : e.probes[i] \in present}}

TrueSwitches == UNION {EntrySwitches(Entries[j]) : j \in DOMAIN Entries}

TrueTypes == {n \in TypesOf[gateway] : TruePlaces(n) # {}}
FirstSwitches(n) == SwitchesOn(n, RefsOf(n)[Least(TruePlaces(n))])

\* What the circuits of some types add to the capabilities.
SupportedBy(types) ==
  {Types[n] : n \in types \cap TrueTypes}
    \cup {s \in {"number"} : \E n \in types \cap TrueTypes : FirstSwitches(n) \cap Numbers # {}}

TrueSupported ==
  {"switch", "sensor"} \cup SupportedBy(TypesOf[gateway])
    \cup {s \in {"number"} : TrueSwitches \cap Numbers # {}}
    \cup {s \in {"select"} : TrueSwitches \cap Selects # {}}

-----------------------------------------------------------------------------
Phases == {"idle", "info", "uuid", "circuits", "create", "sensors", "base", "probe"}
Outcomes ==
  {"none", "down", "unknown", "firmware", "known", "capabilities", "cancelled"}
Capabilities == {"switch", "sensor", "number", "select"} \cup {Types[n] : n \in All}
CircuitLists == Seq([id : Keys, switches : SUBSET Keys])

\* Where the task is: the request it awaits exists.
PlaceTypes ==
  /\ at \in [phase : Phases, n : Nat, j : Nat, p : Nat]
  /\ at.phase = "idle" => at = Nowhere
  /\ at.phase = "info" => at.n \in 1..Len(Info)
  /\ at.phase \in {"circuits", "create"} => at.n \in TypesOf[gateway]
  /\ at.phase = "sensors" => at.n \in 1..Len(CrawlRoots)
  /\ at.phase \in {"circuits", "sensors"} => todo # << >>
  /\ at.phase = "create" =>
       /\ at.j \in 1..Len(found) /\ found[at.j] \in Directories
       /\ at.p \in 1..Len(Requests(at.n, found[at.j]))
  /\ at.phase \in {"base", "probe"} => at.j \in 1..Len(Entries)
  /\ at.phase = "base" => Entries[at.j].base # NoKey
  /\ at.phase = "probe" => at.p \in 1..Len(Entries[at.j].probes)

\* Every variable has its type.
TypeOK ==
  /\ present \subseteq Keys /\ gateway \in Gateways
  /\ info \subseteq Keys /\ bus \in {"none", "CAN", "EMS"} /\ initialized \in BOOLEAN
  /\ circuits \in [All -> CircuitLists] /\ sensors \subseteq STRING
  /\ switches \subseteq Keys /\ bases \subseteq Keys /\ supported \subseteq Capabilities
  /\ todo \in Seq([key : Keys, deep : Nat]) /\ found \in Seq(Keys)
  /\ draft \in [status : BOOLEAN, name : BOOLEAN, switches : SUBSET Keys]
  /\ outcome \in Outcomes /\ met \subseteq {"refused", "down"}
  /\ ended \in [All -> {"none", "ok", "failed"}] /\ refused \in [All -> BOOLEAN]
  /\ PlaceTypes

\* While a call goes on it has no outcome; an IVT gateway that met a failed
\* connection is not identifying the device any more.
CallInv ==
  /\ at # Nowhere => outcome = "none"
  /\ gateway = "IVT" /\ at.phase = "info" => "down" \notin met

In(x, s) == \E i \in 1..Len(s) : s[i] = x

\* A circuit the device has and the gateway does not list yet is still to be
\* met: as the directory, as a child, or in the list of what to create.
Awaited(n, c) ==
  \/ /\ at.phase = "circuits"
     /\ \/ In([key |-> DirectoryOf[n], deep |-> 1], todo)
        \/ In([key |-> c, deep |-> 0], todo)
        \/ In(c, found)
  \/ /\ at.phase = "create"
     /\ \/ \E i \in at.j..Len(found) : found[i] = c /\ (i = at.j /\ at.p > 1 => draft.status)
        \/ c \in Listed(n)

CircuitsInv ==
  /\ at.phase \in {"circuits", "create"} =>
       /\ \A m \in All : m >= at.n => ended[m] = "none"
       /\ StyleOf[at.n] = "strict" /\ ~refused[at.n] =>
            \A c \in Keys : In(c, Refs[DirectoryOf[at.n]]) /\ HasCircuit(at.n, c) => Awaited(at.n, c)

\* An IVT gateway never calls a device unknown, or its firmware unsupported,
\* in a call in which the connection failed (gateway/ivt.py:83-84).
IdentityNotMissing ==
  gateway = "IVT" /\ outcome \in {"unknown", "firmware"} => "down" \notin met

\* When initialize_circuits() comes back with a list, no circuit that the
\* device has is missing from it, unless the device refused to answer: what
\* looks like no circuit was none, and not a connection that failed in the
\* directory, in a child or in the status (circuits/circuits.py:78-96).
CircuitsNotMissing ==
  \A n \in TypesOf[gateway] :
    StyleOf[n] = "strict" /\ ended[n] = "ok" /\ ~refused[n]
      => \A c \in Keys : In(c, Refs[DirectoryOf[n]]) /\ HasCircuit(n, c) => c \in Listed(n)

\* The inductive invariant: the types, and what the two above need of the
\* steps in between.
DiscoveryInv == TypeOK /\ CallInv /\ CircuitsInv /\ IdentityNotMissing /\ CircuitsNotMissing

\* Whatever failed or was cancelled in earlier calls, get_capabilities() that
\* meets no failure has exactly what the device has: nothing is left over,
\* doubled or lost, in whichever list.
CleanDiscovery ==
  outcome = "capabilities" /\ met = {} =>
    /\ \A n \in TypesOf[gateway] : ListsExactly(n, circuits[n], TruePlaces(n))
    /\ sensors = TrueSensors /\ switches = TrueSwitches /\ supported = TrueSupported

\* What makes it so, as long as nothing failed: the circuit types that a call has
\* behind it, and what they add to the capabilities;
TypesSoFar(behind) ==
  /\ supported = SupportedBy(behind)
  /\ \A m \in behind : ListsExactly(m, circuits[m], TruePlaces(m))

\* the members of the directory that the crawl has met;
CrawlSoFar(n) ==
  /\ circuits[n] = << >>
  /\ \/ todo = Crawl(DirectoryOf[n], 1) /\ found = << >>
     \/ /\ DirectoryOf[n] \in present
        /\ \E b \in 0..Len(RefsOf(n)) :
             /\ todo = [i \in 1..(Len(RefsOf(n)) - b) |-> [key |-> RefsOf(n)[b + i], deep |-> 0]]
             /\ Picks(found, RefsOf(n), {r \in 1..b : RefsOf(n)[r] \in present})

\* the circuits made of those before the present one, and what that one has;
DraftSoFar(n, c) ==
  LET first == IF StyleOf[n] = "strict" THEN 2 ELSE 3 IN
  /\ draft.status <=> at.p > 1 /\ StatusOf[c] \in present
  /\ draft.name <=> at.p > 2 /\ StyleOf[n] # "strict" /\ NameOf[c] \in present
  /\ draft.switches = {Requests(n, c)[q] : q \in first..(at.p - 1)} \cap present
Members(n) == {r \in 1..Len(RefsOf(n)) : RefsOf(n)[r] \in present}
MadeSoFar(n, j, list, lists) ==
  \E place \in [1..Len(list) -> Members(n)] :
    /\ Placed(list, RefsOf(n), Members(n), place)
    /\ ListsExactly(n, lists[n], TruePlaces(n) \cap {place[k] : k \in 1..(j - 1)})
CreateSoFar(n) ==
  /\ DirectoryOf[n] \in present
  /\ MadeSoFar(n, at.j, found, circuits)
  /\ DraftSoFar(n, found[at.j])

\* the sensors that are found, below what is still to be crawled or at the roots
\* to come;
LeavesOf(steps, top) ==
  UNION {Leaves(top)[steps[i].deep][steps[i].key] : i \in 1..Len(steps)}
SensorsSoFar(n) ==
  LET root == CrawlRoots[n] IN
  /\ \A i \in 1..Len(todo) : todo[i].deep <= root.deep
  /\ TrueSensors =
       {SensorName[found[i]] : i \in 1..Len(found)}
         \cup Names(LeavesOf(todo, root.deep) \ root.exclude)
         \cup UNION {RootSensors(CrawlRoots[m]) : m \in (n + 1)..Len(CrawlRoots)}

\* and the switches of the entries before the present one, and of its own probes.
SwitchesSoFar(e) ==
  /\ sensors = TrueSensors /\ bases \subseteq present
  /\ switches = {Entries[e].probes[p] : p \in 1..(at.p - 1)}
                  \cup UNION {EntrySwitches(Entries[i]) : i \in 1..(e - 1)}
  /\ IF at.phase = "base" THEN at.p = 0
     ELSE /\ Entries[e].base \in present \cup {NoKey}
          /\ \A p \in 1..(at.p - 1) : Entries[e].probes[p] \in present

CleanSoFar ==
  /\ at.phase \in {"circuits", "create"} =>
       \A n \in TypesOf[gateway] : at.n = n =>
         /\ TypesSoFar({m \in TypesOf[gateway] : m < n})
         /\ IF at.phase = "circuits" THEN CrawlSoFar(n) ELSE CreateSoFar(n)
  /\ at.phase \in {"sensors", "base", "probe"} => TypesSoFar(TypesOf[gateway])
  /\ at.phase = "sensors" => \A n \in 1..Len(CrawlRoots) : at.n = n => SensorsSoFar(n)
  /\ at.phase \in {"base", "probe"} => \A e \in 1..Len(Entries) : at.j = e => SwitchesSoFar(e)
CleanInv == (met = {} => CleanSoFar) /\ CleanDiscovery

\* Every call comes to an end, however deep the directories and whatever
\* fails in them.
DiscoveryReturns == at # Nowhere ~> at = Nowhere

\* "Transport failures must not look like missing gateway capabilities"
\* (tests/test_startup_connection.py:1).
DownIsNotMissing ==
  outcome = "capabilities" /\ "refused" \notin met =>
    {Types[n] : n \in TrueTypes} \subseteq supported
=============================================================================
