---------------------------- MODULE DiscoveryProofs ----------------------------
(***************************************************************************)
(* What a gateway finds, for every device, database and gateway class.     *)
(***************************************************************************)
EXTENDS DiscoveryProperties, WellFoundedInduction, TLAPS

Steps == [key : Keys, deep : Nat]

\* The least of a set of numbers.
LEMMA LeastOf ==
  ASSUME NEW S, S \subseteq Nat, S # {}
  PROVE  Least(S) \in S /\ \A i \in S : Least(S) <= i
<1> DEFINE U == {x \in Nat : x \in S}
<1>1. U \subseteq Nat /\ U # {} /\ U = S
  OBVIOUS
<1>2. PICK i \in U : \A j \in U : ~(<<j, i>> \in OpToRel(<, Nat))
  BY <1>1, WFMin, NatLessThanWellFounded
<1>3. \A j \in U : ~(j < i)
  BY <1>1, <1>2 DEF OpToRel
<1>4. i \in S /\ \A j \in S : i <= j
  BY <1>1, <1>3
<1> QED BY <1>4 DEF Least

\* What the assumptions say of a type and its circuits.
LEMMA Constants ==
  /\ Types \in Seq(STRING) /\ All \subseteq Nat /\ \A n \in All : n >= 1
  /\ \A n \in All : DirectoryOf[n] \in Directories /\ StyleOf[n] \in Styles
  /\ Directories \subseteq Keys /\ NoKey \notin Keys
  /\ \A c \in Directories : Refs[c] \in Seq(Keys)
  /\ \A g \in Gateways : TypesOf[g] \subseteq All /\ TypesOf[g] # {}
<1>1. /\ Types \in Seq(STRING) /\ TypesOf \in [Gateways -> (SUBSET All) \ {{}}]
      /\ DirectoryOf \in [All -> Directories] /\ StyleOf \in [All -> Styles]
  BY CircuitAssumption
<1>2. Directories \subseteq Keys /\ NoKey \notin Keys /\ Refs \in [Directories -> Seq(Keys)]
  BY KeyAssumption
<1>3. All = 1..Len(Types)
  BY DEF All
<1>4. Len(Types) \in Nat
  BY <1>1
<1>5. All \subseteq Nat /\ \A n \in All : n >= 1
  BY <1>3, <1>4
<1>6. \A g \in Gateways : TypesOf[g] \in (SUBSET All) \ {{}}
  BY <1>1
<1> QED BY <1>1, <1>2, <1>5, <1>6

\* The requests of a circuit; the first asks for its status.
LEMMA RequestTypes ==
  ASSUME NEW n \in All, NEW c \in Directories
  PROVE  /\ Requests(n, c) \in Seq(Keys) /\ 1 \in 1..Len(Requests(n, c))
         /\ StyleOf[n] = "strict" => Requests(n, c)[1] = StatusOf[c]
<1>1. StatusOf[c] \in Keys /\ NameOf[c] \in Keys /\ SwitchesOf[c] \in Seq(Keys)
  BY CircuitAssumption
<1>2. <<StatusOf[c]>> \in Seq(Keys) /\ <<StatusOf[c], NameOf[c]>> \in Seq(Keys)
  BY <1>1
<1>3. CASE StyleOf[n] = "strict"
  <2>1. Requests(n, c) = <<StatusOf[c]>> \o SwitchesOf[c]
    BY <1>3 DEF Requests
  <2> QED BY <2>1, <1>1, <1>2
<1>4. CASE StyleOf[n] = "zone"
  <2>1. Requests(n, c) = <<StatusOf[c], NameOf[c]>>
    BY <1>4 DEF Requests
  <2> QED BY <2>1, <1>1, <1>2, <1>4
<1>5. CASE StyleOf[n] \notin {"strict", "zone"}
  <2>1. Requests(n, c) = <<StatusOf[c], NameOf[c]>> \o SwitchesOf[c]
    BY <1>5 DEF Requests
  <2> QED BY <2>1, <1>1, <1>2, <1>5
<1> QED BY <1>3, <1>4, <1>5

\* The request that is awaited is one for a resource.
LEMMA WantedType ==
  ASSUME TypeOK, at.phase # "idle" PROVE Wanted \in Keys
<1>1. at.phase \in Phases
  BY DEF TypeOK, PlaceTypes
<1>2. CASE at.phase = "info"
  BY <1>2, KeyAssumption DEF TypeOK, PlaceTypes, Wanted
<1>3. CASE at.phase = "uuid"
  BY <1>3, KeyAssumption DEF TypeOK, PlaceTypes, Wanted
<1>4. CASE at.phase \in {"circuits", "sensors"}
  <2>1. todo \in Seq(Steps) /\ todo # << >>
    BY <1>4 DEF TypeOK, PlaceTypes, Steps
  <2>2. Head(todo) \in Steps
    BY <2>1
  <2> QED BY <1>4, <2>2 DEF Wanted, Steps
<1>5. CASE at.phase = "create"
  <2>1. at.n \in All /\ found[at.j] \in Directories
    BY <1>5, Constants DEF TypeOK, PlaceTypes
  <2>2. at.p \in 1..Len(Requests(at.n, found[at.j]))
    BY <1>5 DEF TypeOK, PlaceTypes
  <2>3. Requests(at.n, found[at.j])[at.p] \in Keys
    BY <2>1, <2>2, RequestTypes
  <2> QED BY <1>5, <2>3 DEF Wanted
<1>6. CASE at.phase \in {"base", "probe"}
  <2>1. Entries[at.j] \in [base : Keys \cup {NoKey}, probes : Seq(Keys)]
    <3> DEFINE E == [base : Keys \cup {NoKey}, probes : Seq(Keys)]
    <3>1. Entries \in Seq(E) /\ at.j \in 1..Len(Entries)
      BY <1>6, DatabaseAssumption DEF TypeOK, PlaceTypes
    <3> HIDE DEF E
    <3>2. Entries[at.j] \in E
      BY <3>1
    <3> QED BY <3>2 DEF E
  <2>2. CASE at.phase = "base"
    BY <2>1, <2>2 DEF TypeOK, PlaceTypes, Wanted
  <2>3. CASE at.phase = "probe"
    <3>1. Entries[at.j].probes \in Seq(Keys) /\ at.p \in 1..Len(Entries[at.j].probes)
      BY <2>1, <2>3 DEF TypeOK, PlaceTypes
    <3>2. Entries[at.j].probes[at.p] \in Keys
      BY <3>1
    <3> QED BY <2>3, <3>2 DEF Wanted
  <2> QED BY <1>6, <2>2, <2>3
<1> QED BY <1>1, <1>2, <1>3, <1>4, <1>5, <1>6 DEF Phases

-----------------------------------------------------------------------------
(* The requests that follow one another                                    *)

\* An entry of the database.
LEMMA EntryTypes ==
  ASSUME NEW j \in 1..Len(Entries)
  PROVE  /\ Entries[j].base \in Keys \cup {NoKey} /\ Entries[j].probes \in Seq(Keys)
         /\ Entries[j].base = NoKey => Entries[j].probes # << >>
<1> DEFINE E == [base : Keys \cup {NoKey}, probes : Seq(Keys)]
<1>1. Entries \in Seq(E) /\ (Entries[j].base = NoKey => Entries[j].probes # << >>)
  BY DatabaseAssumption
<1> HIDE DEF E
<1>2. Entries[j] \in E
  BY <1>1
<1> QED BY <1>1, <1>2 DEF E

\* What a step that goes on to the switches leaves.
LEMMA EntryStep ==
  ASSUME NEW e \in Nat \ {0}, NEW fetched, NEW root, NEW list, list \subseteq Capabilities,
         outcome = "none", NextEntry(e, fetched, root, list)
  PROVE  /\ PlaceTypes' /\ supported' \subseteq Capabilities /\ at'.phase \in {"idle", "base", "probe"}
         /\ outcome' \in {"none", "capabilities"} /\ (at' # Nowhere => outcome' = "none")
<1> DEFINE asks == {j \in e..Len(Entries) : Entries[j].base \notin fetched \/ Entries[j].probes # << >>}
<1>1. CASE asks = {}
  <2>1. Finish(root, list)
    BY <1>1 DEF NextEntry
  <2>2. at' = Nowhere /\ outcome' = "capabilities"
    BY <2>1 DEF Finish, Return
  <2>3. supported' \subseteq Capabilities
    <3>1. \A x \in supported' : x \in list \/ x \in {"switch", "sensor", "number", "select"}
      BY <2>1 DEF Finish
    <3> QED BY <3>1 DEF Capabilities
  <2> QED BY <2>2, <2>3 DEF PlaceTypes, Nowhere, Await, Phases
<1>2. CASE asks # {}
  <2> DEFINE j == Least(asks)
  <2>1. Len(Entries) \in Nat
    BY DatabaseAssumption
  <2>2. asks \subseteq Nat
    BY <2>1
  <2>3. j \in asks
    BY <1>2, <2>2, LeastOf
  <2>4. /\ j \in 1..Len(Entries) /\ j \in Nat
        /\ Entries[j].base \notin fetched \/ Entries[j].probes # << >>
    BY <2>1, <2>3
  <2>5. /\ at' = IF Entries[j].base \in fetched \cup {NoKey} THEN Await("probe", 0, j, 1)
                                                             ELSE Await("base", 0, j, 0)
        /\ outcome' = outcome /\ supported' = list
    BY <1>2 DEF NextEntry, GoOn
  <2> HIDE DEF asks, j
  <2>6. CASE Entries[j].base \in fetched \cup {NoKey}
    <3>1. at' = Await("probe", 0, j, 1) /\ Entries[j].probes # << >> /\ Entries[j].probes \in Seq(Keys)
      BY <2>4, <2>5, <2>6, EntryTypes
    <3>2. 1 \in 1..Len(Entries[j].probes)
      BY <3>1
    <3> QED BY <2>4, <2>5, <3>1, <3>2 DEF PlaceTypes, Await, Phases
  <2>7. CASE Entries[j].base \notin fetched \cup {NoKey}
    BY <2>4, <2>5, <2>7 DEF PlaceTypes, Await, Phases
  <2> QED BY <2>6, <2>7
<1> QED BY <1>1, <1>2

\* A crawl from a root of the database begins with one step.
LEMMA CrawlRoot ==
  ASSUME NEW n \in 1..Len(CrawlRoots)
  PROVE  LET steps == Crawl(CrawlRoots[n].key, CrawlRoots[n].deep) IN steps \in Seq(Steps) /\ steps # << >>
<1> DEFINE R == [key : Keys, deep : Nat, exclude : SUBSET Keys]
<1>1. CrawlRoots \in Seq(R)
  BY DatabaseAssumption
<1> HIDE DEF R
<1>2. CrawlRoots[n] \in R
  BY <1>1
<1> QED BY <1>2 DEF R, Crawl, Steps

\* What a step that goes on to the sensors leaves.
LEMMA SensorStep ==
  ASSUME NEW list, list \subseteq Capabilities, switches \subseteq Keys, bases \subseteq Keys,
         outcome = "none", StartSensors(list)
  PROVE  /\ PlaceTypes' /\ supported' \subseteq Capabilities /\ at'.phase \in {"idle", "sensors", "base", "probe"}
         /\ outcome' \in {"none", "capabilities"} /\ (at' # Nowhere => outcome' = "none")
         /\ sensors' = {} /\ found' = << >> /\ todo' \in Seq(Steps)
         /\ switches' \subseteq Keys /\ bases' \subseteq Keys
<1>1. sensors' = {} /\ found' = << >>
  BY DEF StartSensors
<1>2. CASE CrawlRoots = << >>
  <2>1. todo' = << >> /\ switches' = {} /\ bases' = {} /\ NextEntry(1, {}, {}, list)
    BY <1>2 DEF StartSensors, StartSwitches
  <2>2. /\ PlaceTypes' /\ supported' \subseteq Capabilities /\ at'.phase \in {"idle", "base", "probe"}
        /\ outcome' \in {"none", "capabilities"} /\ (at' # Nowhere => outcome' = "none")
    <3>1. 1 \in Nat \ {0}
      OBVIOUS
    <3> QED BY <2>1, <3>1, EntryStep
  <2> QED BY <1>1, <2>1, <2>2
<1>3. CASE CrawlRoots # << >>
  <2>1. 1 \in 1..Len(CrawlRoots)
    BY <1>3, DatabaseAssumption
  <2>2. /\ todo' = Crawl(CrawlRoots[1].key, CrawlRoots[1].deep) /\ supported' = list
        /\ at' = Await("sensors", 1, 0, 0) /\ outcome' = outcome
        /\ switches' = switches /\ bases' = bases
    BY <1>3 DEF StartSensors, GoOn
  <2>3. todo' \in Seq(Steps) /\ todo' # << >>
    BY <2>1, <2>2, CrawlRoot
  <2> QED BY <1>1, <2>1, <2>2, <2>3 DEF PlaceTypes, Await, Phases
<1> QED BY <1>2, <1>3

-----------------------------------------------------------------------------
(* From one circuit type to the next                                       *)

\* The circuits of a list that the device has are all of them.
Complete(n, list) ==
  \A c \in Keys : In(c, Refs[DirectoryOf[n]]) /\ HasCircuit(n, c)
                    => \E i \in 1..Len(list) : list[i].id = c

\* What all the steps of initialize_circuits() leave alone.
Asking ==
  /\ UNCHANGED <<device, identity>> /\ met' \subseteq {"refused", "down"}
  /\ refused' \in [All -> BOOLEAN]
  /\ \A m \in All \ {at.n} : refused'[m] = refused[m]
  /\ refused[at.n] => refused'[at.n]

LEMMA SameDevice ==
  ASSUME UNCHANGED device PROVE \A n, c : HasCircuit(n, c)' <=> HasCircuit(n, c)
BY DEF device, HasCircuit

\* The directory of a type is one step of a crawl.
LEMMA CrawlDirectory ==
  ASSUME NEW n \in All
  PROVE  LET steps == Crawl(DirectoryOf[n], 1) IN
         /\ steps \in Seq(Steps) /\ steps # << >>
         /\ In([key |-> DirectoryOf[n], deep |-> 1], steps)
<1>1. DirectoryOf[n] \in Keys
  BY Constants
<1>2. [key |-> DirectoryOf[n], deep |-> 1] \in Steps
  BY <1>1 DEF Steps
<1> QED BY <1>2 DEF Crawl, In

\* When a type ends, what it was to find is found, or it failed.
LEMMA NextTypeStep ==
  ASSUME DiscoveryInv, at.phase \in {"circuits", "create"}, Asking,
         NEW how \in {"ok", "failed"}, NEW lists \in [All -> CircuitLists],
         \A m \in All \ {at.n} : lists[m] = circuits[m],
         how = "ok" /\ StyleOf[at.n] = "strict" /\ ~refused'[at.n] => Complete(at.n, lists[at.n]),
         NextType(how, lists)
  PROVE  DiscoveryInv'
<1> DEFINE n == at.n
           rest == {m \in TypesOf[gateway] : m > n}
<1>1. /\ gateway \in Gateways /\ n \in TypesOf[gateway] /\ n \in All /\ TypesOf[gateway] \subseteq All
      /\ TypesOf[gateway] \subseteq Nat /\ outcome = "none" /\ \A m \in All : m >= n => ended[m] = "none"
  <2>1. gateway \in Gateways /\ n \in TypesOf[gateway]
    BY DEF DiscoveryInv, TypeOK, PlaceTypes
  <2>2. outcome = "none"
    BY DEF DiscoveryInv, CallInv, Nowhere, Await
  <2> QED BY <2>1, <2>2, Constants DEF DiscoveryInv, CircuitsInv
<1>2. /\ present' = present /\ gateway' = gateway /\ info' = info /\ bus' = bus /\ initialized' = initialized
      /\ draft' = NoDraft /\ ended' = [ended EXCEPT ![n] = how]
  BY DEF Asking, device, identity, NextType
<1>3. /\ draft' \in [status : BOOLEAN, name : BOOLEAN, switches : SUBSET Keys]
      /\ ended' \in [All -> {"none", "ok", "failed"}]
      /\ ended'[n] = how /\ \A m \in All \ {n} : ended'[m] = ended[m]
  BY <1>1, <1>2 DEF NoDraft, DiscoveryInv, TypeOK
<1>4. ASSUME NEW list, list = supported \cup (IF how = "failed" \/ lists[n] = << >> THEN {}
                 ELSE {Types[n]} \cup {c \in {"number"} : lists[n][1].switches \cap Numbers # {}})
      PROVE  list \subseteq Capabilities
  <2>1. supported \subseteq Capabilities
    BY DEF DiscoveryInv, TypeOK
  <2>2. Types[n] \in Capabilities /\ "number" \in Capabilities
    BY <1>1 DEF Capabilities
  <2> QED BY <1>4, <2>1, <2>2
<1>5. CASE rest # {}
  <2>1. PICK next \in All : next = Least(rest) /\ next \in TypesOf[gateway] /\ next > n
    BY <1>1, <1>5, LeastOf
  <2>2. /\ circuits' = [lists EXCEPT ![next] = << >>]
        /\ supported' = supported \cup (IF how = "failed" \/ lists[n] = << >> THEN {}
                 ELSE {Types[n]} \cup {c \in {"number"} : lists[n][1].switches \cap Numbers # {}})
        /\ todo' = Crawl(DirectoryOf[next], 1) /\ found' = << >>
        /\ at' = Await("circuits", next, 0, 0) /\ outcome' = outcome
        /\ sensors' = sensors /\ switches' = switches /\ bases' = bases
    BY <1>5, <2>1 DEF NextType, GoOn
  <2> HIDE DEF rest
  <2>3. supported' \subseteq Capabilities
    BY <1>4, <2>2
  <2>4. circuits' \in [All -> CircuitLists] /\ \A m \in All \ {next} : circuits'[m] = lists[m]
    <3>1. << >> \in CircuitLists
      BY DEF CircuitLists
    <3> QED BY <2>1, <2>2, <3>1
  <2>5. /\ todo' \in Seq(Steps) /\ todo' # << >>
        /\ In([key |-> DirectoryOf[next], deep |-> 1], todo')
    BY <2>1, <2>2, CrawlDirectory
  <2>6. PlaceTypes'
    BY <1>1, <1>2, <2>1, <2>2, <2>5 DEF PlaceTypes, Await, Phases
  <2>7. TypeOK'
    BY <1>2, <1>3, <2>2, <2>3, <2>4, <2>5, <2>6 DEF TypeOK, DiscoveryInv, Outcomes, Asking, Steps
  <2>8. CallInv' /\ IdentityNotMissing'
    BY <1>1, <2>2 DEF CallInv, IdentityNotMissing, Await
  <2>9. CircuitsInv'
    <3>1. \A m \in All : m >= next => ended'[m] = "none"
      BY <1>1, <1>3, <2>1, Constants
    <3>2. \A c \in Keys : Awaited(next, c)'
      BY <2>2, <2>5 DEF Awaited, Await
    <3> QED BY <2>2, <3>1, <3>2 DEF CircuitsInv, Await
  <2>10. CircuitsNotMissing'
    <3>1. SUFFICES ASSUME NEW m \in TypesOf[gateway], StyleOf[m] = "strict", ended'[m] = "ok", ~refused'[m]
                   PROVE  \A c \in Keys : In(c, Refs[DirectoryOf[m]]) /\ HasCircuit(m, c)' => c \in Listed(m)'
      BY <1>2 DEF CircuitsNotMissing
    <3>2. m # next /\ m \in All
      BY <1>1, <1>3, <2>1, <3>1
    <3>3. CASE m = n
      <4>1. Complete(n, circuits'[n])
        BY <1>1, <1>3, <2>4, <3>1, <3>2, <3>3
      <4> QED BY <3>3, <4>1, SameDevice DEF Complete, Listed, Asking
    <3>4. CASE m # n
      <4>1. circuits'[m] = circuits[m] /\ ended[m] = "ok" /\ ~refused[m]
        BY <1>3, <2>4, <3>1, <3>2, <3>4 DEF Asking
      <4>2. \A c \in Keys : In(c, Refs[DirectoryOf[m]]) /\ HasCircuit(m, c) => c \in Listed(m)
        BY <3>1, <4>1 DEF DiscoveryInv, CircuitsNotMissing
      <4> QED BY <4>1, <4>2, SameDevice DEF Listed, Asking
    <3> QED BY <3>3, <3>4
  <2> QED BY <2>7, <2>8, <2>9, <2>10 DEF DiscoveryInv
<1>6. CASE rest = {}
  <2> DEFINE list == supported \cup (IF how = "failed" \/ lists[n] = << >> THEN {}
                 ELSE {Types[n]} \cup {c \in {"number"} : lists[n][1].switches \cap Numbers # {}})
  <2>1. circuits' = lists /\ StartSensors(list)
    BY <1>6 DEF NextType
  <2>2. list \subseteq Capabilities
    BY <1>4
  <2> HIDE DEF list
  <2>3. switches \subseteq Keys /\ bases \subseteq Keys
    BY DEF DiscoveryInv, TypeOK
  <2>4. /\ PlaceTypes' /\ supported' \subseteq Capabilities /\ at'.phase \in {"idle", "sensors", "base", "probe"}
        /\ outcome' \in {"none", "capabilities"} /\ (at' # Nowhere => outcome' = "none")
        /\ sensors' = {} /\ found' = << >> /\ todo' \in Seq(Steps)
        /\ switches' \subseteq Keys /\ bases' \subseteq Keys
    BY <1>1, <2>1, <2>2, <2>3, SensorStep
  <2>5. found' \in Seq(Keys) /\ sensors' \subseteq STRING
    BY <2>4
  <2>6. TypeOK'
    BY <1>2, <1>3, <2>1, <2>4, <2>5 DEF TypeOK, DiscoveryInv, Outcomes, Asking, Steps
  <2>7. CallInv' /\ IdentityNotMissing' /\ CircuitsInv'
    BY <2>4 DEF CallInv, IdentityNotMissing, CircuitsInv, Nowhere
  <2>8. CircuitsNotMissing'
    <3>1. SUFFICES ASSUME NEW m \in TypesOf[gateway], StyleOf[m] = "strict", ended'[m] = "ok", ~refused'[m]
                   PROVE  \A c \in Keys : In(c, Refs[DirectoryOf[m]]) /\ HasCircuit(m, c)' => c \in Listed(m)'
      BY <1>2 DEF CircuitsNotMissing
    <3>2. m \in All
      BY <1>1
    <3>3. CASE m = n
      <4>1. Complete(n, circuits'[n])
        BY <1>3, <2>1, <3>1, <3>3
      <4> QED BY <3>3, <4>1, SameDevice DEF Complete, Listed, Asking
    <3>4. CASE m # n
      <4>1. circuits'[m] = circuits[m] /\ ended[m] = "ok" /\ ~refused[m]
        BY <1>3, <2>1, <3>1, <3>2, <3>4 DEF Asking
      <4>2. \A c \in Keys : In(c, Refs[DirectoryOf[m]]) /\ HasCircuit(m, c) => c \in Listed(m)
        BY <3>1, <4>1 DEF DiscoveryInv, CircuitsNotMissing
      <4> QED BY <4>1, <4>2, SameDevice DEF Listed, Asking
    <3> QED BY <3>3, <3>4
  <2> QED BY <2>6, <2>7, <2>8 DEF DiscoveryInv
<1> QED BY <1>5, <1>6

\* Creating goes on with a circuit from i on, or with the next type.
LEMMA CreateStep ==
  ASSUME DiscoveryInv, at.phase \in {"circuits", "create"}, Asking,
         NEW i \in Nat \ {0}, NEW list \in Seq(Keys), NEW lists \in [All -> CircuitLists],
         \A m \in All \ {at.n} : lists[m] = circuits[m],
         StyleOf[at.n] = "strict" /\ ~refused'[at.n] =>
           \A c \in Keys : In(c, Refs[DirectoryOf[at.n]]) /\ HasCircuit(at.n, c)
             => \/ \E k \in i..Len(list) : list[k] = c
                \/ \E k \in 1..Len(lists[at.n]) : lists[at.n][k].id = c,
         Create(i, list, lists)
  PROVE  DiscoveryInv'
<1> DEFINE circuit == {j \in i..Len(list) : list[j] \in Directories}
<1>1. /\ gateway \in Gateways /\ at.n \in TypesOf[gateway] /\ at.n \in All
      /\ outcome = "none" /\ \A m \in All : m >= at.n => ended[m] = "none"
  <2>1. gateway \in Gateways /\ at.n \in TypesOf[gateway]
    BY DEF DiscoveryInv, TypeOK, PlaceTypes
  <2>2. outcome = "none"
    BY DEF DiscoveryInv, CallInv, Nowhere, Await
  <2> QED BY <2>1, <2>2, Constants DEF DiscoveryInv, CircuitsInv
<1>2. CASE circuit = {}
  <2>1. NextType("ok", lists)
    BY <1>2 DEF Create
  <2>2. StyleOf[at.n] = "strict" /\ ~refused'[at.n] => Complete(at.n, lists[at.n])
    BY <1>2 DEF Complete, HasCircuit
  <2> QED BY <2>1, <2>2, NextTypeStep
<1>3. CASE circuit # {}
  <2>1. circuit \subseteq Nat
    OBVIOUS
  <2>2. PICK j \in circuit : j = Least(circuit) /\ \A k \in circuit : j <= k
    BY <1>3, <2>1, LeastOf
  <2>3. PICK n \in All : n = at.n
    BY <1>1
  <2>4. /\ at' = Await("create", n, j, 1) /\ outcome' = outcome /\ draft' = NoDraft
        /\ circuits' = lists /\ todo' = << >> /\ found' = list
        /\ sensors' = sensors /\ switches' = switches /\ bases' = bases
        /\ supported' = supported /\ ended' = ended
    BY <1>3, <2>2, <2>3 DEF Create, GoOn
  <2>5. /\ present' = present /\ gateway' = gateway /\ info' = info /\ bus' = bus
        /\ initialized' = initialized
    BY DEF Asking, device, identity
  <2>6. j \in Nat /\ j \in 1..Len(list) /\ list[j] \in Directories /\ n \in Nat
    BY <2>2, Constants
  <2>7. \A k \in i..Len(list) : list[k] \in Directories => k \in j..Len(list)
    BY <2>2, <2>6
  <2> HIDE DEF circuit
  <2>8. PlaceTypes'
    <3>1. 1 \in 1..Len(Requests(n, list[j]))
      BY <2>6, RequestTypes
    <3>2. Requests(n, list[j])' = Requests(n, list[j])
      BY <2>4 DEF Requests
    <3>3. Len(Requests(at.n, found[at.j]))' = Len(Requests(n, list[j]))
      BY <2>4 DEF Await, Requests
    <3> QED BY <1>1, <2>3, <2>4, <2>5, <2>6, <3>1, <3>3 DEF PlaceTypes, Await, Phases
  <2>9. TypeOK'
    BY <2>4, <2>5, <2>8 DEF TypeOK, DiscoveryInv, Asking, NoDraft
  <2>10. CallInv' /\ IdentityNotMissing'
    BY <1>1, <2>4 DEF CallInv, IdentityNotMissing, Await
  <2>11. CircuitsInv'
    <3>1. \A m \in All : m >= n => ended'[m] = "none"
      BY <1>1, <2>3, <2>4
    <3>2. ASSUME StyleOf[n] = "strict", ~refused'[n], NEW c \in Keys,
                 In(c, Refs[DirectoryOf[n]]), HasCircuit(n, c)
          PROVE  Awaited(n, c)'
      <4>1. c \in Directories
        BY <3>2 DEF HasCircuit
      <4>2. CASE \E k \in i..Len(list) : list[k] = c
        <5>1. PICK k \in j..Len(list) : list[k] = c
          BY <2>7, <4>1, <4>2
        <5> QED BY <2>4, <2>6, <5>1 DEF Awaited, Await
      <4>3. CASE \E k \in 1..Len(lists[n]) : lists[n][k].id = c
        BY <2>4, <4>3 DEF Awaited, Await, Listed
      <4> QED BY <2>3, <3>2, <4>2, <4>3
    <3> QED BY <2>4, <3>1, <3>2, SameDevice DEF CircuitsInv, Await, Asking
  <2>12. CircuitsNotMissing'
    <3>1. SUFFICES ASSUME NEW m \in TypesOf[gateway], StyleOf[m] = "strict", ended'[m] = "ok", ~refused'[m]
                   PROVE  \A c \in Keys : In(c, Refs[DirectoryOf[m]]) /\ HasCircuit(m, c)' => c \in Listed(m)'
      BY <2>5 DEF CircuitsNotMissing
    <3>2. m \in All /\ m # n
      BY <1>1, <2>3, <2>4, <3>1, Constants
    <3>3. circuits'[m] = circuits[m] /\ ended[m] = "ok" /\ ~refused[m]
      BY <2>3, <2>4, <3>1, <3>2 DEF Asking
    <3>4. \A c \in Keys : In(c, Refs[DirectoryOf[m]]) /\ HasCircuit(m, c) => c \in Listed(m)
      BY <3>1, <3>3 DEF DiscoveryInv, CircuitsNotMissing
    <3> QED BY <3>3, <3>4, SameDevice DEF Listed, Asking
  <2> QED BY <2>9, <2>10, <2>11, <2>12 DEF DiscoveryInv
<1> QED BY <1>2, <1>3

-----------------------------------------------------------------------------
(* A crawl loses nothing                                                   *)

LEMMA InTail ==
  ASSUME NEW T, NEW s \in Seq(T), s # << >>, NEW x, In(x, s)
  PROVE  x = Head(s) \/ In(x, Tail(s))
<1>1. PICK i \in 1..Len(s) : s[i] = x
  BY DEF In
<1>2. CASE i = 1
  BY <1>1, <1>2
<1>3. CASE i # 1
  <2>1. i - 1 \in 1..Len(Tail(s)) /\ Tail(s)[i - 1] = x
    BY <1>1, <1>3
  <2> QED BY <2>1 DEF In
<1> QED BY <1>2, <1>3

LEMMA InConcat ==
  ASSUME NEW T, NEW s \in Seq(T), NEW t \in Seq(T), NEW x, In(x, s) \/ In(x, t)
  PROVE  In(x, s \o t)
<1>1. CASE In(x, s)
  <2>1. PICK i \in 1..Len(s) : s[i] = x
    BY <1>1 DEF In
  <2>2. i \in 1..Len(s \o t) /\ (s \o t)[i] = x
    BY <2>1
  <2> QED BY <2>2 DEF In
<1>2. CASE In(x, t)
  <2>1. PICK i \in 1..Len(t) : t[i] = x
    BY <1>2 DEF In
  <2>2. Len(s) + i \in 1..Len(s \o t) /\ (s \o t)[Len(s) + i] = x
    BY <2>1
  <2> QED BY <2>2 DEF In
<1> QED BY <1>1, <1>2

LEMMA ConcatLast ==
  ASSUME NEW T, NEW s \in Seq(T), NEW t \in Seq(T), Len(t) = 1
  PROVE  \E i \in 1..Len(s \o t) : (s \o t)[i] = t[1]
<1>1. In(t[1], t)
  BY DEF In
<1>2. In(t[1], s \o t)
  BY <1>1, InConcat
<1> QED BY <1>2 DEF In

LEMMA InAppend ==
  ASSUME NEW T, NEW s \in Seq(T), NEW y \in T
  PROVE  In(y, Append(s, y)) /\ \A x : In(x, s) => In(x, Append(s, y))
<1>1. Len(Append(s, y)) = Len(s) + 1 /\ Append(s, y)[Len(s) + 1] = y
  OBVIOUS
<1>2. \A i \in 1..Len(s) : Append(s, y)[i] = s[i] /\ i \in 1..(Len(s) + 1)
  OBVIOUS
<1>3. Len(s) + 1 \in 1..(Len(s) + 1)
  OBVIOUS
<1> QED BY <1>1, <1>2, <1>3 DEF In

\* What the device answers, and what a crawl has before and behind it then.
LEMMA AnswerTypes ==
  ASSUME TypeOK, NEW phase, NEW st \in {"ok", "refused", "down"}, Answer(phase, st)
  PROVE  /\ met' \subseteq {"refused", "down"} /\ UNCHANGED device
         /\ st # "down" /\ "down" \notin met => "down" \notin met'
BY DEF Answer, TypeOK

LEMMA CrawlTypes ==
  ASSUME TypeOK, at.phase \in {"circuits", "sensors"}, NEW st, NEW exclude
  PROVE  /\ Head(todo) \in Steps /\ Tail(todo) \in Seq(Steps) /\ Wanted = Head(todo).key
         /\ Wanted \in Keys /\ Left(st) \in Seq(Steps) /\ Got(st, exclude) \in Seq(Keys)
         /\ Opens(Head(todo)) => Below(Head(todo)) \in Seq(Steps)
<1>1. todo \in Seq(Steps) /\ todo # << >>
  BY DEF TypeOK, PlaceTypes, Steps
<1>2. Head(todo) \in Steps /\ Tail(todo) \in Seq(Steps)
  BY <1>1
<1>3. Wanted = Head(todo).key /\ Wanted \in Keys
  BY <1>2 DEF Wanted, Steps
<1>4. ASSUME Opens(Head(todo)) PROVE Below(Head(todo)) \in Seq(Steps)
  <2> DEFINE step == Head(todo)
             refs == Refs[step.key]
  <2>1. step.key \in Directories /\ step.deep \in Nat /\ step.deep > 0
    BY <1>2, <1>4 DEF Opens, Steps
  <2>2. refs \in Seq(Keys)
    BY <2>1, Constants
  <2>3. step.deep - 1 \in Nat
    BY <2>1
  <2> HIDE DEF refs
  <2>4. \A i \in 1..Len(refs) : [key |-> refs[i], deep |-> step.deep - 1] \in Steps
    BY <2>2, <2>3 DEF Steps
  <2>5. [i \in 1..Len(refs) |-> [key |-> refs[i], deep |-> step.deep - 1]] \in Seq(Steps)
    BY <2>2, <2>4
  <2> QED BY <2>5 DEF Below, refs
<1>5. Left(st) \in Seq(Steps)
  BY <1>2, <1>4 DEF Left
<1>6. Got(st, exclude) \in Seq(Keys)
  BY <1>3 DEF Got, TypeOK
<1> QED BY <1>2, <1>3, <1>4, <1>5, <1>6

\* A circuit that the device has stays before the crawl, or is in its list.
LEMMA CrawlKeeps ==
  ASSUME DiscoveryInv, at.phase = "circuits", NEW st \in {"ok", "refused"}, Answer("circuits", st),
         Refuses(st), ~refused'[at.n], NEW c \in Keys,
         In(c, Refs[DirectoryOf[at.n]]), HasCircuit(at.n, c), Awaited(at.n, c)
  PROVE  \/ In([key |-> DirectoryOf[at.n], deep |-> 1], Left(st))
         \/ In([key |-> c, deep |-> 0], Left(st))
         \/ In(c, Got(st, {}))
<1> DEFINE dir == DirectoryOf[at.n]
           first == [key |-> dir, deep |-> 1]
           child == [key |-> c, deep |-> 0]
<1>1. /\ TypeOK /\ at.n \in All /\ dir \in Directories /\ dir \in Keys /\ c \in present /\ dir \in present
      /\ Refs[dir] \in Seq(Keys)
  <2>1. at.n \in All
    BY Constants DEF DiscoveryInv, TypeOK, PlaceTypes
  <2> QED BY <2>1, Constants DEF HasCircuit, DiscoveryInv
<1>2. /\ Head(todo) \in Steps /\ Tail(todo) \in Seq(Steps) /\ Wanted = Head(todo).key /\ Wanted \in Keys
      /\ Opens(Head(todo)) => Below(Head(todo)) \in Seq(Steps)
      /\ todo \in Seq(Steps) /\ todo # << >> /\ found \in Seq(Keys)
  BY <1>1, CrawlTypes DEF TypeOK, PlaceTypes, Steps
<1>3. Wanted \in present => st = "ok"
  BY <1>1 DEF Refuses, TypeOK
<1>4. \A x : In(x, Tail(todo)) => In(x, Left(st))
  BY <1>2, InConcat DEF Left
<1>5. \A x : In(x, found) => In(x, Got(st, {}))
  BY <1>2, InAppend DEF Got
<1>6. CASE In(first, todo) /\ Head(todo) = first
  <2>1. Wanted = dir /\ st = "ok" /\ Opens(first)
    BY <1>1, <1>2, <1>3, <1>6 DEF Opens
  <2>2. Left(st) = Below(first) \o Tail(todo)
    BY <1>6, <2>1 DEF Left
  <2>3. PICK i \in 1..Len(Refs[dir]) : Refs[dir][i] = c
    BY DEF In
  <2>4. i \in 1..Len(Below(first)) /\ Below(first)[i] = child
    BY <1>1, <2>3 DEF Below
  <2>5. In(child, Below(first))
    BY <2>4 DEF In
  <2>6. In(child, Left(st))
    BY <1>2, <1>6, <2>1, <2>2, <2>5, InConcat
  <2> QED BY <2>6
<1>7. CASE In(child, todo) /\ Head(todo) = child
  <2>1. Wanted = c /\ st = "ok" /\ ~Opens(child)
    BY <1>1, <1>2, <1>3, <1>7 DEF Opens
  <2>2. Got(st, {}) = Append(found, c)
    BY <1>7, <2>1 DEF Got
  <2> QED BY <1>2, <2>2, InAppend
<1>8. CASE In(first, todo) /\ Head(todo) # first
  BY <1>2, <1>4, <1>8, InTail
<1>9. CASE In(child, todo) /\ Head(todo) # child
  BY <1>2, <1>4, <1>9, InTail
<1>10. In(first, todo) \/ In(child, todo) \/ In(c, found)
  BY DEF Awaited
<1> QED BY <1>5, <1>6, <1>7, <1>8, <1>9, <1>10

-----------------------------------------------------------------------------
(* The steps of the calls                                                  *)

LEMMA CircuitsStep ==
  ASSUME DiscoveryInv, NEW st \in {"ok", "refused", "down"}, CircuitsAnswered(st) PROVE DiscoveryInv'
<1>1. /\ at.phase = "circuits" /\ Answer("circuits", st) /\ Refuses(st)
      /\ UNCHANGED identity /\ TypeOK
  BY DEF CircuitsAnswered, Answer, DiscoveryInv
<1>2. /\ at.n \in All /\ at.n \in TypesOf[gateway] /\ gateway \in Gateways /\ outcome = "none"
      /\ \A m \in All : m >= at.n => ended[m] = "none"
      /\ circuits \in [All -> CircuitLists]
  <2>1. gateway \in Gateways /\ at.n \in TypesOf[gateway] /\ circuits \in [All -> CircuitLists]
    BY <1>1 DEF TypeOK, PlaceTypes
  <2>2. outcome = "none" /\ \A m \in All : m >= at.n => ended[m] = "none"
    BY <1>1 DEF DiscoveryInv, CallInv, CircuitsInv, Nowhere, Await
  <2> QED BY <2>1, <2>2, Constants
<1>3. Asking
  <2>1. met' \subseteq {"refused", "down"} /\ UNCHANGED device
    BY <1>1, AnswerTypes
  <2>2. refused \in [All -> BOOLEAN]
    BY <1>1 DEF TypeOK
  <2>3. /\ refused' \in [All -> BOOLEAN] /\ \A m \in All \ {at.n} : refused'[m] = refused[m]
        /\ refused[at.n] => refused'[at.n]
    BY <1>1, <1>2, <2>2 DEF Refuses
  <2> QED BY <1>1, <2>1, <2>3 DEF Asking
<1>4. ~refused'[at.n] => ~refused[at.n]
  BY <1>3 DEF Asking
<1>5. CASE st = "down"
  <2>1. NextType("failed", circuits)
    BY <1>5 DEF CircuitsAnswered
  <2> QED BY <1>1, <1>2, <1>3, <2>1, NextTypeStep
<1>6. ASSUME st # "down", StyleOf[at.n] = "strict", ~refused'[at.n], NEW c \in Keys,
             In(c, Refs[DirectoryOf[at.n]]), HasCircuit(at.n, c)
      PROVE  \/ In([key |-> DirectoryOf[at.n], deep |-> 1], Left(st))
             \/ In([key |-> c, deep |-> 0], Left(st))
             \/ In(c, Got(st, {}))
  <2>1. Awaited(at.n, c)
    BY <1>1, <1>4, <1>6 DEF DiscoveryInv, CircuitsInv
  <2> QED BY <1>1, <1>6, <2>1, CrawlKeeps
<1>7. Left(st) \in Seq(Steps) /\ Got(st, {}) \in Seq(Keys)
  BY <1>1, CrawlTypes
<1>8. CASE st # "down" /\ Left(st) = << >>
  <2>1. Create(1, Got(st, {}), circuits)
    BY <1>8 DEF CircuitsAnswered
  <2>2. ASSUME StyleOf[at.n] = "strict", ~refused'[at.n], NEW c \in Keys,
               In(c, Refs[DirectoryOf[at.n]]), HasCircuit(at.n, c)
        PROVE  \E k \in 1..Len(Got(st, {})) : Got(st, {})[k] = c
    BY <1>6, <1>8, <2>2 DEF In
  <2> QED BY <1>1, <1>2, <1>3, <1>7, <2>1, <2>2, CreateStep
<1>9. CASE st # "down" /\ Left(st) # << >>
  <2>1. PICK n \in All : n = at.n
    BY <1>2
  <2>2. /\ todo' = Left(st) /\ found' = Got(st, {}) /\ at' = at /\ outcome' = outcome
        /\ circuits' = circuits /\ sensors' = sensors /\ switches' = switches /\ bases' = bases
        /\ supported' = supported /\ draft' = draft /\ ended' = ended
    BY <1>9 DEF CircuitsAnswered, GoOn
  <2>3. /\ present' = present /\ gateway' = gateway /\ info' = info /\ bus' = bus
        /\ initialized' = initialized
    BY <1>3 DEF Asking, device, identity
  <2>4. TypeOK'
    BY <1>1, <1>3, <1>7, <1>9, <2>2, <2>3 DEF TypeOK, PlaceTypes, Asking, Steps
  <2>5. CallInv' /\ IdentityNotMissing'
    BY <1>1, <1>2, <2>2 DEF CallInv, IdentityNotMissing
  <2>6. CircuitsInv'
    <3>1. ASSUME StyleOf[n] = "strict", ~refused'[n], NEW c \in Keys,
                 In(c, Refs[DirectoryOf[n]]), HasCircuit(n, c)
          PROVE  Awaited(n, c)'
      BY <1>1, <1>6, <1>9, <2>1, <2>2, <3>1 DEF Awaited
    <3> QED BY <1>2, <1>3, <2>1, <2>2, <3>1, SameDevice DEF CircuitsInv, Asking
  <2>7. CircuitsNotMissing'
    <3>1. SUFFICES ASSUME NEW m \in TypesOf[gateway], StyleOf[m] = "strict", ended'[m] = "ok", ~refused'[m]
                   PROVE  \A c \in Keys : In(c, Refs[DirectoryOf[m]]) /\ HasCircuit(m, c)' => c \in Listed(m)'
      BY <2>3 DEF CircuitsNotMissing
    <3>2. m \in All /\ m # n
      BY <1>2, <2>1, <2>2, <3>1, Constants
    <3>3. circuits'[m] = circuits[m] /\ ended[m] = "ok" /\ ~refused[m]
      BY <1>3, <2>1, <2>2, <3>1, <3>2 DEF Asking
    <3>4. \A c \in Keys : In(c, Refs[DirectoryOf[m]]) /\ HasCircuit(m, c) => c \in Listed(m)
      BY <3>1, <3>3 DEF DiscoveryInv, CircuitsNotMissing
    <3> QED BY <1>3, <3>3, <3>4, SameDevice DEF Listed, Asking
  <2> QED BY <2>4, <2>5, <2>6, <2>7 DEF DiscoveryInv
<1> QED BY <1>5, <1>8, <1>9

\* A circuit appended to a list of circuits.
LEMMA Appended ==
  ASSUME NEW lists \in [All -> CircuitLists], NEW n \in All, NEW new \in CircuitLists
  PROVE  LET more == [lists EXCEPT ![n] = @ \o new] IN
         /\ more \in [All -> CircuitLists] /\ \A m \in All \ {n} : more[m] = lists[m]
         /\ more[n] = lists[n] \o new
<1>1. lists[n] \in CircuitLists
  OBVIOUS
<1>2. lists[n] \o new \in CircuitLists
  BY <1>1 DEF CircuitLists
<1> QED BY <1>2

\* What a circuit learns keeps its type, and its status.
LEMMA DraftTypes ==
  ASSUME TypeOK, at.phase = "create", NEW st
  PROVE  /\ Drafted(st) \in [status : BOOLEAN, name : BOOLEAN, switches : SUBSET Keys]
         /\ draft.status => Drafted(st).status
         /\ at.p = 1 /\ st = "ok" => Drafted(st).status
<1>1. draft \in [status : BOOLEAN, name : BOOLEAN, switches : SUBSET Keys] /\ Wanted \in Keys
  BY WantedType DEF TypeOK
<1>2. CASE st # "ok"
  BY <1>1, <1>2 DEF Drafted
<1>3. CASE st = "ok" /\ at.p = 1
  BY <1>1, <1>3 DEF Drafted
<1>4. CASE st = "ok" /\ at.p # 1 /\ at.p = 2 /\ StyleOf[at.n] # "strict"
  BY <1>1, <1>4 DEF Drafted
<1>5. CASE st = "ok" /\ at.p # 1 /\ ~(at.p = 2 /\ StyleOf[at.n] # "strict")
  <2>1. Drafted(st) = [draft EXCEPT !.switches = @ \cup {Wanted}]
    BY <1>5 DEF Drafted
  <2> QED BY <1>1, <1>5, <2>1
<1> QED BY <1>2, <1>3, <1>4, <1>5

LEMMA CircuitStep ==
  ASSUME DiscoveryInv, NEW st \in {"ok", "refused", "down"}, CreateAnswered(st) PROVE DiscoveryInv'
<1> DEFINE c0 == found[at.j]
           d == Drafted(st)
           new == IF Shown(StyleOf[at.n], c0, d) THEN <<[id |-> c0, switches |-> d.switches]>> ELSE << >>
           more == [circuits EXCEPT ![at.n] = @ \o new]
<1>1. /\ at.phase = "create" /\ Answer("create", st) /\ UNCHANGED identity /\ TypeOK
  BY DEF CreateAnswered, Answer, DiscoveryInv
<1>2. /\ at.n \in All /\ at.n \in TypesOf[gateway] /\ gateway \in Gateways /\ outcome = "none"
      /\ \A m \in All : m >= at.n => ended[m] = "none"
      /\ circuits \in [All -> CircuitLists] /\ found \in Seq(Keys)
      /\ at.j \in 1..Len(found) /\ c0 \in Directories /\ c0 \in Keys
      /\ at.p \in 1..Len(Requests(at.n, c0)) /\ Requests(at.n, c0) \in Seq(Keys)
  <2>1. /\ gateway \in Gateways /\ at.n \in TypesOf[gateway] /\ circuits \in [All -> CircuitLists]
        /\ at.j \in 1..Len(found) /\ c0 \in Directories /\ at.p \in 1..Len(Requests(at.n, c0))
        /\ found \in Seq(Keys)
    BY <1>1 DEF TypeOK, PlaceTypes
  <2>2. outcome = "none" /\ \A m \in All : m >= at.n => ended[m] = "none"
    BY <1>1 DEF DiscoveryInv, CallInv, CircuitsInv, Nowhere, Await
  <2>3. at.n \in All /\ c0 \in Keys
    BY <2>1, Constants
  <2> QED BY <2>1, <2>2, <2>3, RequestTypes
<1>3. Asking
  <2>1. met' \subseteq {"refused", "down"} /\ UNCHANGED device
    BY <1>1, AnswerTypes
  <2>2. refused \in [All -> BOOLEAN]
    BY <1>1 DEF TypeOK
  <2>3. /\ refused' \in [All -> BOOLEAN] /\ \A m \in All \ {at.n} : refused'[m] = refused[m]
        /\ refused[at.n] => refused'[at.n]
    BY <1>2, <2>2 DEF CreateAnswered, Refuses
  <2> QED BY <1>1, <2>1, <2>3 DEF Asking
<1>4. /\ d \in [status : BOOLEAN, name : BOOLEAN, switches : SUBSET Keys]
      /\ draft.status => d.status
      /\ at.p = 1 /\ st = "ok" => d.status
  BY <1>1, DraftTypes
<1>5. new \in CircuitLists
  <2>1. [id |-> c0, switches |-> d.switches] \in [id : Keys, switches : SUBSET Keys]
    BY <1>2, <1>4
  <2> DEFINE e == [id |-> c0, switches |-> d.switches]
             C == [id : Keys, switches : SUBSET Keys]
  <2> HIDE DEF e, C
  <2>2. e \in C
    BY <2>1 DEF e, C
  <2>3. <<e>> \in Seq(C) /\ << >> \in Seq(C)
    BY <2>2
  <2> QED BY <2>3 DEF CircuitLists, e, C
<1>6. CASE at.p = 1 /\ StyleOf[at.n] = "strict" /\ st = "down"
  <2>1. NextType("failed", circuits)
    BY <1>6 DEF CreateAnswered
  <2> QED BY <1>1, <1>2, <1>3, <2>1, NextTypeStep
\* Where the circuit is a true one, its status is known by now.
<1>7. ASSUME ~(at.p = 1 /\ StyleOf[at.n] = "strict" /\ st = "down"),
             StyleOf[at.n] = "strict", ~refused'[at.n], NEW c \in Keys,
             In(c, Refs[DirectoryOf[at.n]]), HasCircuit(at.n, c)
      PROVE  \/ c = c0 /\ d.status
             \/ \E k \in at.j+1..Len(found) : found[k] = c
             \/ c \in Listed(at.n)
  <2>1. ~refused[at.n]
    BY <1>3, <1>7 DEF Asking
  <2>2. Awaited(at.n, c)
    BY <1>1, <1>7, <2>1 DEF DiscoveryInv, CircuitsInv
  <2>3. CASE \E i \in at.j..Len(found) : found[i] = c /\ (i = at.j /\ at.p > 1 => draft.status)
    <3>1. PICK i \in at.j..Len(found) : found[i] = c /\ (i = at.j /\ at.p > 1 => draft.status)
      BY <2>3
    <3>2. CASE i # at.j
      <4>1. i \in at.j+1..Len(found)
        BY <1>2, <3>2
      <4> QED BY <3>1, <4>1
    <3>3. CASE i = at.j /\ at.p > 1
      BY <1>4, <3>1, <3>3
    <3>4. CASE i = at.j /\ ~(at.p > 1)
      <4>1. at.p = 1 /\ c = c0
        BY <1>2, <3>1, <3>4
      <4>2. Wanted = StatusOf[c0] /\ Refuses(st)
        BY <1>1, <1>2, <1>7, <4>1, RequestTypes DEF Wanted, CreateAnswered
      <4>3. Wanted \in present
        BY <1>7, <4>1, <4>2 DEF HasCircuit
      <4>4. refused \in [All -> BOOLEAN]
        BY <1>1 DEF TypeOK
      <4>5. st # "refused"
        BY <1>2, <1>7, <4>2, <4>3, <4>4 DEF Refuses
      <4>6. st = "ok"
        BY <1>7, <4>1, <4>5
      <4> QED BY <1>4, <4>1, <4>6
    <3> QED BY <3>2, <3>3, <3>4
  <2>4. CASE c \in Listed(at.n)
    BY <2>4
  <2> QED BY <1>1, <2>2, <2>3, <2>4 DEF Awaited
<1>8. CASE ~(at.p = 1 /\ StyleOf[at.n] = "strict" /\ st = "down") /\ at.p < Len(Requests(at.n, c0))
  <2>1. PICK n \in All : n = at.n
    BY <1>2
  <2>2. /\ at' = [at EXCEPT !.p = @ + 1] /\ outcome' = outcome /\ draft' = d
        /\ circuits' = circuits /\ sensors' = sensors /\ switches' = switches /\ bases' = bases
        /\ supported' = supported /\ todo' = todo /\ found' = found /\ ended' = ended
    BY <1>8 DEF CreateAnswered, GoOn
  <2>3. /\ present' = present /\ gateway' = gateway /\ info' = info /\ bus' = bus
        /\ initialized' = initialized
    BY <1>3 DEF Asking, device, identity
  <2>4. /\ at' \in [phase : Phases, n : Nat, j : Nat, p : Nat]
        /\ at'.phase = "create" /\ at'.n = n /\ at'.j = at.j /\ at'.p = at.p + 1
    <3>1. at \in [phase : Phases, n : Nat, j : Nat, p : Nat]
      BY <1>1 DEF TypeOK, PlaceTypes
    <3> QED BY <1>1, <2>1, <2>2, <3>1
  <2>5. PlaceTypes'
    <3>1. Len(Requests(at.n, found[at.j]))' = Len(Requests(at.n, c0))
      BY <2>1, <2>2, <2>4 DEF Requests
    <3>2. at.p + 1 \in 1..Len(Requests(at.n, c0))
      BY <1>2, <1>8
    <3> QED BY <1>2, <2>1, <2>2, <2>3, <2>4, <3>1, <3>2 DEF PlaceTypes
  <2> HIDE DEF c0, d, new, more
  <2>6. TypeOK'
    BY <1>1, <1>3, <1>4, <2>2, <2>3, <2>5 DEF TypeOK, Asking
  <2>7. CallInv' /\ IdentityNotMissing'
    BY <1>2, <2>2, <2>4 DEF CallInv, IdentityNotMissing
  <2>8. CircuitsInv'
    <3>1. ASSUME StyleOf[n] = "strict", ~refused'[n], NEW c \in Keys,
                 In(c, Refs[DirectoryOf[n]]), HasCircuit(n, c)
          PROVE  Awaited(n, c)'
      <4>1. \/ c = c0 /\ d.status
            \/ \E k \in at.j+1..Len(found) : found[k] = c
            \/ c \in Listed(n)
        BY <1>7, <1>8, <2>1, <3>1
      <4>2. at.j \in at.j..Len(found) /\ found[at.j] = c0
        BY <1>2 DEF c0
      <4>3. CASE c = c0 /\ d.status
        BY <2>2, <2>4, <4>2, <4>3 DEF Awaited
      <4>4. CASE \E k \in at.j+1..Len(found) : found[k] = c
        <5>1. PICK k \in at.j+1..Len(found) : found[k] = c
          BY <4>4
        <5>2. k \in at.j..Len(found) /\ k # at.j
          BY <1>2, <5>1
        <5> QED BY <2>2, <2>4, <5>1, <5>2 DEF Awaited
      <4>5. CASE c \in Listed(n)
        BY <2>2, <2>4, <4>5 DEF Awaited, Listed
      <4> QED BY <4>1, <4>3, <4>4, <4>5
    <3> QED BY <1>2, <1>3, <2>1, <2>2, <2>4, <3>1, SameDevice DEF CircuitsInv, Asking
  <2>9. CircuitsNotMissing'
    <3>1. SUFFICES ASSUME NEW m \in TypesOf[gateway], StyleOf[m] = "strict", ended'[m] = "ok", ~refused'[m]
                   PROVE  \A c \in Keys : In(c, Refs[DirectoryOf[m]]) /\ HasCircuit(m, c)' => c \in Listed(m)'
      BY <2>3 DEF CircuitsNotMissing
    <3>2. m \in All /\ m # n
      <4>1. ended'[n] = "none"
        BY <1>2, <2>1, <2>2, Constants
      <4> QED BY <1>2, <3>1, <4>1, Constants
    <3>3. circuits'[m] = circuits[m] /\ ended[m] = "ok" /\ ~refused[m]
      BY <1>3, <2>1, <2>2, <3>1, <3>2 DEF Asking
    <3>4. \A c \in Keys : In(c, Refs[DirectoryOf[m]]) /\ HasCircuit(m, c) => c \in Listed(m)
      BY <3>1, <3>3 DEF DiscoveryInv, CircuitsNotMissing
    <3> QED BY <1>3, <3>3, <3>4, SameDevice DEF Listed, Asking
  <2> QED BY <2>6, <2>7, <2>8, <2>9 DEF DiscoveryInv
<1>9. CASE ~(at.p = 1 /\ StyleOf[at.n] = "strict" /\ st = "down") /\ ~(at.p < Len(Requests(at.n, c0)))
  <2>1. Create(at.j + 1, found, more)
    BY <1>9 DEF CreateAnswered
  <2>2. /\ more \in [All -> CircuitLists] /\ \A m \in All \ {at.n} : more[m] = circuits[m]
        /\ more[at.n] = circuits[at.n] \o new
    <3> HIDE DEF new
    <3> QED BY <1>2, <1>5, Appended
  <2>3. at.j + 1 \in Nat \ {0}
    BY <1>2
  <2>4. ASSUME StyleOf[at.n] = "strict", ~refused'[at.n], NEW c \in Keys,
               In(c, Refs[DirectoryOf[at.n]]), HasCircuit(at.n, c)
        PROVE  \/ \E k \in at.j+1..Len(found) : found[k] = c
               \/ \E k \in 1..Len(more[at.n]) : more[at.n][k].id = c
    <3> DEFINE C == [id : Keys, switches : SUBSET Keys]
    <3>1. circuits[at.n] \in Seq(C) /\ new \in Seq(C)
      BY <1>2, <1>5 DEF CircuitLists
    <3>2. CASE c = c0 /\ d.status
      <4>1. Shown(StyleOf[at.n], c0, d)
        BY <2>4, <3>2 DEF HasCircuit, Shown
      <4>2. Len(new) = 1 /\ new[1].id = c
        BY <3>2, <4>1
      <4> HIDE DEF C, new, more
      <4>3. \E k \in 1..Len(circuits[at.n] \o new) : (circuits[at.n] \o new)[k] = new[1]
        BY <3>1, <4>2, ConcatLast
      <4> QED BY <2>2, <4>2, <4>3
    <3>3. CASE c \in Listed(at.n)
      <4>1. PICK k \in 1..Len(circuits[at.n]) : circuits[at.n][k].id = c
        BY <3>3 DEF Listed
      <4> HIDE DEF C, new, more
      <4>2. k \in 1..Len(more[at.n]) /\ more[at.n][k] = circuits[at.n][k]
        BY <2>2, <3>1, <4>1
      <4> QED BY <4>1, <4>2
    <3> QED BY <1>7, <1>9, <2>4, <3>2, <3>3
  <2> HIDE DEF c0, d, new, more
  <2> QED BY <1>1, <1>2, <1>3, <2>1, <2>2, <2>3, <2>4, CreateStep
<1> QED BY <1>6, <1>8, <1>9

\* A step that is not about circuits keeps what is known of them.
LEMMA Apart ==
  ASSUME DiscoveryInv, UNCHANGED <<device, circuits, ended, refused>>, at'.phase \notin {"circuits", "create"}
  PROVE  CircuitsInv' /\ CircuitsNotMissing'
<1>1. CircuitsInv'
  BY DEF CircuitsInv
<1>2. /\ gateway' = gateway /\ ended' = ended /\ refused' = refused
      /\ (\A n : Listed(n)' = Listed(n)) /\ (\A n, c : HasCircuit(n, c)' <=> HasCircuit(n, c))
  BY SameDevice DEF device, Listed
<1>3. CircuitsNotMissing'
  BY <1>2 DEF DiscoveryInv, CircuitsNotMissing
<1> QED BY <1>1, <1>3

LEMMA CheckStep == ASSUME DiscoveryInv, CheckConnection PROVE DiscoveryInv'
<1>1. /\ TypeOK /\ outcome' = "none" /\ met' = {}
      /\ at' = IF initialized THEN Await("uuid", 0, 0, 0) ELSE Await("info", 1, 0, 0)
      /\ UNCHANGED <<device, identity, entities, progress>>
  BY DEF CheckConnection, Call, DiscoveryInv
<1>2. 1 \in 1..Len(Info)
  BY KeyAssumption
<1>3. PlaceTypes'
  BY <1>1, <1>2 DEF PlaceTypes, Await, Phases
<1>4. TypeOK'
  BY <1>1, <1>3 DEF TypeOK, device, identity, entities, progress, Outcomes
<1>5. CallInv' /\ IdentityNotMissing'
  BY <1>1 DEF CallInv, IdentityNotMissing
<1>6. CircuitsInv' /\ CircuitsNotMissing'
  BY <1>1, Apart DEF Await, device, entities, progress
<1> QED BY <1>4, <1>5, <1>6 DEF DiscoveryInv

LEMMA InfoStep ==
  ASSUME DiscoveryInv, NEW st \in {"ok", "refused", "down"}, InfoAnswered(st) PROVE DiscoveryInv'
<1>1. /\ TypeOK /\ at.phase = "info" /\ Answer("info", st) /\ info' = Learned(st)
      /\ UNCHANGED <<entities, progress>> /\ at.n \in 1..Len(Info) /\ at # Nowhere
  BY DEF InfoAnswered, DiscoveryInv, Answer, TypeOK, PlaceTypes, Nowhere, Await
<1>2. /\ met' \subseteq {"refused", "down"} /\ UNCHANGED device
      /\ st # "down" /\ "down" \notin met => "down" \notin met'
  BY <1>1, AnswerTypes
<1>3. outcome = "none" /\ (gateway = "IVT" => "down" \notin met) /\ gateway \in Kinds
  BY <1>1, KeyAssumption DEF DiscoveryInv, CallInv, TypeOK
<1>4. info' \subseteq Keys
  BY <1>1, WantedType DEF Learned, TypeOK
<1>5. CASE st = "down" /\ gateway = "IVT"
  <2>1. at' = Nowhere /\ outcome' = "down" /\ bus' = bus /\ initialized' = initialized
    BY <1>5 DEF InfoAnswered, Return
  <2>2. TypeOK'
    BY <1>1, <1>2, <1>4, <2>1
       DEF TypeOK, device, entities, progress, PlaceTypes, Nowhere, Await, Phases, Outcomes
  <2>3. CallInv' /\ IdentityNotMissing'
    BY <2>1 DEF CallInv, IdentityNotMissing, Nowhere, Await
  <2>4. CircuitsInv' /\ CircuitsNotMissing'
    BY <1>1, <1>2, <2>1, Apart DEF Nowhere, Await, entities, progress
  <2> QED BY <2>2, <2>3, <2>4 DEF DiscoveryInv
<1>6. CASE ~(st = "down" /\ gateway = "IVT") /\ at.n < Len(Info)
  <2>1. at' = Await("info", at.n + 1, 0, 0) /\ outcome' = outcome /\ bus' = bus /\ initialized' = initialized
    BY <1>6 DEF InfoAnswered, GoOn
  <2>2. at.n + 1 \in 1..Len(Info)
    BY <1>1, <1>6, KeyAssumption
  <2>3. PlaceTypes'
    BY <2>1, <2>2 DEF PlaceTypes, Await, Phases
  <2>4. TypeOK'
    BY <1>1, <1>2, <1>4, <2>1, <2>3 DEF TypeOK, device, entities, progress
  <2>5. CallInv' /\ IdentityNotMissing'
    BY <1>2, <1>3, <1>6, <2>1 DEF CallInv, IdentityNotMissing, device
  <2>6. CircuitsInv' /\ CircuitsNotMissing'
    BY <1>1, <1>2, <2>1, Apart DEF Await, entities, progress
  <2> QED BY <2>4, <2>5, <2>6 DEF DiscoveryInv
<1>7. CASE ~(st = "down" /\ gateway = "IVT") /\ ~(at.n < Len(Info))
  <2>1. Identify(info')
    BY <1>7 DEF InfoAnswered
  <2>2. /\ at' = Nowhere /\ outcome' \in {"unknown", "firmware", "known"}
        /\ initialized' \in BOOLEAN /\ bus' = BusFound(info')
    BY <2>1 DEF Identify, Return
  <2>3. bus' \in {"none", "CAN", "EMS"}
    BY <1>1, <1>3, <2>2 DEF BusFound, Kinds, TypeOK
  <2>4. TypeOK'
    BY <1>1, <1>2, <1>4, <2>2, <2>3
       DEF TypeOK, device, entities, progress, PlaceTypes, Nowhere, Await, Phases, Outcomes
  <2>5. CallInv' /\ IdentityNotMissing'
    BY <1>2, <1>3, <1>7, <2>2 DEF CallInv, IdentityNotMissing, Nowhere, Await, device
  <2>6. CircuitsInv' /\ CircuitsNotMissing'
    BY <1>1, <1>2, <2>2, Apart DEF Nowhere, Await, entities, progress
  <2> QED BY <2>4, <2>5, <2>6 DEF DiscoveryInv
<1> QED BY <1>5, <1>6, <1>7

LEMMA UuidStep ==
  ASSUME DiscoveryInv, NEW st \in {"ok", "refused", "down"}, UuidAnswered(st) PROVE DiscoveryInv'
<1>1. /\ TypeOK /\ at.phase = "uuid" /\ Answer("uuid", st) /\ info' = Learned(st)
      /\ at' = Nowhere /\ outcome' \in {"down", "known"}
      /\ bus' = bus /\ initialized' = initialized /\ UNCHANGED <<entities, progress>>
  BY DEF UuidAnswered, DiscoveryInv, Answer, Return
<1>2. met' \subseteq {"refused", "down"} /\ UNCHANGED device
  BY <1>1, AnswerTypes
<1>3. info' \subseteq Keys
  BY <1>1, WantedType DEF Learned, TypeOK
<1>4. TypeOK'
  BY <1>1, <1>2, <1>3
     DEF TypeOK, device, entities, progress, PlaceTypes, Nowhere, Await, Phases, Outcomes
<1>5. CallInv' /\ IdentityNotMissing'
  BY <1>1 DEF CallInv, IdentityNotMissing, Nowhere, Await
<1>6. CircuitsInv' /\ CircuitsNotMissing'
  BY <1>1, <1>2, Apart DEF Nowhere, Await, entities, progress
<1> QED BY <1>4, <1>5, <1>6 DEF DiscoveryInv

LEMMA CapabilitiesStep == ASSUME DiscoveryInv, GetCapabilities PROVE DiscoveryInv'
<1>1. /\ TypeOK /\ gateway \in Gateways
  BY DEF DiscoveryInv, TypeOK
<1>2. PICK n \in All : n = First /\ n \in TypesOf[gateway] /\ n \in Nat
  <2>1. TypesOf[gateway] \subseteq Nat /\ TypesOf[gateway] \subseteq All /\ TypesOf[gateway] # {}
    BY <1>1, Constants
  <2> QED BY <2>1, LeastOf DEF First
<1>3. /\ outcome' = "none" /\ met' = {} /\ supported' = {} /\ at' = Await("circuits", n, 0, 0)
      /\ todo' = Crawl(DirectoryOf[n], 1) /\ found' = << >>
      /\ circuits' = [circuits EXCEPT ![n] = << >>]
      /\ ended' = [m \in All |-> "none"] /\ refused' = [m \in All |-> FALSE]
      /\ UNCHANGED <<device, identity, sensors, switches, bases, draft>>
  BY <1>2 DEF GetCapabilities, Call
<1>4. /\ todo' \in Seq(Steps) /\ todo' # << >>
      /\ In([key |-> DirectoryOf[n], deep |-> 1], todo')
  BY <1>3, CrawlDirectory
<1>5. circuits' \in [All -> CircuitLists]
  <2>1. << >> \in CircuitLists
    BY DEF CircuitLists
  <2> QED BY <1>1, <1>3, <2>1 DEF TypeOK
<1>6. PlaceTypes'
  BY <1>2, <1>3, <1>4 DEF PlaceTypes, Await, Phases, device
<1>7. TypeOK'
  BY <1>1, <1>3, <1>4, <1>5, <1>6 DEF TypeOK, device, identity, Outcomes, Steps
<1>8. CallInv' /\ IdentityNotMissing'
  BY <1>3 DEF CallInv, IdentityNotMissing, Await
<1>9. CircuitsInv'
  <2>1. \A c \in Keys : Awaited(n, c)'
    BY <1>3, <1>4 DEF Awaited, Await
  <2>2. \A m \in All : ended'[m] = "none"
    BY <1>3
  <2> QED BY <1>3, <2>1, <2>2 DEF CircuitsInv, Await
<1>10. CircuitsNotMissing'
  <2>1. \A m \in All : ended'[m] = "none"
    BY <1>3
  <2>2. TypesOf[gateway'] \subseteq All
    BY <1>1, <1>3, Constants DEF device
  <2> QED BY <2>1, <2>2 DEF CircuitsNotMissing
<1> QED BY <1>7, <1>8, <1>9, <1>10 DEF DiscoveryInv

LEMMA SensorsStep ==
  ASSUME DiscoveryInv, NEW st \in {"ok", "refused", "down"}, SensorsAnswered(st) PROVE DiscoveryInv'
<1> DEFINE list == Got(st, CrawlRoots[at.n].exclude)
<1>1. /\ TypeOK /\ at.phase = "sensors" /\ Answer("sensors", st) /\ at.n \in 1..Len(CrawlRoots)
      /\ UNCHANGED <<identity, circuits, draft, ended, refused>> /\ outcome = "none"
      /\ switches \subseteq Keys /\ bases \subseteq Keys /\ supported \subseteq Capabilities
  BY DEF SensorsAnswered, DiscoveryInv, Answer, TypeOK, PlaceTypes, CallInv, Nowhere, Await
<1>2. met' \subseteq {"refused", "down"} /\ UNCHANGED device
  BY <1>1, AnswerTypes
<1>3. Left(st) \in Seq(Steps) /\ list \in Seq(Keys)
  BY <1>1, CrawlTypes
<1>4. ASSUME PlaceTypes', supported' \subseteq Capabilities, at'.phase \in {"idle", "sensors", "base", "probe"},
             outcome' \in {"none", "capabilities"}, at' # Nowhere => outcome' = "none",
             sensors' \subseteq STRING, found' \in Seq(Keys), todo' \in Seq(Steps),
             switches' \subseteq Keys, bases' \subseteq Keys
      PROVE  DiscoveryInv'
  <2>1. TypeOK'
    BY <1>1, <1>2, <1>4 DEF TypeOK, device, identity, Outcomes, Steps
  <2>2. CallInv' /\ IdentityNotMissing'
    BY <1>4 DEF CallInv, IdentityNotMissing
  <2>3. CircuitsInv' /\ CircuitsNotMissing'
    BY <1>1, <1>2, <1>4, Apart
  <2> QED BY <2>1, <2>2, <2>3 DEF DiscoveryInv
<1>5. CASE Left(st) # << >>
  <2>1. /\ todo' = Left(st) /\ found' = list /\ at' = at /\ outcome' = outcome
        /\ UNCHANGED <<sensors, supported, switches, bases>>
    BY <1>5 DEF SensorsAnswered, GoOn
  <2>2. PlaceTypes'
    BY <1>1, <1>5, <2>1 DEF TypeOK, PlaceTypes
  <2>3. sensors' \subseteq STRING
    BY <1>1, <2>1 DEF TypeOK
  <2> QED BY <1>1, <1>3, <1>4, <2>1, <2>2, <2>3
<1>6. CASE Left(st) = << >> /\ at.n < Len(CrawlRoots)
  <2>1. /\ todo' = Crawl(CrawlRoots[at.n + 1].key, CrawlRoots[at.n + 1].deep)
        /\ found' = list /\ at' = Await("sensors", at.n + 1, 0, 0) /\ outcome' = outcome
        /\ UNCHANGED <<sensors, supported, switches, bases>>
    BY <1>6 DEF SensorsAnswered, GoOn
  <2>2. at.n + 1 \in 1..Len(CrawlRoots)
    BY <1>1, <1>6, DatabaseAssumption
  <2>3. todo' \in Seq(Steps) /\ todo' # << >>
    BY <2>1, <2>2, CrawlRoot
  <2>4. PlaceTypes'
    BY <2>1, <2>2, <2>3 DEF PlaceTypes, Await, Phases
  <2>5. sensors' \subseteq STRING
    BY <1>1, <2>1 DEF TypeOK
  <2>6. at'.phase = "sensors"
    BY <2>1 DEF Await
  <2> QED BY <1>1, <1>3, <1>4, <2>1, <2>3, <2>4, <2>5, <2>6
<1>7. CASE Left(st) = << >> /\ ~(at.n < Len(CrawlRoots))
  <2>1. /\ sensors' = {SensorName[list[i]] : i \in 1..Len(list)}
        /\ todo' = << >> /\ found' = << >> /\ switches' = {} /\ bases' = {}
        /\ NextEntry(1, {}, {}, supported)
    BY <1>7 DEF SensorsAnswered, StartSwitches
  <2>2. sensors' \subseteq STRING
    <3>1. \A i \in 1..Len(list) : list[i] \in Keys
      BY <1>3
    <3> QED BY <2>1, <3>1, DatabaseAssumption
  <2>3. /\ PlaceTypes' /\ supported' \subseteq Capabilities /\ at'.phase \in {"idle", "base", "probe"}
        /\ outcome' \in {"none", "capabilities"} /\ (at' # Nowhere => outcome' = "none")
    <3>1. 1 \in Nat \ {0}
      OBVIOUS
    <3> QED BY <1>1, <2>1, <3>1, EntryStep
  <2>4. todo' \in Seq(Steps) /\ found' \in Seq(Keys) /\ switches' \subseteq Keys /\ bases' \subseteq Keys
    BY <2>1
  <2> QED BY <1>4, <2>2, <2>3, <2>4
<1> QED BY <1>5, <1>6, <1>7

\* A step from switch to switch.
LEMMA SwitchesStep ==
  ASSUME DiscoveryInv, NEW phase \in {"base", "probe"}, NEW st \in {"ok", "refused", "down"},
         Answer(phase, st), UNCHANGED <<identity, circuits, sensors, todo, found, draft, ended, refused>>,
         switches' \subseteq Keys, bases' \subseteq Keys,
         \/ /\ at.p < Len(Entries[at.j].probes)
            /\ GoOn(Await("probe", 0, at.j, at.p + 1)) /\ UNCHANGED supported
         \/ \E fetched, root : NextEntry(at.j + 1, fetched, root, supported)
  PROVE  DiscoveryInv'
<1>1. /\ TypeOK /\ at.phase = phase /\ at.j \in 1..Len(Entries) /\ at.j \in Nat /\ at.p \in Nat
      /\ outcome = "none" /\ supported \subseteq Capabilities
  BY DEF DiscoveryInv, Answer, TypeOK, PlaceTypes, CallInv, Nowhere, Await
<1>2. met' \subseteq {"refused", "down"} /\ UNCHANGED device
  BY <1>1, AnswerTypes
<1>3. /\ PlaceTypes' /\ supported' \subseteq Capabilities /\ at'.phase \in {"idle", "base", "probe"}
      /\ outcome' \in {"none", "capabilities"} /\ (at' # Nowhere => outcome' = "none")
  <2>1. CASE /\ at.p < Len(Entries[at.j].probes)
             /\ GoOn(Await("probe", 0, at.j, at.p + 1)) /\ UNCHANGED supported
    <3>1. at.p + 1 \in 1..Len(Entries[at.j].probes)
      BY <1>1, <2>1, EntryTypes
    <3> QED BY <1>1, <2>1, <3>1 DEF GoOn, PlaceTypes, Await, Phases
  <2>2. ASSUME NEW fetched, NEW root, NextEntry(at.j + 1, fetched, root, supported)
        PROVE  /\ PlaceTypes' /\ supported' \subseteq Capabilities /\ at'.phase \in {"idle", "base", "probe"}
               /\ outcome' \in {"none", "capabilities"} /\ (at' # Nowhere => outcome' = "none")
    <3>1. at.j + 1 \in Nat \ {0}
      BY <1>1
    <3> QED BY <1>1, <2>2, <3>1, EntryStep
  <2> QED BY <2>1, <2>2
<1>4. TypeOK'
  BY <1>1, <1>2, <1>3 DEF TypeOK, device, identity, Outcomes
<1>5. CallInv' /\ IdentityNotMissing'
  BY <1>3 DEF CallInv, IdentityNotMissing
<1>6. CircuitsInv' /\ CircuitsNotMissing'
  BY <1>2, <1>3, Apart
<1> QED BY <1>4, <1>5, <1>6 DEF DiscoveryInv

LEMMA BaseStep ==
  ASSUME DiscoveryInv, NEW st \in {"ok", "refused", "down"}, BaseAnswered(st) PROVE DiscoveryInv'
<1>1. /\ TypeOK /\ at.phase = "base" /\ Answer("base", st) /\ at.j \in 1..Len(Entries)
      /\ bases' = bases \cup {k \in {Wanted} : st = "ok"}
      /\ UNCHANGED <<identity, circuits, sensors, switches, todo, found, draft, ended, refused>>
  BY DEF BaseAnswered, DiscoveryInv, Answer, TypeOK, PlaceTypes
<1>2. switches' \subseteq Keys /\ bases' \subseteq Keys
  BY <1>1, WantedType DEF TypeOK
<1>3. CASE st = "ok" /\ Entries[at.j].probes # << >>
  <2>1. GoOn(Await("probe", 0, at.j, 1)) /\ UNCHANGED supported
    BY <1>3 DEF BaseAnswered
  <2>2. 1 \in 1..Len(Entries[at.j].probes) /\ at.j \in Nat
    BY <1>1, <1>3, EntryTypes
  <2>3. PlaceTypes' /\ at'.phase = "probe" /\ outcome' = outcome
    BY <1>1, <2>1, <2>2 DEF GoOn, PlaceTypes, Await, Phases
  <2>4. met' \subseteq {"refused", "down"} /\ UNCHANGED device
    BY <1>1, AnswerTypes
  <2>5. outcome = "none"
    BY <1>1 DEF DiscoveryInv, CallInv, Nowhere, Await
  <2>6. TypeOK'
    BY <1>1, <1>2, <2>1, <2>3, <2>4 DEF TypeOK, device, identity
  <2>7. CallInv' /\ IdentityNotMissing'
    BY <2>3, <2>5 DEF CallInv, IdentityNotMissing
  <2>8. CircuitsInv' /\ CircuitsNotMissing'
    BY <1>1, <2>3, <2>4, Apart
  <2> QED BY <2>6, <2>7, <2>8 DEF DiscoveryInv
<1>4. CASE ~(st = "ok" /\ Entries[at.j].probes # << >>)
  <2>1. NextEntry(at.j + 1, bases', switches, supported)
    BY <1>4 DEF BaseAnswered
  <2> QED BY <1>1, <1>2, <2>1, SwitchesStep
<1> QED BY <1>3, <1>4

LEMMA ProbeStep ==
  ASSUME DiscoveryInv, NEW st \in {"ok", "refused", "down"}, ProbeAnswered(st) PROVE DiscoveryInv'
<1>1. /\ TypeOK /\ at.phase = "probe" /\ Answer("probe", st)
      /\ switches' = switches \cup {k \in {Wanted} : st = "ok"}
      /\ UNCHANGED <<identity, circuits, sensors, bases, todo, found, draft, ended, refused>>
  BY DEF ProbeAnswered, DiscoveryInv, Answer
<1>2. switches' \subseteq Keys /\ bases' \subseteq Keys
  BY <1>1, WantedType DEF TypeOK
<1>3. CASE st = "ok" /\ at.p < Len(Entries[at.j].probes)
  <2>1. GoOn(Await("probe", 0, at.j, at.p + 1)) /\ UNCHANGED supported
    BY <1>3 DEF ProbeAnswered
  <2> QED BY <1>1, <1>2, <1>3, <2>1, SwitchesStep
<1>4. CASE ~(st = "ok" /\ at.p < Len(Entries[at.j].probes))
  <2>1. NextEntry(at.j + 1, bases, switches', supported)
    BY <1>4 DEF ProbeAnswered
  <2> QED BY <1>1, <1>2, <2>1, SwitchesStep
<1> QED BY <1>3, <1>4

LEMMA CancelStep == ASSUME DiscoveryInv, Cancelled PROVE DiscoveryInv'
<1>1. /\ TypeOK /\ at' = Nowhere /\ outcome' = "cancelled"
      /\ UNCHANGED <<device, identity, entities, progress, met>>
  BY DEF Cancelled, Return, DiscoveryInv
<1>2. TypeOK'
  BY <1>1 DEF TypeOK, device, identity, entities, progress, PlaceTypes, Nowhere, Await, Phases, Outcomes
<1>3. CallInv' /\ IdentityNotMissing'
  BY <1>1 DEF CallInv, IdentityNotMissing, Nowhere, Await
<1>4. CircuitsInv' /\ CircuitsNotMissing'
  BY <1>1, Apart DEF Nowhere, Await, entities, progress
<1> QED BY <1>2, <1>3, <1>4 DEF DiscoveryInv

LEMMA StutterStep == ASSUME DiscoveryInv, UNCHANGED vars PROVE DiscoveryInv'
<1>1. TypeOK'
  <2>1. PlaceTypes'
    BY DEF vars, device, entities, progress, DiscoveryInv, TypeOK, PlaceTypes, Requests
  <2> QED BY <2>1 DEF vars, device, identity, entities, progress, DiscoveryInv, TypeOK
<1>2. CallInv' /\ IdentityNotMissing'
  BY DEF vars, device, DiscoveryInv, CallInv, IdentityNotMissing
<1>3. \A n : Listed(n)' = Listed(n)
  BY DEF vars, entities, Listed
<1>4. \A n, c : (HasCircuit(n, c)' <=> HasCircuit(n, c)) /\ (Awaited(n, c)' <=> Awaited(n, c))
  BY <1>3, SameDevice DEF vars, progress, Awaited
<1>5. CircuitsInv' /\ CircuitsNotMissing'
  BY <1>3, <1>4 DEF vars, device, progress, DiscoveryInv, CircuitsInv, CircuitsNotMissing
<1> QED BY <1>1, <1>2, <1>5 DEF DiscoveryInv

LEMMA InitialStep == Init => DiscoveryInv
<1>1. SUFFICES ASSUME Init PROVE DiscoveryInv
  OBVIOUS
<1>2. TypeOK
  <2>1. << >> \in CircuitLists /\ NoDraft \in [status : BOOLEAN, name : BOOLEAN, switches : SUBSET Keys]
    BY DEF CircuitLists, NoDraft
  <2>2. PlaceTypes
    BY <1>1 DEF Init, PlaceTypes, Nowhere, Await, Phases
  <2>3. present \subseteq Keys /\ gateway \in Gateways
    BY <1>1 DEF Init
  <2>4. /\ circuits \in [All -> CircuitLists] /\ ended \in [All -> {"none", "ok", "failed"}]
        /\ refused \in [All -> BOOLEAN]
        /\ draft \in [status : BOOLEAN, name : BOOLEAN, switches : SUBSET Keys]
    BY <1>1, <2>1 DEF Init
  <2>5. todo \in Seq([key : Keys, deep : Nat]) /\ found \in Seq(Keys)
    BY <1>1 DEF Init
  <2>6. /\ info \subseteq Keys /\ bus \in {"none", "CAN", "EMS"} /\ initialized \in BOOLEAN
        /\ sensors \subseteq STRING /\ switches \subseteq Keys /\ bases \subseteq Keys
        /\ supported \subseteq Capabilities /\ outcome \in Outcomes /\ met \subseteq {"refused", "down"}
    BY <1>1 DEF Init, Outcomes
  <2> QED BY <2>2, <2>3, <2>4, <2>5, <2>6 DEF TypeOK
<1>3. CallInv /\ IdentityNotMissing /\ CircuitsInv
  BY <1>1 DEF Init, CallInv, IdentityNotMissing, CircuitsInv, Nowhere, Await
<1>4. CircuitsNotMissing
  <2>1. TypesOf[gateway] \subseteq All
    BY <1>2, Constants DEF TypeOK
  <2> QED BY <1>1, <2>1 DEF Init, CircuitsNotMissing
<1> QED BY <1>2, <1>3, <1>4 DEF DiscoveryInv

\* Whatever the device refuses, whenever the connection fails and whenever the
\* consumer gives up: the types hold, and so does what is known of the
\* circuits and of the identity (gateway/base.py, circuits/circuits.py).
THEOREM DiscoveryInvariance == Spec => []DiscoveryInv
<1>1. DiscoveryInv /\ [Next]_vars => DiscoveryInv'
  <2>1. SUFFICES ASSUME DiscoveryInv, [Next]_vars PROVE DiscoveryInv'
    OBVIOUS
  <2>2. CASE CheckConnection
    BY <2>1, <2>2, CheckStep
  <2>3. CASE GetCapabilities
    BY <2>1, <2>3, CapabilitiesStep
  <2>4. CASE Answered
    <3>1. PICK st \in {"ok", "refused", "down"} :
            \/ InfoAnswered(st) \/ UuidAnswered(st)
            \/ CircuitsAnswered(st) \/ CreateAnswered(st)
            \/ SensorsAnswered(st) \/ BaseAnswered(st) \/ ProbeAnswered(st)
      BY <2>4 DEF Answered
    <3> QED BY <2>1, <3>1, InfoStep, UuidStep, CircuitsStep, CircuitStep, SensorsStep, BaseStep, ProbeStep
  <2>5. CASE Cancelled
    BY <2>1, <2>5, CancelStep
  <2>6. CASE UNCHANGED vars
    BY <2>1, <2>6, StutterStep
  <2> QED BY <2>1, <2>2, <2>3, <2>4, <2>5, <2>6 DEF Next
<1> QED BY InitialStep, <1>1, PTL DEF Spec

\* A connection that failed in the directory, in a child or in the status never
\* leaves initialize_circuits() with a list that misses a circuit.
THEOREM CircuitsAreNotMissing == Spec => []CircuitsNotMissing
<1>1. DiscoveryInv => CircuitsNotMissing
  BY DEF DiscoveryInv
<1> QED BY <1>1, DiscoveryInvariance, PTL

\* An IVT gateway is never taken for an unknown one because the connection failed.
THEOREM IdentityIsNotMissing == Spec => []IdentityNotMissing
<1>1. DiscoveryInv => IdentityNotMissing
  BY DEF DiscoveryInv
<1> QED BY <1>1, DiscoveryInvariance, PTL

-----------------------------------------------------------------------------
(* Without failures: what is true, and the switches                        *)

\* The leaves of one depth, by those of the depth below.
Level(f, deep) ==
  [k \in Keys |->
     IF k \notin present THEN {}
     ELSE IF k \notin Directories \/ deep = 0 THEN {k}
     ELSE UNION {f[deep - 1][Refs[k][i]] : i \in 1..Len(Refs[k])}]

\* A level of the leaves looks at the one below it only.
LEMMA SameLevel ==
  ASSUME NEW f, NEW g, NEW deep \in Nat, deep > 0 => f[deep - 1] = g[deep - 1]
  PROVE  Level(f, deep) = Level(g, deep)
<1>1. CASE deep = 0
  BY <1>1 DEF Level
<1>2. CASE deep > 0
  <2>1. f[deep - 1] = g[deep - 1] /\ deep # 0
    BY <1>2
  <2> QED BY <2>1 DEF Level
<1> QED BY <1>1, <1>2

\* There is such a function: the least depth without one would have one.
LEMMA LeavesExist ==
  ASSUME NEW top \in Nat
  PROVE  \E f : f = [deep \in 0..top |-> Level(f, deep)]
<1> DEFINE Unfolds(f, n) == f = [deep \in 0..n |-> Level(f, deep)]
           S == {n \in Nat : ~ \E f : Unfolds(f, n)}
<1>1. SUFFICES ASSUME S # {} PROVE FALSE
  OBVIOUS
<1>2. PICK m \in Nat : m \in S /\ \A i \in S : m <= i
  <2>1. Least(S) \in S /\ \A i \in S : Least(S) <= i
    BY <1>1, LeastOf
  <2> QED BY <2>1
<1>3. CASE m = 0
  <2> DEFINE f == [deep \in 0..0 |-> Level(<< >>, 0)]
  <2>1. \A deep \in 0..0 : Level(f, deep) = Level(<< >>, 0)
    <3> HIDE DEF f
    <3> QED BY SameLevel
  <2>2. Unfolds(f, 0)
    <3> HIDE DEF Level
    <3> QED BY <2>1
  <2> QED BY <1>2, <1>3, <2>2
<1>4. CASE m > 0
  <2>1. PICK g : Unfolds(g, m - 1)
    BY <1>2, <1>4
  <2> DEFINE h == [deep \in 0..m |-> IF deep < m THEN g[deep] ELSE Level(g, m)]
  <2>2. \A deep \in 0..m : Level(h, deep) = Level(g, deep)
    <3>1. TAKE deep \in 0..m
    <3>2. deep > 0 => h[deep - 1] = g[deep - 1]
      BY <1>4
    <3> HIDE DEF h
    <3> QED BY <3>2, SameLevel
  <2>3. \A deep \in 0..(m - 1) : g[deep] = Level(g, deep)
    BY <2>1
  <2>4. \A deep \in 0..m : (IF deep < m THEN g[deep] ELSE Level(g, m)) = Level(h, deep)
    <3> HIDE DEF h
    <3> QED BY <1>4, <2>2, <2>3
  <2>5. Unfolds(h, m)
    BY <2>4
  <2> QED BY <1>2, <2>5
<1> QED BY <1>2, <1>3, <1>4

\* What is found from a key is what is found from its references.
LEMMA LeavesUnfold ==
  ASSUME NEW top \in Nat, NEW deep \in 0..top
  PROVE  Leaves(top)[deep] = Level(Leaves(top), deep)
<1>1. Leaves(top) = CHOOSE f : f = [d \in 0..top |-> Level(f, d)]
  BY DEF Leaves, Level
<1>2. Leaves(top) = [d \in 0..top |-> Level(Leaves(top), d)]
  BY <1>1, LeavesExist
<1> QED BY <1>2

\* Of no places nothing is picked.
LEMMA PicksNone ==
  ASSUME NEW all PROVE Picks(<< >>, all, {})
<1> DEFINE none == [i \in {} |-> 0]
<1>1. none \in [DOMAIN << >> -> {}] /\ DOMAIN << >> = {}
  OBVIOUS
<1>2. Placed(<< >>, all, {}, none)
  BY <1>1 DEF Placed
<1> QED BY <1>1, <1>2 DEF Picks

\* One more member that stands behind the others.
LEMMA PicksMore ==
  ASSUME NEW T, NEW all \in Seq(T), NEW list \in Seq(T), NEW r \in 1..Len(all),
         NEW S, S \subseteq 1..Len(all), \A x \in S : x < r, Picks(list, all, S)
  PROVE  Picks(Append(list, all[r]), all, S \cup {r})
<1>1. PICK place \in [DOMAIN list -> S] : Placed(list, all, S, place)
  BY DEF Picks
<1> DEFINE n == Len(list)
           more == Append(list, all[r])
           next == [i \in 1..(n + 1) |-> IF i <= n THEN place[i] ELSE r]
<1>2. n \in Nat /\ DOMAIN list = 1..n /\ DOMAIN more = 1..(n + 1) /\ all[r] \in T
      /\ more[n + 1] = all[r] /\ \A i \in 1..n : more[i] = list[i]
  OBVIOUS
<1> HIDE DEF more
<1>3. next \in [DOMAIN more -> S \cup {r}]
  BY <1>1, <1>2
<1>4. /\ next[n + 1] = r /\ \A i \in 1..n : next[i] = place[i] /\ place[i] \in S
      /\ \A i \in 1..(n + 1) : i \in 1..n \/ i = n + 1
  BY <1>1, <1>2
<1> HIDE DEF next
<1>5. \A i, j \in DOMAIN more : i < j => next[i] < next[j]
  <2>1. TAKE i, j \in DOMAIN more
  <2>2. HAVE i < j
  <2>3. i \in 1..n
    BY <1>2, <2>1, <2>2
  <2>4. CASE j \in 1..n
    BY <1>1, <1>2, <1>4, <2>2, <2>3, <2>4 DEF Placed
  <2>5. CASE j = n + 1
    BY <1>4, <2>3, <2>5
  <2> QED BY <1>2, <1>4, <2>1, <2>4, <2>5
<1>6. \A x \in S \cup {r} : \E i \in DOMAIN more : next[i] = x
  <2>1. ASSUME NEW x \in S PROVE \E i \in DOMAIN more : next[i] = x
    <3>1. PICK i \in 1..n : place[i] = x
      BY <1>1, <1>2 DEF Placed
    <3>2. i \in DOMAIN more /\ next[i] = x
      BY <1>2, <1>4, <3>1
    <3> QED BY <3>2
  <2>2. n + 1 \in DOMAIN more
    BY <1>2
  <2> QED BY <1>4, <2>1, <2>2
<1>7. \A i \in DOMAIN more : more[i] = all[next[i]]
  BY <1>1, <1>2, <1>4 DEF Placed
<1>8. Placed(more, all, S \cup {r}, next)
  BY <1>5, <1>6, <1>7 DEF Placed
<1> QED BY <1>3, <1>8 DEF Picks, more

\* The device stays what it is.
LEMMA SameTruth ==
  ASSUME UNCHANGED device
  PROVE  /\ present' = present /\ gateway' = gateway
         /\ \A n, c : HasCircuit(n, c)' = HasCircuit(n, c) /\ SwitchesOn(n, c)' = SwitchesOn(n, c)
         /\ \A n : TruePlaces(n)' = TruePlaces(n) /\ FirstSwitches(n)' = FirstSwitches(n)
         /\ \A n : Members(n)' = Members(n)
         /\ \A top : Leaves(top)' = Leaves(top)
         /\ \A root : RootSensors(root)' = RootSensors(root)
         /\ \A e : EntrySwitches(e)' = EntrySwitches(e)
         /\ TrueTypes' = TrueTypes
         /\ \A types : SupportedBy(types)' = SupportedBy(types)
         /\ TrueSensors' = TrueSensors /\ TrueSwitches' = TrueSwitches /\ TrueSupported' = TrueSupported
<1>1. present' = present /\ gateway' = gateway
  BY DEF device
<1>2. \A n, c : HasCircuit(n, c)' = HasCircuit(n, c) /\ SwitchesOn(n, c)' = SwitchesOn(n, c)
  BY <1>1 DEF HasCircuit, SwitchesOn
<1>3. \A n : TruePlaces(n)' = TruePlaces(n)
  BY <1>2 DEF TruePlaces
<1>4. \A n : FirstSwitches(n)' = FirstSwitches(n)
  BY <1>1, <1>3 DEF FirstSwitches, SwitchesOn, Least
<1>5. \A n : Members(n)' = Members(n)
  BY <1>1 DEF Members
<1>6. \A top : Leaves(top)' = Leaves(top)
  BY <1>1 DEF Leaves
<1>7. \A root : RootSensors(root)' = RootSensors(root)
  BY <1>6 DEF RootSensors
<1>8. TrueSensors' = TrueSensors
  BY <1>7 DEF TrueSensors
<1>9. \A e : EntrySwitches(e)' = EntrySwitches(e)
  BY <1>1 DEF EntrySwitches
<1>10. TrueSwitches' = TrueSwitches
  BY <1>9 DEF TrueSwitches
<1>11. TrueTypes' = TrueTypes
  BY <1>1, <1>3 DEF TrueTypes
<1>12. \A types : SupportedBy(types)' = SupportedBy(types)
  BY <1>4, <1>11 DEF SupportedBy
<1>13. TrueSupported' = TrueSupported
  <2>1. TypesOf[gateway'] = TypesOf[gateway]
    BY <1>1
  <2> QED BY <2>1, <1>4, <1>10, <1>11 DEF TrueSupported, SupportedBy
<1> QED BY <1>1, <1>2, <1>3, <1>4, <1>5, <1>6, <1>7, <1>8, <1>9, <1>10, <1>11, <1>12, <1>13

\* A list of just the circuits of a device stays one.
LEMMA ListKept ==
  ASSUME UNCHANGED device, NEW m, ListsExactly(m, circuits'[m], TruePlaces(m))
  PROVE  ListsExactly(m, circuits[m], TruePlaces(m))'
<1>1. PICK list : list = circuits'[m]
  OBVIOUS
<1>2. ListsExactly(m, list, TruePlaces(m))
  BY <1>1
<1>3. TruePlaces(m)' = TruePlaces(m) /\ present' = present
  BY SameTruth
<1> QED BY <1>1, <1>2, <1>3 DEF ListsExactly, SwitchesOn

\* What is known of the types that are behind stays known.
LEMMA TypesKept ==
  ASSUME UNCHANGED device, NEW behind, supported' = SupportedBy(behind),
         \A m \in behind : ListsExactly(m, circuits'[m], TruePlaces(m))
  PROVE  TypesSoFar(behind)'
<1>1. supported' = SupportedBy(behind)'
  BY SameTruth
<1>2. \A m \in behind : ListsExactly(m, circuits[m], TruePlaces(m))'
  BY ListKept
<1> QED BY <1>1, <1>2 DEF TypesSoFar

\* What discovery has behind it once the circuits are done.
Found ==
  \A m \in TypesOf[gateway] : ListsExactly(m, circuits'[m], TruePlaces(m))

\* The last step of a call.
LEMMA FinishClean ==
  ASSUME UNCHANGED device, Found, sensors' = TrueSensors, switches' = TrueSwitches,
         Finish(TrueSwitches, SupportedBy(TypesOf[gateway]))
  PROVE  CleanInv'
<1>1. at' = Nowhere
  BY DEF Finish, Return
<1>2. CleanSoFar'
  BY <1>1 DEF CleanSoFar, Nowhere, Await
<1>3. PICK types : types = TypesOf[gateway]
  OBVIOUS
<1>4. TypesOf[gateway'] = types
  BY <1>3, SameTruth
<1>5. \A m \in types : ListsExactly(m, circuits[m], TruePlaces(m))'
  BY <1>3, ListKept DEF Found
<1>6. supported' = TrueSupported
  BY DEF Finish, TrueSupported
<1>7. sensors' = TrueSensors' /\ switches' = TrueSwitches' /\ supported' = TrueSupported'
  BY <1>6, SameTruth
<1>8. CleanDiscovery'
  BY <1>4, <1>5, <1>7 DEF CleanDiscovery
<1> QED BY <1>2, <1>8 DEF CleanInv

\* An entry that is passed over has no switches.
LEMMA NextEntryClean ==
  ASSUME UNCHANGED device, Found, sensors' = TrueSensors,
         NEW e \in 1..(Len(Entries) + 1), NEW fetched \in SUBSET (present \cap Keys), NEW root,
         bases' = fetched, switches' = root,
         root = UNION {EntrySwitches(Entries[i]) : i \in 1..(e - 1)},
         outcome = "none", NextEntry(e, fetched, root, SupportedBy(TypesOf[gateway]))
  PROVE  CleanInv'
<1> DEFINE asks == {j \in e..Len(Entries) : Entries[j].base \notin fetched \/ Entries[j].probes # << >>}
<1>1. Len(Entries) \in Nat /\ e \in Nat
  BY DatabaseAssumption
<1>2. ASSUME NEW j \in e..Len(Entries), j \notin asks PROVE EntrySwitches(Entries[j]) = {}
  BY <1>2 DEF EntrySwitches
<1>3. CASE asks = {}
  <2>1. root = TrueSwitches
    <3>1. DOMAIN Entries = 1..Len(Entries)
      BY DatabaseAssumption
    <3>2. \A j \in 1..Len(Entries) : j \in 1..(e - 1) \/ j \in e..Len(Entries)
      BY <1>1
    <3>3. \A j \in 1..(e - 1) : j \in 1..Len(Entries)
      BY <1>1
    <3>4. \A j \in e..Len(Entries) : EntrySwitches(Entries[j]) = {}
      BY <1>2, <1>3
    <3> HIDE DEF asks
    <3>5. ASSUME NEW x PROVE x \in root <=> x \in TrueSwitches
      <4>1. x \in root <=> \E j \in 1..(e - 1) : x \in EntrySwitches(Entries[j])
        OBVIOUS
      <4>2. x \in TrueSwitches <=> \E j \in 1..Len(Entries) : x \in EntrySwitches(Entries[j])
        BY <3>1 DEF TrueSwitches
      <4> QED BY <3>2, <3>3, <3>4, <4>1, <4>2
    <3>6. \A x \in root : x \in TrueSwitches
      BY <3>5
    <3>7. \A x \in TrueSwitches : x \in root
      BY <3>5
    <3> QED BY <3>6, <3>7
  <2>2. Finish(root, SupportedBy(TypesOf[gateway]))
    BY <1>3 DEF NextEntry
  <2> QED BY <2>1, <2>2, FinishClean
<1>4. CASE asks # {}
  <2>1. PICK j : j = Least(asks)
    OBVIOUS
  <2>2. j \in asks /\ \A i \in asks : j <= i
    <3>1. asks \subseteq Nat
      BY <1>1
    <3> HIDE DEF asks
    <3> QED BY <1>4, <2>1, <3>1, LeastOf
  <2>3. /\ at' = IF Entries[j].base \in fetched \cup {NoKey} THEN Await("probe", 0, j, 1)
                                                            ELSE Await("base", 0, j, 0)
        /\ outcome' = "none" /\ supported' = SupportedBy(TypesOf[gateway])
    BY <1>4, <2>1 DEF NextEntry, GoOn
  <2>4. at'.phase \in {"base", "probe"} /\ at'.j = j /\ at'.p \in {0, 1}
        /\ (at'.phase = "base" => at'.p = 0)
        /\ (at'.phase = "probe" => Entries[j].base \in fetched \cup {NoKey})
    <3>1. CASE Entries[j].base \in fetched \cup {NoKey}
      <4>1. at' = Await("probe", 0, j, 1)
        BY <2>3, <3>1
      <4> QED BY <3>1, <4>1 DEF Await
    <3>2. CASE Entries[j].base \notin fetched \cup {NoKey}
      <4>1. at' = Await("base", 0, j, 0)
        BY <2>3, <3>2
      <4> QED BY <4>1 DEF Await
    <3> QED BY <3>1, <3>2
  <2>5. root = UNION {EntrySwitches(Entries[i]) : i \in 1..(j - 1)}
    <3>1. \A i \in 1..(j - 1) : i \in 1..(e - 1) \/ (i \in e..Len(Entries) /\ i \notin asks)
      BY <1>1, <2>2
    <3>2. \A i \in 1..(e - 1) : i \in 1..(j - 1)
      BY <1>1, <2>2
    <3>3. \A i \in 1..(j - 1) : i \in 1..(e - 1) \/ EntrySwitches(Entries[i]) = {}
      BY <1>2, <3>1
    <3> HIDE DEF asks
    <3> DEFINE some == UNION {EntrySwitches(Entries[i]) : i \in 1..(j - 1)}
    <3>4. \A x \in root : x \in some
      BY <3>2
    <3>5. \A x \in some : x \in root
      BY <3>3
    <3> QED BY <3>4, <3>5
  <2> HIDE DEF asks
  <2>6. PICK types : types = TypesOf[gateway]
    OBVIOUS
  <2>7. TypesSoFar(types)'
    BY <2>3, <2>6, TypesKept DEF Found
  <2>8. TypesOf[gateway'] = types
    BY <2>6, SameTruth
  <2>9. (1..(at'.p - 1)) = {}
    BY <2>4
  <2>10. SwitchesSoFar(j)'
    <3>1. switches' = {Entries[j].probes[p] : p \in 1..(at'.p - 1)}
                        \cup UNION {EntrySwitches(Entries[i])' : i \in 1..(j - 1)}
      <4>1. {EntrySwitches(Entries[i])' : i \in 1..(j - 1)} = {EntrySwitches(Entries[i]) : i \in 1..(j - 1)}
        BY SameTruth
      <4> QED BY <2>5, <2>9, <4>1
    <3>2. sensors' = TrueSensors' /\ bases' \subseteq present' /\ present' = present
      BY SameTruth
    <3> QED BY <2>4, <2>9, <3>1, <3>2 DEF SwitchesSoFar
  <2>11. CleanSoFar'
    <3>1. (at.phase \in {"sensors", "base", "probe"} => TypesSoFar(TypesOf[gateway]))'
      BY <2>7, <2>8 DEF TypesSoFar, SupportedBy
    <3> QED BY <2>4, <2>10, <3>1 DEF CleanSoFar
  <2>12. CleanDiscovery'
    BY <2>3 DEF CleanDiscovery
  <2> QED BY <2>11, <2>12 DEF CleanInv
<1> QED BY <1>3, <1>4

\* Where nothing has failed a request is answered just when the device has what
\* is asked for.
LEMMA AnswerClean ==
  ASSUME NEW phase, NEW st, Answer(phase, st), met' = {}
  PROVE  /\ met = {} /\ UNCHANGED device /\ at.phase = phase
         /\ st = "ok" <=> Wanted \in present
BY DEF Answer

\* What a call has behind it when it is at the switches.
LEMMA SwitchesKnown ==
  ASSUME TypeOK, CleanInv, met = {}, at.phase \in {"base", "probe"}
  PROVE  /\ supported = SupportedBy(TypesOf[gateway])
         /\ \A m \in TypesOf[gateway] : ListsExactly(m, circuits[m], TruePlaces(m))
         /\ SwitchesSoFar(at.j) /\ at.j \in 1..Len(Entries)
BY DEF CleanInv, CleanSoFar, TypesSoFar, TypeOK, PlaceTypes

\* The switches of the entries up to e.
LEMMA UpTo ==
  ASSUME NEW e \in 1..Len(Entries)
  PROVE  UNION {EntrySwitches(Entries[i]) : i \in 1..e} =
           EntrySwitches(Entries[e]) \cup UNION {EntrySwitches(Entries[i]) : i \in 1..(e - 1)}
<1>1. Len(Entries) \in Nat
  BY DatabaseAssumption
<1>2. \A i \in 1..e : i \in 1..(e - 1) \/ i = e
  BY <1>1
<1>3. e \in 1..e /\ \A i \in 1..(e - 1) : i \in 1..e
  BY <1>1
<1> DEFINE all == UNION {EntrySwitches(Entries[i]) : i \in 1..e}
           less == UNION {EntrySwitches(Entries[i]) : i \in 1..(e - 1)}
<1>4. \A x \in all : x \in EntrySwitches(Entries[e]) \cup less
  BY <1>2
<1>5. \A x \in EntrySwitches(Entries[e]) \cup less : x \in all
  BY <1>3
<1> HIDE DEF all, less
<1>6. all = EntrySwitches(Entries[e]) \cup less
  BY <1>4, <1>5
<1> QED BY <1>6 DEF all, less

\* A base that the device lacks ends its entry, which has no switches then.
LEMMA BaseClean ==
  ASSUME DiscoveryInv, CleanInv, NEW st \in {"ok", "refused", "down"}, BaseAnswered(st), met' = {}
  PROVE  CleanInv'
<1>1. Answer("base", st)
  BY DEF BaseAnswered
<1>2. /\ met = {} /\ UNCHANGED device /\ at.phase = "base" /\ (st = "ok" <=> Wanted \in present)
  BY <1>1, AnswerClean
<1>3. PICK e \in 1..Len(Entries) : e = at.j
  BY <1>2, SwitchesKnown DEF DiscoveryInv
<1>4. /\ supported = SupportedBy(TypesOf[gateway]) /\ SwitchesSoFar(e)
      /\ \A m \in TypesOf[gateway] : ListsExactly(m, circuits[m], TruePlaces(m))
  BY <1>2, <1>3, SwitchesKnown DEF DiscoveryInv
<1>5. /\ Wanted = Entries[e].base /\ Entries[e].base # NoKey /\ e \in Nat
      /\ bases \subseteq present /\ sensors = TrueSensors /\ at.p = 0 /\ outcome = "none"
      /\ Entries[e].base \in Keys /\ Len(Entries) \in Nat
      /\ bases' = bases \cup {k \in {Entries[e].base} : st = "ok"} /\ bases \subseteq Keys
      /\ UNCHANGED <<circuits, sensors, switches>>
  <2>1. Wanted = Entries[e].base
    BY <1>2, <1>3 DEF Wanted
  <2>2. Entries[e].base # NoKey /\ at # Nowhere
    BY <1>2, <1>3 DEF DiscoveryInv, TypeOK, PlaceTypes, Nowhere, Await
  <2>3. e \in Nat /\ Len(Entries) \in Nat
    BY DatabaseAssumption
  <2> QED BY <1>2, <1>4, <2>1, <2>2, <2>3, EntryTypes
         DEF SwitchesSoFar, BaseAnswered, DiscoveryInv, CallInv, TypeOK
<1>6. Found /\ sensors' = TrueSensors
  BY <1>4, <1>5 DEF Found
<1>7. PICK before : before = UNION {EntrySwitches(Entries[i]) : i \in 1..(e - 1)}
  OBVIOUS
<1>8. switches = before
  BY <1>4, <1>5, <1>7 DEF SwitchesSoFar
<1>9. CASE st = "ok" /\ Entries[e].probes # << >>
  <2>1. at' = Await("probe", 0, e, 1) /\ outcome' = outcome /\ supported' = supported
    BY <1>3, <1>9 DEF BaseAnswered, GoOn
  <2>2. at'.phase = "probe" /\ at'.j = e /\ at'.p = 1
    BY <2>1 DEF Await
  <2>3. SwitchesSoFar(e)'
    <3>1. {EntrySwitches(Entries[i])' : i \in 1..(e - 1)} = {EntrySwitches(Entries[i]) : i \in 1..(e - 1)}
      BY <1>2, SameTruth
    <3>2. sensors' = TrueSensors' /\ present' = present
      BY <1>2, <1>6, SameTruth
    <3>3. bases' \subseteq present /\ Entries[e].base \in present
      BY <1>2, <1>5, <1>9
    <3>4. 1..(at'.p - 1) = {}
      BY <2>2
    <3> QED BY <1>5, <1>7, <1>8, <2>2, <3>1, <3>2, <3>3, <3>4 DEF SwitchesSoFar
  <2>4. PICK types : types = TypesOf[gateway]
    OBVIOUS
  <2>5. TypesSoFar(types)' /\ TypesOf[gateway'] = types
    <3>1. \A m \in types : ListsExactly(m, circuits'[m], TruePlaces(m))
      BY <1>6, <2>4 DEF Found
    <3> QED BY <1>2, <1>4, <2>1, <2>4, <3>1, TypesKept, SameTruth
  <2>6. (at.phase \in {"sensors", "base", "probe"} => TypesSoFar(TypesOf[gateway]))'
    BY <2>5 DEF TypesSoFar, SupportedBy
  <2>7. CleanSoFar'
    BY <2>2, <2>3, <2>6 DEF CleanSoFar
  <2>8. CleanDiscovery'
    BY <1>5, <2>1 DEF CleanDiscovery
  <2> QED BY <2>7, <2>8 DEF CleanInv
<1>10. CASE ~(st = "ok" /\ Entries[e].probes # << >>)
  <2>1. NextEntry(e + 1, bases', switches, supported)
    BY <1>3, <1>10 DEF BaseAnswered
  <2>2. EntrySwitches(Entries[e]) = {}
    BY <1>2, <1>5, <1>10 DEF EntrySwitches
  <2>3. switches = UNION {EntrySwitches(Entries[i]) : i \in 1..((e + 1) - 1)}
    <3>1. (e + 1) - 1 = e
      BY <1>5
    <3> QED BY <1>7, <1>8, <2>2, <3>1, UpTo
  <2>4. PICK fetched : fetched = bases'
    OBVIOUS
  <2>5. fetched \in SUBSET (present \cap Keys)
    BY <1>2, <1>5, <2>4
  <2>6. e + 1 \in 1..(Len(Entries) + 1)
    BY <1>5
  <2>7. /\ switches' = switches /\ outcome = "none"
        /\ NextEntry(e + 1, fetched, switches, SupportedBy(TypesOf[gateway]))
    BY <1>4, <1>5, <2>1, <2>4
  <2> QED BY <1>2, <1>6, <2>3, <2>4, <2>5, <2>6, <2>7, NextEntryClean
<1> QED BY <1>9, <1>10

\* A probe adds a switch, or ends its entry where it has no more.
LEMMA ProbeClean ==
  ASSUME DiscoveryInv, CleanInv, NEW st \in {"ok", "refused", "down"}, ProbeAnswered(st), met' = {}
  PROVE  CleanInv'
<1>1. Answer("probe", st)
  BY DEF ProbeAnswered
<1>2. /\ met = {} /\ UNCHANGED device /\ at.phase = "probe" /\ (st = "ok" <=> Wanted \in present)
  BY <1>1, AnswerClean
<1>3. PICK e \in 1..Len(Entries) : e = at.j
  BY <1>2, SwitchesKnown DEF DiscoveryInv
<1>4. /\ supported = SupportedBy(TypesOf[gateway]) /\ SwitchesSoFar(e)
      /\ \A m \in TypesOf[gateway] : ListsExactly(m, circuits[m], TruePlaces(m))
  BY <1>2, <1>3, SwitchesKnown DEF DiscoveryInv
<1>5. PICK p \in Nat : p = at.p
  BY DEF DiscoveryInv, TypeOK, PlaceTypes
<1>6. PICK probes \in Seq(Keys) : probes = Entries[e].probes
  BY EntryTypes
<1>7. /\ e \in Nat /\ Len(Entries) \in Nat /\ p \in 1..Len(probes) /\ Len(probes) \in Nat
      /\ Wanted = probes[p] /\ outcome = "none"
      /\ bases' = bases /\ bases \subseteq Keys /\ bases \subseteq present
      /\ switches' = switches \cup {k \in {probes[p]} : st = "ok"}
      /\ Entries[e].base \in present \cup {NoKey} /\ \A q \in 1..(p - 1) : probes[q] \in present
      /\ UNCHANGED <<circuits, sensors>> /\ sensors = TrueSensors
  <2>1. Wanted = probes[p]
    BY <1>2, <1>3, <1>5, <1>6 DEF Wanted
  <2>2. p \in 1..Len(probes) /\ at # Nowhere
    BY <1>2, <1>3, <1>5, <1>6 DEF DiscoveryInv, TypeOK, PlaceTypes, Nowhere, Await
  <2>3. e \in Nat /\ Len(Entries) \in Nat
    BY DatabaseAssumption
  <2> QED BY <1>2, <1>4, <1>5, <1>6, <2>1, <2>2, <2>3
         DEF SwitchesSoFar, ProbeAnswered, DiscoveryInv, CallInv, TypeOK
<1>8. Found /\ sensors' = TrueSensors
  BY <1>4, <1>7 DEF Found
<1>9. PICK before : before = UNION {EntrySwitches(Entries[i]) : i \in 1..(e - 1)}
  OBVIOUS
<1>10. switches = {probes[q] : q \in 1..(p - 1)} \cup before
  BY <1>4, <1>5, <1>6, <1>9 DEF SwitchesSoFar
<1>11. CASE st = "ok" /\ p < Len(probes)
  <2>1. at' = Await("probe", 0, e, p + 1) /\ outcome' = outcome /\ supported' = supported
    BY <1>3, <1>5, <1>6, <1>11 DEF ProbeAnswered, GoOn
  <2>2. at'.phase = "probe" /\ at'.j = e /\ at'.p = p + 1
    BY <2>1 DEF Await
  <2>3. SwitchesSoFar(e)'
    <3>1. {EntrySwitches(Entries[i])' : i \in 1..(e - 1)} = {EntrySwitches(Entries[i]) : i \in 1..(e - 1)}
      BY <1>2, SameTruth
    <3>2. sensors' = TrueSensors' /\ present' = present
      BY <1>2, <1>8, SameTruth
    <3>3. probes[p] \in present
      BY <1>2, <1>7, <1>11
    <3>4. (at'.p - 1) = p
      BY <1>7, <2>2
    <3>5. \A q \in 1..p : q = p \/ q \in 1..(p - 1)
      BY <1>7
    <3>6. switches' = {probes[q] : q \in 1..p} \cup before
      <4>1. {probes[q] : q \in 1..p} = {probes[q] : q \in 1..(p - 1)} \cup {probes[p]}
        BY <1>7, <3>5
      <4> QED BY <1>7, <1>10, <1>11, <4>1
    <3> QED BY <1>6, <1>7, <1>9, <2>2, <3>1, <3>2, <3>3, <3>4, <3>5, <3>6 DEF SwitchesSoFar
  <2>4. PICK types : types = TypesOf[gateway]
    OBVIOUS
  <2>5. TypesSoFar(types)' /\ TypesOf[gateway'] = types
    <3>1. \A m \in types : ListsExactly(m, circuits'[m], TruePlaces(m))
      BY <1>8, <2>4 DEF Found
    <3> QED BY <1>2, <1>4, <2>1, <2>4, <3>1, TypesKept, SameTruth
  <2>6. (at.phase \in {"sensors", "base", "probe"} => TypesSoFar(TypesOf[gateway]))'
    BY <2>5 DEF TypesSoFar, SupportedBy
  <2>7. CleanSoFar'
    BY <2>2, <2>3, <2>6 DEF CleanSoFar
  <2>8. CleanDiscovery'
    BY <1>7, <2>1 DEF CleanDiscovery
  <2> QED BY <2>7, <2>8 DEF CleanInv
<1>12. CASE ~(st = "ok" /\ p < Len(probes))
  <2>1. NextEntry(e + 1, bases, switches', supported)
    BY <1>3, <1>5, <1>6, <1>12 DEF ProbeAnswered
  <2>2. DOMAIN probes = 1..Len(probes)
    OBVIOUS
  <2>3. EntrySwitches(Entries[e]) =
          {probes[q] : q \in {r \in 1..Len(probes) : \A i \in 1..r : probes[i] \in present}}
    BY <1>6, <1>7, <2>2 DEF EntrySwitches
  <2>4. switches' = EntrySwitches(Entries[e]) \cup before
    <3>1. CASE st = "ok"
      <4>1. p = Len(probes) /\ probes[p] \in present
        BY <1>2, <1>7, <1>12, <3>1
      <4>2. \A q \in 1..p : q = p \/ q \in 1..(p - 1)
        BY <1>7
      <4>3. \A q \in 1..p : probes[q] \in present
        BY <1>7, <4>1, <4>2
      <4>4. {r \in 1..Len(probes) : \A i \in 1..r : probes[i] \in present} = 1..p
        BY <1>7, <4>1, <4>3
      <4>5. {probes[q] : q \in 1..p} = {probes[q] : q \in 1..(p - 1)} \cup {probes[p]}
        BY <1>7, <4>2
      <4> QED BY <1>7, <1>10, <2>3, <3>1, <4>4, <4>5
    <3>2. CASE st # "ok"
      <4>1. probes[p] \notin present
        BY <1>2, <1>7, <3>2
      <4>2. {r \in 1..Len(probes) : \A i \in 1..r : probes[i] \in present} = 1..(p - 1)
        <5>1. ASSUME NEW r \in 1..Len(probes), \A i \in 1..r : probes[i] \in present PROVE r \in 1..(p - 1)
          <6>1. ~(p \in 1..r)
            BY <4>1, <5>1
          <6> QED BY <1>7, <6>1
        <5>2. ASSUME NEW r \in 1..(p - 1)
              PROVE  r \in 1..Len(probes) /\ \A i \in 1..r : probes[i] \in present
          BY <1>7
        <5> QED BY <5>1, <5>2
      <4> QED BY <1>7, <1>10, <2>3, <3>2, <4>2
    <3> QED BY <3>1, <3>2
  <2>5. PICK root : root = switches'
    OBVIOUS
  <2>6. root = UNION {EntrySwitches(Entries[i]) : i \in 1..((e + 1) - 1)}
    <3>1. (e + 1) - 1 = e
      BY <1>7
    <3> QED BY <1>9, <2>4, <2>5, <3>1, UpTo
  <2>7. bases \in SUBSET (present \cap Keys) /\ e + 1 \in 1..(Len(Entries) + 1)
    BY <1>7
  <2>8. outcome = "none" /\ NextEntry(e + 1, bases, root, SupportedBy(TypesOf[gateway]))
    BY <1>4, <1>7, <2>1, <2>5
  <2> QED BY <1>2, <1>7, <1>8, <2>5, <2>6, <2>7, <2>8, NextEntryClean
<1> QED BY <1>11, <1>12

-----------------------------------------------------------------------------
(* Without failures: the sensors                                           *)

\* A root of the database.
LEMMA RootTypes ==
  ASSUME NEW n \in 1..Len(CrawlRoots)
  PROVE  /\ CrawlRoots[n].key \in Keys /\ CrawlRoots[n].deep \in Nat /\ n \in Nat /\ Len(CrawlRoots) \in Nat
<1> DEFINE R == [key : Keys, deep : Nat, exclude : SUBSET Keys]
<1>1. CrawlRoots \in Seq(R)
  BY DatabaseAssumption
<1> HIDE DEF R
<1>2. CrawlRoots[n] \in R /\ n \in Nat /\ Len(CrawlRoots) \in Nat
  BY <1>1
<1> QED BY <1>2 DEF R

\* What is found below two lists of steps.
LEMMA LeavesConcat ==
  ASSUME NEW T, NEW s \in Seq(T), NEW t \in Seq(T), NEW top
  PROVE  LeavesOf(s \o t, top) = LeavesOf(s, top) \cup LeavesOf(t, top)
<1> DEFINE both == s \o t
           f(x) == Leaves(top)[x.deep][x.key]
<1>1. /\ Len(both) = Len(s) + Len(t) /\ Len(s) \in Nat /\ Len(t) \in Nat
      /\ \A i \in 1..Len(s) : both[i] = s[i]
      /\ \A i \in 1..Len(t) : both[Len(s) + i] = t[i]
  OBVIOUS
<1> HIDE DEF both
<1>2. ASSUME NEW i \in 1..Len(both)
      PROVE  \/ \E j \in 1..Len(s) : both[i] = s[j]
             \/ \E j \in 1..Len(t) : both[i] = t[j]
  <2>1. CASE i \in 1..Len(s)
    BY <1>1, <2>1
  <2>2. CASE i \notin 1..Len(s)
    <3>1. i - Len(s) \in 1..Len(t) /\ i = Len(s) + (i - Len(s))
      BY <1>1, <2>2
    <3> QED BY <1>1, <3>1
  <2> QED BY <2>1, <2>2
<1>3. ASSUME NEW j \in 1..Len(s) PROVE \E i \in 1..Len(both) : both[i] = s[j]
  <2>1. j \in 1..Len(both)
    BY <1>1
  <2> QED BY <1>1, <2>1
<1>4. ASSUME NEW j \in 1..Len(t) PROVE \E i \in 1..Len(both) : both[i] = t[j]
  <2>1. Len(s) + j \in 1..Len(both)
    BY <1>1
  <2> QED BY <1>1, <2>1
<1>5. \A x \in LeavesOf(both, top) : x \in LeavesOf(s, top) \cup LeavesOf(t, top)
  <2>1. TAKE x \in LeavesOf(both, top)
  <2>2. PICK i \in 1..Len(both) : x \in f(both[i])
    BY DEF LeavesOf
  <2>3. CASE \E j \in 1..Len(s) : both[i] = s[j]
    <3>1. PICK j \in 1..Len(s) : both[i] = s[j]
      BY <2>3
    <3>2. x \in f(s[j])
      BY <2>2, <3>1
    <3> QED BY <3>2 DEF LeavesOf
  <2>4. CASE \E j \in 1..Len(t) : both[i] = t[j]
    <3>1. PICK j \in 1..Len(t) : both[i] = t[j]
      BY <2>4
    <3>2. x \in f(t[j])
      BY <2>2, <3>1
    <3> QED BY <3>2 DEF LeavesOf
  <2> QED BY <1>2, <2>3, <2>4
<1>6. \A x \in LeavesOf(s, top) \cup LeavesOf(t, top) : x \in LeavesOf(both, top)
  <2>1. TAKE x \in LeavesOf(s, top) \cup LeavesOf(t, top)
  <2>2. CASE x \in LeavesOf(s, top)
    <3>1. PICK j \in 1..Len(s) : x \in f(s[j])
      BY <2>2 DEF LeavesOf
    <3>2. PICK i \in 1..Len(both) : both[i] = s[j]
      BY <1>3
    <3>3. x \in f(both[i])
      BY <3>1, <3>2
    <3> QED BY <3>3 DEF LeavesOf
  <2>3. CASE x \in LeavesOf(t, top)
    <3>1. PICK j \in 1..Len(t) : x \in f(t[j])
      BY <2>3 DEF LeavesOf
    <3>2. PICK i \in 1..Len(both) : both[i] = t[j]
      BY <1>4
    <3>3. x \in f(both[i])
      BY <3>1, <3>2
    <3> QED BY <3>3 DEF LeavesOf
  <2> QED BY <2>1, <2>2, <2>3
<1>7. LeavesOf(both, top) = LeavesOf(s, top) \cup LeavesOf(t, top)
  BY <1>5, <1>6
<1> QED BY <1>7 DEF both

\* What is found below the first step and below the others.
LEMMA LeavesHead ==
  ASSUME NEW T, NEW s \in Seq(T), s # << >>, NEW top
  PROVE  LeavesOf(s, top) = Leaves(top)[Head(s).deep][Head(s).key] \cup LeavesOf(Tail(s), top)
<1>1. s = <<Head(s)>> \o Tail(s) /\ <<Head(s)>> \in Seq(T) /\ Tail(s) \in Seq(T)
  OBVIOUS
<1>2. LeavesOf(s, top) = LeavesOf(<<Head(s)>>, top) \cup LeavesOf(Tail(s), top)
  <2>1. PICK a \in Seq(T), b \in Seq(T) : a = <<Head(s)>> /\ b = Tail(s)
    BY <1>1
  <2>2. LeavesOf(a \o b, top) = LeavesOf(a, top) \cup LeavesOf(b, top)
    BY LeavesConcat
  <2> QED BY <1>1, <2>1, <2>2
<1>3. LeavesOf(<<Head(s)>>, top) = Leaves(top)[Head(s).deep][Head(s).key]
  <2>1. PICK h : h = Head(s)
    OBVIOUS
  <2>2. 1..Len(<<h>>) = {1} /\ <<h>>[1] = h
    OBVIOUS
  <2>3. LeavesOf(<<h>>, top) = UNION {Leaves(top)[h.deep][h.key]}
    BY <2>2 DEF LeavesOf
  <2> QED BY <2>1, <2>3
<1> QED BY <1>2, <1>3

\* What a crawl is to find stays the same with each request that is answered.
LEMMA CrawlLeaves ==
  ASSUME TypeOK, at.phase = "sensors", NEW top \in Nat, NEW st, st = "ok" <=> Wanted \in present,
         \A i \in 1..Len(todo) : todo[i].deep <= top
  PROVE  /\ \A i \in 1..Len(Left(st)) : Left(st)[i].deep <= top
         /\ LeavesOf(todo, top) =
              {k \in {Wanted} : st = "ok" /\ ~Opens(Head(todo))} \cup LeavesOf(Left(st), top)
<1>1. todo \in Seq(Steps) /\ todo # << >>
  BY DEF TypeOK, PlaceTypes, Steps
<1>2. PICK h \in Steps : h = Head(todo)
  BY <1>1
<1>3. PICK rest \in Seq(Steps) : rest = Tail(todo)
  BY CrawlTypes
<1>4. h.key \in Keys /\ h.deep \in Nat /\ Wanted = h.key
  BY <1>2, CrawlTypes DEF Steps
<1>5. h.deep <= top /\ \A i \in 1..Len(rest) : rest[i].deep <= top
  <2>1. h = todo[1] /\ 1 \in 1..Len(todo)
    BY <1>1, <1>2
  <2>2. \A i \in 1..Len(rest) : rest[i] = todo[i + 1] /\ i + 1 \in 1..Len(todo)
    BY <1>1, <1>3
  <2> QED BY <2>1, <2>2
<1>6. LeavesOf(todo, top) = Leaves(top)[h.deep][h.key] \cup LeavesOf(rest, top)
  BY <1>1, <1>2, <1>3, LeavesHead
<1>7. Leaves(top)[h.deep][h.key] =
        IF h.key \notin present THEN {}
        ELSE IF h.key \notin Directories \/ h.deep = 0 THEN {h.key}
        ELSE UNION {Leaves(top)[h.deep - 1][Refs[h.key][i]] : i \in 1..Len(Refs[h.key])}
  <2>1. h.deep \in 0..top
    BY <1>4, <1>5
  <2>2. Leaves(top)[h.deep] = Level(Leaves(top), h.deep)
    BY <2>1, LeavesUnfold
  <2> QED BY <1>4, <2>2 DEF Level
<1>8. CASE st = "ok" /\ Opens(h)
  <2>1. Below(h) \in Seq(Steps) /\ Left(st) = Below(h) \o rest
    BY <1>2, <1>3, <1>8, CrawlTypes DEF Left
  <2>2. PICK refs \in Seq(Keys) : refs = Refs[h.key]
    BY <1>8, KeyAssumption DEF Opens
  <2>3. Below(h) = [i \in 1..Len(refs) |-> [key |-> refs[i], deep |-> h.deep - 1]] /\ Len(refs) \in Nat
    BY <2>2 DEF Below
  <2>4. /\ Len(Below(h)) = Len(refs)
        /\ \A i \in 1..Len(refs) : Below(h)[i].key = refs[i] /\ Below(h)[i].deep = h.deep - 1
    BY <2>3
  <2>5. LeavesOf(Below(h), top) = UNION {Leaves(top)[h.deep - 1][refs[i]] : i \in 1..Len(refs)}
    <3>1. {Leaves(top)[Below(h)[i].deep][Below(h)[i].key] : i \in 1..Len(Below(h))}
            = {Leaves(top)[h.deep - 1][refs[i]] : i \in 1..Len(refs)}
      BY <2>4
    <3> QED BY <3>1 DEF LeavesOf
  <2>6. h.key \in present /\ h.key \in Directories /\ h.deep # 0
    BY <1>4, <1>8 DEF Opens
  <2>7. Leaves(top)[h.deep][h.key] = LeavesOf(Below(h), top)
    BY <1>7, <2>2, <2>5, <2>6
  <2>8. LeavesOf(Left(st), top) = LeavesOf(Below(h), top) \cup LeavesOf(rest, top)
    BY <2>1, LeavesConcat
  <2>9. {k \in {Wanted} : st = "ok" /\ ~Opens(Head(todo))} = {}
    BY <1>2, <1>8
  <2>10. \A i \in 1..Len(Below(h)) : Below(h)[i].deep <= top
    BY <1>4, <1>5, <2>4
  <2>11. \A i \in 1..Len(Left(st)) : Left(st)[i].deep <= top
    <3>1. PICK below \in Seq(Steps) : below = Below(h)
      BY <2>1
    <3>2. \A i \in 1..Len(below) : below[i].deep <= top
      BY <2>10, <3>1
    <3>3. Left(st) = below \o rest
      BY <2>1, <3>1
    <3> QED BY <1>5, <3>2, <3>3
  <2> QED BY <1>6, <2>7, <2>8, <2>9, <2>11
<1>9. CASE ~(st = "ok" /\ Opens(h))
  <2>1. Left(st) = rest
    BY <1>2, <1>3, <1>9 DEF Left
  <2>2. Leaves(top)[h.deep][h.key] = {k \in {Wanted} : st = "ok" /\ ~Opens(Head(todo))}
    <3>1. CASE st = "ok"
      <4>1. h.key \in present /\ (h.key \notin Directories \/ h.deep = 0)
        BY <1>4, <1>9, <3>1 DEF Opens
      <4> QED BY <1>2, <1>4, <1>7, <1>9, <3>1, <4>1
    <3>2. CASE st # "ok"
      BY <1>4, <1>7, <3>2
    <3> QED BY <3>1, <3>2
  <2> QED BY <1>5, <1>6, <2>1, <2>2
<1> QED BY <1>8, <1>9

\* The switches begin once the sensors are done.
LEMMA SwitchesBegin ==
  ASSUME UNCHANGED device, Found, sensors' = TrueSensors, outcome = "none",
         StartSwitches(SupportedBy(TypesOf[gateway]))
  PROVE  CleanInv'
<1>1. Len(Entries) \in Nat
  BY DatabaseAssumption
<1>2. 1 \in 1..(Len(Entries) + 1) /\ {} \in SUBSET (present \cap Keys) /\ 1..(1 - 1) = {}
  BY <1>1
<1>3. {} = UNION {EntrySwitches(Entries[i]) : i \in 1..(1 - 1)}
  BY <1>2
<1>4. switches' = {} /\ bases' = {} /\ NextEntry(1, {}, {}, SupportedBy(TypesOf[gateway]))
  BY DEF StartSwitches
<1> QED BY <1>2, <1>3, <1>4, NextEntryClean

\* The crawl of root n begins.
LEMMA RootBegins ==
  ASSUME UNCHANGED device, Found, NEW n \in 1..Len(CrawlRoots),
         at' = Await("sensors", n, 0, 0), outcome' = "none", supported' = SupportedBy(TypesOf[gateway]),
         todo' = Crawl(CrawlRoots[n].key, CrawlRoots[n].deep),
         TrueSensors = {SensorName[found'[i]] : i \in 1..Len(found')}
                         \cup UNION {RootSensors(CrawlRoots[m]) : m \in n..Len(CrawlRoots)}
  PROVE  CleanInv'
<1>1. at'.phase = "sensors" /\ at'.n = n
  BY DEF Await
<1>2. PICK types : types = TypesOf[gateway]
  OBVIOUS
<1>3. TypesSoFar(types)' /\ TypesOf[gateway'] = types
  <2>1. \A m \in types : ListsExactly(m, circuits'[m], TruePlaces(m))
    BY <1>2 DEF Found
  <2> QED BY <1>2, <2>1, TypesKept, SameTruth
<1>4. (at.phase \in {"sensors", "base", "probe"} => TypesSoFar(TypesOf[gateway]))'
  BY <1>3 DEF TypesSoFar, SupportedBy
<1>5. PICK root : root = CrawlRoots[n]
  OBVIOUS
<1>6. root.key \in Keys /\ root.deep \in Nat /\ n \in Nat /\ Len(CrawlRoots) \in Nat
  BY <1>5, RootTypes
<1>7. Len(todo') = 1 /\ 1..1 = {1} /\ todo'[1].key = root.key /\ todo'[1].deep = root.deep
  BY <1>5 DEF Crawl
<1>8. LeavesOf(todo, root.deep)' = Leaves(root.deep)[root.deep][root.key]
  <2>1. {Leaves(root.deep)'[todo'[i].deep][todo'[i].key] : i \in 1..Len(todo')}
          = {Leaves(root.deep)'[root.deep][root.key]}
    BY <1>7
  <2>2. Leaves(root.deep)' = Leaves(root.deep)
    BY SameTruth
  <2> QED BY <2>1, <2>2 DEF LeavesOf
<1>9. PICK later : later = UNION {RootSensors(CrawlRoots[m]) : m \in (n + 1)..Len(CrawlRoots)}
  OBVIOUS
<1>10. UNION {RootSensors(CrawlRoots[m]) : m \in n..Len(CrawlRoots)} = RootSensors(root) \cup later
  <2>1. \A m \in n..Len(CrawlRoots) : m = n \/ m \in (n + 1)..Len(CrawlRoots)
    BY <1>6
  <2>2. n \in n..Len(CrawlRoots) /\ \A m \in (n + 1)..Len(CrawlRoots) : m \in n..Len(CrawlRoots)
    BY <1>6
  <2> DEFINE all == UNION {RootSensors(CrawlRoots[m]) : m \in n..Len(CrawlRoots)}
  <2>3. \A x \in all : x \in RootSensors(root) \cup later
    BY <1>5, <1>9, <2>1
  <2>4. \A x \in RootSensors(root) \cup later : x \in all
    BY <1>5, <1>9, <2>2
  <2> HIDE DEF all
  <2>5. all = RootSensors(root) \cup later
    BY <2>3, <2>4
  <2> QED BY <2>5 DEF all
<1>11. later = UNION {RootSensors(CrawlRoots[m])' : m \in (n + 1)..Len(CrawlRoots)}
  <2>1. {RootSensors(CrawlRoots[m])' : m \in (n + 1)..Len(CrawlRoots)}
          = {RootSensors(CrawlRoots[m]) : m \in (n + 1)..Len(CrawlRoots)}
    BY SameTruth
  <2> QED BY <1>9, <2>1
<1>12. SensorsSoFar(n)'
  <2>1. \A i \in 1..Len(todo') : todo'[i].deep <= CrawlRoots[n].deep
    BY <1>5, <1>6, <1>7
  <2>2. Names(LeavesOf(todo, root.deep)' \ root.exclude) = RootSensors(root)
    BY <1>8 DEF RootSensors
  <2>3. TrueSensors' = TrueSensors
    BY SameTruth
  <2>4. TrueSensors' = {SensorName[found'[i]] : i \in 1..Len(found')}
          \cup Names(LeavesOf(todo, root.deep)' \ root.exclude) \cup later
    BY <1>10, <2>2, <2>3
  <2> QED BY <1>5, <1>11, <2>1, <2>4 DEF SensorsSoFar, Names
<1>13. CleanSoFar'
  BY <1>1, <1>4, <1>12 DEF CleanSoFar
<1>14. CleanDiscovery'
  BY DEF CleanDiscovery
<1> QED BY <1>13, <1>14 DEF CleanInv

\* The sensors begin once the circuits are done.
LEMMA SensorsBegin ==
  ASSUME UNCHANGED device, Found, outcome = "none", StartSensors(SupportedBy(TypesOf[gateway]))
  PROVE  CleanInv'
<1>1. sensors' = {} /\ found' = << >> /\ Len(CrawlRoots) \in Nat /\ DOMAIN CrawlRoots = 1..Len(CrawlRoots)
  BY DatabaseAssumption DEF StartSensors
<1>2. CASE CrawlRoots = << >>
  <2>1. TrueSensors = {}
    BY <1>2 DEF TrueSensors
  <2>2. StartSwitches(SupportedBy(TypesOf[gateway]))
    BY <1>2 DEF StartSensors
  <2> QED BY <1>1, <2>1, <2>2, SwitchesBegin
<1>3. CASE CrawlRoots # << >>
  <2>1. 1 \in 1..Len(CrawlRoots)
    BY <1>1, <1>3, DatabaseAssumption
  <2>2. /\ todo' = Crawl(CrawlRoots[1].key, CrawlRoots[1].deep)
        /\ supported' = SupportedBy(TypesOf[gateway])
        /\ at' = Await("sensors", 1, 0, 0) /\ outcome' = "none"
    BY <1>3 DEF StartSensors, GoOn
  <2>3. {SensorName[found'[i]] : i \in 1..Len(found')} = {}
    BY <1>1
  <2>4. TrueSensors = UNION {RootSensors(CrawlRoots[m]) : m \in 1..Len(CrawlRoots)}
    BY <1>1 DEF TrueSensors
  <2> QED BY <2>1, <2>2, <2>3, <2>4, RootBegins
<1> QED BY <1>2, <1>3

\* The names of a list with one more key.
LEMMA NamesMore ==
  ASSUME NEW s \in Seq(Keys), NEW k \in Keys
  PROVE  {SensorName[Append(s, k)[i]] : i \in 1..Len(Append(s, k))} =
           {SensorName[s[i]] : i \in 1..Len(s)} \cup {SensorName[k]}
<1>1. /\ Len(Append(s, k)) = Len(s) + 1 /\ Len(s) \in Nat /\ Append(s, k)[Len(s) + 1] = k
      /\ \A i \in 1..Len(s) : Append(s, k)[i] = s[i]
  OBVIOUS
<1>2. PICK t : t = Append(s, k)
  OBVIOUS
<1>3. \A i \in 1..(Len(s) + 1) : i \in 1..Len(s) \/ i = Len(s) + 1
  BY <1>1
<1>4. Len(s) + 1 \in 1..(Len(s) + 1) /\ \A i \in 1..Len(s) : i \in 1..(Len(s) + 1)
  BY <1>1
<1>5. {SensorName[t[i]] : i \in 1..(Len(s) + 1)} = {SensorName[s[i]] : i \in 1..Len(s)} \cup {SensorName[k]}
  BY <1>1, <1>2, <1>3, <1>4
<1> QED BY <1>1, <1>2, <1>5

\* A request of the crawl moves what it finds from before it to behind it.
LEMMA SensorsClean ==
  ASSUME DiscoveryInv, CleanInv, NEW st \in {"ok", "refused", "down"}, SensorsAnswered(st), met' = {}
  PROVE  CleanInv'
<1>1. Answer("sensors", st)
  BY DEF SensorsAnswered
<1>2. /\ met = {} /\ UNCHANGED device /\ at.phase = "sensors" /\ (st = "ok" <=> Wanted \in present)
      /\ at.phase \in {"circuits", "sensors"}
  BY <1>1, AnswerClean
<1>3. PICK n \in 1..Len(CrawlRoots) : n = at.n
  BY <1>2 DEF DiscoveryInv, TypeOK, PlaceTypes
<1>4. /\ supported = SupportedBy(TypesOf[gateway]) /\ SensorsSoFar(n)
      /\ \A m \in TypesOf[gateway] : ListsExactly(m, circuits[m], TruePlaces(m))
  BY <1>2, <1>3 DEF CleanInv, CleanSoFar, TypesSoFar
<1>5. PICK root : root = CrawlRoots[n]
  OBVIOUS
<1>6. root.key \in Keys /\ root.deep \in Nat /\ n \in Nat /\ Len(CrawlRoots) \in Nat
  BY <1>5, RootTypes
<1>7. PICK list \in Seq(Keys) : list = Got(st, root.exclude)
  BY <1>2, CrawlTypes DEF DiscoveryInv
<1>8. PICK left \in Seq(Steps) : left = Left(st)
  BY <1>2, CrawlTypes DEF DiscoveryInv
<1>9. outcome = "none" /\ circuits' = circuits /\ found \in Seq(Keys) /\ Wanted \in Keys
  BY <1>2, CrawlTypes DEF SensorsAnswered, DiscoveryInv, CallInv, TypeOK, Nowhere, Await
<1>10. PICK hit : hit = {k \in {Wanted} : st = "ok" /\ ~Opens(Head(todo))}
  OBVIOUS
<1>11. /\ \A i \in 1..Len(left) : left[i].deep <= root.deep
       /\ LeavesOf(todo, root.deep) = hit \cup LeavesOf(left, root.deep)
  <2>1. \A i \in 1..Len(todo) : todo[i].deep <= root.deep
    BY <1>4, <1>5 DEF SensorsSoFar
  <2> QED BY <1>2, <1>6, <1>8, <1>10, <2>1, CrawlLeaves DEF DiscoveryInv
<1>12. {SensorName[list[i]] : i \in 1..Len(list)} =
         {SensorName[found[i]] : i \in 1..Len(found)} \cup Names(hit \ root.exclude)
  <2>1. CASE st = "ok" /\ ~Opens(Head(todo)) /\ Wanted \notin root.exclude
    <3>1. list = Append(found, Wanted)
      BY <1>7, <2>1 DEF Got
    <3>2. hit \ root.exclude = {Wanted}
      BY <1>10, <2>1
    <3>3. Names({Wanted}) = {SensorName[Wanted]}
      BY DEF Names
    <3>4. PICK w \in Keys : w = Wanted
      BY <1>9
    <3>5. PICK s \in Seq(Keys) : s = found
      BY <1>9
    <3>6. list = Append(s, w)
      BY <3>1, <3>4, <3>5
    <3>7. {SensorName[list[i]] : i \in 1..Len(list)} =
            {SensorName[s[i]] : i \in 1..Len(s)} \cup {SensorName[w]}
      BY <3>6, NamesMore
    <3> QED BY <3>2, <3>3, <3>4, <3>5, <3>7
  <2>2. CASE ~(st = "ok" /\ ~Opens(Head(todo)) /\ Wanted \notin root.exclude)
    <3>1. list = found
      BY <1>7, <2>2 DEF Got
    <3>2. hit \ root.exclude = {}
      BY <1>10, <2>2
    <3>3. Names({}) = {}
      BY DEF Names
    <3> QED BY <3>1, <3>2, <3>3
  <2> QED BY <2>1, <2>2
<1>13. PICK later : later = UNION {RootSensors(CrawlRoots[m]) : m \in (n + 1)..Len(CrawlRoots)}
  OBVIOUS
<1>14. TrueSensors = {SensorName[list[i]] : i \in 1..Len(list)}
                       \cup Names(LeavesOf(left, root.deep) \ root.exclude) \cup later
  <2>1. TrueSensors = {SensorName[found[i]] : i \in 1..Len(found)}
                        \cup Names(LeavesOf(todo, root.deep) \ root.exclude) \cup later
    BY <1>4, <1>5, <1>13 DEF SensorsSoFar
  <2>2. ASSUME NEW a, NEW b
        PROVE  Names((a \cup b) \ root.exclude) = Names(a \ root.exclude) \cup Names(b \ root.exclude)
    BY DEF Names
  <2>3. Names(LeavesOf(todo, root.deep) \ root.exclude) =
          Names(hit \ root.exclude) \cup Names(LeavesOf(left, root.deep) \ root.exclude)
    BY <1>11, <2>2
  <2> QED BY <1>12, <2>1, <2>3
<1>15. Found
  BY <1>4, <1>9 DEF Found
<1>16. CASE left # << >>
  <2>1. /\ todo' = left /\ found' = list /\ at' = at /\ outcome' = outcome /\ supported' = supported
    BY <1>3, <1>5, <1>7, <1>8, <1>16 DEF SensorsAnswered, GoOn
  <2>2. at'.phase = "sensors" /\ at'.n = n
    BY <1>2, <1>3, <2>1
  <2>3. PICK types : types = TypesOf[gateway]
    OBVIOUS
  <2>4. TypesSoFar(types)' /\ TypesOf[gateway'] = types
    <3>1. \A m \in types : ListsExactly(m, circuits'[m], TruePlaces(m))
      BY <1>15, <2>3 DEF Found
    <3> QED BY <1>2, <1>4, <2>1, <2>3, <3>1, TypesKept, SameTruth
  <2>5. (at.phase \in {"sensors", "base", "probe"} => TypesSoFar(TypesOf[gateway]))'
    BY <2>4 DEF TypesSoFar, SupportedBy
  <2>6. SensorsSoFar(n)'
    <3>1. later = UNION {RootSensors(CrawlRoots[m])' : m \in (n + 1)..Len(CrawlRoots)}
      <4>1. {RootSensors(CrawlRoots[m])' : m \in (n + 1)..Len(CrawlRoots)}
              = {RootSensors(CrawlRoots[m]) : m \in (n + 1)..Len(CrawlRoots)}
        BY <1>2, SameTruth
      <4> QED BY <1>13, <4>1
    <3>2. LeavesOf(todo, root.deep)' = LeavesOf(left, root.deep)
      <4>1. Leaves(root.deep)' = Leaves(root.deep)
        BY <1>2, SameTruth
      <4> QED BY <2>1, <4>1 DEF LeavesOf
    <3>3. TrueSensors' = TrueSensors
      BY <1>2, SameTruth
    <3>4. TrueSensors' = {SensorName[found'[i]] : i \in 1..Len(found')}
            \cup Names(LeavesOf(todo, root.deep)' \ root.exclude) \cup later
      BY <1>14, <2>1, <3>2, <3>3
    <3>5. \A i \in 1..Len(todo') : todo'[i].deep <= CrawlRoots[n].deep
      BY <1>5, <1>11, <2>1
    <3> QED BY <1>5, <3>1, <3>4, <3>5 DEF SensorsSoFar, Names
  <2>7. CleanSoFar'
    BY <2>2, <2>5, <2>6 DEF CleanSoFar
  <2>8. CleanDiscovery'
    BY <1>9, <2>1 DEF CleanDiscovery
  <2> QED BY <2>7, <2>8 DEF CleanInv
<1>17. CASE left = << >>
  <2>1. LeavesOf(left, root.deep) = {} /\ Names({} \ root.exclude) = {}
    <3>1. 1..Len(<< >>) = {}
      OBVIOUS
    <3>2. LeavesOf(<< >>, root.deep) = {}
      BY <3>1 DEF LeavesOf
    <3> QED BY <1>17, <3>2 DEF Names
  <2>2. TrueSensors = {SensorName[list[i]] : i \in 1..Len(list)} \cup later
    BY <1>14, <2>1
  <2>3. CASE n < Len(CrawlRoots)
    <3>1. /\ todo' = Crawl(CrawlRoots[n + 1].key, CrawlRoots[n + 1].deep) /\ found' = list
          /\ at' = Await("sensors", n + 1, 0, 0) /\ outcome' = "none"
          /\ supported' = SupportedBy(TypesOf[gateway])
      BY <1>3, <1>4, <1>5, <1>7, <1>8, <1>9, <1>17, <2>3 DEF SensorsAnswered, GoOn
    <3>2. n + 1 \in 1..Len(CrawlRoots)
      BY <1>6, <2>3
    <3>3. TrueSensors = {SensorName[found'[i]] : i \in 1..Len(found')}
                          \cup UNION {RootSensors(CrawlRoots[m]) : m \in (n + 1)..Len(CrawlRoots)}
      BY <1>13, <2>2, <3>1
    <3> QED BY <1>2, <1>15, <3>1, <3>2, <3>3, RootBegins
  <2>4. CASE ~(n < Len(CrawlRoots))
    <3>1. /\ sensors' = {SensorName[list[i]] : i \in 1..Len(list)}
          /\ StartSwitches(SupportedBy(TypesOf[gateway]))
      BY <1>3, <1>4, <1>5, <1>7, <1>8, <1>17, <2>4 DEF SensorsAnswered
    <3>2. (n + 1)..Len(CrawlRoots) = {}
      BY <1>6, <2>4
    <3>3. later = {}
      BY <1>13, <3>2
    <3>4. sensors' = TrueSensors
      BY <2>2, <3>1, <3>3
    <3> QED BY <1>2, <1>9, <1>15, <3>1, <3>4, SwitchesBegin
  <2> QED BY <2>3, <2>4
<1> QED BY <1>16, <1>17

-----------------------------------------------------------------------------
(* Without failures: the circuits                                          *)

Circuit == [id : Keys, switches : SUBSET Keys]

\* The references of a directory.
LEMMA RefTypes ==
  ASSUME NEW n \in All
  PROVE  /\ RefsOf(n) \in Seq(Keys) /\ Len(RefsOf(n)) \in Nat
         /\ TruePlaces(n) \subseteq 1..Len(RefsOf(n)) /\ 1..Len(RefsOf(n)) \subseteq Nat
         /\ DirectoryOf[n] \in Directories /\ DirectoryOf[n] \in Keys
BY Constants DEF RefsOf, TruePlaces

\* An empty list has just the circuits at no places.
LEMMA ListsNone ==
  ASSUME NEW n, NEW places, places = {}
  PROVE  ListsExactly(n, << >>, places)
<1>1. 1..Len(<< >>) = {}
  OBVIOUS
<1>2. [i \in 1..Len(<< >>) |-> << >>[i].id] = << >>
  BY <1>1
<1>3. Picks(<< >>, RefsOf(n), {})
  BY PicksNone
<1> QED BY <1>1, <1>2, <1>3 DEF ListsExactly

\* One more circuit, that stands behind the others in the directory.
LEMMA ListsMore ==
  ASSUME NEW n \in All, NEW list \in Seq(Circuit), NEW new \in Circuit, NEW r \in 1..Len(RefsOf(n)),
         NEW S, S \subseteq 1..Len(RefsOf(n)), \A x \in S : x < r, ListsExactly(n, list, S),
         new.id = RefsOf(n)[r], new.switches = SwitchesOn(n, new.id)
  PROVE  ListsExactly(n, list \o <<new>>, S \cup {r})
<1>1. PICK all \in Seq(Keys) : all = RefsOf(n)
  BY RefTypes
<1>2. PICK more \in Seq(Circuit) : more = list \o <<new>>
  <2>1. <<new>> \in Seq(Circuit)
    OBVIOUS
  <2>2. list \o <<new>> \in Seq(Circuit)
    BY <2>1
  <2> QED BY <2>2
<1>3. /\ Len(list) \in Nat /\ Len(more) = Len(list) + 1 /\ more[Len(list) + 1] = new
      /\ \A i \in 1..Len(list) : more[i] = list[i]
      /\ \A i \in 1..(Len(list) + 1) : i \in 1..Len(list) \/ i = Len(list) + 1
  BY <1>2
<1>4. \A i \in 1..Len(list) : list[i].id \in Keys
  <2>1. \A i \in 1..Len(list) : list[i] \in Circuit
    OBVIOUS
  <2> QED BY <2>1 DEF Circuit
<1>5. PICK ids \in Seq(Keys) : ids = [i \in 1..Len(list) |-> list[i].id]
  <2>1. [i \in 1..Len(list) |-> list[i].id] \in Seq(Keys)
    BY <1>3, <1>4
  <2> QED BY <2>1
<1>6. Picks(ids, all, S) /\ \A i \in 1..Len(list) : list[i].switches = SwitchesOn(n, list[i].id)
  BY <1>1, <1>5 DEF ListsExactly
<1>7. Picks(Append(ids, all[r]), all, S \cup {r})
  BY <1>1, <1>6, PicksMore
<1>8. [i \in 1..Len(more) |-> more[i].id] = Append(ids, all[r])
  <2>1. Len(ids) = Len(list) /\ all[r] = new.id /\ \A i \in 1..Len(list) : ids[i] = list[i].id
    BY <1>1, <1>3, <1>5
  <2>2. /\ Append(ids, all[r]) = [i \in 1..(Len(list) + 1) |-> IF i \in 1..Len(list) THEN ids[i] ELSE all[r]]
    BY <1>3, <2>1
  <2>3. \A i \in 1..(Len(list) + 1) : more[i].id = IF i \in 1..Len(list) THEN ids[i] ELSE all[r]
    BY <1>3, <2>1
  <2> QED BY <1>3, <2>2, <2>3
<1>9. \A i \in 1..Len(more) : more[i].switches = SwitchesOn(n, more[i].id)
  BY <1>3, <1>6
<1> QED BY <1>1, <1>2, <1>7, <1>8, <1>9 DEF ListsExactly

\* The first circuit is the first of the device.
LEMMA ListsFirst ==
  ASSUME NEW n \in All, NEW list \in Seq(Circuit), ListsExactly(n, list, TruePlaces(n))
  PROVE  /\ list = << >> <=> TruePlaces(n) = {}
         /\ list # << >> => list[1].switches = FirstSwitches(n)
<1>1. PICK S \in SUBSET Nat : S = TruePlaces(n)
  BY RefTypes
<1>2. PICK ids : ids = [i \in 1..Len(list) |-> list[i].id]
  OBVIOUS
<1>3. PICK place \in [DOMAIN ids -> S] : Placed(ids, RefsOf(n), S, place)
  BY <1>1, <1>2 DEF ListsExactly, Picks
<1>4. /\ Len(list) \in Nat /\ \A i, j \in 1..Len(list) : i < j => place[i] < place[j]
      /\ \A p \in S : \E i \in 1..Len(list) : place[i] = p
      /\ \A i \in 1..Len(list) : list[i].id = RefsOf(n)[place[i]] /\ place[i] \in S
  BY <1>2, <1>3 DEF Placed
<1>5. list = << >> <=> S = {}
  <2>1. list = << >> => 1..Len(list) = {}
    OBVIOUS
  <2>2. list # << >> => 1 \in 1..Len(list)
    OBVIOUS
  <2> QED BY <1>4, <2>1, <2>2
<1>6. ASSUME list # << >> PROVE list[1].switches = FirstSwitches(n)
  <2>1. 1 \in 1..Len(list) /\ S # {}
    BY <1>4, <1>5, <1>6
  <2>2. PICK l \in S : l = Least(S) /\ \A i \in S : l <= i
    BY <2>1, LeastOf
  <2>3. PICK i \in 1..Len(list) : place[i] = l
    BY <1>4
  <2>4. place[1] = l
    <3>1. l <= place[1] /\ place[1] \in Nat /\ l \in Nat
      BY <1>4, <2>1, <2>2
    <3>2. i = 1 \/ place[1] < place[i]
      BY <1>4, <2>1, <2>3
    <3> QED BY <2>3, <3>1, <3>2
  <2>5. list[1].id = RefsOf(n)[l]
    BY <1>4, <2>1, <2>4
  <2>6. list[1].switches = SwitchesOn(n, list[1].id)
    BY <2>1 DEF ListsExactly
  <2> QED BY <1>1, <2>2, <2>5, <2>6 DEF FirstSwitches
<1> QED BY <1>1, <1>5, <1>6

\* What one more type adds to the capabilities.
LEMMA SupportedMore ==
  ASSUME NEW B, NEW n
  PROVE  SupportedBy(B \cup {n}) =
           SupportedBy(B) \cup (IF n \in TrueTypes
             THEN {Types[n]} \cup {s \in {"number"} : FirstSwitches(n) \cap Numbers # {}} ELSE {})
<1>1. (B \cup {n}) \cap TrueTypes = (B \cap TrueTypes) \cup (IF n \in TrueTypes THEN {n} ELSE {})
  OBVIOUS
<1>2. PICK A : A = B \cap TrueTypes
  OBVIOUS
<1>3. CASE n \in TrueTypes
  <2>1. (B \cup {n}) \cap TrueTypes = A \cup {n}
    BY <1>2, <1>3
  <2>2. {Types[m] : m \in A \cup {n}} = {Types[m] : m \in A} \cup {Types[n]}
    OBVIOUS
  <2>3. {s \in {"number"} : \E m \in A \cup {n} : FirstSwitches(m) \cap Numbers # {}}
          = {s \in {"number"} : \E m \in A : FirstSwitches(m) \cap Numbers # {}}
              \cup {s \in {"number"} : FirstSwitches(n) \cap Numbers # {}}
    OBVIOUS
  <2>4. SupportedBy(B \cup {n}) = {Types[m] : m \in A \cup {n}}
          \cup {s \in {"number"} : \E m \in A \cup {n} : FirstSwitches(m) \cap Numbers # {}}
    BY <2>1 DEF SupportedBy
  <2>5. SupportedBy(B) = {Types[m] : m \in A}
          \cup {s \in {"number"} : \E m \in A : FirstSwitches(m) \cap Numbers # {}}
    BY <1>2 DEF SupportedBy
  <2> QED BY <1>3, <2>2, <2>3, <2>4, <2>5
<1>4. CASE n \notin TrueTypes
  BY <1>1, <1>4 DEF SupportedBy
<1> QED BY <1>3, <1>4

\* The crawl of a type begins.
LEMMA TypeBegins ==
  ASSUME UNCHANGED device, NEW n \in TypesOf[gateway], NEW behind, behind = {m \in TypesOf[gateway] : m < n},
         supported' = SupportedBy(behind), \A m \in behind : ListsExactly(m, circuits'[m], TruePlaces(m)),
         circuits'[n] = << >>, todo' = Crawl(DirectoryOf[n], 1), found' = << >>,
         at' = Await("circuits", n, 0, 0), outcome' = "none"
  PROVE  CleanInv'
<1>1. at'.phase = "circuits" /\ at'.n = n
  BY DEF Await
<1>2. TypesSoFar(behind)'
  BY TypesKept
<1>3. {m \in TypesOf[gateway'] : m < n} = behind
  BY SameTruth
<1>4. CrawlSoFar(n)'
  BY DEF CrawlSoFar, Crawl
<1>5. TypesSoFar({m \in TypesOf[gateway] : m < n})'
  BY <1>2, <1>3 DEF TypesSoFar, SupportedBy
<1>6. CleanSoFar'
  BY <1>1, <1>4, <1>5 DEF CleanSoFar
<1>7. CleanDiscovery'
  BY DEF CleanDiscovery
<1> QED BY <1>6, <1>7 DEF CleanInv

\* When a type ends its list has just the circuits of the device.
LEMMA NextTypeClean ==
  ASSUME DiscoveryInv, UNCHANGED device, outcome = "none", NEW n \in TypesOf[gateway], n = at.n,
         NEW lists \in [All -> CircuitLists], \A m \in All \ {n} : lists[m] = circuits[m],
         TypesSoFar({m \in TypesOf[gateway] : m < n}), ListsExactly(n, lists[n], TruePlaces(n)),
         NextType("ok", lists)
  PROVE  CleanInv'
<1>1. /\ TypesOf[gateway] \subseteq All /\ TypesOf[gateway] \subseteq Nat /\ n \in All /\ n \in Nat
  BY Constants DEF DiscoveryInv, TypeOK
<1>2. PICK types \in SUBSET Nat : types = TypesOf[gateway]
  BY <1>1
<1>3. PICK behind : behind = {m \in types : m < n}
  OBVIOUS
<1>4. PICK adds : adds = IF lists[n] = << >> THEN {}
                         ELSE {Types[n]} \cup {c \in {"number"} : lists[n][1].switches \cap Numbers # {}}
  OBVIOUS
<1>5. PICK rest : rest = {m \in types : m > n}
  OBVIOUS
<1>6. supported = SupportedBy(behind) /\ \A m \in behind : ListsExactly(m, circuits[m], TruePlaces(m))
  BY <1>2, <1>3 DEF TypesSoFar
<1>7. supported \cup adds = SupportedBy(behind \cup {n})
  <2>1. lists[n] \in Seq(Circuit)
    BY <1>1 DEF CircuitLists, Circuit
  <2>2. PICK list \in Seq(Circuit) : list = lists[n]
    BY <2>1
  <2>3. /\ list = << >> <=> TruePlaces(n) = {}
        /\ list # << >> => list[1].switches = FirstSwitches(n)
    BY <1>1, <2>2, ListsFirst
  <2>4. n \in TrueTypes <=> list # << >>
    BY <2>3 DEF TrueTypes
  <2>5. adds = IF n \in TrueTypes
                 THEN {Types[n]} \cup {s \in {"number"} : FirstSwitches(n) \cap Numbers # {}} ELSE {}
    BY <1>4, <2>2, <2>3, <2>4
  <2> QED BY <1>6, <2>5, SupportedMore
<1>8. \A m \in behind \cup {n} : ListsExactly(m, lists[m], TruePlaces(m))
  <2>1. \A m \in behind : m \in All \ {n}
    BY <1>1, <1>2, <1>3
  <2> QED BY <1>6, <2>1
<1>9. CASE rest # {}
  <2>1. PICK next \in rest : next = Least(rest) /\ \A m \in rest : next <= m
    <3>1. rest \subseteq Nat
      BY <1>2, <1>5
    <3> QED BY <1>9, <3>1, LeastOf
  <2>2. /\ circuits' = [lists EXCEPT ![next] = << >>] /\ supported' = supported \cup adds
        /\ todo' = Crawl(DirectoryOf[next], 1) /\ found' = << >>
        /\ at' = Await("circuits", next, 0, 0) /\ outcome' = "none"
    BY <1>2, <1>4, <1>5, <1>9, <2>1 DEF NextType, GoOn
  <2>3. next \in types /\ next > n /\ next \in Nat /\ next \in All
    BY <1>1, <1>2, <1>5, <2>1
  <2>4. behind \cup {n} = {m \in types : m < next}
    <3>1. \A m \in types : m < next <=> m < n \/ m = n
      BY <1>1, <1>2, <1>5, <2>1, <2>3
    <3> QED BY <1>2, <1>3, <3>1
  <2>5. \A m \in behind \cup {n} : m \in All /\ m # next
    BY <1>1, <1>2, <2>3, <2>4
  <2>6. circuits'[next] = << >> /\ \A m \in behind \cup {n} : circuits'[m] = lists[m]
    BY <2>2, <2>3, <2>5
  <2>7. \A m \in behind \cup {n} : ListsExactly(m, circuits'[m], TruePlaces(m))
    BY <1>8, <2>6
  <2>8. PICK before : before = behind \cup {n}
    OBVIOUS
  <2> QED BY <1>2, <1>7, <2>2, <2>3, <2>4, <2>6, <2>7, <2>8, TypeBegins
<1>10. CASE rest = {}
  <2>1. behind \cup {n} = types
    <3>1. \A m \in types : m < n \/ m = n
      BY <1>1, <1>2, <1>5, <1>10
    <3> QED BY <1>2, <1>3, <3>1
  <2>2. circuits' = lists /\ StartSensors(supported \cup adds)
    BY <1>2, <1>4, <1>5, <1>10 DEF NextType
  <2>3. Found
    BY <1>2, <1>8, <2>1, <2>2 DEF Found
  <2>4. supported \cup adds = SupportedBy(TypesOf[gateway])
    BY <1>2, <1>7, <2>1
  <2> QED BY <2>2, <2>3, <2>4, SensorsBegin
<1> QED BY <1>9, <1>10

\* Only directories are circuits.
LEMMA NoCircuitBetween ==
  ASSUME NEW n \in All, NEW list \in Seq(Keys), NEW i \in Nat, NEW j \in Nat,
         i <= j, i >= 1, j <= Len(list) + 1,
         NEW place \in [1..Len(list) -> Members(n)], Placed(list, RefsOf(n), Members(n), place),
         \A k \in i..(j - 1) : list[k] \notin Directories
  PROVE  \A k \in 1..(j - 1) : place[k] \in TruePlaces(n) => k \in 1..(i - 1)
<1>1. Len(list) \in Nat /\ DOMAIN list = 1..Len(list) /\ DOMAIN place = 1..Len(list)
  OBVIOUS
<1>2. \A r \in TruePlaces(n) : r \in Members(n) /\ RefsOf(n)[r] \in Directories
  BY DEF TruePlaces, HasCircuit, Members
<1>3. ASSUME NEW k \in 1..(j - 1), place[k] \in TruePlaces(n)
      PROVE  k \in 1..(i - 1)
  <2>1. list[k] \in Directories
    <3>1. k \in 1..Len(list)
      BY <1>1
    <3> QED BY <1>1, <1>2, <1>3, <3>1 DEF Placed
  <2> QED BY <1>3, <2>1
<1> QED BY <1>3

\* Creating goes on with a circuit from i on, or with the next type.
LEMMA CreateClean ==
  ASSUME DiscoveryInv, UNCHANGED device, outcome = "none", NEW n \in TypesOf[gateway], n = at.n,
         NEW i \in Nat \ {0}, NEW list \in Seq(Keys), i <= Len(list) + 1,
         NEW lists \in [All -> CircuitLists], \A m \in All \ {n} : lists[m] = circuits[m],
         TypesSoFar({m \in TypesOf[gateway] : m < n}), DirectoryOf[n] \in present,
         MadeSoFar(n, i, list, lists), Create(i, list, lists)
  PROVE  CleanInv'
<1>1. /\ TypesOf[gateway] \subseteq All /\ TypesOf[gateway] \subseteq Nat /\ n \in All /\ n \in Nat
      /\ Len(list) \in Nat /\ i \in Nat /\ i >= 1
  <2>1. gateway \in Gateways
    BY DEF DiscoveryInv, TypeOK
  <2>2. TypesOf[gateway] \subseteq All /\ TypesOf[gateway] \subseteq Nat
    BY <2>1, Constants
  <2>3. Len(list) \in Nat /\ i \in Nat /\ i >= 1
    OBVIOUS
  <2> QED BY <2>2, <2>3
<1>2. PICK types \in SUBSET Nat : types = TypesOf[gateway]
  BY <1>1
<1>3. PICK behind : behind = {m \in types : m < n}
  OBVIOUS
<1>4. PICK circuit : circuit = {j \in i..Len(list) : list[j] \in Directories}
  OBVIOUS
<1>5. PICK place \in [1..Len(list) -> Members(n)] :
        /\ Placed(list, RefsOf(n), Members(n), place)
        /\ ListsExactly(n, lists[n], TruePlaces(n) \cap {place[k] : k \in 1..(i - 1)})
  BY DEF MadeSoFar
<1>6. CASE circuit = {}
  <2>1. NextType("ok", lists)
    BY <1>4, <1>6 DEF Create
  <2>2. PICK j \in Nat : j = Len(list) + 1
    BY <1>1
  <2>3. \A k \in i..(j - 1) : list[k] \notin Directories
    BY <1>1, <1>4, <1>6, <2>2
  <2>4. TruePlaces(n) \cap {place[k] : k \in 1..(j - 1)} = TruePlaces(n) \cap {place[k] : k \in 1..(i - 1)}
    <3>1. i <= j /\ j <= Len(list) + 1
      BY <1>1, <2>2
    <3>2. \A k \in 1..(j - 1) : place[k] \in TruePlaces(n) => k \in 1..(i - 1)
      BY <1>1, <1>5, <2>3, <3>1, NoCircuitBetween
    <3>3. \A k \in 1..(i - 1) : k \in 1..(j - 1)
      BY <1>1, <2>2, <3>1
    <3> QED BY <3>2, <3>3
  <2>5. TruePlaces(n) \cap {place[k] : k \in 1..(j - 1)} = TruePlaces(n)
    <3>1. \A r \in TruePlaces(n) : r \in Members(n)
      BY DEF TruePlaces, HasCircuit, Members
    <3>2. 1..(j - 1) = 1..Len(list) /\ DOMAIN list = 1..Len(list)
      BY <1>1, <2>2
    <3>3. \A r \in Members(n) : \E k \in 1..Len(list) : place[k] = r
      BY <1>5, <3>2 DEF Placed
    <3> QED BY <3>1, <3>2, <3>3
  <2>6. ListsExactly(n, lists[n], TruePlaces(n))
    BY <1>5, <2>4, <2>5
  <2> QED BY <2>1, <2>6, NextTypeClean
<1>7. CASE circuit # {}
  <2>1. PICK j \in circuit : j = Least(circuit) /\ \A k \in circuit : j <= k
    <3>1. circuit \subseteq Nat
      BY <1>1, <1>4
    <3> QED BY <1>7, <3>1, LeastOf
  <2>2. j \in Nat /\ i <= j /\ j <= Len(list) /\ list[j] \in Directories
    BY <1>1, <1>4, <2>1
  <2>3. \A k \in i..(j - 1) : list[k] \notin Directories
    BY <1>1, <1>4, <2>1, <2>2
  <2>4. /\ at' = Await("create", n, j, 1) /\ outcome' = "none" /\ draft' = NoDraft
        /\ circuits' = lists /\ found' = list /\ supported' = supported
    BY <1>4, <1>7, <2>1 DEF Create, GoOn
  <2>5. TruePlaces(n) \cap {place[k] : k \in 1..(j - 1)} = TruePlaces(n) \cap {place[k] : k \in 1..(i - 1)}
    <3>1. i <= j /\ j <= Len(list) + 1
      BY <1>1, <2>2
    <3>2. \A k \in 1..(j - 1) : place[k] \in TruePlaces(n) => k \in 1..(i - 1)
      BY <1>1, <1>5, <2>2, <2>3, <3>1, NoCircuitBetween
    <3>3. \A k \in 1..(i - 1) : k \in 1..(j - 1)
      BY <1>1, <2>2, <3>1
    <3> QED BY <3>2, <3>3
  <2>6. MadeSoFar(n, j, list, lists)
    BY <1>5, <2>5 DEF MadeSoFar
  <2>7. at'.phase = "create" /\ at'.n = n /\ at'.j = j /\ at'.p = 1
    BY <2>4 DEF Await
  <2>8. MadeSoFar(n, at.j, found, circuits)'
    <3>1. MadeSoFar(n, j, list, lists)'
      <4>1. Members(n)' = Members(n) /\ TruePlaces(n)' = TruePlaces(n) /\ present' = present
        BY SameTruth
      <4> QED BY <2>6, <4>1 DEF MadeSoFar, ListsExactly, SwitchesOn
    <3> QED BY <2>4, <2>7, <3>1 DEF MadeSoFar, ListsExactly
  <2>9. DraftSoFar(n, found[at.j])'
    <3>1. 2..(at'.p - 1) = {} /\ 3..(at'.p - 1) = {}
      BY <2>7
    <3> QED BY <2>4, <2>7, <3>1 DEF DraftSoFar, NoDraft
  <2>10. CreateSoFar(n)'
    BY <2>8, <2>9, SameTruth DEF CreateSoFar
  <2>11. TypesSoFar({m \in TypesOf[gateway] : m < n})'
    <3>1. \A m \in behind : ListsExactly(m, circuits'[m], TruePlaces(m))
      <4>1. \A m \in behind : m \in All \ {n}
        BY <1>1, <1>2, <1>3
      <4> QED BY <1>2, <1>3, <2>4, <4>1 DEF TypesSoFar
    <3>2. supported' = SupportedBy(behind)
      BY <1>2, <1>3, <2>4 DEF TypesSoFar
    <3>3. TypesSoFar(behind)'
      BY <3>1, <3>2, TypesKept
    <3>4. {m \in TypesOf[gateway'] : m < n} = behind
      BY <1>2, <1>3, SameTruth
    <3> QED BY <3>3, <3>4 DEF TypesSoFar, SupportedBy
  <2>12. CleanSoFar'
    BY <2>7, <2>10, <2>11 DEF CleanSoFar
  <2>13. CleanDiscovery'
    BY <2>4 DEF CleanDiscovery
  <2> QED BY <2>12, <2>13 DEF CleanInv
<1> QED BY <1>6, <1>7

\* What is left of a directory of which b references are behind, and what those gave.
After(n, b, left, list) ==
  /\ left = [i \in 1..(Len(RefsOf(n)) - b) |-> [key |-> RefsOf(n)[b + i], deep |-> 0]]
  /\ Picks(list, RefsOf(n), {r \in 1..b : RefsOf(n)[r] \in present})

\* The crawl of a directory goes on, or the circuits are made.
LEMMA CrawlGoesOn ==
  ASSUME DiscoveryInv, UNCHANGED device, outcome = "none", NEW n \in TypesOf[gateway], n = at.n,
         at.phase = "circuits",
         TypesSoFar({m \in TypesOf[gateway] : m < n}), DirectoryOf[n] \in present, circuits[n] = << >>,
         NEW b \in 0..Len(RefsOf(n)), NEW left, NEW list \in Seq(Keys), After(n, b, left, list),
         IF left = << >> THEN Create(1, list, circuits)
         ELSE /\ todo' = left /\ found' = list /\ GoOn(at)
              /\ UNCHANGED <<circuits, sensors, switches, bases, supported, draft, ended>>
  PROVE  CleanInv'
<1>1. TypesOf[gateway] \subseteq All /\ n \in All /\ circuits \in [All -> CircuitLists]
  <2>1. gateway \in Gateways /\ circuits \in [All -> CircuitLists]
    BY DEF DiscoveryInv, TypeOK
  <2> QED BY <2>1, Constants
<1>2. PICK refs \in Seq(Keys) : refs = RefsOf(n)
  BY <1>1, RefTypes
<1>3. b \in 0..Len(refs) /\ Len(refs) \in Nat /\ b \in Nat
  BY <1>2
<1>4. CASE left = << >>
  <2>1. b = Len(refs)
    <3>1. Len(left) = Len(refs) - b
      BY <1>2, <1>3 DEF After
    <3> QED BY <1>3, <1>4, <3>1
  <2>2. {r \in 1..b : refs[r] \in present} = Members(n)
    BY <1>2, <2>1 DEF Members
  <2>3. PICK place \in [DOMAIN list -> Members(n)] : Placed(list, refs, Members(n), place)
    BY <1>2, <2>2 DEF After, Picks
  <2>4. TruePlaces(n) \cap {place[k] : k \in 1..(1 - 1)} = {}
    OBVIOUS
  <2>5. ListsExactly(n, circuits[n], TruePlaces(n) \cap {place[k] : k \in 1..(1 - 1)})
    BY <2>4, ListsNone
  <2>6. MadeSoFar(n, 1, list, circuits)
    <3>1. DOMAIN list = 1..Len(list)
      OBVIOUS
    <3> QED BY <1>2, <2>3, <2>5, <3>1 DEF MadeSoFar
  <2>7. Create(1, list, circuits) /\ 1 \in Nat \ {0} /\ 1 <= Len(list) + 1
    BY <1>4
  <2> QED BY <1>1, <2>6, <2>7, CreateClean
<1>5. CASE left # << >>
  <2>1. /\ todo' = left /\ found' = list /\ at' = at /\ outcome' = "none"
        /\ circuits' = circuits /\ supported' = supported
    BY <1>5 DEF GoOn
  <2>2. at'.phase = "circuits" /\ at'.n = n
    BY <2>1
  <2>3. CrawlSoFar(n)'
    <3>1. RefsOf(n)' = RefsOf(n) /\ present' = present
      BY SameTruth DEF RefsOf
    <3>2. todo' = [i \in 1..(Len(RefsOf(n)) - b) |-> [key |-> RefsOf(n)[b + i], deep |-> 0]]
      BY <2>1 DEF After
    <3>3. Picks(found', RefsOf(n), {r \in 1..b : RefsOf(n)[r] \in present'})
      BY <2>1, <3>1 DEF After
    <3>4. DirectoryOf[n] \in present' /\ circuits'[n] = << >>
      BY <2>1, <3>1
    <3> QED BY <3>2, <3>3, <3>4 DEF CrawlSoFar, RefsOf
  <2>4. PICK behind : behind = {m \in TypesOf[gateway] : m < n}
    OBVIOUS
  <2>5. TypesSoFar({m \in TypesOf[gateway] : m < n})'
    <3>1. TypesSoFar(behind)'
      BY <2>1, <2>4, TypesKept DEF TypesSoFar
    <3>2. {m \in TypesOf[gateway'] : m < n} = behind
      BY <2>4, SameTruth
    <3> QED BY <3>1, <3>2 DEF TypesSoFar, SupportedBy
  <2>6. CleanSoFar'
    BY <2>2, <2>3, <2>5 DEF CleanSoFar
  <2>7. CleanDiscovery'
    BY <2>1 DEF CleanDiscovery
  <2> QED BY <2>6, <2>7 DEF CleanInv
<1> QED BY <1>4, <1>5

\* A request to the directory, or to one of its members.
LEMMA CircuitsClean ==
  ASSUME DiscoveryInv, CleanInv, NEW st \in {"ok", "refused", "down"}, CircuitsAnswered(st), met' = {}
  PROVE  CleanInv'
<1>1. Answer("circuits", st)
  BY DEF CircuitsAnswered
<1>2. /\ met = {} /\ UNCHANGED device /\ at.phase = "circuits" /\ (st = "ok" <=> Wanted \in present)
      /\ at.phase \in {"circuits", "sensors"}
  BY <1>1, AnswerClean
<1>3. st # "down"
  BY <1>1 DEF Answer
<1>4. PICK n \in TypesOf[gateway] : n = at.n
  BY <1>2 DEF DiscoveryInv, TypeOK, PlaceTypes
<1>5. TypesSoFar({m \in TypesOf[gateway] : m < n}) /\ CrawlSoFar(n)
  BY <1>2, <1>4 DEF CleanInv, CleanSoFar
<1>6. /\ TypesOf[gateway] \subseteq All /\ n \in All /\ circuits \in [All -> CircuitLists]
      /\ found \in Seq(Keys) /\ outcome = "none" /\ todo # << >>
  <2>1. gateway \in Gateways /\ circuits \in [All -> CircuitLists] /\ found \in Seq(Keys) /\ todo # << >>
    BY <1>2 DEF DiscoveryInv, TypeOK, PlaceTypes
  <2>2. outcome = "none"
    BY <1>2 DEF DiscoveryInv, CallInv, Nowhere, Await
  <2> QED BY <2>1, <2>2, Constants
<1>7. IF Left(st) = << >> THEN Create(1, Got(st, {}), circuits)
      ELSE /\ todo' = Left(st) /\ found' = Got(st, {}) /\ GoOn(at)
           /\ UNCHANGED <<circuits, sensors, switches, bases, supported, draft, ended>>
  BY <1>3 DEF CircuitsAnswered
<1>8. PICK refs \in Seq(Keys) : refs = RefsOf(n)
  BY <1>6, RefTypes
<1>9. PICK list \in Seq(Keys) : list = Got(st, {})
  BY <1>2, CrawlTypes DEF DiscoveryInv
<1>10. PICK left \in Seq(Steps) : left = Left(st)
  BY <1>2, CrawlTypes DEF DiscoveryInv
<1>11. CASE todo = Crawl(DirectoryOf[n], 1) /\ found = << >>
  <2>1. PICK h : h = [key |-> DirectoryOf[n], deep |-> 1]
    OBVIOUS
  <2>2. todo = <<h>> /\ Head(todo) = h /\ Tail(todo) = << >> /\ h.key = DirectoryOf[n] /\ h.deep = 1
    BY <1>11, <2>1 DEF Crawl
  <2>3. Opens(h) /\ Wanted = DirectoryOf[n]
    BY <1>2, <1>6, <2>2, RefTypes DEF Opens, Wanted
  <2>4. list = << >>
    BY <1>9, <1>11, <2>2, <2>3 DEF Got
  <2>5. CASE st = "ok"
    <3>1. Left(st) = Below(h) \o << >>
      BY <2>2, <2>3, <2>5 DEF Left
    <3>2. Below(h) = [i \in 1..Len(refs) |-> [key |-> refs[i], deep |-> 0]]
      BY <1>8, <2>2 DEF Below, RefsOf
    <3>3. Left(st) = Below(h)
      <4>1. Below(h) \in Seq(Steps)
        BY <1>2, <2>2, <2>3, CrawlTypes DEF DiscoveryInv
      <4> QED BY <3>1, <4>1
    <3>4. left = [i \in 1..(Len(refs) - 0) |-> [key |-> refs[0 + i], deep |-> 0]]
      <4>1. Len(refs) - 0 = Len(refs) /\ \A i \in 1..Len(refs) : 0 + i = i
        OBVIOUS
      <4> QED BY <1>10, <3>2, <3>3, <4>1
    <3>5. {r \in 1..0 : refs[r] \in present} = {}
      OBVIOUS
    <3>6. After(n, 0, left, list)
      BY <1>8, <2>4, <3>4, <3>5, PicksNone DEF After
    <3>7. DirectoryOf[n] \in present /\ circuits[n] = << >> /\ 0 \in 0..Len(RefsOf(n))
      BY <1>2, <1>5, <1>8, <2>3, <2>5 DEF CrawlSoFar
    <3> QED BY <1>2, <1>4, <1>5, <1>6, <1>7, <1>9, <1>10, <3>6, <3>7, CrawlGoesOn
  <2>6. CASE st # "ok"
    <3>1. Left(st) = << >> /\ DirectoryOf[n] \notin present
      BY <1>2, <2>2, <2>3, <2>6 DEF Left
    <3>2. Create(1, << >>, circuits)
      BY <1>7, <1>9, <2>4, <3>1
    <3>3. NextType("ok", circuits)
      <4>1. 1..Len(<< >>) = {}
        OBVIOUS
      <4> QED BY <3>2, <4>1 DEF Create
    <3>4. TruePlaces(n) = {}
      BY <3>1 DEF TruePlaces, HasCircuit
    <3>5. ListsExactly(n, circuits[n], TruePlaces(n))
      BY <1>5, <3>4, ListsNone DEF CrawlSoFar
    <3> QED BY <1>2, <1>4, <1>5, <1>6, <3>3, <3>5, NextTypeClean
  <2> QED BY <2>5, <2>6
<1>12. CASE ~(todo = Crawl(DirectoryOf[n], 1) /\ found = << >>)
  <2>1. PICK b \in 0..Len(refs) : After(n, b, todo, found)
    BY <1>5, <1>8, <1>12 DEF CrawlSoFar, After
  <2>2. DirectoryOf[n] \in present /\ circuits[n] = << >>
    BY <1>5, <1>12 DEF CrawlSoFar
  <2>3. /\ todo = [i \in 1..(Len(refs) - b) |-> [key |-> refs[b + i], deep |-> 0]]
        /\ Len(refs) \in Nat /\ b \in Nat
    BY <1>8, <2>1 DEF After
  <2>4. Len(todo) = Len(refs) - b /\ b < Len(refs)
    <3>1. Len(todo) = Len(refs) - b
      BY <2>3
    <3>2. Len(todo) # 0
      <4>1. todo \in Seq(Steps)
        BY DEF DiscoveryInv, TypeOK, Steps
      <4> QED BY <1>6, <4>1
    <3>3. b <= Len(refs) /\ Len(refs) - b # 0
      <4>1. b <= Len(refs)
        OBVIOUS
      <4>2. Len(refs) - b # 0
        BY <3>1, <3>2
      <4> QED BY <4>1, <4>2
    <3>4. b < Len(refs)
      <4>1. Len(refs) \in Nat /\ b \in Nat
        BY <2>3
      <4> QED BY <3>3, <4>1
    <3> QED BY <3>1, <3>4
  <2>5. Head(todo) = [key |-> refs[b + 1], deep |-> 0]
    BY <2>3, <2>4
  <2>6. Wanted = refs[b + 1] /\ ~Opens(Head(todo)) /\ b + 1 \in 1..Len(refs)
    BY <1>2, <2>3, <2>4, <2>5 DEF Wanted, Opens
  <2>7. left = [i \in 1..(Len(refs) - (b + 1)) |-> [key |-> refs[(b + 1) + i], deep |-> 0]]
    <3>1. left = Tail(todo)
      BY <1>10, <2>6 DEF Left
    <3>2. Len(Tail(todo)) = Len(refs) - (b + 1)
      BY <2>3, <2>4
    <3>3. Tail(todo) = [i \in 1..(Len(todo) - 1) |-> todo[i + 1]]
      <4>1. PICK s \in Seq(Steps) : s = todo
        BY DEF DiscoveryInv, TypeOK, Steps
      <4>2. PICK t \in Seq(Steps) : t = Tail(s)
        <5>1. s # << >>
          BY <1>6, <4>1
        <5>2. Tail(s) \in Seq(Steps)
          BY <5>1
        <5> QED BY <5>2
      <4>3. Len(t) = Len(s) - 1 /\ \A i \in 1..Len(t) : t[i] = s[i + 1]
        BY <1>6, <4>1, <4>2
      <4>4. t = [i \in 1..Len(t) |-> t[i]]
        OBVIOUS
      <4> QED BY <4>1, <4>2, <4>3, <4>4
    <3>4. Len(todo) - 1 = Len(refs) - (b + 1)
      BY <2>3, <2>4
    <3>5. \A i \in 1..(Len(refs) - (b + 1)) : todo[i + 1] = [key |-> refs[(b + 1) + i], deep |-> 0]
      <4>1. TAKE i \in 1..(Len(refs) - (b + 1))
      <4>2. i + 1 \in 1..(Len(refs) - b) /\ b + (i + 1) = (b + 1) + i
        BY <2>3, <2>4
      <4>3. todo[i + 1] = [key |-> refs[b + (i + 1)], deep |-> 0]
        BY <2>3, <4>2
      <4> QED BY <4>2, <4>3
    <3> QED BY <3>1, <3>3, <3>4, <3>5
  <2>8. Picks(list, refs, {r \in 1..(b + 1) : refs[r] \in present})
    <3>1. PICK S : S = {r \in 1..b : refs[r] \in present}
      OBVIOUS
    <3>2. Picks(found, refs, S)
      BY <1>8, <2>1, <3>1 DEF After
    <3>3. \A r \in 1..(b + 1) : r \in 1..b \/ r = b + 1
      BY <2>3
    <3>4. \A r \in 1..b : r \in 1..(b + 1)
      BY <2>3
    <3>5. CASE st = "ok"
      <4>1. {r \in 1..(b + 1) : refs[r] \in present} = S \cup {b + 1}
        BY <1>2, <2>3, <2>6, <3>1, <3>3, <3>4, <3>5
      <4>2. list = Append(found, refs[b + 1])
        BY <1>9, <2>6, <3>5 DEF Got
      <4>3. PICK s \in Seq(Keys) : s = found
        BY <1>6
      <4>4. S \subseteq 1..Len(refs) /\ \A x \in S : x < b + 1
        BY <2>3, <2>4, <3>1
      <4>5. PICK r \in 1..Len(refs) : r = b + 1
        BY <2>6
      <4>6. Picks(Append(s, refs[r]), refs, S \cup {r})
        <5>1. \A x \in S : x < r
          BY <4>4, <4>5
        <5>2. Picks(s, refs, S)
          BY <3>2, <4>3
        <5> QED BY <4>4, <5>1, <5>2, PicksMore
      <4> QED BY <4>1, <4>2, <4>3, <4>5, <4>6
    <3>6. CASE st # "ok"
      <4>1. {r \in 1..(b + 1) : refs[r] \in present} = S
        BY <1>2, <2>3, <2>6, <3>1, <3>3, <3>4, <3>6
      <4>2. list = found
        BY <1>9, <3>6 DEF Got
      <4> QED BY <3>2, <4>1, <4>2
    <3> QED BY <3>5, <3>6
  <2>9. PICK next \in 0..Len(RefsOf(n)) : next = b + 1
    BY <1>8, <2>3, <2>6
  <2>10. After(n, next, left, list)
    BY <1>8, <2>7, <2>8, <2>9 DEF After
  <2> QED BY <1>2, <1>4, <1>5, <1>6, <1>7, <1>9, <1>10, <2>2, <2>10, CrawlGoesOn
<1> QED BY <1>11, <1>12

\* The first request for a switch of a circuit.
FirstSwitch(n) == IF StyleOf[n] = "strict" THEN 2 ELSE 3

\* The requests of a circuit: status, name unless strict, switches.
LEMMA RequestShape ==
  ASSUME NEW n \in All, NEW c \in Directories
  PROVE  /\ Requests(n, c) \in Seq(Keys) /\ Requests(n, c)[1] = StatusOf[c]
         /\ Len(Requests(n, c)) >= FirstSwitch(n) - 1
         /\ StyleOf[n] # "strict" => Requests(n, c)[2] = NameOf[c]
         /\ {Requests(n, c)[q] : q \in FirstSwitch(n)..Len(Requests(n, c))} \cap present = SwitchesOn(n, c)
<1>1. PICK s \in Keys, m \in Keys, w \in Seq(Keys) : s = StatusOf[c] /\ m = NameOf[c] /\ w = SwitchesOf[c]
  BY CircuitAssumption
<1>2. DOMAIN w = 1..Len(w) /\ Len(w) \in Nat
  OBVIOUS
<1>3. CASE StyleOf[n] = "strict"
  <2>1. PICK r \in Seq(Keys) : r = <<s>> \o w
    <3>1. <<s>> \o w \in Seq(Keys)
      OBVIOUS
    <3> QED BY <3>1
  <2>2. Requests(n, c) = r /\ FirstSwitch(n) = 2
    BY <1>1, <1>3, <2>1 DEF Requests, FirstSwitch
  <2>3. Len(r) = Len(w) + 1 /\ r[1] = s /\ \A i \in 1..Len(w) : r[i + 1] = w[i]
    BY <2>1
  <2>4. {r[q] : q \in 2..Len(r)} = {w[i] : i \in 1..Len(w)}
    <3>1. \A q \in 2..Len(r) : q - 1 \in 1..Len(w) /\ r[q] = w[q - 1]
      BY <1>2, <2>3
    <3>2. \A i \in 1..Len(w) : i + 1 \in 2..Len(r) /\ r[i + 1] = w[i]
      BY <1>2, <2>3
    <3> QED BY <3>1, <3>2
  <2>5. SwitchesOn(n, c) = {w[i] : i \in 1..Len(w)} \cap present
    BY <1>1, <1>2, <1>3 DEF SwitchesOn
  <2>6. Len(r) >= FirstSwitch(n) - 1
    BY <1>2, <2>2, <2>3
  <2>7. {r[q] : q \in FirstSwitch(n)..Len(r)} \cap present = SwitchesOn(n, c)
    BY <2>2, <2>4, <2>5
  <2>8. r[1] = StatusOf[c] /\ (StyleOf[n] # "strict" => r[2] = NameOf[c])
    BY <1>1, <1>3, <2>3
  <2> QED BY <2>2, <2>6, <2>7, <2>8
<1>4. CASE StyleOf[n] = "zone"
  <2>1. Requests(n, c) = <<s, m>> /\ FirstSwitch(n) = 3
    BY <1>1, <1>4 DEF Requests, FirstSwitch
  <2>2. <<s, m>> \in Seq(Keys) /\ Len(<<s, m>>) = 2 /\ <<s, m>>[1] = s /\ <<s, m>>[2] = m /\ 3..2 = {}
    OBVIOUS
  <2>3. SwitchesOn(n, c) = {}
    BY <1>4 DEF SwitchesOn
  <2> QED BY <1>1, <2>1, <2>2, <2>3
<1>5. CASE StyleOf[n] \notin {"strict", "zone"}
  <2>1. PICK r \in Seq(Keys) : r = <<s, m>> \o w
    <3>1. <<s, m>> \in Seq(Keys)
      OBVIOUS
    <3>2. <<s, m>> \o w \in Seq(Keys)
      BY <3>1
    <3> QED BY <3>2
  <2>2. Requests(n, c) = r /\ FirstSwitch(n) = 3
    BY <1>1, <1>5, <2>1 DEF Requests, FirstSwitch
  <2>3. Len(r) = Len(w) + 2 /\ r[1] = s /\ r[2] = m /\ \A i \in 1..Len(w) : r[i + 2] = w[i]
    <3>1. PICK h \in Seq(Keys) : h = <<s, m>>
      <4>1. <<s, m>> \in Seq(Keys)
        OBVIOUS
      <4> QED BY <4>1
    <3>2. Len(h) = 2 /\ h[1] = s /\ h[2] = m
      BY <3>1
    <3>3. Len(r) = Len(w) + 2 /\ r[1] = h[1] /\ r[2] = h[2] /\ \A i \in 1..Len(w) : r[i + 2] = w[i]
      BY <1>2, <2>1, <3>1, <3>2
    <3> QED BY <3>2, <3>3
  <2>4. {r[q] : q \in 3..Len(r)} = {w[i] : i \in 1..Len(w)}
    <3>1. \A q \in 3..Len(r) : q - 2 \in 1..Len(w) /\ r[q] = w[q - 2]
      BY <1>2, <2>3
    <3>2. \A i \in 1..Len(w) : i + 2 \in 3..Len(r) /\ r[i + 2] = w[i]
      BY <1>2, <2>3
    <3> QED BY <3>1, <3>2
  <2>5. SwitchesOn(n, c) = {w[i] : i \in 1..Len(w)} \cap present
    BY <1>1, <1>2, <1>5 DEF SwitchesOn
  <2>6. Len(r) >= FirstSwitch(n) - 1
    BY <1>2, <2>2, <2>3
  <2>7. {r[q] : q \in FirstSwitch(n)..Len(r)} \cap present = SwitchesOn(n, c)
    BY <2>2, <2>4, <2>5
  <2>8. r[1] = StatusOf[c] /\ (StyleOf[n] # "strict" => r[2] = NameOf[c])
    BY <1>1, <1>5, <2>3
  <2> QED BY <2>2, <2>6, <2>7, <2>8
<1> QED BY <1>3, <1>4, <1>5

\* What a circuit has learned before request p.
DraftAt(n, c, d, p) ==
  /\ d.status <=> p > 1 /\ StatusOf[c] \in present
  /\ d.name <=> p > 2 /\ StyleOf[n] # "strict" /\ NameOf[c] \in present
  /\ d.switches = {Requests(n, c)[q] : q \in FirstSwitch(n)..(p - 1)} \cap present

\* What a circuit learns from one more request.
LEMMA DraftMore ==
  ASSUME TypeOK, at.phase = "create", NEW n \in All, NEW c \in Directories, n = at.n, c = found[at.j],
         NEW p \in 1..Len(Requests(n, c)), p = at.p, NEW st, st = "ok" <=> Wanted \in present,
         DraftAt(n, c, draft, p)
  PROVE  DraftAt(n, c, Drafted(st), p + 1)
<1>1. PICK r \in Seq(Keys) : r = Requests(n, c)
  BY RequestShape
<1>2. /\ r[1] = StatusOf[c] /\ (StyleOf[n] # "strict" => r[2] = NameOf[c])
      /\ Wanted = r[p] /\ p \in Nat /\ p >= 1
  BY <1>1, RequestShape DEF Wanted
<1>3. PICK first \in Nat : first = FirstSwitch(n)
  BY DEF FirstSwitch
<1>4. first = IF StyleOf[n] = "strict" THEN 2 ELSE 3
  BY <1>3 DEF FirstSwitch
<1>5. PICK d \in [status : BOOLEAN, name : BOOLEAN, switches : SUBSET Keys] : d = draft
  BY DEF TypeOK
<1>6. /\ d.status <=> p > 1 /\ StatusOf[c] \in present
      /\ d.name <=> p > 2 /\ StyleOf[n] # "strict" /\ NameOf[c] \in present
      /\ d.switches = {r[q] : q \in first..(p - 1)} \cap present
  BY <1>1, <1>3, <1>5 DEF DraftAt
<1>7. (p + 1) - 1 = p
  BY <1>2
<1>8. ASSUME NEW e, e.status <=> p + 1 > 1 /\ StatusOf[c] \in present,
             e.name <=> p + 1 > 2 /\ StyleOf[n] # "strict" /\ NameOf[c] \in present,
             e.switches = {r[q] : q \in first..p} \cap present
      PROVE  DraftAt(n, c, e, p + 1)
  BY <1>1, <1>3, <1>7, <1>8 DEF DraftAt
<1>9. CASE p < first
  <2>1. first..p = {} /\ first..(p - 1) = {}
    BY <1>2, <1>9
  <2>2. d.switches = {} /\ {r[q] : q \in first..p} \cap present = {}
    BY <1>6, <2>1
  <2>3. CASE p = 1
    <3>1. PICK e : e = [d EXCEPT !.status = d.status \/ st = "ok"]
      OBVIOUS
    <3>2. e = Drafted(st)
      <4>1. CASE st = "ok"
        <5>1. Drafted(st) = [d EXCEPT !.status = TRUE]
          BY <1>2, <1>5, <2>3, <4>1 DEF Drafted
        <5> QED BY <3>1, <4>1, <5>1
      <4>2. CASE st # "ok"
        <5>1. Drafted(st) = d
          BY <1>5, <4>2 DEF Drafted
        <5> QED BY <3>1, <4>2, <5>1
      <4> QED BY <4>1, <4>2
    <3>3. (e.status <=> d.status \/ st = "ok") /\ e.name = d.name /\ e.switches = d.switches
      BY <3>1
    <3>4. ~d.status /\ ~d.name /\ (st = "ok" <=> StatusOf[c] \in present)
      BY <1>2, <1>6, <2>3
    <3>5. e.status <=> p + 1 > 1 /\ StatusOf[c] \in present
      BY <2>3, <3>3, <3>4
    <3>6. e.name <=> p + 1 > 2 /\ StyleOf[n] # "strict" /\ NameOf[c] \in present
      BY <2>3, <3>3, <3>4
    <3> QED BY <1>8, <2>2, <3>2, <3>3, <3>5, <3>6
  <2>4. CASE p # 1
    <3>1. p = 2 /\ StyleOf[n] # "strict"
      BY <1>2, <1>4, <1>9, <2>4
    <3>2. PICK e : e = [d EXCEPT !.name = d.name \/ st = "ok"]
      OBVIOUS
    <3>3. e = Drafted(st)
      <4>1. CASE st = "ok"
        <5>1. Drafted(st) = [d EXCEPT !.name = TRUE]
          BY <1>2, <1>5, <3>1, <4>1 DEF Drafted
        <5> QED BY <3>2, <4>1, <5>1
      <4>2. CASE st # "ok"
        <5>1. Drafted(st) = d
          BY <1>5, <4>2 DEF Drafted
        <5> QED BY <3>2, <4>2, <5>1
      <4> QED BY <4>1, <4>2
    <3>4. (e.name <=> d.name \/ st = "ok") /\ e.status = d.status /\ e.switches = d.switches
      BY <3>2
    <3>5. (d.status <=> StatusOf[c] \in present) /\ ~d.name /\ (st = "ok" <=> NameOf[c] \in present)
      BY <1>2, <1>6, <3>1
    <3>6. e.status <=> p + 1 > 1 /\ StatusOf[c] \in present
      BY <3>1, <3>4, <3>5
    <3>7. e.name <=> p + 1 > 2 /\ StyleOf[n] # "strict" /\ NameOf[c] \in present
      BY <3>1, <3>4, <3>5
    <3> QED BY <1>8, <2>2, <3>3, <3>4, <3>6, <3>7
  <2> QED BY <2>3, <2>4
<1>10. CASE ~(p < first)
  <2>1. PICK e : e = [d EXCEPT !.switches = d.switches \cup {k \in {r[p]} : st = "ok"}]
    OBVIOUS
  <2>2. e = Drafted(st)
    <3>1. CASE st = "ok"
      <4>1. Drafted(st) = [d EXCEPT !.switches = @ \cup {r[p]}]
        BY <1>2, <1>4, <1>5, <1>10, <3>1 DEF Drafted
      <4>2. {k \in {r[p]} : st = "ok"} = {r[p]}
        BY <3>1
      <4> QED BY <2>1, <4>1, <4>2
    <3>2. CASE st # "ok"
      <4>1. Drafted(st) = d
        BY <1>5, <3>2 DEF Drafted
      <4>2. d.switches \cup {k \in {r[p]} : st = "ok"} = d.switches
        BY <3>2
      <4> QED BY <2>1, <4>1, <4>2
    <3> QED BY <3>1, <3>2
  <2>3. /\ e.status = d.status /\ e.name = d.name
        /\ e.switches = d.switches \cup {k \in {r[p]} : st = "ok"}
    BY <2>1
  <2>4. \A q \in first..p : q \in first..(p - 1) \/ q = p
    BY <1>2
  <2>5. p \in first..p /\ \A q \in first..(p - 1) : q \in first..p
    BY <1>2, <1>10
  <2>6. {r[q] : q \in first..p} = {r[q] : q \in first..(p - 1)} \cup {r[p]}
    BY <2>4, <2>5
  <2>7. e.switches = {r[q] : q \in first..p} \cap present
    BY <1>2, <1>6, <2>3, <2>6
  <2>8. p > 1 /\ p + 1 > 1 /\ (StyleOf[n] # "strict" => p > 2 /\ p + 1 > 2)
    BY <1>2, <1>4, <1>10
  <2> QED BY <1>6, <1>8, <2>2, <2>3, <2>7, <2>8
<1> QED BY <1>9, <1>10

\* A circuit is shown just when the device has it.
LEMMA ShownIsTrue ==
  ASSUME NEW n \in All, NEW c \in Directories, c \in present, DirectoryOf[n] \in present, NEW d,
         d.status <=> StatusOf[c] \in present,
         d.name <=> StyleOf[n] # "strict" /\ NameOf[c] \in present
  PROVE  Shown(StyleOf[n], c, d) <=> HasCircuit(n, c)
<1>1. StyleOf[n] \in {"strict", "zone", "device"}
  BY CircuitAssumption DEF Styles
<1>2. CASE StyleOf[n] = "strict"
  BY <1>2 DEF Shown, HasCircuit
<1>3. CASE StyleOf[n] = "zone"
  BY <1>3 DEF Shown, HasCircuit
<1>4. CASE StyleOf[n] = "device"
  BY <1>4 DEF Shown, HasCircuit
<1> QED BY <1>1, <1>2, <1>3, <1>4

\* The circuit that is made goes behind those before it.
LEMMA MadeMore ==
  ASSUME NEW n \in All, NEW list \in Seq(Keys), NEW j \in 1..Len(list), NEW c \in Directories, c = list[j],
         DirectoryOf[n] \in present, NEW lists \in [All -> CircuitLists], MadeSoFar(n, j, list, lists),
         NEW d, d.switches \subseteq Keys, NEW p, p = Len(Requests(n, c)) + 1, DraftAt(n, c, d, p),
         NEW more, more = [lists EXCEPT ![n] = @ \o
           IF Shown(StyleOf[n], c, d) THEN <<[id |-> c, switches |-> d.switches]>> ELSE << >>]
  PROVE  MadeSoFar(n, j + 1, list, more)
<1>1. PICK place \in [1..Len(list) -> Members(n)] :
        /\ Placed(list, RefsOf(n), Members(n), place)
        /\ ListsExactly(n, lists[n], TruePlaces(n) \cap {place[k] : k \in 1..(j - 1)})
  BY DEF MadeSoFar
<1>2. PICK refs \in Seq(Keys) : refs = RefsOf(n)
  BY RefTypes
<1>3. /\ Len(list) \in Nat /\ j \in Nat /\ j >= 1 /\ DOMAIN list = 1..Len(list) /\ (j + 1) - 1 = j
      /\ c \in Keys
  OBVIOUS
<1>4. PICK r \in 1..Len(refs) : r = place[j] /\ refs[r] = c /\ c \in present
  <2>1. place[j] \in Members(n)
    BY <1>1
  <2>2. list[j] = RefsOf(n)[place[j]]
    BY <1>1, <1>3 DEF Placed
  <2> QED BY <1>2, <2>1, <2>2 DEF Members
<1>5. /\ d.status <=> StatusOf[c] \in present
      /\ d.name <=> StyleOf[n] # "strict" /\ NameOf[c] \in present
      /\ d.switches = SwitchesOn(n, c)
  <2>1. PICK q \in Seq(Keys) : q = Requests(n, c)
    BY RequestShape
  <2>2. /\ Len(q) \in Nat /\ Len(q) >= FirstSwitch(n) - 1 /\ 1 \in 1..Len(q)
        /\ {q[x] : x \in FirstSwitch(n)..Len(q)} \cap present = SwitchesOn(n, c)
    BY <2>1, RequestShape, RequestTypes
  <2>3. p > 1 /\ p - 1 = Len(q) /\ (StyleOf[n] # "strict" => p > 2)
    BY <2>1, <2>2 DEF FirstSwitch
  <2>4. {q[x] : x \in FirstSwitch(n)..(p - 1)} = {q[x] : x \in FirstSwitch(n)..Len(q)}
    BY <2>3
  <2>5. d.switches = {q[x] : x \in FirstSwitch(n)..(p - 1)} \cap present
    BY <2>1 DEF DraftAt
  <2> QED BY <2>2, <2>3, <2>4, <2>5 DEF DraftAt
<1>6. Shown(StyleOf[n], c, d) <=> r \in TruePlaces(n)
  <2>1. Shown(StyleOf[n], c, d) <=> HasCircuit(n, c)
    BY <1>4, <1>5, ShownIsTrue
  <2>2. r \in TruePlaces(n) <=> HasCircuit(n, c)
    BY <1>2, <1>4 DEF TruePlaces
  <2> QED BY <2>1, <2>2
<1>7. PICK S : S = TruePlaces(n) \cap {place[k] : k \in 1..(j - 1)}
  OBVIOUS
<1>8. PICK old \in Seq(Circuit) : old = lists[n]
  BY DEF CircuitLists, Circuit
<1>9. S \subseteq 1..Len(refs) /\ \A x \in S : x < r
  <2>1. S \subseteq 1..Len(refs)
    BY <1>2, <1>7, RefTypes
  <2>2. \A k \in 1..(j - 1) : k \in DOMAIN list /\ j \in DOMAIN list /\ k < j
    BY <1>3
  <2>3. \A k \in 1..(j - 1) : place[k] < place[j]
    BY <1>1, <2>2 DEF Placed
  <2> QED BY <1>4, <1>7, <2>1, <2>3
<1>10. TruePlaces(n) \cap {place[k] : k \in 1..j} = S \cup ({r} \cap TruePlaces(n))
  <2>1. \A k \in 1..j : k \in 1..(j - 1) \/ k = j
    BY <1>3
  <2>2. j \in 1..j /\ \A k \in 1..(j - 1) : k \in 1..j
    BY <1>3
  <2> QED BY <1>4, <1>7, <2>1, <2>2
<1>11. ListsExactly(n, more[n], TruePlaces(n) \cap {place[k] : k \in 1..j})
  <2>1. CASE Shown(StyleOf[n], c, d)
    <3>1. PICK new : new = [id |-> c, switches |-> d.switches]
      OBVIOUS
    <3>2. new \in Circuit /\ new.id = refs[r] /\ new.switches = SwitchesOn(n, new.id)
      BY <1>3, <1>4, <1>5, <3>1 DEF Circuit
    <3>3. ListsExactly(n, old \o <<new>>, S \cup {r})
      BY <1>1, <1>2, <1>7, <1>8, <1>9, <3>2, ListsMore
    <3>4. more[n] = old \o <<new>>
      BY <1>8, <2>1, <3>1
    <3>5. {r} \cap TruePlaces(n) = {r}
      BY <1>6, <2>1
    <3> QED BY <1>10, <3>3, <3>4, <3>5
  <2>2. CASE ~Shown(StyleOf[n], c, d)
    <3>1. more[n] = old \o << >> /\ old \o << >> = old
      BY <1>8, <2>2
    <3>2. {r} \cap TruePlaces(n) = {}
      BY <1>6, <2>2
    <3>3. ListsExactly(n, old, S)
      BY <1>1, <1>7, <1>8
    <3> QED BY <1>10, <3>1, <3>2, <3>3
  <2> QED BY <2>1, <2>2
<1> QED BY <1>1, <1>3, <1>11 DEF MadeSoFar

\* A request of a circuit that is being made.
LEMMA CircuitClean ==
  ASSUME DiscoveryInv, CleanInv, NEW st \in {"ok", "refused", "down"}, CreateAnswered(st), met' = {}
  PROVE  CleanInv'
<1>1. Answer("create", st)
  BY DEF CreateAnswered
<1>2. /\ met = {} /\ UNCHANGED device /\ at.phase = "create" /\ (st = "ok" <=> Wanted \in present)
  BY <1>1, AnswerClean
<1>3. st # "down" /\ TypeOK
  BY <1>1 DEF Answer, DiscoveryInv
<1>4. PICK n \in TypesOf[gateway] : n = at.n
  BY <1>2 DEF DiscoveryInv, TypeOK, PlaceTypes
<1>5. TypesSoFar({m \in TypesOf[gateway] : m < n}) /\ CreateSoFar(n)
  BY <1>2, <1>4 DEF CleanInv, CleanSoFar
<1>6. PICK list \in Seq(Keys) : list = found
  BY <1>3 DEF TypeOK
<1>7. PICK j \in 1..Len(list) : j = at.j
  BY <1>2, <1>3, <1>6 DEF TypeOK, PlaceTypes
<1>8. PICK c \in Directories : c = list[j]
  BY <1>2, <1>3, <1>6, <1>7 DEF TypeOK, PlaceTypes
<1>9. /\ n \in All /\ circuits \in [All -> CircuitLists] /\ outcome = "none" /\ j \in Nat
      /\ DirectoryOf[n] \in present /\ MadeSoFar(n, j, list, circuits)
  <2>1. gateway \in Gateways /\ circuits \in [All -> CircuitLists]
    BY <1>3 DEF TypeOK
  <2>2. outcome = "none"
    BY <1>2 DEF DiscoveryInv, CallInv, Nowhere, Await
  <2>3. DirectoryOf[n] \in present /\ MadeSoFar(n, j, list, circuits)
    BY <1>5, <1>6, <1>7 DEF CreateSoFar
  <2> QED BY <2>1, <2>2, <2>3, Constants
<1>10. PICK p \in 1..Len(Requests(n, c)) : p = at.p
  BY <1>2, <1>3, <1>4, <1>6, <1>7, <1>8 DEF TypeOK, PlaceTypes
<1>11. DraftAt(n, c, draft, p)
  BY <1>5, <1>6, <1>7, <1>8, <1>10 DEF CreateSoFar, DraftSoFar, DraftAt, FirstSwitch
<1>12. PICK d \in [status : BOOLEAN, name : BOOLEAN, switches : SUBSET Keys] : d = Drafted(st)
  BY <1>2, <1>3, DraftTypes
<1>13. DraftAt(n, c, d, p + 1)
  BY <1>2, <1>3, <1>4, <1>6, <1>7, <1>8, <1>9, <1>10, <1>11, <1>12, DraftMore
<1>14. CASE p < Len(Requests(n, c))
  <2>1. /\ at' = [at EXCEPT !.p = @ + 1] /\ outcome' = outcome /\ draft' = d
        /\ circuits' = circuits /\ found' = found /\ supported' = supported
    BY <1>3, <1>4, <1>6, <1>7, <1>8, <1>10, <1>12, <1>14 DEF CreateAnswered, GoOn
  <2>2. at'.phase = "create" /\ at'.n = n /\ at'.j = j /\ at'.p = p + 1
    <3>1. PICK a \in [phase : Phases, n : Nat, j : Nat, p : Nat] : a = at
      BY <1>3 DEF TypeOK, PlaceTypes
    <3>2. at' = [a EXCEPT !.p = @ + 1] /\ a.phase = "create" /\ a.n = n /\ a.j = j /\ a.p = p
      BY <1>2, <1>4, <1>7, <1>10, <2>1, <3>1
    <3> QED BY <3>1, <3>2
  <2>3. present' = present /\ Members(n)' = Members(n) /\ TruePlaces(n)' = TruePlaces(n) /\ gateway' = gateway
    BY <1>2, SameTruth
  <2>4. CreateSoFar(n)'
    <3>1. MadeSoFar(n, at.j, found, circuits)'
      <4>1. MadeSoFar(n, j, list, circuits)'
        BY <1>9, <2>1, <2>3 DEF MadeSoFar, ListsExactly, SwitchesOn
      <4> QED BY <1>6, <2>1, <2>2, <4>1 DEF MadeSoFar, ListsExactly
    <3>2. DraftSoFar(n, found[at.j])'
      <4>1. found'[at'.j] = c
        BY <1>6, <1>8, <2>1, <2>2
      <4>2. /\ draft'.status <=> at'.p > 1 /\ StatusOf[c] \in present'
            /\ draft'.name <=> at'.p > 2 /\ StyleOf[n] # "strict" /\ NameOf[c] \in present'
            /\ draft'.switches = {Requests(n, c)[q] : q \in FirstSwitch(n)..(at'.p - 1)} \cap present'
        BY <1>13, <2>1, <2>2, <2>3 DEF DraftAt
      <4>3. {Requests(n, found[at.j])'[q] : q \in FirstSwitch(n)..(at'.p - 1)}
              = {Requests(n, c)[q] : q \in FirstSwitch(n)..(at'.p - 1)}
        BY <4>1 DEF Requests
      <4> QED BY <4>1, <4>2, <4>3 DEF DraftSoFar, FirstSwitch
    <3> QED BY <1>9, <2>3, <3>1, <3>2 DEF CreateSoFar
  <2>5. PICK behind : behind = {m \in TypesOf[gateway] : m < n}
    OBVIOUS
  <2>6. TypesSoFar({m \in TypesOf[gateway] : m < n})'
    <3>1. TypesSoFar(behind)'
      BY <1>2, <1>5, <2>1, <2>5, TypesKept DEF TypesSoFar
    <3>2. {m \in TypesOf[gateway'] : m < n} = behind
      BY <2>3, <2>5
    <3> QED BY <3>1, <3>2 DEF TypesSoFar, SupportedBy
  <2>7. CleanSoFar'
    BY <2>2, <2>4, <2>6 DEF CleanSoFar
  <2>8. CleanDiscovery'
    BY <1>9, <2>1 DEF CleanDiscovery
  <2> QED BY <2>7, <2>8 DEF CleanInv
<1>15. CASE ~(p < Len(Requests(n, c)))
  <2>1. PICK new \in CircuitLists :
          new = IF Shown(StyleOf[n], c, d) THEN <<[id |-> c, switches |-> d.switches]>> ELSE << >>
    <3>1. PICK e \in Circuit : e = [id |-> c, switches |-> d.switches]
      BY <1>12, Constants DEF Circuit
    <3>2. <<e>> \in Seq(Circuit) /\ << >> \in Seq(Circuit)
      OBVIOUS
    <3>3. <<e>> \in CircuitLists /\ << >> \in CircuitLists
      BY <3>2 DEF CircuitLists, Circuit
    <3> QED BY <3>1, <3>3
  <2>2. PICK more : more = [circuits EXCEPT ![n] = @ \o new]
    OBVIOUS
  <2>3. Create(j + 1, list, more)
    BY <1>3, <1>4, <1>6, <1>7, <1>8, <1>10, <1>12, <1>15, <2>1, <2>2 DEF CreateAnswered
  <2>4. more \in [All -> CircuitLists] /\ \A m \in All \ {n} : more[m] = circuits[m]
    BY <1>9, <2>1, <2>2, Appended
  <2>5. p + 1 = Len(Requests(n, c)) + 1
    BY <1>9, <1>10, <1>15, RequestTypes
  <2>6. MadeSoFar(n, j + 1, list, more)
    <3>1. PICK lists \in [All -> CircuitLists] : lists = circuits
      BY <1>9
    <3>2. MadeSoFar(n, j, list, lists) /\ d.switches \subseteq Keys
      BY <1>9, <1>12, <3>1
    <3> QED BY <1>8, <1>9, <1>13, <2>1, <2>2, <2>5, <3>1, <3>2, MadeMore
  <2>7. j + 1 \in Nat \ {0} /\ j + 1 <= Len(list) + 1
    BY <1>9
  <2> QED BY <1>2, <1>4, <1>5, <1>9, <2>3, <2>4, <2>6, <2>7, CreateClean
<1> QED BY <1>14, <1>15

-----------------------------------------------------------------------------
(* Without failures: every step                                            *)

\* A call begins with what it is to find before it, whatever earlier ones left.
LEMMA CapabilitiesClean ==
  ASSUME DiscoveryInv, GetCapabilities PROVE CleanInv'
<1>1. /\ gateway \in Gateways /\ circuits \in [All -> CircuitLists]
  BY DEF DiscoveryInv, TypeOK
<1>2. /\ TypesOf[gateway] \subseteq Nat /\ TypesOf[gateway] \subseteq All /\ TypesOf[gateway] # {}
  BY <1>1, Constants
<1>3. PICK n \in TypesOf[gateway] : n = First /\ \A m \in TypesOf[gateway] : n <= m
  BY <1>2, LeastOf DEF First
<1>4. /\ outcome' = "none" /\ supported' = {} /\ at' = Await("circuits", n, 0, 0)
      /\ todo' = Crawl(DirectoryOf[n], 1) /\ found' = << >>
      /\ circuits' = [circuits EXCEPT ![n] = << >>] /\ UNCHANGED device
  BY <1>3 DEF GetCapabilities, Call
<1>5. {m \in TypesOf[gateway] : m < n} = {}
  BY <1>2, <1>3
<1>6. SupportedBy({}) = {}
  BY DEF SupportedBy
<1>7. circuits'[n] = << >>
  BY <1>1, <1>2, <1>4
<1> QED BY <1>4, <1>5, <1>6, <1>7, TypeBegins

\* A step of check_connection(), and a cancelled call, is not about capabilities.
LEMMA ElsewhereClean ==
  ASSUME at'.phase \in {"idle", "info", "uuid"}, outcome' # "capabilities" PROVE CleanInv'
<1>1. CleanSoFar'
  BY DEF CleanSoFar
<1> QED BY <1>1 DEF CleanInv, CleanDiscovery

\* Where nothing changes, nothing is lost.
LEMMA StutterClean ==
  ASSUME CleanInv, UNCHANGED vars PROVE CleanInv'
<1>1. /\ UNCHANGED device /\ at' = at /\ outcome' = outcome /\ met' = met
      /\ circuits' = circuits /\ sensors' = sensors /\ switches' = switches /\ bases' = bases
      /\ supported' = supported /\ todo' = todo /\ found' = found /\ draft' = draft
      /\ present' = present /\ gateway' = gateway
  BY DEF vars, device, entities, progress
<1>2. /\ TrueSensors' = TrueSensors /\ TrueSwitches' = TrueSwitches /\ TrueSupported' = TrueSupported
      /\ \A n : TruePlaces(n)' = TruePlaces(n) /\ Members(n)' = Members(n)
      /\ \A top : Leaves(top)' = Leaves(top)
      /\ \A root : RootSensors(root)' = RootSensors(root)
      /\ \A e : EntrySwitches(e)' = EntrySwitches(e)
      /\ \A types : SupportedBy(types)' = SupportedBy(types)
  BY <1>1, SameTruth
<1>3. \A n, list, places : ListsExactly(n, list, places)' <=> ListsExactly(n, list, places)
  BY <1>1 DEF ListsExactly, SwitchesOn
<1>4. CleanDiscovery'
  BY <1>1, <1>2, <1>3 DEF CleanInv, CleanDiscovery
<1>5. ASSUME met = {} PROVE CleanSoFar'
  <2>1. CleanSoFar
    BY <1>5 DEF CleanInv
  <2>2. \A behind : TypesSoFar(behind) => TypesSoFar(behind)'
    BY <1>1, <1>2, <1>3 DEF TypesSoFar
  <2>3. \A n : CrawlSoFar(n) => CrawlSoFar(n)'
    BY <1>1 DEF CrawlSoFar
  <2>4. \A n : CreateSoFar(n) => CreateSoFar(n)'
    BY <1>1, <1>2, <1>3 DEF CreateSoFar, MadeSoFar, DraftSoFar
  <2>5. \A n : SensorsSoFar(n) => SensorsSoFar(n)'
    BY <1>1, <1>2 DEF SensorsSoFar, LeavesOf
  <2>6. \A e : SwitchesSoFar(e) => SwitchesSoFar(e)'
    BY <1>1, <1>2 DEF SwitchesSoFar
  <2> QED BY <1>1, <2>1, <2>2, <2>3, <2>4, <2>5, <2>6 DEF CleanSoFar
<1> QED BY <1>1, <1>4, <1>5 DEF CleanInv

\* What the gateway finds in a call that meets no failure is what the device has.
THEOREM DiscoveryIsClean == Spec => []CleanDiscovery
<1>1. Init => CleanInv
  BY DEF Init, CleanInv, CleanSoFar, CleanDiscovery, Nowhere, Await
<1>2. DiscoveryInv /\ CleanInv /\ [Next]_vars => CleanInv'
  <2>1. SUFFICES ASSUME DiscoveryInv, CleanInv, [Next]_vars PROVE CleanInv'
    OBVIOUS
  <2>2. CASE CheckConnection
    <3>1. at'.phase \in {"info", "uuid"} /\ outcome' = "none"
      BY <2>2 DEF CheckConnection, Call, Await
    <3> QED BY <3>1, ElsewhereClean
  <2>3. CASE GetCapabilities
    BY <2>1, <2>3, CapabilitiesClean
  <2>4. ASSUME NEW st \in {"ok", "refused", "down"}, InfoAnswered(st) PROVE CleanInv'
    <3>1. at.phase = "info" /\ outcome = "none"
      BY <2>1, <2>4 DEF InfoAnswered, Answer, DiscoveryInv, CallInv, Nowhere, Await
    <3>2. at'.phase \in {"idle", "info"} /\ outcome' # "capabilities"
      BY <2>4, <3>1 DEF InfoAnswered, Identify, Return, GoOn, Nowhere, Await
    <3> QED BY <3>2, ElsewhereClean
  <2>5. ASSUME NEW st \in {"ok", "refused", "down"}, UuidAnswered(st) PROVE CleanInv'
    <3>1. at'.phase = "idle" /\ outcome' # "capabilities"
      BY <2>5 DEF UuidAnswered, Return, Nowhere, Await
    <3> QED BY <3>1, ElsewhereClean
  <2>6. ASSUME NEW st \in {"ok", "refused", "down"},
               \/ CircuitsAnswered(st) \/ CreateAnswered(st)
               \/ SensorsAnswered(st) \/ BaseAnswered(st) \/ ProbeAnswered(st)
        PROVE  CleanInv'
    <3>1. CASE met' = {}
      BY <2>1, <2>6, <3>1, CircuitsClean, CircuitClean, SensorsClean, BaseClean, ProbeClean
    \* A call that met a failure promises nothing any more.
    <3>2. CASE met' # {}
      BY <3>2 DEF CleanInv, CleanDiscovery
    <3> QED BY <3>1, <3>2
  <2>7. CASE Cancelled
    <3>1. at'.phase = "idle" /\ outcome' # "capabilities"
      BY <2>7 DEF Cancelled, Return, Nowhere, Await
    <3> QED BY <3>1, ElsewhereClean
  <2>8. CASE UNCHANGED vars
    BY <2>1, <2>8, StutterClean
  <2> QED BY <2>1, <2>2, <2>3, <2>4, <2>5, <2>6, <2>7, <2>8 DEF Next, Answered
<1>3. CleanInv => CleanDiscovery
  BY DEF CleanInv
<1> QED BY <1>1, <1>2, <1>3, DiscoveryInvariance, PTL DEF Spec
=============================================================================
