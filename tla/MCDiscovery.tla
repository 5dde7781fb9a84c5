------------------------------ MODULE MCDiscovery ------------------------------
(* Small instances of a gateway's first conversation with a device, for TLC. *)
EXTENDS DiscoveryProperties, TLC

\* The identity; an inactive circuit after an active one; a zone; a device of
\* each kind; recordings two levels deep; holiday modes and two plain switches.
HomeInfo == <<"uuid", "bus", "id", "firmware">>
HomeRefs ==
  "hcs" :> <<"hc1", "hc2">> @@ "hc1" :> <<"hc1status">> @@ "hc2" :> <<"hc2status">> @@
  "zones" :> <<"zn1">> @@ "zn1" :> <<"zn1status", "zn1name">> @@
  "devices" :> <<"list", "dv1">> @@ "dv1" :> <<"dv1status", "dv1name">> @@
  "recordings" :> <<"heat", "power">> @@ "heat" :> <<"actual">>

Holidays == <<"hm1", "hm2">>
Plain == {"list", "power", "actual", "boost", "boost2", "modes", "mode", "pool"}
HomeKeys ==
  {HomeInfo[i] : i \in 1..4} \cup DOMAIN HomeRefs \cup Plain \cup {Holidays[i] : i \in 1..2} \cup
  {"hc1status", "hc2status", "zn1status", "zn1name", "dv1status", "dv1name"}
HomeDirectories == DOMAIN HomeRefs
HomeOptional == {"id", "firmware", "hc1status", "modes", "dv1status"}

HomeTypes == <<"hc", "zn", "dv">>
HomeTypesOf == "IVT" :> {1} @@ "NEFIT" :> {1} @@ "EASYCONTROL" :> {2, 3}
HomeDirectoryOf == <<"hcs", "zones", "devices">>
HomeStyleOf == <<"strict", "zone", "device">>
HomeStatusOf ==
  [d \in HomeDirectories |->
     CASE d = "hc1" -> "hc1status" [] d = "hc2" -> "hc2status" [] d = "zn1" -> "zn1status"
       [] OTHER -> "dv1status"]
HomeNameOf == [d \in HomeDirectories |-> IF d = "zn1" THEN "zn1name" ELSE "dv1name"]
HomeSwitchesOf ==
  [d \in HomeDirectories |->
     CASE d = "hc1" -> <<"boost", "mode">> [] d = "dv1" -> <<"boost2">> [] OTHER -> << >>]
HomeInactive == {"hc2"}

HomeRoots == <<[key |-> "recordings", deep |-> 2, exclude |-> {"list"}]>>
HomeSensorName == [k \in HomeKeys |-> k]
HomeEntries ==
  <<[base |-> "modes", probes |-> Holidays], [base |-> NoKey, probes |-> <<"pool">>],
    [base |-> "modes", probes |-> <<"hm2">>]>>
HomeNumbers == {"boost", "hm1"}
HomeSelects == {"pool"}
AllGateways == Kinds
=============================================================================
