------------------------------ MODULE MCOverride ------------------------------
(* A small instance of NEFIT heating circuits and zones, for TLC. *)
EXTENDS OverrideProperties, TLC

CONSTANTS a, b

TwoTasks == {a, b}
EveryKey == {"mode", "manual", "override", "status", "schedule", "program", "list"}
Degrees == {"20", "22"}
EveryDomain ==
  [k \in EveryKey |->
     CASE k = "mode" -> {"manual", "clock"} [] k = "status" -> {"on", "off"}
       [] k \in {"program", "list"} -> {"A", "B"}
       [] k = "override" -> {"22", NoOverride} [] k = "schedule" -> {"20"}
       [] OTHER -> Degrees]
EveryList == ("A" :> ("A" :> "day" @@ "B" :> "away")) @@ ("B" :> ("A" :> "away" @@ "B" :> NoName))
\* A NEFIT circuit, on which each task does anything; the temperatures of a
\* zone and the programs of a zone, which one task polls and another one sets.
Polled(isUsed, calls, fixed) ==
  [family : {"zone"}, used : {isUsed}, fixed : {fixed},
   does : {t :> {"update"} @@ u :> calls : <<t, u>> \in {<<a, b>>, <<b, a>>}}]
ThreeSites ==
  {[family |-> "nefit", used |-> TRUE, does |-> [t \in TwoTasks |-> {"update", "temp", "mode"}],
    fixed |-> {"program", "list"}]}
  \cup Polled(TRUE, {"temp", "mode"}, {"status", "program", "list"})
  \cup Polled(FALSE, {"preset"}, {"mode", "manual", "override", "status", "schedule"})
Alike == Permutations(TwoTasks)
Changing == {"mode", "list"}
=============================================================================
