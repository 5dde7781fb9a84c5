------------------------------- MODULE MCEntity -------------------------------
(* Two entities of every class, two tasks, for TLC. *)
EXTENDS EntityProperties, TLC

CONSTANTS a, b

TwoTasks == {a, b}
Symmetry == Permutations(TwoTasks)

Keys2 == {"k1", "k2"}
Values == {"on", "off"}
Domain2 == [k \in Keys2 |-> Values]
Pair == {"e1", "e2"}
KeyOf2 == ("e1" :> "k1") @@ ("e2" :> "k2")
Device(c, d) == ("e1" :> c) @@ ("e2" :> d)
AllDevices ==
  {Device("binary", "switch"), Device("crawl", "number"), Device("notice", "select"),
   Device("notice_ivt", "notice_nefit"), Device("sensor", "binary")}
AllAllowed == [e \in Pair |-> Values]

\* "on" as an error whose row is found by one of the two fields, or by none.
Notices == "on" :> [code |-> "c1", act |-> "A", fc |-> "2"] @@ "off" :> [code |-> "c2", act |-> "A", fc |-> "1"]
Errors ==
  "c1" :> <<[act |-> "B", fc |-> "1", message |-> "m1"], [act |-> "A", fc |-> "1", message |-> "m2"],
            [act |-> "A", fc |-> "2", message |-> "m3"], [act |-> "C", fc |-> "2", message |-> "m4"]>>
Titles1 == "c1" :> "t1"
=============================================================================
