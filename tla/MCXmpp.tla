-------------------------------- MODULE MCXmpp --------------------------------
(* Small instances of the XMPP connector for TLC. *)
EXTENDS XmppProperties

CONSTANTS a, b, c

TwoTasks == {a, b}
ThreeTasks == {a, b, c}
Symmetry == Permutations(Tasks)

\* /heatingCircuits is a substring of /heatingCircuits/hc1.
NestedPaths == {"hc", "hc1"}
NestedIds == {<<"hc", "hc">>, <<"hc1", "hc1">>, <<"hc", "hc1">>}
=============================================================================
