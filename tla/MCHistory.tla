------------------------------ MODULE MCHistory ------------------------------
(* A small instance of the sensors of recordings, for TLC. *)
EXTENDS HistoryProperties

EveryKind == {"recording", "ecus", "energy"}
SomeUsage == {0..6, {1, 4, 5}}
\* Over a midnight; for Ecus, with a third row, which is on a second page.
SomeSpan == [k \in EveryKind |-> CASE k = "recording" -> <<3, 5>> [] k = "ecus" -> <<5, 6>> [] k = "energy" -> <<3, 4>>]
SomeOffsets == {-1, 0}
SomeRanges == {<<0, 1>>, <<1, 4>>, <<3, 6>>}
=============================================================================
