------------------------------- MODULE MCCircuit -------------------------------
(* Small instances of a circuit for TLC. *)
EXTENDS CircuitProperties

CONSTANTS a, b, Degrees

TwoTasks == {a, b}
Symmetry == Permutations(Tasks)

\* A circuit with a manual and a clock temperature, polled after the mode.
CircuitKeys == {"mode", "manualTemp", "clockTemp"}
Temperatures == {"manualTemp", "clockTemp"}
CircuitDomain ==
  [k \in CircuitKeys |-> IF k = "mode" THEN {"manual", "clock", "off"} ELSE Degrees]
CircuitPoll == <<"mode", "manualTemp", "clockTemp">>
CircuitSetpointOf == ("manual" :> "manualTemp") @@ ("clock" :> "clockTemp") @@ ("off" :> NoKey)
CircuitModeType == ("manual" :> "manual") @@ ("clock" :> "auto") @@ ("off" :> "off")
AllModes == {"manual", "clock", "off"}
TwoModes == {"manual", "clock"}
ModeOnly == {"mode"}
Nothing == {}
=============================================================================
