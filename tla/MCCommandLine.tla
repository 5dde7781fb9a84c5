----------------------------- MODULE MCCommandLine -----------------------------
(* A device with an energy history, a recording and two roots, for TLC. *)
EXTENDS CommandLineProperties, TLC

Leaves == {"leaf", "history", "recording", "other"}
Resources == Leaves \cup {"root", "sub", "top"}
References ==
  ("root" :> <<"history", "sub">>) @@ ("sub" :> <<"leaf", "recording">>)
    @@ ("top" :> <<"other", "leaf">>) @@ [k \in Leaves |-> << >>]
History == {"history"}
Recording == {"recording"}

Command(does, targets) ==
  [does |-> does, targets |-> targets, small |-> FALSE, ignore |-> FALSE, stdout |-> FALSE]
SomeCommands ==
  {Command("scan", <<"root", "top", "other">>),
   [Command("scan", <<"sub", "other">>) EXCEPT !.ignore = TRUE, !.stdout = TRUE],
   [Command("scan", <<"sub">>) EXCEPT !.small = TRUE],
   [Command("scan", <<"sub">>) EXCEPT !.small = TRUE, !.ignore = TRUE],
   Command("query", <<"leaf", "other", "leaf">>), Command("put", <<"leaf">>)}
=============================================================================
