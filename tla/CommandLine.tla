------------------------------ MODULE CommandLine ------------------------------
(***************************************************************************)
(* bosch_cli: scan, query and put, one process after the other.  A scan    *)
(* follows the references from its targets depth first and writes what it *)
(* found at the end, into a file that it empties first.  Any request may   *)
(* be refused, answer without a body, fail to decrypt or find the          *)
(* credentials wrong, the disk may be full, the user may press Ctrl-C at   *)
(* any time, and again, and the process may be killed.                     *)
(***************************************************************************)
EXTENDS Integers, Sequences

CONSTANTS
  Keys,      \* the resources of the device
  Refs,      \* references of each
  Histories, \* the one whose value is the number of pages of the energy history
  Recorders, \* recordings without references
  Intervals, \* bound: the periods get_all_intervals() returns
  Commands   \* what the user runs, for a device and a protocol that there are

Outcomes == {"ok", "void", "refused", "garbled", "auth"}

ASSUME DeviceAssumption ==
  /\ Refs \in [Keys -> Seq(Keys)]
  /\ Histories \subseteq Keys /\ Recorders \subseteq Keys /\ Histories \cap Recorders = {}
  /\ Intervals \in Nat \ {0} /\ "none" \notin Keys

ASSUME CommandAssumption ==
  Commands \subseteq [does : {"scan", "query", "put"}, targets : Seq(Keys) \ {<< >>},
                      small : BOOLEAN, ignore : BOOLEAN, stdout : BOOLEAN]

VARIABLES
  command, \* the arguments of this process
  at,      \* the request it awaits
  todo,    \* resources the open calls of deep_into() still have to visit, innermost first
  list,    \* their _list; for a query its results
  results, \* rawlist: the lists of the targets that are done
  shown,   \* what this process has printed
  file,    \* the result it saves, << >> while it has none
  disk,    \* the output file: as the process found it, a part of that result, or the whole
  open,    \* the connector's session
  outcome, \* how the last command ended
  log      \* for the properties: its requests and how each ended

progress == <<at, todo, list, results>>
output == <<shown, file, disk>>
vars == <<command, progress, output, open, outcome, log>>

Idle == [phase |-> "idle", n |-> 0]
Await(phase, n) == at' = [phase |-> phase, n |-> n]

\* An element of a list: the answer to this request.
Entry(k, part, n) == [key |-> k, part |-> part, n |-> n]
Nothing == Entry("none", "get", 0)
NoCommand == [does |-> "none", targets |-> << >>, small |-> FALSE, ignore |-> FALSE, stdout |-> FALSE]

Init ==
  /\ command = NoCommand /\ at = Idle /\ todo = << >> /\ list = << >> /\ results = << >>
  /\ shown = << >> /\ file = << >> /\ disk = "kept"
  /\ open = FALSE /\ outcome = "none" /\ log = << >>

-----------------------------------------------------------------------------
(* A process *)

Finish_Leaves(how) ==
  /\ outcome' = how
  /\ at' = IF how = "failed" THEN Idle ELSE [phase |-> "close", n |-> 0]
  /\ todo' = << >> /\ list' = << >> /\ results' = << >>

\* finally: await gateway.close(force=True)
Finish(how) ==
  /\ outcome' = how
  /\ Await("close", 0) /\ todo' = << >> /\ list' = << >> /\ results' = << >>

\* _scan(), _runquery() and _runpush() after their first steps; a small scan
\* looks its targets up in the database, which an unknown device does not have (but RECORDINGS).
Begin(c) ==
  \/ /\ Await(IF c.does = "scan" THEN "get" ELSE c.does, 0)
     /\ todo' = IF c.does = "query" THEN c.targets ELSE <<Head(c.targets)>>
     /\ list' = << >> /\ results' = << >> /\ outcome' = "none"
     /\ c.small => ~c.ignore
  \/ c.small /\ Finish("failed")

Run(c) ==
  /\ at = Idle
  /\ command' = c /\ open' = TRUE /\ log' = << >>
  /\ shown' = << >> /\ file' = << >> /\ disk' = "kept"
  /\ IF c.does = "scan" /\ ~c.ignore
     THEN Await("check", 0) /\ outcome' = "none" /\ UNCHANGED <<todo, list, results>>
     ELSE Begin(c)

\* check_connection(), which GatewayDiscovery models.
Checked(how) ==
  /\ at.phase = "check"
  /\ \/ how = "uuid" /\ Begin(command)
     \/ how = "none" /\ Finish("unconnected")
     \/ how = "raised" /\ Finish("failed")
  /\ UNCHANGED <<command, output, open, log>>

\* An answer to the request of this phase.
Answer(phase, st) ==
  /\ at.phase = phase
  /\ log' = Append(log, [entry |-> Entry(Head(todo), phase, at.n), st |-> st])
  /\ UNCHANGED <<command, open>>

Fails_Saves ==
  /\ Finish("failed") /\ UNCHANGED shown
  /\ IF command.does = "scan" /\ ~command.stdout
     THEN file' = Append(results, list) /\ disk' = "whole" ELSE UNCHANGED <<file, disk>>

Fails == Finish("failed") /\ UNCHANGED output

-----------------------------------------------------------------------------
(* deep_into() *)

\* _scan(): the file is opened when there is a result, and open() empties it, or
\* raises; then json.dump() writes.
Write(all) ==
  \/ /\ command.stdout /\ Finish("done")
     /\ shown' = all /\ UNCHANGED <<file, disk>>
  \/ /\ ~command.stdout /\ Await("write", 0)
     /\ todo' = << >> /\ list' = << >> /\ results' = << >>
     /\ file' = all /\ disk' = "part" /\ UNCHANGED <<shown, outcome>>
  \/ ~command.stdout /\ Fails

\* The call of Head(todo) has added to the list; rest is what is left to visit.
Visit(lst, rest) ==
  LET all == Append(results, lst) IN
  IF rest # << >>
  THEN /\ list' = lst /\ todo' = rest /\ Await("get", 0)
       /\ UNCHANGED <<results, output, outcome>>
  ELSE IF Len(all) < Len(command.targets)
  THEN /\ results' = all /\ list' = << >>
       /\ todo' = <<command.targets[Len(all) + 1]>> /\ Await("get", 0)
       /\ UNCHANGED <<output, outcome>>
  ELSE Write(all)

\* The exceptions that end a branch, and those that end the scan.
Swallowed == {"refused", "garbled"}

GoOn(n, lst) ==
  /\ Await("interval", n) /\ list' = lst
  /\ UNCHANGED <<todo, results, output, outcome>>

Keep_Forgets(lst) == Visit(Append(lst, Entry(Head(todo), "get", 0)), Refs[Head(todo)])

\* The answer itself is added, and its references are visited before what was left.
Keep(lst) ==
  Visit(Append(lst, Entry(Head(todo), "get", 0)), Refs[Head(todo)] \o Tail(todo))

ResourceAnswered(st) ==
  /\ Answer("get", st)
  /\ \/ st \in Swallowed /\ Visit(list, Tail(todo))
     \/ st \in {"void", "auth"} /\ Fails
     \/ /\ st = "ok" /\ Head(todo) \in Histories
        /\ Await("page", 0) /\ UNCHANGED <<todo, list, results, output, outcome>>
     \/ st = "ok" /\ Head(todo) \in Recorders /\ GoOn(1, list)
     \/ st = "ok" /\ Head(todo) \notin Histories \cup Recorders /\ Keep(list)

PageAnswered(st) ==
  /\ Answer("page", st)
  /\ \/ st = "ok" /\ Keep(Append(list, Entry(Head(todo), "page", 0)))
     \/ st \in Swallowed /\ Visit(list, Tail(todo))
     \/ st \in {"void", "auth"} /\ Fails

IntervalAnswered(st) ==
  LET lst == CASE st = "ok" -> Append(list, Entry(Head(todo), "interval", at.n))
               [] st = "void" -> Append(list, Nothing)
               [] OTHER -> list
  IN /\ Answer("interval", st)
     /\ \/ st = "auth" /\ Fails
        \/ st # "auth" /\ at.n < Intervals /\ GoOn(at.n + 1, lst)
        \/ st # "auth" /\ at.n = Intervals /\ Keep(lst)

-----------------------------------------------------------------------------
(* _runquery() and _runpush() *)

QueryAnswered_Stops(st) ==
  /\ Answer("query", st)
  /\ IF st \in {"garbled", "auth"} THEN Fails
     ELSE /\ list' = IF st = "ok" THEN Append(list, Entry(Head(todo), "query", 0)) ELSE list
          /\ todo' = IF st = "ok" THEN todo ELSE <<Head(todo)>>
          /\ Await("pause", 0) /\ UNCHANGED <<results, output, outcome>>

QueryAnswered(st) ==
  /\ Answer("query", st)
  /\ IF st \in {"garbled", "auth"} THEN Fails
     ELSE /\ list' = IF st = "ok" THEN Append(list, Entry(Head(todo), "query", 0)) ELSE list
          /\ Await("pause", 0) /\ UNCHANGED <<todo, results, output, outcome>>

\* asyncio.sleep(0.3), and the results after the last one.
Slept ==
  /\ at.phase = "pause"
  /\ IF Len(todo) > 1
     THEN /\ Await("query", 0) /\ todo' = Tail(todo)
          /\ UNCHANGED <<list, results, output, outcome>>
     ELSE /\ shown' = <<list>> /\ UNCHANGED <<file, disk>>
          /\ Finish("done")
  /\ UNCHANGED <<command, open, log>>

\* raw_put(): one that was refused has no result.
PutResult(st) == IF st = "ok" THEN Entry(Head(todo), "put", 0) ELSE Nothing

PutAnswered(st) ==
  /\ Answer("put", st) /\ st # "garbled"
  /\ IF st = "auth" THEN Fails
     ELSE /\ shown' = << <<PutResult(st)>> >>
          /\ UNCHANGED <<file, disk>>
          /\ Finish("done")

-----------------------------------------------------------------------------
(* The end of a process *)

\* json.dump() writes the result bit by bit, and may raise in between.  The first
\* Ctrl-C meanwhile is put off until the file is closed.
Written ==
  /\ at.phase = "write"
  /\ \/ disk' = "whole" /\ Finish(IF at.n = 0 THEN "done" ELSE "cancelled")
     \/ UNCHANGED disk /\ Finish("failed")
  /\ UNCHANGED <<command, shown, file, open, log>>

Closed_Waits ==
  /\ at.phase = "close" /\ outcome # "unconnected"
  /\ at' = Idle /\ open' = FALSE
  /\ UNCHANGED <<command, todo, list, results, output, outcome, log>>

Closed ==
  /\ at.phase = "close"
  /\ at' = Idle /\ open' = FALSE
  /\ UNCHANGED <<command, todo, list, results, output, outcome, log>>

\* It ends without more ado.
Gone ==
  /\ outcome' = "killed" /\ at' = Idle
  /\ todo' = << >> /\ list' = << >> /\ results' = << >>

\* asyncio.run() cancels what is awaited at the first Ctrl-C, which is put off
\* while nothing is (at.n counts it), and raises KeyboardInterrupt at the second;
\* "finally" closes the gateway, and a Ctrl-C while that is under way, or one that
\* was put off until then, ends the process.
Interrupt ==
  /\ at # Idle
  /\ \/ at.phase \notin {"write", "close"} /\ Finish("cancelled")
     \/ /\ at.phase = "write" /\ at.n = 0 /\ Await("write", 1)
        /\ UNCHANGED <<todo, list, results, outcome>>
     \/ at.phase = "write" /\ at.n = 1 /\ Finish("cancelled")
     \/ at.phase = "close" /\ Gone
  /\ UNCHANGED <<command, output, open, log>>

\* A signal that cannot be caught, or the power fails.
Dies ==
  /\ at # Idle /\ Gone
  /\ UNCHANGED <<command, output, open, log>>

Answered ==
  \E st \in Outcomes :
    \/ ResourceAnswered(st) \/ PageAnswered(st) \/ IntervalAnswered(st)
    \/ QueryAnswered(st) \/ PutAnswered(st)

Goes ==
  Answered \/ (\E how \in {"uuid", "none", "raised"} : Checked(how)) \/ Slept \/ Written \/ Closed
Next == (\E c \in Commands : Run(c)) \/ Goes \/ Interrupt \/ Dies

Spec == Init /\ [][Next]_vars
\* Every request ends: the connectors bound each with a timeout.
FairSpec == Spec /\ WF_vars(Goes)
=============================================================================
