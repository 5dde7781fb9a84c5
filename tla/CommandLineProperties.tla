------------------------- MODULE CommandLineProperties -------------------------
(* What bosch_cli leaves behind, compared with what the device answered. *)
EXTENDS CommandLine

Requests == [key : Keys, part : {"get", "page", "interval", "query", "put"}, n : 0..Intervals]
Lists == Seq(Requests \cup {Nothing})
Phases == {"idle", "check", "get", "page", "interval", "query", "pause", "put", "write", "close"}

TypeOK ==
  /\ command \in Commands \cup {NoCommand}
  /\ at \in [phase : Phases, n : 0..Intervals]
  /\ todo \in Seq(Keys)
  /\ list \in Lists /\ results \in Seq(Lists)
  /\ shown \in Seq(Lists) /\ file \in Seq(Lists) /\ disk \in {"kept", "part", "whole"}
  /\ open \in BOOLEAN
  /\ outcome \in {"none", "done", "failed", "unconnected", "cancelled", "killed"}
  /\ log \in Seq([entry : Requests, st : Outcomes])

\* A command that has ended has closed its session, in whichever way it ended,
\* unless it was killed, or a Ctrl-C reached it while it was closing (try/finally
\* of scan, query and put).
SessionClosed ==
  /\ at = Idle => open = (outcome = "killed")
  /\ at # Idle => open /\ command # NoCommand

Done(what) == outcome = "done" /\ command.does = what
Result == IF command.stdout THEN shown ELSE file

\* Lists, compared with the requests lg: an answer is in them unless the page it
\* needs was refused, and one that is in them was got, and its references were
\* asked for, but those in rest.
Holds(lists, e) == \E i \in DOMAIN lists : \E j \in DOMAIN lists[i] : lists[i][j] = e
Asked(lg, e) == \E i \in DOMAIN lg : lg[i].entry = e
Got(lg, e, S) == \E i \in DOMAIN lg : lg[i].entry = e /\ lg[i].st \in S
Due(rest, k) == \E m \in DOMAIN rest : rest[m] = k
Kept(lists, lg, e) == Holds(lists, e) \/ Got(lg, Entry(e.key, "page", 0), Swallowed)
AllKept(lists, lg) == \A i \in DOMAIN lg : lg[i].st = "ok" => Kept(lists, lg, lg[i].entry)
Followed(lg, rest, e) ==
  e # Nothing =>
    /\ Got(lg, e, {"ok"})
    /\ e.part = "get" => \A r \in DOMAIN Refs[e.key] :
         Asked(lg, Entry(Refs[e.key][r], "get", 0)) \/ Due(rest, Refs[e.key][r])
AllFollowed(lists, lg, rest) ==
  \A i \in DOMAIN lists : \A j \in DOMAIN lists[i] : Followed(lg, rest, lists[i][j])

\* A scan that ended normally holds a list for each target, and in them every
\* answer it got, but the history whose page was refused, nothing the device did
\* not answer, and no resource one of whose references was not asked for.
\* Whatever is refused on the way, it costs the scan that branch and no other
\* (deep_into and rawscan).
ScanComplete ==
  Done("scan") =>
    /\ Len(Result) = Len(command.targets)
    /\ AllKept(Result, log) /\ AllFollowed(Result, log, << >>)

\* What makes them inductive: where a command is and what it holds there.
Scanning == at.phase \in {"get", "page", "interval"}
AtUse ==
  /\ Scanning => command.does = "scan" /\ todo # << >> /\ Len(results) < Len(command.targets)
  /\ at.phase = "page" => Head(todo) \in Histories
  /\ at.phase = "interval" => Head(todo) \in Recorders /\ at.n # 0
  /\ at.phase \notin {"interval", "write"} => at.n = 0
  /\ at.phase \in {"query", "pause"} => command.does = "query" /\ todo # << >>
  /\ at.phase = "put" => command.does = "put" /\ todo # << >>
  /\ at.phase = "check" => command.does = "scan" /\ log = << >>
  /\ at.phase = "write" => /\ command.does = "scan" /\ ~command.stdout
                           /\ disk = "part" /\ at.n \in {0, 1}
  /\ at.phase \notin {"idle", "close"} => outcome = "none"
  /\ at.phase = "close" => outcome \notin {"none", "killed"}
  /\ at.phase \in {"idle", "close", "check", "write"} => todo = << >> /\ list = << >> /\ results = << >>

\* ScanComplete for what a scan has so far: the answer that is waiting for its
\* page or its intervals is still to come, and so are the references in todo.
Pending(e) == at.phase # "get" /\ e = Entry(Head(todo), "get", 0)
SoFar == Append(results, list)
ScanSoFar ==
  Scanning =>
    /\ \A i \in DOMAIN log : log[i].st = "ok" => Kept(SoFar, log, log[i].entry) \/ Pending(log[i].entry)
    /\ AllFollowed(SoFar, log, todo)
    /\ at.phase # "get" => Got(log, Entry(Head(todo), "get", 0), {"ok"})

\* The file of an earlier scan is touched by a scan alone that has got through all
\* its targets, and only for a result that misses nothing: one that fails,
\* finds the credentials wrong or is interrupted before leaves it as it was.  A scan
\* that ends normally leaves the whole result.  What _scan does not promise: once
\* open() has emptied the file, a full disk, a second Ctrl-C or a kill leave a part
\* of the result and nothing of the earlier one (bosch_cli.py:91-92).
FileSafe ==
  /\ disk # "kept" =>
       /\ at.phase \in {"write", "close", "idle"}
       /\ command.does = "scan" /\ ~command.stdout
       /\ Len(file) = Len(command.targets)
       /\ AllKept(file, log) /\ AllFollowed(file, log, << >>)
  /\ Done("scan") /\ ~command.stdout => disk = "whole"

\* The inductive invariant of a command.
CommandInv == TypeOK /\ AtUse /\ SessionClosed /\ ScanSoFar /\ ScanComplete /\ FileSafe

\* A list holds the answers of the requests lg that have one, in their order.
Answers(lg, lst) ==
  \E place \in [DOMAIN lst -> DOMAIN lg] :
    /\ \A i, j \in DOMAIN lst : i < j => place[i] < place[j]
    /\ \A i \in DOMAIN lst : lg[place[i]].st = "ok" /\ lg[place[i]].entry = lst[i]
    /\ \A n \in DOMAIN lg : lg[n].st = "ok" => \E i \in DOMAIN lst : place[i] = n

AskedInOrder == \A i \in DOMAIN log : log[i].entry.key = command.targets[i]

\* A query that ended normally asked for each of its paths and printed the
\* answers in their order: one that is refused does not cost the others
\* (_runquery and raw_query).
QueryExact ==
  Done("query") =>
    /\ Len(log) = Len(command.targets) /\ AskedInOrder
    /\ Len(shown) = 1 /\ Answers(log, shown[1])

\* What makes it inductive: QueryExact for the paths that a query has behind it;
\* those in todo are the others, and while it pauses the last one it asked for.
QuerySoFar ==
  at.phase \in {"query", "pause"} =>
    /\ \E behind \in {IF at.phase = "pause" THEN Len(log) - 1 ELSE Len(log)} :
         /\ behind + Len(todo) = Len(command.targets)
         /\ \A i \in DOMAIN todo : todo[i] = command.targets[behind + i]
    /\ AskedInOrder /\ Answers(log, list)

\* Every command ends, whatever the device answers (coro, and close() whose
\* wait has a timeout).
CommandEnds == at # Idle ~> at = Idle
=============================================================================
