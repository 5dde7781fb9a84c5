------------------------------- MODULE MCSchedule -------------------------------
(* Small instances of a schedule for TLC. *)
EXTENDS ScheduleProperties

CONSTANTS a, b, Dates, Degrees

TwoTasks == {a, b}
Symmetry == Permutations(Tasks)

ScheduleKeys == {"active", "mode", "clock", "p", "q", "on", "high", "off"}
ScheduleLevels == {"on", "high", "off"}
ScheduleDomain ==
  [k \in ScheduleKeys |->
     CASE k = "active" -> {"p", "q"}
       [] k = "mode" -> {"levels", "absolute"}
       [] k = "clock" -> Dates
       [] k \in {"p", "q"} -> {k}
       [] OTHER -> Degrees]

\* A week of six minutes.  Out of order, two at the same minute, which is also that
\* of the date; and two that are yet to come, so that the week wraps around.
WeekPoints ==
  [p |-> <<[at |-> 3, level |-> "on"], [at |-> 1, level |-> "off"], [at |-> 3, level |-> "high"]>>,
   q |-> <<[at |-> 5, level |-> "high"], [at |-> 4, level |-> "high"]>>]
WeekDates == [friday |-> 3]

TwoPrograms == {"p", "q"}
Nothing == {}

\* Nobody has set a temperature yet.
ColdInit == Init /\ \A l \in Levels : dev[l] \notin Settable
ColdSpec == ColdInit /\ [][Next]_vars /\ Fairness

\* No guard reads stale, and the properties of this run do not either.
WithoutStale == <<dev, queue, ask, reply, changes, cacheVars, job>>
=============================================================================
