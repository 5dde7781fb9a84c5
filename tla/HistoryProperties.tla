-------------------------- MODULE HistoryProperties --------------------------
(* What the sensors of recordings promise. *)
EXTENDS HistorySensors

Steps == {"idle", "wait", "get", "pointer", "page", "done"}
Calls ==
  [op : {"none", "range", "all", "update"}, step : Steps, from : Nat, to : Nat,
   at : Int, todo : SUBSET Int, read : SUBSET Int, find : SUBSET Int, out : SUBSET Int,
   known : SUBSET Int, clean : BOOLEAN]

HistoryTypes ==
  /\ kind \in Kinds /\ now \in 0..LastHour /\ ahead \in Int /\ used \subseteq 0..LastHour
  /\ log \in Seq(Days) /\ pages \in Nat
  /\ past \subseteq Int /\ listed \in BOOLEAN /\ put \subseteq Readers
  /\ entry \subseteq Int /\ value \subseteq Int
  /\ queue \in Seq(Tasks) /\ call \in [Tasks -> Calls]

\* The calls between their first request and their return hold the lock: there
\* is one of them, and the tasks behind it wait.
Queued(t) == call[t].step \in {"wait", "get"}
LockUse ==
  /\ Once(queue)
  /\ \A t \in Tasks : Queued(t) <=> Among(t, queue)
  /\ \A t \in Tasks : call[t].step = "get" => queue # << >> /\ Head(queue) = t

\* The rows are those of days that are over, and the page number that is known
\* is none the pointer has not reached.
DeviceUse == pages <= Pointer /\ \A i \in 1..Len(log) : log[i] < Day(now)

\* A call for recorded hours looks for those of its range.  While it reads,
\* the dictionary has hours of its range alone, and all of the days behind it.
HoursFit(c) ==
  c.step \in {"wait", "get"} =>
    /\ c.op = "range" /\ c.known \subseteq {s \in used : s < now /\ c.from <= s /\ s < c.to}
    /\ c.step = "get" =>
         /\ past \subseteq {s \in used : c.from <= s /\ s <= c.to}
         /\ c.at % Hours = c.from % Hours
         /\ {s \in c.known : Day(s) < Day(c.at)} \subseteq past

\* A call that reads has a page to read, of those that the device has or is on.  A row
\* that a call looks for is in the dictionary or on a page that is still to
\* be read for the day the loop is at, as long as nobody clears it; and of a
\* range, it is among the days still to be found, or behind.
RowsFit(c) ==
  c.step \in {"wait", "get"} =>
    /\ c.op = "all" \/ (c.op = "range" /\ kind = "energy" /\ c.known \subseteq c.from..c.to)
    /\ c.step = "wait" =>
         /\ c.read = {}
         /\ c.op = "range" => c.known \subseteq Reachable \cap c.find
    /\ c.step = "get" => c.todo # {} /\ c.todo \subseteq 0..Pointer
    /\ c.step = "get" /\ c.clean =>
         /\ c.known \subseteq past \cup UNION {Rows(p) : p \in c.todo}
         /\ c.op = "range" =>
              /\ c.known \subseteq past \cup c.find
              /\ {d \in c.known : d < c.at} \subseteq c.out

FetchUse ==
  \A t \in Tasks :
    /\ Updating(t) => call[t].op = "update"
    /\ IF Paged THEN RowsFit(call[t]) ELSE HoursFit(call[t])

Returned(t, op) == call[t].step = "done" /\ call[t].op = op

\* fetch_range of a RecordingSensor returns the hours of its own range, whatever
\* other calls fetch meanwhile, and all of them that were recorded when it was
\* called, except those of a day whose answer had no "recording" and those of the
\* last day when the range ends at an earlier hour than it begins: the loop goes
\* by whole days (recording.py:84-109).
HoursExact(c) ==
  LET asked == {s \in c.known : Day(s) < Day(c.to) \/ c.from % Hours < c.to % Hours}
  IN /\ asked \subseteq c.out
     /\ c.out \subseteq {s \in used : c.from <= s /\ s <= c.to}
RangeExact ==
  kind = "recording" => \A t \in Tasks : Returned(t, "range") => HoursExact(call[t])

\* A fetch whose dictionary nobody cleared meanwhile and whose pages all came
\* back with rows returns every row that was in reach when it was called:
\* fetch_range of an EnergySensor the days of its range but the host's today,
\* whatever part of it was there before, in whatever order pages are read and
\* wherever it stops (energy.py:92-148); fetch_all everything that was in reach
\* still when it took the lock, if it found the dictionary empty.  The page
\* number of an EcusRecordingSensor can shrink while it waits
\* (ecus_recording.py:93-95): the rows that this puts out of reach it misses.
FetchComplete ==
  \A t \in Tasks :
    /\ Returned(t, "all") \/ (kind = "energy" /\ Returned(t, "range"))
    /\ call[t].clean
    => call[t].known \subseteq call[t].out

\* What makes all of this so, whatever tasks, hours, days and pages there are.
HistoryInv ==
  /\ HistoryTypes /\ LockUse /\ DeviceUse /\ FetchUse
  /\ RangeExact /\ FetchComplete

\* An update in which every request was answered with what it asked for leaves
\* the newest complete record: yesterday's row by the clock of its caller, also on
\* the day a page rolls over (ecus_recording.py:103-106, energy.py:189), or the
\* hour before this one, also in the first hour of a day, if the caller's clock
\* and the device's have that hour on the same day (recording.py:122-126; the
\* default is UTC).  Two pages are enough unless it takes as many midnights as a
\* page has rows.
InTime(c) == Day(now) - c.at <= PageSize
UpdateFinds ==
  [][\A t \in Tasks :
       Updating(t) /\ call'[t].step = "done" /\ call'[t].clean /\ (Paged => InTime(call[t])) =>
         /\ call[t].known \subseteq value'
         /\ Paged => call[t].known \subseteq entry']_vars

\* What makes it so: rows are stored in the order of their days, one task
\* updates, and what it should find is in the record or on a page that it has
\* still to ask for.
RowsInOrder == \A i, j \in 1..Len(log) : i <= j => j - i <= log[j] - log[i]
UpdateFits(c) ==
  /\ c.known \subseteq IF Paged THEN {c.at} \cap ToSet(log) ELSE Recorded(c.at)
  /\ Paged /\ c.step = "page" /\ c.clean /\ InTime(c) =>
       \/ c.known \subseteq entry \cap value
       \/ \E p \in c.todo : c.known \subseteq Rows(p)
UpdateUse ==
  /\ RowsInOrder
  /\ \A t, u \in Tasks : Updating(t) /\ Updating(u) => t = u
  /\ \A t \in Tasks : Updating(t) => UpdateFits(call[t])

\* The record never goes back to an earlier day, for a caller that keeps to one
\* clock: not when an answer is late or of another day than the one asked for
\* (recording.py:54-58), a page comes back empty or in the wrong order, or the
\* page number shrinks.
DayOf(s) == IF Paged THEN s ELSE Day(s)
RecordAdvances == [][\A r \in value, s \in value' : DayOf(r) <= DayOf(s)]_vars

\* What makes it so: a record is of one day, no later than the one an update
\* asks for, and no later than the one that the next update would.
Asked == IF Paged THEN Day(now + ahead) - 1 ELSE Day(now + ahead - 1)
RecordUse ==
  /\ \A s \in value : DayOf(s) <= Asked /\ \A r \in value : DayOf(r) = DayOf(s)
  /\ \A t \in Tasks : Updating(t) =>
       call[t].at <= Asked /\ \A s \in value : DayOf(s) <= call[t].at

\* A fetch ends and frees its lock, for as many pages that come back empty; only
\* RecordingSensor.fetch_range may not, once a day has come back empty: it asks
\* for that day again, for as long as it comes back empty (recording.py:89-90).
FetchReturns ==
  \A t \in Tasks :
    Queued(t) ~>
      ~Queued(t) \/ (kind = "recording" /\ \E u \in Tasks : Queued(u) /\ ~call[u].clean)
=============================================================================
