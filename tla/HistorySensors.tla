----------------------------- MODULE HistorySensors -----------------------------
(***************************************************************************)
(* The sensors that read what a device has recorded: RecordingSensor (IVT, *)
(* one resource per day), EcusRecordingSensor (Nefit) and EnergySensor     *)
(* (EasyControl), both paged.  update() keeps the newest record,           *)
(* fetch_range() and fetch_all() read the past under a lock into a         *)
(* dictionary they share.  The device's recordings are external.           *)
(***************************************************************************)
EXTENDS Queues

CONSTANTS
  Tasks,     \* asyncio tasks that use the sensor
  Kinds,     \* classes of sensors
  Hours,     \* hours of a day
  LastHour,  \* bound: no hour of the model is later
  Span,      \* bound: the first and the last hour of the model, for each class
  PageSize,  \* rows of a page
  Offsets,   \* hours by which a clock of the host may be ahead of the device's
  Usage,     \* possible sets of hours with a value other than 0
  Ranges     \* the ranges asked for, in hours (recording) or days (energy)

ASSUME HistoryAssumption ==
  /\ Kinds \subseteq {"recording", "ecus", "energy"}
  /\ Hours \in Nat \ {0} /\ PageSize \in Nat \ {0}
  /\ Offsets \subseteq Int
  /\ LastHour \in Nat /\ Span \in [Kinds -> (0..LastHour) \X (0..LastHour)]
  /\ Usage \subseteq SUBSET (0..LastHour) /\ Ranges \subseteq Nat \X Nat

VARIABLES
  kind,    \* the class of the sensor
  now,     \* the hour, counted from the device's midnight of day 0
  ahead,   \* hours by which the caller of update() is ahead: 0 if it passes the
           \* device's time, another number if it leaves the time to the default, UTC
  used,    \* hours with a value
  log,     \* days the device has stored a row of, oldest first
  pages,   \* _page_number, 0 while it is not known
  past,    \* _past_data: hours (recording) or days
  listed,  \* clear_past_data() has made it a list
  put,     \* _past_put
  entry,   \* _entry_data
  value,   \* the record in _data
  queue,   \* tasks in or before "async with self._lock"
  call     \* what each task is doing

deviceVars == <<kind, now, ahead, used, log>>
vars == <<kind, now, ahead, used, log, pages, past, listed, put, entry, value, queue, call>>

Day(s) == s \div Hours
Slots == 0..LastHour
Days == 0..Day(LastHour)
Paged == kind \in {"ecus", "energy"}
Readers == {"ch", "hw"}   \* eCH and eHW of an EnergySensor

\* op, where it is, arguments, the loop's variables, the result; and for the
\* properties: what the call should find of what was recorded when it was made,
\* and whether every answer since was one with data.
NoCall == [op |-> "none", step |-> "idle", from |-> 0, to |-> 0, at |-> 0, todo |-> {},
           read |-> {}, find |-> {}, out |-> {}, known |-> {}, clean |-> TRUE]

Init ==
  /\ kind \in Kinds /\ now = Span[kind][1] /\ ahead \in Offsets
  /\ used \in IF Paged THEN {{}} ELSE Usage
  /\ log = << >> /\ pages = 0
  /\ past = {} /\ listed = FALSE /\ put = {} /\ entry = {} /\ value = {}
  /\ queue = << >> /\ call = [t \in Tasks |-> NoCall]

-----------------------------------------------------------------------------
(* The device *)

\* Pages of rows, oldest first; Ecus counts from 1, Energy from 0.  The pointer
\* counts the slot to be written next: a page it has moved on to is still empty.
FirstPage == IF kind = "ecus" THEN 1 ELSE 0
Pointer == Len(log) \div PageSize + 1
Rows(p) ==
  {log[i] : i \in {j \in DOMAIN log : (j - 1) \div PageSize + FirstPage = p}}
Recorded(d) == {s \in used : Day(s) = d /\ s <= now}

Tick ==
  /\ now < Span[kind][2] /\ now' = now + 1
  /\ UNCHANGED <<kind, ahead, used, log, pages, past, listed, put, entry, value, queue, call>>

\* The row of a day that is over; a day may have none.
StoreRow(d) ==
  /\ Paged /\ d < Day(now)
  /\ \A i \in DOMAIN log : log[i] < d
  /\ log' = Append(log, d)
  /\ UNCHANGED <<kind, now, ahead, used, pages, past, listed, put, entry, value, queue, call>>

-----------------------------------------------------------------------------
(* The loops: where a call goes on from here, with the dictionary p *)

NextMissing_Skips(c, p) ==
  LET unread == (0..pages - 1) \ c.read
      missing == IF unread = {} THEN {} ELSE {d \in c.at..c.to : d \notin p}
      stop == IF missing = {} THEN c.to + 1 ELSE CHOOSE d \in missing : \A e \in missing : d <= e
  IN [c EXCEPT !.at = stop, !.find = @ \ p,
               !.todo = IF missing = {} THEN {} ELSE unread,
               !.step = IF missing = {} THEN "done" ELSE "get"]

\* Days in the dictionary are taken from it; for the first that is not, the
\* pages not yet read are asked for, newest first.
NextMissing(c, p) ==
  LET unread == (0..pages - 1) \ c.read
      missing == IF unread = {} THEN {} ELSE {d \in c.at..c.to : d \notin p}
      stop == IF missing = {} THEN c.to + 1 ELSE CHOOSE d \in missing : \A e \in missing : d <= e
      cached == (c.at..stop - 1) \cap p
  IN [c EXCEPT !.at = stop, !.out = @ \cup cached, !.find = @ \ cached,
               !.todo = IF missing = {} THEN {} ELSE unread,
               !.step = IF missing = {} THEN "done" ELSE "get"]

EndDay(c, p) == NextMissing([c EXCEPT !.out = @ \cup ({c.at} \cap p), !.at = @ + 1], p)

NextPage(c, p) ==
  IF c.todo # {} THEN [c EXCEPT !.step = "get"] ELSE [c EXCEPT !.step = "done", !.out = p]

NextDay(c, p) ==
  IF c.at < c.to THEN [c EXCEPT !.step = "get"] ELSE [c EXCEPT !.step = "done", !.out = p]

\* Rows fetch_range and fetch_all can reach.
Reachable == {log[i] : i \in {j \in DOMAIN log : (j - 1) \div PageSize < pages}}

\* The first steps after the lock is taken.  The pages of fetch_all are those
\* known now: of the rows in reach when it was called, some may not be any more.
Entered(c) ==
  CASE c.op = "all" ->
         IF past # {} THEN [c EXCEPT !.step = "done", !.out = past, !.clean = FALSE]
         ELSE NextPage([c EXCEPT !.todo = IF kind = "ecus" THEN 1..pages ELSE 0..pages - 1,
                                 !.known = @ \cap Reachable], past)
    [] c.op # "all" /\ kind = "energy" -> NextMissing([c EXCEPT !.at = c.from], past)
    [] OTHER -> NextDay([c EXCEPT !.at = c.from], {})

Cleared_Accumulates(c) == past
Cleared(c) == IF c.op = "range" /\ kind = "recording" THEN {} ELSE past

\* Which page the loop asks for: EnergySensor.fetch_range and the update of an
\* EcusRecordingSensor begin with the newest one.
Page(c) ==
  IF (kind = "energy" /\ c.op = "range") \/ (kind = "ecus" /\ c.op = "update")
  THEN CHOOSE p \in c.todo : \A q \in c.todo : q <= p
  ELSE CHOOSE p \in c.todo : \A q \in c.todo : p <= q

-----------------------------------------------------------------------------
(* fetch_range and fetch_all *)

Free(t) == call[t].step \in {"idle", "done"}
\* What a call returned is kept for the properties until another call starts or goes on.
Calling == [t \in Tasks |-> IF Free(t) THEN NoCall ELSE call[t]]
Finished(c) ==
  LET told == ~Paged \/ (c.clean /\ c.op # "update") IN
  [NoCall EXCEPT !.op = c.op, !.step = "done", !.clean = c.clean,
                 !.from = IF Paged THEN 0 ELSE c.from, !.to = IF Paged THEN 0 ELSE c.to,
                 !.out = IF told THEN c.out ELSE {},
                 !.known = IF told /\ c.op # "update" THEN c.known ELSE {}]
WithResult(c) == IF c.step = "done" THEN Finished(c) ELSE c

Acquire_Unlocked(t, c) ==
  /\ call' = [Calling EXCEPT ![t] = WithResult(Entered(c))]
  /\ queue' = IF Entered(c).step = "done" THEN queue ELSE Append(queue, t)
  /\ past' = Cleared(c)

\* async with self._lock: at once if no task holds it.
Acquire(t, c) ==
  IF queue = << >>
  THEN /\ call' = [Calling EXCEPT ![t] = WithResult(Entered(c))]
       /\ queue' = IF Entered(c).step = "done" THEN << >> ELSE <<t>>
       /\ past' = Cleared(c)
  ELSE /\ call' = [Calling EXCEPT ![t] = [c EXCEPT !.step = "wait"]]
       /\ queue' = Append(queue, t)
       /\ UNCHANGED past

\* today is that of the host.
FetchRange(t, a, b) ==
  LET c == [NoCall EXCEPT !.op = "range", !.from = a, !.to = b] IN
  /\ Free(t)
  /\ \/ /\ kind = "recording"
        /\ Acquire(t, [c EXCEPT !.known = {s \in used : s < now /\ a <= s /\ s < b}])
     \/ /\ kind = "energy"
        /\ \E today \in {Day(now + z) : z \in Offsets} :
             IF pages = 0 \/ b > today \/ a > today
             THEN /\ call' = [Calling EXCEPT ![t] = Finished(c)]
                  /\ UNCHANGED <<past, queue>>
             ELSE LET days == (a..b) \ {today}
                  IN Acquire(t, [c EXCEPT !.known = Reachable \cap days, !.find = days])
  /\ UNCHANGED <<deviceVars, pages, listed, put, entry, value>>

FetchAll(t) ==
  /\ Free(t) /\ Paged
  /\ Acquire(t, [NoCall EXCEPT !.op = "all", !.known = Reachable])
  /\ UNCHANGED <<deviceVars, pages, listed, put, entry, value>>

Locked(t) ==
  /\ queue # << >> /\ Head(queue) = t /\ call[t].step = "wait"
  /\ call' = [Calling EXCEPT ![t] = WithResult(Entered(call[t]))]
  /\ queue' = IF Entered(call[t]).step = "done" THEN Tail(queue) ELSE queue
  /\ past' = Cleared(call[t])
  /\ UNCHANGED <<deviceVars, pages, listed, put, entry, value>>

\* The call goes on as c with the dictionary p, or returns.
GoOn(t, c, p) ==
  /\ \E next \in {c} :
       /\ call' = [Calling EXCEPT ![t] = WithResult(next)]
       /\ queue' = IF next.step = "done" THEN Tail(queue) ELSE queue
  /\ past' = p
  /\ UNCHANGED <<deviceVars, pages, listed, put, entry, value>>

Raised(t) ==
  /\ call' = [Calling EXCEPT ![t] = NoCall]
  /\ IF call[t].step \in {"wait", "get"}
     THEN \E i \in 1..Len(queue) : queue[i] = t /\ queue' = RemoveAt(queue, i)
     ELSE UNCHANGED queue
  /\ UNCHANGED <<deviceVars, pages, past, listed, put, entry, value>>

\* for row in data.get(VALUE, []): self._past_data[...] = row, which a list refuses
GotRows(t) ==
  LET c == call[t]
      p == Page(c)
  IN /\ c.step = "get" /\ Paged
     /\ \E rows \in {Rows(p), {}} :
          LET kept == past \cup rows
              left == [c EXCEPT !.todo = @ \ {p}, !.find = @ \ rows, !.clean = @ /\ rows = Rows(p)]
              more == [left EXCEPT !.read = @ \cup {p}]
              \* if not days_to_find: break, before the page counts as read
              next == IF left.find = {} THEN EndDay(left, kept)
                      ELSE IF left.todo = {} THEN EndDay(more, kept) ELSE more
          IN IF listed /\ rows # {} THEN Raised(t)
             ELSE GoOn(t, IF c.op = "all" THEN NextPage(left, kept) ELSE next, kept)

\* if RECORDING in data: a day without it is passed over, and its hours are
\* none that the call should find.
GotDay(t) ==
  LET c == call[t]
      kept == past \cup {s \in Recorded(Day(c.at)) : c.from <= s /\ s <= c.to}
      others == {s \in c.known : Day(s) # Day(c.at)}
  IN /\ c.step = "get" /\ kind = "recording"
     /\ \/ GoOn(t, NextDay([c EXCEPT !.at = @ + Hours], kept), kept)
        \/ GoOn(t, NextDay([c EXCEPT !.at = @ + Hours, !.known = others], past), past)

GotNothing_Repeats(t) ==
  /\ call[t].step = "get"
  /\ GoOn(t, IF call[t].op = "all" THEN [call[t] EXCEPT !.clean = FALSE, !.step = "done"]
             ELSE [call[t] EXCEPT !.clean = FALSE], past)

\* if not data: the same day again, the next page, or fetch_all gives up
GotNothing(t) ==
  LET c == call[t]
      left == [c EXCEPT !.clean = FALSE, !.todo = @ \ {Page(c)}]
  IN /\ c.step = "get"
     /\ GoOn(t, CASE kind = "recording" -> [c EXCEPT !.clean = FALSE]
                  [] Paged /\ c.op = "all" -> [c EXCEPT !.clean = FALSE, !.step = "done"]
                  [] OTHER -> IF left.todo = {} THEN EndDay(left, past) ELSE left,
             past)

\* DeviceException, DeviceConnectionError or a cancellation leave the lock.
FetchRaises(t) == call[t].step \in {"wait", "get"} /\ Raised(t)

\* clear_past_data() does not take the lock.
ClearPastData(s) ==
  /\ Paged
  /\ put' = put \cup {s}
  /\ IF put' = Readers
     THEN /\ past' = {} /\ listed' = (kind = "ecus" \/ listed)
          /\ call' = [t \in Tasks |-> [Calling[t] EXCEPT !.clean = @ /\ Free(t)]]
     ELSE UNCHANGED <<past, listed, call>>
  /\ UNCHANGED <<deviceVars, pages, entry, value, queue>>

-----------------------------------------------------------------------------
(* update *)

Updating(u) == call[u].step \in {"pointer", "page"}

\* A sensor is polled by one task at a time.  Its clock names the day; an hour of
\* a recording should be found if the device has it on the day of that name.
Update(t) ==
  LET hour == now + ahead
      yesterday == Day(hour) - 1
      newest == {s \in used : s = now - 1 /\ Day(s) = Day(s + ahead)}
  IN
  /\ Free(t) /\ \A u \in Tasks : ~Updating(u)
  /\ call' = [Calling EXCEPT ![t] =
       [NoCall EXCEPT !.op = "update", !.step = IF Paged THEN "pointer" ELSE "page",
                      \* before one o'clock, the day before
                      !.at = IF Paged \/ hour % Hours < 1 THEN yesterday ELSE Day(hour),
                      !.known = IF Paged THEN {yesterday} \cap ToSet(log) ELSE newest]]
  /\ UNCHANGED <<deviceVars, pages, past, listed, put, entry, value, queue>>

\* The pages to look for yesterday's row in; a page the device has moved on to
\* may still be empty.
LatestPages_One(n) == IF kind = "energy" THEN {n - 1} ELSE {n}
LatestPages(n) == IF kind = "energy" THEN {n - 2, n - 1} ELSE {n, n - 1} \ {0}

\* n is the page number.
UpdatePages(t, c, n) ==
  /\ pages' = n
  /\ entry' = IF n > 0 THEN {} ELSE entry
  /\ call' = [Calling EXCEPT ![t] =
       IF n = 0 THEN Finished(c)
       ELSE [c EXCEPT !.step = "page",
                      !.todo = LatestPages(n)]]
  /\ UNCHANGED <<deviceVars, past, listed, put, value, queue>>

GotPointer(t) ==
  /\ call[t].step = "pointer"
  /\ UpdatePages(t, call[t], Pointer)

\* A device that counts no pages, a value that is no number, or an exception:
\* the page number stays.  An answer without a value has EcusRecordingSensor
\* take the page number it knows for the pointer, and divide it once more.
NoPointer(t) ==
  LET c == [call[t] EXCEPT !.clean = FALSE] IN
  /\ call[t].step = "pointer"
  /\ \/ UpdatePages(t, c, pages)
     \/ kind = "ecus" /\ pages > 0 /\ UpdatePages(t, c, (pages + PageSize - 1) \div PageSize)

Record_AnyDay(day, interval) == Recorded(interval)

\* The hours of a day, or none if the answer is of another day than the one asked for.
Record(day, interval) == IF interval = day THEN Recorded(day) ELSE {}

\* process_results(): the rows from the newest down to yesterday's, or the hours.
GotUpdate(t) ==
  LET c == call[t]
      p == Page(c)
      y == c.at
      seen == {d \in Rows(p) : y \in Rows(p) => d >= y}
      left == IF y \in Rows(p) /\ kind = "ecus" THEN {} ELSE c.todo \ {p}
  IN /\ c.step = "page"
     /\ IF Paged
        THEN /\ entry' = entry \cup seen
             /\ value' = IF y \in Rows(p) THEN {y} ELSE value
             /\ call' = [Calling EXCEPT ![t] = IF left = {} THEN Finished(c) ELSE [c EXCEPT !.todo = left]]
        ELSE /\ UNCHANGED entry
             /\ \E interval \in Days \cup {y} :
                  /\ value' = Record(y, interval)
                  /\ call' = [Calling EXCEPT ![t] = Finished([c EXCEPT !.clean = @ /\ interval = y])]
     /\ UNCHANGED <<deviceVars, pages, past, listed, put, queue>>

\* No result: the value stays, and a paged sensor goes on to the next page.
NoUpdate(t) ==
  LET c == [call[t] EXCEPT !.clean = FALSE]
      left == IF Paged THEN c.todo \ {Page(c)} ELSE {}
  IN /\ c.step = "page"
     /\ call' = [Calling EXCEPT ![t] = IF left = {} THEN Finished(c) ELSE [c EXCEPT !.todo = left]]
     /\ UNCHANGED <<deviceVars, pages, past, listed, put, entry, value, queue>>

\* except DeviceException: logged, and the call succeeds.
UpdateSwallows(t) ==
  /\ call[t].step = "page"
  /\ call' = [Calling EXCEPT ![t] = Finished([@ EXCEPT !.clean = FALSE])]
  /\ UNCHANGED <<deviceVars, pages, past, listed, put, entry, value, queue>>

\* None for the page number has no get(); or the task is cancelled.
UpdateRaises(t) == call[t].step \in {"pointer", "page"} /\ Raised(t)

-----------------------------------------------------------------------------
Fetched(t) == GotRows(t) \/ GotDay(t) \/ GotNothing(t)

Answered(t) ==
  \/ Fetched(t)
  \/ GotPointer(t) \/ NoPointer(t) \/ GotUpdate(t) \/ NoUpdate(t) \/ UpdateSwallows(t)

Next ==
  \/ Tick
  \/ \E d \in Days : StoreRow(d)
  \/ \E s \in Readers : ClearPastData(s)
  \/ \E t \in Tasks :
       \/ \E r \in Ranges : FetchRange(t, r[1], r[2])
       \/ FetchAll(t) \/ Locked(t) \/ Update(t)
       \/ Answered(t) \/ FetchRaises(t) \/ UpdateRaises(t)

Spec == Init /\ [][Next]_vars

\* The gateway answers the requests of a fetch, and a lock that is released goes
\* to the next waiting task.
FairSpec == Spec /\ \A t \in Tasks : WF_vars(Fetched(t) \/ Locked(t))
=============================================================================
