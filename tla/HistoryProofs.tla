------------------------------ MODULE HistoryProofs ------------------------------
(***************************************************************************)
(* What the sensors of recordings return, for every set of tasks, every    *)
(* number of hours and days, and every size of a page.                     *)
(***************************************************************************)
EXTENDS HistoryProperties, QueueProofs, WellFoundedInduction, TLAPS

\* A call stays a record of its kind, whatever field changes.
LEMMA Edits ==
  ASSUME NEW c \in Calls
  PROVE  /\ \A s \in Steps : [c EXCEPT !.step = s] \in Calls
         /\ \A a \in Int : [c EXCEPT !.at = a] \in Calls
         /\ \A S \in SUBSET Int :
              /\ [c EXCEPT !.todo = S] \in Calls /\ [c EXCEPT !.read = S] \in Calls
              /\ [c EXCEPT !.find = S] \in Calls /\ [c EXCEPT !.out = S] \in Calls
              /\ [c EXCEPT !.known = S] \in Calls
         /\ \A b \in BOOLEAN : [c EXCEPT !.clean = b] \in Calls
BY DEF Calls

USE HistoryAssumption

-----------------------------------------------------------------------------
(* Hours and days                                                          *)

LEMMA Euclid ==
  \A a \in Int, k \in Nat \ {0} :
    a = k * (a \div k) + (a % k) /\ a % k \in 0..(k - 1) /\ a \div k \in Int
OBVIOUS

\* The same hour of the next day.
LEMMA NextDayOf ==
  ASSUME NEW a \in Int, NEW k \in Nat \ {0}
  PROVE  (a + k) \div k = (a \div k) + 1 /\ (a + k) % k = a % k
<1> DEFINE q == a \div k
           r == a % k
           x == (a + k) \div k
           y == (a + k) % k
           d == x - q - 1
<1>1. a = k * q + r /\ r \in 0..(k - 1) /\ q \in Int
  BY Euclid
<1>2. a + k = k * x + y /\ y \in 0..(k - 1) /\ x \in Int
  <2>1. a + k \in Int
    OBVIOUS
  <2> QED BY <2>1, Euclid
<1> HIDE DEF q, r, x, y
<1>3. k * d = r - y /\ d \in Int
  BY <1>1, <1>2
<1>4. d >= 1 => k * d >= k
  BY <1>3
<1>5. d <= -1 => k * d <= -k
  BY <1>3
<1> HIDE DEF d
<1>6. d = 0
  BY <1>1, <1>2, <1>3, <1>4, <1>5
<1>7. r - y = 0
  BY <1>3, <1>6
<1> QED BY <1>1, <1>2, <1>6, <1>7 DEF d, q, r, x, y

\* Days follow each other as their hours do.
LEMMA DaysFollow ==
  /\ \A a \in Int : Day(a) \in Int /\ Day(a + Hours) = Day(a) + 1 /\ (a + Hours) % Hours = a % Hours
  /\ \A a \in Nat : Day(a) \in Nat
  /\ \A a, b \in Int : a <= b => Day(a) <= Day(b)
  /\ \A a, b \in Int : a >= b /\ a % Hours < b % Hours => Day(a) > Day(b)
<1>1. \A a \in Int : Day(a) \in Int /\ Day(a + Hours) = Day(a) + 1 /\ (a + Hours) % Hours = a % Hours
  <2>1. ASSUME NEW a \in Int
        PROVE  Day(a) \in Int /\ Day(a + Hours) = Day(a) + 1 /\ (a + Hours) % Hours = a % Hours
    BY NextDayOf, Euclid, HistoryAssumption DEF Day
  <2> QED BY <2>1
<1>2. \A a \in Nat : Day(a) \in Nat
  BY DEF Day
<1>3. \A a, b \in Int, k \in Nat \ {0} : a <= b => a \div k <= b \div k
  OBVIOUS
<1>4. \A a, b \in Int, k \in Nat \ {0} : a >= b /\ a % k < b % k => a \div k > b \div k
  OBVIOUS
<1> QED BY <1>1, <1>2, <1>3, <1>4 DEF Day

\* Of some days there is a first one.
LEMMA FirstExists ==
  ASSUME NEW a \in Int, NEW b \in Int, NEW S \in SUBSET (a..b), S # {}
  PROVE  \E x \in S : \A y \in S : x <= y
<1> DEFINE U == {s - a : s \in S}
<1>1. U \subseteq Nat /\ U # {}
  <2>1. \A s \in S : s - a \in Nat
    OBVIOUS
  <2> QED BY <2>1
<1> HIDE DEF U
<1>2. PICK u \in U : \A v \in U : ~(<<v, u>> \in OpToRel(<, Nat))
  BY <1>1, WFMin, NatLessThanWellFounded
<1>3. \A v \in U : ~(v < u)
  BY <1>1, <1>2 DEF OpToRel
<1> USE DEF U
<1>4. PICK x \in S : u = x - a
  OBVIOUS
<1>5. \A y \in S : x <= y
  <2>1. SUFFICES ASSUME NEW y \in S PROVE x <= y
    OBVIOUS
  <2>2. y - a \in U /\ ~(y - a < x - a)
    BY <1>3, <1>4
  <2> QED BY <2>2
<1> QED BY <1>5

-----------------------------------------------------------------------------
(* Rows and pages                                                          *)

LEMMA RowsAndPages ==
  ASSUME HistoryTypes
  PROVE  /\ \A p : Rows(p) \subseteq Days
         /\ Days \subseteq Nat /\ Reachable \subseteq Days
         /\ Pointer \in Nat
         /\ kind = "ecus" => Reachable \subseteq UNION {Rows(p) : p \in 1..pages}
         /\ kind # "ecus" => Reachable \subseteq UNION {Rows(p) : p \in 0..pages - 1}
<1>1. log \in Seq(Days) /\ pages \in Nat /\ Days \subseteq Nat
  BY DaysFollow DEF HistoryTypes, Days
<1>2. \A p : Rows(p) \subseteq Days
  BY <1>1 DEF Rows
<1>3. Reachable \subseteq Days
  BY <1>1 DEF Reachable
<1>4. \A a \in Nat, k \in Nat \ {0} : a \div k \in Nat
  OBVIOUS
<1>5. Pointer \in Nat
  BY <1>1, <1>4 DEF Pointer
<1>6. ASSUME NEW d \in Reachable
      PROVE  \E n \in 0..pages - 1 : d \in Rows(n + FirstPage)
  <2>1. PICK j \in DOMAIN log : d = log[j] /\ (j - 1) \div PageSize < pages
    BY DEF Reachable
  <2>2. (j - 1) \div PageSize \in Nat
    BY <1>1, <1>4
  <2>3. (j - 1) \div PageSize \in 0..pages - 1
    BY <1>1, <2>1, <2>2
  <2>4. d \in Rows(((j - 1) \div PageSize) + FirstPage)
    BY <2>1 DEF Rows
  <2> QED BY <2>3, <2>4
<1>7. kind = "ecus" => Reachable \subseteq UNION {Rows(p) : p \in 1..pages}
  BY <1>1, <1>6 DEF FirstPage
<1>8. kind # "ecus" => Reachable \subseteq UNION {Rows(p) : p \in 0..pages - 1}
  BY <1>1, <1>6 DEF FirstPage
<1> QED BY <1>1, <1>2, <1>3, <1>5, <1>7, <1>8

-----------------------------------------------------------------------------
(* The calls                                                               *)

\* What the invariant says of a call: where it is, what it looks for and, once
\* it is done, what it returned.
Fits(c) ==
  /\ c.step \in {"pointer", "page"} => c.op = "update"
  /\ IF Paged THEN RowsFit(c) ELSE HoursFit(c)
  /\ c.step = "done" =>
       /\ kind = "recording" /\ c.op = "range" => HoursExact(c)
       /\ c.op = "all" \/ (kind = "energy" /\ c.op = "range") => (c.clean => c.known \subseteq c.out)

\* The device may go on, and the pages known may change: the call still fits, if it
\* does not use the dictionary or the dictionary is the same.
LEMMA StillFits ==
  ASSUME HistoryTypes, NEW c \in Calls, Fits(c), kind' = kind, used' = used, now' \in Nat, now <= now',
         Pointer' \in Nat, Pointer <= Pointer',
         \A p : Rows(p) \subseteq Rows(p)', kind = "energy" => Reachable \subseteq Reachable',
         past' = past \/ c.step # "get"
  PROVE  Fits(c)'
<1>1. Paged' <=> Paged
  BY DEF Paged
<1>2. now \in Nat /\ used \subseteq Nat
  BY DEF HistoryTypes
<1>3. RowsFit(c) => RowsFit(c)'
  <2>1. 0..Pointer \subseteq 0..Pointer'
    BY RowsAndPages
  <2> QED BY <2>1 DEF RowsFit
<1>4. HoursFit(c) => HoursFit(c)'
  <2>1. \A s : s \in used /\ s < now => s < now'
    BY <1>2
  <2> QED BY <2>1 DEF HoursFit
<1>5. HoursExact(c) => HoursExact(c)'
  BY DEF HoursExact
<1> QED BY <1>1, <1>3, <1>4, <1>5 DEF Fits

\* A call is free, or the one that was.
LEMMA Others ==
  ASSUME HistoryInv, NEW t \in Tasks, NEW d \in Calls, call' = [Calling EXCEPT ![t] = d]
  PROVE  /\ call' \in [Tasks -> Calls] /\ call'[t] = d
         /\ \A u \in Tasks \ {t} :
              /\ call'[u] = IF Free(u) THEN NoCall ELSE call[u]
              /\ Queued(u)' <=> Queued(u)
              /\ call'[u].step = "get" <=> call[u].step = "get"
<1>1. call \in [Tasks -> Calls]
  BY DEF HistoryInv, HistoryTypes
<1>2. NoCall \in Calls /\ NoCall.step = "idle"
  BY DEF NoCall, Calls, Steps
<1>3. call'[t] = d /\ \A u \in Tasks \ {t} : call'[u] = IF Free(u) THEN NoCall ELSE call[u]
  BY <1>1 DEF Calling
<1>4. call' \in [Tasks -> Calls]
  BY <1>1, <1>2 DEF Calling
<1> QED BY <1>2, <1>3, <1>4 DEF Free, Queued

\* When every call fits, the invariants of the calls hold.
LEMMA AllFit ==
  ASSUME \A u \in Tasks : \E c \in Calls : call'[u] = c /\ Fits(c)'
  PROVE  FetchUse' /\ RangeExact' /\ FetchComplete'
<1>1. ASSUME NEW u \in Tasks
      PROVE  /\ (Updating(u) => call[u].op = "update")'
             /\ (IF Paged THEN RowsFit(call[u]) ELSE HoursFit(call[u]))'
             /\ (kind = "recording" => (Returned(u, "range") => HoursExact(call[u])))'
             /\ ((/\ Returned(u, "all") \/ (kind = "energy" /\ Returned(u, "range"))
                  /\ call[u].clean) => call[u].known \subseteq call[u].out)'
  <2>1. PICK c \in Calls : call'[u] = c /\ Fits(c)'
    OBVIOUS
  <2>2. (Updating(u) => call[u].op = "update")'
    BY <2>1 DEF Fits, Updating
  <2>3. (IF Paged THEN RowsFit(call[u]) ELSE HoursFit(call[u]))'
    BY <2>1 DEF Fits, RowsFit, HoursFit
  <2>4. (kind = "recording" => (Returned(u, "range") => HoursExact(call[u])))'
    BY <2>1 DEF Fits, Returned, HoursExact
  <2>5. ((/\ Returned(u, "all") \/ (kind = "energy" /\ Returned(u, "range"))
          /\ call[u].clean) => call[u].known \subseteq call[u].out)'
    BY <2>1 DEF Fits, Returned
  <2> QED BY <2>2, <2>3, <2>4, <2>5
<1> QED BY <1>1 DEF FetchUse, RangeExact, FetchComplete

\* One call goes on as d, and the others as they were.
LEMMA CallStep ==
  ASSUME HistoryInv, NEW t \in Tasks, NEW d \in Calls, call' = [Calling EXCEPT ![t] = d],
         kind' = kind, used' = used, now' \in Nat, now <= now', Pointer' \in Nat, Pointer <= Pointer',
         \A p : Rows(p) \subseteq Rows(p)', kind = "energy" => Reachable \subseteq Reachable',
         past' = past \/ \A u \in Tasks \ {t} : call[u].step # "get",
         Fits(d)'
  PROVE  call' \in [Tasks -> Calls] /\ FetchUse' /\ RangeExact' /\ FetchComplete'
<1>1. HistoryTypes /\ call \in [Tasks -> Calls] /\ call' \in [Tasks -> Calls]
  BY Others DEF HistoryInv, HistoryTypes
<1>2. \A u \in Tasks : Fits(call[u])
  BY DEF HistoryInv, FetchUse, RangeExact, FetchComplete, Fits, Returned, Updating
<1>3. ASSUME NEW u \in Tasks PROVE \E c \in Calls : call'[u] = c /\ Fits(c)'
  <2>1. CASE u = t
    BY <2>1, Others
  <2>2. CASE u # t /\ Free(u)
    <3>0. NoCall \in Calls
      BY DEF NoCall, Calls, Steps
    <3>1. call'[u] = NoCall /\ NoCall \in Calls
      BY <2>2, <3>0, Others
    <3>2. Fits(NoCall)'
      <4>1. NoCall.step = "idle"
        BY DEF NoCall
      <4> QED BY <4>1 DEF Fits, RowsFit, HoursFit
    <3> QED BY <3>1, <3>2
  <2>3. CASE u # t /\ ~Free(u)
    <3>1. call'[u] = call[u] /\ call[u] \in Calls
      BY <1>1, <2>3, Others
    <3>2. \A c \in Calls : c = call[u] => Fits(c)'
      <4>1. SUFFICES ASSUME NEW c \in Calls, c = call[u] PROVE Fits(c)'
        OBVIOUS
      <4>2. Fits(c)
        BY <1>2, <4>1 DEF Fits, RowsFit, HoursFit, HoursExact
      <4>3. past' = past \/ c.step # "get"
        BY <2>3, <4>1
      <4> QED BY <1>1, <4>2, <4>3, StillFits
    <3> QED BY <3>1, <3>2
  <2> QED BY <2>1, <2>2, <2>3
<1> QED BY <1>1, <1>3, AllFit

-----------------------------------------------------------------------------
(* The lock                                                                *)

\* A call waits for the lock, takes it, holds it, passes it on or gives up.
LEMMA LockStep ==
  ASSUME HistoryInv, NEW t \in Tasks, NEW d \in Calls, call' = [Calling EXCEPT ![t] = d],
         \/ ~Queued(t) /\ d.step = "wait" /\ queue # << >> /\ queue' = Append(queue, t)
         \/ ~Queued(t) /\ d.step = "get" /\ queue = << >> /\ queue' = <<t>>
         \/ ~Queued(t) /\ d.step \notin {"wait", "get"} /\ queue' = queue
         \/ queue # << >> /\ Head(queue) = t /\ d.step = "get" /\ queue' = queue
         \/ queue # << >> /\ Head(queue) = t /\ d.step \notin {"wait", "get"} /\ queue' = Tail(queue)
         \/ /\ d.step \notin {"wait", "get"}
            /\ \E i \in 1..Len(queue) : queue[i] = t /\ queue' = RemoveAt(queue, i)
  PROVE  queue' \in Seq(Tasks) /\ LockUse'
<1>1. /\ queue \in Seq(Tasks) /\ Once(queue)
      /\ \A u \in Tasks : Queued(u) <=> Among(u, queue)
      /\ \A u \in Tasks : call[u].step = "get" => queue # << >> /\ Head(queue) = u
  BY DEF HistoryInv, HistoryTypes, LockUse
<1>2. call'[t] = d
  BY Others
<1>3. \A u \in Tasks \ {t} :
        (Queued(u)' <=> Queued(u)) /\ (call'[u].step = "get" <=> call[u].step = "get")
  BY Others
<1>4. Queued(t)' <=> d.step \in {"wait", "get"}
  BY <1>2 DEF Queued
<1>5. SUFFICES /\ queue' \in Seq(Tasks) /\ Once(queue')
               /\ \A u \in Tasks : (Queued(u) \/ u = t) /\ (u = t => d.step \in {"wait", "get"}) <=> Among(u, queue')
               /\ \A u \in Tasks :
                    IF u = t THEN d.step = "get" => queue' # << >> /\ Head(queue') = u
                    ELSE Queued(u) /\ queue # << >> /\ Head(queue) = u /\ call[u].step = "get"
                         => queue' # << >> /\ Head(queue') = u
  <2>1. ASSUME NEW u \in Tasks, Among(u, queue') <=> (Queued(u) \/ u = t) /\ (u = t => d.step \in {"wait", "get"})
        PROVE  (Queued(u) <=> Among(u, queue))'
    <3>1. Among(u, queue)' <=> Among(u, queue')
      BY DEF Among
    <3> QED BY <1>3, <1>4, <2>1, <3>1
  <2>2. ASSUME NEW u \in Tasks,
               IF u = t THEN d.step = "get" => queue' # << >> /\ Head(queue') = u
               ELSE Queued(u) /\ queue # << >> /\ Head(queue) = u /\ call[u].step = "get"
                    => queue' # << >> /\ Head(queue') = u
        PROVE  (call[u].step = "get" => queue # << >> /\ Head(queue) = u)'
    <3>1. CASE u = t
      BY <1>2, <2>2, <3>1
    <3>2. CASE u # t
      <4>1. call[u].step = "get" => Queued(u)
        BY DEF Queued
      <4> QED BY <1>1, <1>3, <2>2, <3>2, <4>1
    <3> QED BY <3>1, <3>2
  <2> QED BY <2>1, <2>2 DEF LockUse, Once
<1>6. CASE ~Queued(t) /\ d.step = "wait" /\ queue # << >> /\ queue' = Append(queue, t)
  <2>1. \A i \in 1..Len(queue) : queue[i] # t
    BY <1>1, <1>6 DEF Among
  <2>2. queue' \in Seq(Tasks) /\ Once(queue') /\ Head(queue') = Head(queue) /\ queue' # << >>
    BY <1>1, <1>6, <2>1, Joins
  <2>3. \A u \in Tasks : Among(u, queue') <=> Among(u, queue) \/ u = t
    BY <1>1, <1>6, StillAmong
  <2> QED BY <1>1, <1>6, <2>2, <2>3
<1>7. CASE ~Queued(t) /\ d.step = "get" /\ queue = << >> /\ queue' = <<t>>
  <2>1. queue' \in Seq(Tasks) /\ Once(queue') /\ queue' # << >> /\ Head(queue') = t
    BY <1>7 DEF Once
  <2>2. \A u \in Tasks : ~Queued(u)
    BY <1>1, <1>7 DEF Among
  <2>3. \A u \in Tasks : Among(u, queue') <=> u = t
    BY <1>7 DEF Among
  <2> QED BY <1>7, <2>1, <2>2, <2>3
<1>8. CASE ~Queued(t) /\ d.step \notin {"wait", "get"} /\ queue' = queue
  BY <1>1, <1>8
<1>9. CASE queue # << >> /\ Head(queue) = t /\ d.step = "get" /\ queue' = queue
  <2>1. Among(t, queue)
    BY <1>1, <1>9 DEF Among
  <2> QED BY <1>1, <1>9, <2>1
<1>10. CASE queue # << >> /\ Head(queue) = t /\ d.step \notin {"wait", "get"} /\ queue' = Tail(queue)
  <2>1. queue' \in Seq(Tasks) /\ Once(queue') /\ ~Among(t, queue')
    BY <1>1, <1>10, Leaves DEF Among
  <2>2. \A u \in Tasks : Among(u, queue) <=> Among(u, queue') \/ u = t
    BY <1>1, <1>10, StillAmong
  <2> QED BY <1>1, <1>10, <2>1, <2>2
<1>11. CASE /\ d.step \notin {"wait", "get"}
            /\ \E i \in 1..Len(queue) : queue[i] = t /\ queue' = RemoveAt(queue, i)
  <2>1. PICK i \in 1..Len(queue) : queue[i] = t /\ queue' = RemoveAt(queue, i)
    BY <1>11
  <2>2. /\ queue' \in Seq(Tasks) /\ Once(queue') /\ ~Among(t, queue')
        /\ i # 1 => queue' # << >> /\ Head(queue') = Head(queue)
    BY <1>1, <2>1, GivesUp DEF Among
  <2>3. \A u \in Tasks \ {t} : Among(u, queue') <=> Among(u, queue)
    BY <1>1, <2>1, StillAmong
  <2>4. i = 1 => Head(queue) = t
    BY <1>1, <2>1
  <2> QED BY <1>1, <1>11, <2>2, <2>3, <2>4
<1> QED BY <1>6, <1>7, <1>8, <1>9, <1>10, <1>11

-----------------------------------------------------------------------------
(* The loops                                                               *)

\* The loop over the days of a range: what it leaves behind is in the result,
\* and what it has not found is on a page it still reads.
LEMMA NextMissingFinds ==
  ASSUME NEW c \in Calls, NEW p \in SUBSET Int, pages \in Nat, c.known \subseteq c.from..c.to,
         c.clean => /\ {d \in c.known : d < c.at} \subseteq c.out
                    /\ c.known \subseteq p \cup UNION {Rows(q) : q \in (0..pages - 1) \ c.read}
                    /\ c.known \subseteq p \cup c.find
  PROVE  LET n == NextMissing(c, p) IN
         /\ n \in Calls /\ n.op = c.op /\ n.known = c.known /\ n.from = c.from /\ n.to = c.to
         /\ n.step \in {"get", "done"} /\ n.clean = c.clean
         /\ n.step = "get" => n.todo # {} /\ n.todo \subseteq 0..pages
         /\ n.clean => /\ n.step = "done" => n.known \subseteq n.out
                       /\ {d \in n.known : d < n.at} \subseteq n.out
                       /\ n.step = "get" => n.known \subseteq p \cup UNION {Rows(q) : q \in n.todo}
                       /\ n.known \subseteq p \cup n.find
<1> DEFINE unread == (0..pages - 1) \ c.read
           missing == IF unread = {} THEN {} ELSE {d \in c.at..c.to : d \notin p}
           stop == IF missing = {} THEN c.to + 1 ELSE CHOOSE d \in missing : \A e \in missing : d <= e
           cached == (c.at..stop - 1) \cap p
           n == NextMissing(c, p)
<1>1. /\ c.at \in Int /\ c.from \in Nat /\ c.to \in Nat /\ c.known \in SUBSET Int
      /\ c.find \in SUBSET Int /\ c.out \in SUBSET Int
  BY DEF Calls
<1>2. n = [c EXCEPT !.at = stop, !.out = @ \cup cached, !.find = @ \ cached,
                    !.todo = IF missing = {} THEN {} ELSE unread,
                    !.step = IF missing = {} THEN "done" ELSE "get"]
  BY DEF NextMissing
<1>3. missing # {} => stop \in missing /\ \A e \in missing : stop <= e
  <2>1. missing \in SUBSET (c.at..c.to)
    OBVIOUS
  <2>2. missing # {} => stop = CHOOSE d \in missing : \A e \in missing : d <= e
    OBVIOUS
  <2> HIDE DEF missing, stop
  <2>3. ASSUME missing # {} PROVE stop \in missing /\ \A e \in missing : stop <= e
    <3>1. \E d \in missing : \A e \in missing : d <= e
      <4>1. c.at \in Int /\ c.to \in Int
        BY <1>1
      <4>2. ASSUME NEW a \in Int, NEW b \in Int, missing \in SUBSET (a..b)
            PROVE  \E d \in missing : \A e \in missing : d <= e
        BY <2>3, <4>2, FirstExists
      <4> QED BY <2>1, <4>1, <4>2
    <3> QED BY <2>2, <2>3, <3>1
  <2> QED BY <2>3
<1>4. missing \in SUBSET Int /\ unread \in SUBSET Int
  BY <1>1
<1>5. stop \in Int
  BY <1>1, <1>3, <1>4
<1>6. \A d \in c.known : d \in Int /\ d >= c.from /\ d <= c.to
  BY <1>1
<1>7. missing = {} => unread = {} \/ c.at..c.to \subseteq p
  OBVIOUS
<1>8. unread # {} => \A d \in c.at..c.to : d \in missing \/ d \in p
  OBVIOUS
<1>9. cached \subseteq p /\ cached \in SUBSET Int /\ \A d \in p : d \in Int /\ c.at <= d /\ d < stop => d \in cached
  <2> HIDE DEF stop
  <2> QED BY <1>1, <1>5
<1>10. missing = {} => stop = c.to + 1
  OBVIOUS
<1>11. missing # {} => unread # {} /\ \A d \in missing : d \in c.at..c.to /\ d \notin p
  OBVIOUS
<1>12. /\ c.clean => c.known \subseteq p \cup UNION {Rows(q) : q \in unread}
       /\ unread \subseteq 0..pages
  OBVIOUS
<1> HIDE DEF missing, unread, stop, cached, n
<1>13. /\ n.at = stop /\ n.out = c.out \cup cached /\ n.find = c.find \ cached
       /\ n.todo = IF missing = {} THEN {} ELSE unread
       /\ n.step = IF missing = {} THEN "done" ELSE "get"
       /\ n.op = c.op /\ n.known = c.known /\ n.from = c.from /\ n.to = c.to /\ n.clean = c.clean
  BY <1>2 DEF Calls
<1>14. n \in Calls
  BY <1>2, <1>4, <1>5, <1>9 DEF Calls, Steps
<1>15. ASSUME c.clean, NEW d \in c.known, d < stop PROVE d \in n.out
  <2>1. CASE d < c.at
    BY <1>13, <1>15, <2>1
  <2>2. CASE d >= c.at
    <3>1. d \in c.at..c.to /\ d \in Int
      BY <1>1, <1>6, <2>2
    <3>2. d \notin missing
      BY <1>3, <1>5, <1>15, <3>1
    <3>3. d \in p
      <4>1. CASE unread = {}
        BY <1>12, <1>15, <4>1
      <4>2. CASE unread # {}
        BY <1>8, <3>1, <3>2, <4>2
      <4> QED BY <4>1, <4>2
    <3> QED BY <1>9, <1>13, <1>15, <2>2, <3>1, <3>3
  <2> QED BY <1>1, <1>6, <2>1, <2>2
<1>16. missing = {} => \A d \in c.known : d < stop
  BY <1>1, <1>6, <1>10
<1>17. c.clean => n.known \subseteq p \cup n.find
  BY <1>9, <1>13
<1>18. c.clean => (n.step = "get" => n.known \subseteq p \cup UNION {Rows(q) : q \in n.todo})
  BY <1>12, <1>13
<1>19. c.clean => (n.step = "done" => n.known \subseteq n.out) /\ {d \in n.known : d < n.at} \subseteq n.out
  BY <1>13, <1>15, <1>16
<1>20. n.step = "get" => n.todo # {} /\ n.todo \subseteq 0..pages
  BY <1>11, <1>12, <1>13
<1> QED BY <1>13, <1>14, <1>17, <1>18, <1>19, <1>20 DEF n

\* A call that may wait for the lock: the days it looks for are in reach.
Asks(c) ==
  IF Paged
  THEN /\ c.op = "all" \/ (c.op = "range" /\ kind = "energy" /\ c.known \subseteq c.from..c.to)
       /\ c.read = {}
       /\ c.op = "range" => c.known \subseteq Reachable \cap c.find
  ELSE c.op = "range" /\ c.known \subseteq {s \in used : s < now /\ c.from <= s /\ s < c.to}

LEMMA Kind == HistoryTypes => kind \in {"recording", "ecus", "energy"} /\ (Paged <=> kind # "recording")
BY DEF HistoryTypes, Paged

\* The device's pointer stays when no row is stored.
LEMMA PointerStays ==
  ASSUME HistoryTypes, log' = log
  PROVE  Pointer \in Nat /\ Pointer' = Pointer
BY RowsAndPages DEF Pointer

\* It is read page by page, when the dictionary is empty.
LEMMA EntersAll ==
  ASSUME HistoryTypes, pages <= Pointer, NEW c \in Calls, Asks(c), c.op = "all",
         UNCHANGED <<kind, used, now, log, pages, past>>,
         NEW n, n = Entered(c)
  PROVE  n \in Calls /\ n.step \in {"get", "done"} /\ Fits(n)'
<1> DEFINE todo == IF kind = "ecus" THEN 1..pages ELSE 0..pages - 1
           known == c.known \cap Reachable
<1>1. Paged /\ kind \in {"ecus", "energy"} /\ pages \in Nat /\ past \in SUBSET Int
  BY Kind DEF Asks, HistoryTypes
<1>2. known \subseteq UNION {Rows(q) : q \in todo} /\ known \in SUBSET Int
  <2>1. Reachable \subseteq UNION {Rows(q) : q \in todo}
    BY <1>1, RowsAndPages
  <2>2. c.known \in SUBSET Int
    BY DEF Calls
  <2> QED BY <1>1, <2>1, <2>2
<1>3. todo \in SUBSET Int /\ todo \subseteq 0..Pointer /\ Pointer' = Pointer
  BY <1>1, PointerStays
<1>4. n = IF past # {} THEN [c EXCEPT !.step = "done", !.out = past, !.clean = FALSE]
          ELSE NextPage([c EXCEPT !.todo = todo, !.known = known], past)
  <2>1. Entered(c) = IF past # {} THEN [c EXCEPT !.step = "done", !.out = past, !.clean = FALSE]
                     ELSE NextPage([c EXCEPT !.todo = todo, !.known = @ \cap Reachable], past)
    BY DEF Entered
  <2> QED BY <2>1 DEF Calls
<1> HIDE DEF todo, known
<1>5. CASE past # {}
  <2>1. n = [c EXCEPT !.step = "done", !.out = past, !.clean = FALSE]
    BY <1>4, <1>5
  <2>2. n \in Calls /\ n.step = "done" /\ n.clean = FALSE
    BY <1>1, <2>1 DEF Calls, Steps
  <2>3. Fits(n)'
    BY <1>1, <2>2 DEF Fits, RowsFit, HoursFit, Paged
  <2> QED BY <2>2, <2>3
<1>6. CASE past = {} /\ todo = {}
  <2>0. PICK d : d = [c EXCEPT !.todo = todo, !.known = known]
    OBVIOUS
  <2>5. d \in Calls /\ d.todo = todo /\ d.known = known
    BY <1>2, <1>3, <2>0 DEF Calls
  <2>1. n = [d EXCEPT !.step = "done", !.out = past]
    BY <1>4, <1>6, <2>0, <2>5 DEF NextPage
  <2>2. n \in Calls /\ n.step = "done" /\ n.known = known
    BY <1>1, <1>3, <2>1, <2>5 DEF Calls, Steps
  <2>3. n.known = {}
    BY <1>2, <1>6, <2>2
  <2>4. Fits(n)'
    BY <1>1, <2>2, <2>3 DEF Fits, RowsFit, HoursFit, Paged
  <2> QED BY <2>2, <2>4
<1>7. CASE past = {} /\ todo # {}
  <2>0. PICK d : d = [c EXCEPT !.todo = todo, !.known = known]
    OBVIOUS
  <2>5. d \in Calls /\ d.todo = todo /\ d.known = known /\ d.op = c.op
    BY <1>2, <1>3, <2>0 DEF Calls
  <2>1. n = [d EXCEPT !.step = "get"]
    BY <1>4, <1>7, <2>0, <2>5 DEF NextPage
  <2>2. n \in Calls /\ n.step = "get" /\ n.known = known /\ n.todo = todo /\ n.op = c.op
    BY <1>1, <1>3, <2>1, <2>5 DEF Calls, Steps
  <2>3. (n.known \subseteq past \cup UNION {Rows(q) : q \in n.todo})'
    BY <1>2, <2>2 DEF Rows, FirstPage
  <2>4. Fits(n)'
    BY <1>1, <1>3, <1>7, <2>2, <2>3 DEF Fits, RowsFit, Paged
  <2> QED BY <2>2, <2>4
<1> QED BY <1>5, <1>6, <1>7

\* A call for a range of days begins with the days that are in the dictionary.
LEMMA EntersDays ==
  ASSUME HistoryTypes, pages <= Pointer, NEW c \in Calls, Asks(c), c.op = "range", kind = "energy",
         UNCHANGED <<kind, used, now, log, pages, past>>,
         NEW n, n = Entered(c)
  PROVE  n \in Calls /\ n.step \in {"get", "done"} /\ Fits(n)'
<1> DEFINE b == [c EXCEPT !.at = c.from]
<1>1. /\ Paged /\ c.known \subseteq Reachable /\ pages \in Nat /\ past \in SUBSET Int
      /\ c.known \subseteq c.from..c.to /\ c.read = {} /\ c.known \subseteq c.find
  BY Kind DEF Asks, HistoryTypes
<1>2. /\ b \in Calls /\ b.known = c.known /\ b.at = c.from /\ b.read = {} /\ b.from = c.from
      /\ b.to = c.to /\ b.find = c.find /\ b.op = c.op
  BY <1>1 DEF Calls
<1>3. n = NextMissing(b, past)
  BY DEF Entered
<1>4. \A d \in c.known : ~(d < c.from)
  BY <1>1 DEF Calls
<1>5. b.known \subseteq UNION {Rows(q) : q \in (0..pages - 1) \ b.read}
  BY <1>1, <1>2, RowsAndPages
<1> HIDE DEF b
<1>6. /\ n \in Calls /\ n.op = b.op /\ n.known = b.known /\ n.from = b.from /\ n.to = b.to
      /\ n.step \in {"get", "done"} /\ n.clean = b.clean
      /\ n.step = "get" => n.todo # {} /\ n.todo \subseteq 0..pages
      /\ n.clean => /\ n.step = "done" => n.known \subseteq n.out
                    /\ {d \in n.known : d < n.at} \subseteq n.out
                    /\ n.step = "get" => n.known \subseteq past \cup UNION {Rows(q) : q \in n.todo}
                    /\ n.known \subseteq past \cup n.find
  BY <1>1, <1>2, <1>3, <1>4, <1>5, NextMissingFinds
<1>7. \A q : Rows(q)' = Rows(q)
  BY DEF Rows, FirstPage
<1>9. n.step = "get" => n.todo # {} /\ n.todo \subseteq 0..Pointer'
  <2>1. 0..pages \subseteq 0..Pointer'
    BY <1>1, PointerStays
  <2> QED BY <1>6, <2>1
<1>8. Fits(n)'
  BY <1>1, <1>2, <1>6, <1>7, <1>9 DEF Fits, RowsFit, Paged
<1> QED BY <1>6, <1>8

\* A call for hours begins with an empty dictionary.
LEMMA EntersHours ==
  ASSUME HistoryTypes, NEW c \in Calls, Asks(c), kind = "recording",
         UNCHANGED <<kind, used, now, log, pages>>, past' = {}, NEW n, n = Entered(c)
  PROVE  n \in Calls /\ n.step \in {"get", "done"} /\ Fits(n)'
<1> DEFINE b == [c EXCEPT !.at = c.from]
<1>1. /\ ~Paged /\ c.op = "range" /\ c.known \subseteq {s \in used : s < now /\ c.from <= s /\ s < c.to}
      /\ used \subseteq Nat /\ now \in Nat
  BY Kind DEF Asks, HistoryTypes
<1>2. n = IF b.at < b.to THEN [b EXCEPT !.step = "get"] ELSE [b EXCEPT !.step = "done", !.out = {}]
  BY <1>1 DEF Entered, NextDay
<1>0. c.from \in Int /\ c.from \in Nat /\ c.to \in Nat
  BY DEF Calls
<1>10. b \in Calls /\ [b EXCEPT !.step = "get"] \in Calls /\ [b EXCEPT !.step = "done"] \in Calls
  <2>1. b \in Calls
    BY <1>0, Edits
  <2> HIDE DEF b
  <2> QED BY <2>1, Edits DEF Steps
<1>3. /\ n \in Calls /\ n.step = (IF c.from < c.to THEN "get" ELSE "done") /\ n.known = c.known /\ n.at = c.from
      /\ n.from = c.from /\ n.to = c.to /\ n.op = "range" /\ (n.step = "done" => n.out = {})
  <2>1. CASE c.from < c.to
    <3>1. n = [c EXCEPT !.at = c.from, !.step = "get"]
      BY <1>2, <2>1 DEF Calls
    <3>2. n \in Calls
      BY <1>10, <3>1
    <3>3. /\ n.step = "get" /\ n.known = c.known /\ n.at = c.from /\ n.from = c.from
          /\ n.to = c.to /\ n.op = c.op
      BY <3>1 DEF Calls
    <3> QED BY <1>1, <2>1, <3>2, <3>3
  <2>2. CASE ~(c.from < c.to)
    <3>1. n = [c EXCEPT !.at = c.from, !.step = "done", !.out = {}]
      BY <1>2, <2>2 DEF Calls
    <3>2. n \in Calls
      <4> DEFINE e == [b EXCEPT !.step = "done"]
      <4>1. n = [e EXCEPT !.out = {}] /\ e \in Calls
        BY <1>10, <3>1
      <4>2. PICK S \in SUBSET Int : S = {}
        OBVIOUS
      <4>3. n = [e EXCEPT !.out = S]
        BY <4>1, <4>2
      <4>4. e \in Calls
        BY <4>1
      <4> HIDE DEF e
      <4>5. [e EXCEPT !.out = S] \in Calls
        BY <4>4, Edits
      <4> QED BY <4>3, <4>5
    <3>3. /\ n.step = "done" /\ n.known = c.known /\ n.at = c.from /\ n.from = c.from
          /\ n.to = c.to /\ n.op = c.op /\ n.out = {}
      BY <3>1 DEF Calls
    <3> QED BY <1>1, <2>2, <3>2, <3>3
  <2> QED BY <2>1, <2>2
<1>4. \A s \in c.known : s \in Nat /\ s \in used /\ s < now /\ c.from <= s /\ s < c.to
  BY <1>1
<1>5. c.from \in Nat /\ c.to \in Nat
  BY DEF Calls
<1>6. ASSUME NEW s \in c.known PROVE ~(Day(s) < Day(c.from))
  <2>1. s \in Int /\ c.from \in Int /\ c.from <= s
    BY <1>4, <1>5
  <2>2. Day(s) \in Int /\ Day(c.from) \in Int /\ Day(c.from) <= Day(s)
    BY <2>1, DaysFollow
  <2> QED BY <2>2
<1>7. ~(c.from < c.to) => c.known = {}
  BY <1>4, <1>5
<1>8. CASE n.step = "get"
  <2>1. HoursFit(n)'
    BY <1>1, <1>3, <1>6, <1>8 DEF HoursFit, Day
  <2> QED BY <1>1, <1>3, <1>8, <2>1 DEF Fits, Paged
<1>9. CASE n.step = "done"
  <2>1. HoursExact(n)'
    BY <1>1, <1>3, <1>7, <1>9 DEF HoursExact
  <2>2. HoursFit(n)'
    BY <1>9 DEF HoursFit
  <2> QED BY <1>1, <1>3, <1>9, <2>1, <2>2 DEF Fits, Paged
<1> QED BY <1>3, <1>8, <1>9

\* The first steps after the lock is taken.
LEMMA Enters ==
  ASSUME HistoryTypes, pages <= Pointer, NEW c \in Calls, Asks(c), UNCHANGED <<kind, used, now, log, pages>>,
         past' = Cleared(c), NEW n, n = Entered(c)
  PROVE  n \in Calls /\ n.step \in {"get", "done"} /\ Fits(n)' /\ past' \in SUBSET Int
<1>1. past' \in SUBSET Int
  BY DEF Cleared, HistoryTypes
<1>2. CASE c.op = "all"
  <2>1. past' = past
    BY <1>2 DEF Cleared
  <2> QED BY <1>1, <1>2, <2>1, EntersAll
<1>3. CASE c.op # "all" /\ kind = "recording"
  <2>1. c.op = "range"
    BY <1>3, Kind DEF Asks
  <2>2. past' = {}
    BY <1>3, <2>1 DEF Cleared
  <2> QED BY <1>1, <1>3, <2>2, EntersHours
<1>4. CASE c.op # "all" /\ kind # "recording"
  <2>1. c.op = "range" /\ kind = "energy"
    BY <1>4, Kind DEF Asks
  <2>2. past' = past
    BY <2>1 DEF Cleared
  <2> QED BY <1>1, <2>1, <2>2, EntersDays
<1> QED BY <1>2, <1>3, <1>4

\* What is kept of a call that returns still fits.
LEMMA Returns ==
  ASSUME HistoryTypes, NEW c \in Calls, kind' = kind, used' = used,
         \/ c.op = "update" \/ (Paged /\ c.known = {})
         \/ c.step = "done" /\ Fits(c)',
         NEW d, d = Finished(c)
  PROVE  d \in Calls /\ d.step = "done" /\ d.op = c.op /\ Fits(d)'
<1> DEFINE told == ~Paged \/ (c.clean /\ c.op # "update")
           a == IF Paged THEN 0 ELSE c.from
           b == IF Paged THEN 0 ELSE c.to
           out == IF told THEN c.out ELSE {}
           known == IF told /\ c.op # "update" THEN c.known ELSE {}
<1>1. d = [NoCall EXCEPT !.op = c.op, !.step = "done", !.clean = c.clean, !.from = a, !.to = b,
                         !.out = out, !.known = known]
  BY DEF Finished
<1>0. a \in Nat /\ b \in Nat /\ out \in SUBSET Int /\ known \in SUBSET Int
  BY DEF Calls
<1>7. d.step = "done" /\ d.op = c.op /\ d.clean = c.clean /\ d.out = out /\ d.known = known /\ d.from = a /\ d.to = b
  <2> HIDE DEF a, b, out, known
  <2> QED BY <1>1 DEF NoCall
<1>8. d \in Calls
  <2>1. c.op \in {"none", "range", "all", "update"} /\ c.clean \in BOOLEAN
    BY DEF Calls
  <2> HIDE DEF a, b, out, known
  <2>2. d = [op |-> c.op, step |-> "done", from |-> a, to |-> b, at |-> 0, todo |-> {}, read |-> {},
             find |-> {}, out |-> out, known |-> known, clean |-> c.clean]
    BY <1>1 DEF NoCall
  <2> QED BY <1>0, <2>1, <2>2 DEF Calls, Steps
<1> HIDE DEF told
<1>2. /\ d \in Calls /\ d.step = "done" /\ d.op = c.op /\ d.clean = c.clean
      /\ d.out = (IF told THEN c.out ELSE {})
      /\ d.known = IF told /\ c.op # "update" THEN c.known ELSE {}
      /\ ~Paged => d.from = c.from /\ d.to = c.to
  BY <1>7, <1>8
<1>3. Paged' <=> Paged
  BY DEF Paged
<1>4. kind \in {"recording", "ecus", "energy"} /\ (Paged <=> kind # "recording")
  BY Kind
<1>5. kind = "recording" /\ d.op = "range" => HoursExact(d)'
  <2>1. SUFFICES ASSUME kind = "recording", d.op = "range" PROVE HoursExact(d)'
    OBVIOUS
  <2>2. HoursExact(c)'
    BY <1>2, <1>4, <2>1 DEF Fits
  <2> QED BY <1>2, <1>4, <2>1, <2>2 DEF HoursExact, told
<1>6. d.op = "all" \/ (kind = "energy" /\ d.op = "range") => (d.clean => d.known \subseteq d.out)
  <2>1. CASE told /\ c.op # "update"
    BY <1>2, <2>1 DEF Fits
  <2>2. CASE ~(told /\ c.op # "update")
    BY <1>2, <2>2
  <2> QED BY <2>1, <2>2
<1> QED BY <1>2, <1>3, <1>5, <1>6 DEF Fits, RowsFit, HoursFit

\* The loop goes on to the next day, with everything that it looks for in the dictionary.
LEMMA EndsDay ==
  ASSUME HistoryTypes, pages <= Pointer, NEW c \in Calls, NEW p \in SUBSET Int, kind = "energy", c.op = "range",
         c.known \subseteq c.from..c.to,
         c.clean => c.known \subseteq p /\ {d \in c.known : d < c.at} \subseteq c.out,
         UNCHANGED <<kind, used, now, log, pages>>, past' = p, NEW n, n = EndDay(c, p)
  PROVE  n \in Calls /\ n.step \in {"get", "done"} /\ Fits(n)'
<1> DEFINE out == c.out \cup ({c.at} \cap p)
           a == c.at + 1
           b == [c EXCEPT !.out = out, !.at = a]
<1>1. /\ Paged /\ pages \in Nat /\ c.at \in Int /\ c.out \in SUBSET Int /\ c.known \in SUBSET Int
      /\ a \in Int /\ out \in SUBSET Int
  BY Kind DEF HistoryTypes, Calls
<1>2. c.clean => {d \in c.known : d < a} \subseteq out
  <2>1. \A d \in c.known : d < a => d < c.at \/ d = c.at
    BY <1>1
  <2> QED BY <2>1
<1>3. n = NextMissing(b, p)
  BY DEF EndDay, Calls
<1> HIDE DEF out, a
<1>4. b \in Calls
  <2> DEFINE e == [c EXCEPT !.out = out]
  <2>1. e \in Calls /\ b = [e EXCEPT !.at = a]
    BY <1>1, Edits
  <2> HIDE DEF e
  <2> QED BY <1>1, <2>1, Edits
<1>5. /\ b.known = c.known /\ b.at = a /\ b.out = out /\ b.from = c.from
      /\ b.to = c.to /\ b.clean = c.clean /\ b.op = c.op
  BY DEF Calls
<1> HIDE DEF b
<1>6. /\ n \in Calls /\ n.op = b.op /\ n.known = b.known /\ n.from = b.from /\ n.to = b.to
      /\ n.step \in {"get", "done"} /\ n.clean = b.clean
      /\ n.step = "get" => n.todo # {} /\ n.todo \subseteq 0..pages
      /\ n.clean => /\ n.step = "done" => n.known \subseteq n.out
                    /\ {d \in n.known : d < n.at} \subseteq n.out
                    /\ n.step = "get" => n.known \subseteq p \cup UNION {Rows(q) : q \in n.todo}
                    /\ n.known \subseteq p \cup n.find
  <2>1. c.clean => b.known \subseteq p
    BY <1>5
  <2> QED BY <1>1, <1>2, <1>3, <1>4, <1>5, <2>1, NextMissingFinds
<1>7. \A q : Rows(q)' = Rows(q)
  BY DEF Rows, FirstPage
<1>9. n.step = "get" => n.todo # {} /\ n.todo \subseteq 0..Pointer'
  <2>1. 0..pages \subseteq 0..Pointer'
    BY <1>1, PointerStays
  <2> QED BY <1>6, <2>1
<1>8. Fits(n)'
  BY <1>1, <1>5, <1>6, <1>7, <1>9 DEF Fits, RowsFit, Paged
<1> QED BY <1>6, <1>8

\* What is left of a call when the page p has been answered with the rows R, and
\* then of the loop.
Left(c, p, R) == [c EXCEPT !.todo = @ \ {p}, !.find = @ \ R, !.clean = @ /\ R = Rows(p)]
After(l, p) == [l EXCEPT !.read = @ \cup {p}]

LEMMA LeavesRows ==
  ASSUME NEW c \in Calls, NEW p \in Int, NEW R \in SUBSET Int
  PROVE  \A l \in {Left(c, p, R), After(Left(c, p, R), p)} :
           /\ l \in Calls /\ l.todo = c.todo \ {p} /\ l.find = c.find \ R /\ l.step = c.step
           /\ l.known = c.known /\ l.op = c.op /\ (l.clean => c.clean /\ R = Rows(p)) /\ l.at = c.at
           /\ l.out = c.out /\ l.from = c.from /\ l.to = c.to
<1>1. PICK todo \in SUBSET Int, find \in SUBSET Int : todo = c.todo \ {p} /\ find = c.find \ R
  BY DEF Calls
<1>2. PICK b \in BOOLEAN : b = (c.clean /\ R = Rows(p))
  OBVIOUS
<1>3. PICK e \in Calls : e = [c EXCEPT !.todo = todo]
  BY Edits
<1>4. PICK f \in Calls : f = [e EXCEPT !.find = find]
  BY Edits
<1>5. PICK left \in Calls : left = [f EXCEPT !.clean = b]
  BY Edits
<1>6. /\ e.todo = todo /\ e.read = c.read /\ e.step = c.step /\ e.known = c.known /\ e.op = c.op
      /\ e.at = c.at /\ e.out = c.out /\ e.from = c.from /\ e.to = c.to
  BY <1>3 DEF Calls
<1>7. /\ f.todo = todo /\ f.find = find /\ f.read = c.read /\ f.step = c.step /\ f.known = c.known
      /\ f.op = c.op /\ f.at = c.at /\ f.out = c.out /\ f.from = c.from /\ f.to = c.to
  BY <1>4, <1>6 DEF Calls
<1>8. /\ left.todo = todo /\ left.find = find /\ left.read = c.read /\ left.step = c.step
      /\ left.known = c.known /\ left.op = c.op /\ left.clean = b /\ left.at = c.at
      /\ left.out = c.out /\ left.from = c.from /\ left.to = c.to
  BY <1>5, <1>7 DEF Calls
<1>9. left = Left(c, p, R)
  <2>1. left = [c EXCEPT !.todo = todo, !.find = find, !.clean = b]
    BY <1>3, <1>4, <1>5 DEF Calls
  <2>2. Left(c, p, R) = [c EXCEPT !.todo = c.todo \ {p}, !.find = c.find \ R, !.clean = (c.clean /\ R = Rows(p))]
    BY DEF Left, Calls
  <2> QED BY <1>1, <1>2, <2>1, <2>2
<1>10. PICK U \in SUBSET Int : U = left.read \cup {p}
  BY DEF Calls
<1>11. PICK more \in Calls : more = [left EXCEPT !.read = U]
  BY Edits
<1>12. /\ more.todo = todo /\ more.find = find /\ more.step = c.step
       /\ more.known = c.known /\ more.op = c.op /\ more.clean = b /\ more.at = c.at
       /\ more.out = c.out /\ more.from = c.from /\ more.to = c.to
  BY <1>8, <1>11 DEF Calls
<1>13. more = After(Left(c, p, R), p)
  BY <1>9, <1>10, <1>11 DEF After
<1> QED BY <1>1, <1>2, <1>8, <1>9, <1>12, <1>13

\* fetch_all goes on with the pages left, or returns the dictionary.
LEMMA ReadsAll ==
  ASSUME HistoryTypes, Paged, kind' = kind, log' = log, pages' = pages,
         NEW c \in Calls, NEW kept \in SUBSET Int, past' = kept, c.op = "all", c.todo \subseteq 0..Pointer,
         c.clean => c.known \subseteq kept \cup UNION {Rows(q) : q \in c.todo},
         NEW n, n = NextPage(c, kept)
  PROVE  n \in Calls /\ n.step \in {"get", "done"} /\ Fits(n)'
<1>1. kind # "recording" /\ Paged' /\ Pointer' = Pointer /\ \A q : Rows(q)' = Rows(q)
  BY Kind DEF Paged, Rows, FirstPage, Pointer
<1>2. CASE c.todo = {}
  <2> DEFINE e == [c EXCEPT !.step = "done"]
  <2>1. e \in Calls /\ n = [e EXCEPT !.out = kept]
    BY <1>2, Edits DEF NextPage, Steps
  <2>2. e.step = "done" /\ e.known = c.known /\ e.clean = c.clean
    BY DEF Calls
  <2> HIDE DEF e
  <2>3. n \in Calls
    BY <2>1 DEF Calls
  <2>4. n.step = "done" /\ n.out = kept /\ n.known = c.known /\ n.clean = c.clean
    BY <2>1, <2>2 DEF Calls
  <2>5. n.clean => n.known \subseteq n.out
    BY <1>2, <2>4
  <2>6. Fits(n)'
    BY <1>1, <2>4, <2>5 DEF Fits, RowsFit
  <2> QED BY <2>3, <2>4, <2>6
<1>3. CASE c.todo # {}
  <2>1. n = [c EXCEPT !.step = "get"]
    BY <1>3 DEF NextPage
  <2>2. n \in Calls
    BY <2>1, Edits DEF Steps
  <2>3. n.step = "get" /\ n.known = c.known /\ n.clean = c.clean /\ n.op = "all" /\ n.todo = c.todo
    BY <2>1 DEF Calls
  <2>4. Fits(n)'
    BY <1>1, <1>3, <2>3 DEF Fits, RowsFit
  <2> QED BY <2>2, <2>3, <2>4
<1> QED BY <1>2, <1>3

\* A loop over a range goes on with the pages left.
LEMMA ReadsOn ==
  ASSUME kind = "energy", kind' = kind, log' = log, pages' = pages, NEW n \in Calls, NEW kept, past' = kept,
         n.step = "get", n.op = "range", n.known \subseteq n.from..n.to,
         n.todo # {}, n.todo \subseteq 0..Pointer,
         n.clean => /\ n.known \subseteq kept \cup UNION {Rows(q) : q \in n.todo}
                    /\ n.known \subseteq kept \cup n.find
                    /\ {d \in n.known : d < n.at} \subseteq n.out
  PROVE  Fits(n)'
<1>1. Paged' /\ Pointer' = Pointer /\ \A q : Rows(q)' = Rows(q)
  BY DEF Paged, Rows, FirstPage, Pointer
<1> QED BY <1>1 DEF Fits, RowsFit

\* A page is read: its rows are found, and the others are on the pages left.
LEMMA ReadsRows ==
  ASSUME HistoryTypes, pages <= Pointer, NEW c \in Calls, Fits(c), c.step = "get", Paged, NEW p \in Int,
         NEW R, R \in {Rows(p), {}},
         UNCHANGED <<kind, used, now, log, pages>>,
         NEW kept, kept = past \cup R, past' = kept,
         NEW n, n = IF c.op = "all" THEN NextPage(Left(c, p, R), kept)
                    ELSE IF Left(c, p, R).find = {} THEN EndDay(Left(c, p, R), kept)
                    ELSE IF Left(c, p, R).todo = {} THEN EndDay(After(Left(c, p, R), p), kept)
                    ELSE After(Left(c, p, R), p)
  PROVE  n \in Calls /\ n.step \in {"get", "done"} /\ Fits(n)' /\ past' \in SUBSET Int
<1> DEFINE left == Left(c, p, R)
           read == After(left, p)
<1>1. R \in SUBSET Int /\ kept \in SUBSET Int /\ kind \in {"ecus", "energy"}
  <2>1. Rows(p) \subseteq Int
    BY RowsAndPages
  <2> QED BY <2>1, Kind DEF HistoryTypes
<1>2. /\ c.op = "all" \/ (c.op = "range" /\ kind = "energy" /\ c.known \subseteq c.from..c.to)
      /\ c.todo \subseteq 0..Pointer
      /\ c.clean =>
           /\ c.known \subseteq past \cup UNION {Rows(q) : q \in c.todo}
           /\ c.op = "range" =>
                /\ c.known \subseteq past \cup c.find
                /\ {d \in c.known : d < c.at} \subseteq c.out
  BY DEF Fits, RowsFit
<1>3. \A l \in {left, read} :
        /\ l \in Calls /\ l.todo = c.todo \ {p} /\ l.find = c.find \ R /\ l.step = c.step
        /\ l.known = c.known /\ l.op = c.op /\ (l.clean => c.clean /\ R = Rows(p)) /\ l.at = c.at
        /\ l.out = c.out /\ l.from = c.from /\ l.to = c.to
  BY <1>1, LeavesRows
<1>4. c.clean /\ R = Rows(p) =>
        /\ c.known \subseteq kept \cup UNION {Rows(q) : q \in c.todo \ {p}}
        /\ c.op = "range" => c.known \subseteq kept \cup (c.find \ R)
  BY <1>2
<1>5. CASE c.op = "all"
  <2>1. n = NextPage(left, kept)
    BY <1>5
  <2>2. /\ left \in Calls /\ left.op = "all" /\ left.todo \subseteq 0..Pointer
        /\ left.clean => left.known \subseteq kept \cup UNION {Rows(q) : q \in left.todo}
    BY <1>2, <1>3, <1>4, <1>5
  <2> QED BY <1>1, <2>1, <2>2, ReadsAll
<1>6. CASE c.op = "range" /\ (left.find = {} \/ left.todo = {})
  <2>1. PICK l \in {left, read} : n = EndDay(l, kept)
    BY <1>6
  <2>0. c.find \ R = {} \/ c.todo \ {p} = {}
    BY <1>3, <1>6
  <2>4. /\ l.known = c.known /\ (l.clean => c.clean /\ R = Rows(p)) /\ l.at = c.at /\ l.out = c.out
    BY <1>3
  <2>5. c.clean /\ R = Rows(p) => c.known \subseteq kept
    BY <1>4, <1>6, <2>0
  <2>2. l.clean => l.known \subseteq kept /\ {d \in l.known : d < l.at} \subseteq l.out
    BY <1>2, <1>6, <2>4, <2>5
  <2>3. l \in Calls /\ l.op = "range" /\ kind = "energy" /\ l.known \subseteq l.from..l.to
    BY <1>2, <1>3, <1>6
  <2> QED BY <1>1, <2>1, <2>2, <2>3, EndsDay
<1>7. CASE c.op = "range" /\ left.find # {} /\ left.todo # {}
  <2>1. n = read
    BY <1>7
  <2>2. /\ n \in Calls /\ n.step = "get" /\ n.op = "range" /\ kind = "energy" /\ n.known \subseteq n.from..n.to
        /\ n.todo # {} /\ n.todo \subseteq 0..Pointer
        /\ n.clean =>
             /\ n.known \subseteq kept \cup UNION {Rows(q) : q \in n.todo}
             /\ n.known \subseteq kept \cup n.find
             /\ {d \in n.known : d < n.at} \subseteq n.out
    BY <1>2, <1>3, <1>4, <1>7, <2>1
  <2> QED BY <1>1, <2>2, ReadsOn
<1> QED BY <1>2, <1>5, <1>6, <1>7

\* The loop over the hours of a range goes on to the next day, when the dictionary
\* has what is to be found of this one.
LEMMA EndsHours ==
  ASSUME HistoryTypes, NEW c \in Calls, Fits(c), c.step = "get", kind = "recording",
         UNCHANGED <<kind, used, now, log, pages>>,
         NEW kept \in SUBSET Int, past \subseteq kept, kept \subseteq {s \in used : c.from <= s /\ s <= c.to},
         {s \in c.known : Day(s) = Day(c.at)} \subseteq kept, past' = kept,
         NEW n, n = NextDay([c EXCEPT !.at = @ + Hours], kept)
  PROVE  n \in Calls /\ n.step \in {"get", "done"} /\ Fits(n)' /\ past' \in SUBSET Int
<1> DEFINE a == c.at + Hours
           b == [c EXCEPT !.at = a]
<1>1. /\ ~Paged /\ c.op = "range" /\ c.known \subseteq {s \in used : s < now /\ c.from <= s /\ s < c.to}
      /\ past \subseteq {s \in used : c.from <= s /\ s <= c.to}
      /\ c.at % Hours = c.from % Hours
      /\ {s \in c.known : Day(s) < Day(c.at)} \subseteq past
  BY Kind DEF Fits, HoursFit
<1>2. /\ c.at \in Int /\ c.from \in Nat /\ c.to \in Nat /\ Hours \in Nat \ {0} /\ now \in Nat
      /\ used \subseteq Nat /\ a \in Int
  BY DEF Calls, HistoryTypes
<1>3. Day(a) = Day(c.at) + 1 /\ a % Hours = c.from % Hours /\ Day(c.at) \in Int
  BY <1>1, <1>2, DaysFollow
<1>4. kept \subseteq {s \in used : c.from <= s /\ s <= c.to} /\ kept \in SUBSET Int
  OBVIOUS
<1>5. ASSUME NEW s \in c.known, Day(s) < Day(a) PROVE s \in kept
  <2>1. s \in used /\ s \in Nat /\ s < now /\ c.from <= s /\ s < c.to /\ Day(s) \in Int
    BY <1>1, <1>2, DaysFollow
  <2>2. CASE Day(s) < Day(c.at)
    BY <1>1, <2>2
  <2>3. CASE Day(s) = Day(c.at)
    BY <2>3
  <2> QED BY <1>3, <1>5, <2>1, <2>2, <2>3
<1>6. b = [c EXCEPT !.at = @ + Hours]
  BY DEF Calls
<1> HIDE DEF a
<1>7. b \in Calls
  BY <1>2, Edits
<1>8. /\ b.known = c.known /\ b.at = a /\ b.from = c.from /\ b.to = c.to /\ b.op = c.op
  BY DEF Calls
<1>9. n = NextDay(b, kept)
  BY <1>6
<1> HIDE DEF b
<1>10. CASE a < c.to
  <2>1. n = [b EXCEPT !.step = "get"]
    BY <1>8, <1>9, <1>10 DEF NextDay
  <2>2. n \in Calls
    BY <1>7, <2>1, Edits DEF Steps
  <2>3. /\ n.step = "get" /\ n.known = c.known /\ n.at = a /\ n.from = c.from /\ n.to = c.to /\ n.op = "range"
    BY <1>1, <1>7, <1>8, <2>1 DEF Calls
  <2>4. {s \in n.known : Day(s) < Day(n.at)} \subseteq kept
    BY <1>5, <2>3
  <2>5. HoursFit(n)'
    BY <1>1, <1>3, <1>4, <2>3, <2>4 DEF HoursFit, Day
  <2>6. Fits(n)'
    BY <1>1, <2>3, <2>5 DEF Fits, Paged
  <2> QED BY <1>4, <2>2, <2>3, <2>6
<1>11. CASE ~(a < c.to)
  <2> DEFINE e == [b EXCEPT !.step = "done"]
  <2>1. n = [e EXCEPT !.out = kept] /\ e \in Calls
    BY <1>7, <1>8, <1>9, <1>11, Edits DEF NextDay, Steps
  <2>2. /\ e.step = "done" /\ e.known = c.known /\ e.from = c.from /\ e.to = c.to /\ e.op = "range"
    BY <1>1, <1>7, <1>8 DEF Calls
  <2> HIDE DEF e
  <2>3. n \in Calls
    BY <1>4, <2>1 DEF Calls
  <2>4. /\ n.step = "done" /\ n.known = c.known /\ n.from = c.from /\ n.to = c.to /\ n.op = "range" /\ n.out = kept
    BY <2>1, <2>2 DEF Calls
  <2>5. ASSUME NEW s \in c.known, Day(s) < Day(c.to) \/ c.from % Hours < c.to % Hours PROVE s \in kept
    <3>1. s \in Int /\ Day(s) \in Int /\ Day(c.to) \in Int /\ Day(a) \in Int /\ s <= c.to /\ c.to \in Int /\ c.to <= a
      BY <1>1, <1>2, <1>11, DaysFollow
    <3>2. Day(s) <= Day(c.to) /\ Day(c.to) <= Day(a)
      BY <1>2, <3>1, DaysFollow
    <3>3. c.from % Hours < c.to % Hours => Day(a) > Day(c.to)
      <4>1. c.from % Hours < c.to % Hours => a % Hours < c.to % Hours
        BY <1>3
      <4> QED BY <1>2, <3>1, <4>1, DaysFollow
    <3>4. Day(s) < Day(a)
      BY <2>5, <3>1, <3>2, <3>3
    <3> QED BY <1>5, <3>4
  <2>6. HoursExact(n)'
    BY <1>4, <2>4, <2>5 DEF HoursExact, Day
  <2>7. Fits(n)'
    BY <1>1, <2>4, <2>6 DEF Fits, HoursFit, Paged
  <2> QED BY <1>4, <2>3, <2>4, <2>7
<1> QED BY <1>10, <1>11

\* The hours of the day are read.
LEMMA ReadsDay ==
  ASSUME HistoryTypes, NEW c \in Calls, Fits(c), c.step = "get", kind = "recording",
         UNCHANGED <<kind, used, now, log, pages>>,
         NEW kept, kept = past \cup {s \in Recorded(Day(c.at)) : c.from <= s /\ s <= c.to}, past' = kept,
         NEW n, n = NextDay([c EXCEPT !.at = @ + Hours], kept)
  PROVE  n \in Calls /\ n.step \in {"get", "done"} /\ Fits(n)' /\ past' \in SUBSET Int
<1>1. /\ past \subseteq {s \in used : c.from <= s /\ s <= c.to} /\ used \subseteq Int
      /\ c.known \subseteq {s \in used : s < now /\ c.from <= s /\ s < c.to}
  BY Kind DEF Fits, HoursFit, HistoryTypes
<1>2. kept \subseteq {s \in used : c.from <= s /\ s <= c.to} /\ kept \in SUBSET Int
  BY <1>1 DEF Recorded
<1>3. ASSUME NEW s \in c.known, Day(s) = Day(c.at) PROVE s \in kept
  <2>1. s \in used /\ s \in Int /\ s < now /\ c.from <= s /\ s < c.to /\ now \in Int /\ c.to \in Int
    BY <1>1 DEF HistoryTypes, Calls
  <2>2. s \in Recorded(Day(c.at)) /\ s <= c.to
    BY <1>3, <2>1 DEF Recorded
  <2> QED BY <2>1, <2>2
<1> QED BY <1>2, <1>3, EndsHours

\* The day is passed over, and its hours are not looked for any more.
LEMMA SkipsDay ==
  ASSUME HistoryTypes, NEW c \in Calls, Fits(c), c.step = "get", kind = "recording",
         UNCHANGED <<kind, used, now, log, pages, past>>,
         NEW b, b = [c EXCEPT !.known = {s \in c.known : Day(s) # Day(c.at)}],
         NEW n, n = NextDay([b EXCEPT !.at = @ + Hours], past)
  PROVE  n \in Calls /\ n.step \in {"get", "done"} /\ Fits(n)'
<1>1. PICK K \in SUBSET Int : K = {s \in c.known : Day(s) # Day(c.at)}
  BY DEF Calls
<1>2. b \in Calls
  BY <1>1, Edits
<1>3. /\ b.step = c.step /\ b.op = c.op /\ b.at = c.at /\ b.from = c.from /\ b.to = c.to /\ b.known = K
  BY <1>1 DEF Calls
<1>4. Fits(b)
  BY <1>1, <1>3, Kind DEF Fits, HoursFit
<1>5. /\ past \subseteq {s \in used : b.from <= s /\ s <= b.to} /\ past \in SUBSET Int
      /\ {s \in b.known : Day(s) = Day(b.at)} \subseteq past
  BY <1>1, <1>3, <1>4, Kind DEF Fits, HoursFit, HistoryTypes
<1> QED BY <1>2, <1>3, <1>4, <1>5, EndsHours

\* There is a page to ask for.
LEMMA PageIs ==
  ASSUME NEW c \in Calls, NEW n \in Int, c.todo # {}, c.todo \subseteq 0..n
  PROVE  Page(c) \in c.todo
<1>1. \E p \in c.todo : \A q \in c.todo : p <= q
  <2>1. ASSUME NEW a \in Int, NEW S \in SUBSET (a..n), S # {} PROVE \E p \in S : \A q \in S : p <= q
    BY <2>1, FirstExists
  <2>2. 0 \in Int /\ c.todo \in SUBSET (0..n)
    OBVIOUS
  <2> QED BY <2>1, <2>2
<1>2. \E p \in c.todo : \A q \in c.todo : q <= p
  <2> DEFINE U == {0 - p : p \in c.todo}
  <2>1. U \in SUBSET ((0 - n)..0) /\ U # {} /\ 0 - n \in Int
    <3>1. \A p \in c.todo : 0 - p \in (0 - n)..0
      OBVIOUS
    <3>2. PICK p \in c.todo : TRUE
      OBVIOUS
    <3>3. 0 - p \in U
      OBVIOUS
    <3> QED BY <3>1, <3>3
  <2> HIDE DEF U
  <2>2. PICK u \in U : \A v \in U : u <= v
    <3>1. ASSUME NEW a \in Int, NEW b \in Int, U \in SUBSET (a..b) PROVE \E p \in U : \A q \in U : p <= q
      BY <2>1, <3>1, FirstExists
    <3>2. PICK m \in Int : m = 0 - n
      OBVIOUS
    <3>3. U \in SUBSET (m..0) /\ 0 \in Int
      BY <2>1, <3>2
    <3> QED BY <3>1, <3>3
  <2> USE DEF U
  <2>3. PICK p \in c.todo : u = 0 - p
    OBVIOUS
  <2>4. ASSUME NEW q \in c.todo PROVE q <= p
    <3>1. 0 - q \in U
      OBVIOUS
    <3>2. u <= 0 - q
      BY <2>2, <3>1
    <3>3. q \in Int /\ p \in Int
      OBVIOUS
    <3> QED BY <2>3, <3>2, <3>3
  <2> QED BY <2>4
<1>3. (CHOOSE p \in c.todo : \A q \in c.todo : p <= q) \in c.todo
  BY <1>1
<1>4. (CHOOSE p \in c.todo : \A q \in c.todo : q <= p) \in c.todo
  BY <1>2
<1> QED BY <1>3, <1>4 DEF Page

\* No data: the same day again, the next page, the next day, or fetch_all gives up.
LEMMA ReadsNothing ==
  ASSUME HistoryTypes, pages <= Pointer, NEW c \in Calls, Fits(c), c.step = "get", UNCHANGED <<kind, used, now, log, pages, past>>,
         NEW left, left = [c EXCEPT !.clean = FALSE, !.todo = @ \ {Page(c)}],
         NEW n, n = CASE kind = "recording" -> [c EXCEPT !.clean = FALSE]
                      [] Paged /\ c.op = "all" -> [c EXCEPT !.clean = FALSE, !.step = "done"]
                      [] OTHER -> IF left.todo = {} THEN EndDay(left, past) ELSE left
  PROVE  n \in Calls /\ n.step \in {"get", "done"} /\ Fits(n)'
<1> DEFINE e == [c EXCEPT !.clean = FALSE]
<1>1. e \in Calls
  BY Edits
<1>2. /\ e.clean = FALSE /\ e.step = "get" /\ e.known = c.known /\ e.op = c.op /\ e.at = c.at /\ e.from = c.from
      /\ e.to = c.to /\ e.todo = c.todo
  BY DEF Calls
<1>3. (Paged' <=> Paged) /\ Pointer' = Pointer
  BY DEF Paged, Pointer
<1>4. past \in SUBSET Int
  BY DEF HistoryTypes
<1>5. CASE kind = "recording"
  <2>1. n = e /\ ~Paged
    BY <1>5, Kind
  <2> HIDE DEF e
  <2>2. HoursFit(e)'
    <3>1. HoursFit(c)
      BY <2>1 DEF Fits
    <3> QED BY <1>2, <3>1 DEF HoursFit, Day
  <2>3. Fits(n)'
    BY <1>2, <1>3, <2>1, <2>2 DEF Fits
  <2> QED BY <1>1, <1>2, <2>1, <2>3
<1>6. CASE kind # "recording" /\ c.op = "all"
  <2>1. Paged
    BY <1>6, Kind
  <2>2. n = [e EXCEPT !.step = "done"]
    BY <1>6, <2>1
  <2> HIDE DEF e
  <2>3. n \in Calls
    BY <1>1, <2>2, Edits DEF Steps
  <2>4. n.step = "done" /\ n.clean = FALSE
    BY <1>1, <1>2, <2>2 DEF Calls
  <2>5. Fits(n)'
    BY <1>3, <1>6, <2>1, <2>4 DEF Fits, RowsFit
  <2> QED BY <2>3, <2>4, <2>5
<1>7. CASE kind # "recording" /\ c.op # "all"
  <2> DEFINE todo == c.todo \ {Page(c)}
  <2>1. Paged
    BY <1>7, Kind
  <2>2. c.op = "range" /\ kind = "energy" /\ c.known \subseteq c.from..c.to /\ c.todo \subseteq 0..Pointer
    BY <1>7, <2>1 DEF Fits, RowsFit
  <2>3. n = IF left.todo = {} THEN EndDay(left, past) ELSE left
    BY <1>7
  <2>0. todo \in SUBSET Int /\ todo \subseteq 0..Pointer
    BY <2>2
  <2>9. left = [e EXCEPT !.todo = todo]
    BY DEF Calls
  <2> HIDE DEF e, todo
  <2>5. left \in Calls
    <3>1. [e EXCEPT !.todo = todo] \in Calls
      BY <1>1, <2>0, Edits
    <3> QED BY <2>9, <3>1
  <2>6. /\ left.clean = FALSE /\ left.step = "get" /\ left.known = c.known /\ left.op = "range" /\ left.from = c.from
        /\ left.to = c.to /\ left.todo = todo
    BY <1>1, <1>2, <2>2, <2>9 DEF Calls
  <2>7. CASE left.todo = {}
    <3>1. n = EndDay(left, past)
      BY <2>3, <2>7
    <3> QED BY <1>4, <2>2, <2>5, <2>6, <3>1, EndsDay
  <2>8. CASE left.todo # {}
    <3>1. n = left
      BY <2>3, <2>8
    <3>2. Fits(n)'
      BY <1>3, <2>1, <2>2, <2>0, <2>6, <2>8, <3>1 DEF Fits, RowsFit
    <3> QED BY <2>5, <2>6, <3>1, <3>2
  <2> QED BY <2>7, <2>8
<1> QED BY <1>5, <1>6, <1>7

-----------------------------------------------------------------------------
(* The steps                                                               *)

\* One call goes on as d, which fits; the device may have told a page number.
LEMMA OneCall ==
  ASSUME HistoryInv, NEW t \in Tasks, NEW d \in Calls, call' = [Calling EXCEPT ![t] = d], Fits(d)',
         UNCHANGED deviceVars, pages' \in Nat, kind = "energy" => pages <= pages', pages' <= Pointer,
         past' \in SUBSET Int, listed' \in BOOLEAN, put' \in SUBSET Readers,
         entry' \in SUBSET Int, value' \in SUBSET Int,
         past' = past \/ queue = << >> \/ Head(queue) = t,
         \/ ~Queued(t) /\ d.step = "wait" /\ queue # << >> /\ queue' = Append(queue, t)
         \/ ~Queued(t) /\ d.step = "get" /\ queue = << >> /\ queue' = <<t>>
         \/ ~Queued(t) /\ d.step \notin {"wait", "get"} /\ queue' = queue
         \/ queue # << >> /\ Head(queue) = t /\ d.step = "get" /\ queue' = queue
         \/ queue # << >> /\ Head(queue) = t /\ d.step \notin {"wait", "get"} /\ queue' = Tail(queue)
         \/ /\ d.step \notin {"wait", "get"}
            /\ \E i \in 1..Len(queue) : queue[i] = t /\ queue' = RemoveAt(queue, i)
  PROVE  HistoryInv'
<1>1. HistoryTypes /\ DeviceUse /\ LockUse
  BY DEF HistoryInv
<1>2. /\ kind' = kind /\ now' = now /\ ahead' = ahead /\ used' = used /\ log' = log
      /\ now \in Nat /\ log \in Seq(Days)
  BY <1>1 DEF deviceVars, HistoryTypes
<1>3. \A p : Rows(p) \subseteq Rows(p)'
  BY <1>2 DEF Rows, FirstPage
<1>4. kind = "energy" => Reachable \subseteq Reachable'
  <2> SUFFICES ASSUME kind = "energy" PROVE Reachable \subseteq Reachable'
    OBVIOUS
  <2>1. \A j \in DOMAIN log : (j - 1) \div PageSize < pages => (j - 1) \div PageSize < pages'
    <3>1. SUFFICES ASSUME NEW j \in DOMAIN log, (j - 1) \div PageSize < pages PROVE (j - 1) \div PageSize < pages'
      OBVIOUS
    <3>2. j - 1 \in Int /\ PageSize \in Nat \ {0}
      BY <1>2
    <3>3. (j - 1) \div PageSize \in Int
      BY <3>2, Euclid
    <3>4. pages \in Nat
      BY <1>1 DEF HistoryTypes
    <3> QED BY <3>1, <3>3, <3>4
  <2> QED BY <1>2, <2>1 DEF Reachable
<1>5. past' = past \/ \A u \in Tasks \ {t} : call[u].step # "get"
  BY <1>1 DEF LockUse
<1>6. queue' \in Seq(Tasks) /\ LockUse'
  BY LockStep
<1>7. call' \in [Tasks -> Calls] /\ FetchUse' /\ RangeExact' /\ FetchComplete'
  <2>1. now' \in Nat /\ now <= now' /\ kind' = kind /\ used' = used
    BY <1>2
  <2>2. Pointer' \in Nat /\ Pointer <= Pointer'
    BY <1>1, <1>2, PointerStays
  <2> HIDE DEF Calling
  <2> QED BY <2>1, <2>2, <1>3, <1>4, <1>5, CallStep
<1>8. DeviceUse'
  <2>1. Pointer' = Pointer
    BY <1>2 DEF Pointer
  <2>2. \A i \in 1..Len(log) : (log[i] < Day(now))'
    BY <1>1, <1>2 DEF DeviceUse, Day
  <2> QED BY <1>2, <2>1, <2>2 DEF DeviceUse
<1>9. HistoryTypes'
  BY <1>1, <1>2, <1>6, <1>7 DEF HistoryTypes
<1> QED BY <1>6, <1>7, <1>8, <1>9 DEF HistoryInv

\* What every step finds.
LEMMA Found ==
  ASSUME HistoryInv, NEW t \in Tasks
  PROVE  /\ HistoryTypes /\ DeviceUse /\ call[t] \in Calls /\ Fits(call[t])
         /\ pages \in Nat /\ pages <= Pointer /\ pages <= pages
         /\ past \in SUBSET Int /\ listed \in BOOLEAN /\ put \in SUBSET Readers
         /\ entry \in SUBSET Int /\ value \in SUBSET Int
         /\ NoCall \in Calls /\ NoCall.step = "idle"
         /\ Free(t) => ~Queued(t)
         /\ call[t].step = "get" => queue # << >> /\ Head(queue) = t
<1>1. HistoryTypes /\ DeviceUse /\ LockUse /\ pages \in Nat
  BY DEF HistoryInv, HistoryTypes
<1>2. Fits(call[t])
  BY DEF HistoryInv, FetchUse, RangeExact, FetchComplete, Fits, Returned, Updating
<1>3. NoCall \in Calls /\ NoCall.step = "idle"
  BY DEF NoCall, Calls, Steps
<1> QED BY <1>1, <1>2, <1>3 DEF HistoryTypes, DeviceUse, LockUse, Free, Queued

\* The call that holds the lock goes on as n, or returns.
LEMMA GoesOn ==
  ASSUME HistoryInv, NEW t \in Tasks, call[t].step = "get", NEW n \in Calls, n.step \in {"get", "done"}, Fits(n)',
         NEW p \in SUBSET Int, GoOn(t, n, p)
  PROVE  HistoryInv'
<1>1. /\ call' = [Calling EXCEPT ![t] = WithResult(n)]
      /\ queue' = IF n.step = "done" THEN Tail(queue) ELSE queue
      /\ past' = p
      /\ UNCHANGED <<deviceVars, pages, listed, put, entry, value>>
  BY DEF GoOn
<1>2. kind' = kind /\ used' = used
  BY <1>1 DEF deviceVars
<1>3. CASE n.step = "get"
  <2>1. WithResult(n) = n
    BY <1>3 DEF WithResult
  <2> QED BY <1>1, <1>3, <2>1, Found, OneCall
<1>4. CASE n.step = "done"
  <2>1. PICK d : d = Finished(n)
    OBVIOUS
  <2>2. d \in Calls /\ d.step = "done" /\ Fits(d)'
    BY <1>2, <1>4, <2>1, Found, Returns
  <2>3. WithResult(n) = d
    BY <1>4, <2>1 DEF WithResult
  <2> QED BY <1>1, <1>4, <2>2, <2>3, Found, OneCall
<1> QED BY <1>3, <1>4

LEMMA Reading ==
  ASSUME HistoryInv, NEW t \in Tasks, Fetched(t)
  PROVE  HistoryInv'
<1>1. PICK c : c = call[t]
  OBVIOUS
<1>2. /\ HistoryTypes /\ c \in Calls /\ Fits(c) /\ c.step = "get" /\ past \in SUBSET Int /\ pages \in Nat
      /\ pages <= Pointer /\ Pointer \in Nat
  BY <1>1, Found, RowsAndPages DEF Fetched, GotRows, GotDay, GotNothing
<1>3. ASSUME Raised(t), call[t].step = "get" PROVE HistoryInv'
  <2>1. /\ call' = [Calling EXCEPT ![t] = NoCall]
        /\ \E i \in 1..Len(queue) : queue[i] = t /\ queue' = RemoveAt(queue, i)
        /\ UNCHANGED <<deviceVars, pages, past, listed, put, entry, value>>
    BY <1>3 DEF Raised
  <2>2. Fits(NoCall)'
    <3>1. NoCall.step = "idle"
      BY Found
    <3> QED BY <3>1 DEF Fits, RowsFit, HoursFit
  <2> QED BY <2>1, <2>2, Found, OneCall
<1>4. CASE GotRows(t)
  <2>1. PICK p : p = Page(c)
    OBVIOUS
  <2>2. PICK R \in {Rows(p), {}} :
          LET kept == past \cup R
              n == IF c.op = "all" THEN NextPage(Left(c, p, R), kept)
                   ELSE IF Left(c, p, R).find = {} THEN EndDay(Left(c, p, R), kept)
                   ELSE IF Left(c, p, R).todo = {} THEN EndDay(After(Left(c, p, R), p), kept)
                   ELSE After(Left(c, p, R), p)
          IN IF listed /\ R # {} THEN Raised(t) ELSE GoOn(t, n, kept)
    BY <1>1, <1>4, <2>1 DEF GotRows, Left, After
  <2>3. CASE listed /\ R # {}
    BY <1>1, <1>2, <1>3, <2>2, <2>3
  <2>4. CASE ~(listed /\ R # {})
    <3>1. PICK kept : kept = past \cup R
      OBVIOUS
    <3>2. PICK n : n = IF c.op = "all" THEN NextPage(Left(c, p, R), kept)
                       ELSE IF Left(c, p, R).find = {} THEN EndDay(Left(c, p, R), kept)
                       ELSE IF Left(c, p, R).todo = {} THEN EndDay(After(Left(c, p, R), p), kept)
                       ELSE After(Left(c, p, R), p)
      OBVIOUS
    <3>3. Paged /\ GoOn(t, n, kept)
      BY <1>4, <2>2, <2>4, <3>1, <3>2 DEF GotRows
    <3>4. UNCHANGED <<kind, used, now, log, pages>> /\ past' = kept
      BY <3>3 DEF GoOn, deviceVars
    <3>5. p \in Int
      <4>1. c.todo # {} /\ c.todo \subseteq 0..Pointer
        BY <1>2, <3>3 DEF Fits, RowsFit
      <4> QED BY <1>2, <2>1, <4>1, PageIs
    <3>6. n \in Calls /\ n.step \in {"get", "done"} /\ Fits(n)' /\ past' \in SUBSET Int
      BY <1>2, <3>1, <3>2, <3>3, <3>4, <3>5, ReadsRows
    <3> QED BY <1>1, <1>2, <3>3, <3>4, <3>6, GoesOn
  <2> QED BY <2>3, <2>4
<1>5. CASE GotDay(t)
  <2>1. PICK K, next, skip :
          /\ K = past \cup {s \in Recorded(Day(c.at)) : c.from <= s /\ s <= c.to}
          /\ next = NextDay([c EXCEPT !.at = @ + Hours], K)
          /\ skip = NextDay([c EXCEPT !.at = @ + Hours, !.known = {s \in c.known : Day(s) # Day(c.at)}], past)
    OBVIOUS
  <2>2. kind = "recording" /\ (GoOn(t, next, K) \/ GoOn(t, skip, past))
    BY <1>1, <1>5, <2>1 DEF GotDay
  <2>3. CASE GoOn(t, next, K)
    <3>1. UNCHANGED <<kind, used, now, log, pages>> /\ past' = K
      BY <2>3 DEF GoOn, deviceVars
    <3>2. next \in Calls /\ next.step \in {"get", "done"} /\ Fits(next)' /\ past' \in SUBSET Int
      BY <1>2, <2>1, <2>2, <3>1, ReadsDay
    <3> QED BY <1>1, <1>2, <2>3, <3>1, <3>2, GoesOn
  <2>4. CASE GoOn(t, skip, past)
    <3>1. UNCHANGED <<kind, used, now, log, pages, past>>
      BY <2>4 DEF GoOn, deviceVars
    <3>2. PICK b : b = [c EXCEPT !.known = {s \in c.known : Day(s) # Day(c.at)}]
      OBVIOUS
    <3>3. skip = NextDay([b EXCEPT !.at = @ + Hours], past)
      BY <1>2, <2>1, <3>2 DEF Calls
    <3>4. skip \in Calls /\ skip.step \in {"get", "done"} /\ Fits(skip)'
      BY <1>2, <2>2, <3>1, <3>2, <3>3, SkipsDay
    <3> QED BY <1>1, <1>2, <2>4, <3>1, <3>4, GoesOn
  <2> QED BY <2>2, <2>3, <2>4
<1>6. CASE GotNothing(t)
  <2>1. PICK left : left = [c EXCEPT !.clean = FALSE, !.todo = @ \ {Page(c)}]
    OBVIOUS
  <2>2. PICK n : n = CASE kind = "recording" -> [c EXCEPT !.clean = FALSE]
                       [] Paged /\ c.op = "all" -> [c EXCEPT !.clean = FALSE, !.step = "done"]
                       [] OTHER -> IF left.todo = {} THEN EndDay(left, past) ELSE left
    OBVIOUS
  <2>3. GoOn(t, n, past)
    BY <1>1, <1>6, <2>1, <2>2 DEF GotNothing
  <2>4. UNCHANGED <<kind, used, now, log, pages, past>>
    BY <2>3 DEF GoOn, deviceVars
  <2>5. n \in Calls /\ n.step \in {"get", "done"} /\ Fits(n)'
    BY <1>2, <2>1, <2>2, <2>4, ReadsNothing
  <2> QED BY <1>1, <1>2, <2>3, <2>5, GoesOn
<1> QED BY <1>4, <1>5, <1>6 DEF Fetched

\* A call takes the lock, or waits for it.
LEMMA Acquires ==
  ASSUME HistoryInv, NEW t \in Tasks, Free(t), NEW c \in Calls, Asks(c), Acquire(t, c),
         UNCHANGED <<deviceVars, pages, listed, put, entry, value>>
  PROVE  HistoryInv'
<1>1. kind' = kind /\ used' = used /\ now' = now /\ log' = log
  BY DEF deviceVars
<1>2. CASE queue = << >>
  <2>1. PICK n : n = Entered(c)
    OBVIOUS
  <2>2. /\ call' = [Calling EXCEPT ![t] = WithResult(n)]
        /\ queue' = IF n.step = "done" THEN << >> ELSE <<t>>
        /\ past' = Cleared(c)
    BY <1>2, <2>1 DEF Acquire
  <2>3. n \in Calls /\ n.step \in {"get", "done"} /\ Fits(n)' /\ past' \in SUBSET Int
    BY <1>1, <2>1, <2>2, Found, Enters
  <2>4. CASE n.step = "get"
    <3>1. WithResult(n) = n
      BY <2>4 DEF WithResult
    <3> QED BY <1>2, <2>2, <2>3, <2>4, <3>1, Found, OneCall
  <2>5. CASE n.step = "done"
    <3>1. PICK d : d = Finished(n)
      OBVIOUS
    <3>2. d \in Calls /\ d.step = "done" /\ Fits(d)'
      BY <1>1, <2>3, <2>5, <3>1, Found, Returns
    <3>3. WithResult(n) = d
      BY <2>5, <3>1 DEF WithResult
    <3> QED BY <1>2, <2>2, <2>3, <2>5, <3>2, <3>3, Found, OneCall
  <2> QED BY <2>3, <2>4, <2>5
<1>3. CASE queue # << >>
  <2>1. PICK d : d = [c EXCEPT !.step = "wait"]
    OBVIOUS
  <2>2. call' = [Calling EXCEPT ![t] = d] /\ queue' = Append(queue, t) /\ past' = past
    BY <1>3, <2>1 DEF Acquire
  <2>3. d \in Calls
    BY <2>1, Edits DEF Steps
  <2>4. /\ d.step = "wait" /\ d.op = c.op /\ d.known = c.known /\ d.from = c.from /\ d.to = c.to
        /\ d.read = c.read /\ d.find = c.find
    BY <2>1 DEF Calls
  <2>5. Reachable' = Reachable /\ (Paged' <=> Paged)
    BY <1>1 DEF Reachable, Paged
  <2>6. Fits(d)'
    BY <1>1, <2>4, <2>5 DEF Asks, Fits, RowsFit, HoursFit
  <2> QED BY <1>3, <2>2, <2>3, <2>4, <2>6, Found, OneCall
<1> QED BY <1>2, <1>3

\* The call of a task that is given the lock.
LEMMA Locking ==
  ASSUME HistoryInv, NEW t \in Tasks, Locked(t)
  PROVE  HistoryInv'
<1>1. PICK c : c = call[t]
  OBVIOUS
<1>2. PICK n : n = Entered(c)
  OBVIOUS
<1>3. /\ c \in Calls /\ Fits(c) /\ c.step = "wait" /\ queue # << >> /\ Head(queue) = t
      /\ call' = [Calling EXCEPT ![t] = WithResult(n)]
      /\ queue' = IF n.step = "done" THEN Tail(queue) ELSE queue
      /\ past' = Cleared(c)
      /\ UNCHANGED <<deviceVars, pages, listed, put, entry, value>>
  BY <1>1, <1>2, Found DEF Locked
<1>4. kind' = kind /\ used' = used /\ now' = now /\ log' = log
  BY <1>3 DEF deviceVars
<1>5. Asks(c)
  BY <1>3 DEF Asks, Fits, RowsFit, HoursFit
<1>6. n \in Calls /\ n.step \in {"get", "done"} /\ Fits(n)' /\ past' \in SUBSET Int
  BY <1>2, <1>3, <1>4, <1>5, Found, Enters
<1>7. CASE n.step = "get"
  <2>1. WithResult(n) = n
    BY <1>7 DEF WithResult
  <2> QED BY <1>3, <1>6, <1>7, <2>1, Found, OneCall
<1>8. CASE n.step = "done"
  <2>1. PICK d : d = Finished(n)
    OBVIOUS
  <2>2. d \in Calls /\ d.step = "done" /\ Fits(d)'
    BY <1>4, <1>6, <1>8, <2>1, Found, Returns
  <2>3. WithResult(n) = d
    BY <1>8, <2>1 DEF WithResult
  <2> QED BY <1>3, <1>6, <1>8, <2>2, <2>3, Found, OneCall
<1> QED BY <1>6, <1>7, <1>8

\* A call that raises leaves the queue of the lock.
LEMMA Raising ==
  ASSUME HistoryInv, NEW t \in Tasks, FetchRaises(t) \/ UpdateRaises(t)
  PROVE  HistoryInv'
<1>1. /\ call' = [Calling EXCEPT ![t] = NoCall]
      /\ UNCHANGED <<deviceVars, pages, past, listed, put, entry, value>>
  BY DEF FetchRaises, UpdateRaises, Raised
<1>2. Fits(NoCall)'
  <2>1. NoCall.step = "idle"
    BY Found
  <2> QED BY <2>1 DEF Fits, RowsFit, HoursFit
<1>3. CASE FetchRaises(t)
  <2>1. \E i \in 1..Len(queue) : queue[i] = t /\ queue' = RemoveAt(queue, i)
    BY <1>3 DEF FetchRaises, Raised
  <2> QED BY <1>1, <1>2, <2>1, Found, OneCall
<1>4. CASE UpdateRaises(t)
  <2>1. queue' = queue /\ ~Queued(t)
    BY <1>4 DEF UpdateRaises, Raised, Queued
  <2> QED BY <1>1, <1>2, <2>1, Found, OneCall
<1> QED BY <1>3, <1>4

\* A call for the past is made.
LEMMA Fetching ==
  ASSUME HistoryInv, NEW t \in Tasks,
         FetchAll(t) \/ \E r \in Ranges : FetchRange(t, r[1], r[2])
  PROVE  HistoryInv'
<1>1. HistoryTypes /\ DeviceUse /\ NoCall \in Calls /\ Reachable \subseteq Days /\ Days \subseteq Nat
  BY Found, RowsAndPages
<1>2. CASE FetchAll(t)
  <2>1. PICK c : c = [NoCall EXCEPT !.op = "all", !.known = Reachable]
    OBVIOUS
  <2>2. Free(t) /\ Paged /\ Acquire(t, c) /\ UNCHANGED <<deviceVars, pages, listed, put, entry, value>>
    BY <1>2, <2>1 DEF FetchAll
  <2>3. c \in Calls /\ c.op = "all" /\ c.known = Reachable /\ c.read = {}
    <3>1. PICK K \in SUBSET Int : K = Reachable
      BY <1>1
    <3>2. c = [NoCall EXCEPT !.op = "all", !.known = K]
      BY <2>1, <3>1
    <3>3. c \in Calls /\ c.op = "all" /\ c.known = K /\ c.read = {}
      <4>1. c \in Calls
        BY <1>1, <3>2 DEF Calls, Steps
      <4> QED BY <3>2, <4>1 DEF NoCall
    <3> QED BY <3>1, <3>3
  <2>4. Asks(c)
    BY <2>2, <2>3 DEF Asks
  <2> QED BY <2>2, <2>3, <2>4, Acquires
<1>3. ASSUME NEW r \in Ranges, FetchRange(t, r[1], r[2]) PROVE HistoryInv'
  <2>1. PICK a \in Nat, b \in Nat : a = r[1] /\ b = r[2]
    OBVIOUS
  <2>2. PICK c : c = [NoCall EXCEPT !.op = "range", !.from = a, !.to = b]
    OBVIOUS
  <2>3. /\ c \in Calls /\ c.op = "range" /\ c.from = a /\ c.to = b /\ c.read = {} /\ c.known = {}
        /\ c.find = {} /\ c.step = "idle"
    <3>1. c \in Calls
      BY <1>1, <2>2 DEF Calls, Steps
    <3> QED BY <2>2, <3>1 DEF NoCall
  <2>4. Free(t) /\ UNCHANGED <<deviceVars, pages, listed, put, entry, value>>
    BY <1>3 DEF FetchRange
  <2>5. CASE kind = "recording" /\ Acquire(t, [c EXCEPT !.known = {s \in used : s < now /\ a <= s /\ s < b}])
    <3>1. PICK K : K = {s \in used : s < now /\ a <= s /\ s < b}
      OBVIOUS
    <3>2. PICK d : d = [c EXCEPT !.known = K]
      OBVIOUS
    <3>3. K \in SUBSET Int
      <4>1. used \subseteq Int
        BY <1>1 DEF HistoryTypes
      <4> QED BY <3>1, <4>1
    <3>4. d \in Calls
      BY <2>3, <3>2, <3>3, Edits
    <3>5. d.op = "range" /\ d.from = a /\ d.to = b /\ d.known = K
      BY <2>3, <3>2 DEF Calls
    <3>6. Asks(d)
      BY <2>5, <3>1, <3>5 DEF Asks, Paged
    <3>7. Acquire(t, d)
      BY <2>5, <3>1, <3>2
    <3> QED BY <2>4, <3>4, <3>6, <3>7, Acquires
  <2>6. CASE kind = "energy" /\ call' = [Calling EXCEPT ![t] = Finished(c)] /\ UNCHANGED <<past, queue>>
    <3>1. PICK d : d = Finished(c)
      OBVIOUS
    <3>2. Paged /\ kind' = kind /\ used' = used
      BY <2>4, <2>6 DEF Paged, deviceVars
    <3>3. d \in Calls /\ d.step = "done" /\ Fits(d)'
      BY <1>1, <2>3, <3>1, <3>2, Returns
    <3> QED BY <2>4, <2>6, <3>1, <3>3, Found, OneCall
  <2>7. ASSUME kind = "energy", NEW today,
               Acquire(t, [c EXCEPT !.known = Reachable \cap ((a..b) \ {today}), !.find = (a..b) \ {today}])
        PROVE  HistoryInv'
    <3>1. PICK F : F = (a..b) \ {today}
      OBVIOUS
    <3>2. PICK K : K = Reachable \cap F
      OBVIOUS
    <3>3. PICK d : d = [c EXCEPT !.known = K, !.find = F]
      OBVIOUS
    <3>4. K \in SUBSET Int /\ F \in SUBSET Int /\ K \subseteq a..b
      BY <3>1, <3>2
    <3>5. d \in Calls /\ d.op = "range" /\ d.from = a /\ d.to = b /\ d.known = K /\ d.find = F /\ d.read = {}
      <4> DEFINE e == [c EXCEPT !.known = K]
      <4>1. e \in Calls /\ e.op = "range" /\ e.from = a /\ e.to = b /\ e.known = K /\ e.read = {}
        <5>1. e \in Calls
          BY <2>3, <3>4, Edits
        <5> QED BY <2>3, <5>1 DEF Calls
      <4>2. d = [e EXCEPT !.find = F]
        BY <2>3, <3>3 DEF Calls
      <4> HIDE DEF e
      <4>3. d \in Calls
        BY <3>4, <4>1, <4>2, Edits
      <4> QED BY <4>1, <4>2, <4>3 DEF Calls
    <3>6. Asks(d)
      BY <2>7, <3>2, <3>4, <3>5 DEF Asks, Paged
    <3>7. Acquire(t, d)
      BY <2>7, <3>1, <3>2, <3>3
    <3> QED BY <2>4, <3>5, <3>6, <3>7, Acquires
  <2>8. \/ kind = "recording" /\ Acquire(t, [c EXCEPT !.known = {s \in used : s < now /\ a <= s /\ s < b}])
        \/ kind = "energy" /\ call' = [Calling EXCEPT ![t] = Finished(c)] /\ UNCHANGED <<past, queue>>
        \/ /\ kind = "energy"
           /\ \E today : Acquire(t, [c EXCEPT !.known = Reachable \cap ((a..b) \ {today}), !.find = (a..b) \ {today}])
    BY <1>3, <2>1, <2>2 DEF FetchRange
  <2> QED BY <2>5, <2>6, <2>7, <2>8
<1> QED BY <1>2, <1>3

\* The page number, divided once more, is none that was not known.
LEMMA Shrinks ==
  ASSUME NEW n \in Nat, n > 0
  PROVE  (n + PageSize - 1) \div PageSize \in Nat \ {0} /\ (n + PageSize - 1) \div PageSize <= n
<1> DEFINE k == PageSize
           x == (n + k - 1) \div k
           y == (n + k - 1) % k
<1>1. k \in Nat \ {0} /\ n + k - 1 \in Int
  OBVIOUS
<1>2. n + k - 1 = k * x + y /\ y \in 0..(k - 1) /\ x \in Int
  BY <1>1, Euclid
<1> HIDE DEF k, x, y
<1>3. x >= 1
  <2>1. x <= 0 => k * x <= 0
    BY <1>1, <1>2
  <2> QED BY <1>1, <1>2, <2>1
<1>4. x <= n
  <2> DEFINE d == x - n - 1
  <2>1. x = n + 1 + d /\ d \in Int
    BY <1>2
  <2>2. k * x = k * n + k + k * d
    BY <1>1, <1>2, <2>1
  <2>3. k * n >= n /\ (d >= 0 => k * d >= 0)
    BY <1>1, <2>1
  <2> HIDE DEF d
  <2> QED BY <1>1, <1>2, <2>1, <2>2, <2>3
<1> QED BY <1>2, <1>3, <1>4 DEF k, x

\* The steps of an update: its call is one, and it does not use the lock.
LEMMA Updates ==
  ASSUME HistoryInv, NEW t \in Tasks,
         Update(t) \/ GotPointer(t) \/ NoPointer(t) \/ GotUpdate(t) \/ NoUpdate(t) \/ UpdateSwallows(t)
  PROVE  HistoryInv'
<1>1. SUFFICES /\ \E d \in Calls : /\ call' = [Calling EXCEPT ![t] = d]
                                   /\ d.op = "update" /\ d.step \notin {"idle", "wait", "get"}
               /\ ~Queued(t) /\ UNCHANGED <<deviceVars, past, listed, put, queue>>
               /\ pages' \in Nat /\ (kind = "energy" => pages <= pages') /\ pages' <= Pointer
               /\ entry' \in SUBSET Int /\ value' \in SUBSET Int
  <2>1. PICK d \in Calls : /\ call' = [Calling EXCEPT ![t] = d]
                           /\ d.op = "update" /\ d.step \notin {"idle", "wait", "get"}
    BY <1>1
  <2>2. Fits(d)'
    BY <2>1 DEF Fits, RowsFit, HoursFit
  <2> QED BY <1>1, <2>1, <2>2, Found, OneCall
<1>2. PICK c : c = call[t]
  OBVIOUS
<1>3. /\ HistoryTypes /\ DeviceUse /\ c \in Calls /\ Fits(c) /\ pages \in Nat /\ pages <= Pointer
      /\ Pointer \in Nat /\ entry \in SUBSET Int /\ value \in SUBSET Int /\ NoCall \in Calls
      /\ \A p : Rows(p) \in SUBSET Int
  <2>1. \A d \in Days : d \in Int
    BY DEF Days
  <2> QED BY <1>2, <2>1, Found, RowsAndPages
<1>4. ASSUME NEW e \in Calls, e.op = "update", UNCHANGED deviceVars, call' = [Calling EXCEPT ![t] = Finished(e)]
      PROVE  \E d \in Calls : /\ call' = [Calling EXCEPT ![t] = d]
                              /\ d.op = "update" /\ d.step \notin {"idle", "wait", "get"}
  <2>1. PICK d : d = Finished(e)
    OBVIOUS
  <2>2. kind' = kind /\ used' = used
    BY <1>4 DEF deviceVars
  <2>3. d \in Calls /\ d.step = "done" /\ d.op = "update"
    BY <1>3, <1>4, <2>1, <2>2, Returns
  <2> QED BY <1>4, <2>1, <2>3
<1>5. ASSUME NEW e \in Calls, e.op = "update", e.step = "page", UNCHANGED deviceVars, NEW left \in SUBSET Int,
             call' = [Calling EXCEPT ![t] = IF left = {} THEN Finished(e) ELSE [e EXCEPT !.todo = left]]
      PROVE  \E d \in Calls : /\ call' = [Calling EXCEPT ![t] = d]
                              /\ d.op = "update" /\ d.step \notin {"idle", "wait", "get"}
  <2>1. CASE left = {}
    BY <1>4, <1>5, <2>1
  <2>2. CASE left # {}
    <3>1. PICK d : d = [e EXCEPT !.todo = left]
      OBVIOUS
    <3>2. d \in Calls
      BY <1>5, <3>1, Edits
    <3>3. d.op = "update" /\ d.step = "page"
      BY <1>5, <3>1 DEF Calls
    <3>4. call' = [Calling EXCEPT ![t] = d]
      BY <1>5, <2>2, <3>1
    <3> QED BY <3>2, <3>3, <3>4
  <2> QED BY <2>1, <2>2
<1>6. PICK e : e = [c EXCEPT !.clean = FALSE]
  OBVIOUS
<1>7. e \in Calls /\ e.op = c.op /\ e.step = c.step /\ e.todo = c.todo
  <2>1. e \in Calls
    BY <1>3, <1>6, Edits
  <2> QED BY <1>6, <2>1 DEF Calls
<1>8. c.step \in {"pointer", "page"} => c.op = "update" /\ ~Queued(t)
  BY <1>2, <1>3 DEF Fits, Queued
<1>9. CASE Update(t)
  <2>1. PICK s, a, K : /\ s = IF Paged THEN "pointer" ELSE "page"
                       /\ a = IF Paged \/ (now + ahead) % Hours < 1 THEN Day(now + ahead) - 1 ELSE Day(now + ahead)
                       /\ K = IF Paged THEN {Day(now + ahead) - 1} \cap ToSet(log)
                              ELSE {x \in used : x = now - 1 /\ Day(x) = Day(x + ahead)}
    OBVIOUS
  <2>2. s \in {"pointer", "page"} /\ a \in Int /\ K \in SUBSET Int
    <3>1. now + ahead \in Int /\ used \subseteq Int
      BY <1>3 DEF HistoryTypes
    <3>2. PICK h \in Int : h = now + ahead
      BY <3>1
    <3>3. PICK y \in Int : y = Day(h)
      BY <3>2, DaysFollow
    <3>4. a = IF Paged \/ h % Hours < 1 THEN y - 1 ELSE y
      BY <2>1, <3>2, <3>3
    <3>5. K \in SUBSET Int
      <4>1. CASE Paged
        <5>1. K = {y - 1} \cap ToSet(log)
          BY <2>1, <3>2, <3>3, <4>1
        <5> QED BY <5>1
      <4>2. CASE ~Paged
        <5>1. K \subseteq used
          BY <2>1, <4>2
        <5> QED BY <3>1, <5>1
      <4> QED BY <4>1, <4>2
    <3>6. a \in Int
      BY <3>4
    <3> QED BY <2>1, <3>5, <3>6
  <2>3. PICK d : d = [NoCall EXCEPT !.op = "update", !.step = s, !.at = a, !.known = K]
    OBVIOUS
  <2>4. call' = [Calling EXCEPT ![t] = d] /\ Free(t)
        /\ UNCHANGED <<deviceVars, pages, past, listed, put, entry, value, queue>>
    BY <1>9, <2>1, <2>3 DEF Update
  <2>5. d \in Calls
    BY <1>3, <2>2, <2>3 DEF Calls, Steps
  <2>6. d.op = "update" /\ d.step = s
    BY <2>3 DEF NoCall
  <2> QED BY <1>3, <2>2, <2>4, <2>5, <2>6, Found
<1>10. ASSUME NEW f \in Calls, f.op = "update", NEW n \in Nat, kind = "energy" => pages <= n, n <= Pointer, UpdatePages(t, f, n), ~Queued(t)
       PROVE  /\ \E d \in Calls : /\ call' = [Calling EXCEPT ![t] = d]
                                  /\ d.op = "update" /\ d.step \notin {"idle", "wait", "get"}
              /\ ~Queued(t) /\ UNCHANGED <<deviceVars, past, listed, put, queue>>
              /\ pages' \in Nat /\ (kind = "energy" => pages <= pages') /\ pages' <= Pointer
              /\ entry' \in SUBSET Int /\ value' \in SUBSET Int
  <2>1. /\ pages' = n /\ UNCHANGED <<deviceVars, past, listed, put, value, queue>>
        /\ entry' = IF n > 0 THEN {} ELSE entry
        /\ call' = [Calling EXCEPT ![t] =
             IF n = 0 THEN Finished(f) ELSE [f EXCEPT !.step = "page", !.todo = LatestPages(n)]]
    BY <1>10 DEF UpdatePages
  <2>2. \E d \in Calls : call' = [Calling EXCEPT ![t] = d] /\ d.op = "update" /\ d.step \notin {"idle", "wait", "get"}
    <3>1. CASE n = 0
      BY <1>4, <1>10, <2>1, <3>1
    <3>2. CASE n # 0
      <4>1. PICK T \in SUBSET Int : T = LatestPages(n)
        <5>1. n - 2 \in Int /\ n - 1 \in Int /\ n \in Int
          BY <1>10
        <5>2. LatestPages(n) \in SUBSET Int
          BY <5>1 DEF LatestPages
        <5> QED BY <5>2
      <4>2. PICK g : g = [f EXCEPT !.step = "page"]
        OBVIOUS
      <4>3. PICK d : d = [g EXCEPT !.todo = T]
        OBVIOUS
      <4>4. g \in Calls
        BY <1>10, <4>2, Edits DEF Steps
      <4>5. g.op = "update" /\ g.step = "page"
        BY <1>10, <4>2 DEF Calls
      <4>6. d \in Calls
        BY <4>3, <4>4, Edits
      <4>7. d.op = "update" /\ d.step = "page"
        BY <4>3, <4>4, <4>5 DEF Calls
      <4>8. call' = [Calling EXCEPT ![t] = d]
        BY <2>1, <3>2, <4>1, <4>2, <4>3
      <4> QED BY <4>6, <4>7, <4>8
    <3> QED BY <3>1, <3>2
  <2> QED BY <1>3, <1>10, <2>1, <2>2
<1>11. CASE GotPointer(t)
  BY <1>2, <1>3, <1>8, <1>10, <1>11 DEF GotPointer
<1>12. CASE NoPointer(t)
  <2>1. /\ c.step = "pointer"
        /\ \/ UpdatePages(t, e, pages)
           \/ kind = "ecus" /\ pages > 0 /\ UpdatePages(t, e, (pages + PageSize - 1) \div PageSize)
    BY <1>2, <1>6, <1>12 DEF NoPointer
  <2>2. CASE UpdatePages(t, e, pages)
    BY <1>3, <1>7, <1>8, <1>10, <2>1, <2>2
  <2>3. CASE kind = "ecus" /\ pages > 0 /\ UpdatePages(t, e, (pages + PageSize - 1) \div PageSize)
    <3>1. PICK n \in Nat : n = (pages + PageSize - 1) \div PageSize /\ n <= pages
      BY <1>3, <2>3, Shrinks
    <3>2. n <= Pointer
      BY <1>3, <3>1
    <3> QED BY <1>7, <1>8, <1>10, <2>1, <2>3, <3>1, <3>2
  <2> QED BY <2>1, <2>2, <2>3
<1>13. CASE GotUpdate(t)
  <2>1. PICK p : p = Page(c)
    OBVIOUS
  <2>2. PICK left \in SUBSET Int : left = IF c.at \in Rows(p) /\ kind = "ecus" THEN {} ELSE c.todo \ {p}
    BY <1>3 DEF Calls
  <2>3. /\ c.step = "page" /\ UNCHANGED <<deviceVars, pages, past, listed, put, queue>>
        /\ \/ call' = [Calling EXCEPT ![t] = IF left = {} THEN Finished(c) ELSE [c EXCEPT !.todo = left]]
           \/ \E b \in BOOLEAN : call' = [Calling EXCEPT ![t] = Finished([c EXCEPT !.clean = @ /\ b])]
    <3>1. CASE Paged
      BY <1>2, <1>13, <2>1, <2>2, <3>1 DEF GotUpdate
    <3>2. CASE ~Paged
      <4>1. PICK interval :
              call' = [Calling EXCEPT ![t] = Finished([c EXCEPT !.clean = @ /\ interval = c.at])]
        BY <1>2, <1>13, <3>2 DEF GotUpdate
      <4>2. c.step = "page" /\ UNCHANGED <<deviceVars, pages, past, listed, put, queue>>
        BY <1>2, <1>13 DEF GotUpdate
      <4> QED BY <4>1, <4>2
    <3> QED BY <3>1, <3>2
  <2>4. entry' \in SUBSET Int /\ value' \in SUBSET Int
    <3>1. CASE Paged
      <4>1. /\ entry' = entry \cup {d \in Rows(p) : c.at \in Rows(p) => d >= c.at}
            /\ value' = IF c.at \in Rows(p) THEN {c.at} ELSE value
        BY <1>2, <1>13, <2>1, <3>1 DEF GotUpdate
      <4>2. c.at \in Int
        BY <1>3 DEF Calls
      <4> QED BY <1>3, <4>1, <4>2
    <3>2. CASE ~Paged
      <4>1. value' \subseteq Recorded(c.at) /\ entry' = entry
        BY <1>2, <1>13, <3>2 DEF GotUpdate, Record
      <4>2. Recorded(c.at) \in SUBSET Int
        <5>1. used \subseteq Int
          BY <1>3 DEF HistoryTypes
        <5> QED BY <5>1 DEF Recorded
      <4> QED BY <1>3, <4>1, <4>2
    <3> QED BY <3>1, <3>2
  <2>5. \E d \in Calls : call' = [Calling EXCEPT ![t] = d] /\ d.op = "update" /\ d.step \notin {"idle", "wait", "get"}
    <3>1. ASSUME NEW b \in BOOLEAN, call' = [Calling EXCEPT ![t] = Finished([c EXCEPT !.clean = @ /\ b])]
          PROVE  \E d \in Calls : call' = [Calling EXCEPT ![t] = d] /\ d.op = "update" /\ d.step \notin {"idle", "wait", "get"}
      <4>1. PICK g : g = [c EXCEPT !.clean = @ /\ b]
        OBVIOUS
      <4>2. PICK v \in BOOLEAN : v = (c.clean /\ b)
        OBVIOUS
      <4>3. g = [c EXCEPT !.clean = v]
        BY <4>1, <4>2
      <4>4. g \in Calls
        BY <1>3, <4>3, Edits
      <4>5. g.op = "update"
        BY <1>3, <1>8, <2>3, <4>3 DEF Calls
      <4> QED BY <1>4, <2>3, <3>1, <4>1, <4>4, <4>5
    <3>2. CASE call' = [Calling EXCEPT ![t] = IF left = {} THEN Finished(c) ELSE [c EXCEPT !.todo = left]]
      BY <1>3, <1>5, <1>8, <2>3, <3>2
    <3> QED BY <2>3, <3>1, <3>2
  <2>6. ~Queued(t) /\ UNCHANGED <<deviceVars, past, listed, put, queue>>
    BY <1>8, <2>3
  <2>7. pages' \in Nat /\ (kind = "energy" => pages <= pages') /\ pages' <= Pointer
    BY <1>3, <2>3
  <2> QED BY <2>4, <2>5, <2>6, <2>7
<1>14. CASE NoUpdate(t)
  <2>1. PICK left \in SUBSET Int : left = IF Paged THEN e.todo \ {Page(e)} ELSE {}
    BY <1>7 DEF Calls
  <2>2. /\ c.step = "page" /\ UNCHANGED <<deviceVars, pages, past, listed, put, entry, value, queue>>
        /\ call' = [Calling EXCEPT ![t] = IF left = {} THEN Finished(e) ELSE [e EXCEPT !.todo = left]]
    BY <1>2, <1>6, <1>14, <2>1 DEF NoUpdate
  <2>3. \E d \in Calls : call' = [Calling EXCEPT ![t] = d] /\ d.op = "update" /\ d.step \notin {"idle", "wait", "get"}
    BY <1>5, <1>7, <1>8, <2>2
  <2>4. /\ pages' = pages /\ entry' = entry /\ value' = value
        /\ UNCHANGED <<deviceVars, past, listed, put, queue>>
    BY <2>2
  <2>5. pages' \in Nat /\ (kind = "energy" => pages <= pages') /\ pages' <= Pointer
    BY <1>3, <2>4
  <2>6. ~Queued(t)
    BY <1>8, <2>2
  <2> QED BY <1>3, <2>3, <2>4, <2>5, <2>6
<1>15. CASE UpdateSwallows(t)
  <2>1. c.step = "page" /\ UNCHANGED <<deviceVars, pages, past, listed, put, entry, value, queue>>
    BY <1>2, <1>15 DEF UpdateSwallows
  <2>2. call' = [Calling EXCEPT ![t] = Finished(e)]
    <3>1. Calling[t] = call[t]
      BY <1>2, <2>1 DEF Calling, Free
    <3> QED BY <1>2, <1>6, <1>15, <3>1 DEF UpdateSwallows
  <2>3. \E d \in Calls : call' = [Calling EXCEPT ![t] = d] /\ d.op = "update" /\ d.step \notin {"idle", "wait", "get"}
    BY <1>4, <1>7, <1>8, <2>1, <2>2
  <2>4. /\ pages' = pages /\ entry' = entry /\ value' = value
        /\ UNCHANGED <<deviceVars, past, listed, put, queue>>
    BY <2>1
  <2>5. pages' \in Nat /\ (kind = "energy" => pages <= pages') /\ pages' <= Pointer
    BY <1>3, <2>4
  <2>6. ~Queued(t)
    BY <1>8, <2>1
  <2> QED BY <1>3, <2>3, <2>4, <2>5, <2>6
<1> QED BY <1>9, <1>11, <1>12, <1>13, <1>14, <1>15

\* Time passes, or the device stores a row: the calls stay as they are.
LEMMA DeviceStep ==
  ASSUME HistoryInv, UNCHANGED <<kind, used, pages, past, queue, call>>, now' \in Nat, now <= now',
         \A p : Rows(p) \subseteq Rows(p)', Reachable \subseteq Reachable', Pointer' \in Nat, Pointer <= Pointer'
  PROVE  LockUse' /\ FetchUse' /\ RangeExact' /\ FetchComplete'
<1>1. HistoryTypes /\ LockUse /\ call \in [Tasks -> Calls]
  BY DEF HistoryInv, HistoryTypes
<1>2. LockUse'
  BY <1>1 DEF LockUse, Queued, Once, Among
<1>3. ASSUME NEW u \in Tasks PROVE \E c \in Calls : call'[u] = c /\ Fits(c)'
  <2>1. PICK c \in Calls : c = call[u]
    BY <1>1
  <2>2. Fits(c)
    BY <2>1, Found
  <2>3. Fits(c)'
    BY <1>1, <2>2, StillFits
  <2> QED BY <2>1, <2>3
<1> QED BY <1>2, <1>3, AllFit

LEMMA Ticking ==
  ASSUME HistoryInv, Tick
  PROVE  HistoryInv'
<1>1. /\ now' = now + 1 /\ now < Span[kind][2]
      /\ UNCHANGED <<kind, ahead, used, log, pages, past, listed, put, entry, value, queue, call>>
  BY DEF Tick
<1>2. HistoryTypes /\ DeviceUse /\ now \in 0..LastHour /\ log \in Seq(Days)
  BY DEF HistoryInv, HistoryTypes
<1>3. (\A p : Rows(p)' = Rows(p)) /\ Reachable' = Reachable /\ Pointer' = Pointer
  BY <1>1 DEF Rows, Reachable, FirstPage, Pointer
<1>4. now' \in Nat /\ now <= now' /\ now' \in 0..LastHour
  <2>1. kind \in Kinds
    BY <1>2 DEF HistoryTypes
  <2>2. Span[kind] \in (0..LastHour) \X (0..LastHour)
    BY <2>1
  <2> QED BY <1>1, <1>2, <2>2
<1>5. LockUse' /\ FetchUse' /\ RangeExact' /\ FetchComplete'
  <2>1. Pointer' \in Nat /\ Pointer <= Pointer'
    BY <1>1, <1>2, PointerStays
  <2> QED BY <1>1, <1>3, <1>4, <2>1, DeviceStep
<1>6. HistoryTypes'
  BY <1>1, <1>2, <1>4 DEF HistoryTypes, Calls
<1>7. DeviceUse'
  <2>1. PICK m \in Int, n \in Int : m = now /\ n = now' /\ m <= n
    BY <1>2, <1>4
  <2>2. Day(m) \in Int /\ Day(n) \in Int /\ Day(m) <= Day(n)
    BY <2>1, DaysFollow
  <2>3. \A d \in Days : d \in Int
    BY DEF Days
  <2>4. \A i \in 1..Len(log) : log[i] \in Int /\ log[i] < Day(m)
    BY <1>2, <2>1, <2>3 DEF DeviceUse
  <2>5. \A i \in 1..Len(log) : log[i] < Day(n)
    BY <2>2, <2>4
  <2>6. \A i \in 1..Len(log') : (log[i] < Day(now))'
    BY <1>1, <2>1, <2>5 DEF Day
  <2>7. pages' <= Pointer'
    BY <1>1, <1>2, <1>3 DEF DeviceUse
  <2> QED BY <2>6, <2>7 DEF DeviceUse
<1> QED BY <1>5, <1>6, <1>7 DEF HistoryInv

LEMMA Storing ==
  ASSUME HistoryInv, NEW d \in Days, StoreRow(d)
  PROVE  HistoryInv'
<1>1. /\ d < Day(now) /\ log' = Append(log, d)
      /\ UNCHANGED <<kind, now, ahead, used, pages, past, listed, put, entry, value, queue, call>>
  BY DEF StoreRow
<1>2. HistoryTypes /\ DeviceUse /\ now \in 0..LastHour /\ log \in Seq(Days) /\ pages \in Nat
  BY DEF HistoryInv, HistoryTypes
<1>3. /\ log' \in Seq(Days) /\ Len(log') = Len(log) + 1 /\ log'[Len(log) + 1] = d
      /\ \A i \in 1..Len(log) : log'[i] = log[i]
  BY <1>1, <1>2
<1>4. DOMAIN log \subseteq DOMAIN log' /\ \A i \in DOMAIN log : log'[i] = log[i]
  BY <1>2, <1>3
<1>5. ASSUME NEW p, NEW x \in Rows(p) PROVE x \in Rows(p)'
  <2>1. PICK i \in DOMAIN log : x = log[i] /\ (i - 1) \div PageSize + FirstPage = p
    BY DEF Rows
  <2>2. FirstPage' = FirstPage
    BY <1>1 DEF FirstPage
  <2> QED BY <1>4, <2>1, <2>2 DEF Rows
<1>6. ASSUME NEW x \in Reachable PROVE x \in Reachable'
  <2>1. PICK i \in DOMAIN log : x = log[i] /\ (i - 1) \div PageSize < pages
    BY DEF Reachable
  <2> QED BY <1>1, <1>4, <2>1 DEF Reachable
<1>9. Pointer' \in Int /\ Pointer \in Int /\ Pointer <= Pointer'
  <2>1. \A a, b \in Int, k \in Nat \ {0} : a <= b => a \div k <= b \div k
    OBVIOUS
  <2>2. Len(log) \in Int /\ Len(log') \in Int /\ Len(log) <= Len(log') /\ PageSize \in Nat \ {0}
    BY <1>2, <1>3
  <2>3. Len(log) \div PageSize <= Len(log') \div PageSize
    BY <2>1, <2>2
  <2>4. Len(log) \div PageSize \in Int /\ Len(log') \div PageSize \in Int
    BY <2>2, Euclid
  <2> QED BY <2>3, <2>4 DEF Pointer
<1>7. LockUse' /\ FetchUse' /\ RangeExact' /\ FetchComplete'
  <2>1. now' \in Nat /\ now <= now'
    BY <1>1, <1>2
  <2>2. Pointer' \in Nat /\ Pointer <= Pointer'
    BY <1>2, <1>9, RowsAndPages
  <2> QED BY <1>1, <1>5, <1>6, <2>1, <2>2, DeviceStep
<1>8. HistoryTypes'
  BY <1>1, <1>2, <1>3 DEF HistoryTypes, Calls, Days, Day
<1>10. DeviceUse'
  <2>1. \A i \in 1..Len(log') : i \in 1..Len(log) \/ i = Len(log) + 1
    BY <1>2, <1>3
  <2>2. \A i \in 1..Len(log') : log'[i] < Day(now)
    BY <1>1, <1>2, <1>3, <2>1 DEF DeviceUse
  <2>3. pages' <= Pointer'
    BY <1>1, <1>2, <1>9 DEF DeviceUse
  <2> QED BY <1>1, <2>2, <2>3 DEF DeviceUse, Day
<1> QED BY <1>7, <1>8, <1>10 DEF HistoryInv

\* The dictionary is cleared under the calls that read: they are not clean.
LEMMA Clearing ==
  ASSUME HistoryInv, NEW r \in Readers, ClearPastData(r)
  PROVE  HistoryInv'
<1>1. /\ HistoryTypes /\ LockUse /\ DeviceUse /\ call \in [Tasks -> Calls] /\ Paged
      /\ UNCHANGED <<deviceVars, pages, entry, value, queue>> /\ put' = put \cup {r}
  BY DEF HistoryInv, HistoryTypes, ClearPastData
<1>2. /\ kind' = kind /\ now' = now /\ ahead' = ahead /\ used' = used /\ log' = log /\ now \in Nat
      /\ pages' = pages /\ queue' = queue
  BY <1>1 DEF deviceVars, HistoryTypes
<1>3. (\A p : Rows(p)' = Rows(p)) /\ Reachable' = Reachable /\ Pointer' = Pointer
  BY <1>2 DEF Rows, Reachable, FirstPage, Pointer
<1>4. DeviceUse'
  <2>1. \A i \in 1..Len(log) : (log[i] < Day(now))'
    BY <1>1, <1>2 DEF DeviceUse, Day
  <2> QED BY <1>1, <1>2, <1>3, <2>1 DEF DeviceUse
<1>5. CASE put' # Readers
  <2>1. UNCHANGED <<past, listed, call>>
    BY <1>5 DEF ClearPastData
  <2>2. LockUse' /\ FetchUse' /\ RangeExact' /\ FetchComplete'
    <3>1. Pointer' \in Nat /\ Pointer <= Pointer'
      BY <1>1, <1>2, PointerStays
    <3> QED BY <1>2, <1>3, <2>1, <3>1, DeviceStep
  <2>3. HistoryTypes'
    BY <1>1, <1>2, <2>1 DEF HistoryTypes, Calls
  <2> QED BY <1>4, <2>2, <2>3 DEF HistoryInv
<1>6. CASE put' = Readers
  <2>1. /\ past' = {} /\ listed' = (kind = "ecus" \/ listed)
        /\ call' = [t \in Tasks |-> [Calling[t] EXCEPT !.clean = @ /\ Free(t)]]
    BY <1>6 DEF ClearPastData
  <2>2. ASSUME NEW u \in Tasks
        PROVE  \E c \in Calls : /\ call'[u] = c /\ Fits(c)'
                                /\ (c.step \in {"wait", "get"} <=> Queued(u))
                                /\ (c.step = "get" => call[u].step = "get")
    <3>1. PICK b \in Calls : b = call[u] /\ Fits(b)
      BY <1>1, Found
    <3>2. CASE Free(u)
      <4>1. PICK c : c = [NoCall EXCEPT !.clean = @ /\ TRUE]
        OBVIOUS
      <4>2. c \in Calls
        <5>1. NoCall \in Calls /\ NoCall.clean = TRUE
          BY Found DEF NoCall
        <5> QED BY <4>1, <5>1, Edits
      <4>3. c.step = "idle"
        BY <4>1 DEF NoCall
      <4>4. call'[u] = c
        BY <2>1, <3>2, <4>1 DEF Calling
      <4>5. Fits(c)'
        BY <4>3 DEF Fits, RowsFit, HoursFit
      <4>6. ~Queued(u)
        BY <3>2 DEF Free, Queued
      <4> QED BY <4>2, <4>3, <4>4, <4>5, <4>6
    <3>3. CASE ~Free(u)
      <4>1. PICK c : c = [b EXCEPT !.clean = FALSE]
        OBVIOUS
      <4>2. c \in Calls
        BY <3>1, <4>1, Edits
      <4>3. /\ c.clean = FALSE /\ c.step = b.step /\ c.op = b.op /\ c.known = b.known /\ c.from = b.from /\ c.to = b.to
            /\ c.read = b.read /\ c.find = b.find /\ c.todo = b.todo
        BY <3>1, <4>1 DEF Calls
      <4>4. call'[u] = c
        <5>1. call'[u] = [b EXCEPT !.clean = @ /\ FALSE]
          BY <2>1, <3>1, <3>3 DEF Calling
        <5>2. (b.clean /\ FALSE) = FALSE
          OBVIOUS
        <5> QED BY <4>1, <5>1, <5>2
      <4>5. Fits(c)'
        <5>1. RowsFit(b) /\ (b.step \in {"pointer", "page"} => b.op = "update") /\ Paged'
          BY <1>1, <1>2, <3>1 DEF Fits, Paged
        <5>2. RowsFit(c)'
          BY <1>2, <1>3, <4>3, <5>1 DEF RowsFit
        <5>3. c.step # "done"
          BY <3>1, <3>3, <4>3 DEF Free
        <5> QED BY <4>3, <5>1, <5>2, <5>3 DEF Fits
      <4> QED BY <3>1, <4>2, <4>3, <4>4, <4>5 DEF Queued
    <3> QED BY <3>2, <3>3
  <2>3. FetchUse' /\ RangeExact' /\ FetchComplete'
    BY <2>2, AllFit
  <2>4. LockUse'
    <3>1. \A u \in Tasks : (Queued(u)' <=> Queued(u)) /\ (call'[u].step = "get" => call[u].step = "get")
      BY <2>2 DEF Queued
    <3> QED BY <1>1, <1>2, <3>1 DEF LockUse, Once, Among
  <2>5. HistoryTypes'
    <3>1. call' \in [Tasks -> Calls]
      <4>1. \A u \in Tasks : call'[u] \in Calls
        BY <2>2
      <4> QED BY <2>1, <4>1
    <3>2. past' \in SUBSET Int /\ listed' \in BOOLEAN
      BY <1>1, <2>1 DEF HistoryTypes
    <3> QED BY <1>1, <1>2, <3>1, <3>2 DEF HistoryTypes
  <2> QED BY <1>4, <2>3, <2>4, <2>5 DEF HistoryInv
<1> QED BY <1>5, <1>6

-----------------------------------------------------------------------------
(* The theorems                                                            *)

LEMMA Starts == Init => HistoryInv
<1>1. SUFFICES ASSUME Init PROVE HistoryInv
  OBVIOUS
<1>2. /\ kind \in Kinds /\ now = Span[kind][1] /\ ahead \in Offsets /\ used \in SUBSET (0..LastHour) /\ log = << >> /\ pages = 0
      /\ past = {} /\ listed = FALSE /\ put = {} /\ entry = {} /\ value = {} /\ queue = << >>
      /\ call = [t \in Tasks |-> NoCall]
  BY <1>1 DEF Init
<1>3. NoCall \in Calls /\ NoCall.step = "idle"
  BY DEF NoCall, Calls, Steps
<1>4. HistoryTypes
  <2>1. now \in 0..LastHour /\ ahead \in Int /\ used \subseteq 0..LastHour
    <3>1. Span[kind] \in (0..LastHour) \X (0..LastHour)
      BY <1>2
    <3> QED BY <1>2, <3>1
  <2>2. log \in Seq(Days) /\ queue \in Seq(Tasks) /\ pages \in Nat
    BY <1>2
  <2>3. call \in [Tasks -> Calls]
    BY <1>2, <1>3
  <2>4. past \subseteq Int /\ put \subseteq Readers /\ entry \subseteq Int /\ value \subseteq Int
    BY <1>2
  <2> QED BY <1>2, <2>1, <2>2, <2>3, <2>4 DEF HistoryTypes
<1>5. \A t \in Tasks : call[t].step = "idle"
  BY <1>2, <1>3
<1>6. LockUse
  BY <1>2, <1>5 DEF LockUse, Queued, Once, Among
<1>7. DeviceUse
  <2>1. Pointer \in Nat
    BY <1>4, RowsAndPages
  <2> QED BY <1>2, <2>1 DEF DeviceUse
<1>8. FetchUse /\ RangeExact /\ FetchComplete
  BY <1>5 DEF FetchUse, RangeExact, FetchComplete, Returned, Updating, RowsFit, HoursFit
<1> QED BY <1>4, <1>6, <1>7, <1>8 DEF HistoryInv

\* The inductive invariant of the sensors of recordings: the queue of the lock,
\* the dictionary the calls share, what each call still looks for and what it
\* has returned fit together, whatever the device, the updates, the other calls
\* and clear_past_data() do meanwhile.
THEOREM HistoryInvariance == Spec => []HistoryInv
<1>1. ASSUME HistoryInv, [Next]_vars PROVE HistoryInv'
  <2>1. CASE Tick
    BY <1>1, <2>1, Ticking
  <2>2. ASSUME NEW d \in Days, StoreRow(d) PROVE HistoryInv'
    BY <1>1, <2>2, Storing
  <2>3. ASSUME NEW s \in Readers, ClearPastData(s) PROVE HistoryInv'
    BY <1>1, <2>3, Clearing
  <2>4. ASSUME NEW t \in Tasks,
               \/ \E r \in Ranges : FetchRange(t, r[1], r[2])
               \/ FetchAll(t) \/ Locked(t) \/ Update(t)
               \/ Answered(t) \/ FetchRaises(t) \/ UpdateRaises(t)
        PROVE  HistoryInv'
    BY <1>1, <2>4, Fetching, Locking, Updates, Reading, Raising DEF Answered
  <2>5. CASE UNCHANGED vars
    <3>1. UNCHANGED <<kind, now, ahead, used, log, pages, past, listed, put, entry, value, queue, call>>
      BY <2>5 DEF vars
    <3>2. HistoryTypes /\ DeviceUse /\ now \in Nat
      BY <1>1 DEF HistoryInv, HistoryTypes
    <3>3. (\A p : Rows(p)' = Rows(p)) /\ Reachable' = Reachable /\ Pointer' = Pointer /\ Day(now)' = Day(now)
      BY <3>1 DEF Rows, Reachable, FirstPage, Pointer, Day
    <3>4. LockUse' /\ FetchUse' /\ RangeExact' /\ FetchComplete'
      <4>1. Pointer' \in Nat /\ Pointer <= Pointer'
        BY <3>1, <3>2, PointerStays
      <4> QED BY <1>1, <3>1, <3>2, <3>3, <4>1, DeviceStep
    <3>5. HistoryTypes'
      BY <3>1, <3>2 DEF HistoryTypes, Calls
    <3>6. DeviceUse'
      BY <3>1, <3>2, <3>3 DEF DeviceUse
    <3> QED BY <3>4, <3>5, <3>6 DEF HistoryInv
  <2> QED BY <1>1, <2>1, <2>2, <2>3, <2>4, <2>5 DEF Next
<1> QED BY <1>1, Starts, PTL DEF Spec

\* fetch_range of a RecordingSensor returns hours of its own range alone, and
\* those that were recorded when it was called, up to the last day
\* (recording.py:84-109).
THEOREM RangeIsExact == Spec => []RangeExact
<1>1. HistoryInv => RangeExact
  BY DEF HistoryInv
<1> QED BY <1>1, HistoryInvariance, PTL

\* A fetch of days that came back with data throughout, and whose dictionary
\* nobody cleared, misses no row that was in reach when it was called
\* (energy.py:92-148, ecus_recording.py:66-92).
THEOREM FetchIsComplete == Spec => []FetchComplete
<1>1. HistoryInv => FetchComplete
  BY DEF HistoryInv
<1> QED BY <1>1, HistoryInvariance, PTL

-----------------------------------------------------------------------------
(* Updates find the newest record                                          *)

\* The hour before is one of the same day, or of the day before.
LEMMA HourBefore ==
  ASSUME NEW a \in Int
  PROVE  /\ a % Hours >= 1 => Day(a - 1) = Day(a)
         /\ ~(a % Hours >= 1) => Day(a - 1) = Day(a) - 1
         /\ ~(a % Hours >= 1) <=> a % Hours < 1
<1> DEFINE k == Hours
           q == a \div k
           r == a % k
           x == (a - 1) \div k
           y == (a - 1) % k
           d == q - x
<1>1. a = k * q + r /\ r \in 0..(k - 1) /\ q \in Int /\ k \in Nat \ {0}
  BY Euclid
<1>2. a - 1 = k * x + y /\ y \in 0..(k - 1) /\ x \in Int
  <2>1. a - 1 \in Int /\ k \in Nat \ {0}
    OBVIOUS
  <2> HIDE DEF k
  <2> QED BY <2>1, Euclid
<1>3. Day(a) = q /\ Day(a - 1) = x /\ a % Hours = r
  BY DEF Day
<1> HIDE DEF k, q, r, x, y
<1>4. k * d = 1 + y - r /\ d \in Int
  BY <1>1, <1>2
<1>5. d >= 2 => k * d >= k + k
  BY <1>1, <1>4
<1>6. d >= 1 => k * d >= k
  BY <1>1, <1>4
<1>7. d <= -1 => k * d <= -k
  BY <1>1, <1>4
<1>8. d = 0 => k * d = 0
  BY <1>1, <1>4
<1> HIDE DEF d
<1>9. d \in {0, 1}
  BY <1>1, <1>2, <1>4, <1>5, <1>7
<1>10. d = 0 <=> r >= 1
  BY <1>1, <1>2, <1>4, <1>6, <1>8, <1>9
<1> QED BY <1>1, <1>2, <1>3, <1>9, <1>10 DEF d

\* The page of a row is the newest one, or the one before, as long as there are
\* fewer rows after it than a page has.
LEMMA PageOfRow ==
  ASSUME NEW n \in Nat, NEW i \in 1..n, n - i < PageSize
  PROVE  (i - 1) \div PageSize \in {(n \div PageSize) - 1, n \div PageSize} /\ (i - 1) \div PageSize \in Nat
<1>1. n \div PageSize \in Nat /\ (i - 1) \div PageSize \in Nat /\ PageSize \in Nat \ {0}
  OBVIOUS
<1>2. \A a, b \in Int, k \in Nat \ {0} : a <= b => a \div k <= b \div k
  OBVIOUS
<1>3. (i - 1) \div PageSize <= n \div PageSize
  <2>1. i - 1 \in Int /\ n \in Int /\ i - 1 <= n
    OBVIOUS
  <2> QED BY <1>1, <1>2, <2>1
<1>4. n \div PageSize <= ((i - 1) \div PageSize) + 1
  <2>1. (i - 1) + PageSize \in Int /\ n <= (i - 1) + PageSize /\ n \in Int /\ i - 1 \in Int
    BY <1>1
  <2>2. ((i - 1) + PageSize) \div PageSize = ((i - 1) \div PageSize) + 1
    BY <1>1, <2>1, NextDayOf
  <2>3. n \div PageSize <= ((i - 1) + PageSize) \div PageSize
    BY <1>1, <1>2, <2>1
  <2> QED BY <2>2, <2>3
<1> QED BY <1>1, <1>3, <1>4

\* The loops leave a call where it reads, or where it is done.
LEMMA LoopsLeave ==
  ASSUME NEW c, "step" \in DOMAIN c, NEW p
  PROVE  /\ NextPage(c, p).step \in {"get", "done"} /\ NextDay(c, p).step \in {"get", "done"}
         /\ NextMissing(c, p).step \in {"get", "done"} /\ EndDay(c, p).step \in {"get", "done"}
<1>1. \A e, q : "step" \in DOMAIN e => NextMissing(e, q).step \in {"get", "done"}
  BY DEF NextMissing
<1>2. EndDay(c, p).step \in {"get", "done"}
  BY <1>1 DEF EndDay
<1> QED BY <1>1, <1>2 DEF NextPage, NextDay

LEMMA EntersOrEnds ==
  ASSUME NEW c, "step" \in DOMAIN c
  PROVE  Entered(c).step \in {"get", "done"}
<1>1. CASE c.op = "all"
  <2>1. CASE past # {}
    <3>1. Entered(c) = [c EXCEPT !.step = "done", !.out = past, !.clean = FALSE]
      BY <1>1, <2>1 DEF Entered
    <3> QED BY <3>1
  <2>2. CASE past = {}
    <3>1. PICK d : d = [c EXCEPT !.todo = IF kind = "ecus" THEN 1..pages ELSE 0..pages - 1,
                                 !.known = @ \cap Reachable]
      OBVIOUS
    <3>2. Entered(c) = NextPage(d, past) /\ "step" \in DOMAIN d
      BY <1>1, <2>2, <3>1 DEF Entered
    <3> QED BY <3>2, LoopsLeave
  <2> QED BY <2>1, <2>2
<1>2. CASE c.op # "all"
  <2>1. PICK d : d = [c EXCEPT !.at = c.from]
    OBVIOUS
  <2>2. Entered(c) \in {NextMissing(d, past), NextDay(d, {})} /\ "step" \in DOMAIN d
    BY <1>2, <2>1 DEF Entered
  <2> QED BY <2>2, LoopsLeave
<1> QED BY <1>1, <1>2

LEMMA ResultStep ==
  ASSUME NEW n, n.step \in {"get", "done"}
  PROVE  WithResult(n).step \in {"get", "done"}
<1>1. Finished(n).step = "done"
  BY DEF Finished, NoCall
<1> QED BY <1>1 DEF WithResult

\* What is no step of an update leaves the record alone.
LEMMA NoUpdateBegins ==
  ASSUME HistoryInv, NEW t \in Tasks,
         \/ FetchAll(t) \/ (\E r \in Ranges : FetchRange(t, r[1], r[2])) \/ Locked(t)
         \/ Fetched(t) \/ FetchRaises(t) \/ UpdateRaises(t)
  PROVE  /\ \E d : d.step \notin {"pointer", "page"} /\ (Updating(t) => d.step # "done")
                   /\ call' = [Calling EXCEPT ![t] = d]
         /\ UNCHANGED <<deviceVars, entry, value>>
<1>1. call[t] \in Calls /\ NoCall.step = "idle" /\ "step" \in DOMAIN NoCall /\ "step" \in DOMAIN call[t]
  BY Found DEF NoCall, Calls
<1>2. ASSUME NEW n, n.step \in {"get", "done"}, call' = [Calling EXCEPT ![t] = WithResult(n)], ~Updating(t)
      PROVE  \E d : d.step \notin {"pointer", "page"} /\ (Updating(t) => d.step # "done") /\ call' = [Calling EXCEPT ![t] = d]
  <2>1. PICK d : d = WithResult(n) /\ d.step \in {"get", "done"}
    BY <1>2, ResultStep
  <2> QED BY <1>2, <2>1
<1>3. ASSUME Free(t), NEW c, "step" \in DOMAIN c, Acquire(t, c)
      PROVE  \E d : d.step \notin {"pointer", "page"} /\ (Updating(t) => d.step # "done") /\ call' = [Calling EXCEPT ![t] = d]
  <2>1. ~Updating(t)
    BY <1>3 DEF Free, Updating
  <2>2. CASE queue = << >>
    BY <1>2, <1>3, <2>1, <2>2, EntersOrEnds DEF Acquire
  <2>3. CASE queue # << >>
    <3>1. PICK d : d = [c EXCEPT !.step = "wait"]
      OBVIOUS
    <3> QED BY <1>3, <2>1, <2>3, <3>1 DEF Acquire
  <2> QED BY <2>2, <2>3
<1>4. CASE FetchAll(t)
  <2>1. PICK c : c = [NoCall EXCEPT !.op = "all", !.known = Reachable]
    OBVIOUS
  <2>2. Free(t) /\ Acquire(t, c) /\ UNCHANGED <<deviceVars, entry, value>>
    BY <1>4, <2>1 DEF FetchAll
  <2>3. "step" \in DOMAIN c
    BY <1>1, <2>1
  <2> QED BY <1>3, <2>2, <2>3
<1>5. ASSUME NEW r \in Ranges, FetchRange(t, r[1], r[2])
      PROVE  /\ \E d : d.step \notin {"pointer", "page"} /\ (Updating(t) => d.step # "done")
                       /\ call' = [Calling EXCEPT ![t] = d]
             /\ UNCHANGED <<deviceVars, entry, value>>
  <2>1. PICK c : c = [NoCall EXCEPT !.op = "range", !.from = r[1], !.to = r[2]]
    OBVIOUS
  <2>2. PICK hours : hours = [c EXCEPT !.known = {s \in used : s < now /\ r[1] <= s /\ s < r[2]}]
    OBVIOUS
  <2>4. "step" \in DOMAIN c /\ "step" \in DOMAIN hours
    BY <1>1, <2>1, <2>2
  <2>5. /\ Free(t) /\ UNCHANGED <<deviceVars, entry, value>>
        /\ \/ Acquire(t, hours)
           \/ \E S : Acquire(t, [c EXCEPT !.known = Reachable \cap S, !.find = S])
           \/ call' = [Calling EXCEPT ![t] = Finished(c)]
    BY <1>5, <2>1, <2>2 DEF FetchRange
  <2>6. Finished(c).step = "done" /\ ~Updating(t)
    BY <2>5 DEF Finished, NoCall, Free, Updating
  <2>7. CASE call' = [Calling EXCEPT ![t] = Finished(c)]
    BY <2>5, <2>6, <2>7
  <2>8. ASSUME NEW S, Acquire(t, [c EXCEPT !.known = Reachable \cap S, !.find = S])
        PROVE  \E d : d.step \notin {"pointer", "page"} /\ (Updating(t) => d.step # "done")
                     /\ call' = [Calling EXCEPT ![t] = d]
    <3>1. PICK days : days = [c EXCEPT !.known = Reachable \cap S, !.find = S]
      OBVIOUS
    <3>2. "step" \in DOMAIN days
      BY <2>4, <3>1
    <3> QED BY <1>3, <2>5, <2>8, <3>1, <3>2
  <2> QED BY <1>3, <2>4, <2>5, <2>7, <2>8
<1>6. CASE Locked(t)
  <2>1. /\ call' = [Calling EXCEPT ![t] = WithResult(Entered(call[t]))] /\ ~Updating(t)
        /\ UNCHANGED <<deviceVars, entry, value>>
    BY <1>6 DEF Locked, Updating
  <2>2. PICK n : n = Entered(call[t]) /\ n.step \in {"get", "done"}
    BY <1>1, EntersOrEnds
  <2>3. PICK d : d = WithResult(n) /\ d.step \in {"get", "done"}
    BY <2>2, ResultStep
  <2> QED BY <2>1, <2>2, <2>3
<1>7. ASSUME Raised(t)
      PROVE  /\ \E d : d.step \notin {"pointer", "page"} /\ (Updating(t) => d.step # "done")
                       /\ call' = [Calling EXCEPT ![t] = d]
             /\ UNCHANGED <<deviceVars, entry, value>>
  BY <1>1, <1>7 DEF Raised
<1>8. ASSUME ~Updating(t), NEW n, n.step \in {"get", "done"}, NEW p, GoOn(t, n, p)
      PROVE  /\ \E d : d.step \notin {"pointer", "page"} /\ (Updating(t) => d.step # "done")
                       /\ call' = [Calling EXCEPT ![t] = d]
             /\ UNCHANGED <<deviceVars, entry, value>>
  <2>1. call' = [Calling EXCEPT ![t] = WithResult(n)] /\ UNCHANGED <<deviceVars, entry, value>>
    BY <1>8 DEF GoOn
  <2>2. PICK d : d = WithResult(n) /\ d.step \in {"get", "done"}
    BY <1>8, ResultStep
  <2> QED BY <1>8, <2>1, <2>2
<1>9. CASE Fetched(t)
  <2>1. call[t].step = "get" /\ ~Updating(t)
    BY <1>9 DEF Fetched, GotRows, GotDay, GotNothing, Updating
  <2>2. PICK c : c = call[t] /\ "step" \in DOMAIN c /\ c.step = "get"
    BY <1>1, <2>1
  <2>3. CASE GotRows(t)
    <3>1. PICK p : p = Page(c)
      OBVIOUS
    <3>2. PICK R \in {Rows(p), {}} :
            LET kept == past \cup R
                left == [c EXCEPT !.todo = @ \ {p}, !.find = @ \ R, !.clean = @ /\ R = Rows(p)]
                more == [left EXCEPT !.read = @ \cup {p}]
                next == IF left.find = {} THEN EndDay(left, kept)
                        ELSE IF left.todo = {} THEN EndDay(more, kept) ELSE more
            IN IF listed /\ R # {} THEN Raised(t)
               ELSE GoOn(t, IF c.op = "all" THEN NextPage(left, kept) ELSE next, kept)
      BY <2>2, <2>3, <3>1 DEF GotRows
    <3>3. CASE listed /\ R # {}
      BY <1>7, <3>2, <3>3
    <3>4. CASE ~(listed /\ R # {})
      <4>1. PICK left : left = [c EXCEPT !.todo = @ \ {p}, !.find = @ \ R, !.clean = @ /\ R = Rows(p)]
        OBVIOUS
      <4>2. PICK kept, more : kept = past \cup R /\ more = [left EXCEPT !.read = @ \cup {p}]
        OBVIOUS
      <4>3. PICK n : n = IF c.op = "all" THEN NextPage(left, kept)
                         ELSE IF left.find = {} THEN EndDay(left, kept)
                         ELSE IF left.todo = {} THEN EndDay(more, kept) ELSE more
        OBVIOUS
      <4>4. GoOn(t, n, kept)
        BY <3>2, <3>4, <4>1, <4>2, <4>3
      <4>5. "step" \in DOMAIN left /\ "step" \in DOMAIN more /\ more.step = "get"
        BY <2>2, <4>1, <4>2
      <4>6. n.step \in {"get", "done"}
        BY <4>3, <4>5, LoopsLeave
      <4> QED BY <1>8, <2>1, <4>4, <4>6
    <3> QED BY <3>3, <3>4
  <2>5. CASE GotDay(t)
    <3>1. PICK kept : kept = past \cup {s \in Recorded(Day(c.at)) : c.from <= s /\ s <= c.to}
      OBVIOUS
    <3>2. PICK d, e : /\ d = [c EXCEPT !.at = @ + Hours]
                      /\ e = [c EXCEPT !.at = @ + Hours, !.known = {s \in c.known : Day(s) # Day(c.at)}]
      OBVIOUS
    <3>3. GoOn(t, NextDay(d, kept), kept) \/ GoOn(t, NextDay(e, past), past)
      BY <2>2, <2>5, <3>1, <3>2 DEF GotDay
    <3>4. "step" \in DOMAIN d /\ "step" \in DOMAIN e
      BY <2>2, <3>2
    <3>5. CASE GoOn(t, NextDay(d, kept), kept)
      BY <1>8, <2>1, <3>4, <3>5, LoopsLeave
    <3>6. CASE GoOn(t, NextDay(e, past), past)
      BY <1>8, <2>1, <3>4, <3>6, LoopsLeave
    <3> QED BY <3>3, <3>5, <3>6
  <2>6. CASE GotNothing(t)
    <3>1. PICK left : left = [c EXCEPT !.clean = FALSE, !.todo = @ \ {Page(c)}]
      OBVIOUS
    <3>2. PICK same : same = [c EXCEPT !.clean = FALSE]
      OBVIOUS
    <3>3. PICK gone : gone = [c EXCEPT !.clean = FALSE, !.step = "done"]
      OBVIOUS
    <3>4. PICK n : n = CASE kind = "recording" -> same
                         [] Paged /\ c.op = "all" -> gone
                         [] OTHER -> IF left.todo = {} THEN EndDay(left, past) ELSE left
      OBVIOUS
    <3>5. GoOn(t, n, past)
      BY <2>2, <2>6, <3>1, <3>2, <3>3, <3>4 DEF GotNothing
    <3>6. /\ "step" \in DOMAIN left /\ left.step = "get"
          /\ same.step = "get" /\ gone.step = "done"
      BY <2>2, <3>1, <3>2, <3>3
    <3>7. n \in {same, gone, left, EndDay(left, past)}
      BY <3>4 DEF Paged
    <3>8. n.step \in {"get", "done"}
      BY <3>6, <3>7, LoopsLeave
    <3> QED BY <1>8, <2>1, <3>5, <3>8
  <2> QED BY <1>9, <2>3, <2>5, <2>6 DEF Fetched
<1> QED BY <1>4, <1>5, <1>6, <1>7, <1>9 DEF FetchRaises, UpdateRaises

\* Nothing that happens beside it takes from an update what it should find.
LEMMA UpdateWaits ==
  ASSUME HistoryTypes, UpdateUse, HistoryTypes', RowsInOrder',
         UNCHANGED <<kind, used, entry, value>>, now <= now',
         \A p : Rows(p) \subseteq Rows(p)', ToSet(log) \subseteq ToSet(log'),
         \A u \in Tasks : Updating(u)' =>
           Updating(u) /\ (call'[u] = call[u] \/ call'[u] = [call[u] EXCEPT !.clean = FALSE])
  PROVE  UpdateUse'
<1>1. \A c : Recorded(c) \subseteq Recorded(c)'
  <2>1. used \subseteq Int /\ now \in Int /\ now' \in Int
    BY DEF HistoryTypes
  <2>2. \A s \in used : s <= now => s <= now'
    BY <2>1
  <2> QED BY <2>2 DEF Recorded, Day
<1>2. PICK m \in Int, n \in Int : m = now /\ n = now' /\ m <= n
  BY DEF HistoryTypes
<1>3. \A a \in Int : Day(now') - a <= PageSize => Day(now) - a <= PageSize
  <2>1. Day(m) \in Int /\ Day(n) \in Int /\ Day(m) <= Day(n)
    BY <1>2, DaysFollow
  <2>2. \A a \in Int : Day(n) - a <= PageSize => Day(m) - a <= PageSize
    BY <2>1
  <2> QED BY <1>2, <2>2
<1>4. ASSUME NEW c \in Calls, UpdateFits(c) PROVE UpdateFits(c)'
  <2>1. Paged' <=> Paged
    BY DEF Paged
  <2>2. c.known \subseteq IF Paged' THEN {c.at} \cap ToSet(log') ELSE Recorded(c.at)'
    BY <1>1, <1>4, <2>1 DEF UpdateFits
  <2>3. ASSUME Paged', c.step = "page", c.clean, InTime(c)'
        PROVE  c.known \subseteq entry' \cap value' \/ \E p \in c.todo : c.known \subseteq Rows(p)'
    <3>1. c.at \in Int
      BY DEF Calls
    <3>2. InTime(c)
      BY <1>3, <2>3, <3>1 DEF InTime, Day
    <3> QED BY <1>4, <2>1, <2>3, <3>2 DEF UpdateFits
  <2> QED BY <2>2, <2>3 DEF UpdateFits, Recorded
<1>5. ASSUME NEW u \in Tasks, Updating(u)' PROVE UpdateFits(call[u])'
  <2>1. PICK b \in Calls : b = call[u] /\ UpdateFits(b)
    BY <1>5 DEF UpdateUse, HistoryTypes
  <2>2. PICK e \in Calls : e = [b EXCEPT !.clean = FALSE]
    BY Edits
  <2>3. e.clean = FALSE /\ e.known = b.known /\ e.at = b.at
    BY <2>1, <2>2 DEF Calls
  <2>4. UpdateFits(e)
    BY <2>1, <2>3 DEF UpdateFits
  <2>5. call'[u] \in {b, e}
    BY <1>5, <2>1, <2>2
  <2>6. UpdateFits(b)' /\ UpdateFits(e)'
    BY <1>4, <2>1, <2>4
  <2> QED BY <2>5, <2>6 DEF UpdateFits, InTime
<1> QED BY <1>5 DEF UpdateUse

\* The task that updates goes on as d, the others as they were.
LEMMA UpdateGoes ==
  ASSUME HistoryInv, UpdateUse, NEW t \in Tasks, Updating(t) \/ \A u \in Tasks : ~Updating(u),
         UNCHANGED deviceVars, NEW d, call' = [Calling EXCEPT ![t] = d],
         d.step \in {"pointer", "page"} => UpdateFits(d)'
  PROVE  UpdateUse'
<1>1. call \in [Tasks -> Calls] /\ NoCall.step = "idle"
  BY DEF HistoryInv, HistoryTypes, NoCall
<1>2. RowsInOrder'
  BY DEF deviceVars, UpdateUse, RowsInOrder
<1>3. ASSUME NEW u \in Tasks \ {t} PROVE ~Updating(u)'
  <2>1. call'[u] = IF Free(u) THEN NoCall ELSE call[u]
    BY <1>1 DEF Calling
  <2>2. ~Updating(u)
    BY DEF UpdateUse
  <2> QED BY <1>1, <2>1, <2>2 DEF Updating
<1>4. call'[t] = d
  BY <1>1 DEF Calling
<1>5. Updating(t)' => UpdateFits(call[t])'
  BY <1>4 DEF Updating, UpdateFits, InTime
<1> QED BY <1>2, <1>3, <1>5 DEF UpdateUse

\* A row that an update looks for is on one of its two pages.
LEMMA LatestHasRow ==
  ASSUME HistoryTypes, DeviceUse, RowsInOrder, Paged, NEW y \in Int, y \in ToSet(log),
         Day(now) - y <= PageSize
  PROVE  \E p \in LatestPages(Pointer) : y \in Rows(p)
<1> DEFINE n == Len(log)
           q == n \div PageSize
<1>1. /\ n \in Nat /\ DOMAIN log = 1..n /\ \A i \in 1..n : log[i] \in Int
      /\ PageSize \in Nat \ {0} /\ Day(now) \in Int /\ q \in Nat
  <2>1. \A d \in Days : d \in Int
    BY DEF Days
  <2>2. now \in Int /\ log \in Seq(Days)
    BY DEF HistoryTypes
  <2>3. Day(now) \in Int
    BY <2>2, DaysFollow
  <2>4. n \in Nat /\ DOMAIN log = 1..n /\ \A i \in 1..n : log[i] \in Days
    BY <2>2
  <2>5. PageSize \in Nat \ {0} /\ q \in Nat
    BY <2>4
  <2> QED BY <2>1, <2>3, <2>4, <2>5
<1>2. PICK i \in 1..n : log[i] = y
  BY <1>1 DEF ToSet
<1>3. n - i < PageSize
  <2>1. n \in 1..Len(log) /\ i \in 1..Len(log) /\ i <= n
    BY <1>1, <1>2
  <2>2. n - i <= log[n] - log[i]
    <3> HIDE DEF n
    <3> QED BY <2>1 DEF RowsInOrder
  <2>3. log[n] < Day(now) /\ log[n] \in Int
    <3> HIDE DEF n
    <3> QED BY <1>1, <2>1 DEF DeviceUse
  <2> QED BY <1>1, <1>2, <2>2, <2>3
<1>4. PICK r \in Nat : r = (i - 1) \div PageSize /\ r \in {q - 1, q}
  BY <1>1, <1>3, PageOfRow
<1>5. y \in Rows(r + FirstPage)
  BY <1>1, <1>2, <1>4 DEF Rows
<1>6. Pointer = q + 1
  BY DEF Pointer
<1> HIDE DEF q, n
<1>7. CASE kind = "energy"
  <2>1. Pointer - 2 = q - 1 /\ Pointer - 1 = q /\ r + FirstPage = r
    BY <1>1, <1>4, <1>6, <1>7 DEF FirstPage
  <2> QED BY <1>4, <1>5, <1>7, <2>1 DEF LatestPages
<1>8. CASE kind = "ecus"
  <2>1. Pointer - 1 = q /\ r + FirstPage = r + 1 /\ r + 1 \in {q, q + 1} /\ r + 1 # 0
    BY <1>1, <1>4, <1>6, <1>8 DEF FirstPage
  <2> QED BY <1>5, <1>6, <1>8, <2>1 DEF LatestPages
<1> QED BY <1>7, <1>8 DEF Paged

LEMMA UpdateBegins ==
  ASSUME HistoryInv, UpdateUse, NEW t \in Tasks, Update(t)
  PROVE  UpdateUse'
<1>1. PICK s, a, K : /\ s = IF Paged THEN "pointer" ELSE "page"
                     /\ a = IF Paged \/ (now + ahead) % Hours < 1 THEN Day(now + ahead) - 1 ELSE Day(now + ahead)
                     /\ K = IF Paged THEN {Day(now + ahead) - 1} \cap ToSet(log)
                            ELSE {x \in used : x = now - 1 /\ Day(x) = Day(x + ahead)}
  OBVIOUS
<1>2. PICK d : d = [NoCall EXCEPT !.op = "update", !.step = s, !.at = a, !.known = K]
  OBVIOUS
<1>3. /\ call' = [Calling EXCEPT ![t] = d] /\ \A u \in Tasks : ~Updating(u)
      /\ UNCHANGED deviceVars
  BY <1>1, <1>2 DEF Update
<1>4. d.step = s /\ d.at = a /\ d.known = K
  BY <1>2 DEF NoCall
<1>5. kind' = kind /\ log' = log /\ used' = used /\ now' = now /\ (Paged' <=> Paged)
  BY <1>3 DEF deviceVars, Paged
<1>6. K \subseteq IF Paged THEN {a} \cap ToSet(log) ELSE Recorded(a)
  <2>1. CASE Paged
    BY <1>1, <2>1
  <2>2. CASE ~Paged
    <3>1. PICK m \in Int : m = now + ahead /\ now \in Int /\ ahead \in Int
      BY DEF HistoryInv, HistoryTypes
    <3>2. Day(m - 1) = a
      BY <1>1, <2>2, <3>1, HourBefore
    <3>3. \A x \in K : x \in used /\ x = now - 1 /\ Day(x) = Day(x + ahead)
      BY <1>1, <2>2
    <3>4. \A x \in K : x <= now /\ Day(x) = a
      <4>1. (now - 1) + ahead = m - 1
        BY <3>1
      <4> QED BY <3>1, <3>2, <3>3, <4>1
    <3> QED BY <2>2, <3>3, <3>4 DEF Recorded
  <2> QED BY <2>1, <2>2
<1>7. UpdateFits(d)'
  BY <1>1, <1>4, <1>5, <1>6 DEF UpdateFits, Recorded
<1> QED BY <1>3, <1>7, UpdateGoes

\* A step of an update: it goes on fitting, and when it returns after answers
\* to every request, what it should find is in the record.
LEMMA UpdateSteps ==
  ASSUME HistoryInv, UpdateUse, NEW t \in Tasks,
         GotPointer(t) \/ NoPointer(t) \/ GotUpdate(t) \/ NoUpdate(t) \/ UpdateSwallows(t)
  PROVE  /\ UpdateUse'
         /\ call'[t].step = "done" /\ call'[t].clean /\ (Paged => InTime(call[t])) =>
              call[t].known \subseteq value' /\ (Paged => call[t].known \subseteq entry')
<1> DEFINE Finds(d) == d.step = "done" /\ d.clean /\ (Paged => InTime(call[t])) =>
                         call[t].known \subseteq value' /\ (Paged => call[t].known \subseteq entry')
<1>1. PICK c \in Calls : c = call[t] /\ c.step \in {"pointer", "page"} /\ UpdateFits(c)
  BY DEF HistoryInv, HistoryTypes, UpdateUse, Updating, GotPointer, NoPointer, GotUpdate, NoUpdate, UpdateSwallows
<1>2. Updating(t) /\ HistoryTypes /\ DeviceUse /\ call \in [Tasks -> Calls]
  BY <1>1 DEF HistoryInv, HistoryTypes, Updating
<1>3. UNCHANGED deviceVars
  BY DEF GotPointer, NoPointer, UpdatePages, GotUpdate, NoUpdate, UpdateSwallows
<1>4. /\ kind' = kind /\ log' = log /\ used' = used /\ now' = now /\ (Paged' <=> Paged)
      /\ (\A p : Rows(p)' = Rows(p)) /\ (\A p : Recorded(p)' = Recorded(p))
  BY <1>3 DEF deviceVars, Paged, Rows, Recorded, FirstPage
<1>5. SUFFICES \E d : /\ call' = [Calling EXCEPT ![t] = d] /\ Finds(d)
                      /\ d.step \in {"pointer", "page"} => UpdateFits(d)'
  <2>1. PICK d : /\ call' = [Calling EXCEPT ![t] = d] /\ Finds(d)
                 /\ d.step \in {"pointer", "page"} => UpdateFits(d)'
    BY <1>5
  <2>2. call'[t] = d
    BY <1>2, <2>1 DEF Calling
  <2>3. UpdateUse'
    BY <1>2, <1>3, <2>1, UpdateGoes
  <2> QED BY <2>1, <2>2, <2>3
<1> HIDE DEF Finds
<1>6. PICK e \in Calls : e = [c EXCEPT !.clean = FALSE]
  BY Edits
<1>7. e.step = c.step /\ e.known = c.known /\ e.at = c.at /\ e.clean = FALSE
  BY <1>6 DEF Calls
\* With a request that was not answered, there is nothing to show.
<1>8. ASSUME NEW d, d.clean = FALSE, d.known = c.known, d.at = c.at
      PROVE  Finds(d) /\ UpdateFits(d)'
  <2>1. Finds(d)
    BY <1>8 DEF Finds
  <2>2. UpdateFits(d)'
    BY <1>1, <1>4, <1>8 DEF UpdateFits
  <2> QED BY <2>1, <2>2
<1>9. ASSUME NEW d, d = Finished(e)
      PROVE  Finds(d) /\ d.step = "done"
  <2>1. d.clean = FALSE /\ d.step = "done"
    BY <1>7, <1>9 DEF Finished, NoCall
  <2> QED BY <2>1 DEF Finds
<1>10. ASSUME NEW T, NEW s, NEW d, d = [e EXCEPT !.step = s, !.todo = T]
       PROVE  Finds(d) /\ UpdateFits(d)'
  <2>1. d.clean = FALSE /\ d.known = c.known /\ d.at = c.at
    BY <1>7, <1>10 DEF Calls
  <2> QED BY <1>8, <2>1
<1>11. ASSUME NEW T, NEW d, d = [e EXCEPT !.todo = T]
       PROVE  Finds(d) /\ UpdateFits(d)'
  <2>1. d.clean = FALSE /\ d.known = c.known /\ d.at = c.at
    BY <1>7, <1>11 DEF Calls
  <2> QED BY <1>8, <2>1
<1>12. CASE GotPointer(t)
  <2>1. PICK n \in Nat : n = Pointer /\ n # 0 /\ n > 0
    <3>1. \A a \in Nat, k \in Nat \ {0} : (a \div k) + 1 \in Nat \ {0}
      OBVIOUS
    <3>2. Len(log) \in Nat
      BY <1>2 DEF HistoryTypes
    <3> QED BY <3>1, <3>2 DEF Pointer
  <2>2. PICK d : d = [c EXCEPT !.step = "page", !.todo = LatestPages(n)]
    OBVIOUS
  <2>3. call' = [Calling EXCEPT ![t] = d]
    BY <1>1, <1>12, <2>1, <2>2 DEF GotPointer, UpdatePages
  <2>4. d.step = "page" /\ d.known = c.known /\ d.at = c.at /\ d.todo = LatestPages(n)
    BY <2>2 DEF Calls
  <2>5. ASSUME Paged, InTime(c) PROVE \E p \in LatestPages(n) : c.known \subseteq Rows(p)
    <3>1. CASE c.known = {}
      <4>1. n \in LatestPages(n) \/ n - 1 \in LatestPages(n)
        BY <2>1 DEF LatestPages
      <4> QED BY <3>1, <4>1
    <3>2. CASE c.known # {}
      <4>1. c.known = {c.at} /\ c.at \in ToSet(log) /\ c.at \in Int
        BY <1>1, <2>5, <3>2 DEF UpdateFits, Calls
      <4>2. \E p \in LatestPages(n) : c.at \in Rows(p)
        BY <1>2, <2>1, <2>5, <4>1, LatestHasRow DEF InTime, UpdateUse
      <4> QED BY <4>1, <4>2
    <3> QED BY <3>1, <3>2
  <2>6. UpdateFits(d)'
    <3>1. InTime(d)' <=> InTime(c)
      BY <1>4, <2>4 DEF InTime, Day
    <3> QED BY <1>1, <1>4, <2>4, <2>5, <3>1 DEF UpdateFits
  <2>7. Finds(d)
    BY <2>4 DEF Finds
  <2> QED BY <2>3, <2>6, <2>7
<1>13. CASE NoPointer(t)
  <2>1. PICK n : UpdatePages(t, e, n)
    BY <1>1, <1>6, <1>13 DEF NoPointer
  <2>2. PICK d, f : d = Finished(e) /\ f = [e EXCEPT !.step = "page", !.todo = LatestPages(n)]
    OBVIOUS
  <2>3. call' = [Calling EXCEPT ![t] = d] \/ call' = [Calling EXCEPT ![t] = f]
    BY <2>1, <2>2 DEF UpdatePages
  <2> QED BY <1>9, <1>10, <2>2, <2>3
<1>14. CASE NoUpdate(t)
  <2>1. PICK left : left = IF Paged THEN e.todo \ {Page(e)} ELSE {}
    OBVIOUS
  <2>2. PICK d, f : d = Finished(e) /\ f = [e EXCEPT !.todo = left]
    OBVIOUS
  <2>3. call' = [Calling EXCEPT ![t] = d] \/ call' = [Calling EXCEPT ![t] = f]
    BY <1>1, <1>6, <1>14, <2>1, <2>2 DEF NoUpdate
  <2> QED BY <1>9, <1>11, <2>2, <2>3
<1>15. CASE UpdateSwallows(t)
  <2>1. PICK d : d = Finished(e)
    OBVIOUS
  <2>2. Calling[t] = c
    BY <1>1, <1>2 DEF Calling, Free
  <2>3. call' = [Calling EXCEPT ![t] = d]
    BY <1>6, <1>15, <2>1, <2>2 DEF UpdateSwallows
  <2> QED BY <1>9, <2>1, <2>3
<1>16. CASE GotUpdate(t) /\ ~Paged
  <2>1. PICK interval : /\ value' = Record(c.at, interval)
                        /\ call' = [Calling EXCEPT ![t] = Finished([c EXCEPT !.clean = @ /\ interval = c.at])]
    BY <1>1, <1>16 DEF GotUpdate
  <2>2. PICK g, d : g = [c EXCEPT !.clean = @ /\ interval = c.at] /\ d = Finished(g)
    OBVIOUS
  <2>3. d.step = "done" /\ d.clean = g.clean
    BY <2>2 DEF Finished, NoCall
  <2>4. g.clean = (c.clean /\ interval = c.at)
    BY <2>2 DEF Calls
  <2>5. d.clean => value' = Recorded(c.at)
    BY <2>1, <2>3, <2>4 DEF Record
  <2>6. Finds(d)
    BY <1>1, <1>16, <2>5 DEF Finds, UpdateFits
  <2> QED BY <2>1, <2>2, <2>3, <2>6
<1>17. CASE GotUpdate(t) /\ Paged
  <2>1. PICK p, y : p = Page(c) /\ y = c.at
    OBVIOUS
  <2>2. PICK seen : seen = {d \in Rows(p) : y \in Rows(p) => d >= y}
    OBVIOUS
  <2>3. PICK left : left = IF y \in Rows(p) /\ kind = "ecus" THEN {} ELSE c.todo \ {p}
    OBVIOUS
  <2>4. /\ c.step = "page" /\ entry' = entry \cup seen
        /\ value' = (IF y \in Rows(p) THEN {y} ELSE value)
        /\ call' = [Calling EXCEPT ![t] = IF left = {} THEN Finished(c) ELSE [c EXCEPT !.todo = left]]
    BY <1>1, <1>17, <2>1, <2>2, <2>3 DEF GotUpdate
  <2>5. y \in Int /\ c.known \subseteq {y}
    BY <1>1, <1>17, <2>1 DEF UpdateFits, Calls
  <2>6. ASSUME c.clean, InTime(c)
        PROVE  c.known \subseteq entry' \cap value' \/ \E q \in left : c.known \subseteq Rows(q)
    <3>1. CASE y \in Rows(p)
      <4>1. y \in seen /\ value' = {y}
        BY <2>2, <2>4, <2>5, <3>1
      <4> QED BY <2>4, <2>5, <4>1
    <3>2. CASE y \notin Rows(p)
      <4>1. value' = value /\ entry \subseteq entry' /\ left = c.todo \ {p}
        BY <2>3, <2>4, <3>2
      <4>2. c.known \subseteq entry \cap value \/ \E q \in c.todo : c.known \subseteq Rows(q)
        BY <1>1, <1>17, <2>4, <2>6 DEF UpdateFits
      <4>3. c.known = {} \/ ~(c.known \subseteq Rows(p))
        BY <2>5, <3>2
      <4> QED BY <4>1, <4>2, <4>3
    <3> QED BY <3>1, <3>2
  <2>7. CASE left = {}
    <3>1. PICK d : d = Finished(c)
      OBVIOUS
    <3>2. d.step = "done" /\ d.clean = c.clean
      BY <3>1 DEF Finished, NoCall
    <3>3. Finds(d)
      BY <1>1, <1>17, <2>6, <2>7, <3>2 DEF Finds
    <3> QED BY <2>4, <2>7, <3>1, <3>2, <3>3
  <2>8. CASE left # {}
    <3>1. PICK d : d = [c EXCEPT !.todo = left]
      OBVIOUS
    <3>2. d.step = "page" /\ d.clean = c.clean /\ d.known = c.known /\ d.at = c.at /\ d.todo = left
      BY <2>4, <3>1 DEF Calls
    <3>3. InTime(d)' <=> InTime(c)
      BY <1>4, <3>2 DEF InTime, Day
    <3>4. UpdateFits(d)'
      BY <1>1, <1>4, <2>6, <3>2, <3>3 DEF UpdateFits
    <3>5. Finds(d)
      BY <3>2 DEF Finds
    <3> QED BY <2>4, <2>8, <3>1, <3>4, <3>5
  <2> QED BY <2>7, <2>8
<1> QED BY <1>12, <1>13, <1>14, <1>15, <1>16, <1>17

LEMMA RowStored ==
  ASSUME HistoryInv, UpdateUse, NEW d \in Days, StoreRow(d)
  PROVE  UpdateUse'
<1>1. /\ log' = Append(log, d) /\ \A i \in DOMAIN log : log[i] < d
      /\ UNCHANGED <<kind, now, ahead, used, pages, past, listed, put, entry, value, queue, call>>
  BY DEF StoreRow
<1>2. HistoryTypes /\ HistoryTypes' /\ RowsInOrder /\ log \in Seq(Days) /\ \A e \in Days : e \in Int
  <2>1. HistoryInv'
    BY Storing
  <2> QED BY <2>1 DEF HistoryInv, HistoryTypes, UpdateUse, Days
<1> DEFINE n == Len(log)
<1>3. /\ n \in Nat /\ DOMAIN log = 1..n /\ DOMAIN log' = 1..n + 1 /\ Len(log') = n + 1
      /\ log'[n + 1] = d /\ \A i \in 1..n : log'[i] = log[i] /\ log[i] \in Days
  BY <1>1, <1>2
<1> HIDE DEF n
<1>4. RowsInOrder'
  <2>1. ASSUME NEW i \in 1..n + 1, NEW j \in 1..n + 1, i <= j
        PROVE  j - i <= log'[j] - log'[i]
    <3>1. CASE j \in 1..n
      <4>1. i \in 1..n
        BY <1>3, <2>1, <3>1
      <4> QED BY <1>2, <1>3, <2>1, <3>1, <4>1 DEF RowsInOrder, n
    <3>2. CASE i = n + 1
      <4>1. j = n + 1 /\ d \in Int
        BY <1>2, <1>3, <2>1, <3>2
      <4> QED BY <1>3, <3>2, <4>1
    <3>3. CASE i \in 1..n /\ j = n + 1
      <4>1. n \in 1..n /\ i <= n
        BY <1>3, <3>3
      <4>2. n - i <= log[n] - log[i]
        BY <1>2, <3>3, <4>1 DEF RowsInOrder, n
      <4>3. log[n] < d /\ log[n] \in Int /\ log[i] \in Int /\ d \in Int
        BY <1>1, <1>2, <1>3, <3>3, <4>1
      <4>4. log'[j] = d /\ log'[i] = log[i]
        BY <1>3, <3>3
      <4> QED BY <1>3, <3>3, <4>2, <4>3, <4>4
    <3> QED BY <1>3, <3>1, <3>2, <3>3
  <2> QED BY <1>3, <2>1 DEF RowsInOrder
<1>5. \A p : Rows(p) \subseteq Rows(p)'
  BY <1>1, <1>3 DEF Rows, FirstPage
<1>6. ToSet(log) \subseteq ToSet(log')
  BY <1>3 DEF ToSet
<1>7. now <= now'
  BY <1>1, <1>2 DEF HistoryTypes
<1> QED BY <1>1, <1>2, <1>4, <1>5, <1>6, <1>7, UpdateWaits DEF Updating

LEMMA UpdateStep ==
  ASSUME HistoryInv, HistoryInv', UpdateUse, [Next]_vars
  PROVE  /\ UpdateUse'
         /\ \A t \in Tasks : Updating(t) /\ call'[t].step = "done" /\ call'[t].clean /\ (Paged => InTime(call[t])) =>
              call[t].known \subseteq value' /\ (Paged => call[t].known \subseteq entry')
<1> DEFINE Finds(t) ==
      Updating(t) /\ call'[t].step = "done" /\ call'[t].clean /\ (Paged => InTime(call[t])) =>
        call[t].known \subseteq value' /\ (Paged => call[t].known \subseteq entry')
<1>1. /\ HistoryTypes /\ HistoryTypes' /\ call \in [Tasks -> Calls] /\ RowsInOrder
      /\ NoCall.step = "idle" /\ now \in Int
  BY DEF HistoryInv, HistoryTypes, UpdateUse, NoCall
\* An update that is not over has nothing to show.
<1>2. ASSUME NEW t \in Tasks, Updating(t) => call'[t].step # "done" PROVE Finds(t)
  BY <1>2
\* The other tasks keep their updates when one task takes a step.
<1>3. ASSUME NEW t \in Tasks, NEW d, call' = [Calling EXCEPT ![t] = d], NEW u \in Tasks \ {t}
      PROVE  Finds(u) /\ (Updating(u)' => Updating(u) /\ call'[u] = call[u])
  <2>1. call'[u] = IF Free(u) THEN NoCall ELSE call[u]
    BY <1>1, <1>3 DEF Calling
  <2> QED BY <1>1, <2>1 DEF Updating, Free
<1>4. ASSUME NEW t \in Tasks,
             \/ \E r \in Ranges : FetchRange(t, r[1], r[2])
             \/ FetchAll(t) \/ Locked(t) \/ Fetched(t) \/ FetchRaises(t) \/ UpdateRaises(t)
      PROVE  UpdateUse' /\ \A u \in Tasks : Finds(u)
  <2>1. PICK d : d.step \notin {"pointer", "page"} /\ (Updating(t) => d.step # "done") /\ call' = [Calling EXCEPT ![t] = d]
    BY <1>4, NoUpdateBegins
  <2>2. UNCHANGED <<deviceVars, entry, value>>
    BY <1>4, NoUpdateBegins
  <2>3. call'[t] = d
    BY <1>1, <2>1 DEF Calling
  <2>4. \A u \in Tasks : Finds(u)
    BY <1>2, <1>3, <2>1, <2>3
  <2>5. \A u \in Tasks : Updating(u)' => Updating(u) /\ call'[u] = call[u]
    <3>1. ~Updating(t)'
      BY <2>1, <2>3 DEF Updating
    <3> QED BY <1>3, <2>1, <3>1
  <2>6. /\ UNCHANGED <<kind, used, entry, value>> /\ now <= now'
        /\ (\A p : Rows(p) \subseteq Rows(p)') /\ ToSet(log) \subseteq ToSet(log') /\ RowsInOrder'
    <3>1. UNCHANGED <<kind, now, used, log, entry, value>>
      BY <2>2 DEF deviceVars
    <3>2. now <= now'
      BY <1>1, <3>1
    <3>3. (\A p : Rows(p) \subseteq Rows(p)') /\ ToSet(log) \subseteq ToSet(log')
      BY <3>1 DEF Rows, FirstPage
    <3>4. RowsInOrder'
      BY <1>1, <3>1 DEF RowsInOrder
    <3> QED BY <3>1, <3>2, <3>3, <3>4
  <2>7. UpdateUse'
    BY <1>1, <2>5, <2>6, UpdateWaits
  <2> QED BY <2>4, <2>7
<1>5. ASSUME NEW t \in Tasks,
             GotPointer(t) \/ NoPointer(t) \/ GotUpdate(t) \/ NoUpdate(t) \/ UpdateSwallows(t)
      PROVE  UpdateUse' /\ \A u \in Tasks : Finds(u)
  <2>1. \E d : call' = [Calling EXCEPT ![t] = d]
    BY <1>5 DEF GotPointer, NoPointer, UpdatePages, GotUpdate, NoUpdate, UpdateSwallows
  <2>2. \A u \in Tasks \ {t} : Finds(u)
    BY <1>3, <2>1
  <2>3. Finds(t) /\ UpdateUse'
    BY <1>5, UpdateSteps
  <2> QED BY <2>2, <2>3
<1>6. ASSUME NEW t \in Tasks, Update(t)
      PROVE  UpdateUse' /\ \A u \in Tasks : Finds(u)
  <2>1. UpdateUse'
    BY <1>6, UpdateBegins
  <2>2. \A u \in Tasks : ~Updating(u)
    BY <1>6 DEF Update
  <2> QED BY <2>1, <2>2
<1>7. ASSUME Tick PROVE UpdateUse' /\ \A u \in Tasks : Finds(u)
  <2>1. now' = now + 1 /\ UNCHANGED <<kind, ahead, used, log, pages, past, listed, put, entry, value, queue, call>>
    BY <1>7 DEF Tick
  <2>2. /\ now <= now' /\ (\A p : Rows(p) \subseteq Rows(p)')
        /\ ToSet(log) \subseteq ToSet(log') /\ RowsInOrder'
    BY <1>1, <2>1 DEF Rows, FirstPage, RowsInOrder
  <2>3. UpdateUse'
    BY <1>1, <2>1, <2>2, UpdateWaits DEF Updating
  <2> QED BY <2>1, <2>3 DEF Updating
<1>8. ASSUME NEW d \in Days, StoreRow(d)
      PROVE  UpdateUse' /\ \A u \in Tasks : Finds(u)
  <2>1. UpdateUse' /\ call' = call
    BY <1>8, RowStored DEF StoreRow
  <2> QED BY <2>1 DEF Updating
<1>9. ASSUME NEW s \in Readers, ClearPastData(s)
      PROVE  UpdateUse' /\ \A u \in Tasks : Finds(u)
  <2>1. /\ UNCHANGED <<deviceVars, pages, entry, value, queue>>
        /\ \/ call' = call
           \/ call' = [t \in Tasks |-> [Calling[t] EXCEPT !.clean = @ /\ Free(t)]]
    BY <1>9 DEF ClearPastData
  <2>2. ASSUME NEW u \in Tasks
        PROVE  \/ call'[u] = call[u]
               \/ Free(u) /\ call'[u].step = "idle"
               \/ ~Free(u) /\ call'[u] = [call[u] EXCEPT !.clean = FALSE] /\ call'[u].step = call[u].step
    <3>1. CASE call' = call
      BY <3>1
    <3>2. CASE call' = [t \in Tasks |-> [Calling[t] EXCEPT !.clean = @ /\ Free(t)]]
      <4>1. CASE Free(u)
        <5>1. call'[u] = [NoCall EXCEPT !.clean = @ /\ TRUE]
          BY <3>2, <4>1 DEF Calling
        <5> QED BY <4>1, <5>1 DEF NoCall
      <4>2. CASE ~Free(u)
        <5>1. call'[u] = [call[u] EXCEPT !.clean = @ /\ FALSE]
          BY <3>2, <4>2 DEF Calling
        <5>2. (call[u].clean /\ FALSE) = FALSE
          OBVIOUS
        <5>3. call'[u] = [call[u] EXCEPT !.clean = FALSE]
          BY <5>1, <5>2
        <5>4. call'[u].step = call[u].step
          BY <1>1, <5>3 DEF Calls
        <5> QED BY <4>2, <5>3, <5>4
      <4> QED BY <4>1, <4>2
    <3> QED BY <2>1, <3>1, <3>2
  <2>3. \A u \in Tasks : Updating(u)' =>
          Updating(u) /\ (call'[u] = call[u] \/ call'[u] = [call[u] EXCEPT !.clean = FALSE])
    BY <2>2 DEF Updating
  <2>4. \A u \in Tasks : Finds(u)
    BY <2>2 DEF Updating, Free
  <2>5. /\ UNCHANGED <<kind, used, entry, value>> /\ now <= now'
        /\ (\A p : Rows(p) \subseteq Rows(p)') /\ ToSet(log) \subseteq ToSet(log') /\ RowsInOrder'
    BY <1>1, <2>1 DEF deviceVars, Rows, FirstPage, RowsInOrder
  <2>6. UpdateUse'
    BY <1>1, <2>3, <2>5, UpdateWaits
  <2> QED BY <2>4, <2>6
<1>10. ASSUME UNCHANGED vars PROVE UpdateUse' /\ \A u \in Tasks : Finds(u)
  <2>1. UNCHANGED <<kind, now, ahead, used, log, pages, past, listed, put, entry, value, queue, call>>
    BY <1>10 DEF vars
  <2>2. /\ now <= now' /\ (\A p : Rows(p) \subseteq Rows(p)')
        /\ ToSet(log) \subseteq ToSet(log') /\ RowsInOrder'
    BY <1>1, <2>1 DEF Rows, FirstPage, RowsInOrder
  <2>3. UpdateUse'
    BY <1>1, <2>1, <2>2, UpdateWaits DEF Updating
  <2> QED BY <2>1, <2>3 DEF Updating
<1> HIDE DEF Finds
<1>11. UpdateUse' /\ \A u \in Tasks : Finds(u)
  <2>1. CASE \E t \in Tasks :
                \/ \E r \in Ranges : FetchRange(t, r[1], r[2])
                \/ FetchAll(t) \/ Locked(t) \/ Update(t)
                \/ Answered(t) \/ FetchRaises(t) \/ UpdateRaises(t)
    <3>1. PICK t \in Tasks :
                \/ \E r \in Ranges : FetchRange(t, r[1], r[2])
                \/ FetchAll(t) \/ Locked(t) \/ Update(t)
                \/ Answered(t) \/ FetchRaises(t) \/ UpdateRaises(t)
      BY <2>1
    <3>2. CASE Update(t)
      BY <1>6, <3>2
    <3>3. CASE GotPointer(t) \/ NoPointer(t) \/ GotUpdate(t) \/ NoUpdate(t) \/ UpdateSwallows(t)
      BY <1>5, <3>3
    <3>4. CASE \/ \E r \in Ranges : FetchRange(t, r[1], r[2])
               \/ FetchAll(t) \/ Locked(t) \/ Fetched(t) \/ FetchRaises(t) \/ UpdateRaises(t)
      BY <1>4, <3>4
    <3> QED BY <3>1, <3>2, <3>3, <3>4 DEF Answered
  <2>2. CASE \E d \in Days : StoreRow(d)
    BY <1>8, <2>2
  <2>3. CASE \E s \in Readers : ClearPastData(s)
    BY <1>9, <2>3
  <2> QED BY <1>7, <1>10, <2>1, <2>2, <2>3 DEF Next
<1> USE DEF Finds
<1>12. UpdateUse'
  BY <1>11
<1>13. ASSUME NEW t \in Tasks PROVE Finds(t)
  BY <1>11
<1> QED BY <1>12, <1>13

\* What an update should find is in the record or on a page still to be asked for.
LEMMA UpdateUses == Spec => []UpdateUse
<1>1. Init => UpdateUse
  <2>1. SUFFICES ASSUME Init PROVE UpdateUse
    OBVIOUS
  <2>2. log = << >> /\ \A t \in Tasks : call[t].step = "idle"
    BY <2>1 DEF Init, NoCall
  <2>3. RowsInOrder
    BY <2>2 DEF RowsInOrder
  <2> QED BY <2>2, <2>3 DEF UpdateUse, Updating
<1>2. UpdateUse /\ HistoryInv /\ HistoryInv' /\ [Next]_vars => UpdateUse'
  BY UpdateStep
<1> QED BY <1>1, <1>2, HistoryInvariance, PTL DEF Spec

\* An update in which every request was answered leaves the newest complete
\* record, whatever other tasks fetch or clear meanwhile, unless it takes as
\* many midnights as a page has rows (ecus_recording.py:103-106, energy.py:189,
\* recording.py:125-126).
THEOREM UpdatesFind == Spec => UpdateFinds
<1> DEFINE A == \A t \in Tasks :
       Updating(t) /\ call'[t].step = "done" /\ call'[t].clean /\ (Paged => InTime(call[t])) =>
         /\ call[t].known \subseteq value'
         /\ Paged => call[t].known \subseteq entry'
<1>1. UpdateUse /\ HistoryInv /\ HistoryInv' /\ [Next]_vars => [A]_vars
  BY UpdateStep
<1> QED BY <1>1, UpdateUses, HistoryInvariance, PTL DEF Spec, UpdateFinds
-----------------------------------------------------------------------------
(* The record advances                                                     *)

\* The day the next update asks for is never an earlier one.
LEMMA AskedGrows ==
  ASSUME HistoryTypes, HistoryTypes', UNCHANGED <<kind, ahead>>, now <= now'
  PROVE  /\ Asked \in Int /\ Asked' \in Int /\ Asked <= Asked'
         /\ \A s \in Int : DayOf(s) \in Int /\ DayOf(s)' = DayOf(s)
<1>1. PICK a \in Int, b \in Int, z \in Int : a = now /\ b = now' /\ z = ahead /\ z = ahead' /\ a <= b
  BY DEF HistoryTypes
<1>2. a + z \in Int /\ b + z \in Int /\ a + z <= b + z
  <2>1. \A u, v, w \in Int : u <= v => u + w \in Int /\ v + w \in Int /\ u + w <= v + w
    OBVIOUS
  <2>2. a <= b
    BY <1>1
  <2> QED BY <2>1, <2>2
<1>3. PICK m \in Int, n \in Int : m = a + z /\ n = b + z /\ m <= n
  BY <1>2
<1>4. m - 1 \in Int /\ n - 1 \in Int /\ m - 1 <= n - 1
  BY <1>3
<1>5. /\ Day(m) \in Int /\ Day(n) \in Int /\ Day(m) <= Day(n)
      /\ Day(m - 1) \in Int /\ Day(n - 1) \in Int /\ Day(m - 1) <= Day(n - 1)
  BY <1>3, <1>4, DaysFollow
<1>6. Paged' <=> Paged
  BY DEF Paged
<1>7. Asked = (IF Paged THEN Day(m) - 1 ELSE Day(m - 1)) /\ Asked' = (IF Paged THEN Day(n) - 1 ELSE Day(n - 1))
  <2>1. Asked = IF Paged THEN Day(a + z) - 1 ELSE Day(a + z - 1)
    BY <1>1 DEF Asked
  <2>2. Asked' = IF Paged THEN ((b + z) \div Hours) - 1 ELSE (b + z - 1) \div Hours
    BY <1>1, <1>6 DEF Asked, Day
  <2> QED BY <1>3, <2>1, <2>2 DEF Day
<1>8. \A s \in Int : DayOf(s) \in Int /\ DayOf(s)' = DayOf(s)
  <2>1. \A s \in Int : Day(s) \in Int /\ Day(s)' = Day(s)
    BY DaysFollow DEF Day
  <2> QED BY <1>6, <2>1 DEF DayOf
<1> QED BY <1>5, <1>7, <1>8

\* The step of a record: it stays, or becomes one of the day asked for.
LEMMA RecordGoes ==
  ASSUME HistoryTypes, HistoryTypes', RecordUse, UNCHANGED <<kind, ahead>>, now <= now',
         NEW a \in Int, value' # value => a <= Asked /\ \A s \in value : DayOf(s) <= a,
         value' # value => \A s \in value' : DayOf(s) = a,
         \A u \in Tasks : Updating(u)' =>
           \/ Updating(u) /\ call'[u].at = call[u].at /\ (value' # value => call[u].at = a)
           \/ value' = value /\ call'[u].at = Asked
  PROVE  RecordUse' /\ \A r \in value, s \in value' : DayOf(r) <= DayOf(s)
<1>1. /\ Asked \in Int /\ Asked' \in Int /\ Asked <= Asked'
      /\ \A s \in Int : DayOf(s) \in Int /\ DayOf(s)' = DayOf(s)
  BY AskedGrows
<1>2. value \subseteq Int /\ value' \subseteq Int
  BY DEF HistoryTypes
<1>3. /\ \A s \in value : DayOf(s) <= Asked /\ \A r \in value : DayOf(r) = DayOf(s)
      /\ \A t \in Tasks : Updating(t) => call[t].at <= Asked /\ \A s \in value : DayOf(s) <= call[t].at
  BY DEF RecordUse
<1>4. PICK x, y, k, l : x = value /\ y = value' /\ k = Asked /\ l = Asked'
  OBVIOUS
<1>5. \A t \in Tasks : Updating(t)' => call'[t].at \in Int
  BY DEF HistoryTypes, Calls
<1>6. CASE y = x
  <2>1. ASSUME NEW t \in Tasks, Updating(t)'
        PROVE  call'[t].at <= k /\ \A s \in x : DayOf(s) <= call'[t].at
    <3>1. CASE Updating(t) /\ call'[t].at = call[t].at
      BY <1>3, <1>4, <3>1
    <3>2. CASE call'[t].at = Asked
      BY <1>1, <1>3, <1>4, <3>2
    <3> QED BY <2>1, <3>1, <3>2
  <2>2. \A t \in Tasks : Updating(t)' => call'[t].at <= l
    BY <1>1, <1>4, <1>5, <2>1
  <2>3. \A s \in x : DayOf(s) <= l /\ \A r \in x : DayOf(r) = DayOf(s) /\ DayOf(r) <= DayOf(s)
    BY <1>1, <1>2, <1>3, <1>4
  <2>4. \A s \in y : DayOf(s)' <= l /\ \A r \in y : DayOf(r)' = DayOf(s)'
    BY <1>1, <1>2, <1>4, <1>6, <2>3
  <2>5. \A t \in Tasks : Updating(t)' => call'[t].at <= l /\ \A s \in y : DayOf(s)' <= call'[t].at
    BY <1>1, <1>2, <1>4, <1>6, <2>1, <2>2
  <2> QED BY <1>4, <1>6, <2>3, <2>4, <2>5 DEF RecordUse
<1>7. CASE y # x
  <2>1. /\ a <= k /\ (\A s \in x : DayOf(s) <= a) /\ \A s \in y : DayOf(s) = a
        /\ \A t \in Tasks : Updating(t)' => call'[t].at = a
    BY <1>4, <1>7
  <2>2. a <= l
    BY <1>1, <1>4, <2>1
  <2>3. \A s \in y : DayOf(s)' = a
    BY <1>1, <1>2, <1>4, <2>1
  <2>4. \A r \in x, s \in y : DayOf(r) <= DayOf(s)
    BY <2>1
  <2> QED BY <1>4, <2>1, <2>2, <2>3, <2>4 DEF RecordUse
<1> QED BY <1>6, <1>7

\* The step of the task that updates.
LEMMA RecordSteps ==
  ASSUME HistoryInv, UpdateUse, NEW t \in Tasks,
         GotPointer(t) \/ NoPointer(t) \/ GotUpdate(t) \/ NoUpdate(t) \/ UpdateSwallows(t)
  PROVE  /\ \A u \in Tasks : Updating(u)' => u = t /\ Updating(u) /\ call'[u].at = call[u].at
         /\ Updating(t) /\ UNCHANGED <<kind, now, ahead>>
         /\ value' = value \/ \A s \in value' : DayOf(s) = call[t].at
<1>1. PICK c \in Calls : c = call[t] /\ c.step \in {"pointer", "page"}
  BY DEF HistoryInv, HistoryTypes, GotPointer, NoPointer, GotUpdate, NoUpdate, UpdateSwallows
<1>2. Updating(t) /\ call \in [Tasks -> Calls] /\ NoCall.step = "idle" /\ "step" \in DOMAIN NoCall
  BY <1>1 DEF HistoryInv, HistoryTypes, Updating, NoCall
<1>3. UNCHANGED <<kind, now, ahead>>
  BY DEF GotPointer, NoPointer, UpdatePages, GotUpdate, NoUpdate, UpdateSwallows, deviceVars
<1>4. \A x : Finished(x).step = "done"
  BY DEF Finished, NoCall
<1>5. PICK e \in Calls : e = [c EXCEPT !.clean = FALSE]
  BY Edits
<1>6. e.at = c.at
  BY <1>5 DEF Calls
<1>7. ASSUME NEW f \in Calls, f.at = c.at, NEW n, UpdatePages(t, f, n)
      PROVE  \E d : call' = [Calling EXCEPT ![t] = d] /\ (d.step = "done" \/ d.at = c.at)
  <2>1. PICK d, g : d = Finished(f) /\ g = [f EXCEPT !.step = "page", !.todo = LatestPages(n)]
    OBVIOUS
  <2>2. call' = [Calling EXCEPT ![t] = d] \/ call' = [Calling EXCEPT ![t] = g]
    BY <1>7, <2>1 DEF UpdatePages
  <2>3. g.at = c.at
    BY <1>7, <2>1 DEF Calls
  <2> QED BY <1>4, <2>1, <2>2, <2>3
<1>8. ASSUME NEW f \in Calls, f.at = c.at, NEW T,
             call' = [Calling EXCEPT ![t] = IF T = {} THEN Finished(f) ELSE [f EXCEPT !.todo = T]]
      PROVE  \E d : call' = [Calling EXCEPT ![t] = d] /\ (d.step = "done" \/ d.at = c.at)
  <2>1. PICK d, g : d = Finished(f) /\ g = [f EXCEPT !.todo = T]
    OBVIOUS
  <2>2. call' = [Calling EXCEPT ![t] = d] \/ call' = [Calling EXCEPT ![t] = g]
    BY <1>8, <2>1
  <2>3. g.at = c.at
    BY <1>8, <2>1 DEF Calls
  <2> QED BY <1>4, <2>1, <2>2, <2>3
<1>9. PICK d : call' = [Calling EXCEPT ![t] = d] /\ (d.step = "done" \/ d.at = c.at)
  <2>1. CASE GotPointer(t)
    <3>1. UpdatePages(t, c, Pointer)
      BY <1>1, <2>1 DEF GotPointer
    <3> QED BY <1>7, <3>1
  <2>2. CASE NoPointer(t)
    <3>1. \E n : UpdatePages(t, e, n)
      BY <1>1, <1>5, <2>2 DEF NoPointer
    <3> QED BY <1>6, <1>7, <3>1
  <2>3. CASE GotUpdate(t)
    <3>1. \/ \E f : call' = [Calling EXCEPT ![t] = Finished(f)]
          \/ \E T : call' = [Calling EXCEPT ![t] = IF T = {} THEN Finished(c) ELSE [c EXCEPT !.todo = T]]
      BY <1>1, <2>3 DEF GotUpdate
    <3>2. CASE \E f : call' = [Calling EXCEPT ![t] = Finished(f)]
      BY <1>4, <3>2
    <3>3. CASE \E T : call' = [Calling EXCEPT ![t] = IF T = {} THEN Finished(c) ELSE [c EXCEPT !.todo = T]]
      BY <1>8, <3>3
    <3> QED BY <3>1, <3>2, <3>3
  <2>4. CASE NoUpdate(t)
    <3>1. PICK T : T = IF Paged THEN e.todo \ {Page(e)} ELSE {}
      OBVIOUS
    <3>2. call' = [Calling EXCEPT ![t] = IF T = {} THEN Finished(e) ELSE [e EXCEPT !.todo = T]]
      BY <1>1, <1>5, <2>4, <3>1 DEF NoUpdate
    <3> QED BY <1>6, <1>8, <3>2
  <2>5. CASE UpdateSwallows(t)
    <3>1. \E f : call' = [Calling EXCEPT ![t] = Finished(f)]
      BY <2>5 DEF UpdateSwallows
    <3> QED BY <1>4, <3>1
  <2> QED BY <2>1, <2>2, <2>3, <2>4, <2>5
<1>10. ASSUME NEW u \in Tasks, Updating(u)'
       PROVE  u = t /\ Updating(u) /\ call'[u].at = call[u].at
  <2>1. CASE u = t
    <3>1. call'[t] = d
      BY <1>2, <1>9 DEF Calling
    <3> QED BY <1>1, <1>2, <1>9, <1>10, <2>1, <3>1 DEF Updating
  <2>2. CASE u # t
    <3>1. call'[u] = IF Free(u) THEN NoCall ELSE call[u]
      BY <1>2, <1>9, <2>2 DEF Calling
    <3>2. ~Updating(u)
      BY <1>2, <2>2 DEF UpdateUse
    <3> QED BY <1>2, <1>10, <3>1, <3>2 DEF Updating
  <2> QED BY <2>1, <2>2
<1>11. value' = value \/ \A s \in value' : DayOf(s) = c.at
  <2>1. CASE GotUpdate(t) /\ Paged
    BY <1>1, <2>1 DEF GotUpdate, DayOf
  <2>2. CASE GotUpdate(t) /\ ~Paged
    <3>1. \E interval : value' = Record(c.at, interval)
      BY <1>1, <2>2 DEF GotUpdate
    <3>2. value' \subseteq Recorded(c.at)
      BY <3>1 DEF Record
    <3> QED BY <2>2, <3>2 DEF Recorded, DayOf
  <2>3. CASE GotPointer(t) \/ NoPointer(t) \/ NoUpdate(t) \/ UpdateSwallows(t)
    BY <2>3 DEF GotPointer, NoPointer, UpdatePages, NoUpdate, UpdateSwallows
  <2> QED BY <2>1, <2>2, <2>3
<1> QED BY <1>1, <1>2, <1>3, <1>10, <1>11

\* An update begins with the day that is to be asked for.
LEMMA RecordBegins ==
  ASSUME HistoryInv, NEW t \in Tasks, Update(t)
  PROVE  /\ UNCHANGED <<kind, now, ahead, value>>
         /\ \A u \in Tasks : Updating(u)' => call'[u].at = Asked
<1>1. PICK s, a, K : /\ s = IF Paged THEN "pointer" ELSE "page"
                     /\ a = IF Paged \/ (now + ahead) % Hours < 1 THEN Day(now + ahead) - 1 ELSE Day(now + ahead)
                     /\ K = IF Paged THEN {Day(now + ahead) - 1} \cap ToSet(log)
                            ELSE {x \in used : x = now - 1 /\ Day(x) = Day(x + ahead)}
  OBVIOUS
<1>2. PICK d : d = [NoCall EXCEPT !.op = "update", !.step = s, !.at = a, !.known = K]
  OBVIOUS
<1>3. /\ call' = [Calling EXCEPT ![t] = d] /\ \A u \in Tasks : ~Updating(u)
      /\ UNCHANGED <<kind, now, ahead, value>>
  BY <1>1, <1>2 DEF Update, deviceVars
<1>4. d.at = a
  BY <1>2 DEF NoCall
<1>5. a = Asked
  <2>1. PICK n \in Int, z \in Int : n = now /\ z = ahead
    BY DEF HistoryInv, HistoryTypes
  <2>2. PICK h \in Int : h = n + z
    BY <2>1
  <2>3. a = IF Paged \/ h % Hours < 1 THEN Day(h) - 1 ELSE Day(h)
    BY <1>1, <2>1, <2>2
  <2>4. Asked = IF Paged THEN Day(n + z) - 1 ELSE Day(n + z - 1)
    BY <2>1 DEF Asked
  <2>5. Asked = IF Paged THEN Day(h) - 1 ELSE Day(h - 1)
    BY <2>2, <2>4
  <2> QED BY <2>2, <2>3, <2>5, HourBefore
<1>6. call \in [Tasks -> Calls] /\ NoCall.step = "idle"
  BY DEF HistoryInv, HistoryTypes, NoCall
<1>7. ASSUME NEW u \in Tasks, Updating(u)' PROVE call'[u].at = Asked
  <2>1. call'[u] = IF u = t THEN d ELSE IF Free(u) THEN NoCall ELSE call[u]
    BY <1>3, <1>6 DEF Calling
  <2> QED BY <1>3, <1>4, <1>5, <1>6, <1>7, <2>1 DEF Updating
<1> QED BY <1>3, <1>7

\* What else happens leaves the record and the updates alone.
LEMMA RecordRests ==
  ASSUME HistoryInv,
         \/ \E t \in Tasks :
              \/ \E r \in Ranges : FetchRange(t, r[1], r[2])
              \/ FetchAll(t) \/ Locked(t) \/ Fetched(t) \/ FetchRaises(t) \/ UpdateRaises(t)
         \/ Tick \/ (\E d \in Days : StoreRow(d)) \/ (\E s \in Readers : ClearPastData(s))
         \/ UNCHANGED vars
  PROVE  /\ UNCHANGED <<kind, ahead, value>> /\ now <= now'
         /\ \A u \in Tasks : Updating(u)' => Updating(u) /\ call'[u].at = call[u].at
<1>1. call \in [Tasks -> Calls] /\ now \in Int /\ NoCall.step = "idle"
  BY DEF HistoryInv, HistoryTypes, NoCall
<1>2. CASE \E t \in Tasks :
             \/ \E r \in Ranges : FetchRange(t, r[1], r[2])
             \/ FetchAll(t) \/ Locked(t) \/ Fetched(t) \/ FetchRaises(t) \/ UpdateRaises(t)
  <2>1. PICK t \in Tasks :
             \/ \E r \in Ranges : FetchRange(t, r[1], r[2])
             \/ FetchAll(t) \/ Locked(t) \/ Fetched(t) \/ FetchRaises(t) \/ UpdateRaises(t)
    BY <1>2
  <2>2. PICK d : d.step \notin {"pointer", "page"} /\ call' = [Calling EXCEPT ![t] = d]
    BY <2>1, NoUpdateBegins
  <2>3. UNCHANGED <<kind, now, ahead, value>>
    <3>1. UNCHANGED <<deviceVars, entry, value>>
      BY <2>1, NoUpdateBegins
    <3> QED BY <3>1 DEF deviceVars
  <2>4. ASSUME NEW u \in Tasks, Updating(u)' PROVE Updating(u) /\ call'[u].at = call[u].at
    <3>1. call'[u] = IF u = t THEN d ELSE IF Free(u) THEN NoCall ELSE call[u]
      BY <1>1, <2>2 DEF Calling
    <3> QED BY <1>1, <2>2, <2>4, <3>1 DEF Updating
  <2>5. now <= now'
    BY <1>1, <2>3
  <2> QED BY <2>3, <2>4, <2>5
<1>3. CASE Tick \/ (\E d \in Days : StoreRow(d)) \/ UNCHANGED vars
  <2>1. UNCHANGED <<kind, ahead, value, call>> /\ now' \in {now, now + 1}
    BY <1>3 DEF Tick, StoreRow, vars
  <2> QED BY <1>1, <2>1 DEF Updating
<1>4. CASE \E s \in Readers : ClearPastData(s)
  <2>1. /\ UNCHANGED <<kind, now, ahead, value>>
        /\ \/ call' = call
           \/ call' = [t \in Tasks |-> [Calling[t] EXCEPT !.clean = @ /\ Free(t)]]
    BY <1>4 DEF ClearPastData, deviceVars
  <2>2. ASSUME NEW u \in Tasks, Updating(u)', call' = [t \in Tasks |-> [Calling[t] EXCEPT !.clean = @ /\ Free(t)]]
        PROVE  Updating(u) /\ call'[u].at = call[u].at
    <3>1. PICK g, b : g = Calling[u] /\ b = (g.clean /\ Free(u))
      OBVIOUS
    <3>2. g \in Calls /\ (g = NoCall \/ g = call[u])
      <4>1. NoCall \in Calls
        BY DEF NoCall, Calls, Steps
      <4> QED BY <1>1, <3>1, <4>1 DEF Calling
    <3>3. call'[u] = [g EXCEPT !.clean = b]
      BY <2>2, <3>1
    <3>4. call'[u].step = g.step /\ call'[u].at = g.at
      BY <3>2, <3>3 DEF Calls
    <3> QED BY <1>1, <2>2, <3>2, <3>4 DEF Updating
  <2>3. now <= now'
    BY <1>1, <2>1
  <2> QED BY <2>1, <2>2, <2>3 DEF Updating
<1> QED BY <1>2, <1>3, <1>4

LEMMA RecordStep ==
  ASSUME HistoryInv, HistoryInv', UpdateUse, RecordUse, [Next]_vars
  PROVE  RecordUse' /\ \A r \in value, s \in value' : DayOf(r) <= DayOf(s)
<1>1. HistoryTypes /\ HistoryTypes' /\ now \in Int
  BY DEF HistoryInv, HistoryTypes
<1>2. ASSUME NEW t \in Tasks,
             GotPointer(t) \/ NoPointer(t) \/ GotUpdate(t) \/ NoUpdate(t) \/ UpdateSwallows(t)
      PROVE  RecordUse' /\ \A r \in value, s \in value' : DayOf(r) <= DayOf(s)
  <2>1. /\ \A u \in Tasks : Updating(u)' => u = t /\ Updating(u) /\ call'[u].at = call[u].at
        /\ Updating(t) /\ UNCHANGED <<kind, now, ahead>>
        /\ value' = value \/ \A s \in value' : DayOf(s) = call[t].at
    BY <1>2, RecordSteps
  <2>2. PICK a \in Int : a = call[t].at
    BY <1>1 DEF HistoryTypes, Calls
  <2>3. a <= Asked /\ \A s \in value : DayOf(s) <= a
    BY <2>1, <2>2 DEF RecordUse
  <2>4. /\ UNCHANGED <<kind, ahead>> /\ now <= now'
        /\ value' # value => \A s \in value' : DayOf(s) = a
        /\ \A u \in Tasks : Updating(u)' => Updating(u) /\ call'[u].at = call[u].at /\ call[u].at = a
    BY <1>1, <2>1, <2>2
  <2> QED BY <1>1, <2>3, <2>4, RecordGoes
<1>3. ASSUME NEW t \in Tasks, Update(t)
      PROVE  RecordUse' /\ \A r \in value, s \in value' : DayOf(r) <= DayOf(s)
  <2>1. /\ UNCHANGED <<kind, now, ahead, value>>
        /\ \A u \in Tasks : Updating(u)' => call'[u].at = Asked
    BY <1>3, RecordBegins
  <2>2. UNCHANGED <<kind, ahead>> /\ value' = value /\ now <= now'
    BY <1>1, <2>1
  <2>3. 0 \in Int
    OBVIOUS
  <2> QED BY <1>1, <2>1, <2>2, <2>3, RecordGoes
<1>4. ASSUME \/ \E t \in Tasks :
                  \/ \E r \in Ranges : FetchRange(t, r[1], r[2])
                  \/ FetchAll(t) \/ Locked(t) \/ Fetched(t) \/ FetchRaises(t) \/ UpdateRaises(t)
             \/ Tick \/ (\E d \in Days : StoreRow(d)) \/ (\E s \in Readers : ClearPastData(s))
             \/ UNCHANGED vars
      PROVE  RecordUse' /\ \A r \in value, s \in value' : DayOf(r) <= DayOf(s)
  <2>1. /\ UNCHANGED <<kind, ahead, value>> /\ now <= now'
        /\ \A u \in Tasks : Updating(u)' => Updating(u) /\ call'[u].at = call[u].at
    BY <1>4, RecordRests
  <2>2. UNCHANGED <<kind, ahead>> /\ value' = value /\ 0 \in Int
    BY <2>1
  <2> QED BY <1>1, <2>1, <2>2, RecordGoes
<1> QED BY <1>2, <1>3, <1>4 DEF Next, Answered

\* The record never goes back to an earlier day, whatever the device answers
\* and however late (recording.py:51-58, 122-126; ecus_recording.py:93-106;
\* energy.py:189).
THEOREM RecordsAdvance == Spec => RecordAdvances
<1>1. Init => RecordUse
  <2>1. SUFFICES ASSUME Init PROVE RecordUse
    OBVIOUS
  <2>2. value = {} /\ \A t \in Tasks : call[t].step = "idle"
    BY <2>1 DEF Init, NoCall
  <2> QED BY <2>2 DEF RecordUse, Updating
<1>2. RecordUse /\ UpdateUse /\ HistoryInv /\ HistoryInv' /\ [Next]_vars => RecordUse'
  BY RecordStep
<1>3. Spec => []RecordUse
  BY <1>1, <1>2, UpdateUses, HistoryInvariance, PTL DEF Spec
<1> DEFINE A == \A r \in value, s \in value' : DayOf(r) <= DayOf(s)
<1>4. RecordUse /\ UpdateUse /\ HistoryInv /\ HistoryInv' /\ [Next]_vars => [A]_vars
  BY RecordStep
<1> QED BY <1>3, <1>4, UpdateUses, HistoryInvariance, PTL DEF Spec, RecordAdvances
=============================================================================
