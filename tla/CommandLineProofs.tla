--------------------------- MODULE CommandLineProofs ---------------------------
(***************************************************************************)
(* What a scan holds, and that commands close their session: for every     *)
(* device, every tree of references and every set of commands.             *)
(***************************************************************************)
EXTENDS CommandLineProperties, SequenceTheorems, TLAPS

Logs == Seq([entry : Requests, st : Outcomes])

\* What a list of lists holds when the last list grows, or a new one is begun.
LEMMA HoldsLonger ==
  ASSUME NEW S, NEW lists \in Seq(Seq(S)), NEW lst \in Seq(S), NEW e, NEW x \in S
  PROVE  /\ Holds(Append(lists, Append(lst, x)), e) <=> Holds(Append(lists, lst), e) \/ e = x
         /\ Holds(Append(Append(lists, lst), << >>), e) <=> Holds(Append(lists, lst), e)
<1> DEFINE n == Len(lists)
<1>1. n \in Nat /\ DOMAIN lists = 1..n /\ DOMAIN lst = 1..Len(lst) /\ Len(lst) \in Nat
  OBVIOUS
<1>2. \A l \in Seq(S) : Holds(Append(lists, l), e) <=>
        Holds(lists, e) \/ \E j \in DOMAIN l : l[j] = e
  <2> SUFFICES ASSUME NEW l \in Seq(S)
               PROVE Holds(Append(lists, l), e) <=> Holds(lists, e) \/ \E j \in DOMAIN l : l[j] = e
    OBVIOUS
  <2> DEFINE longer == Append(lists, l)
  <2>1. DOMAIN longer = 1..n + 1 /\ longer[n + 1] = l /\ \A i \in 1..n : longer[i] = lists[i]
    BY <1>1
  <2> HIDE DEF longer
  <2> QED BY <2>1, <1>1 DEF Holds
<1>3. (\E j \in DOMAIN Append(lst, x) : Append(lst, x)[j] = e) <=>
        (\E j \in DOMAIN lst : lst[j] = e) \/ e = x
  <2> DEFINE longer == Append(lst, x)
  <2>1. /\ DOMAIN longer = 1..Len(lst) + 1 /\ longer[Len(lst) + 1] = x
        /\ \A i \in 1..Len(lst) : longer[i] = lst[i]
    BY <1>1
  <2> HIDE DEF longer
  <2> QED BY <2>1, <1>1
<1>4. Append(lst, x) \in Seq(S)
  OBVIOUS
<1>5. Holds(Append(lists, Append(lst, x)), e) <=> Holds(Append(lists, lst), e) \/ e = x
  BY <1>2, <1>3, <1>4
<1>6. Append(lists, lst) \in Seq(Seq(S)) /\ << >> \in Seq(S) /\ DOMAIN << >> = {}
  OBVIOUS
<1>7. Holds(Append(Append(lists, lst), << >>), e) <=> Holds(Append(lists, lst), e)
  <2> DEFINE all == Append(lists, lst)
             longer == Append(all, << >>)
  <2>1. all \in Seq(Seq(S)) /\ DOMAIN all = 1..n + 1
    BY <1>1
  <2> HIDE DEF all
  <2>2. DOMAIN longer = 1..n + 2 /\ longer[n + 2] = << >> /\ \A i \in 1..n + 1 : longer[i] = all[i]
    BY <2>1, <1>1
  <2> HIDE DEF longer
  <2>3. ASSUME Holds(longer, e) PROVE Holds(all, e)
    <3>1. PICK i \in 1..n + 2 : \E j \in DOMAIN longer[i] : longer[i][j] = e
      BY <2>2, <2>3 DEF Holds
    <3>2. i # n + 2
      BY <2>2, <3>1, <1>6
    <3>3. i \in 1..n + 1
      BY <3>1, <3>2, <1>1
    <3> QED BY <2>1, <2>2, <3>1, <3>3 DEF Holds
  <2>4. ASSUME Holds(all, e) PROVE Holds(longer, e)
    <3>1. PICK i \in 1..n + 1 : \E j \in DOMAIN all[i] : all[i][j] = e
      BY <2>1, <2>4 DEF Holds
    <3>2. i \in 1..n + 2
      BY <3>1, <1>1
    <3> QED BY <2>1, <2>2, <3>1, <3>2 DEF Holds
  <2> QED BY <2>3, <2>4 DEF longer, all
<1> QED BY <1>5, <1>7

\* A longer log only adds to what was asked for and answered.
LEMMA LogGrows ==
  ASSUME NEW lg \in Logs, NEW r \in [entry : Requests, st : Outcomes]
  PROVE  /\ Append(lg, r) \in Logs
         /\ \A e, S : Got(Append(lg, r), e, S) <=> Got(lg, e, S) \/ (r.entry = e /\ r.st \in S)
         /\ \A e : Asked(Append(lg, r), e) <=> Asked(lg, e) \/ r.entry = e
         /\ \A i \in DOMAIN Append(lg, r) : Append(lg, r)[i] = r \/ \E j \in DOMAIN lg : Append(lg, r)[i] = lg[j]
<1> DEFINE longer == Append(lg, r)
<1>1. /\ longer \in Logs /\ DOMAIN lg = 1..Len(lg) /\ Len(lg) \in Nat
      /\ DOMAIN longer = 1..Len(lg) + 1 /\ longer[Len(lg) + 1] = r
      /\ \A i \in 1..Len(lg) : longer[i] = lg[i]
  BY DEF Logs
<1> HIDE DEF longer
<1>2. \A i \in DOMAIN longer : longer[i] = r \/ \E j \in DOMAIN lg : longer[i] = lg[j]
  BY <1>1
<1>3. \A i \in DOMAIN lg : i \in DOMAIN longer /\ longer[i] = lg[i]
  BY <1>1
<1>4. \E i \in DOMAIN longer : longer[i] = r
  BY <1>1
<1>5. \A e, S : Got(longer, e, S) <=> Got(lg, e, S) \/ (r.entry = e /\ r.st \in S)
  BY <1>2, <1>3, <1>4 DEF Got
<1>6. \A e : Asked(longer, e) <=> Asked(lg, e) \/ r.entry = e
  BY <1>2, <1>3, <1>4 DEF Asked
<1> QED BY <1>1, <1>2, <1>5, <1>6 DEF longer

\* What is left to visit after the first: it is that first, or it is still due.
LEMMA DueTail ==
  ASSUME NEW rest \in Seq(Keys), rest # << >>
  PROVE  /\ Head(rest) \in Keys /\ Tail(rest) \in Seq(Keys)
         /\ \A k : Due(rest, k) => k = Head(rest) \/ Due(Tail(rest), k)
<1>1. /\ Head(rest) = rest[1] /\ Tail(rest) \in Seq(Keys) /\ Len(rest) \in Nat /\ Len(rest) # 0
      /\ DOMAIN rest = 1..Len(rest) /\ DOMAIN Tail(rest) = 1..Len(rest) - 1
      /\ \A i \in 1..Len(rest) - 1 : Tail(rest)[i] = rest[i + 1]
  OBVIOUS
<1>2. ASSUME NEW k, NEW m \in 1..Len(rest), rest[m] = k, m # 1 PROVE Due(Tail(rest), k)
  <2>1. m - 1 \in 1..Len(rest) - 1 /\ Tail(rest)[m - 1] = k
    BY <1>1, <1>2
  <2> QED BY <1>1, <2>1 DEF Due
<1>3. \A k : Due(rest, k) => k = Head(rest) \/ Due(Tail(rest), k)
  BY <1>1, <1>2 DEF Due
<1>4. rest[1] \in Keys
  BY <1>1
<1> QED BY <1>1, <1>3, <1>4

\* And in front of it the references of a resource.
LEMMA DueConcat ==
  ASSUME NEW s \in Seq(Keys), NEW t \in Seq(Keys)
  PROVE  /\ s \o t \in Seq(Keys)
         /\ \A k : Due(t, k) => Due(s \o t, k)
         /\ \A r \in DOMAIN s : Due(s \o t, s[r])
<1>1. /\ s \o t \in Seq(Keys) /\ DOMAIN (s \o t) = 1..Len(s) + Len(t) /\ Len(s) \in Nat /\ Len(t) \in Nat
      /\ DOMAIN s = 1..Len(s) /\ DOMAIN t = 1..Len(t)
      /\ \A i \in 1..Len(s) : (s \o t)[i] = s[i]
      /\ \A i \in 1..Len(t) : (s \o t)[Len(s) + i] = t[i]
  OBVIOUS
<1>2. ASSUME NEW m \in 1..Len(t) PROVE Due(s \o t, t[m])
  <2>1. Len(s) + m \in 1..Len(s) + Len(t)
    BY <1>1
  <2> QED BY <1>1, <2>1 DEF Due
<1>3. ASSUME NEW m \in 1..Len(s) PROVE Due(s \o t, s[m])
  <2>1. m \in 1..Len(s) + Len(t)
    BY <1>1
  <2> QED BY <1>1, <2>1 DEF Due
<1> QED BY <1>1, <1>2, <1>3 DEF Due

LEMMA FollowedAll ==
  ASSUME NEW lists, NEW lg, NEW rest
  PROVE  AllFollowed(lists, lg, rest) <=> \A e : Holds(lists, e) => Followed(lg, rest, e)
BY DEF AllFollowed, Holds

\* What the assumptions and the types say of a scan that is under way.
LEMMA ScanTypes ==
  ASSUME TypeOK, AtUse, Scanning
  PROVE  /\ command \in Commands /\ command.does = "scan" /\ command.targets \in Seq(Keys)
         /\ todo \in Seq(Keys) /\ todo # << >> /\ list \in Lists /\ results \in Seq(Lists)
         /\ Len(results) < Len(command.targets) /\ SoFar \in Seq(Lists)
         /\ log \in Logs /\ Head(todo) \in Keys /\ Refs[Head(todo)] \in Seq(Keys) /\ outcome = "none"
<1>1. /\ command.does = "scan" /\ todo \in Seq(Keys) /\ todo # << >> /\ list \in Lists
      /\ results \in Seq(Lists) /\ Len(results) < Len(command.targets) /\ log \in Logs /\ outcome = "none"
  BY DEF TypeOK, AtUse, Scanning, Logs
<1>2. command \in Commands
  BY <1>1 DEF TypeOK, NoCommand
<1>3. command.targets \in Seq(Keys)
  BY <1>2, CommandAssumption
<1>4. Head(todo) \in Keys
  BY <1>1, DueTail
<1>5. Refs[Head(todo)] \in Seq(Keys)
  BY <1>4, DeviceAssumption
<1>6. SoFar \in Seq(Lists)
  BY <1>1 DEF SoFar
<1> QED BY <1>1, <1>2, <1>3, <1>4, <1>5, <1>6

LEMMA AwaitTypes ==
  ASSUME NEW p \in Phases, NEW n \in 0..Intervals, at' = [phase |-> p, n |-> n]
  PROVE  /\ at' \in [phase : Phases, n : 0..Intervals] /\ at'.phase = p /\ at'.n = n
         /\ p # "idle" => at' # Idle
BY DEF Idle

LEMMA StillOpen ==
  ASSUME open, command # NoCommand, UNCHANGED <<command, open>>, at' # Idle
  PROVE  SessionClosed'
BY Zenon DEF SessionClosed, Idle, NoCommand

\* A file that nobody has opened.
LEMMA FileStays ==
  ASSUME disk' = "kept", outcome' # "done" \/ command'.does # "scan" \/ command'.stdout
  PROVE  FileSafe'
BY DEF FileSafe, Done

\* A call of deep_into that has added to the list all that it got, and left only
\* what is still to be visited, keeps the invariant.
LEMMA VisitKeeps ==
  ASSUME TypeOK, AtUse, SessionClosed, FileSafe, Scanning, NEW lst \in Lists, NEW rest \in Seq(Keys),
         Visit(lst, rest), log' \in Logs, UNCHANGED <<command, open>>,
         AllKept(Append(results, lst), log'), AllFollowed(Append(results, lst), log', rest)
  PROVE  CommandInv'
<1> DEFINE all == Append(results, lst)
<1>1. /\ command \in Commands /\ command.does = "scan" /\ command.targets \in Seq(Keys)
      /\ results \in Seq(Lists) /\ Len(results) < Len(command.targets) /\ outcome = "none"
  BY ScanTypes
<1>2. all \in Seq(Lists) /\ Len(all) = Len(results) + 1 /\ Len(results) \in Nat /\ Len(command.targets) \in Nat
  BY <1>1
<1>3. open /\ command # NoCommand /\ 0 \in 0..Intervals
  BY DeviceAssumption DEF SessionClosed, Scanning, Idle
<1>4. /\ shown \in Seq(Lists) /\ file \in Seq(Lists) /\ open \in BOOLEAN
      /\ disk = "kept" /\ disk \in {"kept", "part", "whole"}
  BY DEF TypeOK, FileSafe, Scanning
<1>5. CASE rest # << >>
  <2>1. /\ list' = lst /\ todo' = rest /\ at' = [phase |-> "get", n |-> 0]
        /\ results' = results /\ shown' = shown /\ file' = file /\ disk' = disk /\ outcome' = "none"
        /\ command' = command /\ open' = open
    BY <1>5, <1>1 DEF Visit, Await, output
  <2>0. at' \in [phase : Phases, n : 0..Intervals] /\ at'.phase = "get" /\ at'.n = 0 /\ at' # Idle
    BY <2>1, <1>3, AwaitTypes DEF Phases
  <2>2. TypeOK'
    BY <2>1, <1>1, <1>3, <1>4, <2>0 DEF TypeOK, Logs
  <2>3. AtUse'
    BY <2>0, <2>1, <1>1, <1>5 DEF AtUse, Scanning
  <2>7. SessionClosed'
    BY <2>0, <1>3, StillOpen
  <2>4. SoFar' = all
    BY <2>1 DEF SoFar
  <2>5. ScanSoFar'
    BY <2>0, <2>1, <2>4 DEF ScanSoFar, AllKept
  <2>6. ScanComplete' /\ FileSafe'
    BY <2>0, <2>1, <1>4, FileStays DEF ScanComplete, Done
  <2> QED BY <2>2, <2>3, <2>5, <2>6, <2>7 DEF CommandInv
<1>6. CASE rest = << >> /\ Len(all) < Len(command.targets)
  <2>1. /\ results' = all /\ list' = << >> /\ todo' = <<command.targets[Len(all) + 1]>>
        /\ at' = [phase |-> "get", n |-> 0]
        /\ shown' = shown /\ file' = file /\ disk' = disk /\ outcome' = "none"
        /\ command' = command /\ open' = open
    BY <1>6, <1>1 DEF Visit, Await, output
  <2>0. at' \in [phase : Phases, n : 0..Intervals] /\ at'.phase = "get" /\ at'.n = 0 /\ at' # Idle
    BY <2>1, <1>3, AwaitTypes DEF Phases
  <2>2. command.targets[Len(all) + 1] \in Keys
    BY <1>1, <1>2, <1>6
  <2>3. todo' \in Seq(Keys) /\ todo' # << >> /\ list' \in Lists
    BY <2>1, <2>2 DEF Lists
  <2>4. TypeOK'
    BY <2>1, <2>3, <1>1, <1>2, <1>3, <1>4, <2>0 DEF TypeOK, Logs
  <2>5. AtUse'
    BY <2>0, <2>1, <2>3, <1>1, <1>6 DEF AtUse, Scanning
  <2>12. SessionClosed'
    BY <2>0, <1>3, StillOpen
  <2>6. SoFar' = Append(all, << >>)
    BY <2>1 DEF SoFar
  <2>7. \A e : Holds(SoFar', e) <=> Holds(all, e)
    <3>1. Nothing \in Requests \cup {Nothing}
      OBVIOUS
    <3> QED BY <2>6, <3>1, <1>1, HoldsLonger DEF Lists
  <2>8. AllKept(SoFar', log')
    BY <2>7 DEF AllKept, Kept
  <2>9. AllFollowed(SoFar', log', todo')
    <3>1. \A e : Holds(SoFar', e) => Followed(log', << >>, e)
      BY <2>7, <1>6, FollowedAll
    <3>2. \A e : Followed(log', << >>, e) => Followed(log', todo', e)
      BY DEF Followed, Due
    <3> QED BY <3>1, <3>2, FollowedAll
  <2>10. ScanSoFar'
    BY <2>0, <2>8, <2>9 DEF ScanSoFar, AllKept
  <2>11. ScanComplete' /\ FileSafe'
    BY <2>0, <2>1, <1>4, FileStays DEF ScanComplete, Done
  <2> QED BY <2>4, <2>5, <2>10, <2>11, <2>12 DEF CommandInv
<1>7. CASE rest = << >> /\ ~(Len(all) < Len(command.targets))
  <2>1. Write(all) /\ command' = command /\ open' = open
    BY <1>7 DEF Visit
  <2>2. << >> \in Seq(Keys) /\ << >> \in Lists /\ << >> \in Seq(Lists)
    BY DEF Lists
  <2>3. Len(all) = Len(command.targets)
    BY <1>1, <1>2, <1>7
  <2>4. AllKept(all, log') /\ AllFollowed(all, log', << >>)
    BY <1>7
  <2> HIDE DEF all
  <2>5. CASE Finish("done") /\ shown' = all /\ UNCHANGED <<file, disk>> /\ command.stdout
    <3>1. /\ at' = [phase |-> "close", n |-> 0] /\ outcome' = "done"
          /\ todo' = << >> /\ list' = << >> /\ results' = << >>
      BY <2>5 DEF Await, Finish
    <3>2. at' \in [phase : Phases, n : 0..Intervals] /\ at'.phase = "close" /\ at'.n = 0 /\ at' # Idle
      BY <3>1, <1>3, AwaitTypes DEF Phases
    <3>3. TypeOK'
      BY <2>1, <2>2, <2>5, <3>1, <3>2, <1>1, <1>2, <1>4 DEF TypeOK, Logs
    <3>4. AtUse' /\ ScanSoFar'
      BY <3>1, <3>2 DEF AtUse, Scanning, ScanSoFar
    <3>5. SessionClosed'
      BY <3>2, <1>3, StillOpen
    <3>6. Result' = all
      BY <2>1, <2>5 DEF Result
    <3>7. ScanComplete'
      BY <2>1, <2>3, <2>4, <3>6 DEF ScanComplete
    <3>8. FileSafe'
      BY <2>1, <2>5, <1>4, FileStays
    <3> QED BY <3>3, <3>4, <3>5, <3>7, <3>8 DEF CommandInv
  <2>6. CASE /\ ~command.stdout /\ Await("write", 0) /\ todo' = << >> /\ list' = << >> /\ results' = << >>
             /\ file' = all /\ disk' = "part" /\ UNCHANGED <<shown, outcome>>
    <3>1. at' \in [phase : Phases, n : 0..Intervals] /\ at'.phase = "write" /\ at'.n = 0 /\ at' # Idle
      BY <2>6, <1>3, AwaitTypes DEF Await, Phases
    <3>2. TypeOK'
      BY <2>1, <2>2, <2>6, <3>1, <1>1, <1>2, <1>4 DEF TypeOK, Logs
    <3>3. AtUse' /\ ScanSoFar'
      BY <2>1, <2>6, <3>1, <1>1 DEF AtUse, Scanning, ScanSoFar
    <3>4. SessionClosed'
      BY <3>1, <1>3, StillOpen
    <3>5. ScanComplete'
      BY <2>6, <1>1 DEF ScanComplete, Done
    <3>6. FileSafe'
      BY <2>1, <2>3, <2>4, <2>6, <3>1, <1>1 DEF FileSafe, Done
    <3> QED BY <3>2, <3>3, <3>4, <3>5, <3>6 DEF CommandInv
  <2>7. CASE Fails
    <3>1. /\ at' = [phase |-> "close", n |-> 0] /\ outcome' = "failed" /\ UNCHANGED <<shown, file, disk>>
          /\ todo' = << >> /\ list' = << >> /\ results' = << >>
      BY <2>7 DEF Fails, Await, Finish, output
    <3>2. at' \in [phase : Phases, n : 0..Intervals] /\ at'.phase = "close" /\ at'.n = 0 /\ at' # Idle
      BY <3>1, <1>3, AwaitTypes DEF Phases
    <3>3. TypeOK'
      BY <2>1, <2>2, <3>1, <3>2, <1>1, <1>4 DEF TypeOK, Logs
    <3>4. AtUse' /\ ScanSoFar' /\ ScanComplete'
      BY <3>1, <3>2 DEF AtUse, Scanning, ScanSoFar, ScanComplete, Done
    <3>5. SessionClosed'
      BY <3>2, <1>3, StillOpen
    <3>6. FileSafe'
      BY <3>1, <1>4, FileStays
    <3> QED BY <3>3, <3>4, <3>5, <3>6 DEF CommandInv
  <2> QED BY <2>1, <2>5, <2>6, <2>7 DEF Write
<1> QED BY <1>5, <1>6, <1>7

LEMMA FollowedLess ==
  ASSUME NEW seq \in Seq(Keys), seq # << >>, NEW lg, Asked(lg, Entry(Head(seq), "get", 0)),
         NEW rest, \A k : Due(Tail(seq), k) => Due(rest, k), NEW e, Followed(lg, seq, e)
  PROVE  Followed(lg, rest, e)
<1>1. \A k : Due(seq, k) => Asked(lg, Entry(k, "get", 0)) \/ Due(rest, k)
  BY DueTail
<1> QED BY <1>1, Zenon DEF Followed

\* The same for a call that adds the answer itself.
LEMMA KeepKeeps ==
  ASSUME TypeOK, AtUse, SessionClosed, FileSafe, Scanning, NEW lst \in Lists, Keep(lst),
         log' \in Logs, UNCHANGED <<command, open>>,
         \A i \in DOMAIN log' : log'[i].st = "ok" =>
           Kept(Append(results, lst), log', log'[i].entry) \/ log'[i].entry = Entry(Head(todo), "get", 0),
         AllFollowed(Append(results, lst), log', todo),
         Got(log', Entry(Head(todo), "get", 0), {"ok"})
  PROVE  CommandInv'
<1> DEFINE own == Entry(Head(todo), "get", 0)
           longer == Append(lst, own)
           rest == Refs[Head(todo)] \o Tail(todo)
<1>1. /\ todo \in Seq(Keys) /\ todo # << >> /\ results \in Seq(Lists)
      /\ Head(todo) \in Keys /\ Refs[Head(todo)] \in Seq(Keys) /\ Tail(todo) \in Seq(Keys)
  BY ScanTypes, DueTail
<1>2. own \in Requests /\ own.key = Head(todo)
  BY <1>1, DeviceAssumption DEF Entry, Requests
<1>3. longer \in Lists
  BY <1>2 DEF Lists
<1>4. /\ rest \in Seq(Keys) /\ \A k : Due(Tail(todo), k) => Due(rest, k)
      /\ \A r \in DOMAIN Refs[Head(todo)] : Due(rest, Refs[Head(todo)][r])
  BY <1>1, DueConcat
<1>5. \A e : Holds(Append(results, longer), e) <=> Holds(Append(results, lst), e) \/ e = own
  BY <1>1, <1>2, HoldsLonger DEF Lists
<1> HIDE DEF longer, rest
<1>6. AllKept(Append(results, longer), log')
  BY <1>5 DEF AllKept, Kept
<1>7. Asked(log', own)
  BY DEF Got, Asked
<1>8. ASSUME NEW e, Holds(Append(results, longer), e) PROVE Followed(log', rest, e)
  <2>1. CASE e = own
    BY <2>1, <1>2, <1>4 DEF Followed
  <2>2. CASE Holds(Append(results, lst), e)
    <3>1. Followed(log', todo, e)
      BY <2>2, FollowedAll
    <3> QED BY <3>1, <1>1, <1>4, <1>7, FollowedLess
  <2> QED BY <1>5, <1>8, <2>1, <2>2
<1>9. AllFollowed(Append(results, longer), log', rest)
  BY <1>8, FollowedAll
<1>10. Visit(longer, rest)
  BY DEF Keep, longer, rest
<1> QED BY <1>3, <1>4, <1>6, <1>9, <1>10, VisitKeeps

\* A command that ends, but not with a scan that is done.
LEMMA FinishKeeps ==
  ASSUME CommandInv, at # Idle, NEW how \in {"done", "failed", "unconnected", "cancelled"}, Finish(how),
         UNCHANGED <<command, open, file, disk>>, log' \in Logs, disk = "kept" \/ log' = log,
         shown' \in Seq(Lists), how = "done" => command.does # "scan"
  PROVE  CommandInv'
<1>1. /\ at' = [phase |-> "close", n |-> 0] /\ outcome' = how
      /\ todo' = << >> /\ list' = << >> /\ results' = << >> /\ command' = command /\ open' = open
  BY DEF Finish, Await
<1>2. at' \in [phase : Phases, n : 0..Intervals] /\ at'.phase = "close" /\ at'.n = 0 /\ at' # Idle
  BY <1>1, AwaitTypes, DeviceAssumption DEF Phases
<1>3. << >> \in Seq(Keys) /\ << >> \in Lists /\ << >> \in Seq(Lists)
  BY DEF Lists
<1>4. TypeOK'
  BY <1>1, <1>2, <1>3 DEF CommandInv, TypeOK, Logs
<1>5. AtUse' /\ ScanSoFar'
  BY <1>1, <1>2 DEF AtUse, Scanning, ScanSoFar
<1>6. SessionClosed'
  <2>1. open /\ command # NoCommand
    BY Zenon DEF CommandInv, SessionClosed
  <2> QED BY <2>1, <1>2, StillOpen
<1>7. ScanComplete'
  BY <1>1 DEF ScanComplete, Done
<1>8. FileSafe'
  BY <1>1, <1>2 DEF CommandInv, FileSafe, Done
<1> QED BY <1>4, <1>5, <1>6, <1>7, <1>8 DEF CommandInv

\* Every answer is appended to the log.
LEMMA AnswerTypes ==
  ASSUME CommandInv, NEW p \in Phases \ {"idle", "check", "pause", "write", "close"}, NEW st \in Outcomes, Answer(p, st)
  PROVE  /\ at # Idle /\ todo \in Seq(Keys) /\ todo # << >> /\ Head(todo) \in Keys
         /\ UNCHANGED <<command, open>> /\ log \in Logs /\ log' \in Logs /\ disk = "kept"
         /\ Entry(Head(todo), p, at.n) \in Requests
         /\ \A e, S : Got(log', e, S) <=> Got(log, e, S) \/ (e = Entry(Head(todo), p, at.n) /\ st \in S)
         /\ \A e : Asked(log', e) <=> Asked(log, e) \/ e = Entry(Head(todo), p, at.n)
         /\ \A i \in DOMAIN log' : \/ log'[i] = [entry |-> Entry(Head(todo), p, at.n), st |-> st]
                                   \/ \E j \in DOMAIN log : log'[i] = log[j]
<1>1. /\ at.phase = p /\ log \in Logs /\ at \in [phase : Phases, n : 0..Intervals]
      /\ log' = Append(log, [entry |-> Entry(Head(todo), p, at.n), st |-> st])
      /\ UNCHANGED <<command, open>> /\ todo \in Seq(Keys)
  BY DEF CommandInv, TypeOK, Answer, Logs
<1>2. at # Idle /\ todo # << >>
  BY <1>1 DEF Idle, CommandInv, AtUse, Scanning, Phases
<1>3. Head(todo) \in Keys
  BY <1>1, <1>2, DueTail
<1>4. Entry(Head(todo), p, at.n) \in Requests
  BY <1>1, <1>3 DEF Entry, Requests, Phases
<1>6. disk = "kept"
  BY <1>1 DEF CommandInv, FileSafe
<1> DEFINE r == [entry |-> Entry(Head(todo), p, at.n), st |-> st]
<1>5. r \in [entry : Requests, st : Outcomes] /\ r.entry = Entry(Head(todo), p, at.n) /\ r.st = st
  BY <1>4
<1> QED BY <1>1, <1>2, <1>3, <1>4, <1>5, <1>6, LogGrows

LEMMA Grows ==
  ASSUME NEW lists, NEW lg, NEW lg2, NEW rest,
         \A e, S : Got(lg, e, S) => Got(lg2, e, S), \A e : Asked(lg, e) => Asked(lg2, e)
  PROVE  /\ \A e : Kept(lists, lg, e) => Kept(lists, lg2, e)
         /\ AllFollowed(lists, lg, rest) => AllFollowed(lists, lg2, rest)
<1>1. \A e : Followed(lg, rest, e) => Followed(lg2, rest, e)
  BY Zenon DEF Followed
<1> QED BY <1>1, FollowedAll DEF Kept

\* What holds of a scan after any answer, before its list grows.
LEMMA AfterAnswer ==
  ASSUME CommandInv, NEW p \in {"get", "page", "interval"}, NEW st \in Outcomes, Answer(p, st)
  PROVE  /\ Scanning /\ AllFollowed(SoFar, log', todo)
         /\ Got(log', Entry(Head(todo), "get", 0), IF p = "get" THEN {st} ELSE {"ok"})
         /\ \A i \in DOMAIN log' : log'[i].st = "ok" =>
              \/ Kept(SoFar, log', log'[i].entry)
              \/ p # "get" /\ log'[i].entry = Entry(Head(todo), "get", 0)
              \/ log'[i].entry = Entry(Head(todo), p, at.n) /\ st = "ok"
<1>1. at.phase = p /\ Scanning /\ p \in Phases \ {"idle", "check", "pause", "write", "close"}
  BY DEF Answer, Scanning, Phases
<1>2. p = "get" => at.n = 0
  BY <1>1 DEF CommandInv, AtUse
<1>3. \A e, S : Got(log', e, S) <=> Got(log, e, S) \/ (e = Entry(Head(todo), p, at.n) /\ st \in S)
  BY <1>1, AnswerTypes
<1>4. \A e : Asked(log, e) => Asked(log', e)
  BY <1>1, AnswerTypes
<1>5. \A i \in DOMAIN log' : \/ log'[i] = [entry |-> Entry(Head(todo), p, at.n), st |-> st]
                             \/ \E j \in DOMAIN log : log'[i] = log[j]
  BY <1>1, AnswerTypes
<1>6. /\ \A i \in DOMAIN log : log[i].st = "ok" => Kept(SoFar, log, log[i].entry) \/ Pending(log[i].entry)
      /\ AllFollowed(SoFar, log, todo)
      /\ p # "get" => Got(log, Entry(Head(todo), "get", 0), {"ok"})
  BY <1>1, Zenon DEF CommandInv, ScanSoFar
<1>7. AllFollowed(SoFar, log', todo) /\ \A e : Kept(SoFar, log, e) => Kept(SoFar, log', e)
  <2>1. \A e, S : Got(log, e, S) => Got(log', e, S)
    BY <1>3
  <2> QED BY <2>1, <1>4, <1>6, Grows
<1>8. Got(log', Entry(Head(todo), "get", 0), IF p = "get" THEN {st} ELSE {"ok"})
  <2>1. CASE p = "get"
    BY <2>1, <1>2, <1>3
  <2>2. CASE p # "get"
    BY <2>2, <1>3, <1>6
  <2> QED BY <2>1, <2>2
<1>9. ASSUME NEW i \in DOMAIN log', log'[i].st = "ok"
      PROVE  \/ Kept(SoFar, log', log'[i].entry)
             \/ p # "get" /\ log'[i].entry = Entry(Head(todo), "get", 0)
             \/ log'[i].entry = Entry(Head(todo), p, at.n) /\ st = "ok"
  <2>1. CASE log'[i] = [entry |-> Entry(Head(todo), p, at.n), st |-> st]
    BY <2>1, <1>9
  <2>2. CASE \E j \in DOMAIN log : log'[i] = log[j]
    BY <2>2, <1>1, <1>6, <1>7, <1>9 DEF Pending
  <2> QED BY <1>5, <2>1, <2>2
<1> QED BY <1>1, <1>7, <1>8, <1>9

\* A branch that is refused.
LEMMA BranchKeeps ==
  ASSUME CommandInv, NEW p \in {"get", "page"}, NEW st \in Swallowed, Answer(p, st),
         Visit(list, Tail(todo)),
         p = "page" => Kept(SoFar, log', Entry(Head(todo), "get", 0))
  PROVE  CommandInv'
<1>1. st \in Outcomes /\ st # "ok" /\ p \in Phases \ {"idle", "check", "pause", "write", "close"}
  BY DEF Swallowed, Outcomes, Phases
<1>2. /\ Scanning /\ AllFollowed(SoFar, log', todo) /\ Asked(log', Entry(Head(todo), "get", 0))
      /\ \A i \in DOMAIN log' : log'[i].st = "ok" => Kept(SoFar, log', log'[i].entry)
  <2>1. Got(log', Entry(Head(todo), "get", 0), IF p = "get" THEN {st} ELSE {"ok"})
    BY <1>1, AfterAnswer
  <2>2. Asked(log', Entry(Head(todo), "get", 0))
    BY <2>1 DEF Got, Asked
  <2> QED BY <2>2, <1>1, AfterAnswer
<1>3. /\ todo \in Seq(Keys) /\ todo # << >> /\ UNCHANGED <<command, open>> /\ log' \in Logs
  BY <1>1, AnswerTypes
<1>4. Tail(todo) \in Seq(Keys)
  BY <1>3, DueTail
<1>5. AllFollowed(SoFar, log', Tail(todo))
  <2>1. \A e : Holds(SoFar, e) => Followed(log', Tail(todo), e)
    BY <1>2, <1>3, FollowedAll, FollowedLess
  <2> QED BY <2>1, FollowedAll
<1>6. AllKept(SoFar, log')
  BY <1>2 DEF AllKept
<1> QED BY <1>2, <1>3, <1>4, <1>5, <1>6, VisitKeeps DEF CommandInv, TypeOK, SoFar

\* A resource that needs more than one request.
LEMMA WaitKeeps ==
  ASSUME CommandInv, Scanning, NEW lst \in Lists, NEW p \in {"page", "interval"}, NEW n \in 0..Intervals,
         Await(p, n), list' = lst, UNCHANGED <<todo, results, output, outcome, command, open>>,
         p = "page" => Head(todo) \in Histories /\ n = 0,
         p = "interval" => Head(todo) \in Recorders /\ n # 0,
         log' \in Logs,
         \A i \in DOMAIN log' : log'[i].st = "ok" =>
           Kept(Append(results, lst), log', log'[i].entry) \/ log'[i].entry = Entry(Head(todo), "get", 0),
         AllFollowed(Append(results, lst), log', todo),
         Got(log', Entry(Head(todo), "get", 0), {"ok"})
  PROVE  CommandInv'
<1>1. /\ command \in Commands /\ command.does = "scan" /\ todo \in Seq(Keys) /\ todo # << >>
      /\ results \in Seq(Lists) /\ Len(results) < Len(command.targets) /\ outcome = "none"
  BY ScanTypes DEF CommandInv
<1>2. /\ todo' = todo /\ results' = results /\ shown' = shown /\ file' = file /\ disk' = disk
      /\ outcome' = "none" /\ command' = command /\ open' = open
  BY <1>1 DEF output
<1>3. at' \in [phase : Phases, n : 0..Intervals] /\ at'.phase = p /\ at'.n = n /\ at' # Idle
  BY AwaitTypes DEF Await, Phases
<1>4. TypeOK'
  BY <1>1, <1>2, <1>3 DEF CommandInv, TypeOK, Logs
<1>5. AtUse'
  BY <1>1, <1>2, <1>3 DEF AtUse, Scanning
<1>6. SessionClosed'
  <2>0. at # Idle
    BY DEF Scanning, Idle
  <2>1. open /\ command # NoCommand
    BY <2>0, Zenon DEF CommandInv, SessionClosed
  <2> QED BY <2>1, <1>3, StillOpen
<1>7. SoFar' = Append(results, lst) /\ \A e : Pending(e)' <=> e = Entry(Head(todo), "get", 0)
  BY <1>2, <1>3 DEF SoFar, Pending
<1>8. ScanSoFar'
  BY <1>2, <1>7 DEF ScanSoFar
<1>9. ScanComplete'
  BY <1>2 DEF ScanComplete, Done
<1>10. FileSafe'
  <2>1. disk = "kept"
    BY DEF CommandInv, FileSafe, Scanning
  <2> QED BY <1>2, <2>1, FileStays
<1> QED BY <1>4, <1>5, <1>6, <1>8, <1>9, <1>10 DEF CommandInv

\* What a list that has grown by an entry x holds, and what must be true of x.
LEMMA LongerList ==
  ASSUME CommandInv, Scanning, NEW x \in Requests \cup {Nothing}, NEW lg,
         AllFollowed(SoFar, lg, todo),
         x # Nothing => x.part # "get" /\ Got(lg, x, {"ok"})
  PROVE  /\ Append(list, x) \in Lists
         /\ \A e : Kept(SoFar, lg, e) \/ e = x => Kept(Append(results, Append(list, x)), lg, e)
         /\ AllFollowed(Append(results, Append(list, x)), lg, todo)
<1>1. list \in Lists /\ results \in Seq(Lists)
  BY DEF CommandInv, TypeOK
<1>2. \A e : Holds(Append(results, Append(list, x)), e) <=> Holds(SoFar, e) \/ e = x
  BY <1>1, HoldsLonger DEF Lists, SoFar
<1>3. \A e : Holds(SoFar, e) => Followed(lg, todo, e)
  BY FollowedAll
<1>4. Followed(lg, todo, x)
  BY DEF Followed
<1>5. AllFollowed(Append(results, Append(list, x)), lg, todo)
  BY <1>2, <1>3, <1>4, FollowedAll
<1>6. \A e : Kept(SoFar, lg, e) \/ e = x => Kept(Append(results, Append(list, x)), lg, e)
  BY <1>2 DEF Kept
<1>7. Append(list, x) \in Lists
  BY <1>1 DEF Lists
<1> QED BY <1>5, <1>6, <1>7

LEMMA FailsKeeps ==
  ASSUME CommandInv, NEW p \in Phases \ {"idle", "check", "pause", "write", "close"}, NEW st \in Outcomes,
         Answer(p, st), Fails
  PROVE  CommandInv'
<1>1. Finish("failed") /\ shown' \in Seq(Lists) /\ UNCHANGED <<file, disk>>
  BY DEF Fails, CommandInv, TypeOK, output
<1>2. at # Idle /\ UNCHANGED <<command, open>> /\ log' \in Logs /\ disk = "kept"
  BY AnswerTypes
<1> QED BY <1>1, <1>2, FinishKeeps

LEMMA ResourceKeeps ==
  ASSUME CommandInv, NEW st \in Outcomes, ResourceAnswered(st)
  PROVE  CommandInv'
<1> DEFINE own == Entry(Head(todo), "get", 0)
<1>1. Answer("get", st) /\ at.phase = "get" /\ "get" \in Phases \ {"idle", "check", "pause", "write", "close"}
  BY DEF ResourceAnswered, Answer, Phases
<1>2. /\ todo \in Seq(Keys) /\ todo # << >> /\ Head(todo) \in Keys
      /\ UNCHANGED <<command, open>> /\ log' \in Logs
  BY <1>1, AnswerTypes
<1>3. CASE st \in Swallowed
  <2>1. Visit(list, Tail(todo))
    BY <1>3 DEF ResourceAnswered, Swallowed
  <2> QED BY <2>1, <1>1, <1>3, BranchKeeps
<1>4. CASE st \in {"void", "auth"}
  <2>1. Fails
    BY <1>4 DEF ResourceAnswered, Swallowed
  <2> QED BY <2>1, <1>1, FailsKeeps
<1>5. CASE st = "ok"
  <2>0. at.n = 0
    BY <1>1 DEF CommandInv, AtUse
  <2>1. /\ Scanning /\ AllFollowed(SoFar, log', todo) /\ Got(log', own, {"ok"})
        /\ \A i \in DOMAIN log' : log'[i].st = "ok" =>
             Kept(SoFar, log', log'[i].entry) \/ log'[i].entry = own
    BY <1>1, <1>5, <2>0, AfterAnswer
  <2>2. list \in Lists /\ SoFar = Append(results, list)
    BY DEF CommandInv, TypeOK, SoFar
  <2>3. CASE Head(todo) \in Histories
    <3>1. Await("page", 0) /\ UNCHANGED <<todo, list, results, output, outcome>>
      BY <1>5, <2>3, DeviceAssumption DEF ResourceAnswered, Swallowed
    <3>2. 0 \in 0..Intervals
      BY DeviceAssumption
    <3> QED BY <3>1, <3>2, <2>1, <2>2, <2>3, <1>2, WaitKeeps
  <2>4. CASE Head(todo) \in Recorders
    <3>1. GoOn(1, list)
      BY <1>5, <2>4, DeviceAssumption DEF ResourceAnswered, Swallowed
    <3>2. 1 \in 0..Intervals
      BY DeviceAssumption
    <3> QED BY <3>1, <3>2, <2>1, <2>2, <2>4, <1>2, WaitKeeps DEF GoOn
  <2>5. CASE Head(todo) \notin Histories /\ Head(todo) \notin Recorders
    <3>1. Keep(list)
      BY <1>5, <2>5 DEF ResourceAnswered, Swallowed
    <3> QED BY <3>1, <2>1, <2>2, <1>2, KeepKeeps DEF CommandInv
  <2> QED BY <2>3, <2>4, <2>5
<1> QED BY <1>3, <1>4, <1>5 DEF Outcomes, Swallowed

LEMMA PageKeeps ==
  ASSUME CommandInv, NEW st \in Outcomes, PageAnswered(st)
  PROVE  CommandInv'
<1> DEFINE own == Entry(Head(todo), "get", 0)
           page == Entry(Head(todo), "page", 0)
<1>1. Answer("page", st) /\ at.phase = "page" /\ "page" \in Phases \ {"idle", "check", "pause", "write", "close"}
  BY DEF PageAnswered, Answer, Phases
<1>2. at.n = 0
  BY <1>1 DEF CommandInv, AtUse
<1>3. /\ Head(todo) \in Keys /\ UNCHANGED <<command, open>> /\ log' \in Logs /\ page \in Requests
      /\ \A S : st \in S => Got(log', page, S)
  BY <1>1, <1>2, AnswerTypes
<1>4. /\ Scanning /\ AllFollowed(SoFar, log', todo) /\ Got(log', own, {"ok"})
      /\ \A i \in DOMAIN log' : log'[i].st = "ok" =>
           \/ Kept(SoFar, log', log'[i].entry) \/ log'[i].entry = own
           \/ log'[i].entry = page /\ st = "ok"
  BY <1>1, <1>2, AfterAnswer
<1>5. CASE st = "ok"
  <2>1. Keep(Append(list, page))
    BY <1>5 DEF PageAnswered, Swallowed
  <2>2. page \in Requests \cup {Nothing} /\ page.part # "get" /\ Got(log', page, {"ok"})
    BY <1>3, <1>5 DEF Entry
  <2> QED BY <2>1, <2>2, <1>3, <1>4, LongerList, KeepKeeps DEF CommandInv
<1>6. CASE st \in Swallowed
  <2>1. Visit(list, Tail(todo))
    BY <1>6 DEF PageAnswered, Swallowed
  <2>2. Kept(SoFar, log', own)
    BY <1>3, <1>6 DEF Kept, Entry
  <2> QED BY <2>1, <2>2, <1>1, <1>6, BranchKeeps
<1>7. CASE st \in {"void", "auth"}
  <2>1. Fails
    BY <1>7 DEF PageAnswered, Swallowed
  <2> QED BY <2>1, <1>1, FailsKeeps
<1> QED BY <1>5, <1>6, <1>7 DEF Outcomes, Swallowed

LEMMA IntervalKeeps ==
  ASSUME CommandInv, NEW st \in Outcomes, IntervalAnswered(st)
  PROVE  CommandInv'
<1> DEFINE own == Entry(Head(todo), "get", 0)
           part == Entry(Head(todo), "interval", at.n)
           lst == CASE st = "ok" -> Append(list, part)
                    [] st = "void" -> Append(list, Nothing)
                    [] OTHER -> list
<1>1. Answer("interval", st) /\ at.phase = "interval" /\ "interval" \in Phases \ {"idle", "check", "pause", "write", "close"}
  BY DEF IntervalAnswered, Answer, Phases
<1>2. /\ Head(todo) \in Keys /\ UNCHANGED <<command, open>> /\ log' \in Logs /\ part \in Requests
      /\ \A S : st \in S => Got(log', part, S)
  BY <1>1, AnswerTypes
<1>3. /\ Scanning /\ AllFollowed(SoFar, log', todo) /\ Got(log', own, {"ok"})
      /\ \A i \in DOMAIN log' : log'[i].st = "ok" =>
           \/ Kept(SoFar, log', log'[i].entry) \/ log'[i].entry = own
           \/ log'[i].entry = part /\ st = "ok"
  BY <1>1, AfterAnswer
<1>4. /\ lst \in Lists /\ AllFollowed(Append(results, lst), log', todo)
      /\ \A i \in DOMAIN log' : log'[i].st = "ok" =>
           Kept(Append(results, lst), log', log'[i].entry) \/ log'[i].entry = own
  <2>1. CASE st = "ok"
    <3>1. part \in Requests \cup {Nothing} /\ part.part # "get" /\ Got(log', part, {"ok"})
      BY <1>2, <2>1 DEF Entry
    <3> QED BY <3>1, <2>1, <1>3, LongerList
  <2>2. CASE st = "void"
    <3>1. Nothing \in Requests \cup {Nothing}
      OBVIOUS
    <3> QED BY <3>1, <2>2, <1>3, LongerList
  <2>3. CASE st \notin {"ok", "void"}
    BY <2>3, <1>3 DEF CommandInv, TypeOK, SoFar
  <2> QED BY <2>1, <2>2, <2>3
<1> HIDE DEF lst
<1>5. \/ st = "auth" /\ Fails
      \/ st # "auth" /\ at.n < Intervals /\ GoOn(at.n + 1, lst)
      \/ st # "auth" /\ at.n = Intervals /\ Keep(lst)
  BY DEF IntervalAnswered, lst
<1>6. CASE st = "auth" /\ Fails
  BY <1>1, <1>6, FailsKeeps
<1>7. CASE st # "auth" /\ at.n < Intervals /\ GoOn(at.n + 1, lst)
  <2>1. Head(todo) \in Recorders /\ at.n \in 0..Intervals
    BY <1>1 DEF CommandInv, AtUse, TypeOK
  <2>2. at.n + 1 \in 0..Intervals /\ at.n + 1 # 0
    BY <2>1, <1>7, DeviceAssumption
  <2> QED BY <2>1, <2>2, <1>2, <1>3, <1>4, <1>7, WaitKeeps DEF GoOn
<1>8. CASE st # "auth" /\ at.n = Intervals /\ Keep(lst)
  BY <1>2, <1>3, <1>4, <1>8, KeepKeeps DEF CommandInv
<1> QED BY <1>5, <1>6, <1>7, <1>8

LEMMA QueryKeeps ==
  ASSUME CommandInv, NEW st \in Outcomes, QueryAnswered(st)
  PROVE  CommandInv'
<1>1. Answer("query", st) /\ at.phase = "query" /\ "query" \in Phases \ {"idle", "check", "pause", "write", "close"}
  BY DEF QueryAnswered, Answer, Phases
<1>2. /\ at # Idle /\ UNCHANGED <<command, open>> /\ log' \in Logs /\ todo \in Seq(Keys) /\ todo # << >>
      /\ Entry(Head(todo), "query", 0) \in Requests /\ disk = "kept"
  <2>1. at.n = 0
    BY <1>1 DEF CommandInv, AtUse
  <2> QED BY <2>1, <1>1, AnswerTypes
<1>3. CASE Fails
  BY <1>1, <1>3, FailsKeeps
<1>4. CASE ~Fails
  <2>1. /\ list' = IF st = "ok" THEN Append(list, Entry(Head(todo), "query", 0)) ELSE list
        /\ at' = [phase |-> "pause", n |-> 0] /\ todo' = todo /\ results' = results
        /\ shown' = shown /\ file' = file /\ disk' = disk /\ outcome' = outcome
    BY <1>4 DEF QueryAnswered, Await, output
  <2>2. at' \in [phase : Phases, n : 0..Intervals] /\ at'.phase = "pause" /\ at'.n = 0 /\ at' # Idle
    BY <2>1, AwaitTypes, DeviceAssumption DEF Phases
  <2>3. list' \in Lists /\ command.does = "query" /\ outcome = "none"
    BY <2>1, <1>1, <1>2 DEF CommandInv, TypeOK, AtUse, Lists
  <2>4. TypeOK'
    BY <2>1, <2>2, <2>3, <1>2 DEF CommandInv, TypeOK, Logs
  <2>5. AtUse' /\ ScanSoFar' /\ ScanComplete'
    BY <2>1, <2>2, <2>3, <1>2 DEF AtUse, Scanning, ScanSoFar, ScanComplete, Done
  <2>6. SessionClosed'
    <3>1. open /\ command # NoCommand
      BY <1>2, Zenon DEF CommandInv, SessionClosed
    <3> QED BY <3>1, <2>2, <1>2, StillOpen
  <2>7. FileSafe'
    BY <1>2, <2>1, <2>3, FileStays
  <2> QED BY <2>4, <2>5, <2>6, <2>7 DEF CommandInv
<1> QED BY <1>3, <1>4

LEMMA SleptKeeps ==
  ASSUME CommandInv, Slept
  PROVE  CommandInv'
<1>1. /\ at.phase = "pause" /\ command.does = "query" /\ outcome = "none" /\ todo \in Seq(Keys) /\ todo # << >>
      /\ UNCHANGED <<command, open, log>> /\ log \in Logs /\ list \in Lists /\ shown \in Seq(Lists)
      /\ disk = "kept"
  BY DEF CommandInv, TypeOK, AtUse, FileSafe, Slept, Logs
<1>2. at # Idle
  BY <1>1 DEF Idle
<1>3. CASE Len(todo) > 1
  <2>1. /\ at' = [phase |-> "query", n |-> 0] /\ todo' = Tail(todo) /\ results' = results /\ list' = list
        /\ shown' = shown /\ file' = file /\ disk' = disk /\ outcome' = outcome
    BY <1>3 DEF Slept, Await, output
  <2>2. at' \in [phase : Phases, n : 0..Intervals] /\ at'.phase = "query" /\ at'.n = 0 /\ at' # Idle
    BY <2>1, AwaitTypes, DeviceAssumption DEF Phases
  <2>3. todo' \in Seq(Keys) /\ todo' # << >>
    <3>1. Len(Tail(todo)) = Len(todo) - 1 /\ Tail(todo) \in Seq(Keys) /\ todo \in Seq(Keys)
      BY <1>1
    <3>2. Len(todo) \in Nat /\ \A n \in Nat : n > 1 => n - 1 # 0
      BY <3>1
    <3>3. Len(todo) - 1 # 0
      BY <3>2, <1>3, Zenon
    <3>4. Len(<< >>) = 0
      OBVIOUS
    <3>5. Tail(todo) # << >>
      BY <3>1, <3>3, <3>4
    <3> QED BY <3>1, <3>5, <2>1
  <2>4. TypeOK'
    BY <2>1, <2>2, <2>3, <1>1 DEF CommandInv, TypeOK
  <2>5. AtUse' /\ ScanSoFar' /\ ScanComplete'
    BY <2>1, <2>2, <2>3, <1>1 DEF AtUse, Scanning, ScanSoFar, ScanComplete, Done
  <2>6. SessionClosed'
    <3>1. open /\ command # NoCommand
      BY <1>2, Zenon DEF CommandInv, SessionClosed
    <3> QED BY <3>1, <2>2, <1>1, StillOpen
  <2>7. FileSafe'
    BY <1>1, <2>1, FileStays
  <2> QED BY <2>4, <2>5, <2>6, <2>7 DEF CommandInv
<1>4. CASE ~(Len(todo) > 1)
  <2>1. shown' = <<list>> /\ UNCHANGED <<file, disk>> /\ Finish("done")
    BY <1>4 DEF Slept
  <2>2. shown' \in Seq(Lists)
    BY <2>1, <1>1
  <2> QED BY <2>1, <2>2, <1>1, <1>2, FinishKeeps
<1> QED BY <1>3, <1>4

LEMMA PutKeeps ==
  ASSUME CommandInv, NEW st \in Outcomes, PutAnswered(st)
  PROVE  CommandInv'
<1>1. Answer("put", st) /\ at.phase = "put" /\ "put" \in Phases \ {"idle", "check", "pause", "write", "close"}
  BY DEF PutAnswered, Answer, Phases
<1>2. /\ at # Idle /\ UNCHANGED <<command, open>> /\ log' \in Logs /\ disk = "kept"
      /\ Entry(Head(todo), "put", 0) \in Requests
  <2>1. at.n = 0
    BY <1>1 DEF CommandInv, AtUse
  <2> QED BY <2>1, <1>1, AnswerTypes
<1>3. CASE Fails
  BY <1>1, <1>3, FailsKeeps
<1>4. CASE ~Fails
  <2>1. shown' = << <<PutResult(st)>> >> /\ UNCHANGED <<file, disk>> /\ Finish("done")
    BY <1>4 DEF PutAnswered
  <2>2. command.does = "put"
    BY <1>1 DEF CommandInv, AtUse
  <2>3. shown' \in Seq(Lists)
    BY <2>1, <1>2 DEF Lists, PutResult
  <2> QED BY <2>1, <2>2, <2>3, <1>2, FinishKeeps
<1> QED BY <1>3, <1>4

\* The first steps of a command.
LEMMA BeginKeeps ==
  ASSUME NEW c \in Commands, Begin(c), command' = c, open' = TRUE,
         shown' \in Seq(Lists), file' \in Seq(Lists), disk' = "kept", log' = << >>, c # NoCommand
  PROVE  CommandInv'
<1>1. c.does \in {"scan", "query", "put"} /\ c.targets \in Seq(Keys) /\ c.targets # << >>
  BY CommandAssumption
<1>2. << >> \in Logs /\ << >> \in Lists /\ << >> \in Seq(Lists) /\ << >> \in Seq(Keys) /\ DOMAIN << >> = {}
  BY DEF Logs, Lists
<1>3. CASE Finish("failed")
  <2>1. /\ at' = [phase |-> "close", n |-> 0] /\ outcome' = "failed"
        /\ todo' = << >> /\ list' = << >> /\ results' = << >>
    BY <1>3 DEF Finish, Await
  <2>2. at' \in [phase : Phases, n : 0..Intervals] /\ at'.phase = "close" /\ at'.n = 0 /\ at' # Idle
    BY <2>1, AwaitTypes, DeviceAssumption DEF Phases
  <2>3. TypeOK'
    BY <2>1, <2>2, <1>2 DEF TypeOK, Logs
  <2>4. AtUse' /\ ScanSoFar' /\ ScanComplete'
    BY <2>1, <2>2 DEF AtUse, Scanning, ScanSoFar, ScanComplete, Done
  <2>5. SessionClosed'
    BY <2>2, Zenon DEF SessionClosed, Idle, NoCommand
  <2>6. FileSafe'
    BY <2>1, FileStays
  <2> QED BY <2>3, <2>4, <2>5, <2>6 DEF CommandInv
<1>4. CASE ~Finish("failed")
  <2> DEFINE p == IF c.does = "scan" THEN "get" ELSE c.does
  <2>1. /\ at' = [phase |-> p, n |-> 0] /\ outcome' = "none" /\ list' = << >> /\ results' = << >>
        /\ todo' = IF c.does = "query" THEN c.targets ELSE <<Head(c.targets)>>
    BY <1>4 DEF Begin, Await
  <2>2. p \in Phases /\ p # "idle" /\ p \in {"get", "query", "put"}
    BY <1>1 DEF Phases
  <2>3. at' \in [phase : Phases, n : 0..Intervals] /\ at'.phase = p /\ at'.n = 0 /\ at' # Idle
    BY <2>1, <2>2, AwaitTypes, DeviceAssumption
  <2>4. todo' \in Seq(Keys) /\ todo' # << >>
    <3>1. Head(c.targets) \in Keys
      BY <1>1, DueTail
    <3>2. <<Head(c.targets)>> \in Seq(Keys) /\ <<Head(c.targets)>> # << >>
      BY <3>1
    <3> QED BY <3>2, <2>1, <1>1
  <2>5. TypeOK'
    BY <2>1, <2>3, <2>4, <1>2 DEF TypeOK, Logs
  <2>6. AtUse'
    <3>1. Len(c.targets) > 0
      BY <1>1
    <3> QED BY <3>1, <2>1, <2>2, <2>3, <2>4, <1>1 DEF AtUse, Scanning
  <2>7. SessionClosed'
    BY <2>3, Zenon DEF SessionClosed, Idle, NoCommand
  <2>8. ScanSoFar'
    <3>1. p \in {"get", "query", "put"} /\ SoFar' = << << >> >>
      BY <2>1, <2>2 DEF SoFar
    <3>2. \A e : ~Holds(SoFar', e)
      BY <3>1, <1>2 DEF Holds
    <3>3. AllFollowed(SoFar', log', todo')
      BY <3>2, FollowedAll
    <3> QED BY <3>3, <2>2, <2>3, <1>2 DEF ScanSoFar, Scanning
  <2>9. ScanComplete'
    BY <2>1 DEF ScanComplete, Done
  <2>10. FileSafe'
    BY <2>1, FileStays
  <2> QED BY <2>5, <2>6, <2>7, <2>8, <2>9, <2>10 DEF CommandInv
<1> QED BY <1>3, <1>4

LEMMA RunKeeps ==
  ASSUME CommandInv, NEW c \in Commands, Run(c)
  PROVE  CommandInv'
<1>1. /\ at = Idle /\ command' = c /\ open' = TRUE /\ shown' = << >> /\ file' = << >> /\ log' = << >>
      /\ disk' = "kept"
  BY DEF Run
<1>2. << >> \in Logs /\ << >> \in Seq(Lists)
  BY DEF Logs
<1>3. c # NoCommand
  BY CommandAssumption DEF NoCommand
<1>4. CASE c.does = "scan" /\ ~c.ignore
  <2>1. /\ at' = [phase |-> "check", n |-> 0] /\ outcome' = "none"
        /\ todo' = todo /\ list' = list /\ results' = results
    BY <1>4 DEF Run, Await
  <2>2. todo = << >> /\ list = << >> /\ results = << >>
    BY <1>1 DEF CommandInv, AtUse, Idle
  <2>3. at' \in [phase : Phases, n : 0..Intervals] /\ at'.phase = "check" /\ at'.n = 0 /\ at' # Idle
    BY <2>1, AwaitTypes, DeviceAssumption DEF Phases
  <2>4. TypeOK'
    BY <2>1, <2>3, <1>1, <1>2 DEF CommandInv, TypeOK, Logs
  <2>5. AtUse' /\ ScanSoFar' /\ ScanComplete'
    BY <2>1, <2>2, <2>3, <1>1, <1>4 DEF AtUse, Scanning, ScanSoFar, ScanComplete, Done
  <2>6. SessionClosed'
    BY <2>3, <1>1, <1>3, Zenon DEF SessionClosed, Idle, NoCommand
  <2>7. FileSafe'
    BY <1>1, <2>1, FileStays
  <2> QED BY <2>4, <2>5, <2>6, <2>7 DEF CommandInv
<1>5. CASE ~(c.does = "scan" /\ ~c.ignore)
  <2>1. Begin(c)
    BY <1>5 DEF Run
  <2> QED BY <2>1, <1>1, <1>2, <1>3, BeginKeeps
<1> QED BY <1>4, <1>5

LEMMA CheckedKeeps ==
  ASSUME CommandInv, NEW how \in {"uuid", "none", "raised"}, Checked(how)
  PROVE  CommandInv'
<1>1. /\ at.phase = "check" /\ UNCHANGED <<command, output, open, log>> /\ log = << >>
      /\ shown \in Seq(Lists) /\ file \in Seq(Lists) /\ << >> \in Logs /\ disk = "kept"
  BY DEF Checked, CommandInv, AtUse, TypeOK, FileSafe, Logs
<1>2. at # Idle
  BY <1>1 DEF Idle
<1>3. open = TRUE /\ command # NoCommand
  BY <1>2, Zenon DEF CommandInv, SessionClosed, TypeOK
<1>4. CASE Begin(command)
  <2>1. command \in Commands
    BY <1>3 DEF CommandInv, TypeOK
  <2> QED BY <2>1, <1>1, <1>3, <1>4, BeginKeeps DEF output
<1>5. CASE Finish("unconnected") \/ Finish("failed")
  BY <1>1, <1>2, <1>5, FinishKeeps DEF output
<1> QED BY <1>4, <1>5 DEF Checked

LEMMA ClosedKeeps ==
  ASSUME CommandInv, Closed
  PROVE  CommandInv'
<1>1. /\ at.phase = "close" /\ at' = [phase |-> "idle", n |-> 0] /\ open' = FALSE
      /\ UNCHANGED <<command, todo, list, results, shown, file, disk, outcome, log>>
  BY DEF Closed, Idle, output
<1>2. at' \in [phase : Phases, n : 0..Intervals] /\ at'.phase = "idle" /\ at'.n = 0
  BY <1>1, AwaitTypes, DeviceAssumption DEF Phases
<1>3. TypeOK'
  BY <1>1, <1>2 DEF CommandInv, TypeOK
<1>4. AtUse' /\ ScanSoFar'
  BY <1>1, <1>2 DEF CommandInv, AtUse, Scanning, ScanSoFar
<1>5. ScanComplete'
  BY <1>1 DEF CommandInv, ScanComplete, Done, Result
<1>6. outcome' # "killed" /\ at' = Idle
  BY <1>1 DEF CommandInv, AtUse, Idle
<1>7. SessionClosed'
  BY <1>1, <1>6, Zenon DEF SessionClosed, Idle
<1>8. FileSafe'
  BY <1>1, <1>2 DEF CommandInv, FileSafe, Done
<1> QED BY <1>3, <1>4, <1>5, <1>7, <1>8 DEF CommandInv

\* A result that is being written: it ends whole, or in part.
LEMMA WrittenKeeps ==
  ASSUME CommandInv, Written
  PROVE  CommandInv'
<1>1. /\ at.phase = "write" /\ disk = "part" /\ command.does = "scan" /\ ~command.stdout
      /\ Len(file) = Len(command.targets) /\ AllKept(file, log) /\ AllFollowed(file, log, << >>)
      /\ UNCHANGED <<command, shown, file, open, log>>
  BY DEF Written, CommandInv, AtUse, FileSafe
<1>2. at # Idle
  BY <1>1 DEF Idle
<1>3. CASE Finish("failed") /\ UNCHANGED disk
  <2>1. shown' \in Seq(Lists) /\ log' \in Logs
    BY <1>1 DEF CommandInv, TypeOK, Logs
  <2> QED BY <1>1, <1>2, <1>3, <2>1, FinishKeeps
<1>4. ASSUME NEW how \in {"done", "cancelled"}, Finish(how), disk' = "whole"
      PROVE  CommandInv'
  <2>1. /\ at' = [phase |-> "close", n |-> 0] /\ outcome' = how
        /\ todo' = << >> /\ list' = << >> /\ results' = << >>
    BY <1>4 DEF Await, Finish
  <2>2. at' \in [phase : Phases, n : 0..Intervals] /\ at'.phase = "close" /\ at'.n = 0 /\ at' # Idle
    BY <2>1, AwaitTypes, DeviceAssumption DEF Phases
  <2>3. << >> \in Seq(Keys) /\ << >> \in Lists /\ << >> \in Seq(Lists)
    BY DEF Lists
  <2>4. TypeOK'
    BY <1>1, <1>4, <2>1, <2>2, <2>3 DEF CommandInv, TypeOK
  <2>5. AtUse' /\ ScanSoFar'
    BY <2>1, <2>2 DEF AtUse, Scanning, ScanSoFar
  <2>6. SessionClosed'
    <3>1. open /\ command # NoCommand
      BY <1>2, Zenon DEF CommandInv, SessionClosed
    <3> QED BY <1>1, <2>2, <3>1, StillOpen
  <2>7. ScanComplete'
    BY <1>1 DEF ScanComplete, Done, Result
  <2>8. FileSafe'
    BY <1>1, <1>4, <2>2 DEF FileSafe
  <2> QED BY <2>4, <2>5, <2>6, <2>7, <2>8 DEF CommandInv
<1> QED BY <1>3, <1>4 DEF Written

\* A process that is killed leaves everything as it is.
LEMMA GoneKeeps ==
  ASSUME CommandInv, at # Idle, Gone, UNCHANGED <<command, output, open, log>>
  PROVE  CommandInv'
<1>1. /\ outcome' = "killed" /\ at' = [phase |-> "idle", n |-> 0]
      /\ todo' = << >> /\ list' = << >> /\ results' = << >>
      /\ UNCHANGED <<command, shown, file, disk, open, log>>
  BY DEF Gone, Idle, output
<1>2. at' \in [phase : Phases, n : 0..Intervals] /\ at'.phase = "idle" /\ at'.n = 0
  BY <1>1, AwaitTypes, DeviceAssumption DEF Phases
<1>3. << >> \in Seq(Keys) /\ << >> \in Lists /\ << >> \in Seq(Lists)
  BY DEF Lists
<1>4. TypeOK'
  BY <1>1, <1>2, <1>3 DEF CommandInv, TypeOK
<1>5. AtUse' /\ ScanSoFar' /\ ScanComplete'
  BY <1>1, <1>2 DEF AtUse, Scanning, ScanSoFar, ScanComplete, Done
<1>6. open = TRUE
  BY Zenon DEF CommandInv, SessionClosed, TypeOK
<1>7. at' = Idle
  BY <1>1 DEF Idle
<1>8. SessionClosed'
  BY <1>1, <1>6, <1>7, Zenon DEF SessionClosed, Idle
<1>9. FileSafe'
  BY <1>1, <1>2 DEF CommandInv, FileSafe, Done
<1> QED BY <1>4, <1>5, <1>8, <1>9 DEF CommandInv

LEMMA InterruptKeeps ==
  ASSUME CommandInv, Interrupt
  PROVE  CommandInv'
<1>1. at # Idle /\ UNCHANGED <<command, open, log, shown, file, disk>>
  BY DEF Interrupt, output
<1>2. shown' \in Seq(Lists) /\ log' \in Logs
  BY <1>1 DEF CommandInv, TypeOK, Logs
<1>3. CASE Finish("cancelled")
  BY <1>1, <1>2, <1>3, FinishKeeps
<1>4. CASE Gone
  BY <1>1, <1>4, GoneKeeps DEF output
<1>5. CASE at.phase = "write" /\ Await("write", 1) /\ UNCHANGED <<todo, list, results, outcome>>
  <2>1. 1 \in 0..Intervals
    BY DeviceAssumption
  <2>2. at' \in [phase : Phases, n : 0..Intervals] /\ at'.phase = "write" /\ at'.n = 1 /\ at' # Idle
    BY <1>5, <2>1, AwaitTypes DEF Await, Phases
  <2>3. TypeOK'
    BY <1>1, <1>5, <2>2 DEF CommandInv, TypeOK
  <2>4. AtUse' /\ ScanSoFar' /\ ScanComplete'
    BY <1>1, <1>5, <2>2 DEF CommandInv, AtUse, Scanning, ScanSoFar, ScanComplete, Done
  <2>5. SessionClosed'
    <3>1. open /\ command # NoCommand
      BY <1>1, Zenon DEF CommandInv, SessionClosed
    <3> QED BY <1>1, <2>2, <3>1, StillOpen
  <2>6. FileSafe'
    BY <1>1, <1>5, <2>2 DEF CommandInv, AtUse, FileSafe, Done
  <2> QED BY <2>3, <2>4, <2>5, <2>6 DEF CommandInv
<1> QED BY <1>3, <1>4, <1>5 DEF Interrupt

LEMMA InitHolds == Init => CommandInv
<1> SUFFICES ASSUME Init PROVE CommandInv
  OBVIOUS
<1>1. << >> \in Seq(Keys) /\ << >> \in Lists /\ << >> \in Seq(Lists) /\ << >> \in Logs
  BY DEF Lists, Logs
<1>2. at \in [phase : Phases, n : 0..Intervals] /\ at.phase = "idle" /\ at.n = 0
  BY DeviceAssumption DEF Init, Idle, Phases
<1>3. TypeOK
  BY <1>1, <1>2 DEF Init, TypeOK, Logs
<1>4. AtUse /\ ScanSoFar /\ ScanComplete /\ FileSafe
  BY <1>2 DEF Init, AtUse, Scanning, ScanSoFar, ScanComplete, FileSafe, Done
<1>5. SessionClosed
  BY Zenon DEF Init, SessionClosed
<1> QED BY <1>3, <1>4, <1>5 DEF CommandInv

LEMMA StutterKeeps == ASSUME CommandInv, UNCHANGED vars PROVE CommandInv'
<1>1. UNCHANGED <<command, at, todo, list, results, shown, file, disk, open, outcome, log>>
  BY DEF vars, progress, output
<1>2. TypeOK' /\ AtUse' /\ ScanComplete' /\ FileSafe'
  BY <1>1 DEF CommandInv, TypeOK, AtUse, Scanning, ScanComplete, FileSafe, Done, Result
<1>3. ScanSoFar' /\ SessionClosed'
  BY <1>1, Zenon DEF CommandInv, ScanSoFar, Scanning, SoFar, Pending, SessionClosed
<1> QED BY <1>2, <1>3 DEF CommandInv

LEMMA StepKeeps == ASSUME CommandInv, [Next]_vars PROVE CommandInv'
<1>1. CASE \E c \in Commands : Run(c)
  BY <1>1, RunKeeps
<1>2. CASE Answered
  BY <1>2, ResourceKeeps, PageKeeps, IntervalKeeps, QueryKeeps, PutKeeps DEF Answered
<1>3. CASE \E how \in {"uuid", "none", "raised"} : Checked(how)
  BY <1>3, CheckedKeeps
<1>4. CASE Slept \/ Written \/ Closed \/ Interrupt \/ Dies
  BY <1>4, SleptKeeps, WrittenKeeps, ClosedKeeps, InterruptKeeps, GoneKeeps DEF Dies
<1>5. CASE UNCHANGED vars
  BY <1>5, StutterKeeps
<1> QED BY <1>1, <1>2, <1>3, <1>4, <1>5 DEF Next, Goes

\* The inductive invariant: where a command is, what its scan holds so far
\* (deep_into, _scan, _runquery and _runpush).
THEOREM CommandHolds == Spec => []CommandInv
<1>1. Init => CommandInv
  BY InitHolds
<1>2. CommandInv /\ [Next]_vars => CommandInv'
  BY StepKeeps
<1> QED BY <1>1, <1>2, PTL DEF Spec

\* Whatever the device refuses on the way, a scan that was written misses only
\* what hangs on a refusal (deep_into, rawscan).
THEOREM ScanIsComplete == Spec => []ScanComplete
<1>1. CommandInv => ScanComplete
  BY DEF CommandInv
<1> QED BY <1>1, CommandHolds, PTL

\* However a command ends, its session is closed, unless it was killed while
\* closing (try/finally of scan, query and put).
THEOREM SessionIsClosed == Spec => []SessionClosed
<1>1. CommandInv => SessionClosed
  BY DEF CommandInv
<1> QED BY <1>1, CommandHolds, PTL

\* The output file is touched for a result that misses nothing, and is whole
\* when a scan ends normally (_scan opens it after the last target).
THEOREM FileIsSafe == Spec => []FileSafe
<1>1. CommandInv => FileSafe
  BY DEF CommandInv
<1> QED BY <1>1, CommandHolds, PTL

-----------------------------------------------------------------------------
(* Queries                                                                 *)

\* One more request: its answer, if it has one, is the last of the list.
LEMMA OneMoreAnswer ==
  ASSUME NEW lg \in Logs, NEW lst \in Lists, Answers(lg, lst),
         NEW r \in [entry : Requests, st : Outcomes]
  PROVE  Answers(Append(lg, r), IF r.st = "ok" THEN Append(lst, r.entry) ELSE lst)
<1> DEFINE longer == Append(lg, r)
           m == Len(lg)
           k == Len(lst)
<1>1. /\ m \in Nat /\ DOMAIN lg = 1..m /\ DOMAIN longer = 1..m + 1
      /\ longer[m + 1] = r /\ \A i \in 1..m : longer[i] = lg[i]
  BY DEF Logs
<1>2. k \in Nat /\ DOMAIN lst = 1..k
  BY DEF Lists
<1>3. PICK place \in [1..k -> 1..m] :
        /\ \A i, j \in 1..k : i < j => place[i] < place[j]
        /\ \A i \in 1..k : lg[place[i]].st = "ok" /\ lg[place[i]].entry = lst[i]
        /\ \A n \in 1..m : lg[n].st = "ok" => \E i \in 1..k : place[i] = n
  BY <1>1, <1>2 DEF Answers
<1> HIDE DEF longer, m, k
<1>4. CASE r.st # "ok"
  <2>1. place \in [1..k -> 1..m + 1]
    BY <1>1, <1>3
  <2>2. \A i \in 1..k : longer[place[i]].st = "ok" /\ longer[place[i]].entry = lst[i]
    BY <1>1, <1>3
  <2>3. \A n \in 1..m + 1 : longer[n].st = "ok" => \E i \in 1..k : place[i] = n
    BY <1>1, <1>3, <1>4
  <2>4. Answers(longer, lst)
    <3>1. SUFFICES \E p \in [DOMAIN lst -> DOMAIN longer] :
            /\ \A i, j \in DOMAIN lst : i < j => p[i] < p[j]
            /\ \A i \in DOMAIN lst : longer[p[i]].st = "ok" /\ longer[p[i]].entry = lst[i]
            /\ \A n \in DOMAIN longer : longer[n].st = "ok" => \E i \in DOMAIN lst : p[i] = n
      BY Zenon DEF Answers
    <3>2. place \in [DOMAIN lst -> DOMAIN longer]
      BY <1>1, <1>2, <2>1
    <3> WITNESS place \in [DOMAIN lst -> DOMAIN longer]
    <3> QED BY <1>1, <1>2, <1>3, <2>2, <2>3
  <2> QED BY <1>4, <2>4 DEF longer
<1>5. CASE r.st = "ok"
  <2> DEFINE more == Append(lst, r.entry)
             place2 == [i \in 1..k + 1 |-> IF i = k + 1 THEN m + 1 ELSE place[i]]
  <2>1. /\ DOMAIN more = 1..k + 1 /\ more[k + 1] = r.entry
        /\ \A i \in 1..k : more[i] = lst[i]
    BY <1>2 DEF Lists, k
  <2>2. /\ place2 \in [1..k + 1 -> 1..m + 1] /\ place2[k + 1] = m + 1
        /\ \A i \in 1..k : place2[i] = place[i] /\ place[i] \in 1..m
    BY <1>1, <1>2, <1>3
  <2> HIDE DEF more, place2
  <2>3. \A i, j \in 1..k + 1 : i < j => place2[i] < place2[j]
    <3>1. SUFFICES ASSUME NEW i \in 1..k + 1, NEW j \in 1..k + 1, i < j PROVE place2[i] < place2[j]
      OBVIOUS
    <3>2. i \in 1..k
      BY <1>2, <3>1
    <3>3. CASE j = k + 1
      BY <1>1, <2>2, <3>2, <3>3
    <3>4. CASE j \in 1..k
      BY <1>3, <2>2, <3>1, <3>2, <3>4
    <3> QED BY <1>2, <3>3, <3>4
  <2>4. \A i \in 1..k + 1 : longer[place2[i]].st = "ok" /\ longer[place2[i]].entry = more[i]
    <3>1. ASSUME NEW i \in 1..k
          PROVE  longer[place2[i]].st = "ok" /\ longer[place2[i]].entry = more[i]
      BY <1>1, <1>3, <2>1, <2>2
    <3>2. longer[place2[k + 1]].st = "ok" /\ longer[place2[k + 1]].entry = more[k + 1]
      BY <1>1, <1>5, <2>1, <2>2
    <3>3. \A i \in 1..k + 1 : i \in 1..k \/ i = k + 1
      BY <1>2
    <3> QED BY <3>1, <3>2, <3>3
  <2>5. \A n \in 1..m + 1 : longer[n].st = "ok" => \E i \in 1..k + 1 : place2[i] = n
    <3>1. SUFFICES ASSUME NEW n \in 1..m + 1, longer[n].st = "ok"
                   PROVE \E i \in 1..k + 1 : place2[i] = n
      OBVIOUS
    <3>2. CASE n = m + 1
      BY <1>2, <2>2, <3>2
    <3>3. CASE n \in 1..m
      <4>1. PICK i \in 1..k : place[i] = n
        BY <1>1, <1>3, <3>1, <3>3
      <4>2. i \in 1..k + 1 /\ place2[i] = n
        BY <1>2, <2>2, <4>1
      <4> QED BY <4>2
    <3> QED BY <1>1, <3>2, <3>3
  <2>6. Answers(longer, more)
    <3>1. SUFFICES \E p \in [DOMAIN more -> DOMAIN longer] :
            /\ \A i, j \in DOMAIN more : i < j => p[i] < p[j]
            /\ \A i \in DOMAIN more : longer[p[i]].st = "ok" /\ longer[p[i]].entry = more[i]
            /\ \A n \in DOMAIN longer : longer[n].st = "ok" => \E i \in DOMAIN more : p[i] = n
      BY Zenon DEF Answers
    <3>2. place2 \in [DOMAIN more -> DOMAIN longer]
      BY <1>1, <2>1, <2>2
    <3> WITNESS place2 \in [DOMAIN more -> DOMAIN longer]
    <3> QED BY <1>1, <2>1, <2>3, <2>4, <2>5
  <2> QED BY <1>5, <2>6 DEF longer, more
<1> QED BY <1>4, <1>5

LEMMA NoAnswers == Answers(<< >>, << >>)
<1>1. DOMAIN << >> = {} /\ [i \in {} |-> 0] \in [{} -> {}]
  OBVIOUS
<1> QED BY <1>1 DEF Answers

\* The query goes on with the first of its paths.
LEMMA BeginQueries ==
  ASSUME NEW c \in Commands, Begin(c), command' = c, log' = << >>
  PROVE  QuerySoFar' /\ QueryExact'
<1>1. c.does \in {"scan", "query", "put"} /\ c.targets \in Seq(Keys)
  BY CommandAssumption
<1>2. outcome' \in {"none", "failed"}
  BY DEF Begin, Finish
<1>3. CASE Finish("failed")
  BY <1>2, <1>3 DEF QuerySoFar, QueryExact, Done, Finish, Await
<1>4. CASE ~Finish("failed")
  <2>1. /\ at' = [phase |-> IF c.does = "scan" THEN "get" ELSE c.does, n |-> 0] /\ list' = << >>
        /\ todo' = IF c.does = "query" THEN c.targets ELSE <<Head(c.targets)>>
    BY <1>4 DEF Begin, Await
  <2>2. CASE c.does = "query"
    <3>1. at'.phase = "query" /\ todo' = c.targets
      BY <2>1, <2>2
    <3>2. Len(log') = 0 /\ DOMAIN log' = {} /\ Len(c.targets) \in Nat /\ DOMAIN c.targets = 1..Len(c.targets)
      BY <1>1
    <3>3. 0 + Len(todo') = Len(c.targets) /\ \A i \in DOMAIN todo' : todo'[i] = c.targets[0 + i]
      BY <3>1, <3>2
    <3>4. AskedInOrder' /\ Answers(log', list')
      BY <2>1, <3>2, NoAnswers DEF AskedInOrder
    <3> QED BY <1>2, <3>1, <3>2, <3>3, <3>4 DEF QuerySoFar, QueryExact, Done
  <2>3. CASE c.does # "query"
    BY <1>1, <1>2, <2>1, <2>3 DEF QuerySoFar, QueryExact, Done
  <2> QED BY <2>2, <2>3
<1> QED BY <1>3, <1>4

LEMMA QueryAsks ==
  ASSUME CommandInv, QuerySoFar, NEW st \in Outcomes, QueryAnswered(st)
  PROVE  QuerySoFar' /\ QueryExact'
<1>1. /\ at.phase = "query" /\ at.n = 0 /\ todo \in Seq(Keys) /\ todo # << >> /\ log \in Logs /\ list \in Lists
      /\ outcome = "none" /\ command' = command /\ command.targets \in Seq(Keys)
  <2>1. at.phase = "query" /\ command' = command
    BY DEF QueryAnswered, Answer
  <2>2. command \in Commands
    BY <2>1, CommandAssumption DEF CommandInv, TypeOK, AtUse, NoCommand
  <2> QED BY <2>1, <2>2, CommandAssumption DEF CommandInv, TypeOK, AtUse, Logs
<1>2. CASE Fails
  BY <1>2 DEF Fails, Finish, Await, QuerySoFar, QueryExact, Done
<1>3. CASE ~Fails
  <2> DEFINE e == Entry(Head(todo), "query", 0)
             r == [entry |-> e, st |-> st]
             m == Len(log)
  <2>1. /\ log' = Append(log, r) /\ list' = (IF st = "ok" THEN Append(list, e) ELSE list)
        /\ at'.phase = "pause" /\ todo' = todo /\ outcome' = "none"
    BY <1>1, <1>3 DEF QueryAnswered, Answer, Await
  <2>2. e \in Requests /\ e.key = Head(todo) /\ r \in [entry : Requests, st : Outcomes] /\ r.entry = e /\ r.st = st
    <3>1. Head(todo) \in Keys
      BY <1>1, DueTail
    <3>2. 0 \in 0..Intervals
      BY DeviceAssumption
    <3> QED BY <3>1, <3>2 DEF Entry, Requests
  <2>3. /\ m + Len(todo) = Len(command.targets)
        /\ \A i \in DOMAIN todo : todo[i] = command.targets[m + i]
        /\ AskedInOrder /\ Answers(log, list)
    BY <1>1 DEF QuerySoFar
  <2>4. Answers(log', list')
    BY <1>1, <2>1, <2>2, <2>3, OneMoreAnswer
  <2>5. /\ m \in Nat /\ Len(log') = m + 1 /\ DOMAIN log = 1..m /\ DOMAIN log' = 1..m + 1
        /\ log'[m + 1] = r /\ \A i \in 1..m : log'[i] = log[i]
    BY <1>1, <2>1 DEF Logs
  <2>6. 1 \in DOMAIN todo /\ Head(todo) = todo[1]
    BY <1>1
  <2> HIDE DEF e, r, m
  <2>7. AskedInOrder'
    <3>1. log'[m + 1].entry.key = command.targets[m + 1]
      BY <2>2, <2>3, <2>5, <2>6
    <3>2. \A i \in 1..m : log'[i].entry.key = command.targets[i]
      BY <2>3, <2>5 DEF AskedInOrder
    <3>3. \A i \in 1..m + 1 : i \in 1..m \/ i = m + 1
      BY <2>5
    <3> QED BY <1>1, <2>5, <3>1, <3>2, <3>3 DEF AskedInOrder
  <2>8. Len(log') - 1 = m
    BY <2>5
  <2>9. QuerySoFar'
    BY <1>1, <2>1, <2>3, <2>4, <2>7, <2>8 DEF QuerySoFar
  <2> QED BY <2>1, <2>9 DEF QueryExact, Done
<1> QED BY <1>2, <1>3

LEMMA QueryPauses ==
  ASSUME CommandInv, QuerySoFar, Slept
  PROVE  QuerySoFar' /\ QueryExact'
<1>1. /\ at.phase = "pause" /\ todo \in Seq(Keys) /\ todo # << >> /\ log \in Logs
      /\ outcome = "none" /\ UNCHANGED <<command, open, log>>
  BY DEF Slept, CommandInv, TypeOK, AtUse, Logs
<1>2. PICK behind : /\ behind = Len(log) - 1 /\ behind + Len(todo) = Len(command.targets)
                    /\ \A i \in DOMAIN todo : todo[i] = command.targets[behind + i]
  BY <1>1 DEF QuerySoFar
<1>3. AskedInOrder /\ Answers(log, list)
  BY <1>1 DEF QuerySoFar
<1>4. Len(log) \in Nat /\ Len(todo) \in Nat /\ Len(todo) # 0 /\ behind \in Int
  BY <1>1, <1>2 DEF Logs
<1>5. CASE Len(todo) > 1
  <2>1. at'.phase = "query" /\ todo' = Tail(todo) /\ list' = list /\ outcome' = "none"
    BY <1>1, <1>5 DEF Slept, Await
  <2>2. /\ Len(Tail(todo)) = Len(todo) - 1 /\ DOMAIN Tail(todo) = 1..Len(todo) - 1
        /\ \A i \in 1..Len(todo) - 1 : Tail(todo)[i] = todo[i + 1] /\ i + 1 \in DOMAIN todo
    BY <1>1
  <2>3. Len(log) + Len(todo') = Len(command.targets)
    BY <1>2, <1>4, <2>1, <2>2
  <2>4. \A i \in DOMAIN todo' : todo'[i] = command.targets[Len(log) + i]
    <3>1. SUFFICES ASSUME NEW i \in 1..Len(todo) - 1 PROVE todo[i + 1] = command.targets[Len(log) + i]
      BY <2>1, <2>2
    <3>2. todo[i + 1] = command.targets[behind + (i + 1)] /\ behind + (i + 1) = Len(log) + i
      BY <1>2, <1>4, <2>2
    <3> QED BY <3>2
  <2>5. QuerySoFar'
    BY <1>1, <1>3, <2>1, <2>3, <2>4 DEF QuerySoFar, AskedInOrder
  <2> QED BY <2>1, <2>5 DEF QueryExact, Done
<1>6. CASE ~(Len(todo) > 1)
  <2>1. shown' = <<list>> /\ at'.phase = "close"
    BY <1>6 DEF Slept, Finish, Await
  <2>2. Len(log) = Len(command.targets)
    BY <1>2, <1>4, <1>6
  <2>3. Len(shown') = 1 /\ shown'[1] = list
    BY <2>1
  <2> QED BY <1>1, <1>3, <2>1, <2>2, <2>3 DEF QuerySoFar, QueryExact, AskedInOrder
<1> QED BY <1>5, <1>6

LEMMA QueryStep ==
  ASSUME CommandInv, QuerySoFar, QueryExact, [Next]_vars
  PROVE  QuerySoFar' /\ QueryExact'
<1>1. ASSUME NEW c \in Commands, Run(c) PROVE QuerySoFar' /\ QueryExact'
  <2>1. command' = c /\ log' = << >>
    BY <1>1 DEF Run
  <2>2. CASE c.does = "scan" /\ ~c.ignore
    BY <1>1, <2>2 DEF Run, Await, QuerySoFar, QueryExact, Done
  <2> QED BY <1>1, <2>1, <2>2, BeginQueries DEF Run
<1>2. ASSUME NEW st \in Outcomes, QueryAnswered(st) PROVE QuerySoFar' /\ QueryExact'
  BY <1>2, QueryAsks
<1>3. CASE Slept
  BY <1>3, QueryPauses
<1>4. ASSUME NEW how \in {"uuid", "none", "raised"}, Checked(how) PROVE QuerySoFar' /\ QueryExact'
  <2>1. at.phase = "check" /\ command' = command /\ log' = log
    BY <1>4 DEF Checked
  <2>2. log = << >> /\ command \in Commands
    BY <2>1, CommandAssumption DEF CommandInv, TypeOK, AtUse, NoCommand
  <2>3. CASE Begin(command)
    BY <2>1, <2>2, <2>3, BeginQueries
  <2>4. CASE Finish("unconnected") \/ Finish("failed")
    BY <2>4 DEF Finish, Await, QuerySoFar, QueryExact, Done
  <2> QED BY <1>4, <2>3, <2>4 DEF Checked
<1>5. ASSUME NEW st \in Outcomes,
             ResourceAnswered(st) \/ PageAnswered(st) \/ IntervalAnswered(st) \/ PutAnswered(st)
      PROVE  QuerySoFar' /\ QueryExact'
  <2>1. at.phase \in {"get", "page", "interval", "put"} /\ command' = command
    BY <1>5 DEF ResourceAnswered, PageAnswered, IntervalAnswered, PutAnswered, Answer
  <2>2. command.does # "query"
    BY <2>1 DEF CommandInv, AtUse, Scanning
  <2>3. at'.phase \notin {"query", "pause"}
    <3> DEFINE elsewhere == at'.phase \notin {"query", "pause"}
    <3>1. \A how : Finish(how) => elsewhere
      BY DEF Finish, Await
    <3>2. \A lst, rest : Visit(lst, rest) => elsewhere
      BY <3>1 DEF Visit, Write, Fails, Await
    <3>3. \A n, lst : GoOn(n, lst) => elsewhere
      BY DEF GoOn, Await
    <3>4. Await("page", 0) => elsewhere
      BY DEF Await
    <3> HIDE DEF elsewhere
    <3> QED BY <1>5, <3>1, <3>2, <3>3, <3>4, Zenon
              DEF ResourceAnswered, PageAnswered, IntervalAnswered, PutAnswered, Keep, Fails, elsewhere
  <2> QED BY <2>1, <2>2, <2>3 DEF QuerySoFar, QueryExact, Done
<1>6. CASE Closed
  BY <1>6 DEF Closed, Idle, output, QuerySoFar, QueryExact, AskedInOrder, Done
<1>7. CASE Written \/ Interrupt \/ Dies
  <2>1. at'.phase \notin {"query", "pause"}
    BY <1>7 DEF Written, Interrupt, Dies, Gone, Finish, Idle, Await
  <2>2. outcome' # "done" \/ (command'.does = "scan" /\ command' = command)
    BY <1>7 DEF Written, Interrupt, Dies, Gone, Finish, CommandInv, AtUse
  <2> QED BY <2>1, <2>2 DEF QuerySoFar, QueryExact, Done
<1>8. CASE UNCHANGED vars
  BY <1>8 DEF vars, progress, output, QuerySoFar, QueryExact, AskedInOrder, Done
<1> QED BY <1>1, <1>2, <1>3, <1>4, <1>5, <1>6, <1>7, <1>8 DEF Next, Goes, Answered

\* A query asks for each of its paths and prints the answers in their order:
\* one that is refused costs the others nothing (_runquery and raw_query).
THEOREM QueryIsExact == Spec => []QueryExact
<1>1. Init => QuerySoFar /\ QueryExact
  BY DEF Init, QuerySoFar, QueryExact, Idle, Done
<1>2. CommandInv /\ QuerySoFar /\ QueryExact /\ [Next]_vars => (QuerySoFar /\ QueryExact)'
  BY QueryStep
<1> QED BY <1>1, <1>2, CommandHolds, PTL DEF Spec
=============================================================================
