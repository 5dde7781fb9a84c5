------------------------------ MODULE QueueProofs ------------------------------
(***************************************************************************)
(* Whoever joins a queue, leaves it, starts over or gives up, nobody is in *)
(* it twice, and the others stay in it.                                    *)
(***************************************************************************)
EXTENDS Queues, TLAPS

\* A task that is not in a queue joins it at the end.
LEMMA Joins ==
  ASSUME NEW T, NEW q \in Seq(T), Once(q), NEW t \in T, \A i \in 1..Len(q) : q[i] # t
  PROVE  /\ Append(q, t) \in Seq(T) /\ Once(Append(q, t))
         /\ q # << >> => Head(Append(q, t)) = Head(q)
BY DEF Once

\* The first task leaves it.
LEMMA Leaves ==
  ASSUME NEW T, NEW q \in Seq(T), Once(q), q # << >>
  PROVE  /\ Tail(q) \in Seq(T) /\ Once(Tail(q))
         /\ \A i \in 1..Len(Tail(q)) : Tail(q)[i] = q[i + 1] /\ Tail(q)[i] # Head(q)
BY DEF Once

\* The first task goes to the end.
LEMMA Requeues ==
  ASSUME NEW T, NEW q \in Seq(T), Once(q), q # << >>
  PROVE  LET r == Append(Tail(q), Head(q)) IN
         /\ r \in Seq(T) /\ Once(r) /\ r # << >>
         /\ \A i \in 1..Len(r) : \E j \in 1..Len(q) : r[i] = q[j]
<1> DEFINE r == Append(Tail(q), Head(q))
<1>1. Head(q) \in T /\ r \in Seq(T) /\ Len(r) = Len(q)
  OBVIOUS
<1>2. Once(r)
  BY <1>1, Leaves, Joins
<1>3. \A i \in 1..Len(r) : r[i] = IF i < Len(q) THEN q[i + 1] ELSE q[1]
  OBVIOUS
<1> HIDE DEF r
<1>4. \A i \in 1..Len(r) : \E j \in 1..Len(q) : r[i] = q[j]
  BY <1>1, <1>3
<1>5. r # << >>
  BY <1>1
<1> QED BY <1>1, <1>2, <1>4, <1>5 DEF r

\* What is left of a queue without its place i.
LEMMA Without ==
  ASSUME NEW T, NEW q \in Seq(T), NEW i \in 1..Len(q)
  PROVE  LET r == RemoveAt(q, i) IN
         /\ r \in Seq(T) /\ Len(r) = Len(q) - 1
         /\ \A j \in 1..Len(r) : r[j] = IF j < i THEN q[j] ELSE q[j + 1]
<1> DEFINE r == RemoveAt(q, i)
<1> DEFINE a == SubSeq(q, 1, i - 1)
           b == SubSeq(q, i + 1, Len(q))
<1>1. a \in Seq(T) /\ Len(a) = i - 1 /\ \A j \in 1..(i - 1) : a[j] = q[j]
  OBVIOUS
<1>2. b \in Seq(T) /\ Len(b) = Len(q) - i /\ \A j \in 1..(Len(q) - i) : b[j] = q[i + j]
  OBVIOUS
<1>3. r = a \o b
  BY DEF RemoveAt
<1> HIDE DEF r, a, b
<1>4. r \in Seq(T) /\ Len(r) = Len(q) - 1
  BY <1>1, <1>2, <1>3
<1>5. ASSUME NEW j \in 1..Len(r) PROVE r[j] = IF j < i THEN q[j] ELSE q[j + 1]
  <2>1. CASE j < i
    <3>1. r[j] = a[j]
      BY <2>1, <1>1, <1>2, <1>3, <1>4
    <3> QED BY <2>1, <3>1, <1>1
  <2>2. CASE j >= i
    <3>1. r[j] = b[j - (i - 1)]
      BY <2>2, <1>1, <1>2, <1>3, <1>4
    <3>2. b[j - (i - 1)] = q[i + (j - (i - 1))]
      BY <2>2, <1>2, <1>4
    <3> QED BY <2>2, <3>1, <3>2, <1>4
  <2> QED BY <2>1, <2>2, <1>4
<1> QED BY <1>4, <1>5 DEF r

\* A task at any place leaves it.
LEMMA GivesUp ==
  ASSUME NEW T, NEW q \in Seq(T), Once(q), NEW i \in 1..Len(q)
  PROVE  LET r == RemoveAt(q, i) IN
         /\ r \in Seq(T) /\ Once(r)
         /\ \A j \in 1..Len(r) : r[j] # q[i] /\ \E k \in 1..Len(q) : r[j] = q[k]
         /\ i # 1 => r # << >> /\ Head(r) = Head(q)
<1> DEFINE r == RemoveAt(q, i)
<1>1. r \in Seq(T) /\ Len(r) = Len(q) - 1
  BY Without
<1>2. \A j \in 1..Len(r) : r[j] = IF j < i THEN q[j] ELSE q[j + 1]
  BY Without
<1> HIDE DEF r
<1>3. Once(r)
  BY <1>1, <1>2 DEF Once
<1>4. \A j \in 1..Len(r) : r[j] # q[i] /\ \E k \in 1..Len(q) : r[j] = q[k]
  BY <1>1, <1>2 DEF Once
<1>5. i # 1 => r # << >> /\ Head(r) = Head(q)
  BY <1>1, <1>2
<1> QED BY <1>1, <1>3, <1>4, <1>5 DEF r

\* Who is in a queue, after somebody joins it, leaves it, starts over or gives up.
LEMMA StillAmong ==
  ASSUME NEW T, NEW q \in Seq(T), NEW u \in T
  PROVE  /\ \A t \in T : Among(u, Append(q, t)) <=> Among(u, q) \/ u = t
         /\ q # << >> => (Among(u, q) <=> Among(u, Tail(q)) \/ u = Head(q))
         /\ \A i \in 1..Len(q) : q[i] # u => (Among(u, RemoveAt(q, i)) <=> Among(u, q))
<1>1. ASSUME NEW t \in T PROVE Among(u, Append(q, t)) <=> Among(u, q) \/ u = t
  <2>1. /\ Len(Append(q, t)) = Len(q) + 1 /\ Append(q, t)[Len(q) + 1] = t
        /\ \A i \in 1..Len(q) : Append(q, t)[i] = q[i]
    OBVIOUS
  <2> QED BY <2>1 DEF Among
<1>2. ASSUME q # << >> PROVE Among(u, q) <=> Among(u, Tail(q)) \/ u = Head(q)
  <2>1. /\ Len(Tail(q)) = Len(q) - 1 /\ Head(q) = q[1] /\ 1 \in 1..Len(q)
        /\ \A i \in 1..Len(Tail(q)) : Tail(q)[i] = q[i + 1] /\ i + 1 \in 1..Len(q)
        /\ \A i \in 1..Len(q) : i = 1 \/ (i - 1 \in 1..Len(Tail(q)) /\ Tail(q)[i - 1] = q[i])
    BY <1>2
  <2> QED BY <2>1 DEF Among
<1>3. ASSUME NEW i \in 1..Len(q), q[i] # u PROVE Among(u, RemoveAt(q, i)) <=> Among(u, q)
  <2> DEFINE r == RemoveAt(q, i)
  <2>1. /\ Len(r) = Len(q) - 1
        /\ \A j \in 1..Len(r) : r[j] = IF j < i THEN q[j] ELSE q[j + 1]
    BY Without
  <2> HIDE DEF r
  <2>2. ASSUME NEW k \in 1..Len(q), q[k] = u PROVE Among(u, r)
    <3>1. CASE k < i
      BY <2>1, <2>2, <3>1 DEF Among
    <3>2. CASE k > i
      <4>1. k - 1 \in 1..Len(r) /\ r[k - 1] = q[k]
        BY <2>1, <3>2
      <4> QED BY <2>2, <4>1 DEF Among
    <3> QED BY <1>3, <2>2, <3>1, <3>2
  <2>3. ASSUME NEW j \in 1..Len(r), r[j] = u PROVE Among(u, q)
    BY <2>1, <2>3 DEF Among
  <2>4. Among(u, r) <=> Among(u, q)
    BY <2>2, <2>3 DEF Among
  <2> QED BY <2>4 DEF r
<1> QED BY <1>1, <1>2, <1>3
=============================================================================
