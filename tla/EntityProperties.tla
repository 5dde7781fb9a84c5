--------------------------- MODULE EntityProperties ---------------------------
(* What the entities show and do, compared with the device. *)
EXTENDS EntityCache

JobTypes == [kind : {"none", "raised", "update", "command"}, of : Entities \cup {NoValue}]
Messages == {"No notifications", "Unknown"} \cup UNION {{Message(v), Title(v)} : v \in AllValues}
Shows == AllValues \cup Messages \cup {NoValue}
Wishes == [by : Tasks \cup {NoKey}, val : AllValues \cup {NoValue}]

TypeOK ==
  /\ ConnectorTypes
  /\ class \in Devices
  /\ shown \in [Entities -> Shows]
  /\ good \in [Entities -> BOOLEAN]
  /\ job \in [Tasks -> JobTypes]
  /\ wanted \in [Entities -> Wishes]

\* A task is in the queue exactly while it is busy, once, with the request of
\* its call; and an answer that has arrived is what the device holds.
QueueUse == Once(queue) /\ \A i \in 1..Len(queue) : ~Idle(queue[i])

JobFits(j, r) ==
  CASE j.kind = "update" -> j.of \in Entities /\ r.op = "get" /\ r.key = KeyOf[j.of]
    [] j.kind = "command" ->
         j.of \in Entities /\ Settable(j.of) /\ r.op = "put" /\ r.key = KeyOf[j.of] /\ r.val \in Domain[r.key]
    [] OTHER -> j \in {NoJob, Raised}

JobUse == \A t \in Tasks : JobFits(job[t], ask[t])

ReplyUse ==
  /\ reply # NoReply => queue # << >> /\ reply.st # "none"
  /\ reply.st = "void" => OnWire.op = "get" \/ OnWire.key \in stale
  /\ reply.st = "ok" =>
       /\ OnWire.key \in Keys
       /\ OnWire.op = "get" => reply.val \in Domain[OnWire.key]
       /\ OnWire.key \notin stale =>
            dev[OnWire.key] = IF OnWire.op = "get" THEN reply.val ELSE OnWire.val

MayShow(e, s) ==
  \/ s = Reading(e, dev[KeyOf[e]])
  \/ class[e] = "crawl" /\ dev[KeyOf[e]] = Empty
  \/ TellsUnknown(e) /\ s = "Unknown"

\* An entity shows what the device has, unless somebody else has changed it
\* since it was last read or written: no interleaving of polls, commands,
\* failures and cancellations leaves an older value behind (helper.py:317,
\* switch.py:67-68, number.py:50-51).  Exceptions the code makes: a list that
\* has become empty stays as it was in a CrawlSensor (crawl.py:48), and a
\* notification is "Unknown" while an answer had no body.
ShownKnown ==
  \A e \in Entities : KeyOf[e] \in stale \/ Arriving(KeyOf[e]) \/ MayShow(e, shown[e])

CacheInv == TypeOK /\ QueueUse /\ JobUse /\ ReplyUse /\ ShownKnown

\* u is in q, and w is u or comes later.
Before(q, u, w) == \E i \in 1..Len(q) : \E j \in i..Len(q) : q[i] = u /\ q[j] = w

\* Of the commands to an entity that have not returned, the one that is to hold
\* comes last; once it has been carried out, the device has its value; and when
\* none is left, whatever arrives is that value, too.
WishFits(e, by, v) ==
  /\ Settable(e) /\ by \in Tasks
  /\ ~Alone(e) => Commanding(by, e) /\ ask[by].val = v
  /\ \A u \in Tasks : Commanding(u, e) => Before(queue, u, by)
  /\ Commanding(by, e) /\ Returned(by) /\ reply.st \in {"ok", "void"} => dev[KeyOf[e]] = v
  /\ Alone(e) => dev[KeyOf[e]] = v /\ shown[e] = v /\ (Arriving(KeyOf[e]) => reply.val = v)

WishUse ==
  /\ \A u \in Tasks : Idle(u) \/ Before(queue, u, u)
  /\ \A e \in Entities : wanted[e] # NoWish => WishFits(e, wanted[e].by, wanted[e].val)

EntityInv == CacheInv /\ WishUse

\* Commands to an entity take effect in the order they are given: when none is
\* on its way any more, the device has the value of the last one and the
\* entity shows it, if that one did not fail and nobody else has changed the
\* value since.  Not so for a BinarySwitch that is commanded while an earlier
\* command is on its way (boolean.py:18-23).
LastCommandWins ==
  \A e \in Entities :
    wanted[e] # NoWish /\ Alone(e) => dev[KeyOf[e]] = wanted[e].val /\ shown[e] = wanted[e].val
=============================================================================
