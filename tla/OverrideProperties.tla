-------------------------- MODULE OverrideProperties --------------------------
(* What NEFIT heating circuits and zones show and do, compared with the device. *)
EXTENDS OverrideCircuit

Works == [kind : {"none", "list", "update", "override", "temp", "status", "mode", "preset", "active"},
          pos : 0..4, val : AllValues \cup {NotRead}, res : BOOLEAN]
Names == {NoName} \cup UNION {{Lists[l][i] : i \in Ids} : l \in DOMAIN Lists}

Requests == [op : {"none", "get", "put"}, key : Keys \cup {"target", NoKey},
             val : AllValues \cup {"none"}, failed : Nat]

\* Every variable has its type.
OverrideTypes ==
  /\ dev \in [Keys -> AllValues] /\ \A k \in Keys : dev[k] \in Domain[k]
  /\ queue \in Seq(Tasks)
  /\ ask \in [Tasks -> Requests]
  /\ reply \in ReplyTypes /\ stale \subseteq Keys /\ changes \in Nat
  /\ site \in Sites /\ fresh \in BOOLEAN
  /\ cache \in [Shown -> AllValues \cup {NotRead}] /\ opMode \in Modes \cup {NotRead}
  /\ programs \in [Ids -> Names]
  /\ work \in [Tasks -> Works] /\ unread \subseteq Shown /\ met \subseteq Tasks

\* The request of each call.
WorkFits(j, r) ==
  CASE j.kind = "list" -> r.op = "get" /\ r.key = "list"
    [] j.kind = "update" -> r.op = "get" /\ j.pos \in 1..Len(Poll) /\ r.key = Poll[j.pos]
    [] j.kind = "temp" -> r.op = "put" /\ r.key \in {"manual", "override"} /\ r.val = j.val /\ j.val \in Requested
    [] j.kind = "override" -> r.op = "put" /\ r.key = "override" /\ r.val = j.val /\ j.val \in Requested
    [] j.kind = "status" -> r.op = "put" /\ r.key = "status" /\ r.val = "on" /\ j.val \in Requested
    [] j.kind = "mode" -> r.op = "put" /\ r.key = "mode" /\ r.val = j.val /\ j.val \in Modes
    [] j.kind = "preset" -> r.op = "put" /\ r.key = "program" /\ r.val \in Ids
    [] j.kind = "active" -> r.op = "get" /\ r.key = "program"
    [] OTHER -> j = NoWork

\* A task is in the queue exactly while it is busy, once, with the request of
\* its call.
WorkUse ==
  /\ Once(queue)
  /\ \A t \in Tasks : AtRest(t) <=> ~Among(t, queue)
  /\ \A t \in Tasks : WorkFits(work[t], ask[t])

\* An answer for k has arrived, and its task has not run yet.
Answering(k) ==
  queue # << >> /\ reply.st = "ok" /\ OnWire.op = "get" /\ OnWire.key = k
\* The same, or the confirmation that k was written.
Arrived(k) == queue # << >> /\ reply.st = "ok" /\ OnWire.key = k

\* It is what the device still has, unless that has changed again.
AnswerUse ==
  /\ reply # NoReply => queue # << >> /\ reply.st # "none"
  /\ reply.st = "void" => OnWire.key \in stale
  /\ \A k \in Shown \ unread : Answering(k) => reply.val = Held(dev, k)
  /\ Answering("list") => reply.val \in Domain["list"] /\ ("list" \notin stale => reply.val = dev["list"])
  /\ Answering("mode") => reply.val \in Modes
  /\ \A k \in Shown : Answering(k) => reply.val \in AllValues

\* The mode that is known, or about to be, is the device's.
ModeRead ==
  IF Arrived("mode") THEN dev["mode"] = IF OnWire.op = "get" THEN reply.val ELSE OnWire.val
  ELSE opMode = dev["mode"]

ModeUse == "mode" \notin stale => ModeRead

\* A command that met no change since it was given: the mode is still the one it
\* chose its resource by, and what it has written is in force.
Setting(t) == work[t].kind \in {"temp", "override", "status"}
Unmet(t) ==
  /\ opMode # NotRead /\ ModeRead
  /\ work[t].kind = "temp" => ask[t].key = WriteKey /\ (family = "nefit" => WriteKey = "manual")
  /\ work[t].kind # "temp" => family = "nefit" /\ WriteKey = "override"
  /\ work[t].kind = "status" /\ work[t].res => dev["override"] = work[t].val
  /\ Returned(t) /\ reply.st \in {"ok", "void"} => dev[ask[t].key] = ask[t].val
CommandUse == \A t \in Tasks \ met : Setting(t) => Unmet(t)

\* What is shown is what the device has or aims at, from the moment it is read,
\* or set by a command that met no other change, until it changes again without
\* the library noticing: no poll, failure or cancellation between the steps of a
\* command leaves an older value behind (nefit/heating.py:27-33,
\* easycontrol/base.py:76-80, circuit.py:317-321).
KnownShown == \A k \in Shown \ unread : cache[k] = Held(dev, k) \/ Answering(k)

\* The temperature a set_temperature() that succeeded was given is the one the
\* device aims at then, if the mode was known and nobody changed anything since
\* the call: an override takes effect although it takes a NEFIT circuit two
\* requests between which other tasks get theirs through (nefit/heating.py:18-32).
TargetReached ==
  [][\A t \in Tasks :
       TemperatureDone(t) /\ Succeeded(t) /\ t \notin met =>
         Effective(dev) = work[t].val]_overrideVars

\* The zones know every program that is on the list, by its name, once they
\* have read the list and until it changes: neither the ten minutes nor a fetch
\* that fails makes one disappear (easycontrol_programs.py:16-25).  The reverse
\* does not hold: a program that is taken off the list is kept.
ProgramsKnown ==
  "list" \notin stale /\ ~Answering("list") =>
    \A i \in Ids : Lists[dev["list"]][i] # NoName => programs[i] = Lists[dev["list"]][i]

\* What makes all of this so, whatever tasks, programs and values there are.
OverrideInv ==
  /\ OverrideTypes /\ WorkUse /\ AnswerUse /\ ModeUse /\ CommandUse
  /\ KnownShown /\ ProgramsKnown
=============================================================================
