--------------------------- MODULE CircuitProperties ---------------------------
(***************************************************************************)
(* What a circuit shows its consumer, compared with the device.            *)
(***************************************************************************)
EXTENDS CircuitCache

Kinds == {"none", "update", "temp", "mode", "haMode", "refresh"}

JobTypes == [kind : Kinds, pos : 0..Len(Poll), old : Keys \cup {NoKey}]

\* Every variable has its type.
TypeOK ==
  /\ ConnectorTypes
  /\ cache \in [Setpoints -> AllValues \cup {NoTemp}]
  /\ opMode \in Modes \cup {NoMode} /\ state \in BOOLEAN
  /\ job \in [Tasks -> JobTypes]

\* A result for k has arrived, and the task that asked for it has not run yet.
Arriving(k) == queue # << >> /\ reply.st = "ok" /\ ask[Head(queue)].key = k

\* The mode the circuit shows is the mode of the device, unless somebody else
\* changed it since it was last read or written: no interleaving of polls,
\* mode commands, failures and cancellations makes set_new_operation_mode
\* (circuit.py:164, circuit.py:321) leave an older mode behind.
ModeKnown == ModeKey \notin stale => opMode = dev[ModeKey] \/ Arriving(ModeKey)

\* The same for the temperatures, while the mode stays what it is: a poll
\* that read the old temperature never overwrites the one set_temperature
\* has just written (easycontrol/base.py:79-80), and a refused write is not
\* shown.
SetpointsKnown == \A k \in Setpoints : k \notin stale => cache[k] = dev[k] \/ Arriving(k)

\* What makes this so: a task is in the queue exactly while it is busy, and
\* once; each waits for the request its operation made; and an answer that
\* has arrived is what the device holds.
Busy(q) == \A i \in 1..Len(q) : ~Idle(q[i])
QueueUse == Once(queue) /\ Busy(queue)

JobFits(j, r) ==
  CASE j.kind = "update" -> j.pos \in 1..Len(Poll) /\ r.op = "get" /\ r.key = Poll[j.pos]
    [] j.kind = "temp" -> r.op = "put" /\ r.key \in Setpoints /\ r.val \in Domain[r.key]
    [] j.kind \in {"mode", "haMode"} -> r.op = "put" /\ r.key \in {ModeKey, NoKey} /\ r.val \in Modes
    [] j.kind = "refresh" -> r.op = "get" /\ r.key \in Setpoints
    [] OTHER -> j = NoJob

JobUse == \A t \in Tasks : JobFits(job[t], ask[t])

ReplyUse ==
  /\ reply # NoReply => queue # << >> /\ reply.st # "none"
  /\ reply.st = "void" => OnWire.op = "put" /\ OnWire.key \in stale
  /\ reply.st = "ok" =>
       /\ OnWire.key \in Keys
       /\ OnWire.op = "get" => reply.val \in Domain[OnWire.key]
       /\ OnWire.key \notin stale =>
            dev[OnWire.key] = IF OnWire.op = "get" THEN reply.val ELSE OnWire.val

\* The inductive invariant behind ModeKnown.
ModeInv ==
  TypeOK /\ QueueUse /\ JobUse /\ ReplyUse /\ ModeKnown

\* The inductive invariant behind SetpointsKnown, while nobody changes the
\* mode: a write under way is the one of the temperature that is in use.
ModeSettled ==
  opMode \in {NoMode, dev[ModeKey]} /\ (Arriving(ModeKey) => reply.val = dev[ModeKey])

PlainJobs ==
  \A t \in Tasks : /\ job[t].kind \in {"none", "update", "temp"}
                   /\ job[t].kind = "temp" => ask[t].key = TempSetpoint

FixedModeInv == ModeInv /\ SetpointsKnown /\ ModeSettled /\ PlainJobs

\* Every update and every setter returns, whatever the gateway answers and
\* whoever is cancelled (circuit.py:156-327).
CircuitReturns == \A t \in Tasks : ~Idle(t) ~> Idle(t)
=============================================================================
