---------------------------- MODULE SerialConnector ----------------------------
(***************************************************************************)
(* connector.get() and connector.put() as the entities of the library see  *)
(* them, over XMPP or HTTP: requests are carried out one at a time in the  *)
(* order of the calls, and a task whose call returns runs on until it      *)
(* awaits again.  The device is external.                                  *)
(***************************************************************************)
EXTENDS Queues

CONSTANTS
  Tasks,      \* asyncio tasks that use the entities
  Keys,       \* resources of the device
  NoKey,      \* a path that is no resource
  Domain,     \* the values each of them takes
  OwnerKeys,  \* resources that change on the device itself, too
  MaxChanges, \* bound on such changes
  MaxRetries  \* how often get() repeats a request that failed

ASSUME KeyAssumption ==
  /\ NoKey \notin Keys /\ OwnerKeys \subseteq Keys
  /\ MaxChanges \in Nat /\ MaxRetries \in Nat

VARIABLES
  dev,      \* the value of each resource on the device
  queue,    \* the tasks in get() or put(), in the order of the request lock
  ask,      \* the request of each of them
  reply,    \* what the connector has for the first one
  stale,    \* resources that may have changed without the library noticing
  changes

connectorVars == <<dev, queue, ask, reply, stale, changes>>

NoReply == [st |-> "none", val |-> "none"]
NoAsk == [op |-> "none", key |-> NoKey, val |-> "none", failed |-> 0]
Get(k) == [NoAsk EXCEPT !.op = "get", !.key = k]
Put(k, v) == [op |-> "put", key |-> k, val |-> v, failed |-> 0]

ConnectorInit ==
  /\ dev \in {d \in [Keys -> UNION {Domain[k] : k \in Keys}] : \A k \in Keys : d[k] \in Domain[k]}
  /\ queue = << >> /\ reply = NoReply
  /\ ask = [t \in Tasks |-> NoAsk]
  /\ stale = Keys /\ changes = 0

Ask(t, request) ==
  /\ queue' = Append(queue, t)
  /\ ask' = [ask EXCEPT ![t] = request]
  /\ UNCHANGED <<dev, reply, stale, changes>>

\* The call of t has an outcome and t runs on.
Returned(t) == queue # << >> /\ Head(queue) = t /\ reply # NoReply

\* It awaits another request: behind the tasks that wait already.
AskAgain(t, request) ==
  /\ queue' = Append(Tail(queue), t)
  /\ ask' = [ask EXCEPT ![t] = request]
  /\ reply' = NoReply
  /\ UNCHANGED <<dev, stale, changes>>

\* Or it awaits nothing more.
Leave(t) ==
  /\ queue' = Tail(queue)
  /\ ask' = [ask EXCEPT ![t] = NoAsk]
  /\ reply' = NoReply
  /\ UNCHANGED <<dev, stale, changes>>

-----------------------------------------------------------------------------
(* What becomes of the request on the wire.                                *)

OnWire == ask[Head(queue)]
Pending == queue # << >> /\ reply = NoReply

GetAnswered ==
  /\ Pending /\ OnWire.op = "get" /\ OnWire.key \in Keys
  /\ reply' = [st |-> "ok", val |-> dev[OnWire.key]]
  /\ stale' = stale \ {OnWire.key}
  /\ UNCHANGED <<dev, queue, ask, changes>>

PutTaken ==
  /\ Pending /\ OnWire.op = "put" /\ OnWire.key \in Keys
  /\ dev' = [dev EXCEPT ![OnWire.key] = OnWire.val]
  /\ reply' = [NoReply EXCEPT !.st = "ok"]
  /\ stale' = stale \ {OnWire.key}
  /\ UNCHANGED <<queue, ask, changes>>

\* The device takes the value, and the answer is lost, or is no success for the caller.
PutUnconfirmed ==
  /\ Pending /\ OnWire.op = "put" /\ OnWire.key \in Keys
  /\ dev' = [dev EXCEPT ![OnWire.key] = OnWire.val]
  /\ stale' = stale \cup {OnWire.key}
  /\ \E st \in {"down", "void"} : reply' = [NoReply EXCEPT !.st = st]
  /\ UNCHANGED <<queue, ask, changes>>

\* get() tries again, behind the tasks that wait already.
Repeated ==
  /\ Pending /\ OnWire.op = "get" /\ OnWire.failed < MaxRetries
  /\ queue' = Append(Tail(queue), Head(queue))
  /\ ask' = [ask EXCEPT ![Head(queue)].failed = @ + 1]
  /\ UNCHANGED <<dev, reply, stale, changes>>

\* DeviceException, or DeviceConnectionError before the device is reached.
Failed ==
  /\ Pending
  /\ \E st \in {"refused", "down"} : reply' = [NoReply EXCEPT !.st = st]
  /\ UNCHANGED <<dev, queue, ask, stale, changes>>

\* Somebody uses the thermostat, or the device takes a value long given up.
OwnerChanges ==
  /\ changes < MaxChanges
  /\ \E k \in OwnerKeys : \E v \in Domain[k] : dev' = [dev EXCEPT ![k] = v] /\ stale' = stale \cup {k}
  /\ changes' = changes + 1
  /\ UNCHANGED <<queue, ask, reply>>

DeviceStep == GetAnswered \/ PutTaken \/ PutUnconfirmed \/ Repeated \/ Failed

\* The task is cancelled: a request on the wire may still be carried out.
Abandon(t) ==
  /\ \E i \in 1..Len(queue) :
       /\ queue[i] = t /\ queue' = RemoveAt(queue, i)
       /\ IF i = 1
            THEN /\ reply' = NoReply /\ stale' = stale \cup ({ask[t].key} \cap Keys)
                 /\ \/ UNCHANGED dev
                    \/ /\ Pending /\ OnWire.op = "put" /\ OnWire.key \in Keys
                       /\ dev' = [dev EXCEPT ![OnWire.key] = OnWire.val]
            ELSE UNCHANGED <<dev, reply, stale>>
  /\ ask' = [ask EXCEPT ![t] = NoAsk]
  /\ UNCHANGED changes

-----------------------------------------------------------------------------
(* Types.                                                                  *)

AllValues == UNION {Domain[k] : k \in Keys}

AskTypes == [op : {"none", "get", "put"}, key : Keys \cup {NoKey},
             val : AllValues \cup {"none"}, failed : Nat]
ReplyTypes == [st : {"none", "ok", "void", "refused", "down"}, val : AllValues \cup {"none"}]

ConnectorTypes ==
  /\ dev \in [Keys -> AllValues] /\ \A k \in Keys : dev[k] \in Domain[k]
  /\ queue \in Seq(Tasks)
  /\ ask \in [Tasks -> AskTypes] /\ reply \in ReplyTypes
  /\ stale \subseteq Keys /\ changes \in Nat
=============================================================================
