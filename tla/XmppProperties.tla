----------------------------- MODULE XmppProperties -----------------------------
(***************************************************************************)
(* What the XMPP connector promises its callers.                           *)
(***************************************************************************)
EXTENDS XmppConnector

Methods == {GET, PUT}
Seqs == Nat
Settled == {"data", "anon", "true", "empty", "msg", "denied", "crypt", "lost"}
Results == {"none", "ok", "cancelled", "FailedAuthException", "DeviceException",
            "DeviceConnectionError", "MsgException", "MsgConnectionError"}

Calls == [method : Methods, path : Paths \cup {"none"}, attempt : {0, 1},
          seq : Seqs \cup {NoSeq}]
Futures == [st : {"none", "open"} \cup Settled, by : Seqs \cup {NoSeq},
            about : Paths \cup {"none"}]
Entries == [seq : Seqs, task : Tasks, method : Methods, path : Paths]
Requests == [seq : Seqs, path : Paths]

TaskTypes ==
  /\ pc \in [Tasks -> {"idle", "queued", "connecting", "waiting"}]
  /\ call \in [Tasks -> Calls]
  /\ \A t \in Tasks : pc[t] # "idle" => call[t].path \in Paths
  /\ fut \in [Tasks -> Futures]
  /\ result \in [Tasks -> Results]

LockTypes == lockOwner \in Tasks \cup {NoTask} /\ lockWaiters \in Seq(Tasks)

RequestTypes ==
  /\ pending \subseteq Entries /\ putLocks \subseteq Paths /\ unanswered \subseteq Requests
  /\ count \in Nat /\ lastTimeoutSeq \in Seqs \cup {NoSeq}

ConnectionTypes ==
  /\ authSuccess \in BOOLEAN /\ connectedEvent \in BOOLEAN /\ disconnectEvent \in BOOLEAN
  /\ link \in {"down", "connecting"} \cup Connected
  /\ handler \in {"none", "start", "end"} /\ closer \in {"none", "waiting"}

\* Every variable has its type.
TypeOK ==
  /\ TaskTypes /\ LockTypes /\ RequestTypes /\ ConnectionTypes
  /\ calls \in Nat /\ closes \in Nat

\* Only the task that holds _request_lock connects or awaits a reply.
LockHolder == \A t \in Tasks : pc[t] \in {"connecting", "waiting"} => lockOwner = t

\* Requests are serialised by _request_lock: a pending entry is the request of
\* the one task that holds the lock and awaits its reply, so there is never
\* more than one candidate for a reply (xmpp.py:393-394).
Serialised ==
  /\ LockHolder
  /\ \A e \in pending : /\ pc[e.task] = "waiting"
                        /\ e.seq = call[e.task].seq
                        /\ e.method = call[e.task].method /\ e.path = call[e.task].path
  /\ \A e, f \in pending : e = f

\* A task that awaits an unset future is registered in _pending, where a
\* reply or the end of the session can still reach it: _reset_events never
\* drops an entry without failing its future.
NoStrandedRequest ==
  \A t \in Tasks : pc[t] = "waiting" /\ fut[t].st = "open" =>
                     \E e \in pending : e.task = t /\ e.seq = call[t].seq

\* An open request is always newer than the last one that timed out, so the
\* test of xmpp.py:429 never rejects a reply.
OpenIsNewerThanTimeout ==
  \A e \in OpenPending : e.seq > lastTimeoutSeq

\* A gateway that echoes the Seq-No resolves a request by the reply to that
\* request.  The reply to request 0 is the exception: its header is also the
\* one of a gateway that ignores Seq-No (xmpp.py:396-443).
EchoedReply ==
  \A t \in Tasks : pc[t] = "waiting" /\ fut[t].by # NoSeq => fut[t].by \in {call[t].seq, 0}

\* Whatever the gateway does with Seq-No, a body that carries an id resolves
\* only a request whose path contains it: a late answer for /a must not
\* resolve a pending GET for /b (tests/test_xmpp_behaviour.py:122).
AnswerFitsPath ==
  \A t \in Tasks : pc[t] = "waiting" /\ fut[t].st = "data"
                     => <<fut[t].about, call[t].path>> \in IdIn

\* The lock of a path in _put_locks is held only during a PUT to that path, so
\* a PUT never waits for it between registering the request and sending it.
PutLockUncontended ==
  \A p \in putLocks : \E t \in Tasks : pc[t] = "waiting" /\ call[t].method = PUT
                                       /\ call[t].path = p

\* Sequence numbers only grow, the pending request has the last one, and a
\* reply with its number answers a request for its path.
SeqOrder ==
  /\ lastTimeoutSeq < count
  /\ \A t \in Tasks : call[t].seq < count
  /\ \A e \in pending : e.seq > lastTimeoutSeq /\ e.seq + 1 = count
  /\ \A r \in unanswered : r.seq < count
  /\ \A r \in unanswered, e \in pending : r.seq = e.seq => r.path = e.path

\* A task has a future exactly while it awaits a reply.
FutureUse == \A t \in Tasks : IF pc[t] = "waiting" THEN fut[t].st # "none" ELSE fut[t] = NoFut

\* An idle task has no call; a PUT is in its first attempt, and it has no
\* sequence number before it is sent.
CallUse ==
  \A t \in Tasks : /\ pc[t] = "idle" => call[t] = NoCall
                   /\ call[t].method = PUT =>
                        /\ call[t].attempt = 0
                        /\ pc[t] \in {"queued", "connecting"} => call[t].seq = NoSeq

\* The inductive invariant behind the safety properties.
Inv ==
  /\ TypeOK /\ Serialised /\ SeqOrder /\ FutureUse /\ CallUse
  /\ NoStrandedRequest /\ PutLockUncontended /\ AnswerFitsPath

\* A future is set at most once: set_result() or set_exception() on a done
\* future would raise InvalidStateError out of the listener.
FuturesSettleOnce ==
  [][\A t \in Tasks : fut[t].st \in Settled => fut'[t] \in {fut[t], NoFut}]_vars

\* When a request ends, the tasks that queued behind it move up and nobody
\* overtakes them: a PUT behind a failing GET waits for one attempt, not for
\* the whole retry budget (const/__init__.py:14-16).
QueueMovesUp ==
  [][\A t \in Tasks : pc[t] = "waiting" /\ pc'[t] # "waiting" /\ lockWaiters # << >> =>
       /\ lockOwner' = Head(lockWaiters)
       /\ \A i \in 2..Len(lockWaiters) : lockWaiters'[i-1] = lockWaiters[i]]_vars

\* A put() sends its command at most once: only GET is retried.
PutSentOnce ==
  [][\A t \in Tasks : call[t].method = PUT /\ call[t].seq # NoSeq
                        => call'[t].seq \in {call[t].seq, NoSeq}]_vars

\* The connector implements RequestReply: at most one request awaits its reply,
\* and a call sends no more requests than its method allows.
Stage  == [t \in Tasks |-> IF pc[t] = "idle" THEN "idle"
                          ELSE IF pc[t] = "waiting" THEN "sent" ELSE "open"]
Method == [t \in Tasks |-> call[t].method]
Tries  == [t \in Tasks |-> IF pc[t] = "waiting" THEN call[t].attempt + 1 ELSE call[t].attempt]

Promise == INSTANCE RequestReply WITH stage <- Stage, method <- Method, tries <- Tries

KeepsPromise == Promise!Spec

\* Every get() and put() returns or raises, whatever the network does.
CallsReturn == \A t \in Tasks : (pc[t] # "idle") ~> (pc[t] = "idle")

\* close() returns, even when the server never acknowledges.
CloseTerminates == (closer = "waiting") ~> (closer = "none")
=============================================================================
