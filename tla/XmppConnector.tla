----------------------------- MODULE XmppConnector -----------------------------
(***************************************************************************)
(* connectors/xmpp.py: one XMPPBaseConnector used by several asyncio tasks *)
(* that call get(), put() and close().                                     *)
(*                                                                         *)
(* An action is the code a task, a slixmpp callback or a timer runs        *)
(* between two awaits.  The XMPP library (link, handler) and the gateway   *)
(* (unanswered) are external: they do what the code in src/ says they do.  *)
(* `by', `about', `calls', `closes' and `result' are history, no action of *)
(* the code reads them except through the bounds MaxCalls and MaxCloses.   *)
(*                                                                         *)
(* A definition named X_Y, before X, is X with the fault Y: it is part of  *)
(* no specification, the properties of XmppProperties exclude it.          *)
(***************************************************************************)
EXTENDS Callers

CONSTANTS
  Paths,      \* request paths
  IdIn,       \* <<p, q>>: the payload id of the resource p is a substring of q
  SeqStyles,  \* the Seq-No of the gateway's replies: some of "echo", "zero" and "none"
  Kinds,      \* what the gateway may answer, a subset of AllKinds
  MaxCalls    \* bound on get() and put() calls

AllKinds == {"data", "anon", "empty", "garbled", "badjson", "denied", "error", "other"}

ASSUME PathAssumption  == IdIn \subseteq Paths \X Paths /\ \A p \in Paths : <<p, p>> \in IdIn
ASSUME StyleAssumption == SeqStyles \subseteq {"echo", "zero", "none"}
ASSUME KindAssumption  == Kinds \subseteq AllKinds
ASSUME BoundAssumption == MaxCalls \in Nat

VARIABLES
  pc,              \* where each task is suspended
  call,            \* its get() or put() call
  fut,             \* the future of its request, and the request whose reply set it
  result,          \* how its last call ended
  lockOwner,       \* _request_lock, handed over in FIFO order
  lockWaiters,
  pending,         \* _pending
  putLocks,        \* the paths whose lock in _put_locks is held
  count,           \* _count
  lastTimeoutSeq,  \* _last_timeout_seq
  authSuccess,     \* _auth_success
  connectedEvent,
  disconnectEvent,
  link,            \* the transport of the slixmpp client
  handler,         \* a session event whose coroutine handler is scheduled
  unanswered,      \* requests the gateway may still answer
  closer,          \* the close() call in progress
  calls, closes

taskVars == <<pc, call, fut, result>>
lockVars == <<lockOwner, lockWaiters>>
reqVars  == <<pending, putLocks, count, lastTimeoutSeq>>
connVars == <<authSuccess, connectedEvent, link, handler>>
exitVars == <<disconnectEvent, closer, closes>>
vars == <<taskVars, lockVars, reqVars, connVars, exitVars, unanswered, calls>>

NoSeq == -1
NoCall == [method |-> GET, path |-> "none", attempt |-> 0, seq |-> NoSeq]
Future(st) == [st |-> st, by |-> NoSeq, about |-> "none"]
NoFut  == Future("none")
Connected == {"open", "authed", "session"}     \* client.is_connected()

Init ==
  /\ pc = [t \in Tasks |-> "idle"]
  /\ call = [t \in Tasks |-> NoCall]
  /\ fut = [t \in Tasks |-> NoFut]
  /\ result = [t \in Tasks |-> "none"]
  /\ lockOwner = NoTask /\ lockWaiters = << >>
  /\ pending = {} /\ putLocks = {} /\ count = 0 /\ lastTimeoutSeq = -1
  /\ authSuccess = FALSE /\ connectedEvent = FALSE /\ disconnectEvent = FALSE
  /\ link = "down" /\ handler = "none"
  /\ unanswered = {}
  /\ closer = "none" /\ calls = 0 /\ closes = 0

-----------------------------------------------------------------------------
(* asyncio.Lock: a task that finds the lock held, or others waiting, queues. *)

Acquire(t) ==
  IF lockOwner = NoTask
  THEN lockOwner' = t /\ UNCHANGED lockWaiters
  ELSE lockWaiters' = Append(lockWaiters, t) /\ UNCHANGED lockOwner

Release_NoWakeup == lockOwner' = NoTask /\ UNCHANGED lockWaiters

Release ==
  IF lockWaiters = << >>
  THEN lockOwner' = NoTask /\ UNCHANGED lockWaiters
  ELSE lockOwner' = Head(lockWaiters) /\ lockWaiters' = Tail(lockWaiters)

Reacquire_KeepsLock(t) == UNCHANGED lockVars

\* The task releases the lock and asks for it again before anyone else runs.
Reacquire(t) ==
  IF lockWaiters = << >>
  THEN UNCHANGED lockVars
  ELSE lockOwner' = Head(lockWaiters) /\ lockWaiters' = Append(Tail(lockWaiters), t)

-----------------------------------------------------------------------------
(* get(), put() and _request()                                             *)

\* A coroutine calls get(p) or put(p, value).  A task that finds the lock free
\* runs on without a break: steps of others between Start and its next step are
\* the same steps taken before the call.
Start(t, m, p) ==
  /\ pc[t] = "idle" /\ calls < MaxCalls
  /\ calls' = calls + 1
  /\ pc' = [pc EXCEPT ![t] = "queued"]
  /\ call' = [call EXCEPT ![t] = [NoCall EXCEPT !.method = m, !.path = p]]
  /\ result' = [result EXCEPT ![t] = "none"]
  /\ Acquire(t)
  /\ UNCHANGED <<fut, reqVars, connVars, exitVars, unanswered>>

\* The call returns or raises, and the lock goes to the next task.
Finish(t, res) ==
  /\ pc' = [pc EXCEPT ![t] = "idle"]
  /\ call' = [call EXCEPT ![t] = NoCall]
  /\ fut' = [fut EXCEPT ![t] = NoFut]
  /\ result' = [result EXCEPT ![t] = res]
  /\ Release

HasLock_Ignored(t) == pc[t] = "queued"

HasLock(t) == pc[t] = "queued" /\ lockOwner = t

\* client.connect(): a client that has no transport starts to connect.
Dial == link' = IF link = "down" THEN "connecting" ELSE link

\* Not authorized: connect and wait for connected_event.
BeginConnect(t) ==
  /\ HasLock(t) /\ ~authSuccess /\ ~connectedEvent
  /\ Dial
  /\ pc' = [pc EXCEPT ![t] = "connecting"]
  /\ UNCHANGED <<call, fut, result, lockVars, reqVars, authSuccess, connectedEvent,
                 handler, exitVars, unanswered, calls>>

\* connected_event is already set: the wait returns at once, with no
\* authentication behind it.
SkipConnectWait(t) ==
  /\ HasLock(t) /\ ~authSuccess /\ connectedEvent
  /\ Dial
  /\ Finish(t, "FailedAuthException")
  /\ UNCHANGED <<reqVars, authSuccess, connectedEvent, handler, exitVars, unanswered, calls>>

\* connected_event woke the task, the server had rejected the credentials.
Rejected(t) ==
  /\ pc[t] = "connecting" /\ connectedEvent /\ ~authSuccess
  /\ Finish(t, "FailedAuthException")
  /\ UNCHANGED <<reqVars, connVars, exitVars, unanswered, calls>>

\* The timer may win against connected_event until the task has resumed.
ConnectTimeout(t) ==
  /\ pc[t] = "connecting"
  /\ link' = IF link = "connecting" THEN "down" ELSE link
  /\ Finish(t, "DeviceConnectionError")
  /\ UNCHANGED <<reqVars, authSuccess, connectedEvent, handler, exitVars, unanswered, calls>>

TakeSeqNo == count' = count + 1

\* Register the request under a fresh sequence number, take the lock of the
\* path for a PUT, and send.
Transmit(t) ==
  /\ HasLock(t) \/ (pc[t] = "connecting" /\ connectedEvent)
  /\ authSuccess
  /\ call[t].method = PUT => call[t].path \notin putLocks
  /\ TakeSeqNo
  /\ pending' = pending \cup {[seq |-> count, task |-> t,
                               method |-> call[t].method, path |-> call[t].path]}
  /\ putLocks' = IF call[t].method = PUT THEN putLocks \cup {call[t].path} ELSE putLocks
  /\ fut' = [fut EXCEPT ![t] = Future("open")]
  /\ call' = [call EXCEPT ![t].seq = count]
  /\ unanswered' = unanswered \cup {[seq |-> count, path |-> call[t].path]}
  /\ pc' = [pc EXCEPT ![t] = "waiting"]
  /\ UNCHANGED <<result, lockVars, lastTimeoutSeq, connVars, exitVars, calls>>

\* The finally clause of _request.
EndRequest(t) ==
  /\ pending' = {e \in pending : e.seq # call[t].seq}
  /\ putLocks' = IF call[t].method = PUT THEN putLocks \ {call[t].path} ELSE putLocks

Retries_Put(t, outcome) == call[t].attempt = 0 /\ outcome \in {"empty", "msg", "lost"}

\* What get() and put() make of the outcome of a request.
Retries(t, outcome) ==
  call[t].method = GET /\ call[t].attempt = 0 /\ outcome \in {"empty", "msg", "lost"}

Verdict(m, outcome) ==
  CASE outcome = "denied" -> "FailedAuthException"
    [] outcome = "crypt" -> "DeviceException"
    [] outcome = "lost" -> IF m = GET THEN "DeviceConnectionError" ELSE "MsgConnectionError"
    [] outcome = "msg" -> IF m = GET THEN "DeviceException" ELSE "MsgException"
    [] outcome = "empty" -> "DeviceException"
    [] OTHER -> "ok"

\* The second attempt of a get() queues for the lock again.
Retry(t) ==
  /\ pc' = [pc EXCEPT ![t] = "queued"]
  /\ call' = [call EXCEPT ![t].attempt = @ + 1]
  /\ fut' = [fut EXCEPT ![t] = NoFut]
  /\ Reacquire(t)
  /\ UNCHANGED result

Conclude(t, outcome) ==
  /\ EndRequest(t)
  /\ IF Retries(t, outcome) THEN Retry(t) ELSE Finish(t, Verdict(call[t].method, outcome))
  /\ UNCHANGED <<count, connVars, exitVars, unanswered, calls>>

\* The future is done and the task runs again.
Resume(t) ==
  /\ pc[t] = "waiting" /\ fut[t].st # "open"
  /\ Conclude(t, fut[t].st)
  /\ UNCHANGED lastTimeoutSeq

\* The timer cancels the wait, even of a task whose future has just been set.
RequestTimeout(t) ==
  /\ pc[t] = "waiting"
  /\ lastTimeoutSeq' = call[t].seq
  /\ Conclude(t, "lost")

\* The task is cancelled from outside while it is suspended.
CancelWaiting(t) ==
  /\ pc[t] = "waiting"
  /\ EndRequest(t)
  /\ Finish(t, "cancelled")
  /\ UNCHANGED <<count, lastTimeoutSeq, connVars, exitVars, unanswered, calls>>

CancelConnecting(t) ==
  /\ pc[t] = "connecting"
  /\ Finish(t, "cancelled")
  /\ UNCHANGED <<reqVars, connVars, exitVars, unanswered, calls>>

CancelQueued(t) ==
  /\ pc[t] = "queued"
  /\ pc' = [pc EXCEPT ![t] = "idle"]
  /\ call' = [call EXCEPT ![t] = NoCall]
  /\ result' = [result EXCEPT ![t] = "cancelled"]
  /\ \/ lockOwner = t /\ Release
     \/ /\ \E i \in 1..Len(lockWaiters) :
             lockWaiters[i] = t /\ lockWaiters' = RemoveAt(lockWaiters, i)
        /\ UNCHANGED lockOwner
  /\ UNCHANGED <<fut, reqVars, connVars, exitVars, unanswered, calls>>

-----------------------------------------------------------------------------
(* _match_response() and main_listener()                                   *)

SeqHeader(r, style) == CASE style = "echo" -> r.seq [] style = "zero" -> 0 [] OTHER -> NoSeq

OpenPending_All == pending

OpenPending == {e \in pending : fut[e.task].st = "open"}

PayloadMatchesPath_Never(kind, p, q) == TRUE

\* Only a decrypted body that carries an id can tell which path it answers.
PayloadMatchesPath(kind, p, q) == kind = "data" => <<p, q>> \in IdIn

MatchResponse_Lone(hdr, kind, p) == OpenPending

\* The pending request a reply with this header, kind and source path resolves.
MatchResponse(hdr, kind, p) ==
  LET fits == {e \in OpenPending : PayloadMatchesPath(kind, p, e.path)}
  IN  IF \E e \in pending : e.seq = hdr
      THEN {e \in OpenPending : e.seq = hdr}
      ELSE IF hdr = NoSeq
      THEN {e \in fits : \A f \in fits : e.seq <= f.seq}
      ELSE {e \in fits : hdr = 0 /\ Cardinality(OpenPending) = 1 /\ e.seq > lastTimeoutSeq}

\* What the listener sets on the future of the matched request.
Settlement(kind, m) ==
  CASE kind \in {"data", "anon"} -> kind
    [] kind = "empty" -> IF m = PUT THEN "true" ELSE "empty"
    [] kind = "garbled" -> "crypt"
    [] kind = "denied" -> "denied"
    [] OTHER -> "msg"

\* Scheduled handlers, and tasks that connected_event has woken, run before
\* the event loop reads the socket again.
NetReady == handler = "none" /\ \A t \in Tasks : ~(pc[t] = "connecting" /\ connectedEvent)

\* A status outside 2xx, 4xx and 5xx is ignored; a body that decrypts to no
\* JSON raises out of the listener.
Resolves(r, kind, style) ==
  IF kind \in {"badjson", "other"} THEN {} ELSE MatchResponse(SeqHeader(r, style), kind, r.path)

\* A reply to request r arrives.
MainListener(r, kind, style) ==
  /\ NetReady /\ link = "session"
  /\ unanswered' = unanswered \ {r}
  /\ \/ Resolves(r, kind, style) = {} /\ UNCHANGED fut
     \/ \E e \in Resolves(r, kind, style) :
          fut' = [fut EXCEPT ![e.task] = [st |-> Settlement(kind, e.method),
                                          by |-> r.seq, about |-> r.path]]
  /\ UNCHANGED <<pc, call, result, lockVars, reqVars, connVars, exitVars, calls>>

-----------------------------------------------------------------------------
(* The connection                                                          *)

TcpUp ==
  /\ NetReady /\ link = "connecting"
  /\ link' = "open"
  /\ UNCHANGED <<taskVars, lockVars, reqVars, authSuccess, connectedEvent, handler,
                 exitVars, unanswered, calls>>

AuthSuccess ==
  /\ NetReady /\ link = "open"
  /\ link' = "authed" /\ authSuccess' = TRUE
  /\ UNCHANGED <<taskVars, lockVars, reqVars, connectedEvent, handler, exitVars,
                 unanswered, calls>>

\* failed_auth: another mechanism may still succeed.
AuthFailure ==
  /\ NetReady /\ link = "open"
  /\ authSuccess' = FALSE /\ connectedEvent' = TRUE
  /\ UNCHANGED <<taskVars, lockVars, reqVars, link, handler, exitVars, unanswered, calls>>

\* slixmpp schedules the handler of session_start, it runs later.
SessionOpens ==
  /\ NetReady /\ link = "authed"
  /\ link' = "session" /\ handler' = "start"
  /\ UNCHANGED <<taskVars, lockVars, reqVars, authSuccess, connectedEvent, exitVars,
                 unanswered, calls>>

\* The transport goes away.  session_end follows a session that started; for
\* an earlier stage both readings of the library are allowed.
DropLink ==
  /\ link' = "down"
  /\ handler' \in IF link = "session" THEN {"end"} ELSE {"none", "end"}

LinkLost ==
  /\ NetReady /\ link \in Connected
  /\ DropLink
  /\ UNCHANGED <<taskVars, lockVars, reqVars, authSuccess, connectedEvent, exitVars,
                 unanswered, calls>>

SessionStart ==
  /\ handler = "start"
  /\ handler' = "none" /\ connectedEvent' = TRUE
  /\ UNCHANGED <<taskVars, lockVars, reqVars, authSuccess, link, exitVars, unanswered, calls>>

FailFutures_Forgotten == UNCHANGED fut

FailFutures ==
  fut' = [t \in Tasks |-> IF \E e \in OpenPending : e.task = t THEN Future("lost") ELSE fut[t]]

\* session_end and _reset_events.
SessionEnd ==
  /\ handler = "end"
  /\ handler' = "none"
  /\ disconnectEvent' = TRUE /\ connectedEvent' = FALSE /\ authSuccess' = FALSE
  /\ \/ pending = {} /\ UNCHANGED lastTimeoutSeq
     \/ \E e \in pending : /\ \A f \in pending : f.seq <= e.seq
                           /\ lastTimeoutSeq' = e.seq
  /\ FailFutures
  /\ pending' = {}
  /\ UNCHANGED <<pc, call, result, lockVars, putLocks, count, link, closer, closes,
                 unanswered, calls>>

-----------------------------------------------------------------------------
(* close()                                                                 *)

\* Cancel a connection attempt; a client that is not connected is done.
CloseUnconnected ==
  /\ closer = "none" /\ closes < MaxCloses
  /\ link \notin Connected
  /\ link' = "down" /\ disconnectEvent' = TRUE /\ closes' = closes + 1
  /\ UNCHANGED <<taskVars, lockVars, reqVars, authSuccess, connectedEvent, handler,
                 closer, unanswered, calls>>

\* disconnect(), then wait for disconnect_event.
CloseConnected ==
  /\ closer = "none" /\ closes < MaxCloses
  /\ link \in Connected
  /\ closer' = "waiting"
  /\ UNCHANGED <<taskVars, lockVars, reqVars, connVars, disconnectEvent, closes,
                 unanswered, calls>>

CloseReturns ==
  /\ closer = "waiting" /\ disconnectEvent
  /\ closer' = "none" /\ closes' = closes + 1
  /\ UNCHANGED <<taskVars, lockVars, reqVars, connVars, disconnectEvent, unanswered, calls>>

\* After 10 seconds: abort().
CloseTimeout ==
  /\ closer = "waiting" /\ handler = "none"
  /\ closer' = "none" /\ closes' = closes + 1
  /\ IF link \in Connected THEN DropLink ELSE UNCHANGED <<link, handler>>
  /\ UNCHANGED <<taskVars, lockVars, reqVars, authSuccess, connectedEvent, disconnectEvent,
                 unanswered, calls>>

-----------------------------------------------------------------------------
\* Every call has returned and the bounds are used up: the one place to stop.
Rest ==
  /\ calls = MaxCalls /\ closer = "none" /\ \A t \in Tasks : pc[t] = "idle"
  /\ UNCHANGED vars

TaskStep(t) ==
  \/ BeginConnect(t) \/ SkipConnectWait(t) \/ Rejected(t) \/ Transmit(t) \/ Resume(t)
Timer(t) == ConnectTimeout(t) \/ RequestTimeout(t)
Cancel(t) == CancelWaiting(t) \/ CancelConnecting(t) \/ CancelQueued(t)
Handler == SessionStart \/ SessionEnd
Network ==
  \/ TcpUp \/ AuthSuccess \/ AuthFailure \/ SessionOpens \/ LinkLost
  \/ \E r \in unanswered, kind \in Kinds, style \in SeqStyles : MainListener(r, kind, style)
Close == CloseUnconnected \/ CloseConnected \/ CloseReturns \/ CloseTimeout

Next ==
  \/ \E t \in Tasks : \/ \E m \in {GET, PUT}, p \in Paths : Start(t, m, p)
                      \/ TaskStep(t) \/ Timer(t) \/ Cancel(t)
  \/ Handler \/ Network \/ Close \/ Rest

Spec == Init /\ [][Next]_vars

\* The event loop runs what is ready and the timers fire; the network, the
\* gateway and the callers owe nothing.
Fairness ==
  /\ \A t \in Tasks : WF_vars(TaskStep(t)) /\ WF_vars(Timer(t))
  /\ WF_vars(Handler) /\ WF_vars(CloseReturns) /\ WF_vars(CloseTimeout)

FairSpec == Spec /\ Fairness
=============================================================================
