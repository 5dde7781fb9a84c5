----------------------------- MODULE ConnectorProofs -----------------------------
(***************************************************************************)
(* The safety of the XMPP connector, for every set of tasks, paths and     *)
(* kinds of replies, and that of the HTTP connector, for every set of      *)
(* tasks.  Both implement RequestReply.                                    *)
(***************************************************************************)
EXTENDS XmppProperties, HttpConnector, TLAPS

-----------------------------------------------------------------------------
(* XMPP: type correctness                                                  *)

USE DEF Methods, Seqs, GET, PUT, NoSeq

\* The constant records have their types.
LEMMA ConstantTypes ==
  /\ NoCall \in Calls
  /\ NoFut \in Futures
  /\ Future("open") \in Futures /\ Future("lost") \in Futures
BY DEF NoCall, NoFut, Future, Calls, Futures, Settled

\* The type invariant holds initially.
LEMMA TypeInit == Init => TypeOK
<1> SUFFICES ASSUME Init PROVE TypeOK
  OBVIOUS
<1>1. TaskTypes
  BY ConstantTypes DEF Init, TaskTypes, Results
<1>2. LockTypes
  BY DEF Init, LockTypes
<1>3. RequestTypes
  BY DEF Init, RequestTypes
<1>4. ConnectionTypes
  BY DEF Init, ConnectionTypes, Connected
<1>5. calls \in Nat /\ closes \in Nat
  BY DEF Init
<1> QED BY <1>1, <1>2, <1>3, <1>4, <1>5 DEF TypeOK

\* The lock operations keep the lock well typed.
LEMMA LockStep ==
  ASSUME LockTypes, NEW t \in Tasks
  PROVE  /\ Acquire(t) => LockTypes'
         /\ Release => LockTypes'
         /\ Reacquire(t) => LockTypes'
         /\ \A i \in 1..Len(lockWaiters) :
              lockWaiters' = RemoveAt(lockWaiters, i) /\ UNCHANGED lockOwner => LockTypes'
<1>1. Acquire(t) => LockTypes'
  BY DEF Acquire, LockTypes
<1>2. Release => LockTypes'
  BY DEF Release, LockTypes
<1>3. Reacquire(t) => LockTypes'
  BY DEF Reacquire, LockTypes, lockVars
<1>4. ASSUME NEW i \in 1..Len(lockWaiters), lockWaiters' = RemoveAt(lockWaiters, i),
             UNCHANGED lockOwner
      PROVE  LockTypes'
  BY <1>4 DEF RemoveAt, LockTypes
<1> QED BY <1>1, <1>2, <1>3, <1>4

\* The end of a call keeps the tasks well typed.
LEMMA FinishStep ==
  ASSUME TaskTypes, LockTypes, NEW t \in Tasks, NEW res \in Results, Finish(t, res)
  PROVE  TaskTypes' /\ LockTypes'
<1>1. TaskTypes'
  BY ConstantTypes DEF Finish, TaskTypes
<1>2. LockTypes'
  BY LockStep DEF Finish
<1> QED BY <1>1, <1>2

\* What get() and put() make of an outcome is a result.
LEMMA VerdictType ==
  ASSUME NEW m, NEW o PROVE Verdict(m, o) \in Results
BY DEF Verdict, Results

\* The end of a request keeps the table of requests and the locks well typed.
LEMMA ConcludeStep ==
  ASSUME TypeOK, NEW t \in Tasks, NEW o, pc[t] = "waiting", Conclude(t, o)
  PROVE  /\ TaskTypes' /\ LockTypes'
         /\ pending' \subseteq Entries /\ putLocks' \subseteq Paths
<1>1. pending' \subseteq Entries /\ putLocks' \subseteq Paths
  BY DEF Conclude, EndRequest, TypeOK, RequestTypes
<1>2. CASE Retries(t, o)
  <2>1. Retry(t)
    BY <1>2 DEF Conclude
  <2>2. call[t].attempt = 0 /\ call[t] \in Calls
    BY <1>2 DEF Retries, TypeOK, TaskTypes
  <2>3. [call[t] EXCEPT !.attempt = call[t].attempt + 1] \in Calls
    BY <2>2 DEF Calls
  <2>4. call' \in [Tasks -> Calls] /\ \A u \in Tasks : call'[u].path = call[u].path
    BY <2>1, <2>3 DEF Retry, TypeOK, TaskTypes, Calls
  <2>5. TaskTypes'
    BY <2>1, <2>4, ConstantTypes DEF Retry, TypeOK, TaskTypes
  <2>6. LockTypes'
    BY <2>1, LockStep DEF Retry, TypeOK
  <2> QED BY <1>1, <2>5, <2>6
<1>3. CASE ~Retries(t, o)
  <2>1. Finish(t, Verdict(call[t].method, o))
    BY <1>3 DEF Conclude
  <2> QED BY <1>1, <2>1, FinishStep, VerdictType DEF TypeOK
<1> QED BY <1>2, <1>3

\* The steps that touch neither the calls, the lock nor the requests.
ConnectionStep ==
  \/ TcpUp \/ AuthSuccess \/ AuthFailure \/ SessionOpens \/ LinkLost \/ SessionStart
  \/ Close \/ Rest \/ UNCHANGED vars

\* They leave these variables alone and keep their own well typed.
LEMMA ConnectionFrame ==
  ASSUME TypeOK, ConnectionStep
  PROVE  /\ UNCHANGED <<taskVars, lockVars, reqVars, unanswered>>
         /\ ConnectionTypes' /\ calls' \in Nat /\ closes' \in Nat
<1> USE DEF TypeOK, ConnectionTypes, Connected
<1>1. CASE TcpUp \/ AuthSuccess \/ AuthFailure \/ SessionOpens \/ LinkLost \/ SessionStart
  BY <1>1 DEF TcpUp, AuthSuccess, AuthFailure, SessionOpens, LinkLost, SessionStart, DropLink,
     exitVars
<1>2. CASE Close
  <2>1. CASE CloseUnconnected
    BY <2>1 DEF CloseUnconnected
  <2>2. CASE CloseConnected
    BY <2>2 DEF CloseConnected, connVars
  <2>3. CASE CloseReturns
    BY <2>3 DEF CloseReturns, connVars
  <2>4. CASE CloseTimeout
    <3>1. CASE link \in {"open", "authed", "session"}
      BY <2>4, <3>1 DEF CloseTimeout, DropLink
    <3>2. CASE link \notin {"open", "authed", "session"}
      BY <2>4, <3>2 DEF CloseTimeout
    <3> QED BY <3>1, <3>2
  <2> QED BY <1>2, <2>1, <2>2, <2>3, <2>4 DEF Close
<1>3. CASE Rest \/ UNCHANGED vars
  BY <1>3 DEF Rest, vars, taskVars, lockVars, reqVars, connVars, exitVars
<1> QED BY <1>1, <1>2, <1>3 DEF ConnectionStep

\* What a step of the specification is.
LEMMA NextCases ==
  ASSUME [Next]_vars
  PROVE  \/ ConnectionStep \/ SessionEnd
         \/ \E r \in unanswered, kind \in Kinds, style \in SeqStyles : MainListener(r, kind, style)
         \/ \E t \in Tasks : \/ \E m \in {GET, PUT}, p \in Paths : Start(t, m, p)
                             \/ TaskStep(t) \/ Timer(t) \/ Cancel(t)
BY DEF Next, Handler, Network, ConnectionStep

\* Every step keeps the variables well typed.
LEMMA TypeStep == TypeOK /\ [Next]_vars => TypeOK'
<1> SUFFICES ASSUME TypeOK, [Next]_vars PROVE TypeOK'
  OBVIOUS
<1> USE DEF TypeOK
<1>1. CASE ConnectionStep
  <2>1. UNCHANGED <<taskVars, lockVars, reqVars, unanswered>>
    BY <1>1, ConnectionFrame
  <2>2. TaskTypes' /\ LockTypes' /\ RequestTypes'
    BY <2>1 DEF TaskTypes, LockTypes, RequestTypes, taskVars, lockVars, reqVars
  <2> QED BY <1>1, <2>2, ConnectionFrame
<1>2. CASE SessionEnd
  <2>1. fut' \in [Tasks -> Futures]
    BY <1>2, ConstantTypes DEF SessionEnd, FailFutures, TaskTypes
  <2>2. TaskTypes' /\ LockTypes'
    BY <1>2, <2>1 DEF SessionEnd, TaskTypes, LockTypes, lockVars
  <2>3. RequestTypes' /\ ConnectionTypes' /\ calls' \in Nat /\ closes' \in Nat
    BY <1>2 DEF SessionEnd, RequestTypes, ConnectionTypes, Entries
  <2> QED BY <2>2, <2>3
<1>3. ASSUME NEW r \in unanswered, NEW kind \in Kinds, NEW style \in SeqStyles, MainListener(r, kind, style)
     PROVE  TypeOK'
  <2>1. \A m \in Methods : Settlement(kind, m) \in Settled
    BY KindAssumption DEF Settlement, Settled, AllKinds
  <2>2. r \in Requests
    BY DEF RequestTypes
  <2>3. Resolves(r, kind, style) \subseteq OpenPending /\ OpenPending \subseteq Entries
    BY DEF Resolves, OpenPending, MatchResponse, RequestTypes
  <2>4. \A e \in Entries : [st |-> Settlement(kind, e.method), by |-> r.seq, about |-> r.path]
                            \in Futures
    BY <2>1, <2>2 DEF Entries, Futures, Requests
  <2>5. fut' \in [Tasks -> Futures]
    <3>1. CASE UNCHANGED fut
      BY <3>1 DEF TaskTypes
    <3>2. ASSUME NEW e \in Resolves(r, kind, style),
                 fut' = [fut EXCEPT ![e.task] = [st |-> Settlement(kind, e.method),
                                                 by |-> r.seq, about |-> r.path]]
          PROVE  fut' \in [Tasks -> Futures]
      <4> DEFINE f == [st |-> Settlement(kind, e.method), by |-> r.seq, about |-> r.path]
      <4>1. f \in Futures
        BY <2>3, <2>4
      <4> HIDE DEF f
      <4>2. fut' = [fut EXCEPT ![e.task] = f]
        BY <3>2 DEF f
      <4> QED BY <4>1, <4>2 DEF TaskTypes
    <3> QED BY <1>3, <3>1, <3>2 DEF MainListener
  <2>6. TaskTypes' /\ LockTypes' /\ RequestTypes' /\ ConnectionTypes'
    BY <1>3, <2>5 DEF MainListener, TaskTypes, LockTypes, RequestTypes, ConnectionTypes,
       lockVars, reqVars, connVars, exitVars
  <2> QED BY <1>3, <2>6 DEF MainListener, exitVars
<1>4. ASSUME NEW t \in Tasks, NEW m \in {GET, PUT}, NEW p \in Paths, Start(t, m, p)
      PROVE  TypeOK'
  <2>1. [NoCall EXCEPT !.method = m, !.path = p] \in Calls
    BY DEF NoCall, Calls
  <2>2. call' \in [Tasks -> Calls] /\ call'[t].path = p
        /\ \A u \in Tasks \ {t} : call'[u] = call[u] /\ pc'[u] = pc[u]
    BY <1>4, <2>1 DEF Start, TaskTypes, NoCall
  <2>3. TaskTypes'
    BY <1>4, <2>2 DEF Start, TaskTypes, Results
  <2>4. LockTypes'
    BY <1>4, LockStep DEF Start
  <2>5. RequestTypes' /\ ConnectionTypes' /\ calls' \in Nat /\ closes' \in Nat
    BY <1>4 DEF Start, RequestTypes, ConnectionTypes, reqVars, connVars, exitVars
  <2> QED BY <2>3, <2>4, <2>5
<1>5. ASSUME NEW t \in Tasks, BeginConnect(t) PROVE TypeOK'
  BY <1>5 DEF BeginConnect, HasLock, Dial, TaskTypes, LockTypes, RequestTypes, ConnectionTypes,
     lockVars, reqVars, exitVars
<1>6. ASSUME NEW t \in Tasks,
             SkipConnectWait(t) \/ Rejected(t) \/ ConnectTimeout(t) \/ CancelConnecting(t)
      PROVE  TypeOK'
  <2>1. TaskTypes' /\ LockTypes'
    BY <1>6, FinishStep DEF SkipConnectWait, Rejected, ConnectTimeout, CancelConnecting, Results
  <2>2. RequestTypes' /\ ConnectionTypes' /\ calls' \in Nat /\ closes' \in Nat
    BY <1>6 DEF SkipConnectWait, Rejected, ConnectTimeout, CancelConnecting, Dial,
       RequestTypes, ConnectionTypes, reqVars, connVars, exitVars
  <2> QED BY <2>1, <2>2
<1>7. ASSUME NEW t \in Tasks, Transmit(t) PROVE TypeOK'
  <2>1. pc[t] # "idle" /\ call[t] \in Calls /\ call[t].path \in Paths
    BY <1>7 DEF Transmit, HasLock, TaskTypes
  <2>2. [seq |-> count, task |-> t, method |-> call[t].method, path |-> call[t].path] \in Entries
    BY <2>1 DEF RequestTypes, Entries, Calls
  <2>3. [seq |-> count, path |-> call[t].path] \in Requests
    BY <2>1 DEF RequestTypes, Requests
  <2>4. [call[t] EXCEPT !.seq = count] \in Calls
    BY <2>1 DEF RequestTypes, Calls
  <2>5. TaskTypes'
    BY <1>7, <2>1, <2>4, ConstantTypes DEF Transmit, TaskTypes, Calls
  <2>6. RequestTypes'
    BY <1>7, <2>1, <2>2, <2>3 DEF Transmit, TakeSeqNo, RequestTypes
  <2>7. LockTypes' /\ ConnectionTypes' /\ calls' \in Nat /\ closes' \in Nat
    BY <1>7 DEF Transmit, LockTypes, ConnectionTypes, lockVars, connVars, exitVars
  <2> QED BY <2>5, <2>6, <2>7
<1>8. ASSUME NEW t \in Tasks, Resume(t) \/ RequestTimeout(t) PROVE TypeOK'
  <2>1. PICK o : Conclude(t, o)
    BY <1>8 DEF Resume, RequestTimeout
  <2>2. call[t].seq \in Seqs \cup {NoSeq} /\ pc[t] = "waiting"
    BY <1>8 DEF Resume, RequestTimeout, TaskTypes, Calls
  <2>3. TaskTypes' /\ LockTypes' /\ pending' \subseteq Entries /\ putLocks' \subseteq Paths
    BY <2>1, <2>2, ConcludeStep
  <2>4. lastTimeoutSeq' \in Seqs \cup {NoSeq}
    BY <1>8, <2>2 DEF Resume, RequestTimeout, RequestTypes
  <2>5. RequestTypes'
    BY <2>1, <2>3, <2>4 DEF Conclude, RequestTypes
  <2>6. ConnectionTypes' /\ calls' \in Nat /\ closes' \in Nat
    BY <2>1 DEF Conclude, ConnectionTypes, connVars, exitVars
  <2> QED BY <2>3, <2>5, <2>6
<1>9. ASSUME NEW t \in Tasks, CancelWaiting(t) PROVE TypeOK'
  <2>1. TaskTypes' /\ LockTypes'
    BY <1>9, FinishStep DEF CancelWaiting, Results
  <2>2. RequestTypes' /\ ConnectionTypes' /\ calls' \in Nat /\ closes' \in Nat
    BY <1>9 DEF CancelWaiting, EndRequest, RequestTypes, ConnectionTypes, connVars, exitVars
  <2> QED BY <2>1, <2>2
<1>10. ASSUME NEW t \in Tasks, CancelQueued(t) PROVE TypeOK'
  <2>1. LockTypes'
    BY <1>10, LockStep DEF CancelQueued
  <2>2. TaskTypes'
    BY <1>10, ConstantTypes DEF CancelQueued, TaskTypes, Results
  <2>3. RequestTypes' /\ ConnectionTypes' /\ calls' \in Nat /\ closes' \in Nat
    BY <1>10 DEF CancelQueued, RequestTypes, ConnectionTypes, reqVars, connVars, exitVars
  <2> QED BY <2>1, <2>2, <2>3
<1> QED BY <1>1, <1>2, <1>3, <1>4, <1>5, <1>6, <1>7, <1>8, <1>9, <1>10, NextCases
        DEF TaskStep, Timer, Cancel

\* Every variable of the connector always has its type.
THEOREM TypeCorrect == Spec => []TypeOK
<1>1. Init => TypeOK
  BY TypeInit
<1>2. TypeOK /\ [Next]_vars => TypeOK'
  BY TypeStep
<1> QED BY <1>1, <1>2, PTL DEF Spec

-----------------------------------------------------------------------------
(* The inductive invariant                                                 *)

\* What a step does to the call of a task, and to where the task is.
CallChange(t) ==
  \/ pc'[t] = pc[t] /\ call'[t] = call[t]
  \/ pc[t] = "idle" /\ pc'[t] = "queued" /\ \E m \in Methods, p \in Paths :
       call'[t] = [NoCall EXCEPT !.method = m, !.path = p]
  \/ pc[t] = "queued" /\ pc'[t] = "connecting" /\ call'[t] = call[t]
  \/ /\ pc[t] \in {"queued", "connecting"} /\ pc'[t] = "waiting"
     /\ lockOwner = t \/ pc[t] = "connecting"
     /\ call'[t] = [call[t] EXCEPT !.seq = count] /\ fut'[t] = Future("open")
  \/ /\ pc[t] = "waiting" /\ pc'[t] = "queued"
     /\ call[t].method = GET /\ call[t].attempt = 0
     /\ call'[t] = [call[t] EXCEPT !.attempt = 1]
  \/ pc[t] # "idle" /\ pc'[t] = "idle" /\ call'[t] = NoCall

\* A step changes the call of at most one task, in one of these ways.
LEMMA CallStep ==
  ASSUME TypeOK, [Next]_vars
  PROVE  \E t \in Tasks \cup {NoTask} :
           /\ t \in Tasks => CallChange(t)
           /\ \A u \in Tasks \ {t} : pc'[u] = pc[u] /\ call'[u] = call[u]
<1> USE DEF TypeOK, TaskTypes
<1>1. CASE ConnectionStep
  BY <1>1, ConnectionFrame, TaskAssumption DEF taskVars
<1>2. CASE SessionEnd
  BY <1>2, TaskAssumption DEF SessionEnd
<1>3. ASSUME NEW r \in unanswered, NEW kind \in Kinds, NEW style \in SeqStyles, MainListener(r, kind, style)
      PROVE  UNCHANGED <<pc, call>>
  BY <1>3 DEF MainListener
<1>4. ASSUME NEW t \in Tasks, NEW m \in {GET, PUT}, NEW p \in Paths, Start(t, m, p)
      PROVE  CallChange(t) /\ \A u \in Tasks \ {t} : pc'[u] = pc[u] /\ call'[u] = call[u]
  BY <1>4 DEF Start, CallChange
<1>5. ASSUME NEW t \in Tasks, BeginConnect(t)
      PROVE  CallChange(t) /\ \A u \in Tasks \ {t} : pc'[u] = pc[u] /\ call'[u] = call[u]
  BY <1>5 DEF BeginConnect, HasLock, CallChange
<1>6. ASSUME NEW t \in Tasks,
             \/ SkipConnectWait(t) \/ Rejected(t) \/ ConnectTimeout(t)
             \/ CancelConnecting(t) \/ CancelQueued(t) \/ CancelWaiting(t)
      PROVE  CallChange(t) /\ \A u \in Tasks \ {t} : pc'[u] = pc[u] /\ call'[u] = call[u]
  BY <1>6 DEF SkipConnectWait, Rejected, ConnectTimeout, CancelConnecting, CancelQueued,
     CancelWaiting, HasLock, Finish, CallChange
<1>7. ASSUME NEW t \in Tasks, Transmit(t)
      PROVE  CallChange(t) /\ \A u \in Tasks \ {t} : pc'[u] = pc[u] /\ call'[u] = call[u]
  BY <1>7 DEF Transmit, HasLock, CallChange
<1>8. ASSUME NEW t \in Tasks, Resume(t) \/ RequestTimeout(t)
      PROVE  CallChange(t) /\ \A u \in Tasks \ {t} : pc'[u] = pc[u] /\ call'[u] = call[u]
  <2>1. PICK o : Conclude(t, o) /\ pc[t] = "waiting"
    BY <1>8 DEF Resume, RequestTimeout
  <2>2. CASE Retries(t, o)
    <3>1. Retry(t) /\ call[t].method = GET /\ call[t].attempt = 0
      BY <2>1, <2>2 DEF Conclude, Retries
    <3> QED BY <2>1, <3>1 DEF Retry, CallChange
  <2>3. CASE ~Retries(t, o)
    <3>1. Finish(t, Verdict(call[t].method, o))
      BY <2>1, <2>3 DEF Conclude
    <3> QED BY <2>1, <3>1 DEF Finish, CallChange
  <2> QED BY <2>2, <2>3
<1> QED BY <1>1, <1>2, <1>3, <1>4, <1>5, <1>6, <1>7, <1>8, NextCases, TaskAssumption
        DEF TaskStep, Timer, Cancel

\* Calls are used as CallUse says.
LEMMA CallUseStep ==
  ASSUME TypeOK, CallUse, [Next]_vars
  PROVE  CallUse'
<1>1. PICK t \in Tasks \cup {NoTask} :
           /\ t \in Tasks => CallChange(t)
           /\ \A u \in Tasks \ {t} : pc'[u] = pc[u] /\ call'[u] = call[u]
  BY CallStep
<1>2. CASE t \notin Tasks
  BY <1>1, <1>2 DEF CallUse
<1>3. CASE t \in Tasks
  <2> USE DEF TypeOK, TaskTypes, CallUse
  <2>1. CallChange(t) /\ call[t] \in Calls
    BY <1>1, <1>3
  <2>2. CASE call'[t] = NoCall /\ pc'[t] = "idle"
    BY <1>1, <2>2 DEF NoCall
  <2>3. CASE pc'[t] = "queued" /\ \E m \in Methods, p \in Paths :
               call'[t] = [NoCall EXCEPT !.method = m, !.path = p]
    <3>1. call'[t].attempt = 0 /\ call'[t].seq = NoSeq
      BY <2>3 DEF NoCall
    <3> QED BY <1>1, <1>3, <2>3, <3>1
  <2>4. CASE pc[t] # "idle" /\ pc'[t] = "waiting" /\ call'[t] = [call[t] EXCEPT !.seq = count]
    BY <1>1, <1>3, <2>1, <2>4 DEF Calls
  <2>5. CASE pc'[t] = "queued" /\ call[t].method = GET /\ call'[t] = [call[t] EXCEPT !.attempt = 1]
    BY <1>1, <1>3, <2>1, <2>5 DEF Calls
  <2>6. CASE pc[t] # "idle" /\ pc'[t] # "idle" /\ call'[t] = call[t]
             /\ (pc'[t] \in {"queued", "connecting"} => pc[t] \in {"queued", "connecting"})
    BY <1>1, <1>3, <2>6
  <2>7. CASE pc'[t] = pc[t] /\ call'[t] = call[t]
    BY <1>1, <1>3, <2>7
  <2> QED BY <2>1, <2>2, <2>3, <2>4, <2>5, <2>6, <2>7 DEF CallChange
<1> QED BY <1>2, <1>3

\* The request of a waiting task is the only pending one, and no other task
\* connects or waits.
LEMMA LoneRequest ==
  ASSUME TypeOK, Serialised, NEW t \in Tasks, pc[t] \in {"connecting", "waiting"}
  PROVE  /\ \A e \in pending : e.task = t /\ e.seq = call[t].seq
         /\ \A u \in Tasks : pc[u] \in {"connecting", "waiting"} => u = t
BY DEF TypeOK, RequestTypes, Entries, Serialised, LockHolder

\* A step after which the same tasks wait, with the same futures and requests.
SameRequests ==
  /\ UNCHANGED <<fut, reqVars, unanswered>>
  /\ \A u \in Tasks : /\ pc'[u] = "waiting" <=> pc[u] = "waiting"
                      /\ pc[u] = "waiting" => call'[u] = call[u]
                      /\ call'[u].seq \in {call[u].seq, NoSeq}

\* Such a step keeps the invariant if it respects the lock.
LEMMA SameRequestsStep ==
  ASSUME Inv, TypeOK', CallUse', SameRequests, LockHolder'
  PROVE  Inv'
<1> USE DEF Inv, TypeOK, RequestTypes
<1>1. Serialised'
  BY DEF SameRequests, Serialised, Entries, reqVars
<1>2. SeqOrder'
  BY DEF SameRequests, SeqOrder, reqVars
<1>3. FutureUse'
  BY DEF SameRequests, FutureUse, reqVars
<1>4. NoStrandedRequest' /\ PutLockUncontended' /\ AnswerFitsPath'
  BY DEF SameRequests, NoStrandedRequest, PutLockUncontended, AnswerFitsPath, reqVars
<1> QED BY <1>1, <1>2, <1>3, <1>4

\* The end of a request leaves no pending request.
LEMMA EndStep ==
  ASSUME Inv, TypeOK', CallUse', NEW t \in Tasks, pc[t] = "waiting", EndRequest(t),
         pc' = [pc EXCEPT ![t] = pc'[t]], pc'[t] \notin {"connecting", "waiting"},
         call' = [call EXCEPT ![t] = call'[t]], call'[t].seq \in {call[t].seq, NoSeq},
         fut' = [fut EXCEPT ![t] = NoFut],
         lastTimeoutSeq' \in {lastTimeoutSeq, call[t].seq}, UNCHANGED <<count, unanswered>>
  PROVE  Inv'
<1> USE DEF Inv, TypeOK, TaskTypes, RequestTypes
<1>1. pending' = {}
  BY LoneRequest DEF EndRequest
<1>2. \A u \in Tasks : pc'[u] \notin {"connecting", "waiting"}
  BY LoneRequest
<1>3. Serialised'
  BY <1>1, <1>2 DEF Serialised, LockHolder
<1>4. SeqOrder'
  BY <1>1 DEF SeqOrder, Calls
<1>5. FutureUse'
  BY <1>2, LoneRequest DEF FutureUse
<1>6. NoStrandedRequest' /\ AnswerFitsPath'
  BY <1>2 DEF NoStrandedRequest, AnswerFitsPath
<1>7. PutLockUncontended'
  <2>1. \A p \in putLocks : call[t].method = "put" /\ p = call[t].path
    BY LoneRequest DEF PutLockUncontended
  <2> QED BY <2>1 DEF PutLockUncontended, EndRequest
<1> QED BY <1>3, <1>4, <1>5, <1>6, <1>7

\* A new request meets no other.
LEMMA TransmitStep ==
  ASSUME Inv, TypeOK', CallUse', NEW t \in Tasks, Transmit(t)
  PROVE  Inv'
<1> USE DEF Inv, TypeOK, TaskTypes, RequestTypes
<1> DEFINE new == [seq |-> count, task |-> t, method |-> call[t].method, path |-> call[t].path]
<1>1. lockOwner = t /\ pc[t] # "waiting"
  BY DEF Transmit, HasLock, Serialised, LockHolder
<1>2. pending = {} /\ \A u \in Tasks : pc[u] \in {"connecting", "waiting"} => u = t
  BY <1>1 DEF Serialised, LockHolder, Entries
<1>3. pending' = {new}
  BY <1>2 DEF Transmit
<1>4. /\ pc'[t] = "waiting" /\ fut'[t] = Future("open")
      /\ call'[t].seq = count /\ call'[t].method = call[t].method /\ call'[t].path = call[t].path
      /\ \A u \in Tasks \ {t} : pc'[u] = pc[u] /\ call'[u] = call[u] /\ fut'[u] = fut[u]
  BY DEF Transmit, Calls
<1>5. Serialised'
  BY <1>1, <1>2, <1>3, <1>4 DEF Transmit, Serialised, LockHolder, lockVars
<1>6. SeqOrder'
  <2>1. count' = count + 1 /\ lastTimeoutSeq' = lastTimeoutSeq
    BY DEF Transmit, TakeSeqNo
  <2>2. \A u \in Tasks : call'[u].seq < count'
    BY <2>1, <1>4 DEF SeqOrder, Calls
  <2>3. unanswered' = unanswered \cup {[seq |-> count, path |-> call[t].path]}
    BY DEF Transmit
  <2> QED BY <2>1, <2>2, <2>3, <1>3 DEF SeqOrder, Requests
<1>7. FutureUse'
  BY <1>4 DEF FutureUse, Future
<1>8. NoStrandedRequest'
  BY <1>2, <1>3, <1>4 DEF NoStrandedRequest
<1>9. PutLockUncontended'
  BY <1>1, <1>2, <1>4 DEF PutLockUncontended, Transmit
<1>10. AnswerFitsPath'
  BY <1>2, <1>4 DEF AnswerFitsPath, Future
<1> QED BY <1>5, <1>6, <1>7, <1>8, <1>9, <1>10

\* A reply or the end of the session settles futures, and nothing else.
LEMMA ListenerStep ==
  ASSUME Inv, TypeOK', CallUse',
         NEW r \in unanswered, NEW kind \in Kinds, NEW style \in SeqStyles, MainListener(r, kind, style)
  PROVE  Inv'
<1> USE DEF Inv, TypeOK, TaskTypes, RequestTypes
<1>1. /\ UNCHANGED <<pc, call, lockOwner, pending, putLocks, count, lastTimeoutSeq>>
      /\ unanswered' \subseteq unanswered
  BY DEF MainListener, lockVars, reqVars
<1>2. Serialised' /\ SeqOrder' /\ PutLockUncontended'
  BY <1>1 DEF Serialised, LockHolder, SeqOrder, PutLockUncontended
<1>3. CASE UNCHANGED fut
  BY <1>1, <1>2, <1>3 DEF FutureUse, NoStrandedRequest, AnswerFitsPath
<1>4. ASSUME NEW e \in Resolves(r, kind, style),
             fut' = [fut EXCEPT ![e.task] = [st |-> Settlement(kind, e.method),
                                             by |-> r.seq, about |-> r.path]]
      PROVE  Inv'
  <2>1. e \in pending /\ e.task \in Tasks /\ pc[e.task] = "waiting"
        /\ e.path = call[e.task].path /\ e.method \in Methods
    BY DEF Resolves, MatchResponse, OpenPending, Entries, Serialised
  <2>2. Settlement(kind, e.method) \notin {"none", "open"}
    BY <2>1, KindAssumption DEF Settlement, AllKinds
  <2>3. fut'[e.task].st = Settlement(kind, e.method) /\ fut'[e.task].about = r.path
        /\ \A u \in Tasks \ {e.task} : fut'[u] = fut[u]
    BY <1>4, <2>1
  <2>4. FutureUse' /\ NoStrandedRequest'
    BY <1>1, <2>1, <2>2, <2>3 DEF FutureUse, NoStrandedRequest
  <2>5. Settlement(kind, e.method) = "data" => kind = "data"
    BY <2>1 DEF Settlement
  <2>6. e.seq = r.seq => e.path = r.path
    BY <2>1 DEF SeqOrder
  <2>7. e.seq = SeqHeader(r, style) => e.seq = r.seq
    \* A gateway that always answers 0 can only mean request 0 when that one is
    \* pending, because no later request has been sent.
    BY <2>1 DEF SeqHeader, SeqOrder, Requests, Entries
  <2>8. kind = "data" => <<r.path, e.path>> \in IdIn
    BY <2>1, <2>6, <2>7, PathAssumption DEF Resolves, MatchResponse, PayloadMatchesPath, Requests
  <2>9. AnswerFitsPath'
    BY <1>1, <2>1, <2>3, <2>5, <2>8 DEF AnswerFitsPath
  <2> QED BY <1>2, <2>4, <2>9
<1> QED BY <1>3, <1>4 DEF MainListener

\* The end of the session fails the pending request and forgets it.
LEMMA SessionEndStep ==
  ASSUME Inv, TypeOK', CallUse', SessionEnd
  PROVE  Inv'
<1> USE DEF Inv, TypeOK, TaskTypes, RequestTypes
<1>1. UNCHANGED <<pc, call, lockOwner, putLocks, count, unanswered>> /\ pending' = {}
  BY DEF SessionEnd, lockVars
<1>2. lastTimeoutSeq' < count
  BY DEF SessionEnd, SeqOrder, Entries
<1>3. Serialised' /\ SeqOrder' /\ PutLockUncontended'
  BY <1>1, <1>2 DEF Serialised, LockHolder, SeqOrder, PutLockUncontended
<1>4. \A u \in Tasks : \/ fut'[u] = fut[u]
                       \/ pc[u] = "waiting" /\ fut'[u] = Future("lost")
  <2>1. ASSUME NEW u \in Tasks PROVE (\E e \in OpenPending : e.task = u) => pc[u] = "waiting"
    BY DEF OpenPending, Serialised
  <2>2. fut' = [t \in Tasks |-> IF \E e \in OpenPending : e.task = t
                                THEN Future("lost") ELSE fut[t]]
    BY DEF SessionEnd, FailFutures
  <2> QED BY <2>1, <2>2
<1>5. FutureUse' /\ AnswerFitsPath'
  BY <1>1, <1>4 DEF FutureUse, AnswerFitsPath, Future
<1>6. NoStrandedRequest'
  <2>1. ASSUME NEW u \in Tasks, pc[u] = "waiting", fut[u].st = "open"
        PROVE  fut'[u] = Future("lost")
    BY <2>1 DEF NoStrandedRequest, SessionEnd, FailFutures, OpenPending
  <2>2. \A u \in Tasks : pc[u] = "waiting" => fut'[u].st # "open"
    BY <1>4, <2>1 DEF Future
  <2> QED BY <1>1, <2>2 DEF NoStrandedRequest
<1> QED BY <1>3, <1>5, <1>6

\* Handing over the lock keeps it with the only task that may use it.
LEMMA HandOver ==
  ASSUME TypeOK, LockHolder, NEW t \in Tasks, lockOwner = t,
         pc' = [pc EXCEPT ![t] = "idle"]
  PROVE  LockHolder'
BY DEF TypeOK, TaskTypes, LockHolder

\* Every step keeps the invariant.
LEMMA InvStep == Inv /\ [Next]_vars => Inv'
<1> SUFFICES ASSUME Inv, [Next]_vars PROVE Inv'
  OBVIOUS
<1>1. TypeOK /\ TypeOK' /\ Serialised /\ LockHolder /\ CallUse'
  BY TypeStep, CallUseStep DEF Inv, Serialised
<1>2. CASE ConnectionStep
  BY <1>1, <1>2, ConnectionFrame, SameRequestsStep
     DEF SameRequests, LockHolder, taskVars, lockVars
<1>3. CASE SessionEnd
  BY <1>1, <1>3, SessionEndStep
<1>4. ASSUME NEW r \in unanswered, NEW kind \in Kinds, NEW style \in SeqStyles, MainListener(r, kind, style)
     PROVE  Inv'
  BY <1>1, <1>4, ListenerStep
<1> USE DEF TypeOK, TaskTypes
<1>5. ASSUME NEW t \in Tasks, NEW m \in {GET, PUT}, NEW p \in Paths, Start(t, m, p)
      PROVE  Inv'
  <2>1. /\ pc' = [pc EXCEPT ![t] = "queued"] /\ pc[t] = "idle" /\ call'[t].seq = NoSeq
        /\ \A u \in Tasks \ {t} : call'[u] = call[u] /\ pc'[u] = pc[u]
    BY <1>1, <1>5 DEF Start, NoCall
  <2>2. SameRequests
    <3>1. UNCHANGED <<fut, reqVars, unanswered>>
      BY <1>5 DEF Start
    <3> QED BY <1>1, <2>1, <3>1 DEF SameRequests
  <2>3. LockHolder'
    BY <1>1, <1>5, <2>1, TaskAssumption DEF LockHolder, Start, Acquire
  <2> QED BY <1>1, <2>2, <2>3, SameRequestsStep
<1>6. ASSUME NEW t \in Tasks, BeginConnect(t) PROVE Inv'
  <2>1. SameRequests /\ LockHolder'
    BY <1>1, <1>6 DEF SameRequests, BeginConnect, HasLock, LockHolder, lockVars
  <2> QED BY <1>1, <2>1, SameRequestsStep
<1>7. ASSUME NEW t \in Tasks,
             SkipConnectWait(t) \/ Rejected(t) \/ ConnectTimeout(t) \/ CancelConnecting(t)
      PROVE  Inv'
  <2>1. pc[t] \in {"queued", "connecting"} /\ lockOwner = t
        /\ pc' = [pc EXCEPT ![t] = "idle"] /\ call' = [call EXCEPT ![t] = NoCall]
        /\ fut' = [fut EXCEPT ![t] = NoFut] /\ UNCHANGED <<reqVars, unanswered>>
    BY <1>1, <1>7 DEF SkipConnectWait, Rejected, ConnectTimeout, CancelConnecting, Finish, HasLock,
       LockHolder
  <2>2. fut' = fut
    BY <2>1, <1>1 DEF Inv, FutureUse
  <2>3. SameRequests
    BY <1>1, <2>1, <2>2 DEF SameRequests, NoCall
  <2> QED BY <1>1, <2>1, <2>3, HandOver, SameRequestsStep
<1>8. ASSUME NEW t \in Tasks, Transmit(t) PROVE Inv'
  BY <1>1, <1>8, TransmitStep
<1>9. ASSUME NEW t \in Tasks, Resume(t) \/ RequestTimeout(t) PROVE Inv'
  <2>1. pc[t] = "waiting" /\ EndRequest(t) /\ UNCHANGED <<count, unanswered>>
        /\ lastTimeoutSeq' \in {lastTimeoutSeq, call[t].seq}
    BY <1>9 DEF Resume, RequestTimeout, Conclude
  <2>2. PICK o : Conclude(t, o)
    BY <1>9 DEF Resume, RequestTimeout
  <2>3. \/ Retry(t) \/ Finish(t, Verdict(call[t].method, o))
    BY <2>2 DEF Conclude
  <2>4. /\ pc' = [pc EXCEPT ![t] = pc'[t]] /\ pc'[t] \in {"idle", "queued"}
        /\ call' = [call EXCEPT ![t] = call'[t]] /\ call'[t].seq \in {call[t].seq, NoSeq}
        /\ fut' = [fut EXCEPT ![t] = NoFut]
    BY <1>1, <2>3 DEF Retry, Finish, NoCall, Calls
  <2> QED BY <1>1, <2>1, <2>4, EndStep
<1>10. ASSUME NEW t \in Tasks, CancelWaiting(t) PROVE Inv'
  <2>1. pc[t] = "waiting" /\ EndRequest(t) /\ UNCHANGED <<count, unanswered, lastTimeoutSeq>>
    BY <1>10 DEF CancelWaiting
  <2>2. /\ pc' = [pc EXCEPT ![t] = pc'[t]] /\ pc'[t] = "idle"
        /\ call' = [call EXCEPT ![t] = call'[t]] /\ call'[t].seq = NoSeq
        /\ fut' = [fut EXCEPT ![t] = NoFut]
    BY <1>1, <1>10 DEF CancelWaiting, Finish, NoCall
  <2> QED BY <1>1, <2>1, <2>2, EndStep
<1>11. ASSUME NEW t \in Tasks, CancelQueued(t) PROVE Inv'
  <2>1. pc[t] = "queued" /\ pc' = [pc EXCEPT ![t] = "idle"] /\ call' = [call EXCEPT ![t] = NoCall]
        /\ UNCHANGED <<fut, reqVars, unanswered>>
    BY <1>11 DEF CancelQueued
  <2>2. lockOwner = t \/ UNCHANGED lockOwner
    BY <1>11 DEF CancelQueued
  <2>3. SameRequests
    BY <1>1, <2>1 DEF SameRequests, NoCall
  <2>4. LockHolder'
    BY <1>1, <2>1, <2>2 DEF LockHolder
  <2> QED BY <1>1, <2>3, <2>4, SameRequestsStep
<1> QED BY <1>2, <1>3, <1>4, <1>5, <1>6, <1>7, <1>8, <1>9, <1>10, <1>11, NextCases
        DEF TaskStep, Timer, Cancel

\* The invariant holds initially.
LEMMA InvInit == Init => Inv
<1> SUFFICES ASSUME Init PROVE Inv
  OBVIOUS
<1>1. TypeOK
  BY TypeInit
<1>2. Serialised /\ NoStrandedRequest /\ PutLockUncontended /\ AnswerFitsPath
  BY DEF Init, Serialised, LockHolder, NoStrandedRequest, PutLockUncontended, AnswerFitsPath
<1>3. FutureUse
  BY DEF Init, FutureUse
<1>4. SeqOrder
  BY DEF Init, SeqOrder, NoCall
<1>5. CallUse
  BY DEF Init, CallUse, NoCall
<1> QED BY <1>1, <1>2, <1>3, <1>4, <1>5 DEF Inv

\* The invariant holds of every run of the connector.
THEOREM Invariance == Spec => []Inv
<1>1. Init => Inv
  BY InvInit
<1>2. Inv /\ [Next]_vars => Inv'
  BY InvStep
<1> QED BY <1>1, <1>2, PTL DEF Spec

\* The connector serialises its requests.
THEOREM RequestsAreSerialised == Spec => []Serialised
BY Invariance, PTL DEF Inv

\* The guard against late replies never finds a request it applies to: the
\* pending request is always newer than the last timeout.
THEOREM LateReplyGuardIsIdle == Spec => []OpenIsNewerThanTimeout
<1>1. Inv => OpenIsNewerThanTimeout
  BY DEF Inv, SeqOrder, OpenIsNewerThanTimeout, OpenPending
<1> QED BY <1>1, Invariance, PTL

\* No task awaits a future that nothing can set any more.
THEOREM NobodyIsStranded == Spec => []NoStrandedRequest
BY Invariance, PTL DEF Inv

\* A PUT never waits for the lock of its path.
THEOREM PutLocksAreUncontended == Spec => []PutLockUncontended
BY Invariance, PTL DEF Inv

\* A body with an id resolves only a request whose path contains it.
THEOREM AnswersFit == Spec => []AnswerFitsPath
BY Invariance, PTL DEF Inv

-----------------------------------------------------------------------------
(* What happens to the future of a waiting task                            *)

\* A waiting task keeps its future, or has just sent its request, or its open
\* future is failed by the end of the session or set by a reply that resolves it.
LEMMA FutureStep ==
  ASSUME Inv, [Next]_vars, NEW t \in Tasks, pc'[t] = "waiting"
  PROVE  \/ pc[t] = "waiting" /\ fut'[t] = fut[t] /\ call'[t] = call[t]
         \/ pc[t] # "waiting" /\ fut'[t] = Future("open")
         \/ /\ pc[t] = "waiting" /\ fut[t].st = "open" /\ call'[t] = call[t]
            /\ \/ fut'[t] = Future("lost")
               \/ \E r \in unanswered, kind \in Kinds, style \in SeqStyles : \E e \in Resolves(r, kind, style) :
                     e.task = t /\ fut'[t].by = r.seq
<1> USE DEF Inv, TypeOK, TaskTypes
<1>1. CASE ConnectionStep
  BY <1>1, ConnectionFrame DEF taskVars
<1>2. CASE SessionEnd
  <2>1. UNCHANGED <<pc, call>>
    BY <1>2 DEF SessionEnd
  <2>2. CASE \E e \in OpenPending : e.task = t
    BY <1>2, <2>1, <2>2 DEF SessionEnd, FailFutures, OpenPending
  <2>3. CASE ~\E e \in OpenPending : e.task = t
    BY <1>2, <2>1, <2>3 DEF SessionEnd, FailFutures
  <2> QED BY <2>2, <2>3
<1>3. ASSUME NEW r \in unanswered, NEW kind \in Kinds, NEW style \in SeqStyles, MainListener(r, kind, style)
      PROVE  /\ UNCHANGED <<pc, call>>
             /\ \/ fut'[t] = fut[t]
                \/ fut[t].st = "open" /\ \E e \in Resolves(r, kind, style) : e.task = t /\ fut'[t].by = r.seq
  <2>1. UNCHANGED <<pc, call>>
    BY <1>3 DEF MainListener
  <2>2. \A e \in Resolves(r, kind, style) : fut[e.task].st = "open"
    BY DEF Resolves, MatchResponse, OpenPending
  <2>3. CASE UNCHANGED fut
    BY <2>1, <2>3
  <2>4. ASSUME NEW e \in Resolves(r, kind, style),
               fut' = [fut EXCEPT ![e.task] = [st |-> Settlement(kind, e.method),
                                               by |-> r.seq, about |-> r.path]]
        PROVE  fut'[t] = fut[t] \/ (e.task = t /\ fut'[t].by = r.seq)
    BY <2>4
  <2> QED BY <1>3, <2>1, <2>2, <2>3, <2>4 DEF MainListener
<1>4. ASSUME NEW u \in Tasks, NEW m \in {GET, PUT}, NEW p \in Paths, Start(u, m, p)
      PROVE  pc[t] = "waiting" /\ fut'[t] = fut[t] /\ call'[t] = call[t]
  BY <1>4 DEF Start
<1>5. ASSUME NEW u \in Tasks,
             \/ BeginConnect(u) \/ SkipConnectWait(u) \/ Rejected(u) \/ ConnectTimeout(u)
             \/ CancelConnecting(u) \/ CancelWaiting(u) \/ CancelQueued(u)
      PROVE  pc[t] = "waiting" /\ fut'[t] = fut[t] /\ call'[t] = call[t]
  BY <1>5 DEF BeginConnect, SkipConnectWait, Rejected, ConnectTimeout, CancelConnecting,
     CancelWaiting, CancelQueued, Finish
<1>6. ASSUME NEW u \in Tasks, Transmit(u)
      PROVE  \/ pc[t] = "waiting" /\ fut'[t] = fut[t] /\ call'[t] = call[t]
             \/ pc[t] # "waiting" /\ fut'[t] = Future("open")
  BY <1>6 DEF Transmit, HasLock
<1>7. ASSUME NEW u \in Tasks, Resume(u) \/ RequestTimeout(u)
      PROVE  pc[t] = "waiting" /\ fut'[t] = fut[t] /\ call'[t] = call[t]
  <2>1. PICK o : Conclude(u, o)
    BY <1>7 DEF Resume, RequestTimeout
  <2>2. Retry(u) \/ Finish(u, Verdict(call[u].method, o))
    BY <2>1 DEF Conclude
  <2> QED BY <2>2 DEF Retry, Finish
<1> QED BY <1>1, <1>2, <1>3, <1>4, <1>5, <1>6, <1>7, NextCases DEF TaskStep, Timer, Cancel

\* No future is set twice: the listener never raises InvalidStateError.
THEOREM FuturesAreSetOnce == Spec => FuturesSettleOnce
<1>1. Inv /\ [Next]_vars =>
        [\A t \in Tasks : fut[t].st \in Settled => fut'[t] \in {fut[t], NoFut}]_vars
  <2> SUFFICES ASSUME Inv, [Next]_vars, NEW t \in Tasks, fut[t].st \in Settled
               PROVE  fut'[t] \in {fut[t], NoFut}
    OBVIOUS
  <2>1. pc[t] = "waiting" /\ fut[t].st # "open"
    BY DEF Inv, FutureUse, NoFut, Future, Settled
  <2>2. CASE pc'[t] = "waiting"
    BY <2>1, <2>2, FutureStep
  <2>3. CASE pc'[t] # "waiting"
    BY <2>3, InvStep DEF Inv, FutureUse
  <2> QED BY <2>2, <2>3
<1> QED BY <1>1, Invariance, PTL DEF Spec, FuturesSettleOnce

\* A task stops waiting for its reply only by the end of its request, which hands
\* the lock on.
LEMMA RequestEnds ==
  ASSUME TypeOK, [Next]_vars, NEW t \in Tasks, pc[t] = "waiting", pc'[t] # "waiting"
  PROVE  Release \/ Reacquire(t)
<1> USE DEF TypeOK, TaskTypes
<1>1. ASSUME ConnectionStep PROVE pc' = pc
  BY <1>1, ConnectionFrame DEF taskVars
<1>2. ASSUME SessionEnd PROVE pc' = pc
  BY <1>2 DEF SessionEnd
<1>3. ASSUME NEW r \in unanswered, NEW kind \in Kinds, NEW style \in SeqStyles,
             MainListener(r, kind, style)
      PROVE  pc' = pc
  BY <1>3 DEF MainListener
<1>4. ASSUME NEW u \in Tasks, NEW m \in {GET, PUT}, NEW p \in Paths, Start(u, m, p)
      PROVE  Release \/ Reacquire(t)
  BY <1>4 DEF Start
<1>5. ASSUME NEW u \in Tasks, BeginConnect(u) \/ SkipConnectWait(u) \/ Rejected(u) \/ Transmit(u)
                              \/ ConnectTimeout(u) \/ CancelConnecting(u) \/ CancelQueued(u)
      PROVE  Release \/ Reacquire(t)
  <2>1. pc[u] # "waiting" \/ pc'[u] = "waiting"
    BY <1>5 DEF BeginConnect, SkipConnectWait, Rejected, Transmit, ConnectTimeout,
                CancelConnecting, CancelQueued, HasLock
  <2>2. \A v \in Tasks \ {u} : pc'[v] = pc[v]
    BY <1>5 DEF BeginConnect, SkipConnectWait, Rejected, Transmit, ConnectTimeout,
                CancelConnecting, CancelQueued, Finish
  <2> QED BY <2>1, <2>2
<1>6. ASSUME NEW u \in Tasks, Resume(u) \/ RequestTimeout(u) \/ CancelWaiting(u)
      PROVE  Release \/ Reacquire(t)
  <2>1. pc' = [pc EXCEPT ![u] = "idle"] \/ pc' = [pc EXCEPT ![u] = "queued"]
    BY <1>6 DEF Resume, RequestTimeout, CancelWaiting, Conclude, Finish, Retry
  <2>2. Release \/ Reacquire(u)
    BY <1>6 DEF Resume, RequestTimeout, CancelWaiting, Conclude, Finish, Retry
  <2> QED BY <2>1, <2>2
<1> QED BY <1>1, <1>2, <1>3, <1>4, <1>5, <1>6, NextCases DEF TaskStep, Timer, Cancel

\* The first task of the queue is next, and those behind it keep their order, also
\* ahead of a get() that is to be repeated.
THEOREM TheQueueMovesUp == Spec => QueueMovesUp
<1>1. TypeOK /\ [Next]_vars =>
        [\A t \in Tasks : pc[t] = "waiting" /\ pc'[t] # "waiting" /\ lockWaiters # << >> =>
           /\ lockOwner' = Head(lockWaiters)
           /\ \A i \in 2..Len(lockWaiters) : lockWaiters'[i-1] = lockWaiters[i]]_vars
  <2> SUFFICES ASSUME TypeOK, [Next]_vars, NEW t \in Tasks, pc[t] = "waiting",
                      pc'[t] # "waiting", lockWaiters # << >>
               PROVE  /\ lockOwner' = Head(lockWaiters)
                      /\ \A i \in 2..Len(lockWaiters) : lockWaiters'[i-1] = lockWaiters[i]
    OBVIOUS
  <2>1. lockWaiters \in Seq(Tasks)
    BY DEF TypeOK, LockTypes
  <2>2. /\ lockOwner' = Head(lockWaiters)
        /\ lockWaiters' = Tail(lockWaiters) \/ lockWaiters' = Append(Tail(lockWaiters), t)
    BY RequestEnds DEF Release, Reacquire
  <2> QED BY <2>1, <2>2
<1> QED BY <1>1, TypeCorrect, PTL DEF Spec, QueueMovesUp

\* With a gateway that echoes the Seq-No, a request is resolved by its own
\* reply, or by the one to request 0.
THEOREM EchoedRepliesMatch ==
  ASSUME SeqStyles = {"echo"}
  PROVE  Spec => []EchoedReply
<1>1. Init => EchoedReply
  BY DEF Init, EchoedReply
<1>2. Inv /\ EchoedReply /\ [Next]_vars => EchoedReply'
  <2> SUFFICES ASSUME Inv, EchoedReply, [Next]_vars,
                      NEW t \in Tasks, pc'[t] = "waiting", fut'[t].by # NoSeq
               PROVE  fut'[t].by \in {call'[t].seq, 0}
    BY DEF EchoedReply
  <2>1. ASSUME NEW r \in unanswered, NEW kind \in Kinds, NEW style \in SeqStyles,
               NEW e \in Resolves(r, kind, style), e.task = t
        PROVE  r.seq \in {call[t].seq, 0}
    <3>1. e \in pending /\ e.seq = call[t].seq /\ r.seq \in Nat
      BY <2>1 DEF Resolves, MatchResponse, OpenPending, Inv, Serialised, TypeOK, RequestTypes, Requests
    <3>2. SeqHeader(r, style) = r.seq
      BY DEF SeqHeader
    <3>3. e \in MatchResponse(r.seq, kind, r.path) /\ r.seq # NoSeq
      BY <2>1, <3>1, <3>2 DEF Resolves
    <3>4. CASE \E f \in pending : f.seq = r.seq
      BY <3>1, <3>3, <3>4 DEF MatchResponse
    <3>5. CASE ~\E f \in pending : f.seq = r.seq
      BY <3>3, <3>5 DEF MatchResponse
    <3> QED BY <3>4, <3>5
  <2> QED BY <2>1, FutureStep DEF EchoedReply, Future
<1> QED BY <1>1, <1>2, Invariance, PTL DEF Spec

\* No put() is sent twice.
THEOREM PutsAreSentOnce == Spec => PutSentOnce
<1>1. Inv /\ [Next]_vars =>
        [\A t \in Tasks : call[t].method = PUT /\ call[t].seq # NoSeq
                          => call'[t].seq \in {call[t].seq, NoSeq}]_vars
  <2> SUFFICES ASSUME Inv, [Next]_vars, NEW t \in Tasks, call[t].method = PUT,
                      call[t].seq # NoSeq
               PROVE  call'[t].seq \in {call[t].seq, NoSeq}
    OBVIOUS
  <2>1. CallChange(t) \/ call'[t] = call[t]
    <3>1. PICK u \in Tasks \cup {NoTask} :
            /\ u \in Tasks => CallChange(u)
            /\ \A v \in Tasks \ {u} : pc'[v] = pc[v] /\ call'[v] = call[v]
      BY CallStep DEF Inv
    <3>2. CASE u = t
      BY <3>1, <3>2
    <3>3. CASE u # t
      BY <3>1, <3>3
    <3> QED BY <3>2, <3>3
  <2>2. pc[t] \notin {"idle", "queued", "connecting"} /\ call[t] \in Calls
    BY DEF Inv, CallUse, NoCall, TypeOK, TaskTypes
  <2>3. CASE call'[t] = [call[t] EXCEPT !.attempt = 1]
    BY <2>2, <2>3 DEF Calls
  <2>4. CASE call'[t] = NoCall \/ call'[t] = call[t]
    BY <2>4 DEF NoCall
  <2> QED BY <2>1, <2>2, <2>3, <2>4 DEF CallChange
<1> QED BY <1>1, Invariance, PTL DEF Spec, PutSentOnce

-----------------------------------------------------------------------------
(* Refinement                                                              *)

\* The connector implements its promise: one request at a time, a put() sent
\* once and a get() asked at most twice.
THEOREM Refinement == Spec => KeepsPromise
<1>1. Init => Promise!Init
  BY DEF Init, Promise!Init, Stage, Method, Tries, NoCall
<1>2. Inv /\ [Next]_vars => [Promise!Next]_(Promise!vars)
  <2> SUFFICES ASSUME Inv, [Next]_vars
               PROVE  Promise!Next \/ UNCHANGED <<Stage, Method, Tries>>
    BY DEF Promise!vars
  <2>1. PICK t \in Tasks \cup {NoTask} :
          /\ t \in Tasks => CallChange(t)
          /\ \A u \in Tasks \ {t} : pc'[u] = pc[u] /\ call'[u] = call[u]
    BY CallStep DEF Inv
  <2>2. CASE \A u \in Tasks : pc'[u] = pc[u] /\ call'[u] = call[u]
    BY <2>2 DEF Stage, Method, Tries
  <2>3. CASE t \in Tasks
    <3>1. CallChange(t) /\ call[t] \in Calls /\ (pc[t] = "idle" => call[t] = NoCall)
      BY <2>1, <2>3 DEF Inv, TypeOK, TaskTypes, CallUse
    <3>2. /\ Stage' = [Stage EXCEPT ![t] = Stage'[t]]
          /\ Method' = [Method EXCEPT ![t] = Method'[t]]
          /\ Tries' = [Tries EXCEPT ![t] = Tries'[t]]
      BY <2>1, <2>3 DEF Stage, Method, Tries
    <3>3. CASE pc'[t] = pc[t] /\ call'[t] = call[t]
      BY <2>1, <2>2, <3>3
    <3>4. ASSUME NEW m \in Methods, NEW p \in Paths, pc[t] = "idle", pc'[t] = "queued",
                 call'[t] = [NoCall EXCEPT !.method = m, !.path = p]
          PROVE  Promise!Next
      <4>1. call'[t].method = m /\ call'[t].attempt = 0 /\ call[t].attempt = 0
        BY <3>1, <3>4 DEF NoCall
      <4>2. Stage[t] = "idle" /\ Stage'[t] = "open" /\ Method'[t] = m /\ Tries'[t] = Tries[t]
        BY <2>3, <3>4, <4>1 DEF Stage, Method, Tries
      <4>3. Tries' = Tries
        BY <2>3, <3>2, <4>2 DEF Tries
      <4>4. Promise!Call(t, m)
        BY <3>2, <4>2, <4>3 DEF Promise!Call
      <4> QED BY <2>3, <4>4 DEF Promise!Next
    <3>5. CASE pc[t] = "queued" /\ pc'[t] = "connecting" /\ call'[t] = call[t]
      <4>1. Stage'[t] = Stage[t] /\ Method'[t] = Method[t] /\ Tries'[t] = Tries[t]
        BY <2>3, <3>5 DEF Stage, Method, Tries
      <4>2. Stage' = Stage
        BY <2>3, <3>2, <4>1 DEF Stage
      <4>3. Method' = Method
        BY <2>3, <3>2, <4>1 DEF Method
      <4>4. Tries' = Tries
        BY <2>3, <3>2, <4>1 DEF Tries
      <4> QED BY <4>2, <4>3, <4>4
    <3>6. CASE /\ pc[t] \in {"queued", "connecting"} /\ pc'[t] = "waiting"
               /\ lockOwner = t \/ pc[t] = "connecting"
               /\ call'[t] = [call[t] EXCEPT !.seq = count]
      <4>1. \A u \in Tasks : pc[u] # "waiting"
        BY <2>3, <3>6 DEF Inv, Serialised, LockHolder
      <4>2. call'[t].method = call[t].method /\ call'[t].attempt = call[t].attempt
        BY <3>1, <3>6 DEF Calls
      <4>3. /\ call[t].attempt \in {0, 1} /\ call[t].method \in {"get", "put"}
            /\ call[t].method = "put" => call[t].attempt = 0
        BY <2>3, <3>1 DEF Inv, CallUse, Calls
      <4>4. /\ Stage[t] = "open" /\ Stage'[t] = "sent" /\ \A u \in Tasks : Stage[u] # "sent"
            /\ Method[t] = call[t].method /\ Method'[t] = Method[t]
            /\ Tries[t] = call[t].attempt /\ Tries'[t] = Tries[t] + 1
        BY <2>3, <3>6, <4>1, <4>2 DEF Stage, Method, Tries
      <4>5. Tries[t] < Promise!Budget(Method[t])
        BY <4>3, <4>4 DEF Promise!Budget
      <4>6. Method' = Method
        BY <2>3, <3>2, <4>4 DEF Method
      <4>7. Promise!Send(t)
        BY <3>2, <4>4, <4>5, <4>6 DEF Promise!Send
      <4> QED BY <2>3, <4>7 DEF Promise!Next
    <3>7. CASE /\ pc[t] = "waiting" /\ pc'[t] = "queued"
               /\ call[t].method = GET /\ call[t].attempt = 0
               /\ call'[t] = [call[t] EXCEPT !.attempt = 1]
      <4>1. call'[t].method = GET /\ call'[t].attempt = 1
        BY <3>1, <3>7 DEF Calls
      <4>2. Stage[t] = "sent" /\ Stage'[t] = "open"
        BY <2>3, <3>7 DEF Stage
      <4>3. Method[t] = "get" /\ Method'[t] = "get"
        BY <2>3, <3>7, <4>1 DEF Method
      <4>4. Tries[t] = call[t].attempt + 1 /\ Tries'[t] = call'[t].attempt
        BY <2>3, <3>7 DEF Tries
      <4>5. Tries[t] = 1 /\ Tries'[t] = 1
        BY <3>7, <4>1, <4>4
      <4>6. Method' = Method
        BY <2>3, <3>2, <4>3 DEF Method
      <4>7. Tries' = Tries
        BY <2>3, <3>2, <4>5 DEF Tries
      <4>8. Promise!Again(t)
        BY <3>2, <4>2, <4>3, <4>5, <4>6, <4>7 DEF Promise!Again, Promise!Budget
      <4> QED BY <2>3, <4>8 DEF Promise!Next
    <3>8. CASE pc[t] # "idle" /\ pc'[t] = "idle" /\ call'[t] = NoCall
      <4>1. /\ Stage[t] # "idle" /\ Stage'[t] = "idle"
            /\ Method'[t] = "get" /\ Tries'[t] = 0
        BY <2>3, <3>8 DEF Stage, Method, Tries, NoCall
      <4>2. Promise!Return(t)
        BY <3>2, <4>1 DEF Promise!Return
      <4> QED BY <2>3, <4>2 DEF Promise!Next
    <3> QED BY <3>1, <3>3, <3>4, <3>5, <3>6, <3>7, <3>8 DEF CallChange
  <2> QED BY <2>1, <2>2, <2>3
<1> QED BY <1>1, <1>2, Invariance, PTL DEF Spec, KeepsPromise, Promise!Spec

-----------------------------------------------------------------------------
(* HTTP: the lock, the errors and the refinement                           *)

USE TaskAssumption, CloseAssumption

\* What a step keeps of the lock when the task that holds it leaves.
LEMMA PassOnStep ==
  ASSUME HttpInv, NEW t \in Tasks, owner = t, PassOn,
         phase' = [phase EXCEPT ![t] = "idle"], answer' = "none"
  PROVE  owner' \in Tasks \cup {NoTask} /\ waiters' \in Seq(Tasks) /\ LockSound'
<1> USE DEF HttpInv, HttpTypes
<1>1. CASE waiters = << >>
  BY <1>1 DEF PassOn, LockSound
<1>2. CASE waiters # << >>
  <2>1. owner' = waiters[1] /\ waiters' = Tail(waiters)
    BY <1>2 DEF PassOn
  <2>2. /\ owner' \in Tasks /\ waiters' \in Seq(Tasks) /\ Len(waiters') = Len(waiters) - 1
        /\ \A i \in 1..Len(waiters') : waiters'[i] = waiters[i + 1] /\ i + 1 \in 1..Len(waiters)
        /\ \A i \in 1..Len(waiters) : i = 1 \/ (i - 1 \in 1..Len(waiters') /\ waiters[i] = waiters'[i - 1])
        /\ 1 \in 1..Len(waiters)
    BY <1>2, <2>1
  <2>3. \A u \in Tasks : phase'[u] # "idle" <=> u = owner' \/ \E i \in 1..Len(waiters') : waiters'[i] = u
    <3> TAKE u \in Tasks
    <3>1. CASE u = t
      <4>1. phase'[u] = "idle"
        BY <3>1
      <4>2. u # owner' /\ \A i \in 1..Len(waiters') : waiters'[i] # u
        BY <2>1, <2>2, <3>1 DEF LockSound
      <4> QED BY <4>1, <4>2
    <3>2. CASE u # t
      <4>1. phase'[u] # "idle" <=> \E i \in 1..Len(waiters) : waiters[i] = u
        BY <3>2 DEF LockSound
      <4>2. (\E i \in 1..Len(waiters) : waiters[i] = u)
              <=> (u = owner' \/ \E i \in 1..Len(waiters') : waiters'[i] = u)
        BY <2>1, <2>2
      <4> QED BY <4>1, <4>2
    <3> QED BY <3>1, <3>2
  <2>4. \A u \in Tasks : phase'[u] # "sent"
    BY DEF LockSound
  <2>5. \A i \in 1..Len(waiters') : waiters'[i] # owner'
    BY <2>1, <2>2 DEF LockSound
  <2>6. \A i, j \in 1..Len(waiters') : waiters'[i] = waiters'[j] => i = j
    BY <2>2 DEF LockSound
  <2> QED BY <2>2, <2>3, <2>4, <2>5, <2>6 DEF LockSound
<1> QED BY <1>1, <1>2

\* The lock is sound initially.
LEMMA LockSoundInit == HttpInit => HttpInv
BY DEF HttpInit, HttpInv, HttpTypes, LockSound

\* Every step keeps it sound.
LEMMA LockSoundStep == HttpInv /\ [HttpNext]_httpVars => HttpInv'
<1> SUFFICES ASSUME HttpInv, [HttpNext]_httpVars PROVE HttpInv'
  OBVIOUS
<1>1. ASSUME NEW t \in Tasks, NEW m \in {GET, PUT}, Call(t, m) PROVE HttpInv'
  <2>1. CASE owner = NoTask
    BY <1>1, <2>1 DEF Call, HttpInv, HttpTypes, LockSound
  <2>2. CASE owner # NoTask
    <3>1. /\ waiters \in Seq(Tasks) /\ waiters' = Append(waiters, t) /\ owner' = owner
          /\ phase' = [phase EXCEPT ![t] = "queued"] /\ phase[t] = "idle" /\ answer' = answer
      BY <1>1, <2>2 DEF Call, HttpInv, HttpTypes
    <3>2. /\ waiters' \in Seq(Tasks) /\ Len(waiters') = Len(waiters) + 1
          /\ waiters'[Len(waiters) + 1] = t
          /\ \A i \in 1..Len(waiters) : waiters'[i] = waiters[i] /\ i \in 1..Len(waiters')
          /\ \A i \in 1..Len(waiters') : i \in 1..Len(waiters) \/ i = Len(waiters) + 1
          /\ Len(waiters) + 1 \in 1..Len(waiters')
      BY <3>1
    <3>3. HttpTypes'
      BY <1>1, <3>1, <3>2 DEF Call, HttpInv, HttpTypes
    <3>4. t # owner /\ \A i \in 1..Len(waiters) : waiters[i] # t
      BY <3>1 DEF HttpInv, LockSound
    <3>5. \A u \in Tasks : phase'[u] # "idle" <=> u = owner' \/ \E i \in 1..Len(waiters') : waiters'[i] = u
      BY <3>1, <3>2 DEF HttpInv, HttpTypes, LockSound
    <3>6. /\ \A i \in 1..Len(waiters') : waiters'[i] # owner'
          /\ \A i, j \in 1..Len(waiters') : waiters'[i] = waiters'[j] => i = j
      BY <3>1, <3>2, <3>4 DEF HttpInv, LockSound
    <3>7. /\ \A u \in Tasks : phase'[u] = "sent" <=> phase[u] = "sent"
      BY <3>1 DEF HttpInv, HttpTypes
    <3> QED BY <2>2, <3>1, <3>3, <3>5, <3>6, <3>7 DEF HttpInv, LockSound
  <2> QED BY <2>1, <2>2
<1>2. ASSUME NEW t \in Tasks, Send(t) PROVE HttpInv'
  BY <1>2 DEF Send, InTurn, httpLock, HttpInv, HttpTypes, LockSound
<1>3. ASSUME NEW t \in Tasks, SendClosed(t) \/ Return(t) PROVE HttpInv'
  <2>1. /\ owner = t /\ PassOn /\ phase' = [phase EXCEPT ![t] = "idle"] /\ answer' = "none"
        /\ method' = [method EXCEPT ![t] = GET] /\ UNCHANGED <<session, shut>>
    BY <1>3 DEF SendClosed, Return, End, InTurn, HttpInv, LockSound
  <2>2. owner' \in Tasks \cup {NoTask} /\ waiters' \in Seq(Tasks) /\ LockSound'
    BY <2>1, PassOnStep
  <2> QED BY <2>1, <2>2 DEF HttpInv, HttpTypes
<1>4. ASSUME NEW t \in Tasks, CancelCall(t) PROVE HttpInv'
  <2>1. /\ phase[t] # "idle" /\ phase' = [phase EXCEPT ![t] = "idle"]
        /\ method' = [method EXCEPT ![t] = GET] /\ UNCHANGED <<session, shut>>
    BY <1>4 DEF CancelCall
  <2>2. CASE owner = t
    <3>1. PassOn /\ answer' = "none"
      BY <1>4, <2>2 DEF CancelCall
    <3>2. owner' \in Tasks \cup {NoTask} /\ waiters' \in Seq(Tasks) /\ LockSound'
      BY <2>1, <2>2, <3>1, PassOnStep
    <3> QED BY <2>1, <3>1, <3>2 DEF HttpInv, HttpTypes
  <2>3. CASE owner # t
    <3>1. PICK i \in 1..Len(waiters) : waiters[i] = t /\ waiters' = RemoveAt(waiters, i)
      BY <1>4, <2>3 DEF CancelCall
    <3>2. owner' = owner /\ answer' = answer /\ waiters \in Seq(Tasks)
      BY <1>4, <2>3 DEF CancelCall, HttpInv, HttpTypes
    <3>3. /\ waiters' \in Seq(Tasks) /\ Len(waiters') = Len(waiters) - 1
          /\ \A j \in 1..Len(waiters') : waiters'[j] = IF j < i THEN waiters[j] ELSE waiters[j + 1]
      <4> DEFINE a == SubSeq(waiters, 1, i - 1)
                 b == SubSeq(waiters, i + 1, Len(waiters))
      <4>0. a \in Seq(Tasks) /\ Len(a) = i - 1 /\ \A j \in 1..(i - 1) : a[j] = waiters[j]
        BY <3>2
      <4>3. b \in Seq(Tasks) /\ Len(b) = Len(waiters) - i
            /\ \A j \in 1..(Len(waiters) - i) : b[j] = waiters[i + j]
        BY <3>2
      <4>4. waiters' = a \o b
        BY <3>1 DEF RemoveAt
      <4> HIDE DEF a, b
      <4>1. waiters' \in Seq(Tasks) /\ Len(waiters') = Len(waiters) - 1
        BY <3>2, <4>0, <4>3, <4>4
      <4>2. ASSUME NEW j \in 1..Len(waiters') PROVE waiters'[j] = IF j < i THEN waiters[j] ELSE waiters[j + 1]
        <5>1. CASE j < i
          <6> waiters'[j] = a[j]
            BY <3>2, <5>1, <4>0, <4>3, <4>4, <4>1
          <6> QED BY <5>1, <4>0
        <5>2. CASE j >= i
          <6>1. waiters'[j] = b[j - (i - 1)]
            BY <3>2, <5>2, <4>0, <4>3, <4>4, <4>1
          <6>2. b[j - (i - 1)] = waiters[i + (j - (i - 1))]
            BY <3>2, <5>2, <4>3, <4>1
          <6> QED BY <3>2, <5>2, <6>1, <6>2, <4>1
        <5> QED BY <3>2, <5>1, <5>2, <4>1
      <4> QED BY <4>1, <4>2
    <3>4. \A u \in Tasks : u # t =>
            ((\E j \in 1..Len(waiters) : waiters[j] = u) <=> (\E j \in 1..Len(waiters') : waiters'[j] = u))
      <4> TAKE u \in Tasks
      <4> SUFFICES ASSUME u # t
                   PROVE  (\E j \in 1..Len(waiters) : waiters[j] = u)
                            <=> (\E j \in 1..Len(waiters') : waiters'[j] = u)
        OBVIOUS
      <4>1. ASSUME NEW j \in 1..Len(waiters), waiters[j] = u PROVE \E k \in 1..Len(waiters') : waiters'[k] = u
        <5>1. CASE j < i
          BY <3>2, <3>3, <4>1, <5>1
        <5>2. CASE j > i
          <6>1. j - 1 \in 1..Len(waiters') /\ waiters'[j - 1] = waiters[j]
            BY <3>2, <3>3, <5>2
          <6> QED BY <4>1, <6>1
        <5> QED BY <3>1, <4>1, <5>1, <5>2
      <4>2. ASSUME NEW j \in 1..Len(waiters'), waiters'[j] = u PROVE \E k \in 1..Len(waiters) : waiters[k] = u
        BY <3>2, <3>3, <4>2
      <4> QED BY <4>1, <4>2
    <3>5. \A j \in 1..Len(waiters') : waiters'[j] # t /\ waiters'[j] # owner
      BY <3>1, <3>2, <3>3 DEF HttpInv, LockSound
    <3>6. \A j, k \in 1..Len(waiters') : waiters'[j] = waiters'[k] => j = k
      BY <3>2, <3>3 DEF HttpInv, LockSound
    <3>7. \A u \in Tasks : phase'[u] # "idle" <=> u = owner' \/ \E j \in 1..Len(waiters') : waiters'[j] = u
      BY <2>1, <2>3, <3>2, <3>4, <3>5 DEF HttpInv, HttpTypes, LockSound
    <3>8. \A u \in Tasks : (phase'[u] = "sent" => phase[u] = "sent") /\ (phase[u] = "sent" => phase'[u] = "sent")
      BY <2>1, <2>3 DEF HttpInv, HttpTypes, LockSound
    <3>9. owner' # NoTask
      BY <3>1, <3>2 DEF HttpInv, LockSound
    <3> QED BY <2>1, <3>2, <3>3, <3>5, <3>6, <3>7, <3>8, <3>9 DEF HttpInv, HttpTypes, LockSound
  <2> QED BY <2>2, <2>3
<1>5. CASE CloseSession
  BY <1>5 DEF CloseSession, httpLock, HttpInv, HttpTypes, LockSound, Outcomes
<1>6. CASE Arrives
  BY <1>6 DEF Arrives, httpLock, HttpInv, HttpTypes, LockSound
<1>7. CASE UNCHANGED httpVars
  BY <1>7 DEF httpVars, HttpInv, HttpTypes, LockSound
<1> QED BY <1>1, <1>2, <1>3, <1>4, <1>5, <1>6, <1>7 DEF HttpNext, Step

\* Whatever fails and whoever is cancelled, the lock has one holder and every
\* other call has its place in the queue.
THEOREM LockIsSound == HttpSpec => []HttpInv
BY LockSoundInit, LockSoundStep, PTL DEF HttpSpec

\* The HTTP connector implements RequestReply.
THEOREM HttpRefinement == HttpSpec => HttpKeepsPromise
<1>1. HttpInit => HttpPromise!Init
  BY DEF HttpInit, HttpPromise!Init
<1>2. HttpInv /\ [HttpNext]_httpVars => [HttpPromise!Next]_(HttpPromise!vars)
  <2> SUFFICES ASSUME HttpInv, [HttpNext]_httpVars PROVE HttpPromise!Next \/ UNCHANGED HttpPromise!vars
    OBVIOUS
  <2> USE DEF HttpInv, HttpTypes
  <2>1. ASSUME NEW t \in Tasks, NEW m \in {GET, PUT}, Call(t, m) PROVE HttpPromise!Call(t, m)
    BY <2>1 DEF Call, HttpPromise!Call
  <2>2. ASSUME NEW t \in Tasks, Send(t) PROVE HttpPromise!Send(t)
    <3>1. \A u \in Tasks : phase[u] # "sent"
      BY <2>2 DEF Send, InTurn, LockSound
    <3>2. phase[t] = "queued" /\ phase' = [phase EXCEPT ![t] = "sent"] /\ method' = method
      BY <2>2 DEF Send
    <3> DEFINE stage == [u \in Tasks |-> IF phase[u] = "queued" THEN "open" ELSE phase[u]]
               tries == [u \in Tasks |-> IF phase[u] = "sent" THEN 1 ELSE 0]
    <3>3. stage[t] = "open" /\ \A u \in Tasks : stage[u] # "sent"
      BY <3>1, <3>2
    <3>4. 0 < HttpPromise!Budget(method[t])
      BY DEF HttpPromise!Budget
    <3>5. tries[t] = 0
      BY <3>1
    <3>6. stage' = [stage EXCEPT ![t] = "sent"]
      BY <3>2
    <3>7. tries' = [tries EXCEPT ![t] = tries[t] + 1]
      <4>1. \A u \in Tasks : u # t => phase'[u] = phase[u]
        BY <3>2
      <4>2. phase'[t] = "sent" /\ tries[t] + 1 = 1
        BY <3>2, <3>5
      <4>3. tries' = [u \in Tasks |-> IF u = t THEN tries[t] + 1 ELSE tries[u]]
        BY <4>1, <4>2
      <4> QED BY <4>3
    <3> QED BY <3>2, <3>3, <3>4, <3>5, <3>6, <3>7 DEF HttpPromise!Send
  <2>3. ASSUME NEW t \in Tasks, SendClosed(t) \/ Return(t) \/ CancelCall(t) PROVE HttpPromise!Return(t)
    <3>1. /\ phase[t] # "idle" /\ phase' = [phase EXCEPT ![t] = "idle"] /\ method' = [method EXCEPT ![t] = GET]
      BY <2>3 DEF SendClosed, Return, CancelCall, End
    <3> QED BY <3>1 DEF HttpPromise!Return
  <2>4. CASE CloseSession \/ Arrives \/ UNCHANGED httpVars
    BY <2>4 DEF CloseSession, Arrives, httpVars, HttpPromise!vars
  <2> QED BY <2>1, <2>2, <2>3, <2>4 DEF HttpNext, Step, HttpPromise!Next
<1> QED BY <1>1, <1>2, LockIsSound, PTL DEF HttpSpec, HttpKeepsPromise, HttpPromise!Spec
=============================================================================
