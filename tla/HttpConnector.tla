------------------------------ MODULE HttpConnector ------------------------------
(***************************************************************************)
(* connectors/http.py: get() and put() under one asyncio.Lock and one HTTP *)
(* request per call.  aiohttp and the gateway are external; how a call     *)
(* that has its response, or the loss of it, ends for its caller (a value  *)
(* or one of four exceptions) makes no difference to the lock and is left  *)
(* to EntityCache, CircuitCache and GatewayDiscovery.                      *)
(***************************************************************************)
EXTENDS Callers

\* What becomes of a request: a response of any status and content, or none
\* that is complete, because the connection fails, breaks or takes too long.
Outcomes == {"response", "lost"}

VARIABLES
  phase,    \* "idle", "queued" for the lock, or "sent"
  method,   \* of the call
  owner,    \* the task in the lock
  waiters,  \* the tasks that wait for it
  answer,   \* what became of the request on the wire, "none" as long as it is out
  session,  \* "open" or "closed": the aiohttp session of the consumer
  shut      \* close() calls

httpVars == <<phase, method, owner, waiters, answer, session, shut>>
httpLock == <<owner, waiters>>

HttpInit ==
  /\ phase = [t \in Tasks |-> "idle"] /\ method = [t \in Tasks |-> GET]
  /\ owner = NoTask /\ waiters = << >>
  /\ answer = "none" /\ session = "open" /\ shut = 0

Call(t, m) ==
  /\ phase[t] = "idle"
  /\ phase' = [phase EXCEPT ![t] = "queued"] /\ method' = [method EXCEPT ![t] = m]
  /\ IF owner = NoTask THEN owner' = t /\ UNCHANGED waiters
                       ELSE waiters' = Append(waiters, t) /\ UNCHANGED owner
  /\ UNCHANGED <<answer, session, shut>>

PassOn_Held == UNCHANGED httpLock

PassOn ==
  IF waiters = << >> THEN owner' = NoTask /\ UNCHANGED waiters
  ELSE owner' = Head(waiters) /\ waiters' = Tail(waiters)

\* The call ends, with a value or an exception, and leaves the lock.
End(t) ==
  /\ phase' = [phase EXCEPT ![t] = "idle"] /\ method' = [method EXCEPT ![t] = GET]
  /\ PassOn
  /\ answer' = "none"

InTurn_Ignored(t) == TRUE
InTurn(t) == owner = t

Send(t) ==
  /\ phase[t] = "queued" /\ InTurn(t) /\ session = "open"
  /\ phase' = [phase EXCEPT ![t] = "sent"]
  /\ UNCHANGED <<method, httpLock, answer, session, shut>>

\* aiohttp refuses to use a closed session; nothing maps its RuntimeError.
SendClosed(t) ==
  /\ phase[t] = "queued" /\ InTurn(t) /\ session = "closed"
  /\ End(t)
  /\ UNCHANGED <<session, shut>>

\* get_response() or one of the except clauses.
Return(t) ==
  /\ phase[t] = "sent" /\ answer # "none"
  /\ End(t)
  /\ UNCHANGED <<session, shut>>

CancelCall(t) ==
  /\ phase[t] # "idle"
  /\ phase' = [phase EXCEPT ![t] = "idle"] /\ method' = [method EXCEPT ![t] = GET]
  /\ IF owner = t THEN PassOn /\ answer' = "none"
     ELSE /\ \E i \in 1..Len(waiters) : waiters[i] = t /\ waiters' = RemoveAt(waiters, i)
          /\ UNCHANGED <<owner, answer>>
  /\ UNCHANGED <<session, shut>>

\* close(force=True); a request on the wire is dropped.
CloseSession ==
  /\ shut < MaxCloses /\ shut' = shut + 1
  /\ session' = "closed"
  /\ answer' = IF answer = "none" /\ \E t \in Tasks : phase[t] = "sent" THEN "lost" ELSE answer
  /\ UNCHANGED <<phase, method, httpLock>>

-----------------------------------------------------------------------------
\* The gateway answers, the connection fails, or the request times out.
Arrives ==
  /\ answer = "none" /\ \E t \in Tasks : phase[t] = "sent"
  /\ \E o \in Outcomes : answer' = o
  /\ UNCHANGED <<phase, method, httpLock, session, shut>>

Step(t) == Send(t) \/ SendClosed(t) \/ Return(t)

HttpNext ==
  \/ \E t \in Tasks : (\E m \in {GET, PUT} : Call(t, m)) \/ Step(t) \/ CancelCall(t)
  \/ CloseSession \/ Arrives

HttpSpec == HttpInit /\ [][HttpNext]_httpVars

\* The timeout of aiohttp ends every request; a task that can run does run.
HttpFairSpec == HttpSpec /\ WF_httpVars(Arrives) /\ \A t \in Tasks : WF_httpVars(Step(t))

-----------------------------------------------------------------------------
\* Every variable has its type.
HttpTypes ==
  /\ phase \in [Tasks -> {"idle", "queued", "sent"}] /\ method \in [Tasks -> {GET, PUT}]
  /\ owner \in Tasks \cup {NoTask} /\ waiters \in Seq(Tasks)
  /\ answer \in {"none"} \cup Outcomes
  /\ session \in {"open", "closed"} /\ shut \in Nat

\* The lock is held by one task that is in a call; the others in a call wait
\* for it, once each, and nobody waits for a free lock: whatever is cancelled
\* or fails, the next call gets its turn (http.py:82, http.py:96).
LockSound ==
  /\ \A t \in Tasks : phase[t] = "sent" => owner = t
  /\ \A t \in Tasks : phase[t] # "idle" <=> t = owner \/ \E i \in 1..Len(waiters) : waiters[i] = t
  /\ owner = NoTask => waiters = << >>
  /\ \A i \in 1..Len(waiters) : waiters[i] # owner
  /\ \A i, j \in 1..Len(waiters) : waiters[i] = waiters[j] => i = j
  /\ answer # "none" => \E t \in Tasks : phase[t] = "sent"

HttpInv == HttpTypes /\ LockSound

\* The connector implements RequestReply: one request at a time, one request
\* for every call.
HttpPromise ==
  INSTANCE RequestReply WITH
    stage  <- [t \in Tasks |-> IF phase[t] = "queued" THEN "open" ELSE phase[t]],
    method <- method,
    tries  <- [t \in Tasks |-> IF phase[t] = "sent" THEN 1 ELSE 0]

HttpKeepsPromise == HttpPromise!Spec

\* Every get() and put() returns or raises, whatever the gateway does.
HttpReturns == \A t \in Tasks : (phase[t] # "idle") ~> (phase[t] = "idle")
=============================================================================
