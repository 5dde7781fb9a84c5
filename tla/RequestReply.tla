------------------------------ MODULE RequestReply ------------------------------
(***************************************************************************)
(* What a connector promises: its users' calls are carried out by requests *)
(* of which one at a time is on the wire, a get() is asked at most twice   *)
(* and a put() is sent at most once.                                       *)
(***************************************************************************)
EXTENDS Naturals

CONSTANT Tasks

VARIABLES
  stage,   \* of each task's call: "idle", "open" (to be sent) or "sent"
  method,  \* "get" or "put"
  tries    \* requests sent for the call

vars == <<stage, method, tries>>

Budget(m) == IF m = "get" THEN 2 ELSE 1

Init ==
  /\ stage = [t \in Tasks |-> "idle"]
  /\ method = [t \in Tasks |-> "get"]
  /\ tries = [t \in Tasks |-> 0]

Call(t, m) ==
  /\ stage[t] = "idle"
  /\ stage' = [stage EXCEPT ![t] = "open"]
  /\ method' = [method EXCEPT ![t] = m]
  /\ UNCHANGED tries

Send(t) ==
  /\ stage[t] = "open" /\ \A u \in Tasks : stage[u] # "sent"
  /\ tries[t] < Budget(method[t])
  /\ stage' = [stage EXCEPT ![t] = "sent"]
  /\ tries' = [tries EXCEPT ![t] = @ + 1]
  /\ UNCHANGED method

Again(t) ==
  /\ stage[t] = "sent" /\ tries[t] < Budget(method[t])
  /\ stage' = [stage EXCEPT ![t] = "open"]
  /\ UNCHANGED <<method, tries>>

Return(t) ==
  /\ stage[t] # "idle"
  /\ stage' = [stage EXCEPT ![t] = "idle"]
  /\ method' = [method EXCEPT ![t] = "get"]
  /\ tries' = [tries EXCEPT ![t] = 0]

Next == \E t \in Tasks : \/ \E m \in {"get", "put"} : Call(t, m)
                         \/ Send(t) \/ Again(t) \/ Return(t)

Spec == Init /\ [][Next]_vars
=============================================================================
