------------------------------- MODULE Queues -------------------------------
(* Tasks that wait in a row, for a connector or for a lock. *)
EXTENDS Integers, Sequences, FiniteSets, SequencesExt

\* Nobody is in a queue twice.
Once(q) == \A i, j \in 1..Len(q) : q[i] = q[j] => i = j

Among(t, q) == \E i \in 1..Len(q) : q[i] = t
=============================================================================
