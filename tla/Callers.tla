-------------------------------- MODULE Callers --------------------------------
(* What both connectors have in common: the asyncio tasks that call them, with *)
(* one method or the other.                                                    *)
EXTENDS Integers, Sequences, FiniteSets, SequencesExt

CONSTANTS
  Tasks,     \* asyncio tasks that use the connector
  NoTask,    \* the owner of a free lock
  MaxCloses  \* bound on close() calls

ASSUME TaskAssumption  == NoTask \notin Tasks
ASSUME CloseAssumption == MaxCloses \in Nat

GET == "get"
PUT == "put"
=============================================================================
