SPECIFICATION Spec
CONSTANTS
  a = a
  b = b
  c = c
  NoTask = NoTask
  Tasks <- ThreeTasks
  Paths <- NestedPaths
  IdIn <- NestedIds
  SeqStyles = {"zero", "none"}
  Kinds = {"data"}
  MaxCalls = 3
  MaxCloses = 0
SYMMETRY Symmetry
INVARIANTS
  AnswerFitsPath
  Serialised
PROPERTIES
  FuturesSettleOnce
  QueueMovesUp
  KeepsPromise
