SPECIFICATION FairSpec
CONSTANTS
  a = a
  b = b
  c = c
  NoTask = NoTask
  Tasks <- TwoTasks
  Paths <- NestedPaths
  IdIn <- NestedIds
  SeqStyles = {"echo"}
  Kinds = {"data", "empty", "denied", "garbled", "error"}
  MaxCalls = 2
  MaxCloses = 1
INVARIANTS
  NoStrandedRequest
  EchoedReply
PROPERTIES
  PutSentOnce
  CallsReturn
  CloseTerminates
