SPECIFICATION OverrideSpec
CONSTANTS
  a = a
  b = b
  NoKey = NoKey
  NoName = "-"
  NoOverride = "none"
  NotRead = "unread"
  Tasks <- TwoTasks
  Keys <- EveryKey
  Domain <- EveryDomain
  OwnerKeys <- Changing
  MaxChanges = 1
  MaxRetries = 0
  Sites <- ThreeSites
  Requested = {"22"}
  Ids = {"A", "B"}
  Lists <- EveryList
INVARIANTS
  OverrideInv
  KnownShown
  ProgramsKnown
PROPERTIES
  TargetReached

SYMMETRY Alike
