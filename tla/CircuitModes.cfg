SPECIFICATION FairSpec
CONSTANTS
  a = a
  b = b
  NoKey = NoKey
  NoMode = NoMode
  NoTemp = NoTemp
  Keys <- CircuitKeys
  Domain <- CircuitDomain
  ModeKey = "mode"
  Setpoints <- Temperatures
  Poll <- CircuitPoll
  SetpointOf <- CircuitSetpointOf
  ModeType <- CircuitModeType
  Degrees = {"20"}
  Settable = {"20"}
  Tasks <- TwoTasks
  Commands <- TwoModes
  OwnerKeys <- ModeOnly
  MaxChanges = 1
  MaxRetries = 1
INVARIANTS
  ModeKnown
PROPERTIES
  CircuitReturns
