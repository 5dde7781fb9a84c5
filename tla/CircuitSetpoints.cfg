SPECIFICATION Spec
CONSTANTS
  a = a
  b = b
  NoKey = NoKey
  NoMode = NoMode
  NoTemp = NoTemp
  Keys <- CircuitKeys
  Domain <- CircuitDomain
  ModeKey = "mode"
  Setpoints <- Temperatures
  Poll <- CircuitPoll
  SetpointOf <- CircuitSetpointOf
  ModeType <- CircuitModeType
  Degrees = {"20", "22"}
  Settable = {"20", "22"}
  Tasks <- TwoTasks
  Commands <- Nothing
  OwnerKeys <- Temperatures
  MaxChanges = 1
  MaxRetries = 1
SYMMETRY Symmetry
INVARIANTS
  SetpointsKnown
