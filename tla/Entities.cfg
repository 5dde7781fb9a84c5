SPECIFICATION Spec
CONSTANTS
  a = a
  b = b
  NoKey = NoKey
  NoValue = NoValue
  Tasks <- TwoTasks
  Keys <- Keys2
  Domain <- Domain2
  OwnerKeys <- Keys2
  MaxChanges = 1
  MaxRetries = 1
  Entities <- Pair
  Devices <- AllDevices
  KeyOf <- KeyOf2
  Allowed <- AllAllowed
  OnAction = "on"
  OffAction = "off"
  Empty = "off"
  Notice <- Notices
  Table <- Errors
  Titles <- Titles1
SYMMETRY Symmetry
INVARIANTS
  ShownKnown
  LastCommandWins
