SPECIFICATION FairSpec
CONSTANTS
  Keys <- Resources
  Refs <- References
  Histories <- History
  Recorders <- Recording
  Intervals = 3
  Commands <- SomeCommands
INVARIANTS
  SessionClosed
  ScanComplete
  FileSafe
  QueryExact
PROPERTIES
  CommandEnds
