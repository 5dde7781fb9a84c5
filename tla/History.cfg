SPECIFICATION FairSpec
CONSTANTS
  Tasks = {t1, t2}
  t1 = t1
  t2 = t2
  Kinds <- EveryKind
  Hours = 2
  Span <- SomeSpan
  LastHour = 6
  PageSize = 2
  Offsets <- SomeOffsets
  Usage <- SomeUsage
  Ranges <- SomeRanges
INVARIANTS
  HistoryInv
  RangeExact
  FetchComplete
PROPERTIES
  UpdateFinds
  RecordAdvances
  FetchReturns
