SPECIFICATION HttpFairSpec
CONSTANTS
  a = a
  b = b
  c = c
  NoTask = NoTask
  Tasks <- ThreeTasks
  MaxCloses = 1
INVARIANTS
  HttpInv
PROPERTIES
  HttpKeepsPromise
  HttpReturns
