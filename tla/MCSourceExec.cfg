\* Every body of MCPrograms lowered, allocated and run.
SPECIFICATION SourceSpec
CONSTANTS
  NoLimit = NoLimit
  U32Max = 100
  Programs <- MCPrograms
  Functions <- LoweredPrograms
  Targets <- MCTargets
  Values = {0, 1}
  Junk = Junk
INVARIANTS
  ReadsIntact
  ReachedLocalsPlaced
  AlwaysAllocated
PROPERTIES
  RunsLikeSource
CHECK_DEADLOCK FALSE
