\* The body that shows that the condition of a while shares its block with the code above it.
SPECIFICATION SourceSpec
CONSTANTS
  NoLimit = NoLimit
  U32Max = 100
  Programs <- MCCountingLoops
  Functions <- LoweredPrograms
  Targets <- MCTargets
  Values = {0, 1}
  Junk = Junk
INVARIANTS
  ReadsIntact
CHECK_DEADLOCK FALSE
