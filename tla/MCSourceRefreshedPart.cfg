\* The body that shows that writing a part counts as writing the whole.
SPECIFICATION SourceSpec
CONSTANTS
  NoLimit = NoLimit
  U32Max = 100
  Programs <- MCRefreshedParts
  Functions <- LoweredPrograms
  Targets <- MCTargets
  Values = {0, 1}
  Junk = Junk
INVARIANTS
  ReadsIntact
CHECK_DEADLOCK FALSE
