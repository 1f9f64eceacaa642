\* Every program of Families, after every stage.  A run ends with its last stage.
SPECIFICATION Spec
CONSTANTS
  ByteBits = 3
  ComptimeMaxSteps = 29
  ComptimeMaxCallDepth = 2
  ComptimeMaxArrayElements = 4
  Programs <- Families
INVARIANTS
  MeaningKept
  NamesInScope
  TailRecursionIsFlat
CHECK_DEADLOCK FALSE
