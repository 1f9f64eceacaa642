\* A swap of two parameters through a temporary, at level 1.
SPECIFICATION Spec
CONSTANTS
  ByteBits = 3
  ComptimeMaxSteps = 29
  ComptimeMaxCallDepth = 2
  ComptimeMaxArrayElements = 4
  Programs <- Swap
INVARIANT MeaningKept
CHECK_DEADLOCK FALSE
