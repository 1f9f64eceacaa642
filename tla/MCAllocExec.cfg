\* Allocation followed by every run of the allocated function.
SPECIFICATION ExecSpec
CONSTANTS
  NoLimit = NoLimit
  U32Max = 16
  Functions <- MCFunctions
  Targets <- MCTargets
  Values = {0, 1}
  Junk = Junk
INVARIANTS
  LiveValuesIntact
PROPERTIES
  RunsLikeVirtualMachine
CHECK_DEADLOCK FALSE
