\* Bytes and words on two units, a two-byte spill area beside an open one.
SPECIFICATION AllocSpec
CONSTANTS
  NoLimit = NoLimit
  U32Max = 16
  Functions <- MCFunctions
  Targets <- MCTargets
INVARIANTS
  AllocTypeOK
  QuietPassSettles
  ResultSolvesEquations
  NeverLiveInVain
  ResultIsComplete
  IntervalsCoverLiveness
  NoSharedUnits
  ClobbersSpareLiveValues
  FixedOperandsHonoured
  ConflictsAreGenuine
  NoSharedBytes
  DedicatedSlots
  SlotsInBounds
  SlotsAligned
  EveryValuePlaced
PROPERTIES
  SetsOnlyGrow
  AllocationTerminates
CHECK_DEADLOCK FALSE
