\* Bits and ranges through two operators each; counts of shifts one by one.
SPECIFICATION Spec
CONSTANTS
  ByteBits = 2
  Mixes <- MCMixes
  Depth = 2
  LeftCounts <- MCCounts
  RightCounts <- MCCounts
INVARIANTS
  FactsHold
  MaskProofsHold
  LiteralsStayExact
CHECK_DEADLOCK FALSE
