\* Up to two images and three assets in two or three small banks.
SPECIFICATION Spec
CONSTANTS
  Geometries <- MCGeometries
  Images <- MCImages
  Candidates <- MCCandidates
  MaxImages = 2
  MaxCandidates = 3
  U64Max = 15
INVARIANTS
  PlacedBytesIntact
  NoRoomPassedOver
CHECK_DEADLOCK FALSE
