SPECIFICATION Spec
CONSTANTS
  LastLow = 7
  WordBits = 4
  Gap = 2
  LastKey = 4
  BodyKeys = 2
  ArrayMax = 4
  OffsetThreshold = 2
  Lanes = 2
  Sources <- MCSources
  Formats = {"replay", "frozen", "ranked", "portable32", "portable64", "foreign64"}
  Cuts = {1, 2, 5}
INVARIANTS
  WrittenAsPlanned
  AcceptedIsWhole
  ReadBackIsSource
  QueriesAgreeWithValues
CHECK_DEADLOCK FALSE
