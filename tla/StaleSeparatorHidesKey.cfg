SPECIFICATION AboveTableSpec
CONSTANTS
  LastChunkKey = 5
  FarChunkKey = 14
  Key <- MCKey
  OtherTables <- MCOtherTables
  KeptSets <- MCKeptSets
  SmallLeaf = 1
  MediumLeaf = 2
  LeafCapacity = 2
  InnerKeys = 2
  MergeBelow = 2
  MergeLimit = 2
  DirectoryMinEntries = 6
  PileLimit = 2
  AdoptSlack = 3
  GrowthSlack = 3
  TableSlack = 0
  ErasesLastBeforeOpened = TRUE
INVARIANT EveryKeyIsFound
CHECK_DEADLOCK FALSE
