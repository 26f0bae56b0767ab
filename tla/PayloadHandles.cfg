SPECIFICATION Spec
CONSTANTS
  Handles = {a, b}
  Blocks = {1, 2, 3}
  Images = {10}
  ImageKind <- MCImageKind
  ImageValues <- MCImageValues
  LastValue = 2
  WordCount = 2
  InlineValues = 2
  InlineRuns = 1
  Prefix = 1
  Batches <- MCBatches
SYMMETRY Alike
INVARIANTS
  HandlesHoldTheirValues
  HeaderTellsPayload
  BlocksAreAccounted
PROPERTIES
  ImageIsOnlyRead
CHECK_DEADLOCK FALSE
