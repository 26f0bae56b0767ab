\* Every pair of arrays over six of the eight low values (both ends of the
\* domain among them), for every operation, place of the result and processor;
\* every array and run list or bitset over the first six for the passes; runs
\* of 64 shapes against 64 bitsets of three words, five words decoded; every set in
\* every form, combined with five others in every form; lists of up to 15 for the searches
\* (seven blocks and a value more: two rounds of quarters, then halves);
\* five run lists minus every bitset of five words.
SPECIFICATION Spec
CONSTANTS
  LastLow = 7
  ArrayLow = {0, 1, 2, 4, 6, 7}
  PassLow = {0, 1, 2, 3, 4, 5}
  Lanes = 2
  Four = 2
  SkewedRatio = 2
  SettleSteps = 1
  LinearSteps = 1
  RunsPerStride = 1
  Strides = 1
  Gap = 2
  ShortcutMin = 4
  WindowMin = 2
  WindowMax = 4
  ResidentMax = 6
  WordBits = 4
  StretchCopy = 2
  DiffSteps = 2
  DiffWhole = 3
  CoveredSteps = 2
  SkewedBatch = 2
  ByteBits = 2
  GroupWords = 2
  PerWord <- ValuesPerWord
  ManyRuns = 2
  DecodedWords = 5
  FilledWords = 3
  RunPieces <- RunBlocks
  Patterns <- WordPatterns
  BitsetBytes = 12
  RunBytes = 4
  LowBytes = 2
  RunsFrom = 3
  ArrayLimit = 6
  LowerLimits = {4}
  FewValues = 2
  Partners <- PartnerSets
  Longest = 15
INVARIANTS
  ResultsAreTheSets
  StoresAreSafe
  SearchesFindTheFirst
  FormsAsPromised
\* A call that has returned takes no further step.
CHECK_DEADLOCK FALSE
