\* Two bitmaps of one container of two keys and two of one, copied and changed;
\* two and a scratch; two with bulk contexts.
SPECIFICATION MCSpec
CONSTANTS
  Bitmaps = {b1, b2, s1}
  Builders = {s1}
  Chunks = {0, 1, 2}
  Lows = {0, 1}
  Keys <- TwoAndOnes
  Tables = {1, 2, 3, 4, 5, 6, 7}
  Payloads = {1, 2, 3, 4, 5, 6, 7, 8, 9, 10, 11, 12, 13, 14, 15, 16, 17, 18, 19, 20, 21}
  Policies = {"values", "payloads", "tables"}
  SmallTable = 1
  LeastRoom = 1
  NoContext = NoContext
  MayFail = TRUE
  FewRatio = 0
  ResetsContext = TRUE
  Scratches = {}
  Programs = {"copies", "scratch", "contexts"}
SYMMETRY Symmetric
VIEW UpToAddresses
INVARIANTS
  BitmapsAreSound
  PoolsAreOwn
  ContextIsSound
PROPERTIES
  UnchangedStaysShared
  ImplementsBitmapValues
