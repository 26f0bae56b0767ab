\* Two threads over one key, and single calls over two.
SPECIFICATION MCSpec
CONSTANTS
  Threads = {t1, t2}
  Handles = {h1, h2, h3}
  Keys = {k1, k2}
  NoCall = NoCall
  Blocks = {b1, b2, b3, b4}
  Null = Null
  Made <- Ops
  Programs = {"racing", "alone"}
SYMMETRY Symmetric
INVARIANTS
  TypeOK
  CountsHolders
  NoDangling
  NoLeak
  WritesOwnBitmapOnly
  SizeIsCardinality
PROPERTIES
  ChangedByOwnCallOnly
  ImplementsHandleValues
