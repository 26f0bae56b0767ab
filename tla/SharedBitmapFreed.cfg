SPECIFICATION MCFairSpec
CONSTANTS
  Threads = {t1, t2}
  Handles = {h1, h2}
  Keys = {k1}
  NoCall = NoCall
  Blocks = {b1, b2, b3}
  Null = Null
  Made <- SharingOps
  Programs = {"racing"}
PROPERTIES
  LetGoIsFreed
