\* Two chunks of a four-key domain, arrays of up to two keys; the finished
\* bitmaps combined with hold a container of each form, one of them full.
\* Three keys of one chunk and one of the other are added and removed alone.
SPECIFICATION Spec
CONSTANTS
  Chunks = {1, 2}
  Lows = {0, 1, 2, 3}
  ArrayMax = 2
  UnionArrayMax = 2
  XorArrayMax = 2
  Deferred = 100
  Operands <- MCOperands
  Keys <- MCKeys
INVARIANTS
  FoldIsSound
  KeysAreModel
