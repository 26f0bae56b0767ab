\* Every pair of sets over six values, for each of the eight kernels and for
\* the batch merge with up to three unused places in the payload.
SPECIFICATION Spec
CONSTANTS
  LastLow = 5
  SkewedRatio = 2
  Spare = 3
\* A call that has returned takes no further step.
CHECK_DEADLOCK FALSE
INVARIANTS
  LoopsAreSound
  KernelsAreSound
PROPERTIES
  KernelsCombineSets
  BatchIsUnion
