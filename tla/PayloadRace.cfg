SPECIFICATION Spec
CONSTANTS
  Threads = {a, b, c}
  Creator = a
  Handles = 2
  Changes = 4
SYMMETRY Alike
INVARIANTS
  StepsAreOrdered
  SoleOwnerStaysAlone
  FreedByTheLast
CHECK_DEADLOCK FALSE
