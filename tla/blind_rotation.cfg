SPECIFICATION Spec
CONSTANTS
  qbit = 6
  N = 4
  n = 2
  Mask = {0, 3, 4, 7, 21, 36, 63}
  Mu = {16, 21}
  Err = 1
  Error <- AlternatingErrors
INVARIANTS AccumulatorIsTurnedTestVector
PROPERTIES DecidesAsGatesNeed
