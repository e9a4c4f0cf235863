SPECIFICATION BulkSpec
CONSTANTS
  Limit = 8
  Size = 3
  width = 2
  Element <- Elements
  Input = {0, 1, 3, 5, 7}
INVARIANTS ExactSoFar
