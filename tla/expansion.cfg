SPECIFICATION Spec
CONSTANTS
  U = 6
  Fresh = 1
  Drift = 1
  Boot = 1
  Switch = 1
  H = 3
INVARIANTS SlotIsPrefixMatch OneHot
