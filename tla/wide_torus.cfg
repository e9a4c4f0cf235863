SPECIFICATION Spec
CONSTANTS
  Limit = 1024
  UIntLimit = 256
  qbit = 10
  N = 2
  n = 2
  Bbit = 2
  l = 3
  Kbit = 3
  t = 2
  Sign <- Signs
  Mask <- Masks
  Message <- Messages
  Amount = {1, 3}
  Gadget <- Decompositions
INVARIANTS RoundIsCMux
