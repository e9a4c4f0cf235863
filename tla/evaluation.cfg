SPECIFICATION Spec
CONSTANTS
  U = 6
  Fresh = 1
  Drift = 1
  Boot = 1
  Switch = 1
  Wire = {a, b, c}
  Resolution = {2, 4}
INVARIANTS TypeOK EveryWireDrops NoiseStaysBounded
SYMMETRY WireSymmetry
