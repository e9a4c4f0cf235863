SPECIFICATION Spec
CONSTANTS
  Place = {p, q, r}
  Addr = {x1, x2, x3, x4}
  None = None
  Type = {"trlwe", "trgsw", "bk", "ksk"}
  n = 2
  Worst <- SmallWorst
  Average <- SmallAverage
  MaxBound = 3
INVARIANTS TrackedBoundHolds TrackingInv
SYMMETRY Interchangeable
CONSTRAINT Bounded
