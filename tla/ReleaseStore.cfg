CONSTANTS
  Proc = {p1, p2, p3}
  Release = {r1, r2}
  Flat = Flat
  None = None
  Bad = Bad
  StartFlat = TRUE
  MaxFaults = 1
SPECIFICATION Spec
INVARIANTS InUseKept ReferencedKept WayBack
CHECK_DEADLOCK FALSE
SYMMETRY Sym
