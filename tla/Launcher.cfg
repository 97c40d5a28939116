CONSTANTS
  Pid = {q1, q2, q3}
  None = None
  MaxBorn = 5
SPECIFICATION Spec
SYMMETRY MCSymmetry
INVARIANTS ChildStopped OneRestart
PROPERTIES CloseExact
CHECK_DEADLOCK FALSE
