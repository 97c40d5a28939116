CONSTANTS
  Msg = {m1}
  Flush = {f1, f2}
  Handler = {h1, h2}
  None = none
  MaxAttempts = 2
SPECIFICATION Spec
SYMMETRY MCSymmetry
INVARIANTS DeliveredIsReceived ShownOnce Kept RetriesBounded
