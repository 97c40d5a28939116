SPECIFICATION Spec
CONSTANTS
  Peers = {p}
  Groups = {g}
  MaxSends = 2
  MaxEvents = 1
  MaxVisits = 3
  MaxDeletes = 1
  MaxAside = 1
INVARIANT PutAsideAtHome

CHECK_DEADLOCK FALSE
