CONSTANTS
  Peer = {p1, p2}
  Direct = {d1}
  Relay = relay
  Nonce = {n1}
  Sid = {s1, s2}
  None = none
  Recovery = {p1}
  ForceRelay = FALSE
  RelayEnabled = TRUE
  MaxSessions = 1
  MaxAttempts = 1
  MaxExpected = 1
  HostOf <- MCHostOf
SPECIFICATION Spec
SYMMETRY MCSymmetry
INVARIANTS LimitsKept
