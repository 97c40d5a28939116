CONSTANTS
  Peer = {p1}
  Direct = {d1}
  Relay = relay
  Nonce = {n1, n2}
  Sid = {s1, s2}
  None = none
  Recovery = {p1}
  ForceRelay = FALSE
  RelayEnabled = TRUE
  MaxSessions = 2
  MaxAttempts = 1
  MaxExpected = 1
  HostOf <- MCHostOf
SPECIFICATION FairSpec
INVARIANTS TablesAgree ConfirmedIsFiled
PROPERTIES ConfirmedRouteKept DueIsDropped
