SPECIFICATION FairSpec
CONSTANTS
  s1 = s1
  s2 = s2
  i1 = i1
  None = None
  Socket = {s1, s2}
  Peer = {p1, p2}
  Room = {r1}
  Auth = {a1, a2}
  Ip = {i1}
  IpOf <- MCIpOf
  MaxConnections = 2
  MaxPerIp = 2
  MaxRooms = 1
  MaxRoomsPerClient = 1
  MaxMembers = 2
  MaxSignal = 1
  MaxRetained = 1
  MaxRelayPeers = 1
  RelayEnabled = TRUE
  MaxPending = 2
  MaxPendingPerClient = 2
  MaxPendingPerIp = 2
INVARIANTS OneSession RetainedTrue PendingTrue
PROPERTIES ServerSpec TurnComes
