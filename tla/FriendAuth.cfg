CONSTANTS
  Peer = {p1, p2}
  Own = {o1}
  Theirs = {q1, q2}
  Task = {t1, t2}
  None = none
  MaxIncoming = 2
  MaxIncomingPerPeer = 2
  MaxPending = 2
  MaxPerWindow = 1
SPECIFICATION Spec
SYMMETRY MCSymmetry
INVARIANTS BlockWins LimitsHold
PROPERTIES FriendsAsked AnswersKept
