SPECIFICATION FairSpec
CONSTANTS
  Peers = {p}
  Groups = {g}
  MaxSends = 2
  MaxEvents = 1
  MaxVisits = 3
  MaxDeletes = 1
  MaxAside = 1
INVARIANTS SettledNotPending LinksTrue
PROPERTIES PendingKept AllSettle
CHECK_DEADLOCK FALSE
