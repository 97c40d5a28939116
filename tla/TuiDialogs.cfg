SPECIFICATION FairDialogs
CONSTANTS
  MaxCalls = 2
  MaxTasks = 1
INVARIANT BusyTrue
PROPERTIES StaleNeverShows WayOut
CHECK_DEADLOCK FALSE
