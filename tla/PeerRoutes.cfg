CONSTANTS
  Sid = {s1, s2}
  Lid = {l1, l2}
  None = none
SPECIFICATION Spec
INVARIANTS RemoteAgrees FallbackKept OnlineIsSaved
PROPERTIES OfflineIsSaved HandoffKept LanKept
