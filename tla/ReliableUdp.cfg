SPECIFICATION FairTransfer
CONSTANTS
  Msg = {m1, m2}
  Parts <- MCParts
  MaxFragments = 2
  Rounds = 3
  RetryInterval = 1
  SeenLife = 3
  ReassemblyLife = 2
  MaxPending = 1
  MaxReassemblies = 1
  Lifetime = 1
INVARIANTS
  SeenOutlivesFragments
PROPERTIES
  ChannelSpec
  EveryCallEnds
