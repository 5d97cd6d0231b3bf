SPECIFICATION Spec
CONSTANTS
  Leader = Leader
  Clients = {c1}
  MaxChatSize = 2
  MaxFaults = 0
  MaxTyped = 1
  Patience = 1
  MaxRounds = 0
  ResendAfter = 1
  MaxLines = 0
  Quitters = {}
INVARIANT FreshStamps
CHECK_DEADLOCK FALSE
