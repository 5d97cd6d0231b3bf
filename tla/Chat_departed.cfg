SPECIFICATION Spec
CONSTANTS
  Leader = Leader
  Clients = {c1, c2}
  MaxChatSize = 2
  MaxFaults = 0
  MaxTyped = 0
  Patience = 1
  MaxRounds = 2
  ResendAfter = 1
  MaxLines = 0
  Quitters = {c1}
INVARIANT DepartedUnlisted
CHECK_DEADLOCK FALSE
