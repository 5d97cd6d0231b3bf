SPECIFICATION Spec
CONSTANTS
  Leader = 1
  Clients = {2, 3}
  MaxChatSize = 10
  MaxFaults = 1
  MaxLines = 1
  MaxReached = 1
  UnsetMatches = FALSE
CONSTRAINT OneDisturbance
INVARIANT TypeOK
INVARIANT OneLeaderListed
INVARIANT DeadLeaderUnlisted
CHECK_DEADLOCK FALSE
