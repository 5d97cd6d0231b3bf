SPECIFICATION FairSpec
CONSTANTS
  Leader = 1
  Clients = {2, 3}
  MaxChatSize = 10
  MaxFaults = 0
  MaxLines = 0
  MaxReached = 1
  UnsetMatches = FALSE
PROPERTY ThreadsResume
CHECK_DEADLOCK FALSE
