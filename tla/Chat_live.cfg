SPECIFICATION FairSpec
CONSTANTS
  Leader = Leader
  Clients = {c1, c2}
  MaxChatSize = 2
  MaxFaults = 0
  MaxTyped = 0
  Patience = 1
  MaxRounds = 0
  ResendAfter = 1
  MaxLines = 1
  Quitters = {}
PROPERTY TypedComesBack
PROPERTY EveryMemberShowsAll
CHECK_DEADLOCK FALSE
