SPECIFICATION FairSpec
CONSTANTS
  Leader = Leader
  Clients = {c1, c2}
  MaxChatSize = 2
  MaxFaults = 1
  MaxTyped = 0
  Patience = 1
  MaxRounds = 0
  ResendAfter = 1
  MaxLines = 1
  Quitters = {}
PROPERTY AddedBackIsShown
CHECK_DEADLOCK FALSE
