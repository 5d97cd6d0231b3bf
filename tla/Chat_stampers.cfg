SPECIFICATION Spec
CONSTANTS
  Leader = Leader
  Clients = {c1}
  MaxChatSize = 2
  MaxFaults = 0
  MaxTyped = 1
  Patience = 0
  MaxRounds = 1
  ResendAfter = 1
  MaxLines = 1
  Quitters = {c1}
INVARIANT TypeOK
INVARIANT Numbered
INVARIANT StampNotAhead
INVARIANT LeaderShowsOrder
INVARIANT CastIsHead
CHECK_DEADLOCK FALSE
