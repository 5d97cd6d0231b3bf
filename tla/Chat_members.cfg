SPECIFICATION Spec
CONSTANTS
  Leader = Leader
  Clients = {c1, c2}
  MaxChatSize = 2
  MaxFaults = 1
  MaxTyped = 0
  Patience = 1
  MaxRounds = 0
  ResendAfter = 1
  MaxLines = 1
  Quitters = {}
INVARIANT NothingMissing
INVARIANT JoinerBeyondOwnNotice
INVARIANT ScreenInOrder
INVARIANT Agreement
INVARIANT ViewsAgree
INVARIANT NoLineForgotten
INVARIANT SendingIsHead
PROPERTY BroadcastReachesAllStaying
PROPERTY ImplementsTotalOrder
SYMMETRY ClientSymmetry
CHECK_DEADLOCK FALSE
