SPECIFICATION Spec
CONSTANTS
  Leader = Leader
  Clients = {c1, c2}
  c1 = c1
  c2 = c2
  NumTimesTracked = 2
  SlowFactor = 3
  ResendAfter = 0
  Bounds <- MCBounds
INVARIANT TypeOK
INVARIANT PlainOnlyOnScreens
INVARIANT NoticeOvertakenOnce
INVARIANT EachQueueInOrder
INVARIANT ScreenByNumber
INVARIANT SlowFitsTimes
INVARIANT PaysForOwnLines
INVARIANT PaceAgreed
INVARIANT WaitedLinesSpaced
CHECK_DEADLOCK FALSE
