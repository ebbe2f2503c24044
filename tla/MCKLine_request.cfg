\* An ECU that is punctual, silent or storms for ever, and a cable that fails.
SPECIFICATION FairSpec
CONSTANTS
  Timeout = 2
  PendingReadTime = 3
  MaxPendingTime = 8
  FlushMax = 2
  RingCap = 3
  FirstGaps = {1}
  Gaps = {1, 2}
  Pendings = {0, 1, 3}
  Storms = TRUE
  MaxRequests = 3
  MaxFaults = 2
INVARIANTS
  TypeOK
  AnswersOwn
  ReadyForNext
PROPERTIES
  EveryRequestReturns
