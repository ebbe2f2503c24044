\* An ECU whose answer may come after the request has given up.
SPECIFICATION Spec
CONSTANTS
  Timeout = 2
  PendingReadTime = 3
  MaxPendingTime = 6
  FlushMax = 2
  RingCap = 3
  FirstGaps = {1, 3}
  Gaps = {1, 2}
  Pendings = {0}
  Storms = FALSE
  MaxRequests = 2
  MaxFaults = 0
INVARIANTS
  StragglersHarmless
