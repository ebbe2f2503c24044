\* Two ECUs, late answers, storms and one failure of the cable.
SPECIFICATION Spec
CONSTANTS
  E1 = E1
  E2 = E2
  Ecus = {E1, E2}
  NoEcu = NoEcu
  Ids = {1, 2}
  Ops = {"read", "command", "quiet", "enumerate", "teardown", "request"}
  Pages <- MCPages
  Pendings = {0, 1}
  MaxPending = 1
  RingCap = 3
  Storms = TRUE
  MaxCalls = 2
  MaxFaults = 1
INVARIANTS
  TypeOK
  AnswersFit
  PunctualAnswers
PROPERTIES
  EveryCallReturns
CHECK_DEADLOCK FALSE
