\* Two clients, calls given up, connections that end at any time, a stop.
SPECIFICATION FairSpec
CONSTANTS
  c1 = c1
  c2 = c2
  Clients <- TwoClients
  NoClient = NoClient
  MaxCalls = 2
  MaxLate = 1
INVARIANTS
  TypeOK
  OneOwner
  OnceInOrder
  AnswersTruthful
PROPERTIES
  StopEnds
CHECK_DEADLOCK FALSE
