\* Two callers, two protocols, the idle poll between their requests; an answer
\* the host gives up on never comes.
SPECIFICATION Spec
CONSTANTS
  c1 = c1
  c2 = c2
  k1 = k1
  k2 = k2
  Callers = {c1, c2}
  Protos <- TwoProtos
  Keys = {k1, k2}
  NoKey = NoKey
  NoCaller = NoCaller
  Keepalive = TRUE
  MaxLate = 0
  MaxRequests = 3
  MaxMsgs = 2
SYMMETRY Symmetry
INVARIANTS
  TypeOK
  OneRequestEach
  KeysAgree
  TrackedHasOwner
  CloseMeansPortFree
  AnsweredNotLost
