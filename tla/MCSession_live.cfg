\* Every call returns and the port is released, late answers and a hung adapter included.
SPECIFICATION FairSpec
CONSTANTS
  c1 = c1
  c2 = c2
  k1 = k1
  k2 = k2
  Callers = {c1, c2}
  Protos <- OneProto
  Keys = {k1}
  NoKey = NoKey
  NoCaller = NoCaller
  Keepalive = TRUE
  MaxLate = 1
  MaxRequests = 2
  MaxMsgs = 0
PROPERTIES
  ServiceSpec
  EveryCallReturns
  PortIsReleased
  NeverToggledOff
