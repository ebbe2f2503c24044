\* Calls on a bus at rest: frames are lost or repeated, others interfere, the
\* link fails, the ECU waits, refuses, is silent or answers late.
SPECIFICATION CalmSpec
CONSTANTS
  PadByte <- Pad
  NoiseFrames <- DatalessNoise
  FrameData = 2
  SnMod = 2
  CounterMod = 256
  MaxPayload = 14
  Padded = TRUE
  NBs = 1
  NCr = 1
  WftMax = 1
  OverflowChecks = FALSE
  HostBs = 0
  HostStMin = 0
  RecvTimeout = 2
  MaxPending = 0
  EcuBs = 2
  EcuStMin = 0
  EcuFlows = {"cts", "wait", "ovflw"}
  RingCap = 4
  Prompt = FALSE
  Ops = {"send", "recv", "request"}
  RequestLens = {0, 2, 6, 15}
  AnswerLens = {2, 6}
  FaultKinds = {"lose", "link", "noise", "ignore", "late", "repeat"}
  MaxCalls = 2
  MaxPends = 1
  MaxFaults = 2
INVARIANTS
  NoSplice
PROPERTIES
  ServiceSpec
CHECK_DEADLOCK FALSE
