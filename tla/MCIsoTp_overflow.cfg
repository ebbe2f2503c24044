\* A transfer of 257 consecutive frames without blocks, in a build with overflow checks.
SPECIFICATION Spec
CONSTANTS
  PadByte <- Pad
  NoiseFrames <- NoNoise
  FrameData = 7
  SnMod = 16
  CounterMod = 256
  MaxPayload = 4095
  Padded = TRUE
  NBs = 2
  NCr = 2
  WftMax = 1
  OverflowChecks = TRUE
  HostBs = 0
  HostStMin = 0
  RecvTimeout = 3
  MaxPending = 1
  EcuBs = 0
  EcuStMin = 0
  EcuFlows = {"cts"}
  RingCap = 2
  Prompt = TRUE
  Ops = {"request"}
  RequestLens = {1805}
  AnswerLens = {1}
  FaultKinds = {}
  MaxCalls = 1
  MaxPends = 0
  MaxFaults = 0
INVARIANTS
  NeverPanics
