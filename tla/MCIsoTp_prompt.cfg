\* Everybody is quick, up to two frames are lost or requests ignored: the lengths
\* around every frame boundary.
SPECIFICATION Spec
CONSTANTS
  PadByte <- Pad
  NoiseFrames <- NoNoise
  FrameData = 2
  SnMod = 4
  CounterMod = 256
  MaxPayload = 4095
  Padded = TRUE
  NBs = 2
  NCr = 4
  WftMax = 1
  OverflowChecks = FALSE
  HostBs = 3
  HostStMin = 2
  RecvTimeout = 16
  MaxPending = 2
  EcuBs = 2
  EcuStMin = 0
  EcuFlows = {"cts"}
  RingCap = 8
  Prompt = TRUE
  Ops = {"request"}
  RequestLens = {1, 2, 3, 8, 12}
  AnswerLens = {1, 2, 3, 12, 14}
  FaultKinds = {"lose", "ignore"}
  MaxCalls = 2
  MaxPends = 2
  MaxFaults = 2
INVARIANTS
  TypeOK
  PromptCallsSucceed
  BlockHonoured
