\* An ECU that waits, refuses or falls silent, frames of every kind at any
\* time, a link that fails; a thread that keeps running.
SPECIFICATION FairSpec
CONSTANTS
  PadByte <- Pad
  NoiseFrames <- Strays
  FrameData = 2
  SnMod = 4
  CounterMod = 256
  MaxPayload = 4095
  Padded = TRUE
  NBs = 2
  NCr = 2
  WftMax = 1
  OverflowChecks = FALSE
  HostBs = 2
  HostStMin = 0
  RecvTimeout = 3
  MaxPending = 1
  EcuBs = 2
  EcuStMin = 241
  EcuFlows = {"cts", "wait", "ovflw"}
  RingCap = 2
  Prompt = FALSE
  Ops = {"send", "recv", "request"}
  RequestLens = {4}
  AnswerLens = {4}
  FaultKinds = {"noise", "lose", "repeat", "ignore", "link"}
  MaxCalls = 1
  MaxPends = 1
  MaxFaults = 2
INVARIANTS
  NoUnderflow
PROPERTIES
  EveryCallReturns
