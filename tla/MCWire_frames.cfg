\* Every transport, replies that are late, cut or never come.
SPECIFICATION Spec
CONSTANTS
  StackBytes = 4
  MsgLens = {3}
  Backends = {"serial", "usb", "jni"}
  Ops = {"command", "poll", "challenge", "value", "init", "version"}
  MaxPacket = 4
  Scratch = 3
  MaxTransfer = 3
  MaxFrame = 5
  Lengths = {2, 3, 5, 6}
  MaxExchanges = 2
  MaxFaults = 2
INVARIANTS
  TypeOK
  StreamKept
  Resynchronised
  StackNeverGiven
CHECK_DEADLOCK FALSE
