\* Two threads, one adapter, two slots; one exchange may fail.
SPECIFICATION Spec
SYMMETRY Symmetry
CONSTANTS
  t1 = t1
  t2 = t2
  p1 = p1
  can = can
  iso = iso
  Threads = {t1, t2}
  NoThread = NoThread
  Ports = {p1}
  Protos = {can, iso}
  Can = can
  None = None
  HostIsoTp = HostIsoTp
  MaxSlots = 2
  HandleSpan = 2
  MayPanic = TRUE
  MaxStarts = 2
  MaxFaults = 1
  MaxWanted = 2
INVARIANTS
  TypeOK
  ChannelsTracked
  FiltersCounted
  SlotsOwnSessions
  SectionsKeepTheirSlot
PROPERTIES
  ServiceSpec
