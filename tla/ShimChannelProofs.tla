------------------------- MODULE ShimChannelProofs -------------------------
(***************************************************************************)
(* What the mutex of rmvci-j2534 protects, for any threads, slots, ports,  *)
(* protocols and bounds: a section keeps the slot it found, a slot owns    *)
(* its session, and no channel of an adapter is forgotten.                 *)
(***************************************************************************)
EXTENDS ShimProofs, FiniteSetTheorems

-----------------------------------------------------------------------------
(* The inductive invariant.                                                *)

\* A session the actor has given up is one of which an exchange failed.
WedgedFaulted == \A p \in Ports : wedged[p] => faulted[p]

Inv == Typed /\ SectionsKeepTheirSlot /\ SlotsOwnSessions /\ ChannelsTracked /\ WedgedFaulted

\* A step that neither opens nor closes, connects nor disconnects.
SameChannels ==
  /\ UNCHANGED sess
  /\ \A s \in Slots : /\ slots'[s].device = slots[s].device
                      /\ slots'[s].chan = slots[s].chan /\ slots'[s].host = slots[s].host

SameAdapters == \A p \in Ports : adapter'[p].on = adapter[p].on

\* What a step may do to the record of failures.
WireStep == WedgedFaulted' /\ \A p \in Ports : ~faulted'[p] => ~faulted[p]

Quiet == SameChannels /\ SameAdapters /\ WireStep

LEMMA QuietOwns ==
  ASSUME SlotsOwnSessions, SameChannels
  PROVE  SlotsOwnSessions'
  BY DEF SlotsOwnSessions, SameChannels, Wire

LEMMA QuietTracks ==
  ASSUME ChannelsTracked, Quiet
  PROVE  ChannelsTracked'
  <1> SUFFICES ASSUME NEW p \in Ports, ~faulted'[p] PROVE adapter'[p].on = Owned(p)'
    BY DEF ChannelsTracked
  <1>1. \A s \in Slots : Wire(s)' = Wire(s) /\ slots'[s].device = slots[s].device
    BY DEF Quiet, SameChannels, Wire
  <1>2. Owned(p)' = Owned(p)
    BY <1>1 DEF Owned
  <1>3. ~faulted[p] /\ adapter'[p].on = adapter[p].on
    BY DEF Quiet, WireStep, SameAdapters
  <1> QED BY <1>2, <1>3 DEF ChannelsTracked

LEMMA QuietWire == ASSUME WedgedFaulted, UNCHANGED wireVars PROVE WireStep
  BY DEF WedgedFaulted, wireVars, WireStep

\* An exchange that leaves its session without a failure was answered.
LEMMA ExchangeWire ==
  ASSUME Typed, WedgedFaulted, NEW p \in Ports, NEW o, Exchange(p, o)
  PROVE  WireStep /\ (~faulted'[p] => o \in {"ok", "rejected"})
  <1>1. CASE o = "wedged" /\ wedged[p] /\ UNCHANGED wireVars
    BY <1>1, QuietWire DEF WedgedFaulted, wireVars
  <1>2. CASE o \in {"ok", "rejected"} /\ UNCHANGED wireVars
    BY <1>2, QuietWire
  <1>3. CASE /\ faulted' = [faulted EXCEPT ![p] = TRUE]
             /\ \E verdict \in BOOLEAN : wedged' = [wedged EXCEPT ![p] = verdict]
    <2>1. PICK verdict \in BOOLEAN : wedged' = [wedged EXCEPT ![p] = verdict]
      BY <1>3
    <2>2. faulted \in [Ports -> BOOLEAN] /\ wedged \in [Ports -> BOOLEAN]
      BY DEF Typed, WireTyped
    <2>3. faulted'[p]
      BY <1>3, <2>2, Zenon
    <2>4. \A q \in Ports \ {p} : (faulted'[q] <=> faulted[q]) /\ (wedged'[q] <=> wedged[q])
      BY <1>3, <2>1, <2>2, Zenon
    <2> QED BY <2>3, <2>4 DEF WedgedFaulted, WireStep
  <1> QED BY <1>1, <1>2, <1>3 DEF Exchange

\* An effect on the adapter at one port.
LEMMA EffectOn ==
  ASSUME Typed, NEW p \in Ports, NEW o, NEW after, Effect(p, o, after)
  PROVE  /\ adapter'[p] = IF Done(o) THEN after ELSE adapter[p]
         /\ \A q \in Ports \ {p} : adapter'[q] = adapter[q]
  BY DEF Effect, Typed, AdapterTyped

LEMMA FiltersOnly ==
  ASSUME NEW a \in AdapterType, NEW x, NEW id
  PROVE  Add(a, x, id).on = a.on /\ Remove(a, x, id).on = a.on
  BY DEF Add, Remove, AdapterType

LEMMA FilterEffect ==
  ASSUME Typed, NEW p \in Ports, NEW o, NEW x, NEW id,
         Effect(p, o, Add(adapter[p], x, id)) \/ Effect(p, o, Remove(adapter[p], x, id))
  PROVE  SameAdapters
  <1>1. adapter[p] \in AdapterType
    BY DEF Typed, AdapterTyped
  <1> QED BY <1>1, EffectOn, FiltersOnly DEF SameAdapters

-----------------------------------------------------------------------------
(* The mutex.                                                              *)

\* While t holds the mutex, or nobody does, no other thread is in a section.
LEMMA Alone ==
  ASSUME NEW t \in Threads, SectionsKeepTheirSlot,
         holder = NoThread \/ call[t].phase \in Sections
  PROVE  \A u \in Threads \ {t} : call[u].phase \notin Sections
  BY Constants DEF SectionsKeepTheirSlot

\* A thread that holds the mutex has a session.
LEMMA SectionDevice ==
  ASSUME NEW t \in Threads, Inv, call[t].phase \in Sections
  PROVE  /\ call[t].slot \in Slots /\ slots[call[t].slot].device \in Ports
         /\ slots[call[t].slot] \in SlotType
  <1>1. call[t].phase # "idle"
    BY DEF Sections
  <1> QED BY <1>1, SlotOf DEF Inv, SectionsKeepTheirSlot, SlotType

LEMMA LeaveKeeps ==
  ASSUME NEW t \in Threads, NEW code \in Codes, NEW changed, Inv, Typed',
         Leave(t, code, changed), holder = NoThread \/ call[t].phase \in Sections
  PROVE  SectionsKeepTheirSlot'
  <1>1. Others(t) /\ call'[t].phase = "idle"
    <2>1. poisoned' \in BOOLEAN
      BY DEF Typed, CallsTyped
    <2> QED BY <2>1, LeaveFacts DEF Inv, Typed
  <1>2. \A u \in Threads : call'[u].phase \notin Sections
    BY <1>1, Alone DEF Others, Inv, Sections
  <1> QED BY <1>2 DEF SectionsKeepTheirSlot

\* t enters a section with a slot that fits it.
LEMMA EnterKeeps ==
  ASSUME NEW t \in Threads, NEW s, NEW phase, Inv,
         Others(t), call'[t].phase = phase, call'[t].slot = s, holder' = t,
         holder = NoThread \/ call[t].phase \in Sections,
         slots'[s].device # None,
         phase \in {"host", "install"} => slots'[s].host,
         phase = "chan" => slots'[s].chan # None,
         phase = "more" => Wire(s)' # None,
         phase = "connect" => Wire(s)' = None
  PROVE  SectionsKeepTheirSlot'
  <1>1. \A u \in Threads \ {t} : call'[u].phase \notin Sections
    BY Alone DEF Others, Inv
  <1> QED BY <1>1 DEF SectionsKeepTheirSlot

\* Nobody enters or leaves a section, and the table keeps its channels.
LEMMA OutsideKeeps ==
  ASSUME NEW t \in Threads, Inv, Others(t), call'[t].phase \notin Sections,
         call[t].phase \notin Sections, UNCHANGED <<holder, slots>>
  PROVE  SectionsKeepTheirSlot'
  BY DEF Others, Inv, SectionsKeepTheirSlot, Wire

-----------------------------------------------------------------------------
(* Steps that keep the channels as they are.                               *)

\* One exchange of a section, with no change to the table or the adapters.
LEMMA ExchangeQuiet ==
  ASSUME NEW t \in Threads, Inv, call[t].phase \in Sections, NEW o,
         Exchange(slots[call[t].slot].device, o)
  PROVE  WireStep
  BY SectionDevice, ExchangeWire DEF Inv

LEMMA SameTable ==
  ASSUME UNCHANGED <<slots, sess, adapter>>
  PROVE  SameChannels /\ SameAdapters
  BY DEF SameChannels, SameAdapters

LEMMA SessionQuiet ==
  ASSUME NEW t \in Threads, Inv, Answers(t) \/ TakeMessage(t)
  PROVE  Quiet
  <1>1. UNCHANGED <<slots, sess, adapter>>
    BY AnswersFacts DEF TakeMessage, Inv
  <1>2. CASE UNCHANGED wireVars
    BY <1>1, <1>2, SameTable, QuietWire DEF Quiet, Inv
  <1>3. CASE slots[call[t].slot].device \in Ports
    <2>1. UNCHANGED wireVars \/ \E o : Exchange(slots[call[t].slot].device, o)
      BY AnswersFacts DEF TakeMessage, Inv
    <2>2. WireStep
      BY <1>3, <2>1, ExchangeWire, QuietWire DEF Inv
    <2> QED BY <1>1, <2>2, SameTable DEF Quiet
  <1>4. CASE call[t].phase \in Sections
    BY <1>3, <1>4, SectionDevice
  <1>5. CASE DeviceCommand(t)
    <2>1. call[t].phase # "idle"
      BY <1>5 DEF DeviceCommand, Locks
    <2>2. slots[call[t].slot].device \in Ports \cup {None}
      BY <2>1, SlotOf DEF Inv, SlotType
    <2>3. slots[call[t].slot].device = None => UNCHANGED wireVars
      BY <1>5 DEF DeviceCommand
    <2> QED BY <1>2, <1>3, <2>2, <2>3
  <1>6. CASE Answers(t) /\ ~DeviceCommand(t)
    <2>1. call[t].phase \in Sections
      BY <1>6 DEF Answers, WriteMessages, Ioctl, InitFails, BadMessage, ReadEnds, ReadFails,
                  Panic, Holds, Reads, Sections
    <2> QED BY <2>1, <1>4
  <1>7. CASE TakeMessage(t)
    <2>1. call[t].phase \in Sections
      BY <1>7 DEF TakeMessage, Reads, Sections
    <2> QED BY <2>1, <1>4
  <1> QED BY <1>5, <1>6, <1>7

LEMMA WaitQuiet ==
  ASSUME NEW t \in Threads, Inv,
         \/ Call(t) \/ BadParameter(t) \/ FindPoison(t) \/ LookForHost(t) \/ LookForChannel(t)
  PROVE  Quiet
  <1>1. UNCHANGED <<slots, sess, adapter>> /\ UNCHANGED wireVars
    BY DEF Call, BadParameter, FindPoison, LookForHost, LookForChannel
  <1> QED BY <1>1, SameTable, QuietWire DEF Quiet, Inv

LEMMA FilterQuiet ==
  ASSUME NEW t \in Threads, Inv,
         \/ RetireFilter(t) \/ InstallFilter(t) \/ StartFilter(t) \/ StopFilter(t)
         \/ StartPeriodic(t)
  PROVE  Quiet
  <1> DEFINE s == call[t].slot
             p == slots[s].device
  <1>1. call[t].phase \in Sections /\ UNCHANGED sess
    BY DEF RetireFilter, InstallFilter, StartFilter, StopFilter, StartPeriodic, Holds, Sections
  <1>2. s \in Slots /\ p \in Ports /\ slots[s] \in SlotType /\ Typed
    BY <1>1, SectionDevice DEF Inv
  <1>3. CASE RetireFilter(t)
    <2>1. PICK o \in Outcomes :
            /\ Exchange(p, o) /\ Effect(p, o, Remove(adapter[p], Can, slots[s].current))
            /\ slots' = [slots EXCEPT ![s].current = None, ![s].nfilters = Fewer(o, @)]
      BY <1>3 DEF RetireFilter
    <2>2. SameChannels
      BY <1>1, <1>2, <2>1 DEF SameChannels, Typed, SlotsTyped, SlotType
    <2> QED BY <1>1, <1>2, <2>1, <2>2, ExchangeQuiet, FilterEffect DEF Quiet
  <1>4. CASE InstallFilter(t)
    <2>1. PICK o \in Outcomes :
            /\ Exchange(p, o) /\ Effect(p, o, Add(adapter[p], Can, slots[s].nextFilter))
            /\ slots' = [slots EXCEPT ![s].nextFilter = @ + 1, ![s].nfilters = More(o, @),
                            ![s].current = IF o = "ok" THEN slots[s].nextFilter ELSE @]
      BY <1>4 DEF InstallFilter
    <2>2. SameChannels
      BY <1>1, <1>2, <2>1 DEF SameChannels, Typed, SlotsTyped, SlotType
    <2> QED BY <1>1, <1>2, <2>1, <2>2, ExchangeQuiet, FilterEffect DEF Quiet
  <1>5. CASE StartFilter(t)
    <2>1. PICK o \in Outcomes :
            /\ Exchange(p, o)
            /\ Effect(p, o, Add(adapter[p], slots[s].chan, Handle(slots[s].nextId)))
            /\ slots' = [slots EXCEPT ![s].nextId = @ + 1, ![s].nfilters = More(o, @)]
      BY <1>5 DEF StartFilter
    <2>2. SameChannels
      BY <1>1, <1>2, <2>1 DEF SameChannels, Typed, SlotsTyped, SlotType
    <2> QED BY <1>1, <1>2, <2>1, <2>2, ExchangeQuiet, FilterEffect DEF Quiet
  <1>6. CASE StopFilter(t)
    <2>1. CASE UNCHANGED <<slots, adapter, wireVars>>
      <3>1. SameChannels /\ SameAdapters
        BY <1>1, <2>1, SameTable
      <3> QED BY <2>1, <3>1, QuietWire DEF Quiet, Inv
    <2>2. CASE \E o \in Outcomes :
                 /\ Exchange(p, o)
                 /\ Effect(p, o, Remove(adapter[p], slots[s].chan, call[t].arg))
                 /\ slots' = [slots EXCEPT ![s].nfilters = Fewer(o, @)]
      <3>1. PICK o \in Outcomes :
              /\ Exchange(p, o)
              /\ Effect(p, o, Remove(adapter[p], slots[s].chan, call[t].arg))
              /\ slots' = [slots EXCEPT ![s].nfilters = Fewer(o, @)]
        BY <2>2
      <3>2. SameChannels
        BY <1>1, <1>2, <3>1 DEF SameChannels, Typed, SlotsTyped, SlotType
      <3> QED BY <1>1, <1>2, <3>1, <3>2, ExchangeQuiet, FilterEffect DEF Quiet
    <2> QED BY <1>6, <2>1, <2>2 DEF StopFilter
  <1>7. CASE StartPeriodic(t)
    <2>1. SameChannels /\ SameAdapters
      BY <1>1, <1>2, <1>7 DEF StartPeriodic, SameAdapters, SameChannels, Typed, SlotsTyped, SlotType
    <2>2. WireStep
      BY <1>1, <1>7, ExchangeQuiet DEF StartPeriodic
    <2> QED BY <2>1, <2>2 DEF Quiet
  <1> QED BY <1>3, <1>4, <1>5, <1>6, <1>7

\* The sections after such a step.
LEMMA AnswerKeeps ==
  ASSUME NEW t \in Threads, Inv, Typed', Answers(t) \/ FindPoison(t)
  PROVE  SectionsKeepTheirSlot'
  <1>1. CASE FindPoison(t)
    <2>1. Leave(t, "Failed", {}) /\ "Failed" \in Codes /\ holder = NoThread
      BY <1>1 DEF FindPoison, Return, Codes
    <2> QED BY <2>1, LeaveKeeps
  <1>2. CASE Answers(t)
    <2>1. PICK code \in Codes : Leave(t, code, {})
      BY <1>2, AnswersFacts DEF Return, Inv
    <2>2. holder = NoThread \/ call[t].phase \in Sections
      BY <1>2 DEF Answers, DeviceCommand, WriteMessages, Ioctl, InitFails, BadMessage, ReadEnds,
                  ReadFails, Panic, Holds, Reads, Locks, Sections
    <2> QED BY <2>1, <2>2, LeaveKeeps
  <1> QED BY <1>1, <1>2

LEMMA FilterKeeps ==
  ASSUME NEW t \in Threads, Inv, Typed',
         InstallFilter(t) \/ StartFilter(t) \/ StopFilter(t) \/ StartPeriodic(t)
  PROVE  SectionsKeepTheirSlot'
  <1>1. call[t].phase \in Sections
    BY DEF InstallFilter, StartFilter, StopFilter, StartPeriodic, Holds, Sections
  <1>2. PICK code \in Codes : Leave(t, code, {})
    BY CodeTyped DEF InstallFilter, StartFilter, StopFilter, StartPeriodic, Return, Codes
  <1> QED BY <1>1, <1>2, LeaveKeeps

LEMMA RetireKeeps ==
  ASSUME NEW t \in Threads, Inv, RetireFilter(t)
  PROVE  SectionsKeepTheirSlot'
  <1>1. /\ call[t].phase = "host" /\ call[t].phase \in Sections /\ Enter(t, "install")
        /\ "install" \in Waiting \cup Sections
    BY DEF RetireFilter, Holds, Sections
  <1>2. poisoned' \in BOOLEAN
    BY DEF RetireFilter, Inv, Typed, CallsTyped
  <1>3. /\ Others(t) /\ call'[t].phase = "install" /\ call'[t].slot = call[t].slot
        /\ holder' = t
    BY <1>1, <1>2, EnterFacts DEF Inv, Typed, Sections
  <1>4. SameChannels /\ call[t].slot \in Slots
    BY <1>1, FilterQuiet, SectionDevice DEF Quiet
  <1>5. slots[call[t].slot].host /\ slots[call[t].slot].device # None
    BY <1>1 DEF Inv, SectionsKeepTheirSlot
  <1>6. slots'[call[t].slot].host /\ slots'[call[t].slot].device # None
    BY <1>4, <1>5 DEF SameChannels
  <1> QED BY <1>1, <1>3, <1>6, EnterKeeps

LEMMA TakeKeeps ==
  ASSUME NEW t \in Threads, Inv, Typed', TakeMessage(t)
  PROVE  SectionsKeepTheirSlot'
  <1>0. PICK s : s = call[t].slot
    OBVIOUS
  <1>1. call[t].phase \in {"host", "chan", "more"} /\ call[t].phase \in Sections
    BY DEF TakeMessage, Reads, Sections
  <1>2. CASE \E code \in Codes : Return(t, code)
    BY <1>1, <1>2, LeaveKeeps DEF Return
  <1>3. CASE /\ call' = [call EXCEPT ![t].phase = "more", ![t].arg = @ - 1]
             /\ UNCHANGED <<holder, result>>
    <2>1. call[t] \in CallType /\ call \in [Threads -> CallType]
      BY DEF Inv, Typed, CallsTyped
    <2>2. /\ call'[t].phase = "more" /\ call'[t].slot = s
          /\ \A u \in Threads \ {t} : call'[u] = call[u]
      BY <1>0, <1>3, <2>1 DEF CallType
    <2>3. Others(t)
      BY <2>2 DEF Others
    <2>4. holder' = t /\ slots[s].device # None /\ Wire(s) # None
      BY <1>0, <1>1, <1>3, Constants DEF Inv, SectionsKeepTheirSlot, Wire
    <2>5. UNCHANGED slots
      BY DEF TakeMessage
    <2>6. slots'[s].device # None /\ Wire(s)' # None
      BY <2>4, <2>5 DEF Wire
    <2> QED BY <1>1, <2>2, <2>3, <2>4, <2>6, EnterKeeps
  <1>4. "Ok" \in Codes /\ "Error" \in Codes
    BY DEF Codes
  <1> QED BY <1>2, <1>3, <1>4 DEF TakeMessage

LEMMA LookKeeps ==
  ASSUME NEW t \in Threads, Inv, Typed', LookForHost(t) \/ LookForChannel(t)
  PROVE  SectionsKeepTheirSlot'
  <1> DEFINE s == call[t].slot
  <1>1. /\ holder = NoThread /\ call[t].phase \notin Sections /\ call[t].phase # "idle"
        /\ UNCHANGED <<slots, poisoned>>
    BY DEF LookForHost, LookForChannel, Locks, Sections
  <1>2. s \in Slots /\ poisoned' \in BOOLEAN
    BY <1>1, SlotOf DEF Inv, Typed, CallsTyped
  <1>3. CASE Enter(t, "lock")
    <2>1. Others(t) /\ call'[t].phase = "lock" /\ UNCHANGED <<holder, slots>>
      BY <1>1, <1>2, <1>3, EnterFacts DEF Inv, Typed, Waiting, Sections
    <2> QED BY <1>1, <2>1, OutsideKeeps DEF Sections
  <1>4. CASE Enter(t, "host") /\ slots[s].host
    <2>1. Others(t) /\ call'[t].phase = "host" /\ call'[t].slot = s /\ holder' = t
      BY <1>2, <1>4, EnterFacts DEF Inv, Typed, Sections
    <2>2. slots[s].device # None
      BY <1>2, <1>4, Constants DEF Inv, SlotsOwnSessions, Wire
    <2> QED BY <1>1, <1>4, <2>1, <2>2, EnterKeeps
  <1>5. CASE Enter(t, "chan") /\ slots[s].chan # None
    <2>1. Others(t) /\ call'[t].phase = "chan" /\ call'[t].slot = s /\ holder' = t
      BY <1>2, <1>5, EnterFacts DEF Inv, Typed, Sections
    <2>2. slots[s].device # None
      BY <1>2, <1>5 DEF Inv, SlotsOwnSessions, Wire
    <2> QED BY <1>1, <1>5, <2>1, <2>2, EnterKeeps
  <1>6. CASE Return(t, "InvalidChannel")
    BY <1>1, <1>6, LeaveKeeps DEF Return, Codes
  <1>7. CASE LookForHost(t)
    BY <1>3, <1>4, <1>7 DEF LookForHost
  <1>8. CASE LookForChannel(t)
    BY <1>5, <1>6, <1>8 DEF LookForChannel
  <1> QED BY <1>7, <1>8

LEMMA BeginKeeps ==
  ASSUME NEW t \in Threads, Inv, Call(t) \/ BadParameter(t)
  PROVE  SectionsKeepTheirSlot'
  <1>1. UNCHANGED <<holder, slots>> /\ call[t].phase \notin Sections
    BY DEF Call, BadParameter, Sections
  <1>2. PICK new : /\ call' = [call EXCEPT ![t] = new]
                   /\ new.phase \in {"idle", "look", "lock"}
    BY DEF Call, BadParameter, Idle
  <1>3. Others(t) /\ call'[t].phase \notin Sections
    BY <1>2 DEF Inv, Typed, CallsTyped, Others, Sections
  <1> QED BY <1>1, <1>3, OutsideKeeps

-----------------------------------------------------------------------------
(* Steps that open, close, connect and disconnect.                         *)

LEMMA ChannelActionKeeps ==
  ASSUME NEW t \in Threads, Inv, Typed',
         Open(t) \/ Close(t) \/ Disconnect(t) \/ Connect(t)
  PROVE  SectionsKeepTheirSlot'
  <1>1. holder = NoThread \/ call[t].phase \in Sections
    BY DEF Open, Close, Disconnect, Connect, Locks, Sections
  <1>2. PICK code \in Codes : \E changed : Leave(t, code, changed)
    BY CodeTyped DEF Open, Close, Disconnect, Connect, Return, Codes
  <1>3. PICK changed : Leave(t, code, changed)
    BY <1>2
  <1> QED BY <1>1, <1>3, LeaveKeeps

LEMMA ConnectDropsKeeps ==
  ASSUME NEW t \in Threads, Inv, Typed', ConnectDrops(t)
  PROVE  SectionsKeepTheirSlot'
  <1>0. PICK s : s = call[t].slot
    OBVIOUS
  <1>1. holder = NoThread /\ call[t].phase # "idle"
    BY DEF ConnectDrops, Locks
  <1>2. CASE slots[s].device = None
    BY <1>0, <1>1, <1>2, LeaveKeeps DEF ConnectDrops, Return, Codes
  <1>3. CASE slots[s].device # None
    <2>1. s \in Slots /\ slots[s] \in SlotType /\ slots \in [Slots -> SlotType]
      BY <1>0, <1>1, SlotOf DEF Inv, Typed, SlotsTyped
    <2>2. slots' = WithoutChannel(s)
      BY <1>0, <1>3 DEF ConnectDrops
    <2>3. slots'[s].device = slots[s].device /\ Wire(s)' = None
      BY <2>1, <2>2 DEF WithoutChannel, SlotType, Wire
    <2>4. call[t] \in CallType /\ call \in [Threads -> CallType]
      BY DEF Inv, Typed, CallsTyped
    <2>5. /\ call' = [call EXCEPT ![t].phase = "connect", ![t].was = Kind(s)]
          /\ holder' = t
      BY <1>0, <1>3 DEF ConnectDrops
    <2>6. /\ call'[t].phase = "connect" /\ call'[t].slot = s
          /\ \A u \in Threads \ {t} : call'[u] = call[u]
      BY <1>0, <2>4, <2>5 DEF CallType
    <2>7. Others(t)
      BY <2>6 DEF Others
    <2> QED BY <1>1, <1>3, <2>3, <2>5, <2>6, <2>7, EnterKeeps
  <1> QED BY <1>2, <1>3

\* The table changes at slot s alone.
OtherSlots(s) == \A r \in Slots \ {s} : slots'[r] = slots[r]

LEMMA OwnedElsewhere ==
  ASSUME NEW s \in Slots, NEW q, OtherSlots(s), slots[s].device # q, slots'[s].device # q
  PROVE  Owned(q)' = Owned(q)
  BY DEF Owned, OtherSlots, Wire

LEMMA OwnedHere ==
  ASSUME NEW s \in Slots, NEW p \in Ports, SlotsOwnSessions, slots[s].device = p
  PROVE  Owned(p) = {Wire(s)} \ {None}
  <1>1. {r \in Slots : slots[r].device = p} = {s}
    BY Constants DEF SlotsOwnSessions
  <1> QED BY <1>1 DEF Owned

LEMMA OwnedHereNext ==
  ASSUME NEW s \in Slots, NEW p \in Ports, SlotsOwnSessions', slots'[s].device = p
  PROVE  Owned(p)' = {Wire(s)'} \ {None}
  <1>1. {r \in Slots : slots'[r].device = p} = {s}
    BY Constants DEF SlotsOwnSessions
  <1> QED BY <1>1 DEF Owned

LEMMA OneAdapter ==
  ASSUME Inv, NEW s \in Slots, NEW p \in Ports, OtherSlots(s),
         slots[s].device \in {p, None}, slots'[s].device \in {p, None},
         \A q \in Ports \ {p} : adapter'[q] = adapter[q] /\ (~faulted'[q] => ~faulted[q]),
         ~faulted'[p] => adapter'[p].on = Owned(p)'
  PROVE  ChannelsTracked'
  <1> SUFFICES ASSUME NEW q \in Ports \ {p}, ~faulted'[q]
               PROVE  adapter'[q].on = Owned(q)'
    BY DEF ChannelsTracked
  <1>1. Owned(q)' = Owned(q)
    BY Constants, OwnedElsewhere
  <1> QED BY <1>1 DEF Inv, ChannelsTracked

\* RawChannel::drop leaves nothing on the adapter of an answered session.
LEMMA DropLeavesNothing ==
  ASSUME Inv, NEW s \in Slots, NEW p \in Ports, slots[s].device = p, DropChannel(s)
  PROVE  /\ WireStep
         /\ \A q \in Ports \ {p} : adapter'[q] = adapter[q]
         /\ ~faulted'[p] => adapter'[p].on = {}
  <1>1. ~faulted[p] => adapter[p].on = {Wire(s)} \ {None}
    BY OwnedHere DEF Inv, ChannelsTracked
  <1>2. CASE Wire(s) = None
    <2>1. UNCHANGED <<adapter, wireVars>>
      BY <1>2 DEF DropChannel
    <2>2. WireStep
      BY <2>1, QuietWire DEF Inv
    <2> QED BY <1>1, <1>2, <2>1, <2>2 DEF WireStep
  <1>3. CASE Wire(s) # None
    <2>1. PICK o \in Outcomes \ {"rejected"} :
            Exchange(p, o) /\ Effect(p, o, Off(adapter[p], Wire(s)))
      BY <1>3 DEF DropChannel
    <2>2. WireStep /\ (~faulted'[p] => o = "ok")
      BY <2>1, ExchangeWire DEF Inv
    <2>3. adapter[p] \in AdapterType
      BY DEF Inv, Typed, AdapterTyped
    <2>4. Off(adapter[p], Wire(s)).on = adapter[p].on \ {Wire(s)}
      BY <2>3 DEF Off, AdapterType
    <2>5. /\ \A q \in Ports \ {p} : adapter'[q] = adapter[q]
          /\ o = "ok" => adapter'[p].on = adapter[p].on \ {Wire(s)}
      BY <2>1, <2>4, EffectOn DEF Inv, Done
    <2>6. ~faulted'[p] => ~faulted[p]
      BY <2>2 DEF WireStep
    <2> QED BY <1>1, <2>2, <2>5, <2>6
  <1> QED BY <1>2, <1>3

Channels == SlotsOwnSessions /\ ChannelsTracked /\ WedgedFaulted

LEMMA QuietChannels ==
  ASSUME Inv, Quiet
  PROVE  Channels'
  BY QuietOwns, QuietTracks DEF Inv, Quiet, Channels, WireStep

\* A channel that is dropped while its slot keeps the session.
LEMMA DropChannels ==
  ASSUME Inv, NEW s \in Slots, NEW p \in Ports, slots[s].device = p, DropChannel(s),
         slots' = WithoutChannel(s), UNCHANGED sess
  PROVE  Channels'
  <1>1. slots \in [Slots -> SlotType]
    BY DEF Inv, Typed, SlotsTyped
  <1>2. /\ slots'[s].device = p /\ slots'[s].chan = None /\ slots'[s].host = FALSE
        /\ OtherSlots(s)
    BY <1>1 DEF WithoutChannel, SlotType, OtherSlots
  <1>3. Wire(s)' = None
    BY <1>2 DEF Wire
  <1>4. SlotsOwnSessions'
    BY <1>2, <1>3 DEF OtherSlots, SlotsOwnSessions, Inv, Wire
  <1>5. Owned(p)' = {}
    BY <1>2, <1>3, <1>4, OwnedHereNext
  <1>6. ChannelsTracked'
    <2>1. /\ WireStep /\ \A q \in Ports \ {p} : adapter'[q] = adapter[q]
          /\ ~faulted'[p] => adapter'[p].on = {}
      BY DropLeavesNothing
    <2>2. \A q \in Ports \ {p} : adapter'[q] = adapter[q] /\ (~faulted'[q] => ~faulted[q])
      BY <2>1 DEF WireStep
    <2>3. slots[s].device \in {p, None} /\ slots'[s].device \in {p, None} /\ OtherSlots(s)
      BY <1>2
    <2>4. ~faulted'[p] => adapter'[p].on = Owned(p)'
      BY <1>5, <2>1
    <2> QED BY <2>2, <2>3, <2>4, OneAdapter
  <1> QED BY <1>4, <1>6, DropLeavesNothing DEF Channels, WireStep

LEMMA ConnectDropsChannels ==
  ASSUME NEW t \in Threads, Inv, ConnectDrops(t) \/ Disconnect(t)
  PROVE  Channels'
  <1>0. PICK s : s = call[t].slot
    OBVIOUS
  <1>1. call[t].phase # "idle" /\ UNCHANGED sess
    BY DEF ConnectDrops, Disconnect, Locks
  <1>2. s \in Slots /\ slots[s].device \in Ports \cup {None}
    BY <1>0, <1>1, SlotOf DEF Inv, SlotType
  <1>3. CASE UNCHANGED <<slots, adapter, wireVars>>
    <2>1. SameChannels /\ SameAdapters /\ WireStep
      BY <1>1, <1>3, SameTable, QuietWire DEF Inv
    <2> QED BY <2>1, QuietChannels DEF Quiet
  <1>4. CASE DropChannel(s) /\ slots' = WithoutChannel(s) /\ slots[s].device # None
    BY <1>1, <1>2, <1>4, DropChannels
  <1>5. CASE ConnectDrops(t)
    BY <1>0, <1>3, <1>4, <1>5 DEF ConnectDrops
  <1>6. CASE Disconnect(t)
    <2>1. Wire(s) # None => slots[s].device # None
      BY <1>2 DEF Inv, SlotsOwnSessions
    <2> QED BY <1>0, <1>3, <1>4, <1>6, <2>1 DEF Disconnect
  <1> QED BY <1>5, <1>6

LEMMA ConnectChannels ==
  ASSUME NEW t \in Threads, Inv, Connect(t)
  PROVE  Channels'
  <1>0. PICK s, p, x : /\ s = call[t].slot /\ p = slots[s].device
                       /\ x = IF call[t].arg = HostIsoTp THEN Can ELSE call[t].arg
    OBVIOUS
  <1>1. call[t].phase = "connect" /\ call[t].phase \in Sections /\ UNCHANGED sess
    BY DEF Connect, Sections
  <1>2. /\ s \in Slots /\ p \in Ports /\ slots[s] \in SlotType
        /\ slots \in [Slots -> SlotType] /\ adapter[p] \in AdapterType
    BY <1>0, <1>1, SectionDevice DEF Inv, Typed, SlotsTyped, AdapterTyped
  <1>3. x \in Protos
    BY <1>0, <1>1, SlotOf, Constants DEF Inv, Typed, ArgsFit, Args
  <1>4. Wire(s) = None /\ slots[s].host = FALSE /\ slots[s].chan = None
    BY <1>0, <1>1, <1>2, Constants DEF Inv, SectionsKeepTheirSlot, Wire, SlotType
  <1>5. PICK o \in Outcomes :
          /\ Exchange(p, o) /\ Effect(p, o, On(adapter[p], x))
          /\ slots' = IF o # "ok" THEN slots
                      ELSE IF call[t].arg = HostIsoTp
                        THEN [slots EXCEPT ![s] =
                               [[slots[s] EXCEPT !.nfilters = 0, !.current = None,
                                   !.nextFilter = 0] EXCEPT !.host = TRUE]]
                        ELSE [slots EXCEPT ![s] =
                               [[slots[s] EXCEPT !.nfilters = 0, !.current = None,
                                   !.nextFilter = 0] EXCEPT !.chan = x]]
    BY <1>0 DEF Connect
  <1>6. /\ OtherSlots(s) /\ slots'[s].device = p
        /\ ~(slots'[s].host /\ slots'[s].chan # None)
        /\ Wire(s)' = IF o = "ok" THEN x ELSE None
    <2>1. CASE o # "ok"
      BY <1>0, <1>4, <1>5, <2>1 DEF OtherSlots, Wire
    <2>2. CASE o = "ok" /\ call[t].arg = HostIsoTp
      <3>1. slots' = [slots EXCEPT ![s] =
                       [slots[s] EXCEPT !.nfilters = 0, !.current = None,
                          !.nextFilter = 0, !.host = TRUE]]
        BY <1>2, <1>5, <2>2 DEF SlotType
      <3>2. slots'[s].device = p /\ slots'[s].host = TRUE /\ slots'[s].chan = None
        BY <1>0, <1>2, <1>4, <3>1 DEF SlotType
      <3> QED BY <1>0, <1>2, <2>2, <3>1, <3>2 DEF OtherSlots, Wire
    <2>3. CASE o = "ok" /\ call[t].arg # HostIsoTp
      <3>1. slots' = [slots EXCEPT ![s] =
                       [slots[s] EXCEPT !.nfilters = 0, !.current = None,
                          !.nextFilter = 0, !.chan = x]]
        BY <1>2, <1>5, <2>3 DEF SlotType
      <3>2. slots'[s].device = p /\ slots'[s].host = FALSE /\ slots'[s].chan = x
        BY <1>0, <1>2, <1>4, <3>1 DEF SlotType
      <3> QED BY <1>2, <2>3, <3>1, <3>2 DEF OtherSlots, Wire
    <2> QED BY <2>1, <2>2, <2>3
  <1>7. SlotsOwnSessions'
    BY <1>0, <1>1, <1>2, <1>6, Constants DEF OtherSlots, SlotsOwnSessions, Inv, Wire
  <1>8. Owned(p)' = IF o = "ok" THEN {x} ELSE {}
    BY <1>2, <1>3, <1>6, <1>7, Constants, OwnedHereNext
  <1>9. WireStep /\ (~faulted'[p] => o \in {"ok", "rejected"})
    BY <1>2, <1>5, ExchangeWire DEF Inv
  <1>10. ~faulted'[p] => adapter[p].on = {}
    BY <1>0, <1>2, <1>4, <1>9, OwnedHere DEF Inv, ChannelsTracked, WireStep
  <1>11. On(adapter[p], x).on = (adapter[p].on \ {x}) \cup {x}
    BY <1>2 DEF On, Off, AdapterType
  <1>12. /\ \A q \in Ports \ {p} : adapter'[q] = adapter[q]
         /\ ~faulted'[p] => adapter'[p].on = Owned(p)'
    BY <1>2, <1>5, <1>8, <1>9, <1>10, <1>11, EffectOn DEF Inv, Done
  <1>13. ChannelsTracked'
    <2>1. \A q \in Ports \ {p} : adapter'[q] = adapter[q] /\ (~faulted'[q] => ~faulted[q])
      BY <1>9, <1>12 DEF WireStep
    <2>2. slots[s].device \in {p, None} /\ slots'[s].device \in {p, None} /\ OtherSlots(s)
      BY <1>0, <1>6
    <2> QED BY <1>2, <1>12, <2>1, <2>2, OneAdapter
  <1> QED BY <1>7, <1>9, <1>13 DEF Channels, WireStep

LEMMA CloseChannels ==
  ASSUME NEW t \in Threads, Inv, Close(t)
  PROVE  Channels'
  <1>0. PICK s, p : s = call[t].slot /\ p = slots[s].device
    OBVIOUS
  <1>1. call[t].phase # "idle"
    BY DEF Close, Locks
  <1>2. s \in Slots /\ p \in Ports \cup {None} /\ slots \in [Slots -> SlotType]
    BY <1>0, <1>1, SlotOf DEF Inv, Typed, SlotsTyped, SlotType
  <1>3. CASE p = None
    <2>1. UNCHANGED <<slots, sess, adapter, wireVars>>
      BY <1>0, <1>3 DEF Close
    <2> QED BY <2>1, SameTable, QuietWire, QuietChannels DEF Quiet, Inv
  <1>4. CASE p # None
    <2>1. /\ DropChannel(s) /\ slots' = [slots EXCEPT ![s] = EmptySlot]
          /\ sess' = [sess EXCEPT ![p] = "ending"] /\ p \in Ports
      BY <1>0, <1>2, <1>4 DEF Close
    <2>2. /\ OtherSlots(s) /\ slots'[s].device = None /\ slots'[s].chan = None
          /\ slots'[s].host = FALSE
      BY <1>2, <2>1 DEF OtherSlots, EmptySlot
    <2>3. sess'[p] # "live" /\ \A q \in Ports \ {p} : sess'[q] = sess[q]
      BY <2>1 DEF Inv, Typed, SessTyped
    <2>4. \A r \in Slots : slots'[r].device # p
      BY <1>0, <1>2, <1>4, <2>2 DEF OtherSlots, Inv, SlotsOwnSessions
    <2>5. SlotsOwnSessions'
      <3>1. /\ \A r \in Slots : ~(slots'[r].host /\ slots'[r].chan # None)
            /\ \A r \in Slots : slots'[r].device = None => Wire(r)' = None
            /\ \A q, r \in Slots : slots'[q].device = slots'[r].device =>
                                     q = r \/ slots'[r].device = None
        BY <2>2 DEF OtherSlots, SlotsOwnSessions, Inv, Wire
      <3>2. ASSUME NEW q \in Ports
            PROVE  sess'[q] = "live" <=> \E r \in Slots : slots'[r].device = q
        <4>1. CASE q = p
          BY <2>3, <2>4, <4>1
        <4>2. CASE q # p
          BY <1>0, <2>2, <2>3, <4>2, Constants DEF OtherSlots, SlotsOwnSessions, Inv
        <4> QED BY <4>1, <4>2
      <3> QED BY <3>1, <3>2 DEF SlotsOwnSessions
    <2>6. Owned(p)' = {}
      BY <2>4 DEF Owned
    <2>7. /\ WireStep /\ \A q \in Ports \ {p} : adapter'[q] = adapter[q]
          /\ ~faulted'[p] => adapter'[p].on = {}
      BY <1>0, <1>2, <2>1, DropLeavesNothing
    <2>8. ChannelsTracked'
      <3>1. \A q \in Ports \ {p} : adapter'[q] = adapter[q] /\ (~faulted'[q] => ~faulted[q])
        BY <2>7 DEF WireStep
      <3>2. slots[s].device \in {p, None} /\ slots'[s].device \in {p, None} /\ OtherSlots(s)
        BY <1>0, <2>2
      <3>3. ~faulted'[p] => adapter'[p].on = Owned(p)'
        BY <2>6, <2>7
      <3> QED BY <1>2, <2>1, <3>1, <3>2, <3>3, OneAdapter
    <2> QED BY <2>5, <2>7, <2>8 DEF Channels, WireStep
  <1> QED BY <1>2, <1>3, <1>4

LEMMA OpenChannels ==
  ASSUME NEW t \in Threads, Inv, Open(t)
  PROVE  Channels'
  <1>0. PICK p : p = call[t].arg
    OBVIOUS
  <1>1. p \in Ports
    <2>1. call[t].phase # "idle" /\ call[t].op = "Open"
      BY DEF Open, Locks
    <2> QED BY <1>0, <2>1, SlotOf DEF Inv, Args
  <1>2. CASE UNCHANGED <<slots, sess, adapter, wedged, faulted>>
    <2>1. SameChannels /\ SameAdapters /\ WireStep
      BY <1>2, SameTable DEF Inv, WedgedFaulted, WireStep
    <2> QED BY <2>1, QuietChannels DEF Quiet
  <1>3. CASE /\ sess[p] = "free"
             /\ \E s \in Slots : /\ slots[s].device = None
                                 /\ slots' = [slots EXCEPT ![s] = [EmptySlot EXCEPT !.device = p]]
             /\ sess' = [sess EXCEPT ![p] = "live"]
             /\ wedged' = [wedged EXCEPT ![p] = FALSE]
             /\ faulted' = [faulted EXCEPT ![p] = FALSE]
             /\ adapter' = [adapter EXCEPT ![p] = Blank]
    <2>1. PICK s \in Slots : /\ slots[s].device = None
                             /\ slots' = [slots EXCEPT ![s] = [EmptySlot EXCEPT !.device = p]]
      BY <1>3
    <2>2. /\ OtherSlots(s) /\ slots'[s].device = p /\ slots'[s].chan = None
          /\ slots'[s].host = FALSE
      BY <2>1 DEF Inv, Typed, SlotsTyped, OtherSlots, EmptySlot
    <2>3. sess'[p] = "live" /\ \A q \in Ports \ {p} : sess'[q] = sess[q]
      BY <1>1, <1>3 DEF Inv, Typed, SessTyped
    <2>4. \A r \in Slots : slots[r].device # p
      BY <1>1, <1>3 DEF Inv, SlotsOwnSessions
    <2>5. Wire(s)' = None
      BY <2>2 DEF Wire
    <2>6. SlotsOwnSessions'
      <3>1. /\ \A r \in Slots : ~(slots'[r].host /\ slots'[r].chan # None)
            /\ \A r \in Slots : slots'[r].device = None => Wire(r)' = None
        BY <2>2, <2>5 DEF OtherSlots, SlotsOwnSessions, Inv, Wire
      <3>2. \A q, r \in Slots : slots'[q].device = slots'[r].device =>
                                  q = r \/ slots'[r].device = None
        BY <2>2, <2>4 DEF OtherSlots, SlotsOwnSessions, Inv
      <3>3. ASSUME NEW q \in Ports
            PROVE  sess'[q] = "live" <=> \E r \in Slots : slots'[r].device = q
        <4>1. CASE q = p
          BY <2>2, <2>3, <4>1
        <4>2. CASE q # p
          BY <2>1, <2>2, <2>3, <4>2, Constants DEF OtherSlots, SlotsOwnSessions, Inv
        <4> QED BY <4>1, <4>2
      <3> QED BY <3>1, <3>2, <3>3 DEF SlotsOwnSessions
    <2>7. Owned(p)' = {}
      BY <1>1, <2>2, <2>5, <2>6, OwnedHereNext
    <2>8. /\ \A q \in Ports \ {p} : (faulted'[q] <=> faulted[q]) /\ (wedged'[q] <=> wedged[q])
          /\ ~wedged'[p]
      <3>1. faulted \in [Ports -> BOOLEAN] /\ wedged \in [Ports -> BOOLEAN]
        BY DEF Inv, Typed, WireTyped
      <3> QED BY <1>1, <1>3, <3>1, Zenon
    <2>9. adapter'[p].on = {} /\ \A q \in Ports \ {p} : adapter'[q] = adapter[q]
      BY <1>1, <1>3 DEF Inv, Typed, AdapterTyped, Blank
    <2>10. ChannelsTracked'
      <3>1. \A q \in Ports \ {p} : adapter'[q] = adapter[q] /\ (~faulted'[q] => ~faulted[q])
        BY <2>8, <2>9
      <3>2. slots[s].device \in {p, None} /\ slots'[s].device \in {p, None} /\ OtherSlots(s)
        BY <2>1, <2>2
      <3>3. adapter'[p].on = Owned(p)'
        BY <2>7, <2>9
      <3> QED BY <1>1, <3>1, <3>2, <3>3, OneAdapter
    <2>11. WedgedFaulted'
      BY <2>8 DEF Inv, WedgedFaulted
    <2> QED BY <2>6, <2>10, <2>11 DEF Channels
  <1> QED BY <1>0, <1>2, <1>3 DEF Open, wireVars

-----------------------------------------------------------------------------
(* The theorem.                                                            *)

LEMMA EndSessionInv ==
  ASSUME NEW p \in Ports, Inv, EndSession(p)
  PROVE  SectionsKeepTheirSlot' /\ Channels'
  <1>1. sess[p] = "ending" /\ sess' = [sess EXCEPT ![p] = "free"]
        /\ UNCHANGED <<call, slots, holder, adapter, wedged, faulted>>
    BY DEF EndSession, wireVars
  <1>2. \A q \in Ports : sess'[q] = "live" <=> sess[q] = "live"
    BY <1>1 DEF Inv, Typed, SessTyped
  <1>3. SectionsKeepTheirSlot' /\ WedgedFaulted'
    BY <1>1 DEF Inv, SectionsKeepTheirSlot, WedgedFaulted, Wire
  <1>4. SlotsOwnSessions'
    BY <1>1, <1>2 DEF Inv, SlotsOwnSessions, Wire
  <1>5. ChannelsTracked'
    BY <1>1 DEF Inv, ChannelsTracked, Owned, Wire
  <1> QED BY <1>3, <1>4, <1>5 DEF Channels

LEMMA InitInv == Init => Inv
  <1> SUFFICES ASSUME Init PROVE Inv
    OBVIOUS
  <1>1. \A s \in Slots : slots[s].device = None /\ slots[s].chan = None /\ slots[s].host = FALSE
    BY DEF Init, EmptySlot
  <1>2. SectionsKeepTheirSlot
    BY DEF Init, SectionsKeepTheirSlot, Idle, Sections
  <1>3. SlotsOwnSessions
    BY <1>1, Constants DEF Init, SlotsOwnSessions, Wire
  <1>4. \A p \in Ports : Owned(p) = {} /\ adapter[p].on = {}
    BY <1>1, Constants DEF Init, Owned, Blank
  <1> QED BY <1>2, <1>3, <1>4, InitTyped DEF Inv, ChannelsTracked, WedgedFaulted, Init

LEMMA NextInv == Inv /\ [Next]_vars => Inv'
  <1> SUFFICES ASSUME Inv, [Next]_vars PROVE Inv'
    OBVIOUS
  <1>1. Typed'
    BY NextTyped DEF Inv
  <1>2. CASE UNCHANGED vars
    <2>1. Quiet
      BY <1>2, SameTable, QuietWire DEF vars, wireVars, Quiet, Inv
    <2>2. SectionsKeepTheirSlot'
      BY <1>2 DEF vars, Inv, SectionsKeepTheirSlot, Wire
    <2> QED BY <1>1, <2>1, <2>2, QuietChannels DEF Inv, Channels
  <1>3. ASSUME NEW t \in Threads, Call(t) \/ Wait(t) \/ Section(t)
        PROVE  SectionsKeepTheirSlot' /\ Channels'
    <2>1. CASE Call(t) \/ BadParameter(t)
      BY <2>1, BeginKeeps, WaitQuiet, QuietChannels
    <2>2. CASE LookForHost(t) \/ LookForChannel(t)
      BY <1>1, <2>2, LookKeeps, WaitQuiet, QuietChannels
    <2>3. CASE FindPoison(t)
      BY <1>1, <2>3, AnswerKeeps, WaitQuiet, QuietChannels
    <2>4. CASE Answers(t)
      BY <1>1, <2>4, AnswerKeeps, SessionQuiet, QuietChannels
    <2>5. CASE TakeMessage(t)
      BY <1>1, <2>5, TakeKeeps, SessionQuiet, QuietChannels
    <2>6. CASE RetireFilter(t)
      BY <2>6, RetireKeeps, FilterQuiet, QuietChannels
    <2>7. CASE InstallFilter(t) \/ StartFilter(t) \/ StopFilter(t) \/ StartPeriodic(t)
      BY <1>1, <2>7, FilterKeeps, FilterQuiet, QuietChannels
    <2>8. CASE Open(t)
      BY <1>1, <2>8, ChannelActionKeeps, OpenChannels
    <2>9. CASE Close(t)
      BY <1>1, <2>9, ChannelActionKeeps, CloseChannels
    <2>10. CASE Connect(t)
      BY <1>1, <2>10, ChannelActionKeeps, ConnectChannels
    <2>11. CASE Disconnect(t)
      BY <1>1, <2>11, ChannelActionKeeps, ConnectDropsChannels
    <2>12. CASE ConnectDrops(t)
      BY <1>1, <2>12, ConnectDropsKeeps, ConnectDropsChannels
    <2> QED BY <1>3, <2>1, <2>2, <2>3, <2>4, <2>5, <2>6, <2>7, <2>8, <2>9, <2>10, <2>11, <2>12
            DEF Wait, Section, Answers
  <1>4. ASSUME NEW p \in Ports, EndSession(p)
        PROVE  SectionsKeepTheirSlot' /\ Channels'
    BY <1>4, EndSessionInv
  <1> QED BY <1>1, <1>2, <1>3, <1>4 DEF Next, Inv, Channels

LEMMA InvHolds == Spec => []Inv
  BY InitInv, NextInv, PTL DEF Spec

\* A thread inside a section works on the slot it looked up: no other thread
\* closes, replaces or reconnects it before the mutex is given back (lib.rs
\* guard, with_slot).
THEOREM MutexProtects == Spec => []SectionsKeepTheirSlot
  <1>1. Inv => SectionsKeepTheirSlot
    BY DEF Inv
  <1> QED BY <1>1, InvHolds, PTL

\* A slot holds one channel, a live session one slot, and the session that is
\* ending or gone none (lib.rs Slot, PassThruOpen, PassThruClose).
THEOREM SessionsOwned == Spec => []SlotsOwnSessions
  <1>1. Inv => SlotsOwnSessions
    BY DEF Inv
  <1> QED BY <1>1, InvHolds, PTL

\* While every exchange of a session was answered, the channels connected on its
\* adapter are exactly those of the slot table, whatever the threads do (lib.rs
\* PassThruConnect, PassThruDisconnect, raw.rs RawChannel::drop).
THEOREM NoChannelForgotten == Spec => []ChannelsTracked
  <1>1. Inv => ChannelsTracked
    BY DEF Inv
  <1> QED BY <1>1, InvHolds, PTL

-----------------------------------------------------------------------------
(* The count of filters.                                                   *)

\* The filters the adapter has for the channel of slot s.
Stock(s) == adapter[slots[s].device].filters[Wire(s)]

HandedOutBy(s) == {Handle(n) : n \in 1 .. slots[s].nextId - 1}

\* A host channel has the one filter it remembers; a firmware channel has some
\* of those its device handed out, and the next handle is not among them.
HostCounted(s) ==
  Stock(s) = {slots[s].current} \ {None} /\ slots[s].nfilters = Cardinality(Stock(s))

RawCounted(s) ==
  slots[s].nextId <= HandleSpan + 1 =>
    /\ Stock(s) \subseteq HandedOutBy(s)
    /\ IsFiniteSet(Stock(s)) /\ slots[s].nfilters = Cardinality(Stock(s))

Counted(s) ==
  /\ slots[s].nextId > 0
  /\ (Wire(s) # None /\ ~faulted[slots[s].device]) =>
       IF slots[s].host THEN HostCounted(s) ELSE RawCounted(s)

\* A set_filter between its halves has retired the old filter.
Retired ==
  \A t \in Threads : call[t].phase = "install" => slots[call[t].slot].current = None

CountInv == Inv /\ Retired /\ \A s \in Slots : Counted(s)

LEMMA HandlesDiffer ==
  ASSUME NEW m \in 1 .. HandleSpan, NEW n \in 1 .. HandleSpan, m < n
  PROVE  Handle(m) # Handle(n)
  <1>1. HandleSpan \in Nat \ {0}
    BY ShimAssumption DEF ShimAssumption
  <1>2. m \in Nat /\ n \in Nat /\ m < HandleSpan /\ n <= HandleSpan /\ 0 < m
    BY <1>1
  <1>3. m % HandleSpan = m
    BY <1>1, <1>2, SMTT(30)
  <1>4. CASE n < HandleSpan
    <2>1. n % HandleSpan = n
      BY <1>1, <1>2, <1>4, SMTT(30)
    <2> QED BY <1>3, <2>1 DEF Handle
  <1>5. CASE n = HandleSpan
    <2>1. n % HandleSpan = 0
      BY <1>1, <1>5, SMTT(30)
    <2> QED BY <1>2, <1>3, <2>1 DEF Handle
  <1> QED BY <1>1, <1>2, <1>4, <1>5

\* Until the handles of a device wrap, the next one is new.
LEMMA NextHandleIsNew ==
  ASSUME NEW s \in Slots, slots[s].nextId \in Nat, slots[s].nextId <= HandleSpan
  PROVE  Handle(slots[s].nextId) \notin HandedOutBy(s)
  <1> SUFFICES ASSUME NEW n \in 1 .. slots[s].nextId - 1
               PROVE  Handle(n) # Handle(slots[s].nextId)
    BY DEF HandedOutBy
  <1>1. HandleSpan \in Nat
    BY ShimAssumption DEF ShimAssumption
  <1>2. n \in 1 .. HandleSpan /\ slots[s].nextId \in 1 .. HandleSpan /\ n < slots[s].nextId
    BY <1>1
  <1> QED BY <1>2, HandlesDiffer

\* A slot the step does not touch keeps its count.
LEMMA CountElsewhere ==
  ASSUME NEW s \in Slots, Inv, Counted(s), slots'[s] = slots[s],
         \A p \in Ports : slots[s].device = p =>
           adapter'[p] = adapter[p] /\ (~faulted'[p] => ~faulted[p])
  PROVE  Counted(s)'
  <1>1. Wire(s)' = Wire(s)
    BY DEF Wire
  <1>2. CASE Wire(s) = None
    BY <1>1, <1>2 DEF Counted
  <1>3. CASE Wire(s) # None
    <2>1. slots[s].device \in Ports
      BY <1>3 DEF Inv, Typed, SlotsTyped, SlotType, SlotsOwnSessions
    <2>2. Stock(s)' = Stock(s) /\ HandedOutBy(s)' = HandedOutBy(s)
      BY <1>1, <2>1 DEF Stock, HandedOutBy
    <2> QED BY <1>1, <2>1, <2>2 DEF Counted, HostCounted, RawCounted
  <1> QED BY <1>2, <1>3

LEMMA SteadyCount ==
  ASSUME CountInv, UNCHANGED <<slots, adapter>>, WireStep, NEW s \in Slots
  PROVE  Counted(s)'
  BY CountElsewhere DEF CountInv, WireStep

\* A step at slot s, whose session is that of port p.
LEMMA CountAt ==
  ASSUME CountInv, NEW s \in Slots, NEW p \in Ports, OtherSlots(s), Counted(s)',
         \A r \in Slots \ {s} : slots[r].device # p,
         \A q \in Ports \ {p} : adapter'[q] = adapter[q] /\ (~faulted'[q] => ~faulted[q]),
         NEW r \in Slots
  PROVE  Counted(r)'
  <1>1. CASE r # s
    BY <1>1, CountElsewhere DEF CountInv, OtherSlots
  <1> QED BY <1>1

\* A filter more, or one less.
LEMMA OneMore ==
  ASSUME NEW F, NEW id, IsFiniteSet(F), id \notin F
  PROVE  IsFiniteSet(F \cup {id}) /\ Cardinality(F \cup {id}) = Cardinality(F) + 1
  BY FS_AddElement

LEMMA OneLess ==
  ASSUME NEW F, NEW id \in F, IsFiniteSet(F)
  PROVE  /\ IsFiniteSet(F \ {id}) /\ Cardinality(F \ {id}) = Cardinality(F) - 1
         /\ Cardinality(F) \in Nat /\ Cardinality(F) > 0
  <1>1. /\ IsFiniteSet(F \ {id}) /\ Cardinality(F \ {id}) = Cardinality(F) - 1
        /\ Cardinality(F) \in Nat
    BY FS_RemoveElement, FS_CardinalityType
  <1>2. Cardinality(F \ {id}) \in Nat
    BY <1>1, FS_CardinalityType
  <1> QED BY <1>1, <1>2

LEMMA NoneOrOne ==
  /\ IsFiniteSet({}) /\ Cardinality({}) = 0
  /\ \A id : Cardinality({id}) = 1
  BY FS_EmptySet, FS_Singleton


-----------------------------------------------------------------------------
(* Who may be between the halves of a set_filter.                          *)

LEMMA RetiredBy ==
  ASSUME SectionsKeepTheirSlot', NEW t,
         holder' = NoThread \/ (holder' = t /\ call'[t].phase # "install")
  PROVE  Retired'
  <1> SUFFICES ASSUME NEW u \in Threads, call'[u].phase = "install" PROVE FALSE
    BY DEF Retired
  <1>1. holder' = u
    BY DEF SectionsKeepTheirSlot, Sections
  <1> QED BY <1>1, Constants

LEMMA EnterRetired ==
  ASSUME NEW t \in Threads, NEW phase \in (Waiting \cup Sections) \ {"install"}, Inv, Inv',
         Enter(t, phase)
  PROVE  Retired'
  <1>1. poisoned' \in BOOLEAN
    BY DEF Inv, Typed, CallsTyped
  <1>2. call'[t].phase = phase /\ holder' \in {t, NoThread}
    BY <1>1, EnterFacts DEF Inv, Typed
  <1> QED BY <1>2, RetiredBy DEF Inv

LEMMA BeginRetired ==
  ASSUME NEW t \in Threads, CountInv, Call(t) \/ BadParameter(t)
  PROVE  Retired'
  <1>1. PICK new : /\ call' = [call EXCEPT ![t] = new] /\ UNCHANGED slots
                   /\ new.phase \in {"idle", "look", "lock"}
    BY DEF Call, BadParameter, Idle
  <1>2. \A u \in Threads : u # t => call'[u] = call[u]
    BY <1>1 DEF CountInv, Inv, Typed, CallsTyped
  <1>3. call'[t].phase # "install"
    BY <1>1 DEF CountInv, Inv, Typed, CallsTyped
  <1> QED BY <1>1, <1>2, <1>3 DEF Retired, CountInv

LEMMA LeaveRetired ==
  ASSUME NEW t, NEW code, NEW changed, Inv', Leave(t, code, changed)
  PROVE  Retired'
  BY RetiredBy DEF Leave, Inv

LEMMA ActionRetired ==
  ASSUME NEW t \in Threads, CountInv, Inv', Call(t) \/ Wait(t) \/ Section(t)
  PROVE  Retired'
  <1>1. CASE Call(t) \/ BadParameter(t)
    BY <1>1, BeginRetired
  <1>2. CASE FindPoison(t) \/ Open(t) \/ Close(t) \/ Connect(t) \/ Disconnect(t)
    BY <1>2, LeaveRetired DEF FindPoison, Open, Close, Connect, Disconnect, Return
  <1>3. CASE LookForHost(t)
    BY <1>3, EnterRetired DEF LookForHost, CountInv, Waiting, Sections
  <1>4. CASE LookForChannel(t)
    BY <1>4, EnterRetired, LeaveRetired
       DEF LookForChannel, CountInv, Waiting, Sections, Return
  <1>5. CASE ConnectDrops(t)
    <2>1. CASE Return(t, "InvalidDevice")
      BY <2>1, LeaveRetired DEF Return
    <2>2. CASE /\ call' = [call EXCEPT ![t].phase = "connect",
                                      ![t].was = Kind(call[t].slot)]
               /\ holder' = t
      <3>1. call \in [Threads -> CallType]
        BY DEF CountInv, Inv, Typed, CallsTyped
      <3>2. call'[t].phase = "connect"
        BY <2>2, <3>1 DEF CallType
      <3> QED BY <2>2, <3>2, RetiredBy DEF Inv
    <2> QED BY <1>5, <2>1, <2>2 DEF ConnectDrops
  <1>6. CASE Answers(t)
    <2>1. PICK code \in Codes : Return(t, code)
      BY <1>6, AnswersFacts DEF CountInv, Inv
    <2> QED BY <2>1, LeaveRetired DEF Return
  <1>7. CASE InstallFilter(t) \/ StartFilter(t) \/ StopFilter(t) \/ StartPeriodic(t)
    BY <1>7, LeaveRetired DEF InstallFilter, StartFilter, StopFilter, StartPeriodic, Return
  <1>8. CASE TakeMessage(t)
    <2>1. CASE \E code : Return(t, code)
      BY <2>1, LeaveRetired DEF Return
    <2>2. CASE /\ call' = [call EXCEPT ![t].phase = "more", ![t].arg = @ - 1]
               /\ UNCHANGED <<holder, result>>
      <3>1. call \in [Threads -> CallType] /\ call[t].phase \in Sections
        BY <1>8 DEF CountInv, Inv, Typed, CallsTyped, TakeMessage, Reads, Sections
      <3>2. call'[t].phase = "more" /\ holder' = t
        BY <2>2, <3>1 DEF CallType, CountInv, Inv, SectionsKeepTheirSlot
      <3> QED BY <3>2, RetiredBy DEF Inv
    <2> QED BY <1>8, <2>1, <2>2 DEF TakeMessage
  <1>9. CASE RetireFilter(t)
    <2>1. PICK s : s = call[t].slot
      OBVIOUS
    <2>2. call[t].phase = "host" /\ Enter(t, "install") /\ call[t].phase \in Sections
      BY <1>9 DEF RetireFilter, Holds, Sections
    <2>3. poisoned' \in BOOLEAN
      BY DEF Inv, Typed, CallsTyped
    <2>4. call'[t].slot = s /\ holder' = t
      BY <2>1, <2>2, <2>3, EnterFacts DEF CountInv, Inv, Typed, Sections
    <2>5. slots'[s].current = None
      <3>1. s \in Slots /\ slots[s] \in SlotType /\ slots \in [Slots -> SlotType]
        BY <2>1, <2>2, SectionDevice DEF CountInv, Inv, Typed, SlotsTyped
      <3>2. PICK o : slots' = [slots EXCEPT ![s].current = None, ![s].nfilters = Fewer(o, @)]
        BY <1>9, <2>1 DEF RetireFilter
      <3> QED BY <3>1, <3>2 DEF SlotType
    <2>6. ASSUME NEW u \in Threads, call'[u].phase = "install" PROVE u = t
      BY <2>4, <2>6 DEF Inv, SectionsKeepTheirSlot, Sections
    <2> QED BY <2>4, <2>5, <2>6 DEF Retired
  <1> QED BY <1>1, <1>2, <1>3, <1>4, <1>5, <1>6, <1>7, <1>8, <1>9 DEF Wait, Section, Answers

-----------------------------------------------------------------------------
(* The count after each action.                                            *)

\* The slot of a thread in a section, its port, and nobody else at it.
LEMMA SectionPort ==
  ASSUME NEW t \in Threads, CountInv, call[t].phase \in Sections
  PROVE  /\ call[t].slot \in Slots /\ slots[call[t].slot].device \in Ports
         /\ slots[call[t].slot] \in SlotType /\ slots \in [Slots -> SlotType]
         /\ \A r \in Slots \ {call[t].slot} :
              slots[r].device # slots[call[t].slot].device
  BY SectionDevice, Constants DEF CountInv, Inv, SlotsOwnSessions, Typed, SlotsTyped

\* A slot that is left without a channel has nothing to count.
LEMMA NothingToCount ==
  ASSUME NEW s, slots'[s].host = FALSE, slots'[s].chan = None, slots'[s].nextId > 0
  PROVE  Counted(s)'
  BY DEF Counted, Wire

\* What an exchange that is not a failure leaves to count, at slot s of port p.
LEMMA AnsweredExchange ==
  ASSUME CountInv, NEW p \in Ports, NEW o, Exchange(p, o)
  PROVE  /\ \A q \in Ports : ~faulted'[q] => ~faulted[q]
         /\ ~faulted'[p] => o \in {"ok", "rejected"}
  BY ExchangeWire DEF CountInv, Inv, WireStep

LEMMA FilterSets ==
  ASSUME NEW a \in AdapterType, NEW x \in Protos, NEW id
  PROVE  /\ Add(a, x, id).filters[x] = a.filters[x] \cup {id}
         /\ Remove(a, x, id).filters[x] = a.filters[x] \ {id}
         /\ On(a, x).filters[x] = {}
  BY DEF Add, Remove, On, Off, AdapterType

LEMMA StartCount ==
  ASSUME NEW t \in Threads, CountInv, StartFilter(t), NEW r \in Slots
  PROVE  Counted(r)'
  <1>0. PICK s, p, x, id : /\ s = call[t].slot /\ p = slots[s].device
                           /\ x = slots[s].chan /\ id = Handle(slots[s].nextId)
    OBVIOUS
  <1>1. call[t].phase = "chan" /\ call[t].phase \in Sections
    BY DEF StartFilter, Holds, Sections
  <1>2. /\ s \in Slots /\ p \in Ports /\ slots[s] \in SlotType /\ slots \in [Slots -> SlotType]
        /\ adapter[p] \in AdapterType
        /\ \A q \in Slots \ {s} : slots[q].device # p
    BY <1>0, <1>1, SectionPort DEF CountInv, Inv, Typed, AdapterTyped
  <1>3. /\ slots[s].host = FALSE /\ x # None /\ x \in Protos /\ Wire(s) = x /\ Wire(s) # None
    BY <1>0, <1>1, <1>2 DEF CountInv, Inv, SectionsKeepTheirSlot, SlotsOwnSessions, SlotType, Wire
  <1>4. PICK o \in Outcomes :
          /\ Exchange(p, o) /\ Effect(p, o, Add(adapter[p], x, id))
          /\ slots' = [slots EXCEPT ![s].nextId = @ + 1, ![s].nfilters = More(o, @)]
    BY <1>0 DEF StartFilter
  <1>5. /\ OtherSlots(s) /\ slots'[s].device = p /\ slots'[s].chan = x
        /\ slots'[s].host = FALSE /\ slots'[s].nextId = slots[s].nextId + 1
        /\ slots'[s].nfilters = More(o, slots[s].nfilters)
    BY <1>0, <1>2, <1>3, <1>4 DEF SlotType, OtherSlots
  <1>6. /\ \A q \in Ports : ~faulted'[q] => ~faulted[q]
        /\ ~faulted'[p] => o \in {"ok", "rejected"}
    BY <1>2, <1>4, AnsweredExchange
  <1>7. /\ adapter'[p] = IF Done(o) THEN Add(adapter[p], x, id) ELSE adapter[p]
        /\ \A q \in Ports \ {p} : adapter'[q] = adapter[q]
    BY <1>2, <1>4, EffectOn DEF CountInv, Inv
  <1>8. Wire(s)' = x
    BY <1>5 DEF Wire
  <1>9. Counted(s)'
    <2> SUFFICES ASSUME ~faulted'[p], slots'[s].nextId <= HandleSpan + 1
                 PROVE  RawCounted(s)'
      <3>1. slots'[s].nextId > 0
        BY <1>2, <1>5 DEF CountInv, Counted, SlotType
      <3> QED BY <1>5, <3>1 DEF Counted, RawCounted
    <2> DEFINE F == adapter[p].filters[x]
               G == adapter'[p].filters[x]
    <2>1. HandleSpan \in Nat /\ slots[s].nextId \in Nat /\ slots[s].nextId <= HandleSpan
      BY <1>2, <1>5, ShimAssumption DEF ShimAssumption, SlotType
    <2>2. /\ F \subseteq HandedOutBy(s) /\ IsFiniteSet(F)
          /\ slots[s].nfilters = Cardinality(F)
      <3>1. RawCounted(s)
        <4>1. ~faulted[slots[s].device] /\ Counted(s)
          BY <1>0, <1>2, <1>6 DEF CountInv
        <4> QED BY <1>3, <4>1, Zenon DEF Counted
      <3>2. slots[s].nextId <= HandleSpan + 1
        BY <2>1
      <3> QED BY <1>0, <1>3, <3>1, <3>2 DEF RawCounted, Stock
    <2>3. id \notin F
      BY <1>0, <1>2, <2>1, <2>2, NextHandleIsNew
    <2>7. slots[s].nextId > 0
      BY <1>2 DEF CountInv, Counted
    <2>4. HandedOutBy(s)' = HandedOutBy(s) \cup {id}
      <3> DEFINE k == slots[s].nextId
      <3>1. 1 .. (k + 1) - 1 = (1 .. k - 1) \cup {k}
        BY <2>1, <2>7
      <3>2. HandedOutBy(s)' = {Handle(n) : n \in (1 .. k - 1) \cup {k}}
        BY <1>5, <3>1 DEF HandedOutBy
      <3> QED BY <1>0, <3>2 DEF HandedOutBy
    <2>5. CASE o = "ok"
      <3>1. G = F \cup {id} /\ slots'[s].nfilters = slots[s].nfilters + 1
        BY <1>2, <1>3, <1>5, <1>7, <2>5, FilterSets DEF Done, More
      <3>2. IsFiniteSet(G) /\ slots'[s].nfilters = Cardinality(G)
        <4>1. /\ IsFiniteSet(F \cup {id})
              /\ Cardinality(F \cup {id}) = Cardinality(F) + 1
          BY <2>2, <2>3, OneMore, Zenon
        <4> HIDE DEF F, G
        <4> QED BY <2>2, <3>1, <4>1, Zenon
      <3> QED BY <1>5, <1>8, <2>2, <2>4, <3>1, <3>2 DEF RawCounted, Stock
    <2>6. CASE o = "rejected"
      <3>1. G = F /\ slots'[s].nfilters = slots[s].nfilters
        BY <1>5, <1>7, <2>6 DEF Done, More
      <3> QED BY <1>5, <1>8, <2>2, <2>4, <3>1 DEF RawCounted, Stock
    <2> QED BY <1>6, <2>5, <2>6
  <1> QED BY <1>2, <1>5, <1>6, <1>7, <1>9, CountAt


LEMMA StopCount ==
  ASSUME NEW t \in Threads, CountInv, StopFilter(t), NEW r \in Slots
  PROVE  Counted(r)'
  <1>0. PICK s, p, x, id : /\ s = call[t].slot /\ p = slots[s].device
                           /\ x = slots[s].chan /\ id = call[t].arg
    OBVIOUS
  <1>1. CASE UNCHANGED <<slots, adapter, wireVars>>
    BY <1>1, SteadyCount, QuietWire DEF CountInv, Inv
  <1>2. CASE Holds(t, "chan", "StopFilter")
    <2>1. call[t].phase = "chan" /\ call[t].phase \in Sections
      BY <1>2 DEF Holds, Sections
    <2>2. /\ s \in Slots /\ p \in Ports /\ slots[s] \in SlotType
          /\ slots \in [Slots -> SlotType] /\ adapter[p] \in AdapterType
          /\ \A q \in Slots \ {s} : slots[q].device # p
      BY <1>0, <2>1, SectionPort DEF CountInv, Inv, Typed, AdapterTyped
    <2>3. /\ slots[s].host = FALSE /\ x # None /\ x \in Protos
          /\ Wire(s) = x /\ Wire(s) # None
      BY <1>0, <2>1, <2>2
         DEF CountInv, Inv, SectionsKeepTheirSlot, SlotsOwnSessions, SlotType, Wire
    <2>4. PICK o \in Outcomes :
            /\ Exchange(p, o) /\ Consistent(o, id \in adapter[p].filters[x])
            /\ Effect(p, o, Remove(adapter[p], x, id))
            /\ slots' = [slots EXCEPT ![s].nfilters = Fewer(o, @)]
      BY <1>0, <1>2 DEF StopFilter, Holds
    <2>5. /\ OtherSlots(s) /\ slots'[s].device = p /\ slots'[s].chan = x
          /\ slots'[s].host = FALSE /\ slots'[s].nextId = slots[s].nextId
          /\ slots'[s].nfilters = Fewer(o, slots[s].nfilters)
      BY <1>0, <2>2, <2>3, <2>4 DEF SlotType, OtherSlots
    <2>6. /\ \A q \in Ports : ~faulted'[q] => ~faulted[q]
          /\ ~faulted'[p] => o \in {"ok", "rejected"}
      BY <2>2, <2>4, AnsweredExchange
    <2>7. /\ adapter'[p] = IF Done(o) THEN Remove(adapter[p], x, id) ELSE adapter[p]
          /\ \A q \in Ports \ {p} : adapter'[q] = adapter[q]
      BY <2>2, <2>4, EffectOn DEF CountInv, Inv
    <2>8. Wire(s)' = x /\ HandedOutBy(s)' = HandedOutBy(s)
      BY <2>5 DEF Wire, HandedOutBy
    <2>9. Counted(s)'
      <3> SUFFICES ASSUME ~faulted'[p], slots'[s].nextId <= HandleSpan + 1
                   PROVE  RawCounted(s)'
        <4>1. slots'[s].nextId > 0
          BY <2>2, <2>5 DEF CountInv, Counted
        <4> QED BY <2>5, <4>1 DEF Counted, RawCounted
      <3> DEFINE F == adapter[p].filters[x]
                 G == adapter'[p].filters[x]
      <3>1. /\ F \subseteq HandedOutBy(s) /\ IsFiniteSet(F)
            /\ slots[s].nfilters = Cardinality(F)
        <4>1. ~faulted[slots[s].device] /\ Counted(s)
          BY <1>0, <2>2, <2>6 DEF CountInv
        <4>2. RawCounted(s)
          BY <2>3, <4>1, Zenon DEF Counted
        <4> QED BY <1>0, <2>3, <2>5, <4>2 DEF RawCounted, Stock
      <3>2. CASE o = "ok"
        <4>1. id \in F
          BY <2>4, <3>2 DEF Consistent
        <4>2. G = F \ {id}
          BY <2>2, <2>3, <2>7, <3>2, FilterSets DEF Done
        <4>3. IsFiniteSet(G) /\ slots'[s].nfilters = Cardinality(G)
          <5>1. /\ IsFiniteSet(F \ {id}) /\ Cardinality(F \ {id}) = Cardinality(F) - 1
                /\ Cardinality(F) \in Nat /\ Cardinality(F) > 0
            BY <3>1, <4>1, OneLess
          <5>2. slots'[s].nfilters = Cardinality(F) - 1
            BY <2>5, <3>1, <3>2, <5>1 DEF Fewer
          <5> QED BY <4>2, <5>1, <5>2
        <4> QED BY <2>5, <2>8, <3>1, <4>2, <4>3 DEF RawCounted, Stock
      <3>3. CASE o = "rejected"
        <4>1. G = F /\ slots'[s].nfilters = slots[s].nfilters
          BY <2>5, <2>7, <3>3 DEF Done, Fewer
        <4> QED BY <2>5, <2>8, <3>1, <4>1 DEF RawCounted, Stock
      <3> QED BY <2>6, <3>2, <3>3
    <2> QED BY <2>2, <2>5, <2>6, <2>7, <2>9, CountAt
  <1> QED BY <1>1, <1>2 DEF StopFilter

\* What a host channel must have to keep its count.
LEMMA HostKeeps ==
  ASSUME NEW s, slots'[s].host, slots'[s].nextId > 0,
         ~faulted'[slots'[s].device] =>
           /\ adapter'[slots'[s].device].filters[Can] = {slots'[s].current} \ {None}
           /\ slots'[s].nfilters = IF slots'[s].current = None THEN 0 ELSE 1
  PROVE  Counted(s)'
  <1>1. Wire(s)' = Can
    BY DEF Wire
  <1>2. \A c : Cardinality({c} \ {None}) = IF c = None THEN 0 ELSE 1
    <2> SUFFICES ASSUME NEW c
                 PROVE  Cardinality({c} \ {None}) = IF c = None THEN 0 ELSE 1
      OBVIOUS
    <2>1. {c} \ {None} = IF c = None THEN {} ELSE {c}
      OBVIOUS
    <2> QED BY <2>1, NoneOrOne
  <1>3. ~faulted'[slots'[s].device] => HostCounted(s)'
    BY <1>1, <1>2 DEF HostCounted, Stock
  <1> QED BY <1>3, Zenon DEF Counted

LEMMA HostHas ==
  ASSUME NEW s \in Slots, CountInv, slots[s].host, ~faulted[slots[s].device]
  PROVE  /\ adapter[slots[s].device].filters[Can] = {slots[s].current} \ {None}
         /\ slots[s].nfilters = IF slots[s].current = None THEN 0 ELSE 1
  <1>1. Wire(s) = Can /\ Wire(s) # None
    BY Constants DEF Wire
  <1>2. Counted(s)
    BY DEF CountInv
  <1>3. HostCounted(s)
    BY <1>1, <1>2, Zenon DEF Counted
  <1>4. {slots[s].current} \ {None} = IF slots[s].current = None THEN {} ELSE {slots[s].current}
    OBVIOUS
  <1> QED BY <1>1, <1>3, <1>4, NoneOrOne DEF HostCounted, Stock

LEMMA RetireCount ==
  ASSUME NEW t \in Threads, CountInv, RetireFilter(t), NEW r \in Slots
  PROVE  Counted(r)'
  <1>0. PICK s, p, old : s = call[t].slot /\ p = slots[s].device /\ old = slots[s].current
    OBVIOUS
  <1>1. call[t].phase = "host" /\ call[t].phase \in Sections /\ old # None
    BY <1>0 DEF RetireFilter, Holds, Sections
  <1>2. /\ s \in Slots /\ p \in Ports /\ slots[s] \in SlotType /\ slots \in [Slots -> SlotType]
        /\ adapter[p] \in AdapterType /\ slots[s].host = TRUE
        /\ \A q \in Slots \ {s} : slots[q].device # p
    BY <1>0, <1>1, SectionPort
       DEF CountInv, Inv, Typed, AdapterTyped, SectionsKeepTheirSlot, SlotType
  <1>3. PICK o \in Outcomes :
          /\ Exchange(p, o) /\ Consistent(o, old \in adapter[p].filters[Can])
          /\ Effect(p, o, Remove(adapter[p], Can, old))
          /\ slots' = [slots EXCEPT ![s].current = None, ![s].nfilters = Fewer(o, @)]
    BY <1>0 DEF RetireFilter
  <1>4. /\ OtherSlots(s) /\ slots'[s].device = p /\ slots'[s].host = TRUE
        /\ slots'[s].nextId = slots[s].nextId /\ slots'[s].current = None
        /\ slots'[s].nfilters = Fewer(o, slots[s].nfilters)
    BY <1>0, <1>2, <1>3 DEF SlotType, OtherSlots
  <1>5. /\ \A q \in Ports : ~faulted'[q] => ~faulted[q]
        /\ ~faulted'[p] => o \in {"ok", "rejected"}
    BY <1>2, <1>3, AnsweredExchange
  <1>6. /\ adapter'[p] = IF Done(o) THEN Remove(adapter[p], Can, old) ELSE adapter[p]
        /\ \A q \in Ports \ {p} : adapter'[q] = adapter[q]
    BY <1>2, <1>3, EffectOn DEF CountInv, Inv
  <1>7. ASSUME ~faulted'[p]
        PROVE  adapter'[p].filters[Can] = {} /\ slots'[s].nfilters = 0
    <2>1. adapter[p].filters[Can] = {old} /\ slots[s].nfilters = 1
      <3>1. ~faulted[slots[s].device] /\ slots[s].host
        BY <1>0, <1>2, <1>5, <1>7
      <3>2. /\ adapter[slots[s].device].filters[Can] = {slots[s].current} \ {None}
            /\ slots[s].nfilters = IF slots[s].current = None THEN 0 ELSE 1
        BY <1>2, <3>1, HostHas
      <3> QED BY <1>0, <1>1, <3>2
    <2>2. o = "ok"
      BY <1>3, <1>5, <1>7, <2>1 DEF Consistent
    <2>3. adapter'[p].filters[Can] = {old} \ {old}
      BY <1>2, <1>6, <2>1, <2>2, FilterSets, Constants DEF Done
    <2> QED BY <1>4, <2>1, <2>2, <2>3 DEF Fewer
  <1>8. Counted(s)'
    <2>1. slots'[s].nextId > 0 /\ slots'[s].host
      BY <1>2, <1>4 DEF CountInv, Counted
    <2> QED BY <1>4, <1>7, <2>1, HostKeeps
  <1> QED BY <1>2, <1>4, <1>5, <1>6, <1>8, CountAt

LEMMA InstallCount ==
  ASSUME NEW t \in Threads, CountInv, InstallFilter(t), NEW r \in Slots
  PROVE  Counted(r)'
  <1>0. PICK s, p, id : s = call[t].slot /\ p = slots[s].device /\ id = slots[s].nextFilter
    OBVIOUS
  <1>1. call[t].phase \in {"host", "install"} /\ call[t].phase \in Sections
    BY DEF InstallFilter, Holds, Sections
  <1>2. /\ s \in Slots /\ p \in Ports /\ slots[s] \in SlotType /\ slots \in [Slots -> SlotType]
        /\ adapter[p] \in AdapterType /\ slots[s].host = TRUE
        /\ \A q \in Slots \ {s} : slots[q].device # p
    BY <1>0, <1>1, SectionPort
       DEF CountInv, Inv, Typed, AdapterTyped, SectionsKeepTheirSlot, SlotType
  <1>3. slots[s].current = None /\ id # None
    BY <1>0, <1>2, Constants DEF InstallFilter, Holds, CountInv, Retired, SlotType
  <1>4. PICK o \in Outcomes :
          /\ Exchange(p, o) /\ Effect(p, o, Add(adapter[p], Can, id))
          /\ slots' = [slots EXCEPT ![s].nextFilter = @ + 1, ![s].nfilters = More(o, @),
                          ![s].current = IF o = "ok" THEN id ELSE @]
    BY <1>0 DEF InstallFilter
  <1>5. /\ OtherSlots(s) /\ slots'[s].device = p /\ slots'[s].host = TRUE
        /\ slots'[s].nextId = slots[s].nextId
        /\ slots'[s].current = IF o = "ok" THEN id ELSE None
        /\ slots'[s].nfilters = More(o, slots[s].nfilters)
    BY <1>0, <1>2, <1>3, <1>4 DEF SlotType, OtherSlots
  <1>6. /\ \A q \in Ports : ~faulted'[q] => ~faulted[q]
        /\ ~faulted'[p] => o \in {"ok", "rejected"}
    BY <1>2, <1>4, AnsweredExchange
  <1>7. /\ adapter'[p] = IF Done(o) THEN Add(adapter[p], Can, id) ELSE adapter[p]
        /\ \A q \in Ports \ {p} : adapter'[q] = adapter[q]
    BY <1>2, <1>4, EffectOn DEF CountInv, Inv
  <1>8. ASSUME ~faulted'[p]
        PROVE  /\ adapter'[p].filters[Can] = {slots'[s].current} \ {None}
               /\ slots'[s].nfilters = IF slots'[s].current = None THEN 0 ELSE 1
    <2>1. adapter[p].filters[Can] = {} /\ slots[s].nfilters = 0
      <3>1. ~faulted[slots[s].device] /\ slots[s].host
        BY <1>0, <1>2, <1>6, <1>8
      <3>2. /\ adapter[slots[s].device].filters[Can] = {slots[s].current} \ {None}
            /\ slots[s].nfilters = IF slots[s].current = None THEN 0 ELSE 1
        BY <1>2, <3>1, HostHas
      <3> QED BY <1>0, <1>3, <3>2
    <2>2. CASE o = "ok"
      <3>1. adapter'[p].filters[Can] = {} \cup {id}
        BY <1>2, <1>7, <2>1, <2>2, FilterSets, Constants DEF Done
      <3> QED BY <1>3, <1>5, <2>1, <2>2, <3>1 DEF More
    <2>3. CASE o = "rejected"
      BY <1>5, <1>7, <2>1, <2>3 DEF Done, More
    <2> QED BY <1>6, <1>8, <2>2, <2>3
  <1>9. Counted(s)'
    <2>1. slots'[s].nextId > 0 /\ slots'[s].host
      BY <1>2, <1>5 DEF CountInv, Counted
    <2> QED BY <1>5, <1>8, <2>1, HostKeeps
  <1> QED BY <1>2, <1>5, <1>6, <1>7, <1>9, CountAt


LEMMA PeriodicCount ==
  ASSUME NEW t \in Threads, CountInv, StartPeriodic(t), NEW r \in Slots
  PROVE  Counted(r)'
  <1>0. PICK s, p : s = call[t].slot /\ p = slots[s].device
    OBVIOUS
  <1>1. call[t].phase = "chan" /\ call[t].phase \in Sections
    BY DEF StartPeriodic, Holds, Sections
  <1>2. /\ s \in Slots /\ p \in Ports /\ slots[s] \in SlotType /\ slots \in [Slots -> SlotType]
        /\ \A q \in Slots \ {s} : slots[q].device # p
    BY <1>0, <1>1, SectionPort
  <1>3. slots[s].host = FALSE /\ Wire(s) # None
    BY <1>0, <1>1, <1>2
       DEF CountInv, Inv, SectionsKeepTheirSlot, SlotsOwnSessions, SlotType, Wire
  <1>4. PICK o \in Outcomes : Exchange(p, o)
    BY <1>0 DEF StartPeriodic
  <1>5. UNCHANGED adapter /\ slots' = [slots EXCEPT ![s].nextId = @ + 1]
    BY <1>0 DEF StartPeriodic
  <1>6. /\ OtherSlots(s) /\ slots'[s].device = p /\ slots'[s].chan = slots[s].chan
        /\ slots'[s].host = FALSE /\ slots'[s].nextId = slots[s].nextId + 1
        /\ slots'[s].nfilters = slots[s].nfilters
    BY <1>0, <1>2, <1>3, <1>5 DEF SlotType, OtherSlots
  <1>7. \A q \in Ports : ~faulted'[q] => ~faulted[q]
    BY <1>2, <1>4, AnsweredExchange
  <1>8. slots[s].nextId \in Nat /\ slots[s].nextId > 0 /\ HandleSpan \in Nat
    BY <1>2, ShimAssumption DEF ShimAssumption, CountInv, Counted, SlotType
  <1>9. Counted(s)'
    <2>1. slots'[s].nextId > 0
      BY <1>6, <1>8
    <2> SUFFICES ASSUME ~faulted'[p], slots'[s].nextId <= HandleSpan + 1
                 PROVE  RawCounted(s)'
      BY <1>6, <2>1 DEF Counted, RawCounted
    <2>2. slots[s].nextId <= HandleSpan + 1
      BY <1>6, <1>8
    <2>3. RawCounted(s)
      <3>1. ~faulted[slots[s].device] /\ Counted(s)
        BY <1>0, <1>2, <1>7 DEF CountInv
      <3> QED BY <1>3, <3>1, Zenon DEF Counted
    <2>4. Wire(s)' = Wire(s)
      BY <1>3, <1>6 DEF Wire
    <2>5. Stock(s)' = Stock(s)
      BY <1>0, <1>5, <1>6, <2>4 DEF Stock
    <2>6. HandedOutBy(s) \subseteq HandedOutBy(s)'
      <3>1. 1 .. slots[s].nextId - 1 \subseteq 1 .. (slots[s].nextId + 1) - 1
        BY <1>8
      <3> QED BY <1>6, <3>1 DEF HandedOutBy
    <2> QED BY <1>6, <2>2, <2>3, <2>5, <2>6 DEF RawCounted
  <1> QED BY <1>2, <1>5, <1>6, <1>7, <1>9, CountAt

LEMMA ConnectCount ==
  ASSUME NEW t \in Threads, CountInv, Connect(t), NEW r \in Slots
  PROVE  Counted(r)'
  <1>0. PICK s, p, x : /\ s = call[t].slot /\ p = slots[s].device
                       /\ x = IF call[t].arg = HostIsoTp THEN Can ELSE call[t].arg
    OBVIOUS
  <1>1. call[t].phase = "connect" /\ call[t].phase \in Sections
    BY DEF Connect, Sections
  <1>2. /\ s \in Slots /\ p \in Ports /\ slots[s] \in SlotType /\ slots \in [Slots -> SlotType]
        /\ adapter[p] \in AdapterType
        /\ \A q \in Slots \ {s} : slots[q].device # p
    BY <1>0, <1>1, SectionPort DEF CountInv, Inv, Typed, AdapterTyped
  <1>3. x \in Protos
    <2>1. call[t].phase # "idle"
      BY <1>1
    <2>2. call[t].arg \in Protos \cup {HostIsoTp}
      BY <1>1, <2>1 DEF CountInv, Inv, Typed, ArgsFit, Args
    <2> QED BY <1>0, <2>2, Constants
  <1>4. slots[s].host = FALSE /\ slots[s].chan = None /\ slots[s].nextId > 0
    BY <1>0, <1>1, <1>2, Constants
       DEF CountInv, Counted, Inv, SectionsKeepTheirSlot, Wire, SlotType
  <1>5. PICK o \in Outcomes :
          /\ Exchange(p, o) /\ Effect(p, o, On(adapter[p], x))
          /\ slots' = IF o # "ok" THEN slots
                      ELSE IF call[t].arg = HostIsoTp
                        THEN [slots EXCEPT ![s] =
                               [[slots[s] EXCEPT !.nfilters = 0, !.current = None,
                                   !.nextFilter = 0] EXCEPT !.host = TRUE]]
                        ELSE [slots EXCEPT ![s] =
                               [[slots[s] EXCEPT !.nfilters = 0, !.current = None,
                                   !.nextFilter = 0] EXCEPT !.chan = x]]
    BY <1>0 DEF Connect
  <1>6. \A q \in Ports : ~faulted'[q] => ~faulted[q]
    BY <1>2, <1>5, AnsweredExchange
  <1>7. /\ adapter'[p] = IF Done(o) THEN On(adapter[p], x) ELSE adapter[p]
        /\ \A q \in Ports \ {p} : adapter'[q] = adapter[q]
    BY <1>2, <1>5, EffectOn DEF CountInv, Inv
  <1>8. o = "ok" => adapter'[p].filters[x] = {}
    BY <1>2, <1>3, <1>7, FilterSets DEF Done
  <1>9. OtherSlots(s) /\ Counted(s)'
    <2>1. CASE o # "ok"
      <3>1. UNCHANGED slots
        BY <1>5, <2>1
      <3> QED BY <1>4, <3>1, NothingToCount DEF OtherSlots
    <2>2. CASE o = "ok" /\ call[t].arg = HostIsoTp
      <3>1. slots' = [slots EXCEPT ![s] =
                       [slots[s] EXCEPT !.nfilters = 0, !.current = None,
                          !.nextFilter = 0, !.host = TRUE]]
        BY <1>2, <1>5, <2>2 DEF SlotType
      <3>2. /\ OtherSlots(s) /\ slots'[s].device = p /\ slots'[s].host = TRUE
            /\ slots'[s].nextId = slots[s].nextId /\ slots'[s].current = None
            /\ slots'[s].nfilters = 0
        BY <1>0, <1>2, <3>1 DEF SlotType, OtherSlots
      <3>3. adapter'[p].filters[Can] = {None} \ {None}
        BY <1>0, <1>8, <2>2
      <3>4. slots'[s].host /\ slots'[s].nextId > 0
        BY <1>4, <3>2
      <3> QED BY <3>2, <3>3, <3>4, HostKeeps
    <2>3. CASE o = "ok" /\ call[t].arg # HostIsoTp
      <3>1. slots' = [slots EXCEPT ![s] =
                       [slots[s] EXCEPT !.nfilters = 0, !.current = None,
                          !.nextFilter = 0, !.chan = x]]
        BY <1>2, <1>5, <2>3 DEF SlotType
      <3>2. /\ OtherSlots(s) /\ slots'[s].device = p /\ slots'[s].host = FALSE
            /\ slots'[s].chan = x /\ slots'[s].nextId = slots[s].nextId
            /\ slots'[s].nfilters = 0
        BY <1>0, <1>2, <1>4, <3>1 DEF SlotType, OtherSlots
      <3>3. Stock(s)' = {} /\ slots'[s].nextId > 0
        BY <1>4, <1>8, <2>3, <3>2 DEF Stock, Wire
      <3>4. RawCounted(s)'
        BY <3>2, <3>3, NoneOrOne DEF RawCounted
      <3> QED BY <3>2, <3>3, <3>4 DEF Counted
    <2> QED BY <2>1, <2>2, <2>3
  <1> QED BY <1>2, <1>6, <1>7, <1>9, CountAt

\* A channel is dropped from slot s of port p, and the slot keeps none.
LEMMA DropCount ==
  ASSUME CountInv, NEW s \in Slots, NEW p \in Ports, slots[s].device = p, DropChannel(s),
         slots' = WithoutChannel(s) \/ slots' = [slots EXCEPT ![s] = EmptySlot],
         NEW r \in Slots
  PROVE  Counted(r)'
  <1>1. slots \in [Slots -> SlotType]
    BY DEF CountInv, Inv, Typed, SlotsTyped
  <1>2. /\ OtherSlots(s) /\ slots'[s].host = FALSE /\ slots'[s].chan = None
        /\ slots'[s].nextId > 0
    <2>1. slots[s].nextId > 0
      BY DEF CountInv, Counted
    <2>2. CASE slots' = WithoutChannel(s)
      BY <1>1, <2>1, <2>2 DEF WithoutChannel, SlotType, OtherSlots
    <2>3. CASE slots' = [slots EXCEPT ![s] = EmptySlot]
      BY <1>1, <2>3 DEF EmptySlot, OtherSlots
    <2> QED BY <2>2, <2>3
  <1>3. WireStep /\ \A q \in Ports \ {p} : adapter'[q] = adapter[q]
    BY DropLeavesNothing DEF CountInv
  <1>4. \A q \in Slots \ {s} : slots[q].device # p
    BY Constants DEF CountInv, Inv, SlotsOwnSessions
  <1> QED BY <1>2, <1>3, <1>4, NothingToCount, CountAt DEF WireStep

LEMMA ChannelCount ==
  ASSUME NEW t \in Threads, CountInv, Close(t) \/ ConnectDrops(t) \/ Disconnect(t),
         NEW r \in Slots
  PROVE  Counted(r)'
  <1>0. PICK s, p : s = call[t].slot /\ p = slots[s].device
    OBVIOUS
  <1>1. call[t].phase # "idle"
    BY DEF Close, ConnectDrops, Disconnect, Locks
  <1>2. s \in Slots /\ p \in Ports \cup {None}
    BY <1>0, <1>1, SlotOf DEF CountInv, Inv, SlotType
  <1>3. CASE UNCHANGED <<slots, adapter, wireVars>>
    BY <1>3, SteadyCount, QuietWire DEF CountInv, Inv
  <1>4. CASE /\ DropChannel(s) /\ p # None
             /\ slots' = WithoutChannel(s) \/ slots' = [slots EXCEPT ![s] = EmptySlot]
    BY <1>0, <1>2, <1>4, DropCount
  <1>5. CASE Close(t)
    BY <1>0, <1>3, <1>4, <1>5 DEF Close
  <1>6. CASE ConnectDrops(t)
    BY <1>0, <1>3, <1>4, <1>6 DEF ConnectDrops
  <1>7. CASE Disconnect(t)
    <2>1. Wire(s) # None => p # None
      BY <1>0, <1>2 DEF CountInv, Inv, SlotsOwnSessions
    <2> QED BY <1>0, <1>3, <1>4, <1>7, <2>1 DEF Disconnect
  <1> QED BY <1>5, <1>6, <1>7

LEMMA OpenCount ==
  ASSUME NEW t \in Threads, CountInv, Open(t), NEW r \in Slots
  PROVE  Counted(r)'
  <1>0. PICK p : p = call[t].arg
    OBVIOUS
  <1>1. p \in Ports
    <2>1. call[t].phase # "idle" /\ call[t].op = "Open"
      BY DEF Open, Locks
    <2> QED BY <1>0, <2>1, SlotOf DEF CountInv, Inv, Args
  <1>2. CASE UNCHANGED <<slots, sess, adapter, wedged, faulted>>
    <2>1. WireStep
      BY <1>2 DEF CountInv, Inv, WedgedFaulted, WireStep
    <2> QED BY <1>2, <2>1, SteadyCount
  <1>3. CASE /\ sess[p] = "free"
             /\ \E s \in Slots : slots' = [slots EXCEPT ![s] = [EmptySlot EXCEPT !.device = p]]
             /\ faulted' = [faulted EXCEPT ![p] = FALSE]
             /\ adapter' = [adapter EXCEPT ![p] = Blank]
    <2>1. PICK s \in Slots : slots' = [slots EXCEPT ![s] = [EmptySlot EXCEPT !.device = p]]
      BY <1>3
    <2>2. /\ OtherSlots(s) /\ slots'[s].chan = None /\ slots'[s].host = FALSE
          /\ slots'[s].nextId > 0
      BY <2>1 DEF CountInv, Inv, Typed, SlotsTyped, OtherSlots, EmptySlot
    <2>3. \A q \in Slots : slots[q].device # p
      BY <1>1, <1>3 DEF CountInv, Inv, SlotsOwnSessions
    <2>4. faulted \in [Ports -> BOOLEAN] /\ adapter \in [Ports -> AdapterType]
      BY DEF CountInv, Inv, Typed, WireTyped, AdapterTyped
    <2>5. \A q \in Ports \ {p} : (faulted'[q] <=> faulted[q]) /\ adapter'[q] = adapter[q]
      BY <1>1, <1>3, <2>4, Zenon
    <2> QED BY <1>1, <2>2, <2>3, <2>5, NothingToCount, CountAt
  <1> QED BY <1>0, <1>2, <1>3 DEF Open, wireVars

-----------------------------------------------------------------------------
(* The theorem about the count.                                            *)

LEMMA InitCount == Init => CountInv
  <1> SUFFICES ASSUME Init PROVE CountInv
    OBVIOUS
  <1>1. \A s \in Slots : /\ slots[s].chan = None /\ slots[s].host = FALSE
                         /\ slots[s].nextId > 0
    BY DEF Init, EmptySlot
  <1>2. \A s \in Slots : Counted(s)
    BY <1>1 DEF Counted, Wire
  <1>3. Retired
    BY DEF Init, Idle, Retired
  <1> QED BY <1>2, <1>3, InitInv DEF CountInv

LEMMA NextCount == CountInv /\ [Next]_vars => CountInv'
  <1> SUFFICES ASSUME CountInv, [Next]_vars PROVE CountInv'
    OBVIOUS
  <1>1. Inv /\ Inv'
    BY NextInv DEF CountInv
  <1>2. CASE UNCHANGED vars
    <2>1. WireStep /\ UNCHANGED <<slots, adapter, call>>
      BY <1>1, <1>2, QuietWire DEF vars, wireVars, Inv
    <2>2. Retired'
      BY <2>1 DEF CountInv, Retired
    <2> QED BY <1>1, <2>1, <2>2, SteadyCount DEF CountInv
  <1>3. ASSUME NEW t \in Threads, Call(t) \/ Wait(t) \/ Section(t)
        PROVE  Retired' /\ \A r \in Slots : Counted(r)'
    <2>1. Retired'
      BY <1>1, <1>3, ActionRetired
    <2>2. CASE \/ Call(t) \/ BadParameter(t) \/ FindPoison(t) \/ LookForHost(t)
               \/ LookForChannel(t) \/ Answers(t) \/ TakeMessage(t)
      <3>1. WireStep
        BY <1>1, <2>2, WaitQuiet, SessionQuiet DEF Quiet
      <3>2. UNCHANGED <<slots, adapter>>
        BY <1>1, <2>2, AnswersFacts
           DEF Call, BadParameter, FindPoison, LookForHost, LookForChannel, TakeMessage, Inv
      <3> QED BY <2>1, <3>1, <3>2, SteadyCount
    <2>3. CASE StartFilter(t) \/ StopFilter(t) \/ RetireFilter(t) \/ InstallFilter(t)
      BY <2>1, <2>3, StartCount, StopCount, RetireCount, InstallCount
    <2>4. CASE StartPeriodic(t) \/ Connect(t) \/ Open(t)
      BY <2>1, <2>4, PeriodicCount, ConnectCount, OpenCount
    <2>5. CASE Close(t) \/ ConnectDrops(t) \/ Disconnect(t)
      BY <2>1, <2>5, ChannelCount
    <2> QED BY <1>3, <2>2, <2>3, <2>4, <2>5 DEF Wait, Section, Answers
  <1>4. ASSUME NEW p \in Ports, EndSession(p)
        PROVE  Retired' /\ \A r \in Slots : Counted(r)'
    <2>1. WireStep /\ UNCHANGED <<slots, adapter, call>>
      BY <1>1, <1>4, QuietWire DEF EndSession, Inv
    <2>2. Retired'
      BY <2>1 DEF CountInv, Retired
    <2> QED BY <2>1, <2>2, SteadyCount
  <1> QED BY <1>1, <1>2, <1>3, <1>4 DEF Next, CountInv

LEMMA CountInvCounts == CountInv => FiltersCounted
  <1> SUFFICES ASSUME CountInv, NEW s \in Slots, Wire(s) # None,
                      ~faulted[slots[s].device], slots[s].nextId <= HandleSpan + 1
               PROVE  slots[s].nfilters = Cardinality(adapter[slots[s].device].filters[Wire(s)])
    BY DEF FiltersCounted
  <1>1. IF slots[s].host THEN HostCounted(s) ELSE RawCounted(s)
    BY Zenon DEF CountInv, Counted
  <1>2. slots[s].host \in BOOLEAN
    BY DEF CountInv, Inv, Typed, SlotsTyped, SlotType
  <1> QED BY <1>1, <1>2 DEF HostCounted, RawCounted, Stock

\* The count behind the "no filter installed" hint of PassThruReadMsgs is the
\* number of filters the adapter has for the channel, for any threads and any
\* history of refused starts, unknown handles and reconnects, as long as every
\* exchange was answered and the handles of the device have not wrapped (raw.rs
\* RawChannel::start_filter, stop_filter; channel.rs Channel::set_filter).
THEOREM CountIsRight == Spec => []FiltersCounted
  <1>1. Spec => []CountInv
    BY InitCount, NextCount, PTL DEF Spec
  <1> QED BY <1>1, CountInvCounts, PTL


-----------------------------------------------------------------------------
(* The calls of the threads are those of the table of PassThru.            *)

\* The table that PassThru speaks of, and what each thread asked of it.
Table == [s \in Slots |-> IF Connecting(s) THEN call[holder].was ELSE Kind(s)]

Asked == [t \in Threads |-> [op |-> call[t].op, slot |-> call[t].slot, moved |-> call[t].moved]]

Abs == INSTANCE PassThru WITH table <- Table, asked <- Asked, code <- result

AtRest == \A t \in Threads : call[t].phase = "idle" => call[t] = Idle

\* A PassThruConnect that is half done found a device.
WasThere == \A t \in Threads : call[t].phase = "connect" => call[t].was # "free"

\* A message call that looked, found no host channel, and would find one now,
\* was told that its channel changed.
Aimed ==
  \A t \in Threads :
    (call[t].phase = "lock" /\ call[t].op \in TwoLookOps /\ slots[call[t].slot].host) =>
      call[t].moved

RefInv == Inv /\ AtRest /\ WasThere /\ Aimed

Prepared == AtRest /\ WasThere /\ Aimed

LEMMA IdleFields == Idle.op = "None" /\ Idle.slot = 0 /\ Idle.moved = FALSE
  BY DEF Idle

\* Telling a thread that is in no call changes nothing.
LEMMA SameUpdate ==
  ASSUME NEW D, NEW f, NEW x \in D, f = [y \in D |-> f[y]], f[x] = FALSE
  PROVE  [f EXCEPT ![x] = FALSE] = f
  BY Zenon

LEMMA IdleTold == [Idle EXCEPT !.moved = FALSE] = Idle
  <1> DEFINE D == {"op", "slot", "arg", "phase", "moved", "was"}
  <1>1. Idle = [y \in D |-> Idle[y]]
    BY DEF Idle
  <1>2. Idle["moved"] = FALSE /\ "moved" \in D
    BY DEF Idle
  <1> HIDE DEF D
  <1> QED BY <1>1, <1>2, SameUpdate

\* A call that ends: no channel becomes a host channel but the one it changed.
LEMMA LeavePrepared ==
  ASSUME NEW t \in Threads, NEW code, NEW changed, RefInv, Leave(t, code, changed),
         \A u \in Threads : (call[u].phase = "lock" /\ slots'[call[u].slot].host) =>
                              slots[call[u].slot].host \/ call[u].slot \in changed
  PROVE  Prepared'
  <1>1. call'[t] = Idle
    BY DEF Leave
  <1>2. ASSUME NEW u \in Threads \ {t}
        PROVE  /\ call'[u].phase = call[u].phase /\ call'[u].op = call[u].op
               /\ call'[u].slot = call[u].slot /\ call'[u].was = call[u].was
               /\ call'[u].moved =
                    (call[u].moved \/ (call[u].op \in TwoLookOps /\ call[u].slot \in changed))
               /\ call[u] = Idle => call'[u] = Idle
    <2> DEFINE told == call[u].moved \/ (call[u].op \in TwoLookOps /\ call[u].slot \in changed)
    <2>1. call[u] \in CallType
      BY DEF RefInv, Inv, Typed, CallsTyped
    <2>2. call'[u] = [call[u] EXCEPT !.moved = told]
      BY Zenon DEF Leave
    <2>3. call[u] = Idle => told = FALSE
      BY DEF Idle, TwoLookOps
    <2>4. told \in BOOLEAN
      BY <2>1 DEF CallType
    <2> HIDE DEF told
    <2>5. call[u] = Idle => call'[u] = Idle
      BY <2>2, <2>3, IdleTold, Zenon
    <2>6. /\ call'[u].phase = call[u].phase /\ call'[u].op = call[u].op
          /\ call'[u].slot = call[u].slot /\ call'[u].was = call[u].was
          /\ call'[u].moved = told
      BY <2>1, <2>2, <2>4 DEF CallType
    <2> QED BY <2>5, <2>6 DEF told
  <1>3. AtRest'
    BY <1>1, <1>2 DEF AtRest, RefInv
  <1>4. WasThere'
    BY <1>1, <1>2, IdleTyped DEF WasThere, RefInv
  <1>5. Aimed'
    <2> SUFFICES ASSUME NEW u \in Threads, call'[u].phase = "lock",
                        call'[u].op \in TwoLookOps, slots'[call'[u].slot].host
                 PROVE  call'[u].moved
      BY DEF Aimed
    <2>1. u # t
      BY <1>1, IdleTyped
    <2>2. slots[call[u].slot].host \/ call[u].slot \in changed
      BY <1>2, <2>1
    <2> QED BY <1>2, <2>1, <2>2 DEF Aimed, RefInv
  <1> QED BY <1>3, <1>4, <1>5 DEF Prepared

\* A step of one thread that does not end its call, or that tells nobody.
LEMMA OwnPrepared ==
  ASSUME NEW t \in Threads, RefInv, \A u \in Threads \ {t} : call'[u] = call[u],
         call'[t].phase = "idle" => call'[t] = Idle,
         call'[t].phase = "connect" => call'[t].was # "free",
         (call'[t].phase = "lock" /\ call'[t].op \in TwoLookOps) => ~slots'[call'[t].slot].host,
         \A u \in Threads \ {t} : (call[u].phase = "lock" /\ slots'[call[u].slot].host) =>
                                    slots[call[u].slot].host
  PROVE  Prepared'
  BY DEF RefInv, Prepared, AtRest, WasThere, Aimed

\* What an action does to host channels.
LEMMA SameHosts ==
  ASSUME SameChannels, RefInv, NEW u \in Threads
  PROVE  call[u].phase # "idle" =>
           (slots'[call[u].slot].host <=> slots[call[u].slot].host)
  BY DEF SameChannels, RefInv, Inv, Typed, ArgsFit

-----------------------------------------------------------------------------
(* How the table reads.                                                    *)

LEMMA NotConnecting ==
  ASSUME NEW t \in Threads, SectionsKeepTheirSlot, call[t].phase # "connect",
         holder = NoThread \/ call[t].phase \in Sections
  PROVE  \A s : ~Connecting(s)
  BY DEF Connecting, SectionsKeepTheirSlot

LEMMA TableReads ==
  ASSUME \A s \in Slots : ~Connecting(s)
  PROVE  Table = [s \in Slots |-> Kind(s)]
  BY DEF Table

LEMMA TableReadsNext ==
  ASSUME holder' = NoThread
  PROVE  Table' = [s \in Slots |-> Kind(s)']
  BY DEF Table, Connecting

LEMMA SameKinds ==
  ASSUME SameChannels, NEW s \in Slots
  PROVE  Kind(s)' = Kind(s)
  BY DEF SameChannels, Kind

LEMMA AskedOf ==
  ASSUME NEW t \in Threads
  PROVE  Asked[t].op = call[t].op /\ Asked[t].slot = call[t].slot /\ Asked[t].moved = call[t].moved
  BY DEF Asked

LEMMA Asking ==
  ASSUME NEW t \in Threads, RefInv, call[t].phase # "idle"
  PROVE  Asked[t] # Abs!NoCall /\ call[t].op \in Ops /\ call[t].slot \in Slots
  <1>1. call[t].op \in Ops /\ call[t].slot \in Slots
    BY DEF RefInv, Inv, Typed, ArgsFit
  <1>2. "None" \notin Ops
    BY DEF Ops, DeviceOps, ChannelOps, TwoLookOps, FirmwareOps
  <1> QED BY <1>1, <1>2, AskedOf DEF Abs!NoCall

\* A call returns, as PassThru sees it.
LEMMA AbsReturn ==
  ASSUME NEW t \in Threads, NEW code, NEW changed, RefInv, Leave(t, code, changed)
  PROVE  Abs!Return(t, code, changed)
  <1>1. result' = [result EXCEPT ![t] = code]
    BY DEF Leave
  <1>2. Asked' = [u \in Threads |->
          IF u = t THEN Abs!NoCall
          ELSE [Asked[u] EXCEPT !.moved =
                  @ \/ (Asked[u].op \in Abs!MessageOps /\ Asked[u].slot \in changed)]]
    <2>1. Asked'[t] = Abs!NoCall
      BY DEF Leave, Asked, Idle, Abs!NoCall
    <2>2. ASSUME NEW u \in Threads \ {t}
          PROVE  Asked'[u] = [Asked[u] EXCEPT !.moved =
                   @ \/ (Asked[u].op \in Abs!MessageOps /\ Asked[u].slot \in changed)]
      <3> DEFINE told == call[u].moved \/ (call[u].op \in TwoLookOps /\ call[u].slot \in changed)
      <3>1. call'[u] = [call[u] EXCEPT !.moved = told]
        BY Zenon DEF Leave
      <3>2. call[u] \in CallType
        BY DEF RefInv, Inv, Typed, CallsTyped
      <3>3. Abs!MessageOps = TwoLookOps
        BY DEF Abs!MessageOps, TwoLookOps
      <3>4. told = (Asked[u].moved \/ (Asked[u].op \in Abs!MessageOps /\ Asked[u].slot \in changed))
        BY <3>3, AskedOf
      <3> HIDE DEF told
      <3>5. Asked'[u] = [Asked[u] EXCEPT !.moved = told]
        BY <3>1, <3>2 DEF Asked, CallType
      <3> QED BY <3>4, <3>5, Zenon
    <2> QED BY <2>1, <2>2, Zenon DEF Asked
  <1> QED BY <1>1, <1>2 DEF Abs!Return

\* The codes that tell the truth about slot s and change nothing.
Fits(t, c) ==
  LET op == call[t].op
      has == Kind(call[t].slot)
  IN
  \/ c \in {"Param", "Failed"}
  \/ c = "InvalidDevice" /\ op \in DeviceOps /\ has = "free"
  \/ /\ c = "InvalidChannel" /\ op \in ChannelOps \cup {"Disconnect"}
     /\ has \notin Abs!Serves(op) \/ call[t].moved
  \/ c = "Error" /\ op = "Open"
  \/ /\ c \in {"Ok", "Error", "Empty", "EmptyNoFilter", "InvalidFilter"}
     /\ \/ op = "Command" /\ has # "free"
        \/ op \in ChannelOps /\ has \in Abs!Serves(op)

LEMMA AbsAnswer ==
  ASSUME NEW t \in Threads, NEW c, RefInv, call[t].phase # "idle", Fits(t, c),
         c \in {"Param", "Failed"} \/ Table[call[t].slot] = Kind(call[t].slot),
         Abs!Return(t, c, {}), Table' = Table
  PROVE  Abs!Next
  <1>1. Asked[t] # Abs!NoCall
    BY Asking
  <1>2. result'[t] = c
    BY DEF Abs!Return, RefInv, Inv, Typed, CallsTyped
  <1>3. /\ Abs!DeviceOps = DeviceOps /\ Abs!ChannelOps = ChannelOps \cup {"Disconnect"}
        /\ "Disconnect" \notin ChannelOps
    BY DEF Abs!DeviceOps, DeviceOps, Abs!ChannelOps, ChannelOps, Abs!MessageOps, TwoLookOps,
           FirmwareOps
  <1>4. Abs!Answer(t)
    <2>1. CASE c \in {"Param", "Failed"}
      BY <1>2, <2>1 DEF Abs!Answer
    <2>2. CASE c \notin {"Param", "Failed"}
      BY <1>2, <1>3, <2>2, AskedOf DEF Abs!Answer, Fits
    <2> QED BY <2>1, <2>2
  <1> QED BY <1>1, <1>4 DEF Abs!Next


-----------------------------------------------------------------------------
(* Steps of Shim that PassThru sees as an answer, or does not see.         *)

LEMMA Seen ==
  ASSUME NEW t \in Threads, NEW c, RefInv, call[t].phase \notin {"idle", "connect"}, Fits(t, c),
         Return(t, c), SameChannels, holder = NoThread \/ call[t].phase \in Sections
  PROVE  Abs!Next /\ Prepared'
  <1>1. \A s \in Slots : ~Connecting(s)
    BY NotConnecting DEF RefInv, Inv
  <1>2. call[t].slot \in Slots
    BY Asking
  <1>3. Leave(t, c, {}) /\ holder' = NoThread
    BY DEF Return, Leave
  <1>4. Table = [s \in Slots |-> Kind(s)] /\ Table' = [s \in Slots |-> Kind(s)']
    BY <1>1, <1>3, TableReads, TableReadsNext
  <1>5. Table' = Table /\ Table[call[t].slot] = Kind(call[t].slot)
    BY <1>2, <1>4, SameKinds
  <1>6. Abs!Next
    BY <1>3, <1>5, AbsReturn, AbsAnswer
  <1>7. \A u \in Threads : (call[u].phase = "lock" /\ slots'[call[u].slot].host) =>
                            slots[call[u].slot].host
    BY SameHosts
  <1>8. Prepared'
    BY <1>3, <1>7, LeavePrepared
  <1> QED BY <1>6, <1>8

\* The slot of a section, by its phase.
LEMMA SectionKind ==
  ASSUME NEW t \in Threads, RefInv, call[t].phase \in {"host", "install", "chan", "more"}
  PROVE  /\ call[t].phase \in {"host", "install"} => Kind(call[t].slot) = "host"
         /\ call[t].phase = "chan" => Kind(call[t].slot) = "raw"
         /\ Kind(call[t].slot) \in {"host", "raw"}
  <1>1. call[t].phase \in Sections /\ call[t].slot \in Slots
    BY Asking DEF Sections
  <1>2. slots[call[t].slot].device # None
    BY <1>1 DEF RefInv, Inv, SectionsKeepTheirSlot
  <1> QED BY <1>1, <1>2 DEF RefInv, Inv, SectionsKeepTheirSlot, SlotsOwnSessions, Kind, Wire


LEMMA AnswerSeen ==
  ASSUME NEW t \in Threads, RefInv, Answers(t) \/ FindPoison(t)
  PROVE  Abs!Next /\ Prepared'
  <1>1. SameChannels
    BY SessionQuiet, WaitQuiet DEF Quiet, RefInv
  <1>2. call[t].phase \notin {"idle", "connect"} /\ (holder = NoThread \/ call[t].phase \in Sections)
    BY DEF Answers, FindPoison, DeviceCommand, WriteMessages, Ioctl, InitFails, BadMessage,
           ReadEnds, ReadFails, Panic, Holds, Reads, Locks, Sections, Waiting
  <1>3. \A c : Code(c) \in {"Ok", "Error"} /\ ReadCode(t) \in {"Ok", "EmptyNoFilter", "Empty"}
    BY DEF Code, ReadCode
  <1>4. \A op : /\ "host" \in Abs!Serves(op) <=> op \in TwoLookOps \cup {"Disconnect"}
                /\ "raw" \in Abs!Serves(op)
    BY DEF Abs!Serves, Abs!MessageOps, TwoLookOps
  <1>5. \E c : Return(t, c) /\ Fits(t, c)
    <2>1. CASE FindPoison(t)
      BY <2>1 DEF FindPoison, Fits
    <2>2. CASE DeviceCommand(t)
      BY <1>3, <2>2 DEF DeviceCommand, Fits, DeviceOps, Kind
    <2>3. CASE BadMessage(t) \/ Panic(t) \/ InitFails(t)
      BY <2>3 DEF BadMessage, Panic, InitFails, Fits
    <2>4. CASE WriteMessages(t)
      <3>1. PICK c : Return(t, c) /\ c \in {"Ok", "Error"}
        BY <1>3, <2>4 DEF WriteMessages
      <3>2. call[t].op = "Write" /\ Kind(call[t].slot) \in {"host", "raw"}
        BY <2>4, SectionKind DEF WriteMessages, Holds
      <3> QED BY <1>4, <3>1, <3>2 DEF Fits, ChannelOps, TwoLookOps
    <2>5. CASE Ioctl(t)
      <3>1. PICK c : Return(t, c) /\ c \in {"Ok", "Error"}
        BY <1>3, <2>5 DEF Ioctl
      <3>2. call[t].op = "Ioctl" /\ Kind(call[t].slot) = "raw"
        BY <2>5, SectionKind DEF Ioctl, Holds
      <3> QED BY <1>4, <3>1, <3>2 DEF Fits, ChannelOps, FirmwareOps
    <2>6. CASE ReadEnds(t) \/ ReadFails(t)
      <3>1. PICK c : Return(t, c) /\ c \in {"Ok", "Error", "Empty", "EmptyNoFilter"}
        BY <1>3, <2>6 DEF ReadEnds, ReadFails
      <3>2. call[t].op = "Read" /\ Kind(call[t].slot) \in {"host", "raw"}
        BY <2>6, SectionKind DEF ReadEnds, ReadFails, Reads
      <3> QED BY <1>4, <3>1, <3>2 DEF Fits, ChannelOps, TwoLookOps
    <2> QED BY <2>1, <2>2, <2>3, <2>4, <2>5, <2>6 DEF Answers
  <1> QED BY <1>1, <1>2, <1>5, Seen

LEMMA FilterSeen ==
  ASSUME NEW t \in Threads, RefInv,
         InstallFilter(t) \/ StartFilter(t) \/ StopFilter(t) \/ StartPeriodic(t)
  PROVE  Abs!Next /\ Prepared'
  <1>1. SameChannels
    BY FilterQuiet DEF Quiet, RefInv
  <1>2. call[t].phase \in {"host", "install", "chan"} /\ call[t].phase \in Sections
    BY DEF InstallFilter, StartFilter, StopFilter, StartPeriodic, Holds, Sections
  <1>3. PICK c : Return(t, c) /\ c \in {"Ok", "Error", "InvalidFilter"}
    BY DEF InstallFilter, StartFilter, StopFilter, StartPeriodic, Code
  <1>4. /\ call[t].op \in ChannelOps
        /\ call[t].op \in TwoLookOps \/ Kind(call[t].slot) = "raw"
    BY SectionKind DEF InstallFilter, StartFilter, StopFilter, StartPeriodic, Holds,
       ChannelOps, TwoLookOps, FirmwareOps
  <1>5. Kind(call[t].slot) \in {"host", "raw"}
    BY <1>2, SectionKind
  <1>6. Fits(t, c)
    BY <1>3, <1>4, <1>5 DEF Fits, Abs!Serves, Abs!MessageOps, TwoLookOps
  <1> QED BY <1>1, <1>2, <1>3, <1>6, Seen

\* A step of thread t that PassThru does not see.
LEMMA Unseen ==
  ASSUME NEW t \in Threads, RefInv, \A u \in Threads \ {t} : call'[u] = call[u],
         DOMAIN call' = Threads, UNCHANGED result,
         call'[t].op = call[t].op, call'[t].slot = call[t].slot, call'[t].moved = call[t].moved,
         SameChannels, \A s \in Slots : ~Connecting(s) /\ ~Connecting(s)'
  PROVE  UNCHANGED Abs!vars
  <1>1. Asked' = Asked
    <2>1. \A u \in Threads : /\ call'[u].op = call[u].op /\ call'[u].slot = call[u].slot
                             /\ call'[u].moved = call[u].moved
      OBVIOUS
    <2> QED BY <2>1 DEF Asked
  <1>2. Table' = Table
    BY SameKinds DEF Table
  <1> QED BY <1>1, <1>2 DEF Abs!vars

LEMMA EnterUnseen ==
  ASSUME NEW t \in Threads, NEW phase \in Sections \cup Waiting, phase # "connect", RefInv,
         Enter(t, phase), SameChannels, call[t].phase \notin {"idle", "connect"},
         holder = NoThread \/ call[t].phase \in Sections
  PROVE  UNCHANGED Abs!vars
  <1>1. call \in [Threads -> CallType] /\ call[t] \in CallType
    BY DEF RefInv, Inv, Typed, CallsTyped
  <1>2. /\ \A u \in Threads \ {t} : call'[u] = call[u]
        /\ DOMAIN call' = Threads /\ call'[t].phase = phase
        /\ call'[t].op = call[t].op /\ call'[t].slot = call[t].slot
        /\ call'[t].moved = call[t].moved /\ UNCHANGED result
    BY <1>1 DEF Enter, CallType
  <1>3. holder' \in {t, NoThread}
    BY DEF Enter
  <1>4. \A s \in Slots : ~Connecting(s) /\ ~Connecting(s)'
    BY <1>2, <1>3, NotConnecting DEF RefInv, Inv, Connecting
  <1> QED BY <1>2, <1>4, Unseen


-----------------------------------------------------------------------------
(* Every step of Shim is a step of PassThru, or is not seen.               *)

Refines == ([Abs!Next]_Abs!vars) /\ Prepared'

\* An entry that is not into a wait for the mutex with a host channel in sight.
LEMMA EnterRefines ==
  ASSUME NEW t \in Threads, NEW phase \in Sections \cup Waiting, phase # "connect", RefInv, Inv',
         Enter(t, phase), SameChannels, call[t].phase \notin {"idle", "connect"},
         holder = NoThread \/ call[t].phase \in Sections,
         phase = "lock" => ~slots[call[t].slot].host
  PROVE  Refines
  <1>1. call \in [Threads -> CallType] /\ call[t] \in CallType
    BY DEF RefInv, Inv, Typed, CallsTyped
  <1>2. /\ \A u \in Threads \ {t} : call'[u] = call[u]
        /\ call'[t].phase = phase /\ call'[t].slot = call[t].slot
    BY <1>1 DEF Enter, CallType
  <1>3. phase # "idle"
    BY DEF Sections, Waiting
  <1>4. \A u \in Threads : call[u].phase # "idle" =>
          (slots'[call[u].slot].host <=> slots[call[u].slot].host)
    BY SameHosts
  <1>5. Prepared'
    <2>1. phase = "lock" => ~slots'[call[t].slot].host
      BY <1>4
    <2>2. \A u \in Threads \ {t} : (call[u].phase = "lock" /\ slots'[call[u].slot].host) =>
                                    slots[call[u].slot].host
      BY <1>4
    <2> QED BY <1>2, <1>3, <2>1, <2>2, OwnPrepared
  <1>6. UNCHANGED Abs!vars
    BY EnterUnseen
  <1> QED BY <1>5, <1>6 DEF Refines

LEMMA CallRefines ==
  ASSUME NEW t \in Threads, RefInv, Call(t)
  PROVE  Refines
  <1>1. PICK op \in Ops, s \in Slots : \E a \in Args(op) :
          call' = [call EXCEPT ![t] =
            [Idle EXCEPT !.op = op, !.slot = s, !.arg = a,
                         !.phase = IF op \in TwoLookOps THEN "look" ELSE "lock"]]
    BY DEF Call
  <1>2. PICK a \in Args(op) : call' = [call EXCEPT ![t] =
            [Idle EXCEPT !.op = op, !.slot = s, !.arg = a,
                         !.phase = IF op \in TwoLookOps THEN "look" ELSE "lock"]]
    BY <1>1
  <1>3. call \in [Threads -> CallType] /\ call[t].phase = "idle"
    BY DEF Call, RefInv, Inv, Typed, CallsTyped
  <1>4. /\ \A u \in Threads \ {t} : call'[u] = call[u]
        /\ DOMAIN call' = Threads
        /\ call'[t].op = op /\ call'[t].slot = s /\ call'[t].moved = FALSE
        /\ call'[t].phase = IF op \in TwoLookOps THEN "look" ELSE "lock"
    BY <1>2, <1>3 DEF Idle
  <1>5. UNCHANGED <<slots, holder>> /\ result' = [result EXCEPT ![t] = "Pending"]
    BY DEF Call
  <1>6. Prepared'
    BY <1>4, <1>5, OwnPrepared
  <1>7. Table' = Table
    <2>1. \A r \in Slots : Connecting(r) => holder # t
      BY <1>3 DEF Connecting
    <2>2. holder \in Threads \cup {NoThread}
      BY DEF RefInv, Inv, Typed, CallsTyped
    <2>3. holder \notin {t, NoThread} => call'[holder] = call[holder]
      BY <1>4, <2>2
    <2>4. ASSUME NEW r \in Slots
          PROVE  /\ (Connecting(r)' <=> Connecting(r)) /\ Kind(r)' = Kind(r)
                 /\ Connecting(r) => call'[holder'].was = call[holder].was
      <3>1. holder = t => ~Connecting(r)'
        BY <1>4, <1>5 DEF Connecting
      <3> QED BY <1>5, <2>1, <2>3, <3>1 DEF Connecting, Kind
    <2> QED BY <2>4 DEF Table
  <1>8. Abs!Ask(t)
    <2>1. Asked[t] = Abs!NoCall
      <3>1. call[t] = Idle
        BY <1>3 DEF RefInv, AtRest
      <3> QED BY <3>1, IdleFields DEF Asked, Abs!NoCall
    <2>2. Asked'[t].op = op /\ Asked'[t].slot = s
      BY <1>4 DEF Asked
    <2>3. Asked' = [Asked EXCEPT ![t] = [op |-> op, slot |-> s, moved |-> FALSE]]
      BY <1>4 DEF Asked
    <2>4. op \in Abs!DeviceOps \cup Abs!ChannelOps \cup {"Open"}
      BY DEF Ops, DeviceOps, ChannelOps, TwoLookOps, FirmwareOps, Abs!DeviceOps, Abs!ChannelOps,
             Abs!MessageOps
    <2> QED BY <1>5, <1>7, <2>1, <2>2, <2>3, <2>4 DEF Abs!Ask
  <1> QED BY <1>6, <1>8 DEF Refines, Abs!Next

LEMMA BadParameterRefines ==
  ASSUME NEW t \in Threads, RefInv, BadParameter(t)
  PROVE  Refines
  <1>1. call \in [Threads -> CallType] /\ call[t].phase \in {"look", "lock"}
    BY DEF BadParameter, RefInv, Inv, Typed, CallsTyped
  <1>2. /\ call' = [call EXCEPT ![t] = Idle] /\ result' = [result EXCEPT ![t] = "Param"]
        /\ UNCHANGED <<slots, holder>>
    BY DEF BadParameter
  <1>3. /\ \A u \in Threads \ {t} : call'[u] = call[u]
        /\ call'[t] = Idle /\ DOMAIN call' = Threads
    BY <1>1, <1>2
  <1>4. Prepared'
    BY <1>2, <1>3, OwnPrepared, IdleTyped
  <1>5. Table' = Table
    <2>1. \A r \in Slots : Connecting(r) => holder # t
      BY <1>1 DEF Connecting
    <2>2. holder \in Threads \cup {NoThread}
      BY DEF RefInv, Inv, Typed, CallsTyped
    <2>3. holder \notin {t, NoThread} => call'[holder] = call[holder]
      BY <1>3, <2>2
    <2>4. ASSUME NEW r \in Slots
          PROVE  /\ (Connecting(r)' <=> Connecting(r)) /\ Kind(r)' = Kind(r)
                 /\ Connecting(r) => call'[holder'].was = call[holder].was
      <3>1. holder = t => ~Connecting(r)'
        BY <1>2, <1>3, IdleTyped DEF Connecting
      <3> QED BY <1>2, <2>1, <2>3, <3>1 DEF Connecting, Kind
    <2> QED BY <2>4 DEF Table
  <1>6. Asked' = [u \in Threads |->
          IF u = t THEN Abs!NoCall
          ELSE [Asked[u] EXCEPT !.moved =
                  @ \/ (Asked[u].op \in Abs!MessageOps /\ Asked[u].slot \in {})]]
    <2>1. Asked'[t] = Abs!NoCall
      BY <1>3, IdleFields DEF Asked, Abs!NoCall
    <2>2. ASSUME NEW u \in Threads \ {t}
          PROVE  Asked'[u] = [Asked[u] EXCEPT !.moved =
                   @ \/ (Asked[u].op \in Abs!MessageOps /\ Asked[u].slot \in {})]
      <3>1. call[u].moved \in BOOLEAN
        BY <1>1 DEF CallType
      <3>2. Asked'[u] = Asked[u] /\ Asked[u].moved \in BOOLEAN
        BY <1>3, <3>1 DEF Asked
      <3>3. (Asked[u].moved \/ (Asked[u].op \in Abs!MessageOps /\ Asked[u].slot \in {}))
              = Asked[u].moved
        BY <3>2
      <3>4. [Asked[u] EXCEPT !.moved = Asked[u].moved] = Asked[u]
        BY DEF Asked
      <3> QED BY <3>2, <3>3, <3>4, Zenon
    <2> QED BY <2>1, <2>2, Zenon DEF Asked
  <1>7. Abs!Return(t, "Param", {})
    BY <1>2, <1>6 DEF Abs!Return
  <1>8. Abs!Next
    BY <1>1, <1>5, <1>7, AbsAnswer DEF Fits
  <1> QED BY <1>4, <1>8 DEF Refines


LEMMA LookRefines ==
  ASSUME NEW t \in Threads, RefInv, Inv', LookForHost(t) \/ LookForChannel(t)
  PROVE  Refines
  <1>1. /\ call[t].phase \notin {"idle", "connect"} /\ holder = NoThread
        /\ call[t].phase \notin Sections
    BY DEF LookForHost, LookForChannel, Locks, Sections
  <1>2. SameChannels
    BY WaitQuiet DEF Quiet, RefInv
  <1>3. CASE LookForHost(t)
    <2>1. PICK phase : /\ phase = IF slots[call[t].slot].host THEN "host" ELSE "lock"
                       /\ Enter(t, phase)
      BY <1>3 DEF LookForHost
    <2>2. phase \in Sections \cup Waiting /\ phase # "connect"
      BY <2>1 DEF Sections, Waiting
    <2> QED BY <1>1, <1>2, <2>1, <2>2, EnterRefines
  <1>4. CASE LookForChannel(t)
    <2>1. CASE Enter(t, "chan")
      BY <1>1, <1>2, <2>1, EnterRefines DEF Sections
    <2>2. CASE slots[call[t].slot].chan = None /\ Return(t, "InvalidChannel")
      <3>1. call[t].op \in ChannelOps /\ call[t].phase = "lock"
        BY <1>4 DEF LookForChannel, Locks
      <3>2. Kind(call[t].slot) \in {"free", "open", "host"}
        BY <2>2 DEF Kind
      <3>3. Kind(call[t].slot) = "host" => slots[call[t].slot].host
        BY DEF Kind
      <3>4. Kind(call[t].slot) \notin Abs!Serves(call[t].op) \/ call[t].moved
        <4>1. CASE Kind(call[t].slot) # "host"
          BY <3>2, <4>1 DEF Abs!Serves
        <4>2. CASE call[t].op \in TwoLookOps /\ Kind(call[t].slot) = "host"
          BY <3>1, <3>3, <4>2, Zenon DEF RefInv, Aimed
        <4>3. CASE call[t].op \in FirmwareOps /\ Kind(call[t].slot) = "host"
          BY <4>3 DEF Abs!Serves, Abs!MessageOps, FirmwareOps
        <4> QED BY <3>1, <4>1, <4>2, <4>3 DEF ChannelOps
      <3>5. Fits(t, "InvalidChannel")
        BY <3>1, <3>4, Zenon DEF Fits
      <3> QED BY <1>1, <1>2, <2>2, <3>5, Seen DEF Refines
    <2> QED BY <1>4, <2>1, <2>2 DEF LookForChannel
  <1> QED BY <1>3, <1>4

LEMMA RetireRefines ==
  ASSUME NEW t \in Threads, RefInv, Inv', RetireFilter(t)
  PROVE  Refines
  <1>1. /\ call[t].phase \notin {"idle", "connect"} /\ call[t].phase \in Sections
        /\ Enter(t, "install") /\ "install" \in Sections
    BY DEF RetireFilter, Holds, Sections
  <1>2. SameChannels
    BY FilterQuiet DEF Quiet, RefInv
  <1> QED BY <1>1, <1>2, EnterRefines

LEMMA TakeRefines ==
  ASSUME NEW t \in Threads, RefInv, TakeMessage(t)
  PROVE  Refines
  <1>1. /\ call[t].phase \in {"host", "chan", "more"} /\ call[t].phase \in Sections
        /\ call[t].op = "Read"
    BY DEF TakeMessage, Reads, Sections
  <1>2. SameChannels
    BY SessionQuiet DEF Quiet, RefInv
  <1>3. CASE \E c \in {"Ok", "Error"} : Return(t, c)
    <2>1. PICK c \in {"Ok", "Error"} : Return(t, c)
      BY <1>3
    <2>2. Kind(call[t].slot) \in {"host", "raw"}
      BY <1>1, SectionKind
    <2>3. Fits(t, c)
      BY <1>1, <2>2 DEF Fits, ChannelOps, TwoLookOps, Abs!Serves, Abs!MessageOps
    <2> QED BY <1>1, <1>2, <2>1, <2>3, Seen DEF Refines
  <1>4. CASE /\ call' = [call EXCEPT ![t].phase = "more", ![t].arg = @ - 1]
             /\ UNCHANGED <<holder, result>>
    <2>1. call \in [Threads -> CallType] /\ call[t] \in CallType /\ UNCHANGED slots
      BY DEF RefInv, Inv, Typed, CallsTyped, TakeMessage
    <2>2. /\ \A u \in Threads \ {t} : call'[u] = call[u]
          /\ DOMAIN call' = Threads /\ call'[t].phase = "more"
          /\ call'[t].op = call[t].op /\ call'[t].slot = call[t].slot
          /\ call'[t].moved = call[t].moved
      BY <1>4, <2>1 DEF CallType
    <2>3. \A s \in Slots : ~Connecting(s)
      BY <1>1, NotConnecting DEF RefInv, Inv
    <2>4. holder' = t
      BY <1>1, <1>4 DEF RefInv, Inv, SectionsKeepTheirSlot
    <2>5. \A s \in Slots : ~Connecting(s)'
      BY <2>2, <2>4 DEF Connecting
    <2>6. Prepared'
      BY <2>1, <2>2, OwnPrepared
    <2>7. UNCHANGED Abs!vars
      BY <1>2, <1>4, <2>2, <2>3, <2>5, Unseen
    <2> QED BY <2>6, <2>7 DEF Refines
  <1> QED BY <1>3, <1>4 DEF TakeMessage

\* The table after a call that gave slot s another kind.
LEMMA TableChanged ==
  ASSUME NEW s \in Slots, NEW k, holder' = NoThread, OtherSlots(s), Kind(s)' = k,
         \A r \in Slots \ {s} : Table[r] = Kind(r)
  PROVE  Table' = [Table EXCEPT ![s] = k]
  <1>1. Table' = [r \in Slots |-> Kind(r)']
    BY TableReadsNext
  <1>2. \A r \in Slots \ {s} : Kind(r)' = Kind(r)
    BY DEF OtherSlots, Kind
  <1>3. Table = [r \in Slots |-> Table[r]]
    BY DEF Table
  <1> QED BY <1>1, <1>2, <1>3, Zenon

\* The table while nobody holds the mutex.
LEMMA FreeTable ==
  ASSUME NEW t \in Threads, RefInv, holder = NoThread, call[t].phase # "connect"
  PROVE  \A r \in Slots : Table[r] = Kind(r)
  <1>1. \A r \in Slots : ~Connecting(r)
    BY NotConnecting DEF RefInv, Inv
  <1> QED BY <1>1, TableReads

LEMMA OpenRefines ==
  ASSUME NEW t \in Threads, RefInv, Open(t)
  PROVE  Refines
  <1>1. /\ call[t].phase \notin {"idle", "connect"} /\ holder = NoThread /\ call[t].op = "Open"
    BY DEF Open, Locks
  <1>2. CASE UNCHANGED <<slots, sess>> /\ \E c \in {"Failed", "Error"} : Return(t, c)
    <2>1. SameChannels
      BY <1>2 DEF SameChannels
    <2>2. \A c \in {"Failed", "Error"} : Fits(t, c)
      BY <1>1 DEF Fits
    <2> QED BY <1>1, <1>2, <2>1, <2>2, Seen DEF Refines
  <1>3. CASE /\ \E s \in Slots :
                  /\ slots[s].device = None
                  /\ \A r \in Slots : slots[r].device = None => s <= r
                  /\ slots' = [slots EXCEPT ![s] = [EmptySlot EXCEPT !.device = call[t].arg]]
             /\ Return(t, "Ok")
    <2> DEFINE p == call[t].arg
    <2>1. PICK s \in Slots :
            /\ slots[s].device = None
            /\ \A r \in Slots : slots[r].device = None => s <= r
            /\ slots' = [slots EXCEPT ![s] = [EmptySlot EXCEPT !.device = p]]
      BY <1>3
    <2>2. p \in Ports
      BY <1>1, <2>1, SlotOf DEF RefInv, Inv, Args
    <2>3. slots \in [Slots -> SlotType]
      BY DEF RefInv, Inv, Typed, SlotsTyped
    <2>4. /\ OtherSlots(s) /\ slots'[s].device = p /\ slots'[s].chan = None
          /\ slots'[s].host = FALSE
      BY <2>1, <2>3 DEF OtherSlots, EmptySlot
    <2>5. Kind(s)' = "open"
      BY <2>2, <2>4, Constants DEF Kind
    <2>6. \A r \in Slots : Table[r] = Kind(r)
      BY <1>1, FreeTable
    <2>7. Leave(t, "Ok", {}) /\ holder' = NoThread
      BY <1>3 DEF Return, Leave
    <2>8. Table' = [Table EXCEPT ![s] = "open"]
      BY <2>4, <2>5, <2>6, <2>7, TableChanged
    <2>9. Table[s] = "free" /\ \A r \in Slots : r < s => Table[r] # "free"
      <3>1. \A r \in Slots : Kind(r) = "free" <=> slots[r].device = None
        BY DEF Kind
      <3>2. \A r \in Slots : r < s => ~(s <= r)
        BY ShimAssumption DEF ShimAssumption, Slots
      <3> QED BY <2>1, <2>6, <3>1, <3>2
    <2>10. Abs!Opened(t)
      BY <1>1, <2>7, <2>8, <2>9, AbsReturn, AskedOf DEF Abs!Opened
    <2>11. Prepared'
      <3>1. \A u \in Threads : (call[u].phase = "lock" /\ slots'[call[u].slot].host) =>
                                slots[call[u].slot].host
        <4> SUFFICES ASSUME NEW u \in Threads, call[u].phase = "lock", slots'[call[u].slot].host
                     PROVE  slots[call[u].slot].host
          OBVIOUS
        <4>1. call[u].slot \in Slots
          BY Asking
        <4> QED BY <2>4, <4>1 DEF OtherSlots
      <3> QED BY <2>7, <3>1, LeavePrepared
    <2> QED BY <1>1, <2>10, <2>11, Asking DEF Refines, Abs!Next
  <1> QED BY <1>2, <1>3 DEF Open


\* A call that took the channel of slot s away, or put one there.
LEMMA ChangePrepared ==
  ASSUME NEW t \in Threads, NEW code, NEW s \in Slots, RefInv, Leave(t, code, {s}),
         OtherSlots(s)
  PROVE  Prepared'
  <1>1. \A u \in Threads : (call[u].phase = "lock" /\ slots'[call[u].slot].host) =>
                            slots[call[u].slot].host \/ call[u].slot \in {s}
    <2> SUFFICES ASSUME NEW u \in Threads, call[u].phase = "lock", slots'[call[u].slot].host,
                        call[u].slot # s
                 PROVE  slots[call[u].slot].host
      OBVIOUS
    <2>1. call[u].slot \in Slots
      BY Asking
    <2> QED BY <2>1 DEF OtherSlots
  <1> QED BY <1>1, LeavePrepared

LEMMA CloseRefines ==
  ASSUME NEW t \in Threads, RefInv, Close(t)
  PROVE  Refines
  <1>0. PICK s : s = call[t].slot
    OBVIOUS
  <1>1. /\ call[t].phase \notin {"idle", "connect"} /\ holder = NoThread /\ call[t].op = "Close"
        /\ s \in Slots
    BY <1>0, Asking DEF Close, Locks
  <1>2. CASE slots[s].device = None
    <2>1. UNCHANGED <<slots, sess>> /\ Return(t, "InvalidDevice")
      BY <1>0, <1>2 DEF Close
    <2>2. SameChannels
      BY <2>1 DEF SameChannels
    <2>3. Fits(t, "InvalidDevice")
      BY <1>0, <1>1, <1>2 DEF Fits, Kind, DeviceOps
    <2> QED BY <1>1, <2>1, <2>2, <2>3, Seen DEF Refines
  <1>3. CASE slots[s].device # None
    <2>1. slots' = [slots EXCEPT ![s] = EmptySlot] /\ Leave(t, "Ok", {s}) /\ holder' = NoThread
      BY <1>0, <1>3 DEF Close, Leave
    <2>2. slots \in [Slots -> SlotType]
      BY DEF RefInv, Inv, Typed, SlotsTyped
    <2>3. OtherSlots(s) /\ Kind(s)' = "free"
      BY <1>1, <2>1, <2>2 DEF OtherSlots, EmptySlot, Kind
    <2>4. \A r \in Slots : Table[r] = Kind(r)
      BY <1>1, FreeTable
    <2>5. Table' = [Table EXCEPT ![s] = "free"] /\ Table[s] # "free"
      BY <1>1, <1>3, <2>1, <2>3, <2>4, TableChanged DEF Kind
    <2>6. Abs!Closed(t)
      BY <1>0, <1>1, <2>1, <2>5, AbsReturn, AskedOf DEF Abs!Closed
    <2> QED BY <1>1, <2>1, <2>3, <2>6, Asking, ChangePrepared DEF Refines, Abs!Next
  <1> QED BY <1>2, <1>3

\* A slot without its channel.
LEMMA WithoutKind ==
  ASSUME NEW s \in Slots, Inv, slots' = WithoutChannel(s), slots[s].device # None
  PROVE  OtherSlots(s) /\ Kind(s)' = "open"
  <1>1. slots \in [Slots -> SlotType]
    BY DEF Inv, Typed, SlotsTyped
  <1>2. /\ OtherSlots(s) /\ slots'[s].device = slots[s].device /\ slots'[s].chan = None
        /\ slots'[s].host = FALSE
    BY <1>1 DEF WithoutChannel, SlotType, OtherSlots
  <1> QED BY <1>2 DEF Kind

LEMMA DisconnectRefines ==
  ASSUME NEW t \in Threads, RefInv, Disconnect(t)
  PROVE  Refines
  <1>0. PICK s : s = call[t].slot
    OBVIOUS
  <1>1. /\ call[t].phase \notin {"idle", "connect"} /\ holder = NoThread
        /\ call[t].op = "Disconnect" /\ s \in Slots /\ UNCHANGED sess
    BY <1>0, Asking DEF Disconnect, Locks
  <1>2. CASE Wire(s) = None
    <2>1. UNCHANGED slots /\ Return(t, "InvalidChannel")
      BY <1>0, <1>2 DEF Disconnect
    <2>2. SameChannels
      BY <1>1, <2>1 DEF SameChannels
    <2>3. Kind(s) \in {"free", "open"}
      BY <1>2, Constants DEF Kind, Wire
    <2>4. Fits(t, "InvalidChannel")
      BY <1>0, <1>1, <2>3 DEF Fits, Abs!Serves
    <2> QED BY <1>1, <2>1, <2>2, <2>4, Seen DEF Refines
  <1>3. CASE Wire(s) # None
    <2>1. slots' = WithoutChannel(s) /\ Leave(t, "Ok", {s}) /\ holder' = NoThread
      BY <1>0, <1>3 DEF Disconnect, Leave
    <2>2. slots[s].device # None
      BY <1>1, <1>3 DEF RefInv, Inv, SlotsOwnSessions
    <2>3. OtherSlots(s) /\ Kind(s)' = "open"
      BY <1>1, <2>1, <2>2, WithoutKind DEF RefInv
    <2>4. Kind(s) \in {"raw", "host"}
      BY <1>3, <2>2 DEF Kind, Wire
    <2>5. \A r \in Slots : Table[r] = Kind(r)
      BY <1>1, FreeTable
    <2>6. Table' = [Table EXCEPT ![s] = "open"] /\ Table[s] \in {"raw", "host"}
      BY <1>1, <2>1, <2>3, <2>4, <2>5, TableChanged
    <2>7. Abs!Disconnected(t)
      BY <1>0, <1>1, <2>1, <2>6, AbsReturn, AskedOf DEF Abs!Disconnected
    <2> QED BY <1>1, <2>1, <2>3, <2>7, Asking, ChangePrepared DEF Refines, Abs!Next
  <1> QED BY <1>2, <1>3

\* The first half of a PassThruConnect is not seen: the table still tells what
\* the slot was.
LEMMA ConnectDropsRefines ==
  ASSUME NEW t \in Threads, RefInv, ConnectDrops(t)
  PROVE  Refines
  <1>0. PICK s : s = call[t].slot
    OBVIOUS
  <1>1. /\ call[t].phase \notin {"idle", "connect"} /\ holder = NoThread
        /\ call[t].op = "Connect" /\ s \in Slots /\ UNCHANGED sess
    BY <1>0, Asking DEF ConnectDrops, Locks
  <1>2. CASE slots[s].device = None
    <2>1. UNCHANGED slots /\ Return(t, "InvalidDevice")
      BY <1>0, <1>2 DEF ConnectDrops
    <2>2. SameChannels
      BY <1>1, <2>1 DEF SameChannels
    <2>3. Fits(t, "InvalidDevice")
      BY <1>0, <1>1, <1>2 DEF Fits, Kind, DeviceOps
    <2> QED BY <1>1, <2>1, <2>2, <2>3, Seen DEF Refines
  <1>3. CASE slots[s].device # None
    <2>0. PICK k : k = Kind(s)
      OBVIOUS
    <2>1. /\ slots' = WithoutChannel(s) /\ holder' = t /\ UNCHANGED result
          /\ call' = [call EXCEPT ![t].phase = "connect", ![t].was = k]
      BY <1>0, <1>3, <2>0 DEF ConnectDrops
    <2>2. call \in [Threads -> CallType] /\ call[t] \in CallType
      BY DEF RefInv, Inv, Typed, CallsTyped
    <2>3. /\ \A u \in Threads \ {t} : call'[u] = call[u]
          /\ call'[t].phase = "connect" /\ call'[t].was = k
          /\ call'[t].op = call[t].op /\ call'[t].slot = s
          /\ call'[t].moved = call[t].moved /\ DOMAIN call' = Threads
      BY <1>0, <2>1, <2>2 DEF CallType
    <2>4. k # "free" /\ OtherSlots(s) /\ Kind(s)' = "open"
      BY <1>1, <1>3, <2>0, <2>1, WithoutKind DEF RefInv, Kind
    <2>5. Table' = Table
      <3>1. \A r \in Slots : Table[r] = Kind(r)
        BY <1>1, FreeTable
      <3>2. \A r \in Slots : Connecting(r)' <=> r = s
        BY <2>1, <2>3, Constants DEF Connecting
      <3>3. Table' = [r \in Slots |-> IF r = s THEN k ELSE Kind(r)']
        BY <2>1, <2>3, <3>2 DEF Table
      <3>4. \A r \in Slots \ {s} : Kind(r)' = Kind(r)
        BY <2>4 DEF OtherSlots, Kind
      <3>5. Table = [r \in Slots |-> Table[r]]
        BY DEF Table
      <3>6. Table' = [r \in Slots |-> Kind(r)]
        BY <2>0, <3>3, <3>4
      <3>7. Table = [r \in Slots |-> Kind(r)]
        BY <3>1, <3>5
      <3> QED BY <3>6, <3>7
    <2>6. Asked' = Asked
      <3>1. \A u \in Threads : /\ call'[u].op = call[u].op /\ call'[u].slot = call[u].slot
                               /\ call'[u].moved = call[u].moved
        BY <1>0, <2>3
      <3> QED BY <3>1 DEF Asked
    <2>7. Prepared'
      <3>1. \A u \in Threads \ {t} : (call[u].phase = "lock" /\ slots'[call[u].slot].host) =>
                                      slots[call[u].slot].host
        <4> SUFFICES ASSUME NEW u \in Threads, call[u].phase = "lock", slots'[call[u].slot].host
                     PROVE  slots[call[u].slot].host
          OBVIOUS
        <4>1. call[u].slot \in Slots
          BY Asking
        <4>2. slots'[s].host = FALSE
          BY <1>1, <2>1 DEF WithoutChannel, RefInv, Inv, Typed, SlotsTyped, SlotType
        <4> QED BY <2>4, <4>1, <4>2 DEF OtherSlots
      <3> QED BY <2>3, <2>4, <3>1, OwnPrepared
    <2> QED BY <2>1, <2>5, <2>6, <2>7 DEF Refines, Abs!vars
  <1> QED BY <1>2, <1>3

\* The second half is the call, whatever came of it.
LEMMA ConnectRefines ==
  ASSUME NEW t \in Threads, RefInv, Inv', Connect(t)
  PROVE  Refines
  <1>0. PICK s, p, x : /\ s = call[t].slot /\ p = slots[s].device
                       /\ x = IF call[t].arg = HostIsoTp THEN Can ELSE call[t].arg
    OBVIOUS
  <1>1. /\ call[t].phase = "connect" /\ call[t].phase \in Sections /\ s \in Slots
        /\ call[t].op = "Connect"
    BY <1>0, Asking DEF Connect, Sections, RefInv, Inv, Typed, ArgsFit
  <1>2. /\ p \in Ports /\ slots[s] \in SlotType /\ slots \in [Slots -> SlotType]
    BY <1>0, <1>1, SectionDevice DEF RefInv, Inv, Typed, SlotsTyped
  <1>3. x \in Protos
    BY <1>0, <1>1, SlotOf, Constants DEF RefInv, Inv, Typed, ArgsFit, Args
  <1>4. slots[s].host = FALSE /\ slots[s].chan = None
    BY <1>0, <1>1, <1>2, Constants DEF RefInv, Inv, SectionsKeepTheirSlot, Wire, SlotType
  <1>5. PICK o \in Outcomes :
          /\ Leave(t, Code(o), {s})
          /\ slots' = IF o # "ok" THEN slots
                      ELSE IF call[t].arg = HostIsoTp
                        THEN [slots EXCEPT ![s] =
                               [[slots[s] EXCEPT !.nfilters = 0, !.current = None,
                                   !.nextFilter = 0] EXCEPT !.host = TRUE]]
                        ELSE [slots EXCEPT ![s] =
                               [[slots[s] EXCEPT !.nfilters = 0, !.current = None,
                                   !.nextFilter = 0] EXCEPT !.chan = x]]
    BY <1>0 DEF Connect
  <1>6. /\ OtherSlots(s)
        /\ o = "ok" => Kind(s)' \in {"raw", "host"}
        /\ o # "ok" => Kind(s)' = "open"
    <2>1. CASE o # "ok"
      <3>1. UNCHANGED slots
        BY <1>5, <2>1
      <3>2. Kind(s)' = "open"
        BY <1>0, <1>2, <1>4, <3>1, Constants DEF Kind
      <3> QED BY <2>1, <3>1, <3>2 DEF OtherSlots
    <2>2. CASE o = "ok" /\ call[t].arg = HostIsoTp
      <3>1. slots' = [slots EXCEPT ![s] =
                       [slots[s] EXCEPT !.nfilters = 0, !.current = None,
                          !.nextFilter = 0, !.host = TRUE]]
        BY <1>2, <1>5, <2>2 DEF SlotType
      <3>2. OtherSlots(s) /\ slots'[s].device = p /\ slots'[s].host = TRUE
        BY <1>0, <1>1, <1>2, <3>1 DEF SlotType, OtherSlots
      <3> QED BY <1>2, <2>2, <3>2, Constants DEF Kind
    <2>3. CASE o = "ok" /\ call[t].arg # HostIsoTp
      <3>1. slots' = [slots EXCEPT ![s] =
                       [slots[s] EXCEPT !.nfilters = 0, !.current = None,
                          !.nextFilter = 0, !.chan = x]]
        BY <1>2, <1>5, <2>3 DEF SlotType
      <3>2. OtherSlots(s) /\ slots'[s].device = p /\ slots'[s].chan = x
        BY <1>0, <1>1, <1>2, <3>1 DEF SlotType, OtherSlots
      <3> QED BY <1>2, <1>3, <2>3, <3>2, Constants DEF Kind
    <2> QED BY <2>1, <2>2, <2>3
  <1>7. holder = t /\ holder' = NoThread
    BY <1>1, <1>5 DEF RefInv, Inv, SectionsKeepTheirSlot, Leave
  <1>8. Table[s] # "free" /\ \A r \in Slots \ {s} : Table[r] = Kind(r)
    <2>1. /\ Connecting(s) /\ \A r \in Slots \ {s} : ~Connecting(r)
      BY <1>0, <1>1, <1>7, Constants DEF Connecting
    <2>2. call[t].was # "free"
      BY <1>1 DEF RefInv, WasThere
    <2> QED BY <1>1, <1>7, <2>1, <2>2 DEF Table
  <1>9. Abs!Return(t, Code(o), {s})
    BY <1>5, AbsReturn
  <1>10. Abs!Connected(t)
    <2>1. CASE o = "ok"
      <3>1. PICK k \in {"raw", "host"} : Kind(s)' = k
        BY <1>6, <2>1
      <3>2. Table' = [Table EXCEPT ![s] = k]
        BY <1>1, <1>6, <1>7, <1>8, <3>1, TableChanged
      <3>3. Table'[s] = k
        BY <1>1, <3>2 DEF Table
      <3> QED BY <1>0, <1>1, <1>8, <1>9, <2>1, <3>2, <3>3, AskedOf DEF Abs!Connected, Code
    <2>2. CASE o # "ok"
      <3>1. Table' = [Table EXCEPT ![s] = "open"]
        BY <1>1, <1>6, <1>7, <1>8, <2>2, TableChanged
      <3> QED BY <1>0, <1>1, <1>8, <1>9, <2>2, <3>1, AskedOf DEF Abs!Connected, Code
    <2> QED BY <2>1, <2>2
  <1>11. Prepared'
    BY <1>1, <1>5, <1>6, ChangePrepared
  <1> QED BY <1>1, <1>10, <1>11, Asking DEF Refines, Abs!Next


LEMMA InitRef == Init => RefInv /\ Abs!Init
  <1> SUFFICES ASSUME Init PROVE RefInv /\ Abs!Init
    OBVIOUS
  <1>1. Inv /\ AtRest /\ WasThere /\ Aimed
    BY InitInv, IdleTyped DEF Init, AtRest, WasThere, Aimed
  <1>2. Asked = [t \in Threads |-> Abs!NoCall]
    BY IdleFields DEF Init, Asked, Abs!NoCall
  <1>3. Table = [s \in Slots |-> "free"]
    BY DEF Init, Table, Connecting, Kind, EmptySlot
  <1> QED BY <1>1, <1>2, <1>3 DEF RefInv, Abs!Init, Init

LEMMA NextRef == RefInv /\ [Next]_vars => RefInv' /\ [Abs!Next]_Abs!vars
  <1> SUFFICES ASSUME RefInv, [Next]_vars PROVE Inv' /\ Refines
    BY DEF RefInv, Refines, Prepared
  <1>1. Inv'
    BY NextInv DEF RefInv
  <1>2. CASE UNCHANGED <<call, result, slots, holder>>
    <2>1. Prepared'
      BY <1>2 DEF RefInv, Prepared, AtRest, WasThere, Aimed
    <2>2. UNCHANGED Abs!vars
      BY <1>2 DEF Abs!vars, Table, Asked, Connecting, Kind
    <2> QED BY <1>1, <2>1, <2>2 DEF Refines
  <1>3. ASSUME NEW t \in Threads, Call(t) \/ Wait(t) \/ Section(t)
        PROVE  Refines
    <2>1. CASE Call(t) \/ BadParameter(t)
      BY <2>1, CallRefines, BadParameterRefines
    <2>2. CASE FindPoison(t) \/ Answers(t)
      BY <2>2, AnswerSeen DEF Refines
    <2>3. CASE LookForHost(t) \/ LookForChannel(t) \/ RetireFilter(t) \/ TakeMessage(t)
      BY <1>1, <2>3, LookRefines, RetireRefines, TakeRefines
    <2>4. CASE InstallFilter(t) \/ StartFilter(t) \/ StopFilter(t) \/ StartPeriodic(t)
      BY <2>4, FilterSeen DEF Refines
    <2>5. CASE Open(t) \/ Close(t) \/ Disconnect(t)
      BY <2>5, OpenRefines, CloseRefines, DisconnectRefines
    <2>6. CASE ConnectDrops(t) \/ Connect(t)
      BY <1>1, <2>6, ConnectDropsRefines, ConnectRefines
    <2> QED BY <1>3, <2>1, <2>2, <2>3, <2>4, <2>5, <2>6 DEF Wait, Section, Answers
  <1>4. ASSUME NEW p \in Ports, EndSession(p)
        PROVE  Refines
    BY <1>2, <1>4 DEF EndSession
  <1> QED BY <1>1, <1>2, <1>3, <1>4 DEF Next, vars

\* The table and the calls that Abs speaks of are those of Service.
LEMMA SameService ==
  /\ Abs!Init => Service!Init
  /\ [Abs!Next]_Abs!vars => [Service!Next]_Service!vars
  <1>1. Abs!Init => Service!Init
    BY Zenon DEF Abs!Init, Service!Init, Abs!NoCall, Service!NoCall, Table, Asked
  <1>2. Abs!vars' = Abs!vars => Service!vars' = Service!vars
    BY Zenon DEF Abs!vars, Service!vars, Table, Asked
  <1>3. Abs!Next => Service!Next
    <2>1. ASSUME NEW t \in Threads
          PROVE  /\ Abs!Ask(t) => Service!Ask(t)
                 /\ Abs!Answer(t) => Service!Answer(t)
                 /\ Abs!Opened(t) => Service!Opened(t)
                 /\ Abs!Closed(t) => Service!Closed(t)
                 /\ Abs!Disconnected(t) => Service!Disconnected(t)
                 /\ Abs!Connected(t) => Service!Connected(t)
      BY Zenon
         DEF Abs!Ask, Abs!Answer, Abs!Opened, Abs!Closed, Abs!Disconnected, Abs!Connected,
             Service!Ask, Service!Answer, Service!Opened, Service!Closed, Service!Disconnected,
             Service!Connected, Abs!Return, Service!Return, Abs!NoCall, Service!NoCall,
             Abs!Serves, Service!Serves, Abs!DeviceOps, Service!DeviceOps, Abs!MessageOps,
             Service!MessageOps, Abs!ChannelOps, Service!ChannelOps, Table, Asked
    <2> QED BY <2>1, Zenon DEF Abs!Next, Service!Next, Abs!NoCall, Service!NoCall, Asked
  <1> QED BY <1>1, <1>2, <1>3

\* The calls of any number of threads, each of one or two sections, are those of
\* a table that each call reads or changes at one instant (lib.rs with_slot,
\* with_host and the exports over them).
THEOREM CallsAreAtomic == Spec => ServiceSpec
  <1>1. Spec => Service!Init /\ [][Service!Next]_Service!vars
    BY InitRef, NextRef, SameService, PTL DEF Spec
  <1> QED BY <1>1 DEF ServiceSpec, Service!Spec

=============================================================================
