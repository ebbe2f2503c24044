-------------------------------- MODULE Shim --------------------------------
(***************************************************************************)
(* The PassThru exports of rmvci-j2534: application threads that call them *)
(* concurrently, the slot table behind one mutex, the filter bookkeeping   *)
(* of RawChannel and Channel, and, as the environment, the sessions and    *)
(* the adapters at their ports.                                            *)
(*                                                                         *)
(* A call holds the mutex while it talks to the adapter.  The four message *)
(* calls take it twice: once to ask whether the channel runs ISO-TP on the *)
(* host, and again for a channel that does not.  A step under the mutex is *)
(* one exchange of a session; the Session module says how those go.        *)
(***************************************************************************)
EXTENDS Naturals, FiniteSets

CONSTANTS
  Threads, NoThread,
  Ports,        \* serial ports an adapter is plugged into
  Protos, Can,  \* protocols of firmware channels; host channels run over Can
  HostIsoTp,    \* PassThruConnect of ISO15765 with the flag RMVCI_HOST_ISOTP
  None,         \* an Option that is None
  MaxSlots,     \* lib.rs MAX_SLOTS
  HandleSpan,   \* numbers the low byte of a handle can take: 256
  MayPanic,     \* built with overflow checks: a long host transfer panics
  MaxStarts,    \* bound: filters and periodic messages begun on one device
  MaxFaults,    \* bound: exchanges that the wire or the adapter fails
  MaxWanted     \* bound: messages one PassThruReadMsgs asks for

Slots == 1 .. MaxSlots

ASSUME ShimAssumption ==
  /\ NoThread \notin Threads /\ Can \in Protos
  /\ None \notin Ports \cup Protos \cup Nat
  /\ HostIsoTp \notin Protos
  /\ MayPanic \in BOOLEAN /\ HandleSpan \in Nat \ {0}
  /\ {MaxSlots, MaxStarts, MaxFaults, MaxWanted} \subseteq Nat

VARIABLES
  call, result,       \* of each thread
  slots,              \* SLOTS
  holder, poisoned,   \* the mutex of SLOTS
  sess, wedged,       \* per port: its session, and the verdict of its actor
  adapter,            \* per port: channels, filters, periodic messages, rings
  faulted,            \* observation: an exchange of the session was failed
  nfaults

wireVars == <<wedged, faulted, nfaults>>
vars == <<call, result, slots, holder, poisoned, sess, adapter, wireVars>>

\* "Command" is PassThruSetProgrammingVoltage or PassThruReadVersion, "Ioctl"
\* also PassThruStopPeriodicMsg: what they do to the adapter leaves no trace here.
DeviceOps   == {"Close", "Connect", "Command"}
TwoLookOps  == {"StartFilter", "StopFilter", "Write", "Read"}
FirmwareOps == {"Ioctl", "StartPeriodic"}
ChannelOps  == TwoLookOps \cup FirmwareOps
Ops         == DeviceOps \cup ChannelOps \cup {"Open", "Disconnect"}

\* "look" and "lock" wait for the mutex, the others hold it.
Waiting  == {"look", "lock"}
Sections == {"host", "install", "chan", "more", "connect"}

\* A filter handle is the wire id, of which the low byte counts.
Handle(n) == n % HandleSpan
Handles   == 0 .. HandleSpan - 1

Args(op) == IF op = "Open" THEN Ports
            ELSE IF op = "Connect" THEN Protos \cup {HostIsoTp}
            ELSE IF op = "StopFilter" THEN Handles
            ELSE IF op = "Read" THEN 1 .. MaxWanted
            ELSE {None}

EmptySlot == [device |-> None, chan |-> None, host |-> FALSE, nfilters |-> 0,
              current |-> None, nextFilter |-> 0, nextId |-> 1]

Idle == [op |-> "None", slot |-> 0, arg |-> None, phase |-> "idle",
         moved |-> FALSE, was |-> "open"]

Blank == [on |-> {}, filters |-> [x \in Protos |-> {}]]

\* The adapter channel behind slot s, or None.
Wire(s) == IF slots[s].host THEN Can ELSE slots[s].chan

Kind(s) == IF slots[s].device = None THEN "free"
           ELSE IF slots[s].host THEN "host"
           ELSE IF slots[s].chan # None THEN "raw" ELSE "open"

-----------------------------------------------------------------------------
(* Calls and the mutex.                                                    *)

\* Thread t begins a call; a handle out of range is like that of a free slot.
Call(t) ==
  /\ call[t].phase = "idle"
  /\ \E op \in Ops, s \in Slots : \E a \in Args(op) :
       /\ op = "Open" => s = 1      \* it has no slot yet
       /\ op \in {"StartFilter", "StartPeriodic"} =>
            slots[s].nextId + slots[s].nextFilter <= MaxStarts
       /\ call' = [call EXCEPT ![t] =
            [Idle EXCEPT !.op = op, !.slot = s, !.arg = a,
                         !.phase = IF op \in TwoLookOps THEN "look" ELSE "lock"]]
  /\ result' = [result EXCEPT ![t] = "Pending"]
  /\ UNCHANGED <<slots, holder, poisoned, sess, adapter, wireVars>>

\* The closure of guard() ends; a message call may be aimed at a slot it changed.
Leave(t, code, changed) ==
  /\ call' = [u \in Threads |->
       IF u = t THEN Idle
       ELSE [call[u] EXCEPT !.moved = @ \/ (call[u].op \in TwoLookOps /\ call[u].slot \in changed)]]
  /\ result' = [result EXCEPT ![t] = code]
  /\ holder' = NoThread

Return(t, code) == Leave(t, code, {})

Enter(t, phase) ==
  /\ call' = [call EXCEPT ![t].phase = phase]
  /\ holder' = IF phase \in Sections THEN t ELSE NoThread
  /\ UNCHANGED result

\* Null pointers and unknown protocols, filter types and ioctls, found first.
BadParameter(t) ==
  /\ call[t].op \in {"Open", "Connect", "StartFilter", "Write", "Read", "Ioctl",
                     "StartPeriodic"}
  /\ call[t].phase = IF call[t].op \in TwoLookOps THEN "look" ELSE "lock"
  /\ call' = [call EXCEPT ![t] = Idle] /\ result' = [result EXCEPT ![t] = "Param"]
  /\ UNCHANGED <<slots, holder, poisoned, sess, adapter, wireVars>>

\* SLOTS.lock().unwrap() after a panic under the mutex panics in its turn.
FindPoison(t) ==
  /\ call[t].phase \in Waiting /\ holder = NoThread /\ poisoned
  /\ Return(t, "Failed")
  /\ UNCHANGED <<slots, poisoned, sess, adapter, wireVars>>

LocksAnyway(t, phase) == call[t].phase = phase /\ ~poisoned  \* mutant: no lock

\* t takes the mutex.
Locks(t, phase) == call[t].phase = phase /\ holder = NoThread /\ ~poisoned

\* Mutant: every message call goes to a firmware channel.
LookForRaw(t) ==
  /\ Locks(t, "look") /\ Enter(t, "lock")
  /\ UNCHANGED <<slots, poisoned, sess, adapter, wireVars>>

LookForHost(t) ==
  /\ Locks(t, "look")
  /\ Enter(t, IF slots[call[t].slot].host THEN "host" ELSE "lock")
  /\ UNCHANGED <<slots, poisoned, sess, adapter, wireVars>>

LookForChannel(t) ==
  /\ Locks(t, "lock") /\ call[t].op \in ChannelOps
  /\ IF slots[call[t].slot].chan # None THEN Enter(t, "chan")
     ELSE Return(t, "InvalidChannel")
  /\ UNCHANGED <<slots, poisoned, sess, adapter, wireVars>>

-----------------------------------------------------------------------------
(* Exchanges with the adapter at port p.  "lost": done, and the answer     *)
(* lost; "unseen": not done.  Either may be the silence that makes the     *)
(* actor give the adapter up.                                              *)

Exchange(p, outcome) ==
  \/ /\ outcome = "wedged" /\ wedged[p]
     /\ UNCHANGED wireVars
  \/ /\ outcome \in {"ok", "rejected"} /\ ~wedged[p]
     /\ UNCHANGED wireVars
  \/ /\ outcome \in {"lost", "unseen"} /\ ~wedged[p]
     /\ nfaults < MaxFaults /\ nfaults' = nfaults + 1
     /\ faulted' = [faulted EXCEPT ![p] = TRUE]
     /\ \E verdict \in BOOLEAN : wedged' = [wedged EXCEPT ![p] = verdict]

Outcomes == {"ok", "rejected", "lost", "unseen", "wedged"}
Done(outcome) == outcome \in {"ok", "lost"}

Code(outcome) == IF outcome = "ok" THEN "Ok" ELSE "Error"

Off(a, x) == [a EXCEPT !.on = @ \ {x}, !.filters[x] = {}]
On(a, x)  == [Off(a, x) EXCEPT !.on = @ \cup {x}]

\* The adapter at port p carries out a command, if the outcome says so.
Effect(p, outcome, after) ==
  adapter' = IF Done(outcome) THEN [adapter EXCEPT ![p] = after] ELSE adapter

\* Mutant: the channel is overwritten and never disconnected.
DropNothing(s) == UNCHANGED <<adapter, wireVars>>

\* RawChannel::drop of the channel of slot s; a failure is only logged.
DropChannel(s) ==
  LET p == slots[s].device IN
  IF Wire(s) = None THEN UNCHANGED <<adapter, wireVars>>
  ELSE \E o \in Outcomes \ {"rejected"} :
         Exchange(p, o) /\ Effect(p, o, Off(adapter[p], Wire(s)))

\* Mutant: the host channel stays beside what replaces it.
WithoutRaw(s) == [slots EXCEPT ![s].chan = None]

\* The table without the channel of slot s.
WithoutChannel(s) == [slots EXCEPT ![s].chan = None, ![s].host = FALSE]

-----------------------------------------------------------------------------
(* Devices and channels.                                                   *)

\* PassThruOpen, at the first free slot; the mutex is held throughout.
Open(t) ==
  LET p == call[t].arg
      free == {s \in Slots : slots[s].device = None}
  IN
  /\ Locks(t, "lock") /\ call[t].op = "Open"
  /\ \/ /\ free = {} /\ Return(t, "Failed")
        /\ UNCHANGED <<slots, sess, adapter, wireVars>>
     \/ /\ free # {} /\ sess[p] # "free"      \* the port is busy
        /\ Return(t, "Error")
        /\ UNCHANGED <<slots, sess, adapter, wireVars>>
     \/ /\ free # {} /\ sess[p] = "free"      \* the handshake fails
        /\ nfaults < MaxFaults /\ nfaults' = nfaults + 1
        /\ Return(t, "Error")
        /\ UNCHANGED <<slots, sess, adapter, wedged, faulted>>
     \/ /\ sess[p] = "free"
        /\ \E s \in free :
             /\ \A r \in free : s <= r
             /\ slots' = [slots EXCEPT ![s] = [EmptySlot EXCEPT !.device = p]]
        /\ sess' = [sess EXCEPT ![p] = "live"]
        /\ wedged' = [wedged EXCEPT ![p] = FALSE]
        /\ faulted' = [faulted EXCEPT ![p] = FALSE]
        /\ adapter' = [adapter EXCEPT ![p] = Blank]   \* DTR/RTS reset the chip
        /\ Return(t, "Ok") /\ UNCHANGED nfaults
  /\ UNCHANGED poisoned

\* PassThruClose takes the slot; its last Device handle starts the teardown.
Close(t) ==
  LET s == call[t].slot IN
  /\ Locks(t, "lock") /\ call[t].op = "Close"
  /\ IF slots[s].device = None
     THEN /\ Return(t, "InvalidDevice")
          /\ UNCHANGED <<slots, sess, adapter, wireVars>>
     ELSE /\ DropChannel(s)
          /\ slots' = [slots EXCEPT ![s] = EmptySlot]
          /\ sess' = [sess EXCEPT ![slots[s].device] = "ending"]
          /\ Leave(t, "Ok", {s})
  /\ UNCHANGED poisoned

\* The first half of PassThruConnect: whatever channel there is goes.
ConnectDrops(t) ==
  LET s == call[t].slot IN
  /\ Locks(t, "lock") /\ call[t].op = "Connect"
  /\ IF slots[s].device = None
     THEN /\ Return(t, "InvalidDevice")
          /\ UNCHANGED <<slots, adapter, wireVars>>
     ELSE /\ DropChannel(s)
          /\ slots' = WithoutChannel(s)
          /\ call' = [call EXCEPT ![t].phase = "connect", ![t].was = Kind(s)]
          /\ holder' = t /\ UNCHANGED result
  /\ UNCHANGED <<poisoned, sess>>

\* The second half: connect_raw, or connect_deferred over raw CAN.
Connect(t) ==
  LET s == call[t].slot
      p == slots[s].device
      x == IF call[t].arg = HostIsoTp THEN Can ELSE call[t].arg
      fresh == [slots[s] EXCEPT !.nfilters = 0, !.current = None, !.nextFilter = 0]
  IN
  /\ call[t].phase = "connect"
  /\ \E o \in Outcomes :
       /\ Exchange(p, o) /\ Effect(p, o, On(adapter[p], x))
       /\ Leave(t, Code(o), {s})
       /\ slots' = IF o # "ok" THEN slots
                   ELSE IF call[t].arg = HostIsoTp
                     THEN [slots EXCEPT ![s] = [fresh EXCEPT !.host = TRUE]]
                     ELSE [slots EXCEPT ![s] = [fresh EXCEPT !.chan = x]]
  /\ UNCHANGED <<poisoned, sess>>

Disconnect(t) ==
  LET s == call[t].slot IN
  /\ Locks(t, "lock") /\ call[t].op = "Disconnect"
  /\ IF Wire(s) = None
     THEN /\ Return(t, "InvalidChannel")
          /\ UNCHANGED <<slots, adapter, wireVars>>
     ELSE /\ DropChannel(s)
          /\ slots' = WithoutChannel(s)
          /\ Leave(t, "Ok", {s})
  /\ UNCHANGED <<poisoned, sess>>

\* PassThruSetProgrammingVoltage, or PassThruReadVersion, which asks nobody.
DeviceCommand(t) ==
  LET p == slots[call[t].slot].device IN
  /\ Locks(t, "lock") /\ call[t].op = "Command"
  /\ \/ p = None /\ Return(t, "InvalidDevice") /\ UNCHANGED wireVars
     \/ p # None /\ \E o \in Outcomes : Exchange(p, o) /\ Return(t, Code(o))
     \/ p # None /\ Return(t, "Ok") /\ UNCHANGED wireVars
  /\ UNCHANGED <<slots, poisoned, sess, adapter>>

-----------------------------------------------------------------------------
(* Filters and periodic messages.                                          *)

\* The mutex is held for operation op on the channel of the slot.
Holds(t, phase, op) == call[t].phase = phase /\ call[t].op = op

\* Mutants: a filter is counted before the adapter answers; the count wraps.
MoreAtOnce(outcome, n) == n + 1
FewerUnchecked(outcome, n) == IF outcome = "ok" THEN n - 1 ELSE n

\* RawChannel::nfilters after a start and after a stop (saturating_sub).
More(outcome, n)  == IF outcome = "ok" THEN n + 1 ELSE n
Fewer(outcome, n) == IF outcome = "ok" /\ n > 0 THEN n - 1 ELSE n

Add(a, x, id) == [a EXCEPT !.filters[x] = @ \cup {id}]
Remove(a, x, id) == [a EXCEPT !.filters[x] = @ \ {id}]

\* The adapter refuses to stop what it does not have.
Consistent(outcome, known) ==
  (outcome = "ok" => known) /\ (outcome = "rejected" => ~known)

\* Channel::set_filter retires the old filter; a failure is only logged.
RetireFilter(t) ==
  LET s == call[t].slot
      p == slots[s].device
      old == slots[s].current
  IN
  /\ Holds(t, "host", "StartFilter") /\ old # None
  /\ \E o \in Outcomes :
       /\ Exchange(p, o) /\ Consistent(o, old \in adapter[p].filters[Can])
       /\ Effect(p, o, Remove(adapter[p], Can, old))
       /\ slots' = [slots EXCEPT ![s].current = None,
             ![s].nfilters = Fewer(o, @)]
  /\ Enter(t, "install")
  /\ UNCHANGED <<poisoned, sess>>

\* ... and installs the new one under the next id.
InstallFilter(t) ==
  LET s == call[t].slot
      p == slots[s].device
      id == slots[s].nextFilter
  IN
  /\ \/ Holds(t, "install", "StartFilter")
     \/ Holds(t, "host", "StartFilter") /\ slots[s].current = None
  /\ \E o \in Outcomes :
       /\ Exchange(p, o) /\ Effect(p, o, Add(adapter[p], Can, id))
       /\ slots' = [slots EXCEPT ![s].nextFilter = @ + 1, ![s].nfilters = More(o, @),
                                 ![s].current = IF o = "ok" THEN id ELSE @]
       /\ Return(t, Code(o))
  /\ UNCHANGED <<poisoned, sess>>

\* PassThruStartMsgFilter on a firmware channel: the handle is the wire id.
StartFilter(t) ==
  LET s == call[t].slot
      p == slots[s].device
      id == Handle(slots[s].nextId)
  IN
  /\ Holds(t, "chan", "StartFilter")
  /\ \E o \in Outcomes :
       /\ Exchange(p, o) /\ Effect(p, o, Add(adapter[p], slots[s].chan, id))
       /\ slots' = [slots EXCEPT ![s].nextId = @ + 1,
                                 ![s].nfilters = More(o, @)]
       /\ Return(t, Code(o))
  /\ UNCHANGED <<poisoned, sess>>

\* A host channel keeps its filter; a firmware channel stops the one it is told.
StopFilter(t) ==
  LET s == call[t].slot
      p == slots[s].device
      x == slots[s].chan
  IN
  /\ \/ /\ Holds(t, "host", "StopFilter") /\ Return(t, "Ok")
        /\ UNCHANGED <<slots, adapter, wireVars>>
     \/ /\ Holds(t, "chan", "StopFilter")
        /\ \E o \in Outcomes :
             /\ Exchange(p, o) /\ Consistent(o, call[t].arg \in adapter[p].filters[x])
             /\ Effect(p, o, Remove(adapter[p], x, call[t].arg))
             /\ slots' = [slots EXCEPT ![s].nfilters = Fewer(o, @)]
             /\ Return(t, IF o = "ok" THEN "Ok" ELSE "InvalidFilter")
  /\ UNCHANGED <<poisoned, sess>>

\* PassThruStartPeriodicMsg draws its handle from the counter of the filters.
StartPeriodic(t) ==
  LET s == call[t].slot IN
  /\ Holds(t, "chan", "StartPeriodic")
  /\ \E o \in Outcomes : Exchange(slots[s].device, o) /\ Return(t, Code(o))
  /\ slots' = [slots EXCEPT ![s].nextId = @ + 1]
  /\ UNCHANGED <<poisoned, sess, adapter>>

-----------------------------------------------------------------------------
(* Messages and ioctls.                                                    *)

\* PassThruWriteMsgs: one of its messages is refused or unanswered, or none is.
WriteMessages(t) ==
  /\ Holds(t, "chan", "Write") \/ Holds(t, "host", "Write")
  /\ \E o \in Outcomes :
       Exchange(slots[call[t].slot].device, o) /\ Return(t, Code(o))
  /\ UNCHANGED <<slots, poisoned, sess, adapter>>

\* An IOCTL or the end of a periodic message; the buffer and filter clears and
\* an empty list of parameters ask nobody.
Ioctl(t) ==
  /\ Holds(t, "chan", "Ioctl")
  /\ \/ \E o \in Outcomes :
          Exchange(slots[call[t].slot].device, o) /\ Return(t, Code(o))
     \/ Return(t, "Ok") /\ UNCHANGED wireVars
  /\ UNCHANGED <<slots, poisoned, sess, adapter>>

\* A K-line init that fails, for whatever reason, is ERR_FAILED.
InitFails(t) ==
  /\ Holds(t, "chan", "Ioctl")
  /\ \E o \in Outcomes \ {"ok"} :
       Exchange(slots[call[t].slot].device, o) /\ Return(t, "Failed")
  /\ UNCHANGED <<slots, poisoned, sess, adapter>>

\* Messages of no use, null IOCTL arguments, and what the ISO-TP peer refuses.
BadMessage(t) ==
  /\ \/ call[t].phase \in {"host", "chan"} /\ call[t].op \in {"StartFilter", "Write"}
     \/ Holds(t, "chan", "Ioctl")
  /\ Return(t, "Param")
  /\ UNCHANGED <<slots, poisoned, sess, adapter, wireVars>>

\* t is in the loop of PassThruReadMsgs.
Reads(t) == call[t].phase \in {"host", "chan", "more"} /\ call[t].op = "Read"

\* One poll finds a message: the last one asked for, or the loop goes on.
\* IsoTp::recv may fail over it.
TakeMessage(t) ==
  /\ Reads(t) /\ Exchange(slots[call[t].slot].device, "ok")
  /\ \/ call[t].arg = 1 /\ Return(t, "Ok")
     \/ /\ call[t].arg > 1
        /\ call' = [call EXCEPT ![t].phase = "more", ![t].arg = @ - 1]
        /\ UNCHANGED <<holder, result>>
     \/ slots[call[t].slot].host /\ Return(t, "Error")
  /\ UNCHANGED <<slots, poisoned, sess, adapter>>

\* The loop is over with the messages it has, if any.
ReadCode(t) ==
  IF call[t].phase = "more" THEN "Ok"
  ELSE IF call[t].phase = "chan" /\ slots[call[t].slot].nfilters = 0 THEN "EmptyNoFilter"
  ELSE "Empty"

\* The deadline passes with nothing to read.
ReadEnds(t) ==
  /\ Reads(t) /\ Exchange(slots[call[t].slot].device, "ok")
  /\ Return(t, ReadCode(t))
  /\ UNCHANGED <<slots, poisoned, sess, adapter>>

\* A poll fails: the messages read so far stay with the caller.  The loop over
\* IsoTp::recv takes an unanswered poll for a deadline that passed.
ReadFails(t) ==
  LET s == call[t].slot IN
  /\ Reads(t)
  /\ \E o \in {"lost", "unseen", "wedged"} :
       /\ Exchange(slots[s].device, o)
       /\ \/ Return(t, Code(o))
          \/ slots[s].host /\ o # "wedged" /\ Return(t, ReadCode(t))
  /\ UNCHANGED <<slots, poisoned, sess, adapter>>

\* A counter of the ISO-TP machines overflows; guard() catches it.
Panic(t) ==
  /\ MayPanic
  /\ Holds(t, "host", "Write") \/ (Reads(t) /\ slots[call[t].slot].host)
  /\ poisoned' = TRUE
  /\ Return(t, "Failed")
  /\ UNCHANGED <<slots, sess, adapter, wireVars>>

-----------------------------------------------------------------------------
(* The sessions and the bus.                                               *)

\* Actor::teardown runs in a thread of its own and frees the port.
EndSession(p) ==
  /\ sess[p] = "ending" /\ sess' = [sess EXCEPT ![p] = "free"]
  /\ UNCHANGED <<call, result, slots, holder, poisoned, adapter, wireVars>>

Init ==
  /\ call = [t \in Threads |-> Idle] /\ result = [t \in Threads |-> "Ok"]
  /\ slots = [s \in Slots |-> EmptySlot]
  /\ holder = NoThread /\ poisoned = FALSE
  /\ sess = [p \in Ports |-> "free"]
  /\ wedged = [p \in Ports |-> FALSE] /\ faulted = [p \in Ports |-> FALSE]
  /\ adapter = [p \in Ports |-> Blank] /\ nfaults = 0

\* What t does with the mutex in its hand.
Section(t) ==
  \/ Connect(t) \/ RetireFilter(t) \/ InstallFilter(t) \/ StartFilter(t) \/ StopFilter(t)
  \/ StartPeriodic(t) \/ WriteMessages(t) \/ Ioctl(t)
  \/ InitFails(t) \/ BadMessage(t)
  \/ TakeMessage(t) \/ ReadEnds(t) \/ ReadFails(t) \/ Panic(t)

\* A call before it has the mutex.
Wait(t) ==
  \/ BadParameter(t) \/ FindPoison(t) \/ LookForHost(t) \/ LookForChannel(t)
  \/ Open(t) \/ Close(t) \/ ConnectDrops(t) \/ Disconnect(t) \/ DeviceCommand(t)

Next ==
  \/ \E t \in Threads : Call(t) \/ Wait(t) \/ Section(t)
  \/ \E p \in Ports : EndSession(p)

Spec == Init /\ [][Next]_vars

-----------------------------------------------------------------------------
(* Properties.                                                             *)

CallType ==
  [op : Ops \cup {"None"}, slot : Slots \cup {0},
   arg : Ports \cup Protos \cup Nat \cup {None, HostIsoTp},
   phase : Waiting \cup Sections \cup {"idle"},
   moved : BOOLEAN, was : {"free", "open", "raw", "host"}]

SlotType ==
  [device : Ports \cup {None}, chan : Protos \cup {None}, host : BOOLEAN,
   nfilters : Nat, current : Nat \cup {None}, nextFilter : Nat, nextId : Nat]

AdapterType ==
  [on : SUBSET Protos, filters : [Protos -> SUBSET Nat]]

Codes == {"Ok", "Empty", "EmptyNoFilter", "Param", "InvalidDevice", "InvalidChannel",
          "InvalidFilter", "Error", "Failed", "Pending"}

\* Every variable has its type: the slot table, the calls, the sessions and
\* the adapters (lib.rs SLOTS, raw.rs RawChannel, channel.rs Channel).
TypeOK ==
  /\ call \in [Threads -> CallType] /\ result \in [Threads -> Codes]
  /\ slots \in [Slots -> SlotType]
  /\ holder \in Threads \cup {NoThread} /\ poisoned \in BOOLEAN
  /\ sess \in [Ports -> {"free", "live", "ending"}]
  /\ wedged \in [Ports -> BOOLEAN] /\ faulted \in [Ports -> BOOLEAN]
  /\ adapter \in [Ports -> AdapterType] /\ nfaults \in Nat

Owned(p) == {Wire(s) : s \in {r \in Slots : slots[r].device = p}} \ {None}

\* While no exchange of a session has failed, the channels connected on its
\* adapter are those the slot table holds: a reconnect, a close or a refused
\* connect of any thread leaves no channel behind (lib.rs:225-229 says the C
\* shim leaked it), and none is used that is not there.
ChannelsTracked == \A p \in Ports : ~faulted[p] => adapter[p].on = Owned(p)

\* The count behind the "no filter installed" hint is the number of filters
\* the adapter has for the channel, through refused starts, stops of unknown
\* handles and reconnects, as long as the handles of the device do not wrap.
FiltersCounted ==
  \A s \in Slots :
    LET p == slots[s].device IN
    (Wire(s) # None /\ ~faulted[p] /\ slots[s].nextId <= HandleSpan + 1) =>
      slots[s].nfilters = Cardinality(adapter[p].filters[Wire(s)])

\* One slot has one channel and one session: a slot never holds a firmware
\* channel and a host channel (lib.rs:57), a port is live for exactly one slot,
\* and nobody's slot is a port whose session is ending or gone.
SlotsOwnSessions ==
  /\ \A s \in Slots : ~(slots[s].host /\ slots[s].chan # None)
  /\ \A s \in Slots : slots[s].device = None => Wire(s) = None
  /\ \A r, s \in Slots : slots[r].device = slots[s].device => r = s \/ slots[s].device = None
  /\ \A p \in Ports : sess[p] = "live" <=> \E s \in Slots : slots[s].device = p

\* A thread inside a section works on the slot it looked up: until it leaves,
\* no other thread closes, replaces or reconnects what the section is using.
SectionsKeepTheirSlot ==
  \A t \in Threads : call[t].phase \in Sections =>
    /\ holder = t /\ slots[call[t].slot].device # None
    /\ call[t].phase \in {"host", "install"} => slots[call[t].slot].host
    /\ call[t].phase = "chan" => slots[call[t].slot].chan # None
    /\ call[t].phase = "more" => Wire(call[t].slot) # None
    /\ call[t].phase = "connect" => Wire(call[t].slot) = None

\* Between the halves of a PassThruConnect nobody else sees slot s.
Connecting(s) ==
  holder # NoThread /\ call[holder].phase = "connect" /\ call[holder].slot = s

\* The calls of several threads, each of one or two sections, are those of
\* a table that each call reads or changes at one instant (PassThru).
Service == INSTANCE PassThru WITH
  table <- [s \in Slots |-> IF Connecting(s) THEN call[holder].was ELSE Kind(s)],
  asked <- [t \in Threads |-> [op |-> call[t].op, slot |-> call[t].slot,
                               moved |-> call[t].moved]],
  code <- result

ServiceSpec == Service!Spec
=============================================================================
