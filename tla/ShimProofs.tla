----------------------------- MODULE ShimProofs -----------------------------
(***************************************************************************)
(* Theorems about Shim, for any threads, slots, ports, protocols and       *)
(* bounds: types, and what the mutex protects.                             *)
(***************************************************************************)
EXTENDS Shim, TLAPS

-----------------------------------------------------------------------------
(* Types, by groups of variables.                                          *)

CallsTyped ==
  /\ call \in [Threads -> CallType] /\ result \in [Threads -> Codes]
  /\ holder \in Threads \cup {NoThread} /\ poisoned \in BOOLEAN

SlotsTyped == slots \in [Slots -> SlotType]

SessTyped == sess \in [Ports -> {"free", "live", "ending"}]

WireTyped ==
  wedged \in [Ports -> BOOLEAN] /\ faulted \in [Ports -> BOOLEAN] /\ nfaults \in Nat

AdapterTyped == adapter \in [Ports -> AdapterType]

\* What a thread asked for is what it may ask for, and only a PassThruConnect
\* has a second half.
ArgsFit ==
  \A t \in Threads : call[t].phase # "idle" =>
    /\ call[t].op \in Ops /\ call[t].slot \in Slots /\ call[t].arg \in Args(call[t].op)
    /\ call[t].phase = "connect" => call[t].op = "Connect"

Typed == CallsTyped /\ ArgsFit /\ SlotsTyped /\ SessTyped /\ WireTyped /\ AdapterTyped

LEMMA TypedIsTypeOK == Typed => TypeOK
  BY DEF Typed, TypeOK, CallsTyped, SlotsTyped, SessTyped, WireTyped, AdapterTyped

LEMMA Constants ==
  /\ Can \in Protos /\ None \notin Ports /\ None \notin Protos /\ None \notin Nat
  /\ HostIsoTp \notin Protos /\ NoThread \notin Threads
  BY ShimAssumption DEF ShimAssumption

LEMMA ArgType ==
  \A op \in Ops : Args(op) \subseteq Ports \cup Protos \cup Nat \cup {None, HostIsoTp}
  <1> SUFFICES ASSUME NEW op \in Ops, NEW a \in Args(op)
               PROVE  a \in Ports \cup Protos \cup Nat \cup {None, HostIsoTp}
    OBVIOUS
  <1>1. MaxWanted \in Nat /\ HandleSpan \in Nat
    BY ShimAssumption DEF ShimAssumption
  <1>2. 1 .. MaxWanted \subseteq Nat /\ Handles \subseteq Nat
    BY <1>1 DEF Handles
  <1> QED BY <1>2 DEF Args

\* A handle is a natural number.
LEMMA HandleNat == ASSUME NEW n \in Nat PROVE Handle(n) \in Nat
  BY ShimAssumption DEF ShimAssumption, Handle

-----------------------------------------------------------------------------
(* How calls begin a section and return.                                   *)

\* Only t's call changes, but for what the others are told of their channels.
Others(t) ==
  \A u \in Threads \ {t} :
    /\ call'[u].phase = call[u].phase /\ call'[u].op = call[u].op
    /\ call'[u].slot = call[u].slot /\ call'[u].arg = call[u].arg

LEMMA IdleTyped == Idle \in CallType /\ Idle.phase = "idle"
  BY DEF Idle, CallType, Waiting, Sections

LEMMA LeaveFacts ==
  ASSUME NEW t \in Threads, NEW code \in Codes, NEW changed, CallsTyped,
         Leave(t, code, changed), poisoned' \in BOOLEAN
  PROVE  CallsTyped' /\ Others(t) /\ call'[t].phase = "idle" /\ holder' = NoThread
  <1>1. ASSUME NEW u \in Threads \ {t}
        PROVE  /\ call'[u] \in CallType
               /\ call'[u].phase = call[u].phase /\ call'[u].op = call[u].op
               /\ call'[u].slot = call[u].slot /\ call'[u].arg = call[u].arg
    <2> DEFINE told == call[u].moved \/ (call[u].op \in TwoLookOps /\ call[u].slot \in changed)
    <2>1. call[u] \in CallType
      BY DEF CallsTyped
    <2>2. call'[u] = [call[u] EXCEPT !.moved = told]
      BY Zenon DEF Leave
    <2>3. told \in BOOLEAN
      BY <2>1 DEF CallType
    <2> HIDE DEF told
    <2> QED BY <2>1, <2>2, <2>3 DEF CallType
  <1>2. call'[t] = Idle
    BY DEF Leave
  <1>3. DOMAIN call' = Threads /\ call' = [u \in Threads |-> call'[u]]
    BY DEF Leave
  <1>4. call' \in [Threads -> CallType]
    BY <1>1, <1>2, <1>3, IdleTyped
  <1>5. result' \in [Threads -> Codes] /\ holder' = NoThread
    BY DEF Leave, CallsTyped
  <1> QED BY <1>1, <1>2, <1>4, <1>5, IdleTyped DEF CallsTyped, Others

LEMMA EnterFacts ==
  ASSUME NEW t \in Threads, NEW phase \in Waiting \cup Sections, CallsTyped,
         Enter(t, phase), poisoned' \in BOOLEAN
  PROVE  /\ CallsTyped' /\ Others(t) /\ call'[t].phase = phase
         /\ call'[t].op = call[t].op /\ call'[t].slot = call[t].slot
         /\ call'[t].arg = call[t].arg
         /\ holder' = IF phase \in Sections THEN t ELSE NoThread
  <1>1. call[t] \in CallType
    BY DEF CallsTyped
  <1>2. /\ call'[t] = [call[t] EXCEPT !.phase = phase]
        /\ \A u \in Threads \ {t} : call'[u] = call[u]
    BY DEF Enter, CallsTyped
  <1>3. call'[t] \in CallType
    BY <1>1, <1>2 DEF CallType
  <1>4. call' \in [Threads -> CallType]
    BY <1>2, <1>3 DEF Enter, CallsTyped
  <1> QED BY <1>1, <1>2, <1>4 DEF CallsTyped, Others, Enter, CallType

LEMMA ArgsKept ==
  ASSUME NEW t \in Threads, ArgsFit, Others(t), CallsTyped,
         \/ call'[t].phase = "idle"
         \/ /\ call[t].phase # "idle"
            /\ call'[t].op = call[t].op /\ call'[t].slot = call[t].slot
            /\ call'[t].arg = call[t].arg
            /\ call'[t].phase = "connect" => call[t].op = "Connect"
  PROVE  ArgsFit'
  <1> SUFFICES ASSUME NEW u \in Threads, call'[u].phase # "idle"
               PROVE  /\ call'[u].op \in Ops /\ call'[u].slot \in Slots
                      /\ call'[u].arg \in Args(call'[u].op)
                      /\ call'[u].phase = "connect" => call'[u].op = "Connect"
    BY DEF ArgsFit, Args
  <1>1. /\ call[u].phase # "idle"
        /\ call'[u].op = call[u].op /\ call'[u].slot = call[u].slot
        /\ call'[u].arg = call[u].arg
        /\ call'[u].phase = "connect" =>
             call[u].phase = "connect" \/ call[u].op = "Connect"
    BY DEF Others
  <1> QED BY <1>1 DEF ArgsFit

-----------------------------------------------------------------------------
(* Exchanges and the adapter.                                              *)

LEMMA FlagUpdate ==
  ASSUME NEW D, NEW f \in [D -> BOOLEAN], NEW d, NEW b \in BOOLEAN
  PROVE  [f EXCEPT ![d] = b] \in [D -> BOOLEAN]
  BY Zenon

LEMMA ExchangeTyped ==
  ASSUME WireTyped, NEW p, NEW o, Exchange(p, o)
  PROVE  WireTyped'
  <1>1. CASE UNCHANGED wireVars
    BY <1>1 DEF wireVars, WireTyped
  <1>2. CASE /\ nfaults' = nfaults + 1
             /\ faulted' = [faulted EXCEPT ![p] = TRUE]
             /\ \E verdict \in BOOLEAN : wedged' = [wedged EXCEPT ![p] = verdict]
    <2>1. faulted' \in [Ports -> BOOLEAN]
      BY <1>2, FlagUpdate DEF WireTyped
    <2>2. PICK verdict \in BOOLEAN : wedged' = [wedged EXCEPT ![p] = verdict]
      BY <1>2
    <2>3. wedged' \in [Ports -> BOOLEAN]
      BY <2>2, FlagUpdate DEF WireTyped
    <2>4. nfaults' \in Nat
      BY <1>2 DEF WireTyped
    <2> QED BY <2>1, <2>3, <2>4 DEF WireTyped
  <1> QED BY <1>1, <1>2 DEF Exchange

LEMMA OffTyped ==
  ASSUME NEW a \in AdapterType, NEW x
  PROVE  Off(a, x) \in AdapterType
  BY DEF Off, AdapterType

LEMMA OnTyped ==
  ASSUME NEW a \in AdapterType, NEW x \in Protos
  PROVE  On(a, x) \in AdapterType
  <1>1. Off(a, x) \in AdapterType
    BY OffTyped
  <1> QED BY <1>1 DEF On, AdapterType

LEMMA FilterTyped ==
  ASSUME NEW a \in AdapterType, NEW x, NEW id
  PROVE  Remove(a, x, id) \in AdapterType /\ (id \in Nat => Add(a, x, id) \in AdapterType)
  BY DEF Add, Remove, AdapterType

LEMMA EffectTyped ==
  ASSUME AdapterTyped, NEW p, NEW o, NEW after, Effect(p, o, after),
         p \in Ports => after \in AdapterType
  PROVE  AdapterTyped'
  BY DEF AdapterTyped, Effect

LEMMA DropTyped ==
  ASSUME AdapterTyped, WireTyped, NEW s, DropChannel(s)
  PROVE  AdapterTyped' /\ WireTyped'
  <1>1. CASE UNCHANGED <<adapter, wireVars>>
    BY <1>1 DEF AdapterTyped, WireTyped, wireVars
  <1>2. CASE ~UNCHANGED <<adapter, wireVars>>
    <2>1. PICK o \in Outcomes \ {"rejected"} :
            /\ Exchange(slots[s].device, o)
            /\ Effect(slots[s].device, o, Off(adapter[slots[s].device], Wire(s)))
      BY <1>2 DEF DropChannel
    <2>2. WireTyped'
      BY <2>1, ExchangeTyped
    <2>3. slots[s].device \in Ports => Off(adapter[slots[s].device], Wire(s)) \in AdapterType
      BY OffTyped DEF AdapterTyped
    <2> QED BY <2>1, <2>2, <2>3, EffectTyped
  <1> QED BY <1>1, <1>2

LEMMA CodeTyped == \A o : Code(o) \in Codes
  BY DEF Code, Codes

-----------------------------------------------------------------------------
(* Every action keeps the types.                                           *)

\* What an action may do to the table: a slot gets a value of its type.
LEMMA SlotsUpdate ==
  ASSUME SlotsTyped, NEW s, NEW v, s \in Slots => v \in SlotType
  PROVE  [slots EXCEPT ![s] = v] \in [Slots -> SlotType]
  BY DEF SlotsTyped

LEMMA EmptySlotTyped == EmptySlot \in SlotType
  BY DEF EmptySlot, SlotType

\* A thread in a call has a slot, and its fields have their types.
LEMMA SlotOf ==
  ASSUME NEW t \in Threads, Typed, call[t].phase # "idle"
  PROVE  /\ call[t].slot \in Slots /\ slots[call[t].slot] \in SlotType
         /\ call[t].op \in Ops /\ call[t].arg \in Args(call[t].op)
  BY DEF Typed, ArgsFit, SlotsTyped

\* A call returns and only the wire may have changed.
LEMMA ReturnTyped ==
  ASSUME NEW t \in Threads, NEW code \in Codes, NEW changed, Typed,
         Leave(t, code, changed), poisoned' \in BOOLEAN,
         SlotsTyped', SessTyped', WireTyped', AdapterTyped'
  PROVE  Typed'
  <1>1. CallsTyped' /\ Others(t) /\ call'[t].phase = "idle"
    BY LeaveFacts DEF Typed
  <1>2. ArgsFit'
    BY <1>1, ArgsKept DEF Typed
  <1> QED BY <1>1, <1>2 DEF Typed

LEMMA EntryTyped ==
  ASSUME NEW t \in Threads, NEW phase \in (Waiting \cup Sections) \ {"connect"}, Typed,
         call[t].phase # "idle", Enter(t, phase), poisoned' \in BOOLEAN,
         SlotsTyped', SessTyped', WireTyped', AdapterTyped'
  PROVE  Typed'
  <1>1. /\ CallsTyped' /\ Others(t)
        /\ call'[t].op = call[t].op /\ call'[t].slot = call[t].slot
        /\ call'[t].arg = call[t].arg /\ call'[t].phase # "connect"
    BY EnterFacts DEF Typed
  <1>2. ArgsFit'
    BY <1>1, ArgsKept DEF Typed
  <1> QED BY <1>1, <1>2 DEF Typed

LEMMA Unchanged ==
  ASSUME Typed
  PROVE  /\ UNCHANGED slots => SlotsTyped'
         /\ UNCHANGED sess => SessTyped'
         /\ UNCHANGED wireVars => WireTyped'
         /\ UNCHANGED adapter => AdapterTyped'
         /\ UNCHANGED poisoned => poisoned' \in BOOLEAN
  BY DEF Typed, SlotsTyped, SessTyped, WireTyped, AdapterTyped, CallsTyped, wireVars

LEMMA CallTyped ==
  ASSUME NEW t \in Threads, Typed, Call(t)
  PROVE  Typed'
  <1>1. PICK op \in Ops, s \in Slots : \E a \in Args(op) :
          call' = [call EXCEPT ![t] =
            [Idle EXCEPT !.op = op, !.slot = s, !.arg = a,
                         !.phase = IF op \in TwoLookOps THEN "look" ELSE "lock"]]
    BY DEF Call
  <1>2. PICK a \in Args(op) :
          call' = [call EXCEPT ![t] =
            [Idle EXCEPT !.op = op, !.slot = s, !.arg = a,
                         !.phase = IF op \in TwoLookOps THEN "look" ELSE "lock"]]
    BY <1>1
  <1> DEFINE new == [Idle EXCEPT !.op = op, !.slot = s, !.arg = a,
                       !.phase = IF op \in TwoLookOps THEN "look" ELSE "lock"]
  <1>3. a \in Ports \cup Protos \cup Nat \cup {None, HostIsoTp}
    BY ArgType
  <1>4. /\ new \in CallType /\ new.op = op /\ new.slot = s /\ new.arg = a
        /\ new.phase # "connect"
    BY <1>3 DEF Idle, CallType, Waiting
  <1> HIDE DEF new
  <1>5. call' = [call EXCEPT ![t] = new] /\ call'[t] = new
    BY <1>2 DEF new, Typed, CallsTyped
  <1>6. CallsTyped'
    BY <1>4, <1>5 DEF Call, Typed, CallsTyped, Codes
  <1>7. ArgsFit'
    <2> SUFFICES ASSUME NEW u \in Threads, call'[u].phase # "idle"
                 PROVE  /\ call'[u].op \in Ops /\ call'[u].slot \in Slots
                        /\ call'[u].arg \in Args(call'[u].op)
                        /\ call'[u].phase = "connect" => call'[u].op = "Connect"
      BY DEF ArgsFit, Args
    <2>1. CASE u = t
      BY <2>1, <1>4, <1>5
    <2>2. CASE u # t
      <3>1. call'[u] = call[u]
        BY <2>2, <1>5 DEF Typed, CallsTyped
      <3> QED BY <3>1 DEF Typed, ArgsFit
    <2> QED BY <2>1, <2>2
  <1>8. SlotsTyped' /\ SessTyped' /\ WireTyped' /\ AdapterTyped'
    BY Unchanged DEF Call
  <1> QED BY <1>6, <1>7, <1>8 DEF Typed

LEMMA WaitTyped ==
  ASSUME NEW t \in Threads, Typed,
         BadParameter(t) \/ FindPoison(t) \/ LookForHost(t) \/ LookForChannel(t)
  PROVE  Typed'
  <1>1. CASE BadParameter(t)
    <2>1. CallsTyped' /\ Others(t) /\ call'[t].phase = "idle"
      BY <1>1, IdleTyped DEF BadParameter, Typed, CallsTyped, Others, Codes
    <2>2. ArgsFit'
      BY <2>1, ArgsKept DEF Typed
    <2>3. SlotsTyped' /\ SessTyped' /\ WireTyped' /\ AdapterTyped'
      BY <1>1, Unchanged DEF BadParameter
    <2> QED BY <2>1, <2>2, <2>3 DEF Typed
  <1>2. CASE FindPoison(t)
    <2>1. Leave(t, "Failed", {}) /\ "Failed" \in Codes
      BY <1>2 DEF FindPoison, Return, Codes
    <2>2. SlotsTyped' /\ SessTyped' /\ WireTyped' /\ AdapterTyped' /\ poisoned' \in BOOLEAN
      BY <1>2, Unchanged DEF FindPoison
    <2> QED BY <2>1, <2>2, ReturnTyped
  <1>3. CASE LookForHost(t)
    <2>1. PICK phase \in (Waiting \cup Sections) \ {"connect"} : Enter(t, phase) /\ call[t].phase # "idle"
      BY <1>3 DEF LookForHost, Waiting, Sections, Locks
    <2>2. SlotsTyped' /\ SessTyped' /\ WireTyped' /\ AdapterTyped' /\ poisoned' \in BOOLEAN
      BY <1>3, Unchanged DEF LookForHost
    <2> QED BY <2>1, <2>2, EntryTyped
  <1>4. CASE LookForChannel(t)
    <2>1. SlotsTyped' /\ SessTyped' /\ WireTyped' /\ AdapterTyped' /\ poisoned' \in BOOLEAN
      BY <1>4, Unchanged DEF LookForChannel
    <2>2. CASE Enter(t, "chan")
      <3>1. "chan" \in (Waiting \cup Sections) \ {"connect"} /\ call[t].phase # "idle"
        BY <1>4 DEF LookForChannel, Sections, Locks
      <3> QED BY <2>1, <2>2, <3>1, EntryTyped
    <2>3. CASE Return(t, "InvalidChannel")
      <3>1. Leave(t, "InvalidChannel", {}) /\ "InvalidChannel" \in Codes
        BY <2>3 DEF Return, Codes
      <3> QED BY <2>1, <3>1, ReturnTyped
    <2> QED BY <1>4, <2>2, <2>3 DEF LookForChannel
  <1> QED BY <1>1, <1>2, <1>3, <1>4

LEMMA WithoutTyped ==
  ASSUME SlotsTyped, NEW s \in Slots
  PROVE  WithoutChannel(s) \in [Slots -> SlotType]
  BY DEF SlotsTyped, SlotType, WithoutChannel

LEMMA OpenTyped ==
  ASSUME NEW t \in Threads, Typed, Open(t)
  PROVE  Typed'
  <1> DEFINE p == call[t].arg
  <1>1. PICK code \in {"Failed", "Error", "Ok"} : Leave(t, code, {})
    BY DEF Open, Return
  <1>2. poisoned' \in BOOLEAN /\ code \in Codes /\ call[t].phase # "idle"
    BY <1>1, Unchanged DEF Open, Locks, Codes
  <1>3. p \in Ports
    BY <1>2, SlotOf DEF Open, Args
  <1>4. CASE UNCHANGED <<slots, sess, adapter, wireVars>>
    BY <1>1, <1>2, <1>4, Unchanged, ReturnTyped
  <1>5. CASE nfaults' = nfaults + 1 /\ UNCHANGED <<slots, sess, adapter, wedged, faulted>>
    <2>1. WireTyped'
      BY <1>5 DEF Typed, WireTyped
    <2> QED BY <1>1, <1>2, <1>5, <2>1, Unchanged, ReturnTyped
  <1>6. CASE /\ \E s \in Slots :
                  slots' = [slots EXCEPT ![s] = [EmptySlot EXCEPT !.device = p]]
             /\ sess' = [sess EXCEPT ![p] = "live"]
             /\ wedged' = [wedged EXCEPT ![p] = FALSE]
             /\ faulted' = [faulted EXCEPT ![p] = FALSE]
             /\ adapter' = [adapter EXCEPT ![p] = Blank]
             /\ UNCHANGED nfaults
    <2>1. [EmptySlot EXCEPT !.device = p] \in SlotType
      BY <1>3 DEF EmptySlot, SlotType
    <2>2. SlotsTyped'
      BY <1>6, <2>1, SlotsUpdate DEF SlotsTyped, Typed
    <2>3. SessTyped'
      BY <1>6 DEF SessTyped, Typed
    <2>4. WireTyped'
      BY <1>6, FlagUpdate DEF WireTyped, Typed
    <2>5. Blank \in AdapterType
      BY DEF Blank, AdapterType
    <2>6. AdapterTyped'
      BY <1>6, <2>5 DEF AdapterTyped, Typed
    <2> QED BY <1>1, <1>2, <2>2, <2>3, <2>4, <2>6, ReturnTyped
  <1> QED BY <1>4, <1>5, <1>6 DEF Open

LEMMA CloseTyped ==
  ASSUME NEW t \in Threads, Typed, Close(t)
  PROVE  Typed'
  <1> DEFINE s == call[t].slot
  <1>1. call[t].phase # "idle" /\ poisoned' \in BOOLEAN
    BY Unchanged DEF Close, Locks
  <1>2. CASE slots[s].device = None
    <2>1. Leave(t, "InvalidDevice", {}) /\ "InvalidDevice" \in Codes
      BY <1>2 DEF Close, Return, Codes
    <2>2. SlotsTyped' /\ SessTyped' /\ WireTyped' /\ AdapterTyped'
      BY <1>2, Unchanged DEF Close
    <2> QED BY <1>1, <2>1, <2>2, ReturnTyped
  <1>3. CASE slots[s].device # None
    <2>1. Leave(t, "Ok", {s}) /\ "Ok" \in Codes
      BY <1>3 DEF Close, Codes
    <2>2. WireTyped' /\ AdapterTyped'
      BY <1>3, DropTyped DEF Close, Typed
    <2>3. SlotsTyped'
      BY <1>3, EmptySlotTyped, SlotsUpdate DEF Close, SlotsTyped, Typed
    <2>4. SessTyped'
      BY <1>3 DEF Close, SessTyped, Typed
    <2> QED BY <1>1, <2>1, <2>2, <2>3, <2>4, ReturnTyped
  <1> QED BY <1>2, <1>3

LEMMA KindTyped == \A s : Kind(s) \in {"free", "open", "raw", "host"}
  BY DEF Kind

LEMMA ConnectDropsTyped ==
  ASSUME NEW t \in Threads, Typed, ConnectDrops(t)
  PROVE  Typed'
  <1> DEFINE s == call[t].slot
  <1>1. call[t].phase # "idle" /\ poisoned' \in BOOLEAN /\ SessTyped'
    BY Unchanged DEF ConnectDrops, Locks
  <1>2. CASE slots[s].device = None
    <2>1. Leave(t, "InvalidDevice", {}) /\ "InvalidDevice" \in Codes
      BY <1>2 DEF ConnectDrops, Return, Codes
    <2>2. SlotsTyped' /\ WireTyped' /\ AdapterTyped'
      BY <1>2, Unchanged DEF ConnectDrops
    <2> QED BY <1>1, <2>1, <2>2, ReturnTyped
  <1>3. CASE slots[s].device # None
    <2>1. WireTyped' /\ AdapterTyped'
      BY <1>3, DropTyped DEF ConnectDrops, Typed
    <2>2. SlotsTyped'
      BY <1>1, <1>3, SlotOf, WithoutTyped DEF ConnectDrops, SlotsTyped, Typed
    <2>3. call[t] \in CallType
      BY DEF Typed, CallsTyped
    <2> DEFINE new == [call[t] EXCEPT !.phase = "connect", !.was = Kind(s)]
    <2>4. /\ new \in CallType /\ new.op = call[t].op /\ new.slot = call[t].slot
          /\ new.arg = call[t].arg
      BY <2>3, KindTyped DEF CallType, Sections
    <2>5. call' = [call EXCEPT ![t] = new]
      BY <1>3 DEF ConnectDrops
    <2> HIDE DEF new
    <2>6. CallsTyped' /\ Others(t) /\ call'[t] = new
      BY <1>1, <1>3, <2>4, <2>5 DEF ConnectDrops, Typed, CallsTyped, Others
    <2>8. call[t].op = "Connect"
      BY DEF ConnectDrops
    <2>7. ArgsFit'
      BY <1>1, <2>8, <2>4, <2>6, ArgsKept DEF Typed
    <2> QED BY <1>1, <2>1, <2>2, <2>6, <2>7 DEF Typed
  <1> QED BY <1>2, <1>3

LEMMA ConnectTyped ==
  ASSUME NEW t \in Threads, Typed, Connect(t)
  PROVE  Typed'
  <1> DEFINE s == call[t].slot
             p == slots[s].device
             x == IF call[t].arg = HostIsoTp THEN Can ELSE call[t].arg
             fresh == [slots[s] EXCEPT !.nfilters = 0, !.current = None, !.nextFilter = 0]
  <1>1. call[t].phase # "idle" /\ poisoned' \in BOOLEAN /\ SessTyped'
    BY Unchanged DEF Connect
  <1>2. PICK o \in Outcomes :
          /\ Exchange(p, o) /\ Effect(p, o, On(adapter[p], x))
          /\ Leave(t, Code(o), {s})
          /\ slots' = IF o # "ok" THEN slots
                      ELSE IF call[t].arg = HostIsoTp
                        THEN [slots EXCEPT ![s] = [fresh EXCEPT !.host = TRUE]]
                        ELSE [slots EXCEPT ![s] = [fresh EXCEPT !.chan = x]]
    BY DEF Connect
  <1>3. call[t].op = "Connect"
    BY DEF Connect, Typed, ArgsFit
  <1>4. x \in Protos
    BY <1>1, <1>3, SlotOf, Constants DEF Args
  <1>5. slots[s] \in SlotType
    BY <1>1, SlotOf
  <1>6. fresh \in SlotType
    BY <1>5 DEF SlotType
  <1>7. [fresh EXCEPT !.host = TRUE] \in SlotType /\ [fresh EXCEPT !.chan = x] \in SlotType
    BY <1>4, <1>6 DEF SlotType
  <1>8. WireTyped'
    BY <1>2, ExchangeTyped DEF Typed
  <1>9. p \in Ports => On(adapter[p], x) \in AdapterType
    BY <1>4, OnTyped DEF Typed, AdapterTyped
  <1> HIDE DEF s, p, x, fresh
  <1>10. AdapterTyped'
    BY <1>2, <1>9, EffectTyped DEF Typed
  <1>11. SlotsTyped'
    BY <1>2, <1>7, SlotsUpdate DEF SlotsTyped, Typed
  <1>12. Code(o) \in Codes
    BY CodeTyped
  <1> QED BY <1>1, <1>2, <1>8, <1>10, <1>11, <1>12, ReturnTyped

LEMMA DisconnectTyped ==
  ASSUME NEW t \in Threads, Typed, Disconnect(t)
  PROVE  Typed'
  <1> DEFINE s == call[t].slot
  <1>1. call[t].phase # "idle" /\ poisoned' \in BOOLEAN /\ SessTyped'
    BY Unchanged DEF Disconnect, Locks
  <1>2. CASE Wire(s) = None
    <2>1. Leave(t, "InvalidChannel", {}) /\ "InvalidChannel" \in Codes
      BY <1>2 DEF Disconnect, Return, Codes
    <2>2. SlotsTyped' /\ WireTyped' /\ AdapterTyped'
      BY <1>2, Unchanged DEF Disconnect
    <2> QED BY <1>1, <2>1, <2>2, ReturnTyped
  <1>3. CASE Wire(s) # None
    <2>1. Leave(t, "Ok", {s}) /\ "Ok" \in Codes
      BY <1>3 DEF Disconnect, Codes
    <2>2. WireTyped' /\ AdapterTyped'
      BY <1>3, DropTyped DEF Disconnect, Typed
    <2>3. SlotsTyped'
      BY <1>1, <1>3, SlotOf, WithoutTyped DEF Disconnect, SlotsTyped, Typed
    <2> QED BY <1>1, <2>1, <2>2, <2>3, ReturnTyped
  <1> QED BY <1>2, <1>3

\* A call returns after at most one exchange and leaves the table alone.
LEMMA AnswerTyped ==
  ASSUME NEW t \in Threads, NEW code \in Codes, Typed, Return(t, code),
         UNCHANGED <<slots, sess, adapter>>, poisoned' \in BOOLEAN,
         UNCHANGED wireVars \/ \E p, o : Exchange(p, o)
  PROVE  Typed'
  <1>1. WireTyped'
    BY Unchanged, ExchangeTyped DEF Typed
  <1>2. SlotsTyped' /\ SessTyped' /\ AdapterTyped' /\ Leave(t, code, {})
    BY Unchanged DEF Return
  <1> QED BY <1>1, <1>2, ReturnTyped

\* Actions that end a call and change neither the table nor the adapter.
Answers(t) ==
  \/ DeviceCommand(t) \/ WriteMessages(t) \/ Ioctl(t) \/ InitFails(t) \/ BadMessage(t)
  \/ ReadEnds(t) \/ ReadFails(t) \/ Panic(t)

LEMMA ReadCodeTyped == \A t : ReadCode(t) \in Codes
  BY DEF ReadCode, Codes

LEMMA AnswersFacts ==
  ASSUME NEW t \in Threads, Typed, Answers(t)
  PROVE  /\ \E code \in Codes : Return(t, code)
         /\ UNCHANGED <<slots, sess, adapter>> /\ poisoned' \in BOOLEAN
         /\ UNCHANGED wireVars \/ \E o : Exchange(slots[call[t].slot].device, o)
  <1>1. poisoned \in BOOLEAN /\ {"Ok", "InvalidDevice", "Failed", "Param"} \subseteq Codes
    BY DEF Typed, CallsTyped, Codes
  <1>2. CASE DeviceCommand(t)
    BY <1>1, <1>2, CodeTyped DEF DeviceCommand
  <1>3. CASE WriteMessages(t)
    BY <1>1, <1>3, CodeTyped DEF WriteMessages
  <1>4. CASE Ioctl(t) \/ InitFails(t)
    BY <1>1, <1>4, CodeTyped DEF Ioctl, InitFails
  <1>5. CASE BadMessage(t) \/ Panic(t)
    BY <1>1, <1>5 DEF BadMessage, Panic
  <1>6. CASE ReadEnds(t) \/ ReadFails(t)
    BY <1>1, <1>6, CodeTyped, ReadCodeTyped DEF ReadEnds, ReadFails
  <1> QED BY <1>2, <1>3, <1>4, <1>5, <1>6 DEF Answers

LEMMA AnswersTyped ==
  ASSUME NEW t \in Threads, Typed, Answers(t)
  PROVE  Typed'
  <1>1. PICK code \in Codes : Return(t, code)
    BY AnswersFacts
  <1>2. /\ UNCHANGED <<slots, sess, adapter>> /\ poisoned' \in BOOLEAN
        /\ UNCHANGED wireVars \/ \E p, o : Exchange(p, o)
    BY AnswersFacts
  <1> QED BY <1>1, <1>2, AnswerTyped

LEMMA CountTyped ==
  ASSUME NEW n \in Nat, NEW o
  PROVE  More(o, n) \in Nat /\ Fewer(o, n) \in Nat
  BY DEF More, Fewer

\* The updates of a filter that is installed keep a slot a slot.
LEMMA HandedOut ==
  ASSUME NEW r \in SlotType, NEW i \in Nat, NEW n \in Nat
  PROVE  [r EXCEPT !.nextId = i, !.nfilters = n] \in SlotType
  BY DEF SlotType

LEMMA MadeCurrent ==
  ASSUME NEW r \in SlotType, NEW i \in Nat, NEW n \in Nat, NEW c \in Nat \cup {None}
  PROVE  [r EXCEPT !.nextFilter = i, !.nfilters = n, !.current = c] \in SlotType
  BY DEF SlotType

LEMMA FilterActionTyped ==
  ASSUME NEW t \in Threads, Typed,
         StartFilter(t) \/ InstallFilter(t) \/ StopFilter(t) \/ StartPeriodic(t)
  PROVE  Typed'
  <1> DEFINE s == call[t].slot
             p == slots[s].device
  <1>1. call[t].phase # "idle" /\ poisoned' \in BOOLEAN /\ SessTyped'
    BY Unchanged DEF StartFilter, InstallFilter, StopFilter, StartPeriodic, Holds
  <1>2. slots[s] \in SlotType
    BY <1>1, SlotOf
  <1>3. /\ slots[s].nextId \in Nat /\ slots[s].nextFilter \in Nat /\ slots[s].nfilters \in Nat
        /\ Handle(slots[s].nextId) \in Nat
    BY <1>2, HandleNat DEF SlotType
  <1>4. CASE StartFilter(t)
    <2> DEFINE new(o) == [slots[s] EXCEPT !.nextId = @ + 1, !.nfilters = More(o, @)]
    <2>1. PICK o \in Outcomes :
            /\ Exchange(p, o)
            /\ Effect(p, o, Add(adapter[p], slots[s].chan, Handle(slots[s].nextId)))
            /\ slots' = [slots EXCEPT ![s].nextId = @ + 1, ![s].nfilters = More(o, @)]
            /\ Leave(t, Code(o), {})
      BY <1>4 DEF StartFilter, Return
    <2>2. new(o) \in SlotType
      <3>1. More(o, slots[s].nfilters) \in Nat /\ slots[s].nextId + 1 \in Nat
        BY <1>3, CountTyped
      <3> QED BY <1>2, <3>1, HandedOut
    <2>3. slots' = [slots EXCEPT ![s] = new(o)]
      BY <2>1
    <2> HIDE DEF new
    <2>4. SlotsTyped'
      BY <2>2, <2>3, SlotsUpdate DEF SlotsTyped, Typed
    <2>5. p \in Ports => Add(adapter[p], slots[s].chan, Handle(slots[s].nextId)) \in AdapterType
      BY <1>3, FilterTyped DEF Typed, AdapterTyped
    <2>6. AdapterTyped' /\ WireTyped'
      BY <2>1, <2>5, EffectTyped, ExchangeTyped DEF Typed
    <2> QED BY <1>1, <2>1, <2>4, <2>6, CodeTyped, ReturnTyped
  <1>5. CASE InstallFilter(t)
    <2> DEFINE id == slots[s].nextFilter
               new(o) == [slots[s] EXCEPT !.nextFilter = @ + 1, !.nfilters = More(o, @),
                                          !.current = IF o = "ok" THEN id ELSE @]
    <2>1. PICK o \in Outcomes :
            /\ Exchange(p, o)
            /\ Effect(p, o, Add(adapter[p], Can, id))
            /\ slots' = [slots EXCEPT ![s].nextFilter = @ + 1, ![s].nfilters = More(o, @),
                                      ![s].current = IF o = "ok" THEN id ELSE @]
            /\ Leave(t, Code(o), {})
      BY <1>5 DEF InstallFilter, Return
    <2>2. new(o) \in SlotType
      <3>1. More(o, slots[s].nfilters) \in Nat /\ slots[s].nextFilter + 1 \in Nat
        BY <1>3, CountTyped
      <3>2. (IF o = "ok" THEN id ELSE slots[s].current) \in Nat \cup {None}
        BY <1>2, <1>3 DEF SlotType
      <3> QED BY <1>2, <3>1, <3>2, MadeCurrent
    <2>3. slots' = [slots EXCEPT ![s] = new(o)]
      BY <2>1
    <2>5. p \in Ports => Add(adapter[p], Can, id) \in AdapterType
      BY <1>3, FilterTyped DEF Typed, AdapterTyped
    <2> HIDE DEF new
    <2>4. SlotsTyped'
      BY <2>2, <2>3, SlotsUpdate DEF SlotsTyped, Typed
    <2>6. AdapterTyped' /\ WireTyped'
      BY <2>1, <2>5, EffectTyped, ExchangeTyped DEF Typed
    <2> QED BY <1>1, <2>1, <2>4, <2>6, CodeTyped, ReturnTyped
  <1>6. CASE StopFilter(t)
    <2>1. CASE Return(t, "Ok") /\ UNCHANGED <<slots, adapter, wireVars>>
      <3>1. Leave(t, "Ok", {}) /\ "Ok" \in Codes
        BY <2>1 DEF Return, Codes
      <3> QED BY <1>1, <2>1, <3>1, Unchanged, ReturnTyped
    <2>2. CASE \E o \in Outcomes :
             /\ Exchange(p, o)
             /\ Effect(p, o, Remove(adapter[p], slots[s].chan, call[t].arg))
             /\ slots' = [slots EXCEPT ![s].nfilters = Fewer(o, @)]
             /\ Return(t, IF o = "ok" THEN "Ok" ELSE "InvalidFilter")
      <3> DEFINE new(o) == [slots[s] EXCEPT !.nfilters = Fewer(o, @)]
      <3>1. PICK o \in Outcomes :
             /\ Exchange(p, o)
             /\ Effect(p, o, Remove(adapter[p], slots[s].chan, call[t].arg))
             /\ slots' = [slots EXCEPT ![s].nfilters = Fewer(o, @)]
             /\ Return(t, IF o = "ok" THEN "Ok" ELSE "InvalidFilter")
        BY <2>2
      <3>2. new(o) \in SlotType
        BY <1>2, <1>3, CountTyped DEF SlotType
      <3>3. slots' = [slots EXCEPT ![s] = new(o)]
        BY <3>1
      <3>5. p \in Ports => Remove(adapter[p], slots[s].chan, call[t].arg) \in AdapterType
        BY FilterTyped DEF Typed, AdapterTyped
      <3> HIDE DEF new
      <3>4. SlotsTyped'
        BY <3>2, <3>3, SlotsUpdate DEF SlotsTyped, Typed
      <3>6. AdapterTyped' /\ WireTyped'
        BY <3>1, <3>5, EffectTyped, ExchangeTyped DEF Typed
      <3>7. PICK code \in Codes : Leave(t, code, {})
        BY <3>1 DEF Return, Codes
      <3> QED BY <1>1, <3>4, <3>6, <3>7, ReturnTyped
    <2> QED BY <1>6, <2>1, <2>2 DEF StopFilter
  <1>7. CASE StartPeriodic(t)
    <2> DEFINE new == [slots[s] EXCEPT !.nextId = @ + 1]
    <2>1. PICK o \in Outcomes : Exchange(p, o) /\ Leave(t, Code(o), {})
      BY <1>7 DEF StartPeriodic, Return
    <2>2. new \in SlotType
      BY <1>2, <1>3 DEF SlotType
    <2>3. slots' = [slots EXCEPT ![s] = new]
      BY <1>7 DEF StartPeriodic
    <2> HIDE DEF new
    <2>4. SlotsTyped'
      BY <2>2, <2>3, SlotsUpdate DEF SlotsTyped, Typed
    <2>5. WireTyped' /\ AdapterTyped'
      BY <1>7, <2>1, ExchangeTyped, Unchanged DEF Typed, StartPeriodic
    <2> QED BY <1>1, <2>1, <2>4, <2>5, CodeTyped, ReturnTyped
  <1> QED BY <1>4, <1>5, <1>6, <1>7

LEMMA RetireTyped ==
  ASSUME NEW t \in Threads, Typed, RetireFilter(t)
  PROVE  Typed'
  <1> DEFINE s == call[t].slot
             p == slots[s].device
             new(o) == [slots[s] EXCEPT !.current = None, !.nfilters = Fewer(o, @)]
  <1>1. call[t].phase # "idle" /\ poisoned' \in BOOLEAN /\ SessTyped'
    BY Unchanged DEF RetireFilter, Holds
  <1>2. PICK o \in Outcomes :
          /\ Exchange(p, o) /\ Effect(p, o, Remove(adapter[p], Can, slots[s].current))
          /\ slots' = [slots EXCEPT ![s].current = None, ![s].nfilters = Fewer(o, @)]
    BY DEF RetireFilter
  <1>3. slots[s] \in SlotType
    BY <1>1, SlotOf
  <1>4. new(o) \in SlotType
    BY <1>3, CountTyped DEF SlotType
  <1>5. slots' = [slots EXCEPT ![s] = new(o)]
    BY <1>2
  <1>6. p \in Ports => Remove(adapter[p], Can, slots[s].current) \in AdapterType
    BY FilterTyped DEF Typed, AdapterTyped
  <1>7. Enter(t, "install") /\ "install" \in (Waiting \cup Sections) \ {"connect"}
    BY DEF RetireFilter, Sections
  <1> HIDE DEF new
  <1>8. SlotsTyped'
    BY <1>4, <1>5, SlotsUpdate DEF SlotsTyped, Typed
  <1>9. AdapterTyped' /\ WireTyped'
    BY <1>2, <1>6, EffectTyped, ExchangeTyped DEF Typed
  <1> QED BY <1>1, <1>7, <1>8, <1>9, EntryTyped

LEMMA TakeTyped ==
  ASSUME NEW t \in Threads, Typed, TakeMessage(t)
  PROVE  Typed'
  <1>1. /\ call[t].phase # "idle" /\ call[t].op = "Read" /\ poisoned' \in BOOLEAN
        /\ SlotsTyped' /\ SessTyped' /\ AdapterTyped'
    BY Unchanged DEF TakeMessage, Reads
  <1>2. WireTyped'
    BY ExchangeTyped DEF TakeMessage, Typed
  <1>3. CASE \E code \in Codes : Return(t, code)
    BY <1>1, <1>2, <1>3, ReturnTyped DEF Return
  <1>4. CASE /\ call[t].arg > 1
             /\ call' = [call EXCEPT ![t].phase = "more", ![t].arg = @ - 1]
             /\ UNCHANGED <<holder, result>>
    <2> DEFINE new == [call[t] EXCEPT !.phase = "more", !.arg = @ - 1]
    <2>1. call[t].arg \in 1 .. MaxWanted /\ MaxWanted \in Nat
      BY <1>1, SlotOf, ShimAssumption DEF Args, ShimAssumption
    <2>2. call[t].arg - 1 \in Nat /\ call[t].arg - 1 \in 1 .. MaxWanted
      BY <1>4, <2>1
    <2>3. call[t] \in CallType
      BY DEF Typed, CallsTyped
    <2>4. /\ new \in CallType /\ new.op = call[t].op /\ new.slot = call[t].slot
          /\ new.phase = "more" /\ new.arg = call[t].arg - 1
      BY <2>2, <2>3 DEF CallType, Sections
    <2> HIDE DEF new
    <2>5. call' = [call EXCEPT ![t] = new]
      BY <1>4 DEF new
    <2>6. CallsTyped' /\ call'[t] = new /\ \A u \in Threads \ {t} : call'[u] = call[u]
      BY <1>1, <1>4, <2>4, <2>5 DEF Typed, CallsTyped
    <2>7. new.arg \in Args(new.op) /\ new.op \in Ops /\ new.slot \in Slots
      BY <1>1, <2>2, <2>4, SlotOf DEF Args
    <2>8. ArgsFit'
      <3> SUFFICES ASSUME NEW u \in Threads, call'[u].phase # "idle"
                   PROVE  /\ call'[u].op \in Ops /\ call'[u].slot \in Slots
                          /\ call'[u].arg \in Args(call'[u].op)
                          /\ call'[u].phase = "connect" => call'[u].op = "Connect"
        BY DEF ArgsFit, Args
      <3>1. CASE u = t
        BY <3>1, <2>4, <2>6, <2>7
      <3>2. CASE u # t
        BY <3>2, <2>6 DEF Typed, ArgsFit
      <3> QED BY <3>1, <3>2
    <2> QED BY <1>1, <1>2, <2>6, <2>8 DEF Typed
  <1>5. "Ok" \in Codes /\ "Error" \in Codes
    BY DEF Codes
  <1> QED BY <1>3, <1>4, <1>5 DEF TakeMessage

LEMMA EndSessionTyped ==
  ASSUME NEW p \in Ports, Typed, EndSession(p)
  PROVE  Typed'
  <1>1. SlotsTyped' /\ WireTyped' /\ AdapterTyped'
    BY Unchanged DEF EndSession
  <1>2. SessTyped'
    BY DEF EndSession, Typed, SessTyped
  <1>3. CallsTyped' /\ ArgsFit'
    BY DEF EndSession, Typed, CallsTyped, ArgsFit, Args
  <1> QED BY <1>1, <1>2, <1>3 DEF Typed

LEMMA InitTyped == Init => Typed
  <1> SUFFICES ASSUME Init PROVE Typed
    OBVIOUS
  <1>1. CallsTyped /\ ArgsFit
    BY IdleTyped DEF Init, CallsTyped, ArgsFit, Codes
  <1>2. SlotsTyped
    BY EmptySlotTyped DEF Init, SlotsTyped
  <1>3. SessTyped /\ WireTyped
    BY DEF Init, SessTyped, WireTyped
  <1>4. AdapterTyped
    BY DEF Init, AdapterTyped, Blank, AdapterType
  <1> QED BY <1>1, <1>2, <1>3, <1>4 DEF Typed

LEMMA NextTyped == Typed /\ [Next]_vars => Typed'
  <1> SUFFICES ASSUME Typed, [Next]_vars PROVE Typed'
    OBVIOUS
  <1>1. CASE UNCHANGED vars
    BY <1>1, Unchanged DEF vars, Typed, CallsTyped, ArgsFit, Args
  <1>2. ASSUME NEW t \in Threads, Call(t) PROVE Typed'
    BY <1>2, CallTyped
  <1>3. ASSUME NEW t \in Threads, Wait(t) PROVE Typed'
    BY <1>3, WaitTyped, OpenTyped, CloseTyped, ConnectDropsTyped, DisconnectTyped,
       AnswersTyped DEF Wait, Answers
  <1>4. ASSUME NEW t \in Threads, Section(t) PROVE Typed'
    BY <1>4, ConnectTyped, RetireTyped, FilterActionTyped, AnswersTyped, TakeTyped
       DEF Section, Answers
  <1>5. ASSUME NEW p \in Ports, EndSession(p) PROVE Typed'
    BY <1>5, EndSessionTyped
  <1> QED BY <1>1, <1>2, <1>3, <1>4, <1>5 DEF Next

\* Every variable has its type in every reachable state: the table, the calls,
\* the sessions and the adapters (lib.rs SLOTS, raw.rs, channel.rs).
THEOREM TypeCorrect == Spec => []TypeOK
  <1>1. Spec => []Typed
    BY InitTyped, NextTyped, PTL DEF Spec
  <1> QED BY <1>1, TypedIsTypeOK, PTL
=============================================================================
