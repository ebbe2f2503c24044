------------------------------- MODULE IsoTp -------------------------------
(***************************************************************************)
(* The host path of isotp/mod.rs: one caller that sends, receives and asks *)
(* over raw CAN by driving the machines of IsoTpMachine, the adapter's     *)
(* receive ring, and an ECU that speaks ISO 15765-2.                       *)
(*                                                                         *)
(* The ECU, the bus and the ring are the environment.  The ECU is a        *)
(* conforming peer and runs the same two machines, as the property tests   *)
(* of the crate do; it may make the sender wait, refuse it, stay silent,   *)
(* answer late, or announce its answer with responsePending messages.      *)
(* Frames may be lost, repeated or come from elsewhere, within MaxFaults.  *)
(*                                                                         *)
(* Time is a Tick that counts every running timer down.  With Prompt it    *)
(* passes only when nobody has anything to do: the caller, the adapter and *)
(* the ECU are faster than the clock.                                      *)
(***************************************************************************)
EXTENDS IsoTpMachine, FiniteSets

CONSTANTS
  OverflowChecks,   \* the build panics when an integer overflows
  HostBs, HostStMin,\* rx_bs and rx_stmin: what our flow control asks for
  RecvTimeout,      \* the caller's timeout in ticks
  MaxPending,       \* MAX_RESPONSE_PENDING: 30
  EcuBs, EcuStMin,  \* what the ECU's flow control asks for
  EcuFlows,         \* the flow statuses the ECU uses
  RingCap,          \* frames the adapter's receive ring holds
  Prompt,
  NoiseFrames,      \* frames that are not the ECU's part in a transfer
  Ops,              \* the calls made: "send", "recv", "request"
  RequestLens, AnswerLens,   \* payload lengths, in bytes
  FaultKinds,       \* of "lose", "repeat", "noise", "link", "ignore", "late"
  MaxCalls, MaxPends, MaxFaults   \* bounds

Bytes == {"req", "resp", "pend", "pad"} \X Nat \X Nat \X Nat
Byte8 == 0..255

\* Frames as the parsers see them: another identifier's, a PCI they do not
\* know, and the four kinds, malformed ones included.
Frames ==
  [pci : {"Other", "Unknown"}]
    \cup [pci : {"SF", "FF"}, len : Nat, data : Seq(Bytes)]
    \cup [pci : {"CF"}, sn : 0..(SnMod - 1), data : Seq(Bytes)]
    \cup [pci : {"FC"}, fs : {"cts", "wait", "ovflw", "reserved"},
          bs : Byte8, stmin : Byte8]

ASSUME IsoTpAssumption ==
  /\ {OverflowChecks, Prompt} \subseteq BOOLEAN
  /\ {HostBs, HostStMin, EcuBs, EcuStMin} \subseteq 0..255
  /\ {RecvTimeout, RingCap} \subseteq Nat \ {0}
  /\ {MaxPending, MaxCalls, MaxPends, MaxFaults} \subseteq Nat
  /\ RequestLens \subseteq Nat /\ AnswerLens \subseteq 1..MaxPayload
  /\ EcuFlows \subseteq {"cts", "wait", "ovflw"}
  /\ Ops \subseteq {"send", "recv", "request"}
  /\ NoiseFrames \subseteq Frames /\ PadByte \in Bytes

VARIABLES
  \* the caller: where it is, which call, and the locals of the call
  pc, op, tx, rx,
  left,      \* ticks to host_recv's deadline
  polled,    \* the budget of the poll in progress is used up
  pends,     \* responsePending messages swallowed by drain_pending
  result,    \* what the last call returned
  \* frames on their way to the ECU; frames in the adapter's ring
  toEcu, ring,
  \* the ECU
  ecuTx, ecuRx,
  owed,      \* it owes the sender a flow control
  todo,      \* the request it has yet to answer, or 0
  \* observation only: messages the ECU began and the caller has not got
  \* past, requests the ECU received, WAITs the caller took in a row
  said, heard, waited,
  \* bounds
  ncalls, npends, nfaults

hostVars == <<pc, op, tx, rx, left, polled, pends, result>>
ecuVars  == <<ecuTx, ecuRx, owed, todo>>
obsVars  == <<said, heard, waited>>
vars == <<hostVars, toEcu, ring, ecuVars, obsVars, ncalls, npends, nfaults>>

-----------------------------------------------------------------------------
(* Messages.  Byte i of the request or answer of call n, which has len bytes. *)

Message(kind, n, len) == [i \in 1..len |-> <<kind, n, len, i>>]

\* is_response_pending
is_response_pending(payload) == payload[1][1] = "pend"

Request(payload)  == payload[1][2]

NoResult == [err |-> "none", data |-> << >>]
HostRx   == RxNew(HostBs, HostStMin, OverflowChecks)
EcuIdle  == RxNew(EcuBs, EcuStMin, FALSE)

Polling == pc \in {"fcpoll", "rxpoll"}

Init ==
  /\ pc = "idle" /\ op = "none" /\ tx = TxNone /\ rx = HostRx
  /\ left = 0 /\ polled = FALSE /\ pends = 0 /\ result = NoResult
  /\ toEcu = << >> /\ ring = << >>
  /\ ecuTx = TxNone /\ ecuRx = EcuIdle /\ owed = FALSE /\ todo = 0
  /\ said = << >> /\ heard = {} /\ waited = 0
  /\ ncalls = 0 /\ npends = 0 /\ nfaults = 0

-----------------------------------------------------------------------------
(* The caller.                                                              *)

\* What is left of `said` when the caller is handed this payload.
After(payload) ==
  IF \E i \in DOMAIN said : said[i] = payload
  THEN SubSeq(said, 1 + (CHOOSE i \in DOMAIN said : said[i] = payload), Len(said))
  ELSE said

\* The call returns; its machines go out of scope.
Return(err, data) ==
  /\ pc' = "idle" /\ op' = "none" /\ tx' = TxNone /\ rx' = HostRx
  /\ left' = 0 /\ polled' = FALSE /\ pends' = 0
  /\ result' = [err |-> err, data |-> data]
  /\ said' = IF data = << >> THEN said ELSE After(data)

\* host_recv begins: a new machine, a new deadline.
StartRecv ==
  /\ pc' = "recv" /\ tx' = TxNone /\ rx' = HostRx
  /\ left' = RecvTimeout /\ polled' = FALSE
  /\ UNCHANGED <<op, result, said>>

\* The loop goes on at label l with these machines.
Continue(l, t, r) ==
  /\ pc' = l /\ tx' = t /\ rx' = r /\ polled' = FALSE
  /\ UNCHANGED <<op, left, pends, result, said>>

Panic == Continue("panicked", tx, rx)

Fault(kind) ==
  /\ kind \in FaultKinds /\ nfaults < MaxFaults
  /\ nfaults' = nfaults + 1

\* IsoTp::send, recv and request.
Call ==
  /\ pc = "idle" /\ ncalls < MaxCalls
  /\ ncalls' = ncalls + 1 /\ waited' = 0
  /\ \/ /\ "recv" \in Ops
        /\ pc' = "recv" /\ op' = "recv" /\ tx' = TxNone /\ rx' = HostRx
        /\ left' = RecvTimeout /\ polled' = FALSE
        /\ UNCHANGED <<pends, result, said>>
     \/ \E o \in Ops \ {"recv"}, len \in RequestLens :
          IF len = 0 \/ len > MaxPayload
          THEN Return(IF len = 0 THEN "Malformed" ELSE "PayloadTooLong", << >>)
          ELSE /\ op' = o /\ pc' = "send"
               /\ tx' = TxNew(Message("req", ncalls + 1, len), OverflowChecks)
               /\ UNCHANGED <<rx, left, polled, pends, result, said>>
  /\ UNCHANGED <<toEcu, ring, ecuVars, heard, npends, nfaults>>

\* host_send, TxAction::Send, with the Done that follows the last frame.
SendFrame ==
  /\ pc = "send" /\ TxReady(tx)
  /\ LET m == TxSent(tx)
     IN  IF m.st = "panic" THEN Panic /\ UNCHANGED toEcu
         ELSE /\ toEcu' = Append(toEcu, TxFrame(tx))
              /\ CASE m.st # "done"                -> Continue("send", m, rx)
                   [] m.st = "done" /\ op = "send" -> Return("ok", << >>)
                   [] m.st = "done" /\ op # "send" -> StartRecv /\ UNCHANGED pends
  /\ UNCHANGED <<ring, ecuVars, heard, waited, ncalls, npends, nfaults>>

\* The write fails, before or after the frame left.
SendFails ==
  /\ pc = "send" /\ TxReady(tx) /\ Fault("link")
  /\ Return("Link", << >>)
  /\ \/ UNCHANGED toEcu
     \/ toEcu' = Append(toEcu, TxFrame(tx))
  /\ UNCHANGED <<ring, ecuVars, heard, waited, ncalls, npends>>

\* host_send, TxAction::WaitFc, or next's FcTimeout.
AwaitFlow ==
  /\ pc = "send" /\ tx.st = "await"
  /\ IF tx.timer = 0 THEN Return("FcTimeout", << >>) ELSE Continue("fcpoll", tx, rx)
  /\ UNCHANGED <<toEcu, ring, ecuVars, heard, waited, ncalls, npends, nfaults>>

\* The poll of host_send yields a frame.
FlowPolled ==
  /\ pc = "fcpoll" /\ ring # << >>
  /\ ring' = Tail(ring)
  /\ LET f == Head(ring)
         o == TxOnFrame(tx, f)
     IN  /\ waited' = IF f.pci # "FC" THEN waited
                      ELSE IF f.fs = "wait" THEN waited + 1 ELSE 0
         /\ CASE o.tx.st = "panic" -> Panic
              [] o.err # "ok"      -> Return(o.err, << >>)
              [] OTHER             -> Continue("send", o.tx, rx)
  /\ UNCHANGED <<toEcu, ecuVars, heard, ncalls, npends, nfaults>>

\* (Faulty variant: only N_Cr ends a receive.)
RecvLoopNoDeadline ==
  /\ pc = "recv"
  /\ IF RxExpired(rx) THEN Return("CfTimeout", << >>) ELSE Continue("rxpoll", tx, rx)
  /\ UNCHANGED <<toEcu, ring, ecuVars, heard, waited, ncalls, npends, nfaults>>

\* host_recv, the head of its loop: N_Cr first, then the caller's deadline.
RecvLoop ==
  /\ pc = "recv"
  /\ CASE RxExpired(rx)               -> Return("CfTimeout", << >>)
       [] ~RxExpired(rx) /\ left = 0  -> Return("Timeout", << >>)
       [] OTHER                       -> Continue("rxpoll", tx, rx)
  /\ UNCHANGED <<toEcu, ring, ecuVars, heard, waited, ncalls, npends, nfaults>>

\* A message is complete: drain_pending may swallow it.
Received(payload) ==
  IF op = "request" /\ is_response_pending(payload) /\ pends < MaxPending
  THEN StartRecv /\ pends' = pends + 1
  ELSE Return("ok", payload)

\* The poll of host_recv yields a frame; poll_frame skips what is not ours.
RecvPolled ==
  /\ pc = "rxpoll" /\ ring # << >>
  /\ ring' = Tail(ring)
  /\ LET f == Head(ring)
         o == RxOnFrame(rx, f)
     IN  IF f.pci = "Other" THEN Continue("recv", tx, rx) /\ UNCHANGED toEcu
         ELSE /\ toEcu' = IF o.ev = "fc"
                          THEN Append(toEcu, FlowControl("cts", HostBs, HostStMin))
                          ELSE toEcu
              /\ CASE o.ev = "panic" -> Panic
                   [] o.ev = "done"  -> Received(o.out)
                   [] o.ev \in {"fc", "continue"} -> Continue("recv", tx, o.rx)
                   [] OTHER          -> Return(o.ev, << >>)
  /\ UNCHANGED <<ecuVars, heard, waited, ncalls, npends, nfaults>>

\* The poll ends with nothing.
PollEmpty ==
  /\ Polling /\ ring = << >> /\ polled
  /\ Continue(IF pc = "fcpoll" THEN "send" ELSE "recv", tx, rx)
  /\ UNCHANGED <<toEcu, ring, ecuVars, heard, waited, ncalls, npends, nfaults>>

\* The poll fails; a frame it was about to bring is lost with it.
PollFails ==
  /\ Polling /\ Fault("link")
  /\ Return("Link", << >>)
  /\ ring' = ring \/ (ring # << >> /\ ring' = Tail(ring))
  /\ UNCHANGED <<toEcu, ecuVars, heard, waited, ncalls, npends>>

\* The write of a flow control fails, before or after the frame left.
FlowFails ==
  /\ pc = "rxpoll" /\ ring # << >> /\ Fault("link")
  /\ Head(ring).pci # "Other" /\ RxOnFrame(rx, Head(ring)).ev = "fc"
  /\ ring' = Tail(ring)
  /\ \/ UNCHANGED toEcu
     \/ toEcu' = Append(toEcu, FlowControl("cts", HostBs, HostStMin))
  /\ Return("Link", << >>)
  /\ UNCHANGED <<ecuVars, heard, waited, ncalls, npends>>

Host == SendFrame \/ AwaitFlow \/ FlowPolled \/ RecvLoop \/ RecvPolled \/ PollEmpty

-----------------------------------------------------------------------------
(* The ECU.                                                                 *)

\* A frame reaches the ring, or is lost to a full one.
Deposit(f) == ring' = IF Len(ring) < RingCap THEN Append(ring, f) ELSE ring

EcuReceive ==
  /\ toEcu # << >> /\ toEcu' = Tail(toEcu)
  /\ LET f == Head(toEcu)
         t == TxOnFrame(ecuTx, f)
         r == RxOnFrame(ecuRx, f)
     IN  IF f.pci = "FC"
         THEN /\ ecuTx' = IF t.err = "ok" THEN t.tx ELSE TxNone
              /\ UNCHANGED <<ecuRx, owed, todo, heard>>
         ELSE /\ ecuRx' = r.rx
              /\ owed' = (r.rx.st = "receiving" /\ (owed \/ r.ev = "fc"))
              /\ todo' = IF r.ev = "done" THEN Request(r.out) ELSE todo
              /\ heard' = IF r.ev = "done" THEN heard \cup {r.out} ELSE heard
              /\ UNCHANGED ecuTx
  /\ UNCHANGED <<hostVars, ring, said, waited, ncalls, npends, nfaults>>

\* It grants a block, asks for patience, or refuses.
EcuFlow ==
  /\ owed
  /\ \E fs \in EcuFlows :
       /\ fs = "wait" => ring = << >>
       /\ Deposit(FlowControl(fs, EcuBs, EcuStMin))
       /\ owed' = (fs = "wait")
       /\ ecuRx' = IF fs = "ovflw" THEN EcuIdle ELSE [ecuRx EXCEPT !.timer = NCr]
  /\ UNCHANGED <<hostVars, toEcu, ecuTx, todo, obsVars, ncalls, npends, nfaults>>

\* It begins its answer, or says that one will come.
EcuAnswer ==
  /\ todo # 0 /\ ecuTx.st = "done"
  /\ \E len \in AnswerLens :
       \/ /\ ecuTx' = TxNew(Message("resp", todo, len), FALSE)
          /\ said' = Append(said, Message("resp", todo, len))
          /\ todo' = 0 /\ UNCHANGED npends
       \/ /\ npends < MaxPends /\ npends' = npends + 1
          /\ ecuTx' = TxNew(Message("pend", todo, 1), FALSE)
          /\ said' = Append(said, Message("pend", todo, 1))
          /\ UNCHANGED todo
  /\ UNCHANGED <<hostVars, toEcu, ring, ecuRx, owed, heard, waited, ncalls, nfaults>>

\* It never answers.
EcuIgnores ==
  /\ todo # 0 /\ Fault("ignore")
  /\ todo' = 0
  /\ UNCHANGED <<hostVars, toEcu, ring, ecuTx, ecuRx, owed, obsVars, ncalls, npends>>

EcuSend ==
  /\ TxReady(ecuTx)
  /\ Deposit(TxFrame(ecuTx))
  /\ LET m == TxSent(ecuTx) IN ecuTx' = IF m.st = "done" THEN TxNone ELSE m
  /\ UNCHANGED <<hostVars, toEcu, ecuRx, owed, todo, obsVars, ncalls, npends, nfaults>>

\* Its own deadlines.
EcuExpires ==
  /\ \/ ecuTx.st = "await" /\ ecuTx.timer = 0 /\ ecuTx' = TxNone
        /\ UNCHANGED <<ecuRx, owed>>
     \/ RxExpired(ecuRx) /\ ecuRx' = EcuIdle /\ owed' = FALSE
        /\ UNCHANGED ecuTx
  /\ UNCHANGED <<hostVars, toEcu, ring, todo, obsVars, ncalls, npends, nfaults>>

Ecu == EcuReceive \/ EcuFlow \/ EcuAnswer \/ EcuSend \/ EcuExpires

-----------------------------------------------------------------------------
(* The bus and the clock.                                                   *)

Lose ==
  /\ Fault("lose")
  /\ \/ toEcu # << >> /\ toEcu' = Tail(toEcu) /\ UNCHANGED ring
     \/ ring # << >> /\ ring' = Tail(ring) /\ UNCHANGED toEcu
  /\ UNCHANGED <<hostVars, ecuVars, obsVars, ncalls, npends>>

Repeat ==
  /\ Fault("repeat")
  /\ \/ toEcu # << >> /\ toEcu' = <<Head(toEcu)>> \o toEcu /\ UNCHANGED ring
     \/ ring # << >> /\ Len(ring) < RingCap
        /\ ring' = <<Head(ring)>> \o ring /\ UNCHANGED toEcu
  /\ UNCHANGED <<hostVars, ecuVars, obsVars, ncalls, npends>>

Noise ==
  /\ Fault("noise")
  /\ \E f \in NoiseFrames : Deposit(f)
  /\ UNCHANGED <<hostVars, toEcu, ecuVars, obsVars, ncalls, npends>>

\* Nobody has anything to do before the clock moves.
HostWaits ==
  \/ pc \in {"idle", "panicked"}
  \/ pc = "send" /\ tx.st = "cons" /\ tx.timer > 0
  \/ Polling /\ ring = << >> /\ ~polled
EcuWaits ==
  /\ toEcu = << >> /\ ~owed /\ ~TxReady(ecuTx)
  /\ todo = 0 \/ "late" \in FaultKinds \/ ecuTx.st # "done"
  /\ ecuTx.st = "await" => ecuTx.timer > 0
  /\ ~RxExpired(ecuRx)

Down(n) == IF n > 0 THEN n - 1 ELSE n
RxDown(r) == IF r.st = "receiving" /\ r.timer >= 0 THEN [r EXCEPT !.timer = @ - 1] ELSE r

Tick ==
  /\ Prompt => HostWaits /\ EcuWaits
  /\ tx' = [tx EXCEPT !.timer = Down(@)] /\ ecuTx' = [ecuTx EXCEPT !.timer = Down(@)]
  /\ rx' = RxDown(rx) /\ ecuRx' = RxDown(ecuRx)
  /\ left' = Down(left) /\ polled' = Polling
  /\ UNCHANGED <<pc, op, pends, result, toEcu, ring, owed, todo, said, heard,
                 waited, ncalls, npends, nfaults>>

Next ==
  \/ Call \/ SendFrame \/ SendFails \/ AwaitFlow \/ FlowPolled
  \/ RecvLoop \/ RecvPolled \/ PollEmpty \/ PollFails \/ FlowFails
  \/ EcuReceive \/ EcuFlow \/ EcuAnswer \/ EcuIgnores \/ EcuSend \/ EcuExpires
  \/ Lose \/ Repeat \/ Noise \/ Tick

Spec == Init /\ [][Next]_vars

\* Nothing of an earlier call is on the bus, in the ring or in the ECU.
AtRest ==
  /\ toEcu = << >> /\ ring = << >>
  /\ ecuTx.st = "done" /\ ecuRx.st = "idle" /\ todo = 0

\* The caller lets the bus come to rest before each call.  The code leaves it
\* to him: neither a call that fails nor the next one empties the ring.
CalmSpec == Init /\ [][Next /\ (ncalls' # ncalls => AtRest)]_vars

\* The caller's thread and the clock go on; nothing is asked of the ECU.
FairSpec == Spec /\ WF_vars(Host) /\ WF_vars(Tick)

-----------------------------------------------------------------------------
(* Properties.                                                              *)

TxMachines ==
  [st : {"single", "first", "await", "cons", "done", "panic"},
   payload : Seq(Bytes), offset : Nat, sn : 0..(SnMod - 1), bs : Byte8,
   cfs : 0..(CounterMod - 1), stmin : 0..127, waits : 0..(CounterMod - 1),
   timer : Nat, checked : BOOLEAN]

RxMachines ==
  [st : {"idle", "receiving", "panic"}, buf : Seq(Bytes), ffdl : Nat,
   sn : 0..(SnMod - 1), cfs : 0..(CounterMod - 1), timer : -1..NCr,
   bs : Byte8, stmin : Byte8, checked : BOOLEAN]

Errors == {"Malformed", "PayloadTooLong", "FcTimeout", "WaitLimit", "Overflow",
           "Sequence", "CfTimeout", "Timeout", "Link"}

\* The type of every variable.
TypeOK ==
  /\ pc \in {"idle", "send", "fcpoll", "recv", "rxpoll", "panicked"}
  /\ op \in {"none", "send", "recv", "request"}
  /\ tx \in TxMachines /\ rx \in RxMachines
  /\ ecuTx \in TxMachines /\ ecuRx \in RxMachines
  /\ left \in 0..RecvTimeout /\ polled \in BOOLEAN /\ pends \in 0..MaxPending
  /\ result \in [err : {"none", "ok"} \cup Errors, data : Seq(Bytes)]
  /\ toEcu \in Seq(Frames) /\ ring \in Seq(Frames)
  /\ owed \in BOOLEAN /\ todo \in Nat
  /\ said \in Seq(Seq(Bytes)) /\ heard \subseteq Seq(Bytes)
  /\ waited \in Nat
  /\ ncalls \in 0..MaxCalls /\ npends \in 0..MaxPends /\ nfaults \in 0..MaxFaults

\* A message under reassembly is shorter than it was announced.
RxSound(r) == r.st = "receiving" => Len(r.buf) < r.ffdl

\* A transfer with frames to go has bytes to go, and a first frame does not
\* take more than there is.
TxSound(t) ==
  /\ t.st \in {"await", "cons"} => t.offset < Len(t.payload)
  /\ t.st = "first" => FrameData - 1 < Len(t.payload)

\* No subtraction or slice of the machines leaves its range, whatever frames
\* come in: ff_dl - buf.len() (machine.rs:365), payload.len() - offset
\* (machine.rs:164) and payload[..first] (machine.rs:146).
NoUnderflow == RxSound(rx) /\ RxSound(ecuRx) /\ TxSound(tx) /\ TxSound(ecuTx)

\* Exactly one message, all of it and in order.
Whole(payload) ==
  payload = Message(payload[1][1], payload[1][2], payload[1][3])

\* What either side reassembles is one message the other side sent, never a
\* part of one or pieces of two, when the bus loses or repeats a frame
\* (machine.rs:309-396).
NoSplice ==
  /\ result.data # << >> => Whole(result.data)
  /\ \A payload \in heard : Whole(payload)

\* The transmitter honours the block size: while the ECU owes a flow control,
\* no consecutive frame is on its way to it (machine.rs:174-179, mod.rs:9).
BlockHonoured ==
  owed => \A i \in DOMAIN toEcu : toEcu[i].pci # "CF"

\* With a prompt peer, nothing lost and no more responsePending messages than
\* drain_pending swallows, every request succeeds with the final answer to
\* itself, whatever the lengths, block sizes and STmin (mod.rs:49-61 and 310).
PromptCallsSucceed == nfaults = 0 =>
  /\ result.err \in {"none", "ok"}
  /\ pc = "idle" /\ ncalls > 0 =>
       /\ Request(result.data) = ncalls
       /\ ~is_response_pending(result.data)

\* A sender tolerates wft_max WAITs between two grants, not more (mod.rs:117).
WaitLimitKept == pc \in {"send", "fcpoll"} => waited <= WftMax

\* No call panics: a payload of up to 4095 bytes is transferred or refused
\* (mod.rs:87).
NeverPanics == pc # "panicked"

\* Every call returns, whatever the ECU and the bus do (mod.rs:348-396).
EveryCallReturns == (pc # "idle") ~> (pc = "idle")

\* The promise of the host path: see IsoTpService.
Service == INSTANCE IsoTpService WITH busy <- pc # "idle"

ServiceSpec == Service!Spec
=============================================================================
