------------------------------ MODULE Session ------------------------------
(***************************************************************************)
(* The session layer of rmvci-core: caller threads that share clones of a  *)
(* Device, the actor thread that owns the port (session/actor.rs), the     *)
(* keyed link (session/link.rs) and, as the environment, the serial wire   *)
(* and the adapter at its other end.                                       *)
(*                                                                         *)
(* A caller's operation is a request in the actor's mailbox followed by a  *)
(* blocking wait for its reply.  The actor takes one request at a time and *)
(* runs its exchanges with the adapter: purge the receive buffer, write a  *)
(* command, read one frame or give up.  Nothing on the wire ties a reply   *)
(* to its command but the echoed command code.                             *)
(***************************************************************************)
EXTENDS Naturals, Sequences, FiniteSets

CONSTANTS
  Callers,      \* threads that hold a clone of the Device
  Protos,       \* wire numbers of the protocols in use (types.rs ProtocolId)
  Keys,         \* session keys the adapter may hand out
  NoKey,        \* the un-keyed adapter; also the key of a plaintext frame
  NoCaller,     \* the requester of what the actor does on its own account
  Keepalive,    \* DeviceConfig::keepalive is Some(_)
  MaxLate,      \* bound: answers still outstanding when the host gives up
  MaxRequests,  \* bound: connects, polls and transacts the callers submit
  MaxMsgs       \* bound: messages that arrive from the vehicle bus

Iso15765 == 6   \* what an idle poll asks for when nothing is connected

WEDGE_THRESHOLD == 3

ASSUME SessionAssumption ==
  /\ Protos \subseteq Nat /\ Iso15765 \in Protos
  /\ NoKey \notin Keys /\ NoCaller \notin Callers
  /\ Keepalive \in BOOLEAN
  /\ {MaxLate, MaxRequests, MaxMsgs} \subseteq Nat

VARIABLES
  \* the callers
  handle,       \* their Device clone: "none", "live" or "dropped"
  held,         \* the protocols of the RawChannels they own
  nfilters,     \* RawChannel::nfilters of each of those
  asked,        \* protocol argument of their last call
  result,       \* "pending", or what their last call returned
  mailbox,      \* the mpsc queue of requests
  \* the actor
  pc, cur, silent, wedged, connected, queues, linkKey,
  port,         \* "held" until the transport is dropped, then "free"
  closed,       \* the CloseSignal
  \* the wire
  toAdapter, toHost,
  \* the adapter
  akey, chan, ring, hung,
  \* observation only: messages the actor decoded, messages handed to
  \* callers, and whether the last handshake failed
  got, out, stale,
  \* bounds
  nreq, nmsg

callerVars  == <<handle, held, nfilters, asked, result>>
linkVars    == <<linkKey, connected, queues>>
wedgeVars   == <<silent, wedged>>
portVars    == <<port, closed>>
wireVars    == <<toAdapter, toHost>>
adapterVars == <<akey, chan, ring, hung>>
seenVars    == <<got, out, stale>>
boundVars   == <<nreq, nmsg>>
vars == <<callerVars, mailbox, pc, cur, linkVars, wedgeVars, portVars,
          wireVars, adapterVars, seenVars, boundVars>>

\* The requests callers submit; "Transact" is RawChannel::start_filter.
RequestOps == {"Connect", "Disconnect", "Poll", "Transact"}

\* The actor's exchanges: the callers' requests, the second attempt of a
\* connect, the idle poll, and the disconnects and close of a teardown.
ExchangeOps == RequestOps \cup {"Retry", "IdlePoll", "Drain", "Close"}

\* The command that an exchange puts on the wire.
WireOps == RequestOps \cup {"Close"}
\* (Faulty variant: a teardown step with no command of its own.)
UntranslatedDrain(op) == IF op = "Retry" THEN "Connect"
                         ELSE IF op = "IdlePoll" THEN "Poll" ELSE op
WireOp(op) == IF op = "Retry" THEN "Connect"
              ELSE IF op = "IdlePoll" THEN "Poll"
              ELSE IF op = "Drain" THEN "Disconnect"
              ELSE op

Failures == {"Rejected", "Codec", "Timeout", "Transport", "Wedged"}
Outcomes == {"Ok", "Msg", "Empty"} \cup Failures

Msg      == [proto : Protos, n : Nat]
NoMsg    == [proto |-> Iso15765, n |-> 0]
Request  == [op : RequestOps, from : Callers, proto : Protos]
Exchange == [op : ExchangeOps \cup {"Open", "None"},
             from : Callers \cup {NoCaller}, proto : Protos]
Command  == [op : WireOps \cup {"Reset", "Identify"},
             key : Keys \cup {NoKey}, proto : Protos]
Frame    == [op : WireOps \cup {"Identify"},
             key : Keys \cup {NoKey}, body : Outcomes, msg : Msg]

Own(op, p) == [op |-> op, from |-> NoCaller, proto |-> p]
NoExchange == Own("None", Iso15765)

Phases == {"reset", "identify", "challenge", "retry",      \* KeyedLink::establish
           "idle", "await",                                \* Actor::run
           "teardown", "release", "signal",                \* closing down
           "openFailed", "openReported", "gone"}

-----------------------------------------------------------------------------
(* The wire as the host uses it.                                           *)

\* Answers the host may still see: a hung adapter sends no more of them.
Outstanding == Len(toHost) + Len(toAdapter)

\* purge_rx drops what has arrived; what is still under way comes later.
Purge ==
  \E arrived \in IF MaxLate = 0 THEN {Len(toHost)} ELSE 0 .. Len(toHost) :
    toHost' = SubSeq(toHost, arrived + 1, Len(toHost))

\* purge_rx, then write_all; what is written to a hung adapter is lost.
Write(op, key, p) ==
  /\ Purge
  /\ toAdapter' = IF hung THEN toAdapter
                  ELSE Append(toAdapter, [op |-> op, key |-> key, proto |-> p])

\* The first half of Actor::transact_inner, for exchange x.
Transmit(x) ==
  /\ Write(WireOp(x.op), linkKey, x.proto)
  /\ cur' = x
  /\ pc' = "await"

\* The deadline passes with no frame: nothing will come, or it is late.
DeadlinePasses ==
  /\ Outstanding <= MaxLate
  /\ UNCHANGED wireVars

\* purge_rx, write_all or read fails: the command may not have gone out.
PortFails ==
  /\ UNCHANGED toHost
  /\ \/ Outstanding <= MaxLate /\ UNCHANGED toAdapter
     \/ /\ toAdapter # <<>>
        /\ toAdapter' = SubSeq(toAdapter, 1, Len(toAdapter) - 1)

\* decode_encrypted: a frame under another key fails its checks.
Decrypts(f) == f.key = linkKey

\* The parser of cur's reply, on the frame read: only the command is echoed.
Decoded(f) ==
  IF Decrypts(f) /\ f.op = WireOp(cur.op) THEN f.body ELSE "Codec"

-----------------------------------------------------------------------------
(* The callers (session/device.rs, session/raw.rs).                        *)

Init ==
  /\ handle = [c \in Callers |-> "none"]
  /\ held = [c \in Callers |-> {}]
  /\ nfilters = [c \in Callers |-> [p \in Protos |-> 0]]
  /\ asked = [c \in Callers |-> Iso15765]
  /\ result = [c \in Callers |-> "Ok"]
  /\ mailbox = <<>>
  /\ pc = "reset" /\ cur = Own("Open", Iso15765)
  /\ silent = 0 /\ wedged = FALSE
  /\ connected = {} /\ queues = [p \in Protos |-> <<>>] /\ linkKey = NoKey
  /\ port = "held" /\ closed = FALSE
  /\ toAdapter = <<>> /\ toHost = <<>>
  /\ akey = NoKey /\ chan = [p \in Protos |-> "off"]
  /\ ring = [p \in Protos |-> <<>>] /\ hung = FALSE
  /\ got = [p \in Protos |-> <<>>] /\ out = [p \in Protos |-> <<>>]
  /\ stale = FALSE
  /\ nreq = 0 /\ nmsg = 0

\* A caller sends a request with a oneshot reply channel and blocks on it.
Submit(c, op, p) ==
  /\ handle[c] = "live" /\ result[c] # "pending"
  /\ mailbox' = Append(mailbox, [op |-> op, from |-> c, proto |-> p])
  /\ asked' = [asked EXCEPT ![c] = p]
  /\ result' = [result EXCEPT ![c] = "pending"]
  /\ UNCHANGED <<handle, held, nfilters, pc, cur, linkVars, wedgeVars, portVars,
                 wireVars, adapterVars, seenVars, nmsg>>

\* Device::connect opens a RawChannel; a channel is polled, filtered, dropped.
SubmitConnect(c, p) ==
  p \notin held[c] /\ nreq < MaxRequests /\ nreq' = nreq + 1 /\ Submit(c, "Connect", p)
SubmitUse(c, op, p) ==
  p \in held[c] /\ nreq < MaxRequests /\ nreq' = nreq + 1 /\ Submit(c, op, p)
DropChannel(c, p) ==
  p \in held[c] /\ UNCHANGED nreq /\ Submit(c, "Disconnect", p)

\* A RawChannel holds a Device clone of its own, so it always goes first.
DropHandle(c) ==
  /\ handle[c] = "live" /\ result[c] # "pending" /\ held[c] = {}
  /\ handle' = [handle EXCEPT ![c] = "dropped"]
  /\ UNCHANGED <<held, nfilters, asked, result, mailbox, pc, cur, linkVars, wedgeVars,
                 portVars, wireVars, adapterVars, seenVars, boundVars>>

Caller == \E c \in Callers :
  \/ \E p \in Protos : \/ SubmitConnect(c, p)
                       \/ \E op \in {"Poll", "Transact"} : SubmitUse(c, op, p)
                       \/ DropChannel(c, p)
  \/ DropHandle(c)

\* The reply to request x, and what the RawChannel makes of it.
Answer(x, o) ==
  LET c == x.from
      joins  == x.op \in {"Connect", "Retry"} /\ o = "Ok"
      filter == x.op = "Transact" /\ o = "Ok"
  IN /\ result' = [result EXCEPT ![c] = o]
     /\ held' = [held EXCEPT ![c] = IF joins THEN @ \cup {x.proto}
                                    ELSE IF x.op = "Disconnect" THEN @ \ {x.proto}
                                    ELSE @]
     /\ nfilters' = [nfilters EXCEPT ![c][x.proto] =
                       IF joins THEN 0 ELSE IF filter THEN @ + 1 ELSE @]
     /\ UNCHANGED <<handle, asked>>

-----------------------------------------------------------------------------
(* The actor: taking a request.                                            *)

Oldest == Head(mailbox)

\* Actor::handle fails every request fast once the adapter is wedged.
\* (Faulty variant: the request is dropped unanswered.)
ForgetWedged ==
  /\ pc = "idle" /\ mailbox # <<>> /\ wedged
  /\ mailbox' = Tail(mailbox)
  /\ UNCHANGED <<callerVars, pc, cur, linkVars, wedgeVars, portVars, wireVars,
                 adapterVars, seenVars, boundVars>>
RefuseWedged ==
  /\ pc = "idle" /\ mailbox # <<>> /\ wedged
  /\ Answer(Oldest, "Wedged")
  /\ mailbox' = Tail(mailbox)
  /\ UNCHANGED <<pc, cur, linkVars, wedgeVars, portVars, wireVars, adapterVars,
                 seenVars, boundVars>>

\* Actor::poll answers from the queue the idle poll fills, when it can.
PollQueued ==
  LET p == Oldest.proto IN
  /\ pc = "idle" /\ mailbox # <<>> /\ ~wedged
  /\ Oldest.op = "Poll" /\ queues[p] # <<>>
  /\ queues' = [queues EXCEPT ![p] = Tail(@)]
  /\ out' = [out EXCEPT ![p] = Append(@, Head(queues[p]))]
  /\ Answer(Oldest, "Msg")
  /\ mailbox' = Tail(mailbox)
  /\ UNCHANGED <<pc, cur, linkKey, connected, wedgeVars, portVars, wireVars,
                 adapterVars, got, stale, boundVars>>

PutOnWire ==
  /\ pc = "idle" /\ mailbox # <<>>
  /\ Transmit(Oldest)
  /\ mailbox' = Tail(mailbox)
  /\ UNCHANGED <<callerVars, linkVars, wedgeVars, portVars, adapterVars, seenVars, boundVars>>
\* (Faulty variant: the wire before the queue.)
StartBeforeQueue == PutOnWire /\ ~wedged
StartRequest ==
  PutOnWire /\ ~wedged /\ (Oldest.op = "Poll" => queues[Oldest.proto] = <<>>)

\* `connected` is kept sorted by wire number; first() is its least element.
First(S) == CHOOSE p \in S : \A q \in S : p <= q

\* recv_timeout expires on an empty mailbox (once wedged it only rearms).
IdlePollAnyway ==
  /\ pc = "idle" /\ mailbox = <<>> /\ ~wedged
  /\ \E c \in Callers : handle[c] = "live"
  /\ Transmit(Own("IdlePoll", IF connected = {} THEN Iso15765 ELSE First(connected)))
  /\ UNCHANGED <<callerVars, mailbox, linkVars, wedgeVars, portVars, adapterVars,
                 seenVars, boundVars>>
StartIdlePoll == Keepalive /\ IdlePollAnyway

-----------------------------------------------------------------------------
(* The actor: finishing an exchange.                                       *)

\* Actor::transact and note_silence: only silence counts towards the wedge.
NoteExchange(o) ==
  IF o = "Timeout"
  THEN /\ silent' = IF silent < 255 THEN silent + 1 ELSE silent
       /\ wedged' = (wedged \/ silent' >= WEDGE_THRESHOLD)
  ELSE silent' = 0 /\ UNCHANGED wedged

Done == pc' = "idle" /\ cur' = NoExchange

\* Actor::connect: any first error re-runs the handshake and retries once.
\* (Faulty variant: the first error is reported and retried as well.)
ConnectAnsweredTwice(o) ==
  /\ cur.op \in {"Connect", "Retry"}
  /\ connected' = IF o = "Ok" THEN connected \cup {cur.proto} ELSE connected
  /\ Answer(cur, o)
  /\ IF o # "Ok" /\ cur.op = "Connect" THEN pc' = "reset" /\ UNCHANGED cur ELSE Done
  /\ UNCHANGED <<queues, seenVars>>
ConnectDone(o) ==
  /\ cur.op \in {"Connect", "Retry"}
  /\ \/ o = "Ok" /\ connected' = connected \cup {cur.proto} /\ Answer(cur, o) /\ Done
     \/ /\ o # "Ok" /\ cur.op = "Connect" /\ pc' = "reset"
        /\ UNCHANGED <<cur, connected, callerVars>>
     \/ o # "Ok" /\ cur.op = "Retry" /\ Answer(cur, o) /\ Done /\ UNCHANGED connected
  /\ UNCHANGED <<queues, seenVars>>

\* Actor::disconnect forgets the channel whatever the adapter said.
\* (Faulty variant: a channel is forgotten only if the adapter agreed.)
ForgetIfDisconnected(o) ==
  /\ cur.op = "Disconnect"
  /\ connected' = IF o = "Ok" THEN connected \ {cur.proto} ELSE connected
  /\ Answer(cur, o) /\ Done
  /\ UNCHANGED <<queues, seenVars>>
DisconnectDone(o) ==
  /\ cur.op = "Disconnect"
  /\ connected' = connected \ {cur.proto}
  /\ Answer(cur, o) /\ Done
  /\ UNCHANGED <<queues, seenVars>>

PollDone(o, m) ==
  LET saw(log) == IF o = "Msg" THEN [log EXCEPT ![cur.proto] = Append(@, m)] ELSE log
  IN /\ cur.op = "Poll"
     /\ got' = saw(got) /\ out' = saw(out)
     /\ Answer(cur, o) /\ Done
     /\ UNCHANGED <<connected, queues, stale>>

TransactDone(o) ==
  /\ cur.op = "Transact"
  /\ Answer(cur, o) /\ Done
  /\ UNCHANGED <<connected, queues, seenVars>>

\* Actor::idle_poll queues a message it happened to drain.
IdlePollDone(o, m) ==
  LET saw(log) == IF o = "Msg" THEN [log EXCEPT ![cur.proto] = Append(@, m)] ELSE log
  IN /\ cur.op = "IdlePoll"
     /\ got' = saw(got) /\ queues' = saw(queues)
     /\ Done
     /\ UNCHANGED <<connected, callerVars, out, stale>>

\* Actor::teardown goes on after a failure; the close is its last exchange.
\* (Faulty variant: the signal is set before the transport is dropped.)
SignalFromTeardown ==
  /\ cur.op \in {"Drain", "Close"}
  /\ pc' = IF cur.op = "Drain" THEN "teardown" ELSE "signal"
  /\ cur' = NoExchange
  /\ UNCHANGED <<connected, queues, callerVars, seenVars>>
TeardownDone ==
  /\ cur.op \in {"Drain", "Close"}
  /\ pc' = IF cur.op = "Drain" THEN "teardown" ELSE "release"
  /\ cur' = NoExchange
  /\ UNCHANGED <<connected, queues, callerVars, seenVars>>

Finish(o, m) ==
  /\ NoteExchange(o)
  /\ \/ ConnectDone(o) \/ DisconnectDone(o) \/ PollDone(o, m)
     \/ TransactDone(o) \/ IdlePollDone(o, m) \/ TeardownDone
  /\ UNCHANGED <<mailbox, linkKey, portVars, adapterVars, boundVars>>

ReadReply ==
  /\ pc = "await" /\ toHost # <<>>
  /\ toHost' = Tail(toHost) /\ UNCHANGED toAdapter
  /\ Finish(Decoded(Head(toHost)), Head(toHost).msg)

ReadTimeout == pc = "await" /\ DeadlinePasses /\ Finish("Timeout", NoMsg)

ReadError   == pc = "await" /\ PortFails /\ Finish("Transport", NoMsg)

-----------------------------------------------------------------------------
(* The actor: KeyedLink::establish, at open and inside Actor::connect.     *)

\* (Faulty variant: the handshake is run without its reset frame.)
SkipReset ==
  /\ pc = "reset" /\ UNCHANGED wireVars /\ pc' = "identify"
  /\ UNCHANGED <<callerVars, mailbox, cur, linkVars, wedgeVars, portVars, adapterVars,
                 seenVars, boundVars>>
SendReset ==
  /\ pc = "reset" /\ Write("Reset", NoKey, Iso15765) /\ pc' = "identify"
  /\ UNCHANGED <<callerVars, mailbox, cur, linkVars, wedgeVars, portVars, adapterVars,
                 seenVars, boundVars>>

SendIdentify ==
  /\ pc = "identify" /\ Write("Identify", NoKey, Iso15765) /\ pc' = "challenge"
  /\ UNCHANGED <<callerVars, mailbox, cur, linkVars, wedgeVars, portVars, adapterVars,
                 seenVars, boundVars>>

IsChallenge(f) == f.op = "Identify" /\ f.body = "Ok"

\* The link is replaced by the one the handshake returned.
\* (Faulty variant: the new link is not stored.)
KeepOldLink(f) == UNCHANGED linkKey /\ stale' = FALSE
Establish(f)   == linkKey' = f.key /\ stale' = FALSE

\* The open sequence hands a Device to the callers; a connect goes on.
ReadChallenge ==
  /\ pc = "challenge" /\ toHost # <<>> /\ IsChallenge(Head(toHost))
  /\ toHost' = Tail(toHost) /\ UNCHANGED toAdapter
  /\ Establish(Head(toHost))
  /\ IF cur.op = "Open"
     THEN Done /\ handle' = [c \in Callers |-> "live"]
     ELSE pc' = "retry" /\ UNCHANGED <<cur, handle>>
  /\ UNCHANGED <<held, nfilters, asked, result, mailbox, connected, queues, wedgeVars,
                 portVars, adapterVars, got, out, boundVars>>

\* A failed handshake is returned at once: the old key stays in the link.
HandshakeFails(o) ==
  /\ IF cur.op = "Open" THEN pc' = "openFailed" /\ UNCHANGED <<cur, callerVars>>
                        ELSE Answer(cur, o) /\ Done
  /\ stale' = TRUE
  /\ UNCHANGED <<mailbox, linkVars, wedgeVars, portVars, adapterVars, got, out, boundVars>>

BadChallenge ==
  /\ pc = "challenge" /\ toHost # <<>> /\ ~IsChallenge(Head(toHost))
  /\ toHost' = Tail(toHost) /\ UNCHANGED toAdapter
  /\ HandshakeFails("Codec")

NoChallenge    == pc = "challenge" /\ DeadlinePasses /\ HandshakeFails("Timeout")
HandshakeError ==
  /\ \/ pc = "reset" /\ UNCHANGED wireVars
     \/ pc \in {"identify", "challenge"} /\ PortFails
  /\ HandshakeFails("Transport")

RetryConnect ==
  /\ pc = "retry" /\ Transmit([cur EXCEPT !.op = "Retry"])
  /\ UNCHANGED <<callerVars, mailbox, linkVars, wedgeVars, portVars, adapterVars,
                 seenVars, boundVars>>

-----------------------------------------------------------------------------
(* The actor: closing down.                                                *)

\* recv fails once the mailbox is empty and every sender is gone.
\* (Faulty variant: a wedged actor skips its teardown.)
TeardownUnlessWedged ==
  /\ pc = "idle" /\ mailbox = <<>> /\ \A c \in Callers : handle[c] = "dropped"
  /\ ~wedged /\ pc' = "teardown"
  /\ UNCHANGED <<callerVars, mailbox, cur, linkVars, wedgeVars, portVars, wireVars,
                 adapterVars, seenVars, boundVars>>
StartTeardown ==
  /\ pc = "idle" /\ mailbox = <<>> /\ \A c \in Callers : handle[c] = "dropped"
  /\ pc' = "teardown"
  /\ UNCHANGED <<callerVars, mailbox, cur, linkVars, wedgeVars, portVars, wireVars,
                 adapterVars, seenVars, boundVars>>

\* Disconnect each channel in turn, then close the encrypted session.
TeardownStep ==
  /\ pc = "teardown"
  /\ IF connected # {}
     THEN Transmit(Own("Drain", First(connected))) /\ connected' = connected \ {First(connected)}
     ELSE Transmit(Own("Close", Iso15765)) /\ UNCHANGED connected
  /\ UNCHANGED <<callerVars, mailbox, linkKey, queues, wedgeVars, portVars, adapterVars,
                 seenVars, boundVars>>

\* The transport is dropped with the Actor; only then is the signal set.
ReleasePort ==
  /\ pc \in {"release", "openReported"} /\ port' = "free"
  /\ pc' = IF pc = "release" THEN "signal" ELSE "gone"
  /\ UNCHANGED <<closed, callerVars, mailbox, cur, linkVars, wedgeVars, wireVars,
                 adapterVars, seenVars, boundVars>>

\* After a failed open the signal is set while the thread still owns the port.
SignalClosed ==
  /\ pc \in {"signal", "openFailed"} /\ closed' = TRUE
  /\ pc' = IF pc = "signal" THEN "gone" ELSE "openReported"
  /\ UNCHANGED <<port, callerVars, mailbox, cur, linkVars, wedgeVars, wireVars,
                 adapterVars, seenVars, boundVars>>

Actor ==
  \/ RefuseWedged \/ PollQueued \/ StartRequest \/ StartIdlePoll
  \/ ReadReply \/ ReadTimeout \/ ReadError
  \/ SendReset \/ SendIdentify \/ ReadChallenge \/ BadChallenge
  \/ NoChallenge \/ HandshakeError \/ RetryConnect
  \/ StartTeardown \/ TeardownStep \/ ReleasePort \/ SignalClosed

-----------------------------------------------------------------------------
(* The adapter, as the session code relies on it.                          *)

\* Take the oldest command; an encrypted one must be under the current key.
Take(op) ==
  /\ toAdapter # <<>> /\ Head(toAdapter).op = op
  /\ toAdapter' = Tail(toAdapter)

\* Any reply may be garbled on its way, or never be sent.
Respond(op, key, body, m) ==
  \/ \E b \in {body, "Codec"} :
       toHost' = Append(toHost, [op |-> op, key |-> key, body |-> b, msg |-> m])
  \/ UNCHANGED toHost

AdapterReset ==
  /\ Take("Reset") /\ UNCHANGED toHost
  /\ akey' = NoKey
  /\ \/ UNCHANGED <<chan, ring>>
     \/ chan' = [p \in Protos |-> "off"] /\ ring' = [p \in Protos |-> <<>>]

\* OPEN toggles the cipher: sent to a keyed adapter it turns it off again.
AdapterIdentify ==
  /\ Take("Identify")
  /\ \/ /\ akey = NoKey
        /\ \E k \in Keys : akey' = k /\ Respond("Identify", k, "Ok", NoMsg)
     \/ akey # NoKey /\ akey' = NoKey /\ Respond("Identify", NoKey, "Codec", NoMsg)
  /\ UNCHANGED <<chan, ring>>

AdapterIgnores ==
  /\ \E op \in WireOps : Take(op)
  /\ Head(toAdapter).key # akey
  /\ UNCHANGED <<akey, chan, ring, toHost>>

AdapterServes(op) ==
  LET p == Head(toAdapter).proto
      answer(body, m) == Respond(op, akey, body, m)
      set(state) == /\ chan' = [chan EXCEPT ![p] = state]
                    /\ ring' = [ring EXCEPT ![p] = <<>>]
  IN
  /\ Take(op) /\ Head(toAdapter).key = akey
  /\ \/ op = "Connect" /\ set("deaf") /\ answer("Ok", NoMsg) /\ UNCHANGED akey
     \/ op = "Disconnect" /\ set("off") /\ answer("Ok", NoMsg) /\ UNCHANGED akey
     \/ /\ op = "Transact" /\ chan[p] # "off"
        /\ chan' = [chan EXCEPT ![p] = "filtered"]
        /\ answer("Ok", NoMsg) /\ UNCHANGED <<akey, ring>>
     \/ /\ op \in {"Connect", "Disconnect", "Transact"}
        /\ answer("Rejected", NoMsg) /\ UNCHANGED <<akey, chan, ring>>
     \/ /\ op = "Poll"
        /\ IF ring[p] = <<>> THEN answer("Empty", NoMsg) /\ UNCHANGED ring
           ELSE answer("Msg", Head(ring[p])) /\ ring' = [ring EXCEPT ![p] = Tail(@)]
        /\ UNCHANGED <<akey, chan>>
     \/ op = "Close" /\ akey' = NoKey /\ answer("Ok", NoMsg) /\ UNCHANGED <<chan, ring>>

\* Only a channel with an acceptance filter receives from the bus.
BusMessage(p) ==
  /\ chan[p] = "filtered" /\ nmsg < MaxMsgs /\ nmsg' = nmsg + 1
  /\ ring' = [ring EXCEPT ![p] = Append(@, [proto |-> p, n |-> nmsg'])]
  /\ UNCHANGED <<akey, chan, wireVars>>

Adapter ==
  /\ ~hung /\ UNCHANGED hung
  /\ \/ /\ \/ AdapterReset \/ AdapterIdentify \/ AdapterIgnores
           \/ \E op \in WireOps : AdapterServes(op)
        /\ UNCHANGED nmsg
     \/ \E p \in Protos : BusMessage(p)
  /\ UNCHANGED <<callerVars, mailbox, pc, cur, linkVars, wedgeVars, portVars, seenVars, nreq>>

\* The MCU stops for good; only the DTR pulse of a new open revives it.
Hang ==
  /\ ~hung /\ hung' = TRUE /\ toAdapter' = <<>>
  /\ UNCHANGED <<callerVars, mailbox, pc, cur, linkVars, wedgeVars, portVars, toHost,
                 akey, chan, ring, seenVars, boundVars>>

\* The actor thread has ended and its callers are gone.
Ended == pc = "gone" /\ UNCHANGED vars

Next == Caller \/ Actor \/ Adapter \/ Hang \/ Ended

Spec == Init /\ [][Next]_vars

\* The thread runs, its reads have deadlines, and what is written is served
\* unless the adapter hangs.
FairSpec == Spec /\ WF_vars(Actor) /\ WF_vars(Adapter)

-----------------------------------------------------------------------------
(* Properties.                                                             *)

CallerType ==
  /\ handle \in [Callers -> {"none", "live", "dropped"}]
  /\ held \in [Callers -> SUBSET Protos]
  /\ nfilters \in [Callers -> [Protos -> Nat]]
  /\ asked \in [Callers -> Protos]
  /\ result \in [Callers -> Outcomes \cup {"pending"}]

ActorType ==
  /\ pc \in Phases /\ cur \in Exchange
  /\ silent \in 0 .. 255 /\ wedged \in BOOLEAN
  /\ connected \in SUBSET Protos /\ queues \in [Protos -> Seq(Msg)]
  /\ linkKey \in Keys \cup {NoKey}
  /\ port \in {"held", "free"} /\ closed \in BOOLEAN

WireType == toAdapter \in Seq(Command) /\ toHost \in Seq(Frame)

AdapterType ==
  /\ akey \in Keys \cup {NoKey}
  /\ chan \in [Protos -> {"off", "deaf", "filtered"}]
  /\ ring \in [Protos -> Seq(Msg)] /\ hung \in BOOLEAN

SeenType ==
  /\ got \in [Protos -> Seq(Msg)] /\ out \in [Protos -> Seq(Msg)] /\ stale \in BOOLEAN
  /\ nreq \in Nat /\ nmsg \in Nat

\* Every variable holds a value of the kind its declaration says.
TypeOK ==
  /\ CallerType /\ mailbox \in Seq(Request)
  /\ ActorType /\ WireType /\ AdapterType /\ SeenType

\* The requests not yet answered, oldest first: the one on the wire, if it
\* is a caller's, then the mailbox.
Waiting ==
  (IF cur.from \in Callers THEN <<cur.from>> ELSE <<>>)
    \o [i \in 1 .. Len(mailbox) |-> mailbox[i].from]

InLine(q, c) == \E i \in 1 .. Len(q) : q[i].from = c
NoneTwice(q) == \A i, j \in 1 .. Len(q) : q[i].from = q[j].from => i = j

\* Every blocked caller has exactly one request under way and nobody else
\* has any, in the mailbox or on the wire: a reply can neither be missing
\* nor come twice, and the reply channel is never hung up on a caller
\* (device.rs transact: a lost reply would surface as Error::Closed).
OneRequestEach ==
  /\ \A c \in Callers : result[c] = "pending" <=> (cur.from = c \/ InLine(mailbox, c))
  /\ ~InLine(mailbox, cur.from)
  /\ NoneTwice(mailbox)

\* A message the actor decoded is delivered or still queued, in the order it
\* was decoded: an idle poll that drains a real message does not discard it
\* and a poll does not overtake it (actor.rs poll, idle_poll).
AnsweredNotLost == \A p \in Protos : got[p] = out[p] \o queues[p]

\* Between exchanges the host and the adapter agree on the session key,
\* unless the last handshake failed (link.rs KeyedLink, actor.rs connect).
KeysAgree == pc = "idle" /\ ~stale => linkKey = akey

\* The cipher of a keyed adapter is turned off only by the reset frame or
\* the session close, never by a second OPEN (link.rs: OPEN toggles it).
NeverToggledOff ==
  [][akey # NoKey /\ akey' = NoKey => Head(toAdapter).op \in {"Reset", "Close"}]_vars

\* A channel the actor still tracks has an owner, unless the wedge refused
\* that owner's disconnect: so teardown finds channels to disconnect only
\* after a wedge (actor.rs disconnect, teardown; raw.rs Drop).
TrackedHasOwner ==
  \A p \in connected : wedged \/ \E c \in Callers : p \in held[c]

\* Once wedged, a request that is not already on the wire never gets there:
\* it is refused as Wedged and the wire is left alone (actor.rs handle).
WedgeFailsFast ==
  [][\A c \in Callers :
       wedged /\ result[c] = "pending" /\ cur.from # c
         => /\ cur'.from # c
            /\ result'[c] # "pending" => result'[c] = "Wedged" /\ UNCHANGED wireVars]_vars

\* Whoever opened the device and sees the close signal may reopen the port
\* (device.rs Device::close): at the end of a session the signal comes after the
\* release (actor.rs:91-93), not "just before" it, as device.rs:53 has it.
CloseMeansPortFree ==
  closed /\ port = "held" => \A c \in Callers : handle[c] = "none"

\* Every call returns: each exchange ends by a frame, a deadline or an error.
EveryCallReturns == \A c \in Callers : result[c] = "pending" ~> result[c] # "pending"

\* Once every handle is dropped, the port is released and the waiters of
\* Device::close are told, whatever the adapter does (actor.rs teardown).
PortIsReleased ==
  (\A c \in Callers : handle[c] = "dropped") ~> (port = "free" /\ closed)

\* The actor and its wire implement DeviceService: the caller whose request
\* is on the wire is at the head of the line (actor.rs, device.rs).
Service == INSTANCE DeviceService WITH
  phase <- IF \A c \in Callers : handle[c] = "none"
           THEN IF pc \in {"openFailed", "openReported", "gone"} THEN "closed" ELSE "opening"
           ELSE IF closed THEN "closed" ELSE "open",
  live <- {c \in Callers : handle[c] = "live"},
  line <- Waiting

ServiceSpec == Service!FairSpec

=============================================================================
