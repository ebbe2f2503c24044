# rMVCI in TLA+

A verification project for rMVCI, the Rust driver stack for the Mini-VCI
diagnostic cable: TLA+ modules translated from the source under `src/`, TLC
configurations that check them on small instances, and proofs that TLAPS checks
for every value of the constants.

## Inventory

| Component | State it keeps | Operations | What is hard | What makes it correct |
|---|---|---|---|---|
| Session actor (`rmvci-core/src/session/actor.rs`) | link key, tracked channels, queues, silence count, wedge, port | run, handle, transact, connect, disconnect, poll, idle poll, teardown | one thread serves many callers over a wire that loses, delays and garbles; retries; a wedge verdict in the middle of a queue | one reply per request, nothing decoded is lost, keys agree, the port is released |
| Device, RawChannel (`device.rs`, `raw.rs`) | clones of a sender, filter count, the close signal | open, connect, poll, filters, IOCTLs, drop, close | blocking waits with no deadline of their own; drops that talk to the adapter | every call returns; close means the port is free |
| Keyed link, framed reads (`link.rs`, `wire.rs`) | the session key | establish, read_frame | three writes and reads that can fail between any two; OPEN is a toggle | OPEN never reaches a keyed adapter |
| Codec (`codec/*.rs`) | none | encode, decode, parse replies, deframe | width of length fields, tails of uninitialised bytes | nothing behind an answer is taken for a part of it |
| Typed channels (`channel.rs`, `protocol.rs`) | the filters installed | set_filter, clear_filter | a stop that fails between two starts | the count follows the adapter |
| ISO-TP (`isotp/*.rs`) | Tx and Rx machines | next, on_frame, send, recv, request | lost and late frames, flow control, 8-bit counters, timers | a message is delivered whole or not at all |
| K-line (`kline.rs`) | pacing, re-init state | fast_init, request, recover | stragglers, storms, re-initialisation | a response belongs to the request |
| J2534 shim (`rmvci-j2534`) | slot table behind one lock | 14 PassThru exports | open, close and I/O of several threads; handle reuse | a handle names one device while it is open |
| Network bridge (`rmvci-net`), Android bridge (`rmvci-android`) | a stream; a session and a bridge thread | one call at a time over TCP | a client timeout leaves a reply behind; stopping an idle server | a response belongs to the request; stop stops |
| Diagnostics (`rmvci-diag`) | a count of announcements, a list under enumeration | KWP2000, UDS, Toyota reads, enumeration, polled lists | responsePending, late answers, several ECUs over one channel | an answer is of the ECU, service and identifier asked; bounded waits |
| Transports (`transport/*.rs`) | bytes read and not yet handed over | read, write, purge, modem lines, latency | packets with status bytes in them, reads larger than what was asked for, purges that reach one buffer of two | the decoder gets the bytes as they came, or none of before a purge |
| Programs, examples, fuzzers | none | | | not modelled |

Interactions: callers send `Request`s over an mpsc channel to the actor thread
and block on a one-shot reply; the actor runs one exchange at a time with the
adapter through a `Transport`; ISO-TP, K-line and the diagnostics are callers of
a channel; the shim, the bridge and the Android library own devices and
channels on behalf of foreign threads.

## Modules

### Session

`Session.tla` is the caller threads, the actor, the wire and the adapter.

* A **caller** has a `Device` handle and the `RawChannel`s it owns. `Submit` is
  `Device::{transact, connect_proto, disconnect_proto, poll_proto}`: the request
  goes into `mailbox` and the caller's `result` is `"pending"` until the actor's
  `Answer`. The channel's own bookkeeping (`RawChannel::connect`, `start_filter`,
  `Drop`) is part of `Answer`. `start_filter` stands for the operations of a
  channel that are one `transact_status`.
* The **actor** has a program counter. `"idle"` is `run` waiting; `"await"` is
  between the write and the read of `transact_inner`; `"reset"`, `"identify"`,
  `"challenge"` are the three waits of `KeyedLink::establish`, entered at open
  (`cur.op = "Open"`) and from a failed connect; the rest is the way out. One
  action starts an exchange (purge and write are not separable by anybody but
  the adapter, whose late answer the purge may miss), one ends it: with a frame
  (`ReadReply`), a deadline (`ReadTimeout`) or an error (`ReadError`). What the
  handler does with the outcome is part of that action (`Finish`): the silence
  count, `connected`, the queue, the reply.
* The **wire** is `toAdapter` and `toHost`, both FIFO. `Purge` drops what has
  arrived; with `MaxLate > 0` any suffix of what is under way may arrive after
  it. A frame is reduced to what the decoder tells apart: the key it is under,
  the command it echoes, the outcome its parser gives, and the message.
* The **adapter** is the environment (`external` in the map): it takes commands
  in order, ignores those it cannot decrypt, answers, garbles or stays silent,
  toggles its cipher on OPEN, keeps one channel per protocol with an acceptance
  filter and a receive ring, and may hang for good.

`got`, `out` and `stale` only observe: the messages decoded, the messages handed
to callers, and whether the last handshake failed.

Left out on purpose: the DTR/RTS dance and the latency timer of `open` (they
precede the handshake and only delay it), the tracing, the time stamps behind
the keepalive interval (an idle poll may start whenever the mailbox is empty),
and transports whose reads block for ever.

### DeviceService

What a `Device` promises: calls are answered one at a time, in order, exactly
once and never as "closed"; when every handle is gone the session closes.
`Session` implements it under the mapping at its end (`Service`): the caller
whose request is on the wire is at the head of the line.

### IsoTpMachine, IsoTp, IsoTpService

`IsoTpMachine.tla` is `isotp/machine.rs` as pure operators: a machine is a
record, `TxFrame`/`TxSent` are what `TxMachine::next` emits and leaves behind,
`TxOnFrame` and `RxOnFrame` are the two `on_frame`s. A byte is opaque, a frame
is a record of what the PCI byte tells the parser. The number of data bytes per
frame is a constant (seven, six with an address byte; two in the small
instances), and so are the moduli of the sequence number and of the 8-bit
counters. `checked` tells a build with overflow checks, where `counter += 1`
panics (`st = "panic"`), from one that wraps. Deadlines are kept as ticks to go:
N_Bs and the caller's deadline have passed at 0 (`now >= deadline`), N_Cr below
0 (`now > deadline`).

`IsoTp.tla` is the host path of `isotp/mod.rs` with everything it talks to. The
caller is `pc`: `"send"` and `"fcpoll"` are `host_send` at its `match` and
inside `poll_frame`; `"recv"` and `"rxpoll"` are `host_recv` likewise.

| Action | Code |
|---|---|
| `Call` | `send`, `recv`, `request` up to the first `next`, with the refusals of `TxMachine::with_addr` |
| `SendFrame`, `SendFails` | `TxAction::Send`, its write succeeding or failing; `Done` follows the last frame in the same step |
| `AwaitFlow`, `FlowPolled` | `TxAction::WaitFc`, or `FcTimeout`; the poll yields a frame for `on_frame` |
| `RecvLoop`, `RecvPolled`, `FlowFails` | the head of `host_recv`'s loop; the poll yields a frame, the flow control it calls for is written, or its write fails |
| `PollEmpty`, `PollFails` | `poll_frame` returns `None`, or an error |
| `Received` (in `RecvPolled`) | `drain_pending` |

The environment: the adapter's ring (`ring`, bounded by `RingCap`, dropping what
does not fit), the bus (`Lose`, `Repeat`, `Noise`), the clock (`Tick`) and an
ECU. The ECU is a conforming peer and runs the same machines, as the crate's
property tests do; it may send WAIT or OVERFLOW, stay silent, answer late, or
announce its answer with responsePending messages. `said`, `heard` and
`waited` only observe. A byte of a message says which message it is of and where
it stands in it, so that a splice can be seen.

`IsoTpService.tla` is what a caller may count on: a call returns with an error
or with one whole message of the ECU, each at most once, in the order in which
the ECU began them. `IsoTp` implements it (`Service`) when calls begin on a bus at
rest (`CalmSpec`): whatever frames are then lost or late, and whatever the ECU and the
link do. The premise is the caller's to meet, and needed; a late answer in the ring of a
later call is outside of what is claimed. Neither a call that fails nor
the next one empties the ring, so the first frame of an answer that no call took (a
`send` whose request is answered all the same, or a request that timed out) is still
there when the next call receives. If the first frame of the new answer is then lost,
its consecutive frames complete the old one, and the call returns a message made of both.

### Shim, PassThru

`Shim.tla` is `rmvci-j2534/src/lib.rs`: application threads inside the exports,
and what they share. `slots` is `SLOTS`, with the fields of a slot's
`RawChannel` (`chan`, `nfilters`) or of its host ISO-TP channel (`host`,
`nfilters`, `current`, `nextFilter`); `holder` and `poisoned` are its mutex. A
call is a thread's `call` record: `"look"` is before `with_host`, `"lock"` before
the lock everything else takes, and the other phases are inside the closure,
with the mutex held.

| Action | Code |
|---|---|
| `Call`, `BadParameter`, `FindPoison` | an export up to its first lock, the refusals before it, and `SLOTS.lock().unwrap()` after a panic |
| `LookForHost`, `LookForChannel` | `with_host`, `with_chan` up to the closure |
| `Open`, `Close`, `Disconnect`, `DeviceCommand` | the exports of that name, the lock held throughout; `DropChannel` is `Drop for RawChannel` |
| `ConnectDrops`, `Connect` | the two halves of `PassThruConnect`, under one lock |
| `RetireFilter`, `InstallFilter` | `IsoTp::set_endpoints`, that is `Channel::set_filter`, on a host channel |
| `StartFilter`, `StopFilter`, `StartPeriodic` | the exports on a firmware channel, handles drawn from `next_id` |
| `WriteMessages`, `Ioctl`, `InitFails`, `BadMessage` | writes, IOCTLs (and `PassThruStopPeriodicMsg`), `kline_init`, and what the closures refuse without asking the adapter |
| `TakeMessage`, `ReadEnds`, `ReadFails` | the loops of `PassThruReadMsgs`, one poll at a time |
| `Panic` | the overflow of `isotp_overflow` under the mutex |
| `EndSession` | `Actor::teardown`, a thread that outlives the slot |

Below the calls a session is one exchange at a time with an outcome: answered,
refused, done with the answer lost, not done, or refused as wedged. The Session
module is what such an exchange is made of. The verdict of being wedged falls at
any failed exchange, where the code counts three. The adapter is external: the
channels it has connected and the filters of each. A section under the mutex is
cut into steps only where an exchange ends and another begins, because nobody
else can see the table meanwhile. Two codes that say the same to an application
are one code here (`"Error"` is any that passes on a failure of the adapter).

`PassThru.tla` is what an application with several threads may count on: each
call reads or changes a table of slots (free, open, with a firmware channel, with
a host channel) at one instant, and its code fits what the table held then. A
message call that looks twice may answer "invalid channel" although its slot had
a channel at every instant, a firmware channel at the first look and a host
channel at the second; `PassThru` says so (`moved`): only if a close, connect or
disconnect of that slot ended while the call was under way.

### Bridge

`Bridge.tla` is the network bridge at both ends: `TcpTransport` on the PCs
(`client`, and what each of their connections carries in `toServer`, `toClient`),
the thread that serves the cable (`server`, `serving`, `job`), and the phone's
`stop` flag and port. A client is one `TcpTransport`: to connect again is to be
another one.

| Action | Code |
|---|---|
| `Connect`, `Handshake` | `TcpTransport::connect` up to the hello, and its acknowledgement or the want of it |
| `Transact`, `Answer`, `GiveUp` | a primitive of `Transport`: the request, the next response whosever it is, the timeout of the read, before a frame or inside it |
| `Misread` | `read_frame` on a stream that such a timeout has cut |
| `CheckStop`, `Accept`, `AcceptNothing`, `EndLoop` | the loop of `bridge_loop`; the flag and the accept are two steps, and `serve` is the same loop without a flag |
| `Greet`, `ReadRequest`, `Dispatch`, `Reply` | `serve_connection` and `dispatch`, with the returns from it (`Hangup`) |
| `StopBridge` | `stopBridge` |

The environment: clients leave, connections are cut with what is under way on
them, the Java side closes the port. The read timeout may strike before the first
byte of a response, or between or within the two `read_exact`s of its frame
(`rmvci-net/src/wire.rs:54-66`), which then lose what they have read. The client is
in `torn` from there on: what it takes for a length is the middle of a frame, so it
may consume anything that is in the stream and return anything, which counts as the
outcome of no call (`ReadSome`, `Misread`), or time out again. `log` is what the cable was made to do, and
for which call of whom; neither stands on the wire.

### KLine

`KLine.tla` is `kline.rs` with the channel's `read`: a request at a time, in the
loop of `request` (`pc = "read"`) or in `reinit` (`"flush"`, `"init"`), where
`answer` already holds what the request will return. Time is a tick of half a
second, the longest single poll of `read`: `waited` is the time in this read,
`elapsed` that since the request. The ECU is the environment: it answers after any
of `FirstGaps`, with any of `Pendings` responsePending frames before, or never, or
with such frames for ever, and is left deaf by what it leaves unanswered, which is
what the comments of `reinit` report of real ones. FAST_INIT wakes it and ends
what it was about. A failed write, poll or FAST_INIT is a fault.

### Codec, Wire

`Codec.tla` has the parsers of replies as operators (`StatusOf`, `ReadReply`,
`ValueReply`, `InitReply`, `VersionReply`, `Challenge`) and `Parsed`, which is what
the caller of an operation is given. `ReadReply` hands over an RxStatus beside the
message, whatever the length of the reply: of a status-only one it is made of the
status byte and three bytes of stack. `Poll` is `Actor::poll`, which drops it with
the empty message. A byte is what the adapter meant by it: part of an
answer, `"stack"` for what the adapter copied behind a status, `"pad"` for what
fills the last cipher block. `Replies` is what the adapter answers, a refusal
included.

`Wire.tla` takes such replies to the parsers byte by byte: `wire` (the line),
`fifo` (the FT232R and its driver) and `rx` (what `UsbTransport` and
`JniTransport` hold), then `got`, the buffer of `read_exact`. One behaviour has one
transport, and a JNI driver that may be unable to purge.

| Action | Code |
|---|---|
| `Transact`, `Establish`, `Identify` | `transact_inner` and `establish` up to their `read_frame`: purge, write, and the failures of both |
| `ReadBuffered`, `SerialRead`, `UsbRead`, `JniRead` | one turn of `read_exact` over the `read` of each transport, the header and the end of the frame included (`HeaderRead`, `FrameRead`) |
| `DeadlinePasses`, `PortFails` | `Ok(0)` and `Err` of a read |

The adapter answers late or not at all; the line delivers, or loses a byte. A
frame is counted in its two header bytes and its cipher blocks, a header that
is no header may announce any of `Lengths`, and the checksum is taken to tell a
whole frame from a splice (it is an exclusive or of one byte). `since`, `clean` and
`replies` only observe: what came in since the purge, whether anything of an
earlier exchange was under way after it, what was answered to each command.

### Diagnostics

`Diagnostics.tla` is `rmvci-diag` over the firmware path of `isotp/mod.rs`, with
the channel that `rmvci-android` caches. One thread makes calls, each to one ECU.
A service method is known by how it judges its answer (`Service`): `"read"` compares
the identifier, `"command"` does not, `"quiet"` takes silence for yes, `"request"`
hands over the bytes as they are.

| Action | Code |
|---|---|
| `Open`, `Close`, `Ask` | `open`, `close` and `request` of the Android library; a call to another ECU drops the channel and opens one |
| `SetEndpoints` | `IsoTp::set_endpoints` on a channel that is kept, with what a failure leaves behind |
| `Send` | `IsoTp::send` on the firmware path |
| `Receive` | a message through `IsoTp::recv`, then `drain_pending`, `exchange` or `enumerate_pids`, then the checks of the answer |
| `TimesOut`, `PortFails` | the end of `RawChannel::read`, and what each caller makes of it |

The ECUs are the environment: one answers with any number of announcements first,
refuses, stays silent, announces for ever (`storm`), or says what it owes to an
earlier call late; what the filter bars or the adapter's ring has no room for is
lost. `truth` and `trouble` only observe: what the ECU has to say to this call, and
whether something of an earlier one was still under way when it began.

### MCSession, MCIsoTp, MCShim, MCBridge, MCKLine, MCWire, MCDiagnostics

The small instances of the modules above for TLC.

### SessionProofs, IsoTpProofs, ShimProofs, ShimChannelProofs, BridgeProofs, KLineProofs, DiagnosticsProofs, WireProofs

The theorems, each module about the component in its name. `ShimProofs` has what every
proof about the shim starts from (types, the mutex, the frames of the exports);
`ShimChannelProofs` its channels, its counts and the refinement of `PassThru`.

## Runs

| Run | Bounds | Shows |
|---|---|---|
| `session_prompt` | 2 callers, 2 protocols, 2 keys, 3 requests, 2 bus messages, no late answers | `TypeOK`, `OneRequestEach`, `KeysAgree`, `TrackedHasOwner`, `CloseMeansPortFree`, `AnsweredNotLost` |
| `session_live` | one late answer, fairness, no symmetry | refinement of `DeviceService`, every call returns, the port is released, `NeverToggledOff` |
| `isotp_prompt` | 2 calls, 25 pairs of lengths, blocks of 2 and 3, an STmin on the ECU, 2 pending answers, 2 lost frames or ignored requests | `TypeOK`, `PromptCallsSucceed` (while none is), `BlockHonoured` |
| `isotp_service` | 2 calls on a bus at rest, any scheduling, 2 faults of any kind, foreign frames without data, an ECU that waits, refuses or is silent, messages of up to 15 bytes, sequence numbers modulo 2, a ring of 4 | `NoSplice`, refinement of `IsoTpService` |
| `isotp_live` | any of 3 calls, an STmin on the caller, 2 frames lost, repeated or foreign, requests ignored or writes and polls failed, any malformed frame, an ECU that waits, refuses or is silent, any scheduling, fairness | `EveryCallReturns`, `NoUnderflow` |
| `isotp_overflow` | 1 call of 1805 bytes, the real widths | a finding |
| `shim_calls` | 2 threads, 2 slots, 1 port, 2 protocols, handles modulo 2, 1 failed exchange, 2 filters or periodic messages on a device | `TypeOK`, `ChannelsTracked`, `FiltersCounted`, `SlotsOwnSessions`, `SectionsKeepTheirSlot`, refinement of `PassThru` |
| `bridge_calls` | 2 clients, 2 calls each, 1 of them given up, before or inside a frame, any connection cut, a stop, fairness | `TypeOK`, `OneOwner`, `OnceInOrder`, `AnswersTruthful`, `StopEnds` |
| `kline_request` | 3 requests, 0, 1 or 3 pending frames, storms without end, 2 faults, a timeout of 2 ticks against 3 after a pending frame and 8 in all, a ring of 3, fairness | `TypeOK`, `AnswersOwn`, `ReadyForNext`, `EveryRequestReturns` |
| `kline_straggler` | 2 requests, an answer up to a tick late | a finding |
| `wire_frames` | each transport, 2 exchanges of any of the six kinds, 2 faults, packets of 4, transfers and scratches of 3, frames of 3 to 5 units, headers that announce 2, 3, 5 or 6 | `TypeOK`, `StreamKept`, `Resynchronised`, `StackNeverGiven` |
| `diag_calls` | 2 ECUs, 2 identifiers, 2 calls of any of the six kinds, at most 1 announcement tolerated and 0, 1 or endless ones sent, a list in two messages, a ring of 3, 1 failure anywhere, fairness | `TypeOK`, `AnswersFit`, `PunctualAnswers`, `EveryCallReturns` |

Why the bounds are enough, for Session: two callers give every interleaving of a
request with one that waits and one on the wire; two protocols tell a channel
from another one and give `First` a choice; three exchanges are the wedge
threshold and a connect with its retry is two, so three requests reach a wedge
declared in the middle of a connect; a second key is what a re-handshake
returns. The disconnects of dropped channels are not counted by `MaxRequests`.
`KeysAgree` is stated for an adapter whose answers are not late: a late one can be
taken for that of another exchange, because a reply is accepted for its command
byte alone. Symmetry is used for callers and keys, which the code treats
alike, and only in runs without liveness. Deadlock is checked in all of them: the
end of the actor thread is the explicit stuttering action `Ended`.

For IsoTp: with two data bytes per frame and sequence numbers modulo 4 a message
of 10 bytes wraps the sequence number and takes three blocks, which takes more
than 100 bytes of real frames; the lengths of `isotp_prompt` are those on both
sides of a single frame, of a block and of the last frame. Two calls show what
one leaves behind for the next. `isotp_overflow` keeps the real widths (seven
data bytes, a modulus of 256), where its counterexample lives. What the passing
runs assume of the environment is part of their claim: `isotp_prompt` takes `Prompt`,
in which time passes only when caller, adapter and ECU have nothing to do, so that no
flow control and no answer is late. Without it `BlockHonoured` is false, because nothing
empties the adapter's ring between calls. For the same reason `isotp_service` supposes
a bus at rest at each call: otherwise a `send` and a request, both prompt, and one lost
frame are enough to splice two answers. With that premise nothing need be prompt.
Sequence numbers modulo 2 are the worst modulus: they let a gap of two frames pass,
which takes sixteen in the code, and the run shows that even so no message is completed
across one. Repeated frames are within its two faults; with three both properties
fail: a repeated request is answered twice, and with two frames lost the second answer's
consecutive frames can complete the first.

For Shim: one thread that calls twice and another between its steps is what the
two looks of a message call can meet; two slots and one port make an open meet a
port that is busy, one whose session is still ending, and the first free slot
when there is a choice; one failed exchange may be any of those of a call, with
or without the verdict of being wedged. Handles modulo 2 wrap within the bound,
so the hypothesis of `FiltersCounted` is met and missed. Only message calls are
given the two looks; no fairness is assumed and nothing is said of liveness,
because std's `Mutex` promises no thread its turn.

For Bridge: one client in session, one behind it in the backlog and one call
given up out of two are what an answer out of step, or a second owner, needs.
`AnswersTruthful` says how far answers can be out of step, namely by the calls
given up on that connection, if all of these were given up between frames. Of a
connection that was cut inside a frame nothing is claimed: the bytes of a later
answer are then not those of a response. `OneOwner`, `OnceInOrder` and `StopEnds` hold
there too. Deadlock is not checked, as the bridge stops for
good once it has ended and its clients are gone.

For KLine: `AnswersOwn` and `ReadyForNext` are claims about a
punctual ECU and a cable without faults (`Untroubled`), where punctual is what the
constants of the code assume of it; storms without end and silent LIDs are
within it, and two requests before the last one can leave something behind.
The other properties hold with faults too.

For Wire: a packet of 4 carries 2 bytes of data and a read asks for 1 to 3, so
reads end inside, at and behind packets and frames; with two faults an exchange can be cut or
lost while its reply is late, and still leave one for the next. Two exchanges are
what one leaves behind for another. `Resynchronised` speaks of exchanges that find
nothing of an earlier one under way behind their purge: a reply that comes
later is accepted for its command byte alone. `StackNeverGiven` is about the status,
message and challenge operations; for those whose parsers do not compare the length it
is false (see the findings). No deadlock is checked, as the exchanges end.

For Diagnostics: two calls are what an answer that is late, and an endpoint that was
moved and a filter that was not, need; one tolerated announcement puts the limit
between the two numbers an ECU may send. `PunctualAnswers` is a claim about calls
that begin when all is quiet and while nothing fails or is late. Deadlock is not checked,
as the calls end.

Fairness. Session (`FairSpec`): weak fairness of the actor, a thread whose every
wait in an exchange has a deadline, and weak fairness of the adapter, which
serves what is written until it hangs; a hang disables it for good. Nothing is
assumed of the callers: they may never call and never leave. IsoTp (`FairSpec`):
weak fairness of the caller's thread (`Host`) and of the clock; nothing is
assumed of the ECU or the bus, which the deadlines of the two loops exist for.
Bridge (`FairSpec`): weak fairness of the serving thread, whose cable reads are
bounded by the timeouts they carry; nothing is assumed of clients. KLine (`FairSpec`): weak
fairness of the calling thread and of time, which takes the ECU along since a
frame that is due does not wait; the storms are still without end. Diagnostics
(`Spec`): weak fairness of the caller's reads, each of which ends at a message or
at its deadline; nothing is assumed of the ECUs. Wire has no liveness to claim.

A few operators of Session, IsoTpMachine, IsoTp, Shim, Bridge, KLine, Codec, Wire and Diagnostics are faulty variants, marked as
such: no action uses them; they are what the mutation runs put in place of the
correct definition to see each property fail.

## Findings

* The ISO-TP block counters are `u8` and count every consecutive frame but the last
  even when the block size is 0, so a transfer of 257 consecutive frames and more, with
  normal addressing 1799 bytes and more, panics where overflow checks are on
  (`isotp_overflow`).
* A K-line answer that comes between the flush of the ring and the FAST_INIT is
  returned as the reply to the next request: `flush_ring` does not wait, and
  `request` drains nothing before it writes (`kline_straggler`).

Seen while modelling, and not shown by a run here; the first three contradict what the
code says of itself:

* After a timeout of the TCP client its stream is used on, although the framing rests on
  "the strict request/response cadence" (`rmvci-net/src/wire.rs:6-7`): the next call
  takes the late response for its own. A timeout inside a frame is worse:
  the bytes read are lost, and later answers are cut out of the stream at arbitrary
  places (`client.rs:88-94`, `wire.rs:54-66`).
* What stands behind the status byte of a status reply "must never be parsed"
  (`types.rs:91-93`), but the parsers of a configuration value, the battery voltage and
  the key bytes of a K-line init, and that of the version, do not compare the length
  with that of an answer (`inner.rs:222-250`, `raw.rs:212-219`, `device.rs:158-166`), so a
  refusal is read as a value, with bytes of the adapter's stack in it.
  `parse_read_reply` makes an RxStatus of such bytes too (`inner.rs:340-344`), which
  `Actor::poll` drops (`actor.rs:273`).
* The close signal is "Set by the actor thread just before it releases the port"
  according to `device.rs:53`; at the end of a session the actor drops the transport first
  and signals after (`actor.rs:91-93`). The code's order is the one that
  `Device::close` needs and that makes `CloseMeansPortFree` hold; the comment is wrong.
  Only a failed open signals first (`actor.rs:75`), when nobody has a handle yet.
* `Error::Wedged(n)` can report fewer than three silent exchanges, because the count
  is zeroed by an exchange that is answered after the verdict.
* With the keepalive on, a message that an idle poll queued for an earlier channel is
  returned by a new channel of that protocol, filter or not (`actor.rs:257-270`).
* The late reply of a poll is taken for that of a poll for another protocol.
* A frame that is cut or misaligned ends in a timeout and counts as silence of the
  adapter (`actor.rs:195-204`).
* What is left of a deadline below a millisecond is handed to Java as a timeout of 0
  (`jni.rs:137`).
* An ISO-TP answer that came after its request gave up is in the ring for the next
  request, which can splice it with its own if a frame is lost, and a late flow
  control is the grant of the next send.
* With `wft_max` = 255 the limit on WAITs is never exceeded.
* `recv` of the firmware path restarts its timeout at a message of another
  identifier (`mod.rs:280-299`): with the filter of another ECU left behind by a failed
  `set_endpoints`, and that ECU talking, it does not end, which is why
  `EveryCallReturns` of Diagnostics has a hypothesis. ECUs that share an identifier and
  differ in their extended address are not told apart.
* `enumerate_pids` parses each message by itself, where its comment says that the
  stream is concatenated (`toyota_can.rs:126-128`): an entry that straddles two
  messages is dropped. Behind an announcement it waits for 300 ms like for any chunk.
* `obd_current_data` returns the answer to another PID as data (`toyota.rs:41-48`).
* stopBridge does not stop a thread that serves an idle client: the flag is seen
  between connections, and the read of the next request has no timeout, which
  closing the port does not end (`rmvci-android/src/lib.rs:302-318`, `server.rs:62`).
* The USB transport cancels its transfers every 200 ms (`usb.rs:199-212`), where `UsbRead`
  ends a read that has nothing only at the deadline. A transfer that is cancelled with
  bytes in it would lose them; the latency timer hands over what there is long before.

## What is proved

`SessionProofs.tla` proves, for any sets of callers, protocols and keys, any
bounds and any number of late answers, from `SessionAssumption` alone:

* `TypeCorrect`. `TypeOK` is inductive by itself; the one fact that is not
  obvious is that `First` of a non-empty set of protocols is one of them, which
  rests on the well-foundedness of the naturals.
* `ClosedPortIsFree`, `RequestsAreAnsweredOnce`, `TrackedChannelsOwned` and
  `WedgedFailsFast`, with `CurWhilePhase` (which exchange the actor can be in at
  each program counter, and that it is for a caller exactly when it is a
  request's) as the strengthening; the first adds `PortWhilePhase`: no handle
  exists before the open has succeeded.
* `NoMessageLost`, with `QueueWhilePoll`: the queue of a protocol is still empty
  when the answer to a poll of it arrives, because nothing else fills queues.
* `OpenNeverToggles`, with `OpenAfterReset`: every OPEN on the wire stands behind
  a reset, or is next at an adapter that has no key; it holds for late and lost
  answers and for commands that a failing port never sent.
* `PromptKeysAgree`, for `MaxLate = 0`, where a call that gives up has emptied both
  directions of the wire. The strengthening `KeyInv` says what the wire can then
  hold: resets, behind them at most the command of the exchange that waits, and one
  answer when no command does (`OneOnWire`); and that while the keys are in step no
  reset is still to come, and that a challenge carries the key the adapter now has
  (`KeysInStep`). The hypothesis is needed: a late challenge is
  taken for that of the next handshake.
* `ServedInOrder`: the safety part of the refinement of `DeviceService`, step by
  step. A submission is a call, the end of an exchange, a refusal and an answer from
  the queue are answers to the head of the line, the challenge of the open and its
  failure are the two ways of `Open`, and the close signal is `Close`, for which
  `Deserted` is needed: the actor closes down only with an empty mailbox and
  everybody gone. All other steps leave phase, callers and line as they are.

`IsoTpProofs.tla` proves, for any frame size, moduli, lengths, block sizes,
STmin, faults and noise, from `MachineAssumption` and `IsoTpAssumption`:

* `TypeCorrect` and `NoUnderflowAlways`. Neither `TypeOK` nor `NoUnderflow` is
  inductive alone, since the slices of the machines are sequences only while the
  bounds hold; the invariant is their conjunction, cut along the variables of
  the caller, the ECU, the wires and the counts. The lemmas before it say what
  `next` and `on_frame` make of any machine and any frame (`TxSentTyped`,
  `TxOnFrameTyped`, `RxOnFrameFine`).
* `WaitLimit`, for `WftMax < CounterMod - 1`, with `WaitsCounted`: the machine's
  count is the number of WAITs the caller took since the last grant. The hypothesis is
  needed, because the count and `wft_max` are both `u8`.
* `BlockHonouredAlways`, for every block size, STmin, lengths and ring, with frames
  lost on both wires, calls given up in the middle of a message and requests the ECU
  ignores. The hypothesis `Undisturbed` asks for counters of a byte, as the code
  has, and for `Prompt`, an ECU without WAITs, a link that works and no repeated or
  foreign frame. For each of these TLC has a counterexample without it: the property
  speaks of what the ECU owes, and a late, repeated or foreign frame, or one that a
  broken-off call left behind, can pass for a grant or for the frame that completes
  a block. The invariant `InvBlock` compares the two ends of a transfer. Within a
  message (`Within`) the ECU has counted, with what is on its way, no more frames of
  the block than the host; and if as many, then it has, or will have, the very bytes
  the host has sent (`InStep`), so that its block ends where the host's does and its
  message no earlier. A grant that is owed or on its way is awaited, there is one,
  and no frame is on its way meanwhile (`GrantAwaited`, `OneFlow`). Between two
  transfers the frames left over from a broken-off one complete no block, or they
  complete the message (`Between`), so that nothing is owed for them when the next
  call comes. `LateIsDead` uses `Prompt`: once a waiting host has lost time, no
  grant can come.

* `NoSpliceAlways` and `HostPathServes`, of `CalmSpec`, for any number of lost frames
  and failures, for an ECU as late as it likes, and without `Prompt`. The hypothesis
  `NothingAdded` bars only a bus that repeats frames (a repeated request is answered
  twice, see the bounds above) or brings foreign ones with data,
  which nothing in a frame tells from the ECU's own. The invariant `InvTransfer` says
  of each direction where in the message (`At`) the frames stand that are on their way,
  and it says it the same way for both (`Transfer`): they are parts of one message in
  ascending order (`Ascends`), the sender's next part lies behind them (`Leaves`), and
  what the receiver has is a beginning of that message, up to a place that the frames to
  come lie at or behind (`Arrives`, `Held`). A gap stays: a frame taken after one, because
  enough were lost for the sequence numbers to fit, leaves the buffer short of that
  frame's end by at least a frame (`GapStays`), no part comes after the last
  (`NoMore`), so a message that is completed has nothing missing (`Takes`). What is lost takes away parts and is harmless
  (`Lesser`); what comes late is the same parts. `Forewarned`, `Answered`,
  `Asked` and `InTurn` say which message it is: the announcements and the answer to the
  request the ECU last took, in the order it began them, so that a message handed over is
  the next of `said` (`HostPathServes`). `AtRest` at each call is what starts the transfer afresh (`Begun`).

* `PromptCallsSucceedAlways`, for every length, block size, STmin and modulus. That a
  call *succeeds* needs time and room at every point of a transfer, and the hypothesis
  `Leeway` asks of the constants what the code asks of its caller and of the ECU: both
  are quick and the ECU grants; the block sizes and STmin fit the counters, N_Cr and,
  times the frames of the longest answer, the caller's timeout; the ring holds a block,
  or an answer that is not cut into blocks, and the announcements. The constants of
  `isotp_prompt` meet it. The invariant `InvSucceed` has two parts. `Phase` is the course of a call
  that nothing has disturbed: the request has not left, its first frame has, it is
  under way, the rest of it is, the ECU ponders, and the same for the answer. `Underway`
  is what each end knows of a message in transit, the same for both directions: the
  receiver has the frames before the k-th (`Has`), those on their way are the k-th and
  following (`Row`), and the sender is right behind them (`Sending`). It streams on, and
  the two have then counted the same frames of the block (`Streams`), or waits for
  a grant that is due exactly when nothing is on its way (`Pauses`), or is done
  (`Finished`). That no deadline strikes follows from two inequalities: the
  sender's pause is not longer than what N_Cr still leaves the receiver, and the ECU's
  pauses have taken from the caller at most one STmin for every frame (`Paced`), so
  that time is left as long as bytes are (`InTime`). A fault ends what is claimed
  (`FaultCounts`).

`ShimProofs.tla` and `ShimChannelProofs.tla` prove, for any threads, slots,
ports, protocols, handle widths and bounds, from `ShimAssumption`:

* `TypeCorrect`, with `ArgsFit`: a call in progress has a slot of the table and
  an argument that its export takes, and only a PassThruConnect is ever between
  its two halves. Without it `Connect` could put anything in a slot.
* `MutexProtects`, `SessionsOwned` and `NoChannelForgotten`, by one induction
  (`Inv`), since each needs the others: a section finds its slot unchanged because
  the mutex is its own (`Alone`), a slot found by a look has a session because a
  slot without one has no channel, and the channels on an adapter are those of
  one slot because a session has one slot (`OwnedHere`). `WedgedFaulted`
  completes it: a wedged session has failed before, so a drop it refuses is not
  held against the table. Most actions are `Quiet` (they keep devices, channels
  and adapters' channels as they are) and are dealt with once; the rest is
  `DropLeavesNothing` for the three exports that drop a channel, and
  `ConnectChannels`.
* `CountIsRight`. The count and the adapter's filters change in two sections of one
  call, or in one that may be refused. `Counted` says of a host channel
  that it has exactly the filter it remembers, and of a firmware one that its count is
  the cardinality of what the adapter has and that those are handles already handed
  out; the next handle is none of them until `HandleSpan` have been
  (`NextHandleIsNew`). A wrapped handle would be in the set already, and the count
  would run ahead. `Retired`: between the two halves of a set_filter the channel
  remembers none.
* `CallsAreAtomic`: `Shim` implements `PassThru`, step by step. The slot table that
  `PassThru` speaks of shows a PassThruConnect that has dropped the old channel and
  not yet opened the new one as the table it found (`Table`), so that both halves
  are one step. The invariant adds that a thread between calls has no arguments
  (`AtRest`), that a half-done connect found a device (`WasThere`), and that a message
  call whose first look missed a host channel that is there at its second was
  told that its channel changed (`Aimed`), which is the licence `PassThru` gives for
  the code it then returns.

`BridgeProofs.tla` proves, for any clients and any bounds, from `BridgeAssumption`:

* `TypeCorrect`, `OneOwnerAlways`, `OnceInOrderAlways` and `AnswersTruthfulAlways`, by
  one induction (`IInv`). None is inductive alone: that an answer is truthful needs to
  know what is still in the streams. For each connection (`Sound`) the requests in its
  stream, the one in hand, and the responses on their way are in the order of the
  calls (`Ordered`), nothing in them is newer than the client's last call, a response
  is what the log says of its request (`Replies`), and what stands between a waiting
  client and its answer is as much as it has given up (`Pending`). What is said of the
  responses and the answer is said of a connection that no call was given up in
  the middle of a frame on (`torn`); the requests are in order on any, so that
  `OneOwner` and `OnceInOrder` need no such premise. Who is not
  yet greeted has sent its hello and nothing else, and nothing was done for it
  (`Hails`, `NotBefore`); and the log belongs to one client after the other because
  only the one served has requests executed, and the backlog holds nobody who was
  (`Line`, `InHand`, `Journal`).

`KLineProofs.tla` proves, for any timeouts, gaps, numbers of pending frames and sizes
of the ring, from `KLineAssumption`:

* `TypeCorrect`.
* `AnswersOwnAlways` and `ReadyForNextAlways`. Both are about time: what the ECU still
  has to say must be said before the deadline the caller waits for. `Sound` compares
  the two clocks: while a request reads, the next frame is due before the read's
  deadline (`OnTime`), the last one of an ECU that does not storm before the ceiling
  on the request (`InPatience`), and a reply in the ring is alone there, is that to
  this request, and leaves an ECU that is done (`Reading`). `Punctual`, which the properties suppose, is what makes it hold after
  each frame; the three conditions in it are those the constants of the code assume of
  an ECU.

`DiagnosticsProofs.tla` proves, for any ECUs, identifiers, limits and answers:

* `AnswersAlwaysFit`: `AnswersFit`, strengthened to what holds while the call is
  still on its way: the channel the session keys is that of the ECU asked
  (`ChannelFits`: `Ask` connects before it sends, and the key changes only between
  calls), and what the call would return is of that
  ECU, of its service and of its identifier (`Fits`). The receive loop is where it
  could break: a late answer passes the filter only with the ECU's address, and
  the parsers check the service and the identifier.
* `RoundTrip`: `ParsePids(Encode(es)) = Listed(es)` for every list of entries, the
  only result here about a recursive algorithm. `ParsePids` and the community
  modules' `FlattenSeq` are recursive functions; that the function each of them
  chooses exists, and that it unfolds, is shown by induction over the set of the
  numbers for which a prefix of it does (`Upwards`, `ParseUnfolds`, `LaidUnfolds`),
  which needs no induction theorem with an operator parameter. Then a parse behind an
  entry is the parse of the rest (`ParseShifts`), and the lists agree by their length.
* `TypeCorrect`, for which that is needed as well: what the loop appends is a list.
* `PunctualAnswersAlways`. The strengthening `Punctual` says what a call that waits has
  still to come when nothing has gone wrong. Either the ECU storms and all the
  adapter holds are announcements (`Storming`), or what the adapter holds, followed by
  what the ECU has still to say, is some number of announcements and then nothing, a
  refusal, the answer, or the rest of the list, and what that makes of the call, with
  the announcements and entries it has already counted, is the truth (`Due`). One step
  of the loop takes the first of these messages and leaves such a rest again
  (`DueNext`); silence is a rest of nothing (`DueEnd`).

`WireProofs.tla` proves, for any transports, sizes of packets, transfers, reads
and messages, lengths of replies and numbers of exchanges and faults, from
`CodecAssumption`, `WireAssumption` and `FramesFit` (no reply is longer than
`MAX_FRAME`, which is the length of the longest one):

* `TypeCorrect`, with the types of the replies and the length of the header that
  `TypeOK` leaves out (`Typed`).
* `NoByteLost`. `StreamKept` is inductive with the fact that a serial transport
  holds nothing back (`RxHeld`). The four reads come down to one (`Turn`): the
  bytes handed over, those kept and those left are, in this order, what was held
  and what was in the driver's buffer. For the USB transport that needs
  `AbsorbTransfer`: taking two status bytes out of every packet gives back the
  payload, for every size of packet and wherever the transfer ends.
* `StackStaysHidden` (`StackNeverGiven`): whichever reply reaches a command, a poll or a
  challenge, also one to another command, what its caller is given, data and RxStatus,
  is what the adapter meant (`ParsedMeant`). The parser of a message is not enough for
  that: the RxStatus it makes of a status-only reply is stack, and `Poll` drops it
  (`PollMeant`).
* `PurgeResynchronises`. The strengthening `Coherent` follows the exchange: while
  it reads, either nothing has come and nothing is under way, or all that came in
  since the purge, followed by what is on the line, is the frame of its own reply;
  the header it takes is then that frame's, announces its length, and the body
  ends where the frame does.

Each invariant was checked by TLC first. Only model-checked are:

* `NoSplice` and the refinement of `IsoTpService` on a bus that repeats frames, where
  they hold for two faults and not for three;
* the liveness properties and the fairness of the two services, which are out of the
  proof system's reach (fairness and ENABLED).

## Plan

1. The frames of the network bridge byte by byte, as `Wire` has those of the cable, to say
   what a client reads behind a timeout inside a frame.
2. `NoSplice` for a bus that repeats at most two frames, which needs an invariant that
   counts what a repetition can add.
3. What remains of `IsoTpService` for calls that find leftovers of earlier ones in the
   ring, on a bus that loses nothing.

## Not modelled

The operating system below the transports, with the opening of ports, the modem
lines and the latency timer; DES itself, checksums and the bytes of commands; the
deframer, which only tests and fuzz targets use; tracing; the command-line programs,
the examples, the benchmarks and the fuzzers.
