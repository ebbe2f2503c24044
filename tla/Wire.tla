-------------------------------- MODULE Wire --------------------------------
(***************************************************************************)
(* wire.rs and the transports: the bytes of a reply on their way from the  *)
(* adapter through the driver's buffer and the transport's own to          *)
(* read_frame.  An exchange purges, writes its command and reads one       *)
(* frame; replies may come late, or never, and bytes may be lost.  A frame *)
(* is its two header bytes and a unit for each cipher block; the checksum, *)
(* an exclusive or of one byte, is taken to tell a frame from a splice.    *)
(***************************************************************************)
EXTENDS Codec

CONSTANTS
  Backends,        \* of "serial", "usb", "jni"
  Ops,             \* the operations exchanges are for
  MaxPacket,       \* bytes of a USB packet, two of them modem status
  Scratch,         \* READ_SCRATCH
  MaxTransfer,     \* bytes of a bulk transfer
  MaxFrame,        \* MAX_FRAME
  Lengths,         \* what a header that is no header may announce
  MaxExchanges, MaxFaults

ASSUME WireAssumption ==
  /\ Backends \subseteq {"serial", "usb", "jni"} /\ Ops \subseteq DOMAIN Command
  /\ MaxPacket \in Nat /\ MaxPacket > 2 /\ Scratch \in Nat \ {0} /\ MaxTransfer \in Nat \ {0}
  /\ MaxFrame \in Nat
  /\ Lengths \subseteq Nat /\ MaxExchanges \in Nat /\ MaxFaults \in Nat

\* MAX_FRAME is the largest frame there is (types.rs:14-17).
ASSUME FramesFit == \A op \in Ops : \A reply \in Replies(op) : FrameLen(reply) <= MaxFrame

VARIABLES
  backend,   \* the transport, and whether its driver can purge
  pc,        \* where the session thread is in transact_inner or establish
  cur,       \* the exchange: its number and its operation
  need,      \* bytes that read_exact still waits for
  got,       \* bytes of the frame so far
  rx,        \* what the transport holds: rx of usb.rs, rxbuf of jni.rs
  fifo,      \* what the driver and the FT232R hold
  wire,      \* what the adapter has sent and the host has not
  heard,     \* commands the adapter has not answered
  replies,   \* what it answered to each exchange
  result,    \* what the last exchange came to
  clean,     \* nothing of an earlier exchange was under way after the purge
  since,     \* bytes that arrived since the purge
  nfaults

hostVars == <<backend, pc, cur, need, got, rx, result, clean>>
vars == <<hostVars, fifo, wire, heard, replies, since, nfaults>>

Unanswered == [cmd |-> "none", ilen |-> 0, body |-> << >>]
Fault == nfaults < MaxFaults /\ nfaults' = nfaults + 1

\* The bytes of the frame of exchange n: which frame, and which byte of it.
Frame(n, reply) == [i \in 1..FrameLen(reply) |-> <<n, i>>]

-----------------------------------------------------------------------------
(* The adapter, the line and the driver's buffer.                          *)

Reply ==
  /\ heard # << >>
  /\ \E reply \in Replies(Head(heard).op) :
       /\ replies' = [replies EXCEPT ![Head(heard).n] = reply]
       /\ wire' = wire \o Frame(Head(heard).n, reply)
  /\ heard' = Tail(heard)
  /\ UNCHANGED <<hostVars, fifo, since, nfaults>>

StaySilent ==
  /\ heard # << >> /\ Fault /\ heard' = Tail(heard)
  /\ UNCHANGED <<hostVars, fifo, wire, replies, since>>

Arrive ==
  /\ wire # << >>
  /\ fifo' = Append(fifo, Head(wire))
  /\ since' = IF pc = "idle" THEN since ELSE Append(since, Head(wire))
  /\ wire' = Tail(wire)
  /\ UNCHANGED <<hostVars, heard, replies, nfaults>>

\* A byte is lost on the line.
Lose ==
  /\ wire # << >> /\ Fault /\ wire' = Tail(wire) /\ clean' = FALSE
  /\ UNCHANGED <<backend, pc, cur, need, got, rx, result, fifo, heard, replies, since>>

-----------------------------------------------------------------------------
(* The transports.                                                         *)

Take(buf, n) == SubSeq(buf, 1, n)
Rest(buf, n) == SubSeq(buf, n + 1, Len(buf))
AtMost(a, b) == IF a < b THEN a ELSE b

\* The data of a bulk transfer: every packet opens with two modem-status bytes.
Transfer(payload) ==
  LET room == MaxPacket - 2
      packets == (Len(payload) + room - 1) \div room IN
  [i \in 1..(Len(payload) + 2 * packets) |->
     IF (i - 1) % MaxPacket < 2 THEN <<0, 0>> ELSE payload[i - 2 * ((i - 1) \div MaxPacket + 1)]]

\* absorb
Absorb(data) ==
  LET room == MaxPacket - 2
      packets == (Len(data) + MaxPacket - 1) \div MaxPacket IN
  [i \in 1..(Len(data) - 2 * packets) |-> data[i + 2 * ((i - 1) \div room + 1)]]

\* read_frame takes its header, and with it the length of its body; then the
\* frame is decoded and what it carries is parsed.
Finish(r) ==
  pc' = "idle" /\ result' = r /\ need' = 0 /\ got' = << >> /\ since' = << >>

More(n, bytes, where) ==
  pc' = where /\ need' = n /\ got' = bytes /\ UNCHANGED <<result, since>>

Announced(hdr) ==
  IF hdr[1][2] = 1 /\ hdr[2] = <<hdr[1][1], 2>> THEN {FrameLen(replies[hdr[1][1]])} ELSE Lengths

\* Faulty variant: a length too short for a frame is not noticed.
HeaderReadAnyLength(hdr) ==
  \E len \in Announced(hdr) :
    \/ len > MaxFrame /\ Finish(Err("TooLong"))
    \/ len <= MaxFrame /\ More(len - 2, hdr, "body")

HeaderRead(hdr) ==
  \E len \in Announced(hdr) :
    \/ len < 3 /\ Finish(Err("TooShort"))
    \/ len > MaxFrame /\ Finish(Err("TooLong"))
    \/ len \in 3..MaxFrame /\ More(len - 2, hdr, "body")

FrameRead(frame) ==
  LET n == frame[1][1] IN
  Finish(IF frame = Frame(n, replies[n]) THEN Parsed(cur.op, replies[n]) ELSE Err("Corrupt"))

\* One turn of read_exact: the transport hands over bytes, keeps some of what
\* it has read and leaves the rest to the driver.
Fill(bytes, keeps, left) ==
  LET all == got \o bytes IN
  /\ rx' = keeps /\ fifo' = left
  /\ \/ Len(bytes) < need /\ More(need - Len(bytes), all, pc)
     \/ Len(bytes) = need /\ pc = "header" /\ HeaderRead(all)
     \/ Len(bytes) = need /\ pc = "body" /\ FrameRead(all)
  /\ UNCHANGED <<backend, cur, clean, wire, heard, replies, nfaults>>

Reading == pc \in {"header", "body"}

\* UsbTransport::take, and the leftovers of jni.rs
ReadBuffered ==
  /\ Reading /\ rx # << >>
  /\ LET n == AtMost(need, Len(rx)) IN Fill(Take(rx, n), Rest(rx, n), fifo)

SerialRead ==
  /\ Reading /\ backend.kind = "serial"
  /\ \E n \in 1..AtMost(need, Len(fifo)) : Fill(Take(fifo, n), rx, Rest(fifo, n))

\* Faulty variant: what Java read beyond the request is dropped.
JniReadNoSurplus ==
  /\ Reading /\ backend.kind = "jni" /\ rx = << >>
  /\ \E n \in 1..AtMost(Scratch, Len(fifo)) :
       Fill(Take(fifo, AtMost(n, need)), << >>, Rest(fifo, n))

\* Java reads into a scratch of at least a packet; the surplus is kept.
JniRead ==
  /\ Reading /\ backend.kind = "jni" /\ rx = << >>
  /\ \E n \in 1..AtMost(IF need > Scratch THEN need ELSE Scratch, Len(fifo)) :
       Fill(Take(fifo, AtMost(n, need)), Rest(Take(fifo, n), need), Rest(fifo, n))

UsbRead ==
  /\ Reading /\ backend.kind = "usb" /\ rx = << >>
  /\ \E n \in 1..AtMost(MaxTransfer, Len(fifo)) :
       LET data == Absorb(Transfer(Take(fifo, n))) IN
       Fill(Take(data, AtMost(Len(data), need)), Rest(data, need), Rest(fifo, n))

\* read_exact finds nothing by its deadline.  A bulk transfer that the deadline
\* cancels takes the bytes it has with it.
DeadlinePasses ==
  /\ Reading /\ rx = << >>
  /\ \/ fifo = << >> /\ UNCHANGED fifo
     \/ backend.kind = "usb" /\ \E n \in 0..AtMost(MaxTransfer, Len(fifo)) : fifo' = Rest(fifo, n)
  /\ Finish(Err("Timeout"))
  /\ UNCHANGED <<backend, cur, rx, clean, wire, heard, replies, nfaults>>

PortFails ==
  /\ Reading /\ Fault /\ Finish(Err("Port"))
  /\ UNCHANGED <<backend, cur, rx, clean, fifo, wire, heard, replies>>

-----------------------------------------------------------------------------
(* The exchanges.                                                          *)

\* purge_rx, by transport: the driver's buffer and what the transport holds.
SerialPurge == backend.kind = "serial" /\ fifo' = << >> /\ UNCHANGED rx
UsbPurge == backend.kind = "usb" /\ fifo' = << >> /\ rx' = << >>

\* Faulty variant: the surplus of Java's reads survives a purge.
JniPurgeDriver ==
  /\ backend.kind = "jni" /\ UNCHANGED rx
  /\ fifo' = IF backend.purges THEN << >> ELSE fifo

\* A driver that cannot purge is no error.
JniPurge ==
  /\ backend.kind = "jni" /\ rx' = << >>
  /\ fifo' = IF backend.purges THEN << >> ELSE fifo

Purge == SerialPurge \/ UsbPurge \/ JniPurge

\* A command goes out behind a purge, and the read of its reply begins.
Send(command) ==
  /\ Purge
  /\ heard' = Append(heard, command)
  /\ pc' = "header" /\ need' = 2 /\ got' = << >> /\ since' = fifo'
  /\ clean' = (wire = << >> /\ heard = << >> /\ fifo' = << >>)
  /\ UNCHANGED <<result, nfaults>>

\* The purge or the write fails; what was written may be a command or not.
SendFails(command) ==
  /\ Fault
  /\ rx' = << >> /\ fifo' \in {fifo, << >>}
  /\ heard' \in {heard, Append(heard, command)}
  /\ Finish(Err("Port")) /\ clean' = FALSE

Transact ==
  /\ pc = "idle" /\ cur.n < MaxExchanges
  /\ \E op \in Ops \ {"challenge"} : cur' = [n |-> cur.n + 1, op |-> op]
  /\ Send(cur') \/ SendFails(cur')
  /\ UNCHANGED <<backend, wire, replies>>

\* establish: purge, reset, a pause, purge again and identify.
Establish ==
  /\ pc = "idle" /\ cur.n < MaxExchanges /\ "challenge" \in Ops
  /\ cur' = [n |-> cur.n + 1, op |-> "challenge"]
  /\ Purge /\ pc' = "settle" /\ clean' = FALSE /\ since' = fifo'
  /\ UNCHANGED <<backend, need, got, wire, heard, replies, result, nfaults>>

Identify ==
  /\ pc = "settle"
  /\ Send(cur) \/ SendFails(cur)
  /\ UNCHANGED <<backend, cur, wire, replies>>

Init ==
  /\ backend \in {[kind |-> k, purges |-> p] : k \in Backends, p \in BOOLEAN}
  /\ backend.kind = "jni" \/ backend.purges
  /\ pc = "idle" /\ cur = [n |-> 0, op |-> "command"] /\ need = 0
  /\ got = << >> /\ rx = << >> /\ fifo = << >> /\ wire = << >> /\ heard = << >>
  /\ replies = [n \in 1..MaxExchanges |-> Unanswered]
  /\ result = Err("none") /\ clean = FALSE /\ since = << >> /\ nfaults = 0

Next ==
  \/ Reply \/ StaySilent \/ Arrive \/ Lose
  \/ ReadBuffered \/ SerialRead \/ JniRead \/ UsbRead \/ DeadlinePasses \/ PortFails
  \/ Transact \/ Establish \/ Identify

Spec == Init /\ [][Next]_vars

-----------------------------------------------------------------------------
(* Properties.                                                             *)

Bytes == (1..MaxExchanges) \X (Nat \ {0})

TypeOK ==
  /\ backend \in [kind : Backends, purges : BOOLEAN]
  /\ pc \in {"idle", "settle", "header", "body"}
  /\ cur \in [n : 0..MaxExchanges, op : Ops \cup {"command"}]
  /\ need \in Nat /\ (need > 0 <=> Reading)
  /\ {got, rx, fifo, wire, since} \subseteq Seq(Bytes)
  /\ heard \in Seq([n : 1..MaxExchanges, op : Ops])
  /\ clean \in BOOLEAN /\ nfaults \in 0..MaxFaults

\* Between the driver's buffer and the decoder no byte is lost, repeated or
\* moved, whatever the sizes of packets, reads and leftovers: what read_exact
\* has, what the transport holds and what the driver holds is what came in
\* since the purge (jni.rs:129-172, usb.rs:159-171, wire.rs:36-49).
StreamKept == Reading => got \o rx \o fifo = since

\* However earlier exchanges ended, and wherever their frames were cut: when
\* nothing of them is under way after the purge, the frame that is read is the
\* reply to this command and nothing else (actor.rs:209-215, wire.rs:14-16).
Resynchronised ==
  (pc = "idle" /\ clean /\ result.st \notin {"Timeout", "Port"}) =>
    result = Parsed(cur.op, replies[cur.n])

\* Nothing that the callers of the status, message and challenge operations are
\* given comes from the adapter's uninitialised stack or from the padding of the
\* cipher, though parse_read_reply makes an RxStatus of the stack whenever there
\* is no message: poll drops it (inner.rs:340-344, actor.rs:270-276).
StackNeverGiven ==
  (pc = "idle" /\ cur.op \in {"command", "poll", "challenge"}) =>
    \A given \in {result.data, result.rx} :
      \A i \in DOMAIN given : given[i] \notin {"stack", "pad"}

=============================================================================
