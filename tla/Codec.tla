------------------------------- MODULE Codec -------------------------------
(***************************************************************************)
(* codec/inner.rs and the parsers of raw.rs and device.rs: what the driver *)
(* reads out of a reply.  An inner reply is its length field, the command  *)
(* it echoes and the bytes from offset 3 on.  A byte is what the adapter   *)
(* meant by it; a frame counts its two header bytes and its cipher blocks. *)
(***************************************************************************)
EXTENDS Naturals, Sequences

CONSTANTS
  StackBytes,   \* of a status reply, after its status byte: the rest of five
  MsgLens       \* lengths of the messages the adapter has

ASSUME CodecAssumption == StackBytes \in Nat \ {0} /\ MsgLens \subseteq Nat \ {0}

\* The commands, by the parser their replies go to.
Command == [command |-> "WriteMsg", poll |-> "ReadMsg", value |-> "Ioctl", init |-> "Ioctl",
            version |-> "ReadVersion", challenge |-> "Open"]

Run(byte, n) == [i \in 1..n |-> byte]

\* The inner is a whole number of eight-byte blocks.
Padded(body) == body \o Run("pad", 7 - ((Len(body) + 2) % 8))

Inner(cmd, ilen, body) == [cmd |-> cmd, ilen |-> ilen, body |-> Padded(body)]

StatusReply(cmd, status) == Inner(cmd, 2, <<status>> \o Run("stack", StackBytes))

\* What the adapter may answer: every command can be refused.
Replies(op) ==
  LET cmd == Command[op] IN
  CASE op = "command" -> {StatusReply(cmd, "NoError"), StatusReply(cmd, "Refused")}
    [] op = "poll"    -> {StatusReply(cmd, "Refused")} \cup
                         {Inner(cmd, 9 + n, Run("rxstatus", 8) \o Run("msg", n)) : n \in MsgLens \cup {0}}
    [] op = "value"   -> {StatusReply(cmd, "Refused"), Inner(cmd, 5, Run("value", 4))}
    [] op = "init"    -> {StatusReply(cmd, "Refused"), Inner(cmd, 3, Run("key", 2))}
    [] op = "version" -> {StatusReply(cmd, "Refused"), Inner(cmd, 3, <<"text", "text", "zero">>)}
    [] op = "challenge" -> {Inner(cmd, 9, Run("key", 8))}

\* Header bytes and blocks of the frame of a reply, its checksum with the last.
FrameLen(reply) == 2 + (Len(reply.body) + 3) \div 8

\* What is read out of a reply: its data and, beside a message, its RxStatus.
Read(rx, data) == [st |-> "ok", rx |-> rx, data |-> data]
Ok(data) == Read(<< >>, data)
Err(st) == [st |-> st, rx |-> << >>, data |-> << >>]

\* encode_encrypted and encode_plain are not told apart by the length, but a
\* plaintext payload is no multiple of the cipher's block and an encrypted one
\* is no challenge.
DecodesAs(op, reply) == (op = "challenge") = (reply.cmd = "Open")

-----------------------------------------------------------------------------
(* The parsers.                                                            *)

StatusOf(reply, cmd) ==
  IF reply.body = << >> \/ reply.ilen # 2 \/ reply.cmd # cmd THEN Err("Malformed")
  ELSE IF reply.body[1] = "NoError" THEN Ok(<<"NoError">>) ELSE Err("Rejected")

\* parse_read_reply: the RxStatus is taken whatever the length of the reply.
ReadReply(reply) ==
  LET mlen == IF reply.ilen > 9 THEN reply.ilen - 9 ELSE 0
      rx == SubSeq(reply.body, 1, IF Len(reply.body) >= 4 THEN 4 ELSE 1) IN
  IF \/ reply.body = << >> \/ reply.cmd # "ReadMsg"
     \/ mlen > 0 /\ 8 + mlen > Len(reply.body)
  THEN Err("Malformed")
  ELSE Read(rx, SubSeq(reply.body, 9, 8 + mlen))

\* Faulty variant: a reply without a message is handed over like any other.
PollOfAny(reply) == ReadReply(reply)

\* poll of actor.rs: a reply without a message is None, its RxStatus dropped.
Poll(reply) ==
  LET read == ReadReply(reply) IN
  IF read.st = "ok" /\ read.data = << >> THEN Ok(<< >>) ELSE read

\* parse_get_config, parse_vbatt
ValueReply(reply) ==
  IF Len(reply.body) < 4 \/ reply.cmd # "Ioctl" THEN Err("Malformed")
  ELSE Ok(SubSeq(reply.body, 1, 4))

InitReply(reply) ==
  LET field == IF reply.ilen > 1 THEN reply.ilen - 1 ELSE 0
      mlen == IF field < Len(reply.body) THEN field ELSE Len(reply.body) IN
  IF reply.cmd # "Ioctl" THEN Err("Malformed") ELSE Ok(SubSeq(reply.body, 1, mlen))

\* firmware_version: the text ends at the first zero byte.
VersionReply(reply) ==
  LET Text(n) == \A i \in 1..n : reply.body[i] \notin {"zero", "pad"}
      end == CHOOSE n \in 0..Len(reply.body) :
               Text(n) /\ (n < Len(reply.body) => ~Text(n + 1)) IN
  IF reply.cmd # "ReadVersion" THEN Err("Malformed") ELSE Ok(SubSeq(reply.body, 1, end))

Challenge(reply) ==
  IF Len(reply.body) < 8 \/ reply.ilen # 9 THEN Err("Malformed")
  ELSE Ok(SubSeq(reply.body, 1, 8))

\* What the caller of an operation is given for a reply.
Parsed(op, reply) ==
  IF ~DecodesAs(op, reply) THEN Err("Malformed")
  ELSE CASE op = "command" -> StatusOf(reply, Command[op])
         [] op = "poll" -> Poll(reply)
         [] op = "value" -> ValueReply(reply)
         [] op = "init" -> InitReply(reply)
         [] op = "version" -> VersionReply(reply)
         [] op = "challenge" -> Challenge(reply)
=============================================================================
