------------------------------ MODULE WireProofs ------------------------------
(***************************************************************************)
(* Theorems about Wire, for any transports, sizes of packets and reads,    *)
(* lengths of replies, numbers of exchanges and faults.                    *)
(***************************************************************************)
EXTENDS Wire, SequenceTheorems, TLAPS

-----------------------------------------------------------------------------
(* Sequences cut in two.                                                   *)

LEMMA FunctionIsSeq ==
  ASSUME NEW S, NEW n \in Nat, NEW f \in [1..n -> S]
  PROVE  f \in Seq(S) /\ Len(f) = n
<1>1. f \in Seq(S)
  BY SeqDef
<1>2. DOMAIN f = 1..Len(f) /\ Len(f) \in Nat
  BY <1>1, LenProperties
<1> QED BY <1>1, <1>2

LEMMA LenOfFunction ==
  ASSUME NEW n \in Nat, NEW f, f = [i \in 1..n |-> f[i]]
  PROVE  Len(f) = n
<1> DEFINE S == {f[i] : i \in 1..n}
<1>1. f \in [1..n -> S]
  OBVIOUS
<1> QED BY <1>1, FunctionIsSeq

LEMMA Split ==
  ASSUME NEW S, NEW s \in Seq(S), NEW n \in 0..Len(s)
  PROVE  /\ Take(s, n) \in Seq(S) /\ Len(Take(s, n)) = n
         /\ Rest(s, n) \in Seq(S) /\ Len(Rest(s, n)) = Len(s) - n
         /\ Take(s, n) \o Rest(s, n) = s
<1>1. Len(s) \in Nat /\ \A i \in 1..Len(s) : s[i] \in S
  BY LenProperties, ElementOfSeq
<1>2. Take(s, n) \in Seq(S) /\ Len(Take(s, n)) = n
  <2>1. \A i \in 1..n : s[i] \in S
    BY <1>1
  <2>2. /\ SubSeq(s, 1, n) \in Seq(S)
        /\ Len(SubSeq(s, 1, n)) = IF 1 <= n THEN n - 1 + 1 ELSE 0
    BY <1>1, <2>1, SubSeqProperties
  <2> QED BY <1>1, <2>2 DEF Take
<1>3. Rest(s, n) \in Seq(S) /\ Len(Rest(s, n)) = Len(s) - n
  <2>1. \A i \in n + 1..Len(s) : s[i] \in S
    BY <1>1
  <2>2. /\ SubSeq(s, n + 1, Len(s)) \in Seq(S)
        /\ Len(SubSeq(s, n + 1, Len(s))) = IF n + 1 <= Len(s) THEN Len(s) - (n + 1) + 1 ELSE 0
    BY <1>1, <2>1, SubSeqProperties
  <2> QED BY <1>1, <2>2 DEF Rest
<1>4. Take(s, n) \o Rest(s, n) = s
  <2>1. /\ 1 \in 1..Len(s) + 1 /\ n \in 1 - 1..Len(s)
        /\ Len(s) \in n..Len(s)
    BY <1>1
  <2>2. SubSeq(s, 1, n) \o SubSeq(s, n + 1, Len(s)) = SubSeq(s, 1, Len(s))
    BY <2>1, ConcatAdjacentSubSeq
  <2> QED BY <2>2, SubSeqFull DEF Take, Rest
<1> QED BY <1>2, <1>3, <1>4

\* What read_exact takes and what it leaves, when more may be there than it needs.
LEMMA SplitAtMost ==
  ASSUME NEW S, NEW s \in Seq(S), NEW n \in Nat
  PROVE  /\ Take(s, AtMost(Len(s), n)) \in Seq(S)
         /\ Len(Take(s, AtMost(Len(s), n))) = AtMost(Len(s), n)
         /\ Rest(s, n) \in Seq(S)
         /\ Take(s, AtMost(Len(s), n)) \o Rest(s, n) = s
<1>1. Len(s) \in Nat
  BY LenProperties
<1>2. CASE n <= Len(s)
  <2>1. AtMost(Len(s), n) = n /\ n \in 0..Len(s)
    BY <1>1, <1>2 DEF AtMost
  <2> QED BY <2>1, Split
<1>3. CASE Len(s) < n
  <2>1. AtMost(Len(s), n) = Len(s)
    BY <1>3 DEF AtMost
  <2>2. Take(s, Len(s)) = s
    BY SubSeqFull DEF Take
  <2>3. Rest(s, n) = << >>
    BY <1>1, <1>3, SubSeqEmpty DEF Rest
  <2>4. s \o << >> = s /\ << >> \in Seq(S)
    BY ConcatEmptySeq, EmptySeq
  <2> QED BY <2>1, <2>2, <2>3, <2>4
<1> QED BY <1>1, <1>2, <1>3

LEMMA TakeOfTake ==
  ASSUME NEW S, NEW s \in Seq(S), NEW n \in 1..Len(s), NEW m \in 1..n
  PROVE  Take(Take(s, n), m) = Take(s, m)
<1>1. Len(s) \in Nat
  BY LenProperties
<1>2. SubSeq(SubSeq(s, 1, n), 1, m) = SubSeq(s, 1 + 1 - 1, 1 + m - 1)
  BY <1>1, SubSeqOfSubSeq
<1> QED BY <1>2 DEF Take

\* What is handed over, what is kept and what is left are what was held and what
\* was in the driver's buffer; and a stream is what its three parts make.  (Both
\* are named so that a prover does not have to look into them.)
Passed(bytes, keeps, left, held, buffered) == bytes \o (keeps \o left) = held \o buffered
Stream(a, b, c, s) == (a \o b) \o c = s
Associates(a, b, c) == (a \o b) \o c = a \o (b \o c)

LEMMA ConcatAssociates ==
  ASSUME NEW S, NEW a \in Seq(S), NEW b \in Seq(S), NEW c \in Seq(S)
  PROVE  Associates(a, b, c)
BY ConcatAssociative DEF Associates

LEMMA Regroup ==
  ASSUME NEW S, NEW a \in Seq(S), NEW b \in Seq(S), NEW c \in Seq(S), NEW d \in Seq(S),
         NEW e \in Seq(S), NEW f \in Seq(S), Passed(b, c, d, e, f)
  PROVE  Stream(a \o b, c, d, (a \o e) \o f)
<1>1. PICK cd \in Seq(S) : cd = c \o d
  BY ConcatProperties
<1>2. PICK ab \in Seq(S) : ab = a \o b
  BY ConcatProperties
<1>3. Associates(ab, c, d) /\ Associates(a, b, cd) /\ Associates(a, e, f)
  BY ConcatAssociates
<1> QED BY <1>1, <1>2, <1>3, Zenon DEF Associates, Passed, Stream

AppendsLast(s, t, e) == Append(s \o t, e) = s \o Append(t, e)

LEMMA AppendToConcat ==
  ASSUME NEW S, NEW s \in Seq(S), NEW t \in Seq(S), NEW e \in S
  PROVE  AppendsLast(s, t, e)
<1>1. s \o t \in Seq(S) /\ <<e>> \in Seq(S)
  BY ConcatProperties
<1>2. Append(s \o t, e) = (s \o t) \o <<e>> /\ Append(t, e) = t \o <<e>>
  BY <1>1, AppendIsConcat
<1> QED BY <1>1, <1>2, ConcatAssociative DEF AppendsLast

LEMMA MoveHead ==
  ASSUME NEW S, NEW s \in Seq(S), NEW t \in Seq(S), t # << >>
  PROVE  Append(s, Head(t)) \o Tail(t) = s \o t
<1> DEFINE e == Head(t)
           u == Tail(t)
<1>1. e \in S /\ u \in Seq(S) /\ <<e>> \in Seq(S)
  BY HeadTailProperties
<1>2. t = <<e>> \o u
  <2>1. Len(t) \in Nat /\ Len(t) >= 1
    BY EmptySeq
  <2>2. SubSeq(t, 1, Len(t)) = <<t[1]>> \o SubSeq(t, 1 + 1, Len(t))
    BY <2>1, SubSeqRecursiveFirst
  <2>3. SubSeq(t, 1, Len(t)) = t /\ Tail(t) = SubSeq(t, 2, Len(t)) /\ Head(t) = t[1]
    BY SubSeqFull, TailIsSubSeq
  <2> QED BY <2>2, <2>3
<1> HIDE DEF e, u
<1>3. Append(s, e) = s \o <<e>>
  BY <1>1, AppendIsConcat
<1>4. Associates(s, <<e>>, u)
  BY <1>1, ConcatAssociates
<1>5. Append(s, e) \o u = s \o t
  BY <1>2, <1>3, <1>4, Zenon DEF Associates
<1> QED BY <1>5 DEF e, u

-----------------------------------------------------------------------------
(* The modem-status bytes.                                                 *)

LEMMA Quotient ==
  ASSUME NEW P \in Nat \ {0}, NEW q \in Nat, NEW s \in 0..(P - 1)
  PROVE  (q * P + s) \div P = q /\ (q * P + s) % P = s
BY SMTT(20)

LEMMA Division ==
  ASSUME NEW P \in Nat \ {0}, NEW a \in Nat
  PROVE  a \div P \in Nat /\ a % P \in 0..(P - 1) /\ a = (a \div P) * P + (a % P)
BY SMTT(20)

\* absorb gives back what the packets of a bulk transfer carry, whatever the
\* size of a packet and wherever the transfer ends: m packets with room for R
\* bytes each behind two of modem status carry L.
LEMMA AbsorbPackets ==
  ASSUME NEW S, NEW p \in Seq(S),
         NEW R \in Nat \ {0}, NEW P \in Nat \ {0}, P = MaxPacket, P = R + 2,
         NEW L \in Nat \ {0}, L = Len(p),
         NEW t, t = Transfer(p)
  PROVE  Absorb(t) = p
<1> DEFINE q == (L - 1) \div R
           r == (L - 1) % R
           m == (L + R - 1) \div R
           D == L + 2 * m
<1>1. q \in Nat /\ r \in 0..(R - 1) /\ L - 1 = q * R + r
  <2>1. L - 1 \in Nat
    OBVIOUS
  <2> QED BY <2>1, Division
<1>2. (L + R - 1) \div R = q + 1
  <2> HIDE DEF q, r
  <2>1. L + R - 1 = (q + 1) * R + r /\ q + 1 \in Nat
    BY <1>1, SMTT(20)
  <2> QED BY <2>1, <1>1, Quotient
<1>3. D = q * P + r + 3 /\ D = L + 2 * (q + 1) /\ D \in Nat /\ m = q + 1
  <2> HIDE DEF q, r
  <2>1. q * P = q * R + 2 * q
    BY <1>1, SMTT(20)
  <2> QED BY <1>1, <1>2, <2>1
<1> HIDE DEF q, r, m, D
<1>4. (D + P - 1) \div P = m
  <2>1. D + P - 1 = (q + 1) * P + (r + 2) /\ q + 1 \in Nat /\ r + 2 \in 0..(P - 1)
    BY <1>1, <1>3, SMTT(20)
  <2>2. ((q + 1) * P + (r + 2)) \div P = q + 1
    BY <2>1, Quotient
  <2> QED BY <2>1, <2>2, <1>3
\* Where the byte at i of the payload goes.
<1>5. ASSUME NEW i \in 1..L, NEW j, j = i + 2 * ((i - 1) \div R + 1)
      PROVE  j \in 1..D /\ ~((j - 1) % P < 2) /\ j - 2 * ((j - 1) \div P + 1) = i
  <2> DEFINE k == (i - 1) \div R
             u == (i - 1) % R
  <2>1. k \in Nat /\ u \in 0..(R - 1) /\ i - 1 = k * R + u
    <3>1. i - 1 \in Nat
      OBVIOUS
    <3> QED BY <3>1, Division
  <2>2. j = i + 2 * (k + 1)
    BY <1>5
  <2> HIDE DEF k, u
  <2>3. k <= q
    <3> SUFFICES ASSUME k >= q + 1 PROVE FALSE
      BY <1>1, <2>1
    <3>1. k * R >= (q + 1) * R
      BY <1>1, <2>1, SMTT(20)
    <3>2. (q + 1) * R = q * R + R
      BY <1>1, SMTT(20)
    <3> QED BY <1>1, <2>1, <3>1, <3>2, SMTT(20)
  <2>4. j - 1 = k * P + (u + 2) /\ u + 2 \in 0..(P - 1)
    <3>1. k * P = k * R + 2 * k
      BY <2>1, SMTT(20)
    <3> QED BY <2>1, <2>2, <3>1
  <2>5. (j - 1) \div P = k /\ (j - 1) % P = u + 2
    <3>1. (k * P + (u + 2)) \div P = k /\ (k * P + (u + 2)) % P = u + 2
      BY <2>1, <2>4, Quotient
    <3> QED BY <2>4, <3>1
  <2> QED BY <1>1, <1>3, <2>1, <2>2, <2>3, <2>5
<1>6. t = [j \in 1..D |->
             IF (j - 1) % P < 2 THEN <<0, 0>> ELSE p[j - 2 * ((j - 1) \div P + 1)]]
  <2>1. MaxPacket - 2 = R
    OBVIOUS
  <2> QED BY <2>1 DEF Transfer, D, m
<1>7. Len(t) = D
  <2>1. t = [j \in 1..D |-> t[j]]
    BY <1>6, Zenon
  <2> QED BY <1>3, <2>1, LenOfFunction
<1>8. Absorb(t) = [i \in 1..L |-> t[i + 2 * ((i - 1) \div R + 1)]]
  <2>1. MaxPacket - 2 = R /\ Len(t) - 2 * ((Len(t) + P - 1) \div P) = L
    BY <1>1, <1>3, <1>4, <1>7
  <2> QED BY <2>1 DEF Absorb
<1>9. ASSUME NEW i \in 1..L
      PROVE  t[i + 2 * ((i - 1) \div R + 1)] = p[i]
  <2> DEFINE j == i + 2 * ((i - 1) \div R + 1)
  <2>1. j \in 1..D /\ ~((j - 1) % P < 2) /\ j - 2 * ((j - 1) \div P + 1) = i
    BY <1>5
  <2> HIDE DEF j
  <2>2. t[j] = p[j - 2 * ((j - 1) \div P + 1)]
    BY <1>6, <2>1
  <2> QED BY <2>1, <2>2 DEF j
<1>10. p = [i \in 1..L |-> p[i]]
  BY LenProperties
<1> QED BY <1>8, <1>9, <1>10

LEMMA AbsorbTransfer ==
  ASSUME NEW S, NEW p \in Seq(S), Len(p) > 0
  PROVE  Absorb(Transfer(p)) = p
<1>1. /\ MaxPacket \in Nat \ {0} /\ MaxPacket - 2 \in Nat \ {0} /\ Len(p) \in Nat \ {0}
      /\ MaxPacket = (MaxPacket - 2) + 2
  BY WireAssumption, LenProperties
<1> QED BY <1>1, AbsorbPackets

-----------------------------------------------------------------------------
(* Replies.                                                                *)

\* What a byte of a reply may be meant as.
Byte == {"pad", "stack", "rxstatus", "msg", "value", "key", "text", "zero", "NoError", "Refused"}

LEMMA RunIsSeq ==
  ASSUME NEW n \in Nat, NEW byte \in Byte
  PROVE  Run(byte, n) \in Seq(Byte) /\ Len(Run(byte, n)) = n
BY FunctionIsSeq DEF Run

LEMMA PaddedBody ==
  ASSUME NEW b \in Seq(Byte)
  PROVE  /\ Padded(b) \in Seq(Byte)
         /\ Len(Padded(b)) = Len(b) + 7 - ((Len(b) + 2) % 8)
         /\ \A i \in 1..Len(b) : Padded(b)[i] = b[i]
<1>1. Len(b) \in Nat /\ 7 - ((Len(b) + 2) % 8) \in Nat
  BY LenProperties
<1>2. /\ Run("pad", 7 - ((Len(b) + 2) % 8)) \in Seq(Byte)
      /\ Len(Run("pad", 7 - ((Len(b) + 2) % 8))) = 7 - ((Len(b) + 2) % 8)
  BY <1>1, RunIsSeq DEF Byte
<1> QED BY <1>1, <1>2, ConcatProperties DEF Padded

LEMMA RepliesTo ==
  /\ Replies("command") = {StatusReply("WriteMsg", "NoError"), StatusReply("WriteMsg", "Refused")}
  /\ Replies("poll") = {StatusReply("ReadMsg", "Refused")} \cup
       {Inner("ReadMsg", 9 + n, Run("rxstatus", 8) \o Run("msg", n)) : n \in MsgLens \cup {0}}
  /\ Replies("value") = {StatusReply("Ioctl", "Refused"), Inner("Ioctl", 5, Run("value", 4))}
  /\ Replies("init") = {StatusReply("Ioctl", "Refused"), Inner("Ioctl", 3, Run("key", 2))}
  /\ Replies("version") =
       {StatusReply("ReadVersion", "Refused"), Inner("ReadVersion", 3, <<"text", "text", "zero">>)}
  /\ Replies("challenge") = {Inner("Open", 9, Run("key", 8))}
<1>1. /\ Command["command"] = "WriteMsg" /\ Command["poll"] = "ReadMsg"
      /\ Command["value"] = "Ioctl" /\ Command["init"] = "Ioctl"
      /\ Command["version"] = "ReadVersion" /\ Command["challenge"] = "Open"
  BY DEF Command
<1>2. Replies("command") = {StatusReply("WriteMsg", "NoError"), StatusReply("WriteMsg", "Refused")}
  BY <1>1, Zenon DEF Replies
<1>3. Replies("poll") = {StatusReply("ReadMsg", "Refused")} \cup
        {Inner("ReadMsg", 9 + n, Run("rxstatus", 8) \o Run("msg", n)) : n \in MsgLens \cup {0}}
  BY <1>1, Zenon DEF Replies
<1>4. Replies("value") = {StatusReply("Ioctl", "Refused"), Inner("Ioctl", 5, Run("value", 4))}
  BY <1>1, Zenon DEF Replies
<1>5. Replies("init") = {StatusReply("Ioctl", "Refused"), Inner("Ioctl", 3, Run("key", 2))}
  BY <1>1, Zenon DEF Replies
<1>6. Replies("version") =
        {StatusReply("ReadVersion", "Refused"), Inner("ReadVersion", 3, <<"text", "text", "zero">>)}
  BY <1>1, Zenon DEF Replies
<1>7. Replies("challenge") = {Inner("Open", 9, Run("key", 8))}
  BY <1>1, Zenon DEF Replies
<1> QED BY <1>2, <1>3, <1>4, <1>5, <1>6, <1>7

\* What every reply is made of.
Shape(op, reply) ==
  \E ilen \in Nat, b \in Seq(Byte) : Len(b) > 0 /\ reply = Inner(Command[op], ilen, b)

LEMMA ReplyShape ==
  ASSUME NEW op \in DOMAIN Command, NEW reply \in Replies(op)
  PROVE  Shape(op, reply)
<1>0. ASSUME NEW ilen \in Nat, NEW b \in Seq(Byte), Len(b) > 0, NEW cmd, cmd = Command[op]
      PROVE  Shape(op, Inner(cmd, ilen, b))
  BY <1>0 DEF Shape
<1>1. ASSUME NEW status \in Byte, NEW cmd, cmd = Command[op]
      PROVE  Shape(op, StatusReply(cmd, status))
  <2>1. Run("stack", StackBytes) \in Seq(Byte)
    BY CodecAssumption, RunIsSeq DEF Byte
  <2>2. /\ <<status>> \o Run("stack", StackBytes) \in Seq(Byte)
        /\ Len(<<status>> \o Run("stack", StackBytes)) > 0
    <3>1. <<status>> \in Seq(Byte) /\ Len(<<status>>) = 1
      OBVIOUS
    <3> QED BY <2>1, <3>1, ConcatProperties, LenProperties
  <2> QED BY <1>0, <1>1, <2>2 DEF StatusReply
<1>2. ASSUME NEW n \in MsgLens \cup {0}, NEW cmd, cmd = Command[op]
      PROVE  Shape(op, Inner(cmd, 9 + n, Run("rxstatus", 8) \o Run("msg", n)))
  <2>1. n \in Nat
    BY CodecAssumption
  <2>2. /\ Run("rxstatus", 8) \in Seq(Byte) /\ Len(Run("rxstatus", 8)) = 8
        /\ Run("msg", n) \in Seq(Byte) /\ Len(Run("msg", n)) = n
    <3>1. {"rxstatus", "msg"} \subseteq Byte /\ 8 \in Nat
      BY DEF Byte
    <3> QED BY <2>1, <3>1, RunIsSeq
  <2>3. /\ Run("rxstatus", 8) \o Run("msg", n) \in Seq(Byte)
        /\ Len(Run("rxstatus", 8) \o Run("msg", n)) > 0
    BY <2>1, <2>2, ConcatProperties
  <2>4. 9 + n \in Nat
    BY <2>1
  <2> QED BY <1>0, <1>2, <2>3, <2>4
<1>3. ASSUME NEW n \in Nat \ {0}, NEW byte \in Byte, NEW ilen \in Nat,
             NEW cmd, cmd = Command[op]
      PROVE  Shape(op, Inner(cmd, ilen, Run(byte, n)))
  <2>1. Run(byte, n) \in Seq(Byte) /\ Len(Run(byte, n)) > 0
    BY RunIsSeq
  <2> QED BY <1>0, <1>3, <2>1
<1>4. ASSUME NEW cmd, cmd = Command[op]
      PROVE  Shape(op, Inner(cmd, 3, <<"text", "text", "zero">>))
  <2>1. <<"text", "text", "zero">> \in Seq(Byte) /\ Len(<<"text", "text", "zero">>) = 3
    BY DEF Byte
  <2> DEFINE b == <<"text", "text", "zero">>
  <2>2. b \in Seq(Byte) /\ Len(b) > 0 /\ 3 \in Nat
    BY <2>1
  <2> HIDE DEF b
  <2>3. Shape(op, Inner(cmd, 3, b))
    BY <1>0, <1>4, <2>2
  <2> QED BY <2>3 DEF b
<1>5. /\ Command["command"] = "WriteMsg" /\ Command["poll"] = "ReadMsg"
      /\ Command["value"] = "Ioctl" /\ Command["init"] = "Ioctl"
      /\ Command["version"] = "ReadVersion" /\ Command["challenge"] = "Open"
      /\ op \in {"command", "poll", "value", "init", "version", "challenge"}
  BY DEF Command
<1>6. "NoError" \in Byte /\ "Refused" \in Byte /\ "value" \in Byte /\ "key" \in Byte
  BY DEF Byte
<1>7. CASE op = "command"
  BY <1>1, <1>5, <1>6, <1>7, RepliesTo
<1>8. CASE op = "poll"
  BY <1>1, <1>2, <1>5, <1>6, <1>8, RepliesTo
<1>9. CASE op = "value"
  <2>1. Shape(op, Inner("Ioctl", 5, Run("value", 4)))
    BY <1>3, <1>5, <1>6, <1>9
  <2>2. Shape(op, StatusReply("Ioctl", "Refused"))
    BY <1>1, <1>5, <1>6, <1>9
  <2> QED BY <2>1, <2>2, <1>9, RepliesTo
<1>10. CASE op = "init"
  <2>1. Shape(op, Inner("Ioctl", 3, Run("key", 2)))
    BY <1>3, <1>5, <1>6, <1>10
  <2>2. Shape(op, StatusReply("Ioctl", "Refused"))
    BY <1>1, <1>5, <1>6, <1>10
  <2> QED BY <2>1, <2>2, <1>10, RepliesTo
<1>11. CASE op = "version"
  BY <1>1, <1>4, <1>5, <1>6, <1>11, RepliesTo
<1>12. CASE op = "challenge"
  <2>1. Shape(op, Inner("Open", 9, Run("key", 8)))
    BY <1>3, <1>5, <1>6, <1>12
  <2> QED BY <2>1, <1>12, RepliesTo
<1> QED BY <1>5, <1>7, <1>8, <1>9, <1>10, <1>11, <1>12

Answers == {Unanswered} \cup UNION {Replies(op) : op \in Ops}

LEMMA AnswerTyped ==
  ASSUME NEW reply \in Answers
  PROVE  reply.body \in Seq(Byte) /\ FrameLen(reply) \in Nat /\ FrameLen(reply) >= 2
<1>1. reply.body \in Seq(Byte)
  <2>1. CASE reply = Unanswered
    BY <2>1, EmptySeq DEF Unanswered
  <2>2. ASSUME NEW op \in Ops, reply \in Replies(op)
        PROVE  reply.body \in Seq(Byte)
    BY <2>2, WireAssumption, ReplyShape, PaddedBody DEF Shape, Inner
  <2> QED BY <2>1, <2>2 DEF Answers
<1>2. Len(reply.body) \in Nat
  BY <1>1, LenProperties
<1>3. \A n \in Nat : 2 + (n + 3) \div 8 \in Nat /\ 2 + (n + 3) \div 8 >= 2
  OBVIOUS
<1> QED BY <1>1, <1>2, <1>3 DEF FrameLen

\* A reply is longer than its header.
LEMMA ReplyLength ==
  ASSUME NEW op \in DOMAIN Command, NEW reply \in Replies(op)
  PROVE  FrameLen(reply) \in Nat /\ FrameLen(reply) >= 3
<1>1. PICK ilen \in Nat, b \in Seq(Byte) : Len(b) > 0 /\ reply = Inner(Command[op], ilen, b)
  BY ReplyShape DEF Shape
<1>2. Len(reply.body) = Len(b) + 7 - ((Len(b) + 2) % 8) /\ Len(b) \in Nat
  BY <1>1, PaddedBody, LenProperties DEF Inner
<1>3. Len(reply.body) >= 5
  BY <1>1, <1>2
<1> QED BY <1>2, <1>3 DEF FrameLen

-----------------------------------------------------------------------------
(* Types, and the stream of bytes.                                         *)

\* The adapter's answers are answers, and a header under way is two bytes long.
Typed ==
  /\ TypeOK
  /\ need \in Nat /\ got \in Seq(Bytes) /\ rx \in Seq(Bytes) /\ fifo \in Seq(Bytes)
  /\ wire \in Seq(Bytes) /\ since \in Seq(Bytes)
  /\ replies \in [1..MaxExchanges -> Answers]
  /\ pc = "header" => need + Len(got) = 2
  /\ pc = "settle" => cur.n > 0 /\ cur.op \in Ops

\* A serial transport holds nothing back.
RxHeld == backend.kind = "serial" => rx = << >>

Inv == Typed /\ RxHeld /\ StreamKept

LEMMA Nothing == << >> \in Seq(Bytes) /\ Len(<< >>) = 0
BY EmptySeq

LEMMA FrameTyped ==
  ASSUME NEW n \in 1..MaxExchanges, NEW reply \in Answers
  PROVE  Frame(n, reply) \in Seq(Bytes) /\ Len(Frame(n, reply)) = FrameLen(reply)
<1>1. FrameLen(reply) \in Nat
  BY AnswerTyped
<1>2. Frame(n, reply) \in [1..FrameLen(reply) -> Bytes]
  BY <1>1 DEF Frame, Bytes
<1> QED BY <1>1, <1>2, FunctionIsSeq

LEMMA InitInv == Init => Inv
<1> SUFFICES ASSUME Init PROVE Inv
  OBVIOUS
<1>1. replies \in [1..MaxExchanges -> Answers]
  BY DEF Init, Answers
<1>2. TypeOK
  <2>1. MaxExchanges \in Nat /\ MaxFaults \in Nat
    BY WireAssumption
  <2>2. << >> \in Seq([n : 1..MaxExchanges, op : Ops])
    BY EmptySeq
  <2>3. backend \in [kind : Backends, purges : BOOLEAN]
    BY DEF Init
  <2>4. pc \in {"idle", "settle", "header", "body"} /\ need \in Nat /\ (need > 0 <=> Reading)
    BY DEF Init, Reading
  <2>5. cur \in [n : 0..MaxExchanges, op : Ops \cup {"command"}]
    BY <2>1 DEF Init
  <2>6. {got, rx, fifo, wire, since} \subseteq Seq(Bytes)
    BY Nothing DEF Init
  <2>7. nfaults \in 0..MaxFaults
    BY <2>1 DEF Init
  <2>9. clean \in BOOLEAN
    BY DEF Init
  <2>8. heard \in Seq([n : 1..MaxExchanges, op : Ops])
    BY <2>2 DEF Init
  <2> QED BY <2>3, <2>4, <2>5, <2>6, <2>7, <2>8, <2>9 DEF TypeOK
<1> QED BY <1>1, <1>2, Nothing DEF Init, Inv, Typed, RxHeld, StreamKept, Reading

\* What a turn of read_exact does to the stream, whichever transport gave the
\* bytes: they, what is kept and what is left are what was held before.
LEMMA FillInv ==
  ASSUME Inv, Reading,
         NEW bytes \in Seq(Bytes), NEW keeps \in Seq(Bytes), NEW left \in Seq(Bytes),
         0 < Len(bytes), Len(bytes) <= need,
         Passed(bytes, keeps, left, rx, fifo),
         backend.kind = "serial" => keeps = << >>,
         Fill(bytes, keeps, left)
  PROVE  Inv'
<1>1. UNCHANGED <<backend, cur, clean, wire, heard, replies, nfaults>> /\ rx' = keeps /\ fifo' = left
  BY DEF Fill
<1>2. /\ got \in Seq(Bytes) /\ rx \in Seq(Bytes) /\ fifo \in Seq(Bytes) /\ since \in Seq(Bytes)
      /\ need \in Nat /\ Len(bytes) \in Nat /\ Len(got) \in Nat
      /\ got \o bytes \in Seq(Bytes) /\ Len(got \o bytes) = Len(got) + Len(bytes)
  BY ConcatProperties, LenProperties DEF Inv, Typed
\* It is enough that the frame goes on or the exchange ends.
<1>3. ASSUME NEW n \in Nat \ {0}, NEW where, More(n, got \o bytes, where),
             where \in {"header", "body"},
             where = "header" => n + Len(got \o bytes) = 2
      PROVE  Inv'
  <2>1. pc' = where /\ need' = n /\ got' = got \o bytes /\ UNCHANGED <<result, since>>
    BY <1>3 DEF More
  <2>2. Typed'
    BY <1>1, <1>2, <1>3, <2>1 DEF Inv, Typed, TypeOK, Reading
  <2>3. StreamKept'
    <3>1. Stream(got \o bytes, keeps, left, (got \o rx) \o fifo)
      BY <1>2, Regroup
    <3>2. since = (got \o rx) \o fifo
      BY DEF Inv, StreamKept
    <3> QED BY <1>1, <2>1, <3>1, <3>2 DEF StreamKept, Stream
  <2>4. RxHeld'
    BY <1>1 DEF RxHeld
  <2> QED BY <2>2, <2>3, <2>4 DEF Inv
<1>4. ASSUME NEW r, Finish(r)
      PROVE  Inv'
  <2>1. Typed'
    BY <1>1, <1>2, <1>4, Nothing DEF Finish, Inv, Typed, TypeOK, Reading
  <2> QED BY <1>1, <1>4, <2>1 DEF Finish, Inv, StreamKept, RxHeld, Reading
<1>5. CASE Len(bytes) < need /\ More(need - Len(bytes), got \o bytes, pc)
  <2>1. need - Len(bytes) \in Nat \ {0}
    BY <1>2, <1>5
  <2>2. pc = "header" => need - Len(bytes) + Len(got \o bytes) = 2
    BY <1>2 DEF Inv, Typed
  <2> QED BY <1>3, <1>5, <2>1, <2>2 DEF Reading
<1>6. CASE Len(bytes) = need /\ pc = "header" /\ HeaderRead(got \o bytes)
  <2>1. PICK len \in Announced(got \o bytes) :
          \/ len < 3 /\ Finish(Err("TooShort"))
          \/ len > MaxFrame /\ Finish(Err("TooLong"))
          \/ len \in 3..MaxFrame /\ More(len - 2, got \o bytes, "body")
    BY <1>6 DEF HeaderRead
  <2>2. CASE len \in 3..MaxFrame /\ More(len - 2, got \o bytes, "body")
    <3>1. len - 2 \in Nat \ {0}
      BY <2>2, WireAssumption
    <3> QED BY <1>3, <2>2, <3>1
  <2> QED BY <1>4, <2>1, <2>2
<1>7. CASE Len(bytes) = need /\ pc = "body" /\ FrameRead(got \o bytes)
  BY <1>4, <1>7 DEF FrameRead
<1> QED BY <1>5, <1>6, <1>7 DEF Fill

LEMMA PassedOn ==
  ASSUME NEW S, NEW a \in Seq(S), NEW b \in Seq(S), NEW c \in Seq(S), NEW s \in Seq(S), a \o b = s
  PROVE  Passed(a, b, c, s, c)
<1>1. Associates(a, b, c)
  BY ConcatAssociates
<1> QED BY <1>1, Zenon DEF Associates, Passed

LEMMA PassedStraight ==
  ASSUME NEW S, NEW a \in Seq(S), NEW c \in Seq(S), NEW s \in Seq(S), a \o c = s
  PROVE  Passed(a, << >>, c, << >>, s)
<1>1. << >> \o c = c /\ << >> \o s = s
  BY ConcatEmptySeq
<1> QED BY <1>1, Zenon DEF Passed

LEMMA PassedInPart ==
  ASSUME NEW S, NEW a \in Seq(S), NEW b \in Seq(S), NEW c \in Seq(S), NEW s \in Seq(S),
         NEW chunk \in Seq(S), a \o b = chunk, chunk \o c = s
  PROVE  Passed(a, b, c, << >>, s)
<1>1. Associates(a, b, c)
  BY ConcatAssociates
<1>2. << >> \o s = s
  BY ConcatEmptySeq
<1> QED BY <1>1, <1>2, Zenon DEF Associates, Passed

LEMMA Held ==
  ASSUME Inv
  PROVE  /\ got \in Seq(Bytes) /\ rx \in Seq(Bytes) /\ fifo \in Seq(Bytes) /\ since \in Seq(Bytes)
         /\ wire \in Seq(Bytes) /\ need \in Nat /\ (Reading => need > 0)
         /\ Len(rx) \in Nat /\ Len(fifo) \in Nat
BY LenProperties DEF Inv, Typed, TypeOK

\* A turn of read_exact, whichever transport gave the bytes.
Turn ==
  /\ Reading
  /\ \E bytes, keeps, left \in Seq(Bytes) :
       /\ 0 < Len(bytes) /\ Len(bytes) <= need
       /\ Passed(bytes, keeps, left, rx, fifo)
       /\ backend.kind = "serial" => keeps = << >>
       /\ Fill(bytes, keeps, left)

Reads == ReadBuffered \/ SerialRead \/ JniRead \/ UsbRead

LEMMA ReadBufferedTurn == Inv /\ ReadBuffered => Turn
<1> SUFFICES ASSUME Inv, ReadBuffered PROVE Turn
  OBVIOUS
<1> DEFINE n == AtMost(need, Len(rx))
           bytes == Take(rx, n)
           keeps == Rest(rx, n)
<1>1. Reading /\ rx # << >> /\ Fill(bytes, keeps, fifo)
  BY DEF ReadBuffered
<1>2. n \in 0..Len(rx) /\ n <= need /\ n > 0
  <2>1. Len(rx) > 0
    BY <1>1, Held, EmptySeq
  <2> QED BY <1>1, <2>1, Held DEF AtMost
<1>3. /\ bytes \in Seq(Bytes) /\ Len(bytes) = n /\ keeps \in Seq(Bytes)
      /\ bytes \o keeps = rx
  BY <1>2, Held, Split
<1> HIDE DEF bytes, keeps, n
<1>4. Passed(bytes, keeps, fifo, rx, fifo)
  BY <1>3, Held, PassedOn
<1>5. backend.kind # "serial"
  BY <1>1 DEF Inv, RxHeld
<1> QED BY <1>1, <1>2, <1>3, <1>4, <1>5, Held DEF Turn

LEMMA SerialReadTurn == Inv /\ SerialRead => Turn
<1> SUFFICES ASSUME Inv, SerialRead PROVE Turn
  OBVIOUS
<1>1. PICK n \in 1..AtMost(need, Len(fifo)) : Fill(Take(fifo, n), rx, Rest(fifo, n))
  BY DEF SerialRead
<1>2. Reading /\ rx = << >> /\ << >> \in Seq(Bytes)
  BY Nothing DEF SerialRead, Inv, RxHeld
<1>3. n \in 0..Len(fifo) /\ n <= need /\ n > 0
  BY Held DEF AtMost
<1> DEFINE bytes == Take(fifo, n)
           left == Rest(fifo, n)
<1>4. /\ bytes \in Seq(Bytes) /\ Len(bytes) = n /\ left \in Seq(Bytes)
      /\ bytes \o left = fifo
  BY <1>3, Held, Split
<1>5. Fill(bytes, rx, left)
  BY <1>1
<1> HIDE DEF bytes, left
<1>6. Passed(bytes, rx, left, rx, fifo)
  BY <1>2, <1>4, Held, PassedStraight
<1> QED BY <1>2, <1>3, <1>4, <1>5, <1>6, Held DEF Turn

\* A transport that reads a chunk of the driver's buffer and keeps what
\* read_exact does not need of it.
LEMMA ChunkTurn ==
  ASSUME Inv, Reading, rx = << >>, backend.kind # "serial",
         NEW n \in 1..Len(fifo), NEW chunk, chunk = Take(fifo, n),
         NEW bytes, bytes = Take(chunk, AtMost(Len(chunk), need)),
         Fill(bytes, Rest(chunk, need), Rest(fifo, n))
  PROVE  Turn
<1> DEFINE keeps == Rest(chunk, need)
           left == Rest(fifo, n)
<1>1. n \in 0..Len(fifo) /\ need > 0
  BY Held
<1>2. chunk \in Seq(Bytes) /\ Len(chunk) = n /\ left \in Seq(Bytes) /\ chunk \o left = fifo
  BY <1>1, Held, Split
<1>3. /\ bytes \in Seq(Bytes) /\ Len(bytes) = AtMost(n, need) /\ keeps \in Seq(Bytes)
      /\ bytes \o keeps = chunk
  BY <1>2, Held, SplitAtMost
<1>4. 0 < Len(bytes) /\ Len(bytes) <= need
  BY <1>1, <1>3, Held DEF AtMost
<1>5. Fill(bytes, keeps, left)
  OBVIOUS
<1> HIDE DEF keeps, left
<1>6. Passed(bytes, keeps, left, rx, fifo)
  BY <1>2, <1>3, Held, PassedInPart
<1> QED BY <1>2, <1>3, <1>4, <1>5, <1>6 DEF Turn

LEMMA JniReadTurn == Inv /\ JniRead => Turn
<1> SUFFICES ASSUME Inv, JniRead PROVE Turn
  OBVIOUS
<1>1. PICK n \in 1..AtMost(IF need > Scratch THEN need ELSE Scratch, Len(fifo)) :
        Fill(Take(fifo, AtMost(n, need)), Rest(Take(fifo, n), need), Rest(fifo, n))
  BY DEF JniRead
<1>2. Reading /\ rx = << >> /\ backend.kind # "serial" /\ need > 0 /\ need \in Nat
  BY Held DEF JniRead
<1>3. n \in 1..Len(fifo)
  BY <1>2, Held, WireAssumption DEF AtMost
<1> DEFINE chunk == Take(fifo, n)
<1>4. Len(chunk) = n
  <2>1. n \in 0..Len(fifo)
    BY <1>3, Held
  <2> QED BY <2>1, Held, Split
<1>5. Take(chunk, AtMost(Len(chunk), need)) = Take(fifo, AtMost(n, need))
  <2>1. AtMost(n, need) \in 1..n
    BY <1>2, <1>3, Held DEF AtMost
  <2> QED BY <1>3, <1>4, <2>1, Held, TakeOfTake
<1> QED BY <1>1, <1>2, <1>3, <1>5, ChunkTurn

LEMMA UsbReadTurn == Inv /\ UsbRead => Turn
<1> SUFFICES ASSUME Inv, UsbRead PROVE Turn
  OBVIOUS
<1>1. PICK n \in 1..AtMost(MaxTransfer, Len(fifo)) :
        LET data == Absorb(Transfer(Take(fifo, n))) IN
        Fill(Take(data, AtMost(Len(data), need)), Rest(data, need), Rest(fifo, n))
  BY DEF UsbRead
<1>2. Reading /\ rx = << >> /\ backend.kind # "serial"
  BY DEF UsbRead
<1>3. n \in 1..Len(fifo)
  BY Held, WireAssumption DEF AtMost
<1>4. Absorb(Transfer(Take(fifo, n))) = Take(fifo, n)
  <2>1. n \in 0..Len(fifo) /\ n > 0
    BY <1>3, Held
  <2>2. Take(fifo, n) \in Seq(Bytes) /\ Len(Take(fifo, n)) > 0
    BY <2>1, Held, Split
  <2> QED BY <2>2, AbsorbTransfer
<1> QED BY <1>1, <1>2, <1>3, <1>4, ChunkTurn

LEMMA ReadsTurn == Inv /\ Reads => Turn
BY ReadBufferedTurn, SerialReadTurn, JniReadTurn, UsbReadTurn DEF Reads

Commands == [n : 1..MaxExchanges, op : Ops]

LEMMA ReplyInv == Inv /\ Reply => Inv'
<1> SUFFICES ASSUME Inv, Reply PROVE Inv'
  OBVIOUS
<1>1. heard \in Seq(Commands) /\ heard # << >> /\ heard' = Tail(heard)
  BY DEF Reply, Inv, Typed, TypeOK, Commands
<1>2. Head(heard) \in Commands /\ heard' \in Seq(Commands)
  BY <1>1, HeadTailProperties
<1>3. PICK reply \in Replies(Head(heard).op) :
        /\ replies' = [replies EXCEPT ![Head(heard).n] = reply]
        /\ wire' = wire \o Frame(Head(heard).n, reply)
  BY DEF Reply
<1>4. Head(heard).n \in 1..MaxExchanges /\ reply \in Answers
  BY <1>2, <1>3 DEF Commands, Answers
<1>5. Frame(Head(heard).n, reply) \in Seq(Bytes)
  BY <1>4, FrameTyped
<1>6. wire' \in Seq(Bytes)
  BY <1>3, <1>5, Held, ConcatProperties
<1>7. replies' \in [1..MaxExchanges -> Answers]
  BY <1>3, <1>4 DEF Inv, Typed
<1>8. UNCHANGED <<hostVars, fifo, since, nfaults>>
  BY DEF Reply
<1>9. TypeOK'
  BY <1>2, <1>6, <1>8 DEF Inv, Typed, TypeOK, hostVars, Reading, Commands
<1> QED BY <1>6, <1>7, <1>8, <1>9 DEF Inv, Typed, RxHeld, StreamKept, hostVars, Reading

LEMMA StaySilentInv == Inv /\ StaySilent => Inv'
<1> SUFFICES ASSUME Inv, StaySilent PROVE Inv'
  OBVIOUS
<1>1. heard \in Seq(Commands) /\ heard # << >> /\ heard' = Tail(heard)
  BY DEF StaySilent, Inv, Typed, TypeOK, Commands
<1>2. heard' \in Seq(Commands)
  BY <1>1, HeadTailProperties
<1>3. nfaults' \in 0..MaxFaults
  BY WireAssumption DEF StaySilent, Fault, Inv, Typed, TypeOK
<1>4. TypeOK'
  BY <1>2, <1>3 DEF StaySilent, Inv, Typed, TypeOK, hostVars, Reading, Commands
<1> QED BY <1>4 DEF StaySilent, Inv, Typed, RxHeld, StreamKept, hostVars, Reading

LEMMA ArriveInv == Inv /\ Arrive => Inv'
<1> SUFFICES ASSUME Inv, Arrive PROVE Inv'
  OBVIOUS
<1> DEFINE b == Head(wire)
<1>1. b \in Bytes /\ wire' \in Seq(Bytes)
  BY Held, HeadTailProperties DEF Arrive
<1>2. fifo' = Append(fifo, b) /\ fifo' \in Seq(Bytes)
  BY <1>1, Held, AppendProperties DEF Arrive
<1>3. since' \in Seq(Bytes) /\ (Reading => since' = Append(since, b))
  BY <1>1, Held, AppendProperties DEF Arrive, Reading
<1>4. UNCHANGED <<hostVars, heard, replies, nfaults>>
  BY DEF Arrive
<1>5. TypeOK'
  BY <1>1, <1>2, <1>3, <1>4 DEF Inv, Typed, TypeOK, hostVars, Reading
<1>6. StreamKept'
  <2> SUFFICES ASSUME Reading PROVE (got \o rx) \o fifo' = since'
    BY <1>4 DEF StreamKept, Reading, hostVars
  <2>1. PICK early \in Seq(Bytes) : early = got \o rx
    BY Held, ConcatProperties
  <2>2. AppendsLast(early, fifo, b)
    BY <1>1, Held, AppendToConcat
  <2>3. early \o fifo = since
    BY <2>1 DEF Inv, StreamKept
  <2> QED BY <1>2, <1>3, <2>1, <2>2, <2>3, Zenon DEF AppendsLast
<1> QED BY <1>1, <1>2, <1>3, <1>4, <1>5, <1>6 DEF Inv, Typed, RxHeld, hostVars

LEMMA LoseInv == Inv /\ Lose => Inv'
<1> SUFFICES ASSUME Inv, Lose PROVE Inv'
  OBVIOUS
<1>1. wire' \in Seq(Bytes)
  BY Held, HeadTailProperties DEF Lose
<1>2. nfaults' \in 0..MaxFaults
  BY WireAssumption DEF Lose, Fault, Inv, Typed, TypeOK
<1>3. TypeOK'
  BY <1>1, <1>2 DEF Lose, Inv, Typed, TypeOK, Reading
<1> QED BY <1>1, <1>3 DEF Lose, Inv, Typed, RxHeld, StreamKept, Reading

\* An exchange that fails.
LEMMA FinishInv ==
  ASSUME Inv, NEW r, Finish(r), UNCHANGED <<backend, wire, replies>>,
         rx' \in {rx, << >>}, fifo' \in Seq(Bytes),
         cur' \in [n : 0..MaxExchanges, op : Ops \cup {"command"}],
         heard' \in Seq(Commands), clean' \in BOOLEAN, nfaults' \in 0..MaxFaults
  PROVE  Inv'
<1>1. rx' \in Seq(Bytes) /\ (backend.kind = "serial" => rx' = << >>)
  BY Held, Nothing DEF Inv, RxHeld
<1>2. TypeOK'
  BY <1>1, Held, Nothing DEF Finish, Inv, Typed, TypeOK, Reading, Commands
<1> QED BY <1>1, <1>2, Held, Nothing DEF Finish, Inv, Typed, RxHeld, StreamKept, Reading

LEMMA DeadlinePassesInv == Inv /\ DeadlinePasses => Inv'
<1> SUFFICES ASSUME Inv, DeadlinePasses PROVE Inv'
  OBVIOUS
<1>1. fifo' \in Seq(Bytes)
  <2>1. CASE UNCHANGED fifo
    BY <2>1, Held
  <2>2. ASSUME NEW n \in 0..AtMost(MaxTransfer, Len(fifo)), fifo' = Rest(fifo, n)
        PROVE  fifo' \in Seq(Bytes)
    <3>1. n \in 0..Len(fifo)
      BY Held, WireAssumption DEF AtMost
    <3> QED BY <2>2, <3>1, Held, Split
  <2> QED BY <2>1, <2>2 DEF DeadlinePasses
<1>2. Finish(Err("Timeout")) /\ UNCHANGED <<backend, cur, rx, clean, wire, heard, replies, nfaults>>
  BY DEF DeadlinePasses
<1>3. /\ cur' \in [n : 0..MaxExchanges, op : Ops \cup {"command"}]
      /\ heard' \in Seq(Commands) /\ clean' \in BOOLEAN /\ nfaults' \in 0..MaxFaults
  BY <1>2 DEF Inv, Typed, TypeOK, Commands
<1> QED BY <1>1, <1>2, <1>3, FinishInv

LEMMA PortFailsInv == Inv /\ PortFails => Inv'
<1> SUFFICES ASSUME Inv, PortFails PROVE Inv'
  OBVIOUS
<1>1. Finish(Err("Port")) /\ UNCHANGED <<backend, cur, rx, clean, fifo, wire, heard, replies>>
  BY DEF PortFails
<1>2. /\ cur' \in [n : 0..MaxExchanges, op : Ops \cup {"command"}]
      /\ heard' \in Seq(Commands) /\ clean' \in BOOLEAN
  BY <1>1 DEF Inv, Typed, TypeOK, Commands
<1>3. nfaults' \in 0..MaxFaults
  BY WireAssumption DEF PortFails, Fault, Inv, Typed, TypeOK
<1> QED BY <1>1, <1>2, <1>3, Held, FinishInv

\* After a purge no transport holds anything back.
LEMMA PurgeEmpties ==
  ASSUME Inv, Purge
  PROVE  rx' = << >> /\ fifo' \in {fifo, << >>}
BY DEF Inv, RxHeld, Purge, SerialPurge, UsbPurge, JniPurge

LEMMA SendInv ==
  ASSUME Inv, NEW command \in Commands, Send(command), cur' = command,
         UNCHANGED <<backend, wire, replies>>
  PROVE  Inv'
<1>1. rx' = << >> /\ fifo' \in Seq(Bytes)
  BY PurgeEmpties, Held, Nothing DEF Send
<1>2. heard' \in Seq(Commands)
  BY AppendProperties DEF Send, Inv, Typed, TypeOK, Commands
<1>3. pc' = "header" /\ need' = 2 /\ got' = << >> /\ since' = fifo' /\ UNCHANGED <<result, nfaults>>
  BY DEF Send
<1>4. cur' \in [n : 0..MaxExchanges, op : Ops \cup {"command"}]
  BY WireAssumption DEF Commands
<1>5. clean' \in BOOLEAN
  BY DEF Send
<1>6. TypeOK'
  BY <1>1, <1>2, <1>3, <1>4, <1>5, Held, Nothing DEF Inv, Typed, TypeOK, Reading, Commands
<1>7. StreamKept'
  <2>1. << >> \o << >> = << >> /\ << >> \o fifo' = fifo'
    BY <1>1, Nothing, ConcatEmptySeq
  <2> QED BY <1>1, <1>3, <2>1 DEF StreamKept
<1> QED BY <1>1, <1>3, <1>6, <1>7, Held, Nothing DEF Inv, Typed, RxHeld

LEMMA SendFailsInv ==
  ASSUME Inv, NEW command \in Commands, SendFails(command), cur' = command,
         UNCHANGED <<backend, wire, replies>>
  PROVE  Inv'
<1>1. heard' \in Seq(Commands)
  <2>1. heard \in Seq(Commands)
    BY DEF Inv, Typed, TypeOK, Commands
  <2> QED BY <2>1, AppendProperties DEF SendFails
<1>2. cur' \in [n : 0..MaxExchanges, op : Ops \cup {"command"}]
  BY WireAssumption DEF Commands
<1>3. nfaults' \in 0..MaxFaults
  BY WireAssumption DEF SendFails, Fault, Inv, Typed, TypeOK
<1>4. /\ Finish(Err("Port")) /\ rx' \in {rx, << >>} /\ fifo' \in {fifo, << >>}
      /\ clean' \in BOOLEAN
  BY DEF SendFails
<1>5. fifo' \in Seq(Bytes)
  BY <1>4, Held, Nothing
<1> QED BY <1>1, <1>2, <1>3, <1>4, <1>5, FinishInv

LEMMA TransactInv == Inv /\ Transact => Inv'
<1> SUFFICES ASSUME Inv, Transact PROVE Inv'
  OBVIOUS
<1>1. PICK op \in Ops \ {"challenge"} : cur' = [n |-> cur.n + 1, op |-> op]
  BY DEF Transact
<1>2. cur.n + 1 \in 1..MaxExchanges
  BY WireAssumption DEF Transact, Inv, Typed, TypeOK
<1>3. cur' \in Commands
  BY <1>1, <1>2 DEF Commands
<1>4. (Send(cur') \/ SendFails(cur')) /\ UNCHANGED <<backend, wire, replies>>
  BY DEF Transact
<1> QED BY <1>3, <1>4, SendInv, SendFailsInv

LEMMA IdentifyInv == Inv /\ Identify => Inv'
<1> SUFFICES ASSUME Inv, Identify PROVE Inv'
  OBVIOUS
<1>1. cur \in Commands /\ cur' = cur
  BY WireAssumption DEF Identify, Inv, Typed, TypeOK, Commands
<1>2. (Send(cur) \/ SendFails(cur)) /\ UNCHANGED <<backend, wire, replies>>
  BY DEF Identify
<1> QED BY <1>1, <1>2, SendInv, SendFailsInv

LEMMA EstablishInv == Inv /\ Establish => Inv'
<1> SUFFICES ASSUME Inv, Establish PROVE Inv'
  OBVIOUS
<1>1. rx' = << >> /\ fifo' \in Seq(Bytes)
  BY PurgeEmpties, Held, Nothing DEF Establish
<1>2. /\ cur' \in [n : 0..MaxExchanges, op : Ops \cup {"command"}]
      /\ cur'.n > 0 /\ cur'.op \in Ops
  BY WireAssumption DEF Establish, Inv, Typed, TypeOK
<1>3. /\ pc = "idle" /\ pc' = "settle" /\ clean' = FALSE /\ since' = fifo'
      /\ UNCHANGED <<backend, need, got, wire, heard, replies, result, nfaults>>
  BY DEF Establish
<1>4. TypeOK'
  BY <1>1, <1>2, <1>3, Held, Nothing DEF Inv, Typed, TypeOK, Reading
<1> QED BY <1>1, <1>2, <1>3, <1>4, Held, Nothing DEF Inv, Typed, RxHeld, StreamKept, Reading

LEMMA StepInv == Inv /\ [Next]_vars => Inv'
<1> SUFFICES ASSUME Inv, [Next]_vars PROVE Inv'
  OBVIOUS
<1>1. CASE UNCHANGED vars
  BY <1>1 DEF vars, hostVars, Inv, Typed, TypeOK, RxHeld, StreamKept, Reading
<1>2. CASE Reply \/ StaySilent \/ Arrive \/ Lose
  BY <1>2, ReplyInv, StaySilentInv, ArriveInv, LoseInv
<1>3. CASE Reads
  BY <1>3, ReadsTurn, FillInv DEF Turn
<1>4. CASE DeadlinePasses \/ PortFails
  BY <1>4, DeadlinePassesInv, PortFailsInv
<1>5. CASE Transact \/ Establish \/ Identify
  BY <1>5, TransactInv, EstablishInv, IdentifyInv
<1> QED BY <1>1, <1>2, <1>3, <1>4, <1>5 DEF Next, Reads

\* Every variable keeps its type, for any transports, sizes and lengths: in
\* particular what read_exact still waits for stays positive while it reads,
\* which a length that is no length of a frame could break (wire.rs:21-29).
THEOREM TypeCorrect == Spec => []TypeOK
<1>1. Inv => TypeOK
  BY DEF Inv, Typed
<1> QED BY <1>1, InitInv, StepInv, PTL DEF Spec

\* Between the driver's buffer and the decoder no byte is lost, repeated or
\* moved, whatever the sizes of packets, transfers, reads and leftovers
\* (jni.rs:129-172, usb.rs:159-171, wire.rs:36-49).
THEOREM NoByteLost == Spec => []StreamKept
<1>1. Inv => StreamKept
  BY DEF Inv
<1> QED BY <1>1, InitInv, StepInv, PTL DEF Spec

-----------------------------------------------------------------------------
(* What the callers are given.                                             *)

Pure(bytes) == \A i \in DOMAIN bytes : bytes[i] \notin {"stack", "pad"}
Meant(r) == Pure(r.data) /\ Pure(r.rx)

LEMMA ErrMeant == \A st : Meant(Err(st))
BY DEF Meant, Pure, Err

LEMMA OkMeant == \A data : Pure(data) => Meant(Ok(data))
<1>1. Pure(<< >>)
  BY DEF Pure
<1> QED BY <1>1 DEF Meant, Ok, Read

LEMMA ParsedBy ==
  ASSUME NEW reply
  PROVE  /\ Parsed("command", reply) \in {Err("Malformed"), StatusOf(reply, "WriteMsg")}
         /\ Parsed("poll", reply) \in {Err("Malformed"), Poll(reply)}
         /\ \/ Parsed("challenge", reply) = Err("Malformed")
            \/ DecodesAs("challenge", reply) /\ Parsed("challenge", reply) = Challenge(reply)
<1>1. Command["command"] = "WriteMsg"
  BY DEF Command
<1>2. Parsed("command", reply) \in {Err("Malformed"), StatusOf(reply, "WriteMsg")}
  BY <1>1, Zenon DEF Parsed
<1>3. Parsed("poll", reply) \in {Err("Malformed"), Poll(reply)}
  BY Zenon DEF Parsed
<1>4. \/ Parsed("challenge", reply) = Err("Malformed")
      \/ DecodesAs("challenge", reply) /\ Parsed("challenge", reply) = Challenge(reply)
  BY Zenon DEF Parsed
<1> QED BY <1>2, <1>3, <1>4

\* A reply that echoes a command is one to it.
LEMMA EchoTells ==
  ASSUME NEW reply \in Answers
  PROVE  /\ reply.cmd = "ReadMsg" => reply \in Replies("poll")
         /\ reply.cmd = "Open" => reply \in Replies("challenge")
<1>1. CASE reply = Unanswered
  BY <1>1 DEF Unanswered
<1>2. ASSUME NEW op \in Ops, reply \in Replies(op)
      PROVE  /\ reply.cmd = "ReadMsg" => op = "poll"
             /\ reply.cmd = "Open" => op = "challenge"
  <2>1. op \in DOMAIN Command
    BY WireAssumption
  <2>2. reply.cmd = Command[op]
    BY <1>2, <2>1, ReplyShape DEF Shape, Inner
  <2> QED BY <2>1, <2>2 DEF Command
<1> QED BY <1>1, <1>2 DEF Answers

LEMMA StatusMeant == \A reply, cmd : Meant(StatusOf(reply, cmd))
<1> SUFFICES ASSUME NEW reply, NEW cmd PROVE Meant(StatusOf(reply, cmd))
  OBVIOUS
<1>1. Meant(Ok(<<"NoError">>))
  BY OkMeant DEF Pure
<1>2. StatusOf(reply, cmd) \in {Err("Malformed"), Ok(<<"NoError">>), Err("Rejected")}
  BY Zenon DEF StatusOf
<1> QED BY <1>1, <1>2, ErrMeant

LEMMA MessageBody ==
  ASSUME NEW n \in Nat
  PROVE  LET b == Run("rxstatus", 8) \o Run("msg", n) IN
         /\ b \in Seq(Byte) /\ Len(b) = 8 + n
         /\ \A i \in 1..8 : b[i] = "rxstatus"
         /\ \A i \in 9..8 + n : b[i] = "msg"
<1>1. /\ Run("rxstatus", 8) \in Seq(Byte) /\ Len(Run("rxstatus", 8)) = 8
      /\ Run("msg", n) \in Seq(Byte) /\ Len(Run("msg", n)) = n
  BY RunIsSeq DEF Byte
<1>2. /\ \A i \in 1..n : Run("msg", n)[i] = "msg"
      /\ \A i \in 1..8 : Run("rxstatus", 8)[i] = "rxstatus"
  BY DEF Run
<1> DEFINE r == Run("rxstatus", 8)
           m == Run("msg", n)
<1> HIDE DEF r, m
<1>3. r \in Seq(Byte) /\ Len(r) = 8 /\ m \in Seq(Byte) /\ Len(m) = n
  BY <1>1 DEF r, m
<1>4. /\ r \o m \in Seq(Byte) /\ Len(r \o m) = Len(r) + Len(m)
      /\ \A i \in 1..Len(r) + Len(m) : (r \o m)[i] = IF i <= Len(r) THEN r[i] ELSE m[i - Len(r)]
  BY <1>3, ConcatProperties
<1>5. \A i \in 9..8 + n : (r \o m)[i] = m[i - 8]
  BY <1>3, <1>4
<1>6. \A i \in 1..n : m[i] = "msg"
  BY <1>2 DEF m
<1>7. ASSUME NEW i \in 9..8 + n
      PROVE  (r \o m)[i] = "msg"
  <2>1. i - 8 \in 1..n
    OBVIOUS
  <2> QED BY <1>5, <1>6, <2>1
<1>8. \A i \in 1..8 : r[i] = "rxstatus"
  BY <1>2 DEF r
<1>9. \A i \in 1..8 : (r \o m)[i] = r[i]
  BY <1>3, <1>4
<1> QED BY <1>3, <1>4, <1>7, <1>8, <1>9 DEF r, m

LEMMA PollMeant ==
  ASSUME NEW reply \in Answers
  PROVE  Meant(Poll(reply))
<1> DEFINE mlen == IF reply.ilen > 9 THEN reply.ilen - 9 ELSE 0
           data == SubSeq(reply.body, 9, 8 + mlen)
           status == SubSeq(reply.body, 1, IF Len(reply.body) >= 4 THEN 4 ELSE 1)
<1>0. Meant(Ok(<< >>))
  BY OkMeant DEF Pure
<1>1. CASE ReadReply(reply) = Err("Malformed")
  BY <1>1, ErrMeant DEF Poll, Err
<1>2. CASE data = << >> /\ ReadReply(reply) = Read(status, data)
  BY <1>0, <1>2 DEF Poll, Read
<1>3. CASE /\ data # << >> /\ ReadReply(reply) = Read(status, data) /\ reply.cmd = "ReadMsg"
           /\ ~(mlen > 0 /\ 8 + mlen > Len(reply.body))
  <2>1. PICK n \in MsgLens \cup {0} :
          \/ reply = StatusReply("ReadMsg", "Refused")
          \/ reply = Inner("ReadMsg", 9 + n, Run("rxstatus", 8) \o Run("msg", n))
    <3>1. reply \in {StatusReply("ReadMsg", "Refused")} \cup
            {Inner("ReadMsg", 9 + n, Run("rxstatus", 8) \o Run("msg", n)) : n \in MsgLens \cup {0}}
      BY <1>3, EchoTells, RepliesTo
    <3>2. 0 \in MsgLens \cup {0}
      OBVIOUS
    <3> QED BY <3>1, <3>2, Zenon
  <2>2. n \in Nat
    BY CodecAssumption
  <2>3. mlen # 0
    <3>1. mlen = 0 => data = << >>
      BY SubSeqEmpty
    <3> QED BY <1>3, <3>1
  <2> DEFINE b == Run("rxstatus", 8) \o Run("msg", n)
  <2>4. reply = Inner("ReadMsg", 9 + n, b) /\ mlen = n /\ n > 0
    BY <2>1, <2>2, <2>3 DEF StatusReply, Inner
  <2>5. /\ b \in Seq(Byte) /\ Len(b) = 8 + n
        /\ \A i \in 1..8 : b[i] = "rxstatus"
        /\ \A i \in 9..8 + n : b[i] = "msg"
    BY <2>2, MessageBody
  <2> HIDE DEF b
  <2>6. /\ \A i \in 1..8 + n : reply.body[i] = b[i]
        /\ reply.body \in Seq(Byte) /\ Len(reply.body) >= 8 + n
    <3>1. reply.body = Padded(b)
      BY <2>4 DEF Inner
    <3>2. /\ Padded(b) \in Seq(Byte)
          /\ Len(Padded(b)) = Len(b) + 7 - ((Len(b) + 2) % 8)
          /\ \A i \in 1..Len(b) : Padded(b)[i] = b[i]
      BY <2>5, PaddedBody
    <3>3. Len(Padded(b)) >= 8 + n
      <4>1. (Len(b) + 2) % 8 \in 0..7
        BY <2>2, <2>5
      <4> QED BY <2>2, <2>5, <3>2, <4>1
    <3> QED BY <2>5, <3>1, <3>2, <3>3
  <2>7. /\ data \in Seq(Byte) /\ Len(data) = n
        /\ \A i \in 1..n : data[i] = reply.body[9 + i - 1]
    <3>1. \A i \in 9..8 + n : reply.body[i] \in Byte
      BY <2>2, <2>5, <2>6 DEF Byte
    <3>2. data = SubSeq(reply.body, 9, 8 + n)
      BY <2>4
    <3> HIDE DEF data
    <3> QED BY <2>2, <2>4, <3>1, <3>2, SubSeqProperties
  <2>8. /\ status \in Seq(Byte) /\ Len(status) = 4
        /\ \A i \in 1..4 : status[i] = reply.body[1 + i - 1]
    <3>1. \A i \in 1..4 : reply.body[i] \in Byte
      BY <2>2, <2>5, <2>6 DEF Byte
    <3>2. status = SubSeq(reply.body, 1, 4)
      <4>1. Len(reply.body) \in Nat
        BY <2>6, LenProperties
      <4>2. Len(reply.body) >= 4
        BY <2>2, <2>6, <4>1
      <4> QED BY <4>2, Zenon
    <3> HIDE DEF status
    <3> QED BY <3>1, <3>2, SubSeqProperties
  <2> HIDE DEF data, status
  <2>9. Pure(data)
    <3>1. \A i \in 1..n : data[i] = "msg"
      <4>1. \A i \in 9..8 + n : reply.body[i] = "msg"
        BY <2>2, <2>5, <2>6
      <4> QED BY <2>2, <2>7, <4>1
    <3>2. DOMAIN data = 1..n
      BY <2>7, LenProperties
    <3> QED BY <3>1, <3>2 DEF Pure
  <2>10. Pure(status)
    <3>1. \A i \in 1..4 : status[i] = "rxstatus"
      BY <2>2, <2>5, <2>6, <2>8
    <3>2. DOMAIN status = 1..4
      BY <2>8, LenProperties
    <3> QED BY <3>1, <3>2 DEF Pure
  <2>11. Meant(Read(status, data))
    BY <2>9, <2>10 DEF Meant, Read
  <2>12. Poll(reply) = Read(status, data)
    BY <1>3 DEF Poll, Read
  <2> QED BY <2>11, <2>12
<1> QED BY <1>1, <1>2, <1>3, Zenon DEF ReadReply

LEMMA ChallengeMeant ==
  ASSUME NEW reply \in Answers, DecodesAs("challenge", reply)
  PROVE  Meant(Challenge(reply))
<1>1. reply.cmd = "Open"
  BY DEF DecodesAs
<1>2. reply = Inner("Open", 9, Run("key", 8))
  BY <1>1, EchoTells, RepliesTo
<1>3. /\ Run("key", 8) \in Seq(Byte) /\ Len(Run("key", 8)) = 8
      /\ \A i \in 1..8 : Run("key", 8)[i] = "key"
  <2>1. Run("key", 8) \in Seq(Byte) /\ Len(Run("key", 8)) = 8
    BY RunIsSeq DEF Byte
  <2> QED BY <2>1 DEF Run
<1>4. \A i \in 1..8 : reply.body[i] = "key"
  BY <1>2, <1>3, PaddedBody DEF Inner
<1> DEFINE data == SubSeq(reply.body, 1, 8)
<1>5. /\ data \in Seq(Byte) /\ Len(data) = 8
      /\ \A i \in 1..8 : data[i] = reply.body[1 + i - 1]
  <2>1. \A i \in 1..8 : reply.body[i] \in Byte
    BY <1>4 DEF Byte
  <2> QED BY <2>1, SubSeqProperties
<1> HIDE DEF data
<1>6. DOMAIN data = 1..8
  BY <1>5, LenProperties
<1>7. Meant(Ok(data))
  BY <1>4, <1>5, <1>6, OkMeant DEF Pure
<1>8. Challenge(reply) \in {Err("Malformed"), Ok(data)}
  BY Zenon DEF Challenge, data
<1> QED BY <1>7, <1>8, ErrMeant

ResultMeant == pc = "idle" /\ cur.op \in {"command", "poll", "challenge"} => Meant(result)

LEMMA ParsedMeant ==
  ASSUME NEW op \in {"command", "poll", "challenge"}, NEW reply \in Answers
  PROVE  Meant(Parsed(op, reply))
<1>1. CASE op = "command"
  BY <1>1, ParsedBy, ErrMeant, StatusMeant
<1>2. CASE op = "poll"
  BY <1>2, ParsedBy, ErrMeant, PollMeant
<1>3. CASE op = "challenge"
  BY <1>3, ParsedBy, ErrMeant, ChallengeMeant
<1> QED BY <1>1, <1>2, <1>3

LEMMA TurnMeant == Inv /\ ResultMeant /\ Turn => ResultMeant'
<1> SUFFICES ASSUME Inv, ResultMeant, Turn PROVE ResultMeant'
  OBVIOUS
<1>1. PICK bytes \in Seq(Bytes), keeps \in Seq(Bytes), left \in Seq(Bytes) :
        0 < Len(bytes) /\ Fill(bytes, keeps, left)
  BY DEF Turn
<1>2. Reading /\ UNCHANGED <<cur, replies>>
  BY <1>1 DEF Turn, Fill
<1> DEFINE all == got \o bytes
<1>3. all \in Seq(Bytes) /\ 1 \in 1..Len(all)
  BY <1>1, Held, ConcatProperties, LenProperties
<1>4. replies[all[1][1]] \in Answers
  <2>1. all[1] \in Bytes
    BY <1>3, ElementOfSeq
  <2> QED BY <2>1 DEF Bytes, Inv, Typed
<1> HIDE DEF all
<1>5. CASE \E n, where : More(n, all, where) /\ where \in {"header", "body"}
  BY <1>5 DEF More, ResultMeant
<1>6. CASE HeaderRead(all)
  BY <1>6, ErrMeant DEF HeaderRead, More, Finish, ResultMeant
<1>7. CASE FrameRead(all)
  BY <1>2, <1>4, <1>7, ParsedMeant, ErrMeant DEF FrameRead, Finish, ResultMeant
<1> QED BY <1>1, <1>2, <1>5, <1>6, <1>7 DEF Fill, Reading, all

LEMMA StepMeant == Inv /\ ResultMeant /\ [Next]_vars => ResultMeant'
<1> SUFFICES ASSUME Inv, ResultMeant, [Next]_vars PROVE ResultMeant'
  OBVIOUS
<1>1. CASE UNCHANGED vars
  BY <1>1 DEF vars, hostVars, ResultMeant
<1>2. CASE Reply \/ StaySilent \/ Arrive \/ Lose
  BY <1>2 DEF Reply, StaySilent, Arrive, Lose, hostVars, ResultMeant
<1>3. CASE Reads
  BY <1>3, ReadsTurn, TurnMeant
<1>4. CASE DeadlinePasses \/ PortFails
  BY <1>4, ErrMeant DEF DeadlinePasses, PortFails, Finish, ResultMeant
<1>5. CASE Transact \/ Establish \/ Identify
  BY <1>5, ErrMeant DEF Transact, Establish, Identify, Send, SendFails, Finish, ResultMeant
<1> QED BY <1>1, <1>2, <1>3, <1>4, <1>5 DEF Next, Reads

\* Whatever the adapter answered, however late and to whichever command, what the
\* callers of the status, message and challenge operations are given, the RxStatus
\* of a message included, is neither its uninitialised stack nor padding
\* (types.rs:91-93, inner.rs:340-344, actor.rs:270-276).
THEOREM StackStaysHidden == Spec => []StackNeverGiven
<1>1. ResultMeant => StackNeverGiven
  BY DEF ResultMeant, StackNeverGiven, Meant, Pure
<1>2. Init => ResultMeant
  BY ErrMeant DEF Init, ResultMeant
<1> QED BY <1>1, <1>2, InitInv, StepInv, StepMeant, PTL DEF Spec

-----------------------------------------------------------------------------
(* Whose reply is read.                                                    *)

Mine == Frame(cur.n, replies[cur.n])

\* Nothing has come: the adapter has the command yet, or will not answer it.
NothingYet == pc = "header" /\ heard \in {<<cur>>, << >>} /\ since = << >> /\ wire = << >>

\* The reply has been sent, and all there is under way is its frame.
OnItsWay ==
  /\ heard = << >> /\ replies[cur.n] \in Replies(cur.op) /\ since \o wire = Mine
  /\ pc = "body" => need + Len(got) = FrameLen(replies[cur.n])

Coherent ==
  clean =>
    /\ Reading => cur \in Commands /\ (NothingYet \/ OnItsWay)
    /\ pc = "idle" /\ result.st \notin {"Timeout", "Port"} =>
         heard = << >> /\ result = Parsed(cur.op, replies[cur.n])

Begins(a, s) == Len(a) <= Len(s) /\ \A i \in 1..Len(a) : s[i] = a[i]

LEMMA PrefixOf ==
  ASSUME NEW S, NEW a \in Seq(S), NEW b \in Seq(S), NEW c \in Seq(S), NEW s \in Seq(S),
         NEW w \in Seq(S), Stream(a, b, c, s)
  PROVE  Begins(a, s \o w)
<1>1. Len(a) \in Nat /\ Len(b) \in Nat /\ Len(c) \in Nat /\ Len(s) \in Nat /\ Len(w) \in Nat
  BY LenProperties
<1>2. PICK ab \in Seq(S) : ab = a \o b
  BY ConcatProperties
<1>3. Len(ab) = Len(a) + Len(b) /\ \A i \in 1..Len(a) : ab[i] = a[i]
  BY <1>1, <1>2, ConcatProperties
<1>4. ab \o c = s
  BY <1>2, Zenon DEF Stream
<1>5. Len(s) = Len(ab) + Len(c) /\ \A i \in 1..Len(ab) : s[i] = ab[i]
  BY <1>1, <1>4, ConcatProperties, LenProperties
<1>6. Len(s \o w) = Len(s) + Len(w) /\ \A i \in 1..Len(s) : (s \o w)[i] = s[i]
  BY <1>1, ConcatProperties
<1>7. Len(a) <= Len(ab) /\ Len(ab) <= Len(s) /\ Len(s) <= Len(s \o w)
  BY <1>1, <1>3, <1>5, <1>6
<1>8. ASSUME NEW i \in 1..Len(a) PROVE (s \o w)[i] = a[i]
  <2>1. i \in 1..Len(ab) /\ i \in 1..Len(s)
    BY <1>1, <1>3, <1>5, <1>7
  <2> QED BY <1>3, <1>5, <1>6, <2>1
<1>9. Len(a) <= Len(s \o w)
  BY <1>1, <1>3, <1>5, <1>6
<1> QED BY <1>8, <1>9 DEF Begins

LEMMA TurnCoherent == Inv /\ Coherent /\ Turn => Coherent'
<1> SUFFICES ASSUME Inv, Coherent, Turn, clean PROVE Coherent'
  BY DEF Turn, Fill, Coherent
<1>1. PICK bytes \in Seq(Bytes), keeps \in Seq(Bytes), left \in Seq(Bytes) :
        /\ 0 < Len(bytes) /\ Len(bytes) <= need
        /\ Passed(bytes, keeps, left, rx, fifo)
        /\ Fill(bytes, keeps, left)
  BY DEF Turn
<1>2. Reading /\ UNCHANGED <<cur, clean, wire, heard, replies>>
  BY <1>1 DEF Turn, Fill
<1> DEFINE all == got \o bytes
<1>3. all \in Seq(Bytes) /\ Len(all) = Len(got) + Len(bytes) /\ Len(got) \in Nat /\ Len(bytes) \in Nat
  BY Held, ConcatProperties, LenProperties
<1>4. Stream(all, keeps, left, since)
  <2>1. Stream(all, keeps, left, (got \o rx) \o fifo)
    BY <1>1, Held, Regroup
  <2>2. (got \o rx) \o fifo = since
    BY <1>2 DEF Inv, StreamKept
  <2> QED BY <2>1, <2>2, Zenon
<1> HIDE DEF all
<1>5. Len(all) <= Len(since \o wire) /\ \A i \in 1..Len(all) : (since \o wire)[i] = all[i]
  <2>1. Begins(all, since \o wire)
    BY <1>3, <1>4, Held, PrefixOf
  <2> QED BY <2>1 DEF Begins
<1>6. cur \in Commands /\ OnItsWay
  <2>1. cur \in Commands /\ (NothingYet \/ OnItsWay)
    BY <1>2 DEF Coherent
  <2>2. ~NothingYet
    <3> SUFFICES ASSUME since = << >>, wire = << >> PROVE FALSE
      BY DEF NothingYet
    <3>1. Len(since \o wire) = 0
      OBVIOUS
    <3> QED BY <1>1, <1>3, <1>5, <3>1
  <2> QED BY <2>1, <2>2
<1>7. /\ FrameLen(replies[cur.n]) \in Nat /\ FrameLen(replies[cur.n]) \in 3..MaxFrame
      /\ Mine \in Seq(Bytes) /\ Len(Mine) = FrameLen(replies[cur.n])
  <2>1. cur.n \in 1..MaxExchanges /\ cur.op \in Ops /\ cur.op \in DOMAIN Command
    BY <1>6, WireAssumption DEF Commands
  <2>2. replies[cur.n] \in Replies(cur.op)
    BY <1>6 DEF OnItsWay
  <2>3. FrameLen(replies[cur.n]) \in Nat /\ FrameLen(replies[cur.n]) >= 3
    BY <2>1, <2>2, ReplyLength
  <2>4. FrameLen(replies[cur.n]) <= MaxFrame
    BY <2>1, <2>2, FramesFit
  <2>5. replies[cur.n] \in Answers
    BY <2>1, <2>2 DEF Answers
  <2>6. Mine \in Seq(Bytes) /\ Len(Mine) = FrameLen(replies[cur.n])
    BY <2>1, <2>5, FrameTyped DEF Mine
  <2> QED BY <2>3, <2>4, <2>6, WireAssumption
<1>8. /\ Len(all) <= FrameLen(replies[cur.n])
      /\ \A i \in 1..Len(all) : all[i] = Mine[i] /\ all[i] = <<cur.n, i>>
  <2>1. since \o wire = Mine
    BY <1>6 DEF OnItsWay
  <2>2. \A i \in 1..FrameLen(replies[cur.n]) : Mine[i] = <<cur.n, i>>
    BY DEF Mine, Frame
  <2> QED BY <1>3, <1>5, <1>7, <2>1, <2>2
\* The frame goes on.
<1>9. ASSUME NEW n, NEW where, More(n, all, where), where \in {"header", "body"},
             where = "body" => n + Len(all) = FrameLen(replies[cur.n])
      PROVE  Coherent'
  BY <1>2, <1>6, <1>9 DEF More, Coherent, OnItsWay, Mine, Frame, Reading
<1>10. CASE Len(bytes) < need /\ More(need - Len(bytes), all, pc)
  <2>1. pc = "body" => need - Len(bytes) + Len(all) = FrameLen(replies[cur.n])
    BY <1>3, <1>6, <1>7, Held DEF OnItsWay
  <2> QED BY <1>2, <1>9, <1>10, <2>1 DEF Reading
<1>11. CASE Len(bytes) = need /\ pc = "header" /\ HeaderRead(all)
  <2>1. Len(all) = 2
    BY <1>3, <1>11 DEF Inv, Typed
  <2>2. all[1] = <<cur.n, 1>> /\ all[2] = <<cur.n, 2>>
    BY <1>8, <2>1
  <2>3. Announced(all) = {FrameLen(replies[cur.n])}
    BY <2>2 DEF Announced
  <2>4. More(FrameLen(replies[cur.n]) - 2, all, "body")
    <3>1. PICK len \in Announced(all) :
            \/ len < 3 /\ Finish(Err("TooShort"))
            \/ len > MaxFrame /\ Finish(Err("TooLong"))
            \/ len \in 3..MaxFrame /\ More(len - 2, all, "body")
      BY <1>11 DEF HeaderRead
    <3>2. len = FrameLen(replies[cur.n])
      BY <2>3
    <3>3. len \in 3..MaxFrame /\ len \in Nat /\ MaxFrame \in Nat
      BY <1>7, <3>2, WireAssumption
    <3>4. ~(len < 3) /\ ~(len > MaxFrame)
      BY <3>3
    <3> QED BY <3>1, <3>2, <3>4
  <2> QED BY <1>7, <1>9, <2>1, <2>4
<1>12. CASE Len(bytes) = need /\ pc = "body" /\ FrameRead(all)
  <2>1. Len(all) = FrameLen(replies[cur.n])
    BY <1>3, <1>6, <1>12 DEF OnItsWay
  <2>2. all = Mine
    BY <1>3, <1>7, <1>8, <2>1, SeqEqual
  <2>3. all[1] = <<cur.n, 1>>
    BY <1>7, <1>8, <2>1
  <2>4. Finish(Parsed(cur.op, replies[cur.n]))
    BY <1>12, <2>2, <2>3 DEF FrameRead, Mine
  <2> QED BY <1>2, <1>6, <2>4 DEF Finish, Coherent, OnItsWay, Reading
<1> QED BY <1>1, <1>10, <1>11, <1>12 DEF Fill, all

LEMMA ReplyCoherent == Inv /\ Coherent /\ Reply => Coherent'
<1> SUFFICES ASSUME Inv, Coherent, Reply, clean PROVE Coherent'
  BY DEF Reply, hostVars, Coherent
<1>1. heard # << >> /\ heard' = Tail(heard) /\ UNCHANGED <<hostVars, since>>
  BY DEF Reply
<1>2. CASE ~Reading
  BY <1>1, <1>2 DEF Coherent, hostVars, Reading
<1>3. CASE Reading
  <2>1. cur \in Commands /\ heard = <<cur>> /\ since = << >> /\ wire = << >> /\ pc = "header"
    BY <1>1, <1>3 DEF Coherent, NothingYet, OnItsWay
  <2>2. Head(heard) = cur /\ heard' = << >>
    BY <1>1, <2>1
  <2>3. PICK reply \in Replies(cur.op) :
          /\ replies' = [replies EXCEPT ![cur.n] = reply]
          /\ wire' = wire \o Frame(cur.n, reply)
    BY <2>2 DEF Reply
  <2>4. replies'[cur.n] = reply
    BY <2>1, <2>3 DEF Inv, Typed, Commands
  <2>5. Frame(cur.n, reply) \in Seq(Bytes)
    <3>1. cur.n \in 1..MaxExchanges /\ reply \in Answers
      BY <2>1, <2>3 DEF Commands, Answers
    <3> QED BY <3>1, FrameTyped
  <2>6. since' \o wire' = Frame(cur.n, reply)
    BY <1>1, <2>1, <2>3, <2>5, ConcatEmptySeq
  <2>7. OnItsWay'
    BY <1>1, <2>1, <2>2, <2>3, <2>4, <2>6 DEF OnItsWay, Mine, hostVars
  <2> QED BY <1>1, <2>1, <2>7 DEF Coherent, hostVars, Reading
<1> QED BY <1>2, <1>3

LEMMA StaySilentCoherent == Inv /\ Coherent /\ StaySilent => Coherent'
<1> SUFFICES ASSUME Inv, Coherent, StaySilent, clean PROVE Coherent'
  BY DEF StaySilent, hostVars, Coherent
<1>1. heard # << >> /\ heard' = Tail(heard) /\ UNCHANGED <<hostVars, wire, replies, since>>
  BY DEF StaySilent
<1>2. CASE ~Reading
  BY <1>1, <1>2 DEF Coherent, hostVars, Reading
<1>3. CASE Reading
  <2>1. cur \in Commands /\ heard = <<cur>> /\ NothingYet
    BY <1>1, <1>3 DEF Coherent, NothingYet, OnItsWay
  <2>2. heard' = << >>
    BY <1>1, <2>1
  <2>3. NothingYet'
    BY <1>1, <2>1, <2>2 DEF NothingYet, hostVars
  <2> QED BY <1>1, <2>1, <2>3 DEF Coherent, NothingYet, hostVars, Reading
<1> QED BY <1>2, <1>3

LEMMA ArriveCoherent == Inv /\ Coherent /\ Arrive => Coherent'
<1> SUFFICES ASSUME Inv, Coherent, Arrive, clean PROVE Coherent'
  BY DEF Arrive, hostVars, Coherent
<1>1. wire # << >> /\ wire' = Tail(wire) /\ UNCHANGED <<hostVars, heard, replies>>
  BY DEF Arrive
<1>2. CASE ~Reading
  BY <1>1, <1>2 DEF Coherent, hostVars, Reading
<1>3. CASE Reading
  <2>1. cur \in Commands /\ OnItsWay
    BY <1>1, <1>3 DEF Coherent, NothingYet
  <2>2. since' = Append(since, Head(wire))
    BY <1>3 DEF Arrive, Reading
  <2>3. since' \o wire' = since \o wire
    BY <1>1, <2>2, Held, MoveHead
  <2>4. OnItsWay'
    BY <1>1, <2>1, <2>3 DEF OnItsWay, Mine, hostVars
  <2> QED BY <1>1, <1>3, <2>1, <2>4 DEF Coherent, hostVars, Reading
<1> QED BY <1>2, <1>3

LEMMA SendCoherent ==
  ASSUME Inv, NEW command \in Commands, Send(command), cur' = command, UNCHANGED wire
  PROVE  Coherent'
<1> SUFFICES ASSUME clean' PROVE Coherent'
  BY DEF Coherent
<1>1. /\ wire = << >> /\ heard = << >> /\ fifo' = << >> /\ since' = fifo' /\ pc' = "header"
      /\ heard' = Append(heard, command)
  BY DEF Send
<1>2. heard' = <<command>>
  BY <1>1
<1>3. NothingYet'
  BY <1>1, <1>2 DEF NothingYet
<1> QED BY <1>1, <1>3 DEF Coherent, Reading

LEMMA StepCoherent == Inv /\ Coherent /\ [Next]_vars => Coherent'
<1> SUFFICES ASSUME Inv, Coherent, [Next]_vars PROVE Coherent'
  OBVIOUS
<1>1. CASE UNCHANGED vars
  BY <1>1 DEF vars, hostVars, Coherent, Reading, NothingYet, OnItsWay, Mine, Frame
<1>2. CASE Reply \/ StaySilent \/ Arrive
  BY <1>2, ReplyCoherent, StaySilentCoherent, ArriveCoherent
<1>3. CASE Lose \/ Establish
  BY <1>3 DEF Lose, Establish, Coherent
<1>4. CASE Reads
  BY <1>4, ReadsTurn, TurnCoherent
<1>5. CASE DeadlinePasses \/ PortFails
  <2>1. pc' = "idle" /\ result' \in {Err("Timeout"), Err("Port")}
    BY <1>5 DEF DeadlinePasses, PortFails, Finish
  <2>2. result'.st \in {"Timeout", "Port"}
    BY <2>1 DEF Err
  <2> QED BY <2>1, <2>2 DEF Coherent, Reading
<1>6. CASE Transact
  <2>1. cur' \in Commands
    BY <1>6, WireAssumption DEF Transact, Inv, Typed, TypeOK, Commands
  <2>2. CASE SendFails(cur')
    BY <2>2 DEF SendFails, Coherent
  <2> QED BY <1>6, <2>1, <2>2, SendCoherent DEF Transact
<1>7. CASE Identify
  <2>1. cur \in Commands /\ cur' = cur
    BY <1>7, WireAssumption DEF Identify, Inv, Typed, TypeOK, Commands
  <2>2. CASE SendFails(cur)
    BY <2>2 DEF SendFails, Coherent
  <2> QED BY <1>7, <2>1, <2>2, SendCoherent DEF Identify
<1> QED BY <1>1, <1>2, <1>3, <1>4, <1>5, <1>6, <1>7 DEF Next, Reads

\* When nothing of earlier exchanges is under way after the purge, the frame that
\* is read is the reply to this command, on every transport, however their frames
\* were cut and wherever the bytes were held (actor.rs:209-215, wire.rs:14-16).
THEOREM PurgeResynchronises == Spec => []Resynchronised
<1>1. Coherent => Resynchronised
  BY DEF Coherent, Resynchronised
<1>2. Init => Coherent
  BY DEF Init, Coherent
<1> QED BY <1>1, <1>2, InitInv, StepInv, StepCoherent, PTL DEF Spec
=============================================================================
