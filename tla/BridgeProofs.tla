---------------------------- MODULE BridgeProofs ----------------------------
(***************************************************************************)
(* Theorems about Bridge: its types, that one client at a time owns the    *)
(* cable, that the cable does what it is asked at most once and in order,  *)
(* and that an answer is the outcome of a call, and of a recent one, if    *)
(* none was given up in the middle of a frame.  Their inductive invariant  *)
(* follows a client from the backlog into the session and a call from the  *)
(* stream, through the cable, to its answer.                               *)
(***************************************************************************)
EXTENDS Bridge, SequenceTheorems, TLAPS

-----------------------------------------------------------------------------
(* The inductive invariant, first what it says of one client.              *)

InBacklog(c) == \E i \in 1..Len(backlog) : backlog[i] = c
Waiting(c)   == InBacklog(c) \/ (serving = c /\ server = "hello")
Served(c)    == serving = c /\ server \in {"read", "cable", "reply"}
Connected(c) == client[c] \in {"ready", "waiting"}
Working      == server \in {"cable", "reply"}
Unlogged(c)  == \A i \in 1..Len(log) : log[i].client # c
Logged(c, n) == \E i \in 1..Len(log) : log[i] = [client |-> c, call |-> n, status |-> "ok"]

\* Who has not connected has left no trace, who has not been greeted has called
\* nothing, who is gone reads nothing.
Phases(c) ==
  /\ client[c] = "new" =>
       /\ toServer[c] = << >> /\ toClient[c] = << >>
       /\ c \notin left \cup dropped /\ ~InBacklog(c) /\ serving # c
  /\ client[c] \in {"new", "hello"} => calls[c] = 0
  /\ client[c] = "gone" => c \in left /\ toClient[c] = << >>

\* Who waits to be greeted has sent its hello and nothing else.
Hails(c) ==
  Waiting(c) => /\ client[c] \in {"hello", "gone"}
                /\ toClient[c] = << >> /\ Len(toServer[c]) = 1

\* Nothing was done for who is not yet greeted.
NotBefore(c) == client[c] = "new" \/ Waiting(c) => Unlogged(c)

\* Only who is served is, or is about to be, in session over a whole connection.
Welcomed(c) ==
  /\ client[c] = "hello" => Len(toClient[c]) <= 1
  /\ Connected(c) => c \in left \/ Served(c)
  /\ client[c] = "hello" /\ toClient[c] # << >> /\ toClient[c][1].status = "ok" =>
       c \in left \/ Served(c)

\* Later frames of a stream are of later calls.
Increasing(s) == \A k, m \in 1..Len(s) : k < m => s[k].of < s[m].of

\* The requests of the stream follow each other, the one in hand and the log.
Ordered(c) ==
  Served(c) =>
    /\ \A k \in 1..Len(toServer[c]) :
         /\ toServer[c][k].status = "request" /\ toServer[c][k].of \in 1..calls[c]
         /\ Working => job.of < toServer[c][k].of
         /\ \A i \in 1..Len(log) : log[i].client = c => log[i].call < toServer[c][k].of
    /\ Increasing(toServer[c])

\* Call n of c is not one further back than the calls it has given up.
Recent(c, n) ==
  /\ client[c] = "ready" => n + late[c] > calls[c]
  /\ client[c] = "waiting" => n + late[c] >= calls[c]

\* The responses of a whole stream are recent, true, and follow each other.
Replies(c) ==
  Connected(c) /\ c \notin torn =>
    /\ \A k \in 1..Len(toClient[c]) :
         /\ Recent(c, toClient[c][k].of) /\ toClient[c][k].of <= calls[c]
         /\ toClient[c][k].status = "ok" => Logged(c, toClient[c][k].of)
    /\ Increasing(toClient[c])

\* What a connected client will yet be answered comes after what it has been.
Pending(c) ==
  Connected(c) /\ c \notin torn /\ Served(c) /\ c \notin left \cup dropped =>
    /\ Working => /\ Recent(c, job.of)
                  /\ \A k \in 1..Len(toClient[c]) : toClient[c][k].of < job.of
    /\ \A m \in 1..Len(toServer[c]) :
         /\ Recent(c, toServer[c][m].of)
         /\ \A k \in 1..Len(toClient[c]) : toClient[c][k].of < toServer[c][m].of

\* AnswersTruthful, of one client.
Truthful(c) ==
  /\ c \in torn => late[c] > 0
  /\ client[c] = "ready" /\ calls[c] > 0 /\ c \notin torn =>
       /\ result[c].of \in calls[c] - late[c]..calls[c]
       /\ result[c].status = "ok" => Logged(c, result[c].of)

Sound(c) == /\ Phases(c) /\ Hails(c) /\ NotBefore(c) /\ Welcomed(c)
            /\ Ordered(c) /\ Replies(c) /\ Pending(c) /\ Truthful(c)

\* The backlog holds each connection once, and not the one that is served.
Line ==
  /\ \A i, j \in 1..Len(backlog) : backlog[i] = backlog[j] => i = j
  /\ \A i \in 1..Len(backlog) : backlog[i] # serving

\* The request in hand is a call that was not done before, the response in hand
\* is the outcome of one that was.
InHand ==
  /\ Working => job.of \in 1..calls[serving]
  /\ server = "cable" =>
       \A i \in 1..Len(log) : log[i].client = serving => log[i].call < job.of
  /\ server = "reply" /\ job.status = "ok" => Logged(serving, job.of)

\* What was done for a client is a stretch of the log, its last stretch for the
\* client that is served, and each call is in it once and in its order.
Journal ==
  /\ \A i \in 1..Len(log) : log[i].call \in 1..calls[log[i].client]
  /\ \A i, j \in 1..Len(log) : i < j /\ log[i].client = serving => log[j].client = serving
  /\ \A i, j, k \in 1..Len(log) :
       i < j /\ j < k /\ log[i].client = log[k].client => log[j].client = log[i].client
  /\ \A i, j \in 1..Len(log) :
       i < j /\ log[i].client = log[j].client => log[i].call < log[j].call

IInv == TypeOK /\ Line /\ InHand /\ Journal /\ \A c \in Clients : Sound(c)

-----------------------------------------------------------------------------
(* Streams, without the operators of Sequences.                            *)

\* t is s with x behind it; t is s without its head.
Grew(s, t, x) ==
  /\ Len(s) \in Nat /\ Len(t) = Len(s) + 1 /\ t[Len(t)] = x
  /\ \A i \in 1..Len(s) : t[i] = s[i]
Shrank(s, t) ==
  /\ Len(s) \in Nat /\ Len(s) >= 1 /\ Len(t) = Len(s) - 1
  /\ \A i \in 1..Len(t) : t[i] = s[i + 1]

LEMMA GrewElements ==
  ASSUME NEW s, NEW t, NEW x, Grew(s, t, x)
  PROVE  /\ \A k \in 1..Len(t) : (k \in 1..Len(s) /\ t[k] = s[k]) \/ (k = Len(t) /\ t[k] = x)
         /\ \A k \in 1..Len(s) : k \in 1..Len(t) /\ t[k] = s[k]
         /\ Len(t) \in 1..Len(t) /\ t[Len(t)] = x
  BY DEF Grew

LEMMA ShrankElements ==
  ASSUME NEW s, NEW t, Shrank(s, t)
  PROVE  /\ \A k \in 1..Len(t) : k + 1 \in 1..Len(s) /\ t[k] = s[k + 1]
         /\ 1 \in 1..Len(s)
  BY DEF Shrank

LEMMA GrewIncreasing ==
  ASSUME NEW s, NEW t, NEW x, Grew(s, t, x), Increasing(s),
         \A k \in 1..Len(s) : s[k].of < x.of
  PROVE  Increasing(t)
  BY DEF Grew, Increasing

LEMMA ShrankIncreasing ==
  ASSUME NEW s, NEW t, Shrank(s, t), Increasing(s)
  PROVE  /\ Increasing(t)
         /\ \A k \in 1..Len(t) : s[1].of < t[k].of
<1>1. ASSUME NEW k \in 1..Len(t), NEW m \in 1..Len(t), k < m
      PROVE  t[k].of < t[m].of
  <2>1. /\ k + 1 \in 1..Len(s) /\ t[k] = s[k + 1]
        /\ m + 1 \in 1..Len(s) /\ t[m] = s[m + 1]
    BY ShrankElements
  <2>2. k + 1 < m + 1
    BY <1>1 DEF Shrank
  <2> QED BY <2>1, <2>2 DEF Increasing
<1>2. ASSUME NEW k \in 1..Len(t)
      PROVE  s[1].of < t[k].of
  <2>1. /\ k + 1 \in 1..Len(s) /\ t[k] = s[k + 1]
        /\ 1 \in 1..Len(s)
    BY ShrankElements
  <2>2. 1 < k + 1
    BY DEF Shrank
  <2> QED BY <2>1, <2>2 DEF Increasing
<1> QED BY <1>1, <1>2 DEF Increasing

LEMMA AppendGrows ==
  ASSUME NEW S, NEW s \in Seq(S), NEW x \in S
  PROVE  Append(s, x) \in Seq(S) /\ Grew(s, Append(s, x), x)
  BY AppendProperties, LenProperties DEF Grew

LEMMA TailShrinks ==
  ASSUME NEW S, NEW s \in Seq(S), s # << >>
  PROVE  /\ Tail(s) \in Seq(S) /\ Shrank(s, Tail(s))
         /\ Head(s) = s[1] /\ Head(s) \in S
<1>1. Len(s) \in Nat /\ Len(s) >= 1
  BY EmptySeq, LenProperties
<1> QED BY <1>1, HeadTailProperties DEF Shrank

LEMMA EmptyOrNot ==
  ASSUME NEW S, NEW s \in Seq(S)
  PROVE  Len(s) \in Nat /\ (s = << >> <=> Len(s) = 0)
  BY EmptySeq, LenProperties

LEMMA PutGrows ==
  ASSUME NEW S, NEW streams \in [Clients -> Seq(S)], NEW c \in Clients, NEW x \in S
  PROVE  /\ Put(streams, c, x) \in [Clients -> Seq(S)]
         /\ Grew(streams[c], Put(streams, c, x)[c], x)
<1>1. Append(streams[c], x) \in Seq(S) /\ Grew(streams[c], Append(streams[c], x), x)
  BY AppendGrows
<1> DEFINE t == Append(streams[c], x)
<1>2. Put(streams, c, x) = [streams EXCEPT ![c] = t]
  BY DEF Put
<1> HIDE DEF t
<1> QED BY <1>1, <1>2 DEF t

LEMMA TakeShrinks ==
  ASSUME NEW S, NEW streams \in [Clients -> Seq(S)], NEW c \in Clients, streams[c] # << >>
  PROVE  /\ Take(streams, c) \in [Clients -> Seq(S)]
         /\ Shrank(streams[c], Take(streams, c)[c])
         /\ Head(streams[c]) = streams[c][1] /\ streams[c][1] \in S
<1>1. /\ Tail(streams[c]) \in Seq(S) /\ Shrank(streams[c], Tail(streams[c]))
      /\ Head(streams[c]) = streams[c][1] /\ streams[c][1] \in S
  BY TailShrinks
<1> DEFINE t == Tail(streams[c])
<1>2. Take(streams, c) = [streams EXCEPT ![c] = t]
  BY DEF Take
<1> HIDE DEF t
<1> QED BY <1>1, <1>2 DEF t

LEMMA DiscardEmpties ==
  ASSUME NEW S, NEW streams \in [Clients -> Seq(S)], NEW c \in Clients
  PROVE  /\ Discard(streams, c) \in [Clients -> Seq(S)]
         /\ Discard(streams, c)[c] = << >>
  BY EmptySeq DEF Discard

LEMMA DeliverGrows ==
  ASSUME NEW S, NEW streams \in [Clients -> Seq(S)], NEW c \in Clients, NEW x \in S
  PROVE  /\ Deliver(streams, c, x) \in [Clients -> Seq(S)]
         /\ \/ c \in left \cup dropped /\ Deliver(streams, c, x)[c] = streams[c]
            \/ /\ c \notin left \cup dropped
               /\ Grew(streams[c], Deliver(streams, c, x)[c], x)
<1>1. CASE c \in left \cup dropped
  BY <1>1 DEF Deliver
<1>2. CASE c \notin left \cup dropped
  BY <1>2, PutGrows DEF Deliver
<1> QED BY <1>1, <1>2

-----------------------------------------------------------------------------
(* What a step leaves alone.                                               *)

\* A step of another client, or of the serving thread for another client.
Untouched(d) ==
  /\ client'[d] = client[d] /\ calls'[d] = calls[d] /\ late'[d] = late[d]
  /\ (d \in torn' <=> d \in torn) /\ result'[d] = result[d]
  /\ toServer'[d] = toServer[d] /\ toClient'[d] = toClient[d]
  /\ d \in left' <=> d \in left
  /\ d \in dropped => d \in dropped'
  /\ d \in dropped' => d \in dropped \/ client[d] # "new"
  /\ InBacklog(d)' => InBacklog(d)
  /\ \/ serving # d /\ serving' # d
     \/ serving' = serving /\ server' = server /\ job' = job /\ log' = log
  /\ Unlogged(d) => Unlogged(d)'
  /\ \A n : Logged(d, n) => Logged(d, n)'

LEMMA UntouchedStaysSound ==
  ASSUME NEW d, Sound(d), Untouched(d)
  PROVE  Sound(d)'
<1>1. /\ client'[d] = client[d] /\ calls'[d] = calls[d] /\ late'[d] = late[d]
      /\ (d \in torn' <=> d \in torn) /\ result'[d] = result[d]
      /\ toServer'[d] = toServer[d] /\ toClient'[d] = toClient[d]
      /\ d \in left' <=> d \in left
      /\ d \in dropped => d \in dropped'
      /\ d \in dropped' => d \in dropped \/ client[d] # "new"
  BY DEF Untouched
<1>2. Served(d)' => Served(d) /\ job' = job /\ log' = log /\ server' = server
  BY DEF Untouched, Served
<1>3. Served(d) => Served(d)'
  BY DEF Untouched, Served
<1>4. Waiting(d)' => Waiting(d)
  BY DEF Untouched, Waiting
<1>5. Phases(d)'
  BY <1>1 DEF Untouched, Sound, Phases
<1>6. Hails(d)'
  BY <1>1, <1>4 DEF Sound, Hails
<1>7. NotBefore(d)'
  BY <1>1, <1>4 DEF Untouched, Sound, NotBefore
<1>8. Welcomed(d)'
  BY <1>1, <1>3 DEF Sound, Welcomed, Connected
<1>9. Ordered(d)'
  BY <1>1, <1>2 DEF Sound, Ordered, Working
<1>10. Replies(d)'
  BY <1>1 DEF Untouched, Sound, Replies, Connected, Recent
<1>11. Pending(d)'
  BY <1>1, <1>2 DEF Sound, Pending, Connected, Recent, Working
<1>12. Truthful(d)'
  BY <1>1 DEF Untouched, Sound, Truthful
<1> QED BY <1>5, <1>6, <1>7, <1>8, <1>9, <1>10, <1>11, <1>12 DEF Sound

-----------------------------------------------------------------------------
(* Types.                                                                  *)

LEMMA Types ==
  ASSUME TypeOK
  PROVE  /\ client \in [Clients -> {"new", "hello", "ready", "waiting", "gone"}]
         /\ calls \in [Clients -> 0..MaxCalls] /\ late \in [Clients -> 0..MaxLate]
         /\ result \in [Clients -> Response]
         /\ toServer \in [Clients -> Seq(Request)] /\ toClient \in [Clients -> Seq(Response)]
         /\ backlog \in Seq(Clients) /\ log \in Seq(Entry)
         /\ Len(backlog) \in Nat /\ Len(log) \in Nat
         /\ serving \in Clients \cup {NoClient} /\ job \in Request \cup Response
  BY LenProperties DEF TypeOK

LEMMA LogTyped ==
  ASSUME TypeOK
  PROVE  /\ \A i \in 1..Len(log) : log[i] \in Entry
         /\ \A i \in 1..Len(log) : log[i].client \in Clients
<1>1. log \in Seq(Entry)
  BY Types
<1>2. \A i \in 1..Len(log) : log[i] \in Entry
  BY <1>1, ElementOfSeq, Zenon
<1> QED BY <1>2 DEF Entry

LEMMA ClientFrames ==
  ASSUME BridgeAssumption, TypeOK, NEW c \in Clients
  PROVE  \A k \in 1..Len(toClient[c]) :
           toClient[c][k] \in Response /\ toClient[c][k].of \in Nat
<1>1. toClient[c] \in Seq(Response)
  BY Types
<1>2. \A k \in 1..Len(toClient[c]) : toClient[c][k] \in Response
  BY <1>1, ElementOfSeq, Zenon
<1> QED BY <1>2 DEF Response, BridgeAssumption

\* The two directions of a connection, when one is written or read.
LEMMA ServerStream ==
  ASSUME TypeOK, NEW c \in Clients
  PROVE  /\ \A x \in Request : Put(toServer, c, x) \in [Clients -> Seq(Request)]
         /\ \A x \in Request : Grew(toServer[c], Put(toServer, c, x)[c], x)
         /\ \A x \in Request : Deliver(toServer, c, x) \in [Clients -> Seq(Request)]
         /\ \A x \in Request :
              \/ c \in left \cup dropped /\ Deliver(toServer, c, x)[c] = toServer[c]
              \/ /\ c \notin left \cup dropped
                 /\ Grew(toServer[c], Deliver(toServer, c, x)[c], x)
         /\ toServer[c] # << >> =>
              /\ Take(toServer, c) \in [Clients -> Seq(Request)]
              /\ Shrank(toServer[c], Take(toServer, c)[c])
              /\ Head(toServer[c]) = toServer[c][1] /\ toServer[c][1] \in Request
         /\ Discard(toServer, c) \in [Clients -> Seq(Request)]
         /\ Discard(toServer, c)[c] = << >>
         /\ Len(toServer[c]) \in Nat /\ (toServer[c] = << >> <=> Len(toServer[c]) = 0)
<1>1. toServer \in [Clients -> Seq(Request)] /\ toServer[c] \in Seq(Request)
  BY Types
<1>2. Len(toServer[c]) \in Nat /\ (toServer[c] = << >> <=> Len(toServer[c]) = 0)
  BY <1>1, EmptyOrNot, Zenon
<1>3. /\ \A x \in Request : Put(toServer, c, x) \in [Clients -> Seq(Request)]
      /\ \A x \in Request : Grew(toServer[c], Put(toServer, c, x)[c], x)
  BY <1>1, PutGrows, Zenon
<1>4. /\ \A x \in Request : Deliver(toServer, c, x) \in [Clients -> Seq(Request)]
      /\ \A x \in Request :
           \/ c \in left \cup dropped /\ Deliver(toServer, c, x)[c] = toServer[c]
           \/ /\ c \notin left \cup dropped
              /\ Grew(toServer[c], Deliver(toServer, c, x)[c], x)
  BY <1>1, DeliverGrows, Zenon
<1>5. toServer[c] # << >> =>
        /\ Take(toServer, c) \in [Clients -> Seq(Request)]
        /\ Shrank(toServer[c], Take(toServer, c)[c])
        /\ Head(toServer[c]) = toServer[c][1] /\ toServer[c][1] \in Request
  BY <1>1, TakeShrinks, Zenon
<1>6. /\ Discard(toServer, c) \in [Clients -> Seq(Request)]
      /\ Discard(toServer, c)[c] = << >>
  BY <1>1, DiscardEmpties, Zenon
<1> QED BY <1>2, <1>3, <1>4, <1>5, <1>6, Zenon

LEMMA ClientStream ==
  ASSUME TypeOK, NEW c \in Clients
  PROVE  /\ \A x \in Response : Deliver(toClient, c, x) \in [Clients -> Seq(Response)]
         /\ \A x \in Response :
              \/ c \in left \cup dropped /\ Deliver(toClient, c, x)[c] = toClient[c]
              \/ /\ c \notin left \cup dropped
                 /\ Grew(toClient[c], Deliver(toClient, c, x)[c], x)
         /\ toClient[c] # << >> =>
              /\ Take(toClient, c) \in [Clients -> Seq(Response)]
              /\ Shrank(toClient[c], Take(toClient, c)[c])
              /\ Head(toClient[c]) = toClient[c][1] /\ toClient[c][1] \in Response
         /\ Discard(toClient, c) \in [Clients -> Seq(Response)]
         /\ Discard(toClient, c)[c] = << >>
         /\ Len(toClient[c]) \in Nat /\ (toClient[c] = << >> <=> Len(toClient[c]) = 0)
<1>1. toClient \in [Clients -> Seq(Response)] /\ toClient[c] \in Seq(Response)
  BY Types
<1>2. Len(toClient[c]) \in Nat /\ (toClient[c] = << >> <=> Len(toClient[c]) = 0)
  BY <1>1, EmptyOrNot, Zenon
<1>3. /\ \A x \in Response : Deliver(toClient, c, x) \in [Clients -> Seq(Response)]
      /\ \A x \in Response :
           \/ c \in left \cup dropped /\ Deliver(toClient, c, x)[c] = toClient[c]
           \/ /\ c \notin left \cup dropped
              /\ Grew(toClient[c], Deliver(toClient, c, x)[c], x)
  BY <1>1, DeliverGrows, Zenon
<1>4. toClient[c] # << >> =>
        /\ Take(toClient, c) \in [Clients -> Seq(Response)]
        /\ Shrank(toClient[c], Take(toClient, c)[c])
        /\ Head(toClient[c]) = toClient[c][1] /\ toClient[c][1] \in Response
  BY <1>1, TakeShrinks, Zenon
<1>5. /\ Discard(toClient, c) \in [Clients -> Seq(Response)]
      /\ Discard(toClient, c)[c] = << >>
  BY <1>1, DiscardEmpties, Zenon
<1> QED BY <1>2, <1>3, <1>4, <1>5, Zenon

\* A stream that one connection writes or reads is another's as it was.
LEMMA OtherStreams ==
  ASSUME NEW S, NEW streams \in [Clients -> Seq(S)], NEW c \in Clients,
         NEW d \in Clients, d # c
  PROVE  /\ \A x : Put(streams, c, x)[d] = streams[d]
         /\ \A x : Deliver(streams, c, x)[d] = streams[d]
         /\ Take(streams, c)[d] = streams[d]
         /\ Discard(streams, c)[d] = streams[d]
  BY DEF Put, Deliver, Take, Discard

\* Who is in session is a client.
LEMMA ServedIsClient ==
  ASSUME TypeOK, server \in {"hello", "read", "cable", "reply"}
  PROVE  serving \in Clients
  BY DEF TypeOK

LEMMA Hellos ==
  ASSUME BridgeAssumption
  PROVE  /\ \A v \in {"ours", "other"} : [of |-> 0, status |-> v] \in Request
         /\ \A v \in {"none", "ok", "err"} : [of |-> 0, status |-> v] \in Response
         /\ NoJob \in Response
  BY DEF BridgeAssumption, Request, Response, NoJob

\* What is left of a stream of which some was read.
LEMMA ReadSomeTyped ==
  ASSUME TypeOK, NEW c \in Clients, ReadSome(c)
  PROVE  /\ toClient' \in [Clients -> Seq(Response)]
         /\ \A d \in Clients : d # c => toClient'[d] = toClient[d]
<1>1. PICK n \in 0..Len(toClient[c]) :
        toClient' = [toClient EXCEPT ![c] = SubSeq(toClient[c], n + 1, Len(toClient[c]))]
  BY DEF ReadSome
<1>2. toClient \in [Clients -> Seq(Response)] /\ toClient[c] \in Seq(Response)
  BY Types
<1>3. Len(toClient[c]) \in Nat
  BY <1>2, LenProperties
<1>4. SubSeq(toClient[c], n + 1, Len(toClient[c])) \in Seq(Response)
  BY <1>2, <1>3, SubSeqProperties
<1> QED BY <1>1, <1>2, <1>4

LEMMA ClientTyped ==
  ASSUME BridgeAssumption, TypeOK, NEW c \in Clients,
         \/ Connect(c) \/ Handshake(c) \/ Transact(c) \/ Answer(c) \/ Misread(c) \/ GiveUp(c)
         \/ Leave(c) \/ Break(c)
  PROVE  TypeOK'
<1>0. /\ MaxCalls \in Nat /\ MaxLate \in Nat /\ NoClient \notin Clients
      /\ calls[c] \in 0..MaxCalls /\ late[c] \in 0..MaxLate
  BY Types DEF BridgeAssumption
<1>1. CASE Connect(c)
  <2>1. PICK version \in {"ours", "other"} :
          toServer' = Put(toServer, c, [of |-> 0, status |-> version])
    BY <1>1 DEF Connect
  <2>2. toServer' \in [Clients -> Seq(Request)]
    BY <2>1, Hellos, Types, ServerStream, ClientStream
  <2>3. backlog' \in Seq(Clients)
    BY <1>1, Types, AppendGrows DEF Connect
  <2> QED BY <1>1, <2>2, <2>3 DEF Connect, TypeOK, serverVars, phoneVars
<1>2. CASE Handshake(c)
  <2>1. \/ toClient[c] # << >> /\ toClient' = Take(toClient, c)
        \/ toClient' = Discard(toClient, c)
    BY <1>2 DEF Handshake, Drop
  <2>2. toClient' \in [Clients -> Seq(Response)]
    BY <2>1, ClientStream
  <2> QED BY <1>2, <2>2 DEF Handshake, Drop, TypeOK, serverVars, phoneVars
<1>3. CASE Transact(c)
  <2>1. calls[c] + 1 \in 0..MaxCalls
    BY <1>0, <1>3 DEF Transact
  <2>2. [of |-> calls[c] + 1, status |-> "request"] \in Request
    BY <2>1 DEF Request
  <2>3. toServer' \in [Clients -> Seq(Request)]
    BY <1>3, <2>2, Types, ServerStream, ClientStream DEF Transact
  <2> QED BY <1>3, <2>1, <2>3 DEF Transact, TypeOK, serverVars, phoneVars
<1>4. CASE Answer(c)
  <2>1. toClient' \in [Clients -> Seq(Response)]
    <3>1. \/ toClient[c] # << >> /\ toClient' = Take(toClient, c)
          \/ toClient' = Discard(toClient, c)
      BY <1>4 DEF Answer
    <3> QED BY <3>1, ClientStream, Zenon
  <2>2. toClient[c] # << >> => Head(toClient[c]) \in Response
    BY Types, ServerStream, ClientStream
  <2>3. PICK m \in Response :
          result' = [result EXCEPT ![c] = [of |-> m.of, status |-> m.status]]
    <3>1. [of |-> calls[c], status |-> "err"] \in Response
      BY <1>0 DEF Response
    <3> QED BY <1>4, <2>2, <3>1 DEF Answer, Return
  <2>4. result' \in [Clients -> Response]
    <3>1. [of |-> m.of, status |-> m.status] \in Response
      BY DEF Response
    <3> QED BY <2>3, <3>1, Types
  <2> QED BY <1>4, <2>1, <2>4 DEF Answer, Return, TypeOK, serverVars, phoneVars
<1>5. CASE GiveUp(c)
  <2>1. late[c] + 1 \in 0..MaxLate
    BY <1>0, <1>5 DEF GiveUp
  <2>2. result' \in [Clients -> Response]
    <3>1. [of |-> calls[c], status |-> "err"] \in Response
      BY <1>0 DEF Response
    <3> QED BY <1>5, <3>1, Types DEF GiveUp, Return
  <2>3. toClient' \in [Clients -> Seq(Response)]
    BY <1>5, Types, ReadSomeTyped DEF GiveUp
  <2> QED BY <1>5, <2>1, <2>2, <2>3 DEF GiveUp, Return, TypeOK, serverVars, phoneVars
<1>8. CASE Misread(c)
  <2>1. PICK status \in {"ok", "err"} :
          result' = [result EXCEPT ![c] = [of |-> 0, status |-> status]]
    BY <1>8 DEF Misread, Return
  <2>2. [of |-> 0, status |-> status] \in Response
    BY <1>0, <2>1, Types DEF Response
  <2>3. result' \in [Clients -> Response]
    BY <2>1, <2>2, Types
  <2>4. toClient' \in [Clients -> Seq(Response)]
    BY <1>8, Types, ReadSomeTyped DEF Misread
  <2> QED BY <1>8, <2>3, <2>4 DEF Misread, Return, TypeOK, serverVars, phoneVars
<1>6. CASE Leave(c)
  <2>1. toClient' \in [Clients -> Seq(Response)]
    BY <1>6, Types, ServerStream, ClientStream DEF Leave, Drop
  <2> QED BY <1>6, <2>1 DEF Leave, Drop, TypeOK, serverVars, phoneVars
<1>7. CASE Break(c)
  BY <1>7 DEF Break, TypeOK, clientVars, serverVars, phoneVars
<1> QED BY <1>1, <1>2, <1>3, <1>4, <1>5, <1>6, <1>7, <1>8

\* serve_connection leaves its connection with nothing in its hand.
LEMMA HangupTyped ==
  ASSUME BridgeAssumption, TypeOK, serving \in Clients, Hangup
  PROVE  /\ toServer' \in [Clients -> Seq(Request)] /\ dropped' \subseteq Clients
         /\ server' = "check" /\ serving' = NoClient /\ job' = NoJob
  BY Types, ServerStream, ClientStream DEF Hangup, TypeOK

LEMMA HangupKeepsType ==
  ASSUME BridgeAssumption, TypeOK, serving \in Clients, Hangup,
         toClient' \in [Clients -> Seq(Response)],
         UNCHANGED <<clientVars, left, backlog, phoneVars, log>>
  PROVE  TypeOK'
<1>1. /\ toServer' \in [Clients -> Seq(Request)] /\ dropped' \subseteq Clients
      /\ server' = "check" /\ serving' = NoClient /\ job' = NoJob
  BY HangupTyped
<1>2. NoJob \in Response /\ NoJob.status = "none"
  BY Hellos DEF NoJob
<1>3. UNCHANGED <<client, calls, late, torn, result, left, backlog, stop, portOpen, log>>
  BY Zenon DEF clientVars, phoneVars
<1>4. job' \in Response /\ job'.status \notin {"ok", "err"}
  BY <1>1, <1>2
<1> QED BY <1>1, <1>3, <1>4 DEF TypeOK

LEMMA ServeTyped ==
  ASSUME BridgeAssumption, TypeOK, InHand, Serve
  PROVE  TypeOK'
<1>0. MaxCalls \in Nat /\ MaxLate \in Nat /\ NoClient \notin Clients
  BY DEF BridgeAssumption
<1>1. CASE CheckStop \/ AcceptNothing
  BY <1>1 DEF CheckStop, AcceptNothing, TypeOK, clientVars, wireVars, phoneVars
<1>2. CASE Accept
  <2>1. backlog' \in Seq(Clients) /\ Head(backlog) \in Clients
    BY <1>2, Types, TailShrinks DEF Accept
  <2> QED BY <1>0, <1>2, <2>1 DEF Accept, Accepts, TypeOK, clientVars, phoneVars
<1>3. CASE EndLoop
  <2>1. Range(backlog) \subseteq Clients /\ << >> \in Seq(Clients)
    BY Types, ElementOfSeq, EmptySeq, LenProperties DEF Range
  <2> QED BY <1>3, <2>1 DEF EndLoop, TypeOK, clientVars, phoneVars
<1>4. CASE Greet
  <2>1. serving \in Clients /\ job.status \notin {"ok", "err"}
    BY <1>4, ServedIsClient DEF Greet, TypeOK
  <2>2. CASE Hangup
    <3>1. \/ toClient' = toClient
          \/ toClient' = Deliver(toClient, serving, [of |-> 0, status |-> "err"])
      BY <1>4, <2>2 DEF Greet, Hangup
    <3>2. toClient' \in [Clients -> Seq(Response)]
      BY <2>1, <3>1, Hellos, Types, ClientStream
    <3>3. UNCHANGED <<clientVars, left, backlog, phoneVars, log>>
      BY <1>4 DEF Greet
    <3> QED BY <2>1, <2>2, <3>2, <3>3, HangupKeepsType
  <2>3. CASE ~Hangup
    <3>1. /\ toClient' = Deliver(toClient, serving, [of |-> 0, status |-> "ok"])
          /\ toServer[serving] # << >> /\ toServer' = Take(toServer, serving)
          /\ server' = "read" /\ UNCHANGED <<serving, job, dropped>>
      BY <1>4, <2>3 DEF Greet
    <3>2. toClient' \in [Clients -> Seq(Response)]
      BY <2>1, <3>1, Hellos, ClientStream
    <3>3. toServer' \in [Clients -> Seq(Request)]
      BY <2>1, <3>1, ServerStream
    <3> QED BY <1>0, <1>4, <2>1, <3>1, <3>2, <3>3 DEF Greet, TypeOK, clientVars, phoneVars
  <2> QED BY <2>2, <2>3
<1>5. CASE ReadRequest
  <2>1. serving \in Clients
    BY <1>5, ServedIsClient DEF ReadRequest
  <2>2. CASE Hangup
    <3>1. UNCHANGED <<clientVars, toClient, left, backlog, phoneVars, log>>
      BY <1>5 DEF ReadRequest
    <3>2. toClient' \in [Clients -> Seq(Response)]
      BY <3>1, Types
    <3> QED BY <2>1, <2>2, <3>1, <3>2, HangupKeepsType
  <2>3. CASE ~Hangup
    <3>1. toServer' \in [Clients -> Seq(Request)] /\ job' \in Request
      BY <1>5, <2>1, <2>3, Types, ServerStream, ClientStream DEF ReadRequest
    <3>2. job'.status \notin {"ok", "err"}
      BY <3>1 DEF Request
    <3> QED BY <1>0, <1>5, <2>1, <2>3, <3>1, <3>2
            DEF ReadRequest, TypeOK, clientVars, phoneVars
  <2> QED BY <2>2, <2>3
<1>6. CASE Dispatch
  <2>1. PICK status \in {"ok", "err"} :
          /\ job' = [job EXCEPT !.status = status]
          /\ log' = Append(log, [client |-> serving, call |-> job.of, status |-> status])
    BY <1>6 DEF Dispatch
  <2>2. serving \in Clients /\ job.of \in 1..calls[serving]
    BY <1>6, ServedIsClient DEF Dispatch, InHand, Working
  <2>3. job.of \in 1..MaxCalls
    BY <1>0, <2>2, Types
  <2>4. log' \in Seq(Entry)
    BY <2>1, <2>2, <2>3, Types, AppendGrows DEF Entry
  <2>5. job' \in Response /\ job'.status = status
    BY <2>1, <2>3, Types DEF Request, Response
  <2> QED BY <1>0, <1>6, <2>2, <2>4, <2>5
          DEF Dispatch, TypeOK, clientVars, wireVars, phoneVars
<1>7. CASE Reply
  <2>1. serving \in Clients /\ job \in Response
    BY <1>7, ServedIsClient, Types DEF Reply, TypeOK, Request, Response
  <2>2. CASE Hangup
    <3>1. toClient' \in {toClient, Deliver(toClient, serving, job)}
      BY <1>7 DEF Reply
    <3>2. toClient' \in [Clients -> Seq(Response)]
      BY <2>1, <3>1, Types, ClientStream
    <3>3. UNCHANGED <<clientVars, left, backlog, phoneVars, log>>
      BY <1>7 DEF Reply
    <3> QED BY <2>1, <2>2, <3>2, <3>3, HangupKeepsType
  <2>3. CASE ~Hangup
    <3>1. toClient' \in [Clients -> Seq(Response)]
      BY <1>7, <2>1, <2>3, Types, ServerStream, ClientStream DEF Reply
    <3> QED BY <1>0, <1>7, <2>1, <2>3, <3>1, Hellos
            DEF Reply, TypeOK, clientVars, phoneVars, NoJob
  <2> QED BY <2>2, <2>3
<1> QED BY <1>1, <1>2, <1>3, <1>4, <1>5, <1>6, <1>7 DEF Serve

LEMMA StepTyped ==
  ASSUME BridgeAssumption, IInv, [Next]_vars
  PROVE  TypeOK'
<1>1. CASE StopBridge \/ ClosePort \/ UNCHANGED vars
  BY <1>1 DEF IInv, TypeOK, StopBridge, ClosePort, vars, clientVars, wireVars, serverVars,
     phoneVars
<1> QED BY <1>1, ClientTyped, ServeTyped DEF IInv, Next

-----------------------------------------------------------------------------
(* The steps of a client.                                                  *)

ClientStep(c) ==
  \/ Connect(c) \/ Handshake(c) \/ Transact(c) \/ Answer(c) \/ Misread(c) \/ GiveUp(c)
  \/ Leave(c) \/ Break(c)

LEMMA ClientLeavesServer ==
  ASSUME NEW c \in Clients, ClientStep(c)
  PROVE  server' = server /\ serving' = serving /\ job' = job /\ log' = log
  BY DEF ClientStep, Connect, Handshake, Transact, Answer, Misread, GiveUp, Leave, Break, serverVars

LEMMA BacklogGrows ==
  ASSUME TypeOK, NEW c \in Clients, ClientStep(c)
  PROVE  \/ backlog' = backlog
         \/ Connect(c) /\ Grew(backlog, backlog', c)
<1>1. CASE Connect(c)
  BY <1>1, Types, AppendGrows DEF Connect
<1>2. CASE ~Connect(c)
  BY <1>2 DEF ClientStep, Handshake, Transact, Answer, Misread, GiveUp, Leave, Break, wireVars
<1> QED BY <1>1, <1>2

LEMMA CallsGrow ==
  ASSUME BridgeAssumption, TypeOK, NEW c \in Clients, ClientStep(c)
  PROVE  \A d \in Clients : calls'[d] \in Nat /\ calls[d] \in Nat /\ calls'[d] >= calls[d]
<1>1. MaxCalls \in Nat /\ calls \in [Clients -> 0..MaxCalls]
  BY Types DEF BridgeAssumption
<1>2. calls' = calls \/ calls' = [calls EXCEPT ![c] = @ + 1]
  BY DEF ClientStep, Connect, Handshake, Transact, Answer, Misread, GiveUp, Leave, Break,
     Return, Drop, clientVars
<1> QED BY <1>1, <1>2

LEMMA OthersUntouched ==
  ASSUME TypeOK, NEW c \in Clients, ClientStep(c), NEW d \in Clients, d # c
  PROVE  Untouched(d)
<1>1. server' = server /\ serving' = serving /\ job' = job /\ log' = log
  BY ClientLeavesServer
<1>2. /\ client'[d] = client[d] /\ calls'[d] = calls[d] /\ late'[d] = late[d]
      /\ (d \in torn' <=> d \in torn) /\ result'[d] = result[d]
  BY Types DEF ClientStep, Connect, Handshake, Transact, Answer, Misread, GiveUp, Leave, Break,
     Return, Drop, clientVars
<1>3. toServer'[d] = toServer[d]
  <2>1. /\ \A x : Put(toServer, c, x)[d] = toServer[d]
        /\ \A x : Deliver(toServer, c, x)[d] = toServer[d]
    BY Types, OtherStreams, Zenon
  <2> QED BY <2>1 DEF ClientStep, Connect, Handshake, Transact, Answer, Misread, GiveUp, Leave,
          Break, wireVars
<1>4. toClient'[d] = toClient[d]
  <2>1. Take(toClient, c)[d] = toClient[d] /\ Discard(toClient, c)[d] = toClient[d]
    BY Types, OtherStreams, Zenon
  <2>2. ReadSome(c) => toClient'[d] = toClient[d]
    BY ReadSomeTyped
  <2> QED BY <2>1, <2>2 DEF ClientStep, Connect, Handshake, Transact, Answer, Misread, GiveUp, Leave,
          Break, Drop, wireVars
<1>5. /\ d \in left' <=> d \in left
      /\ d \in dropped' <=> d \in dropped
  BY DEF ClientStep, Connect, Handshake, Transact, Answer, Misread, GiveUp, Leave, Break, Drop,
     wireVars
<1>6. InBacklog(d)' => InBacklog(d)
  <2>1. CASE backlog' = backlog
    BY <2>1 DEF InBacklog
  <2>2. CASE Grew(backlog, backlog', c)
    BY <2>2 DEF Grew, InBacklog
  <2> QED BY <2>1, <2>2, BacklogGrows
<1>7. (Unlogged(d) => Unlogged(d)') /\ \A n : Logged(d, n) => Logged(d, n)'
  BY <1>1 DEF Unlogged, Logged
<1> QED BY <1>1, <1>2, <1>3, <1>4, <1>5, <1>6, <1>7 DEF Untouched

LEMMA ClientKeepsRest ==
  ASSUME BridgeAssumption, IInv, NEW c \in Clients, ClientStep(c)
  PROVE  Line' /\ InHand' /\ Journal'
<1> USE DEF IInv
<1>1. server' = server /\ serving' = serving /\ job' = job /\ log' = log
  BY ClientLeavesServer
<1>2. \A d \in Clients : calls'[d] \in Nat /\ calls[d] \in Nat /\ calls'[d] >= calls[d]
  BY CallsGrow
<1>3. Line'
  <2>1. CASE backlog' = backlog
    BY <1>1, <2>1 DEF Line
  <2>2. CASE Connect(c) /\ Grew(backlog, backlog', c)
    <3>1. ~InBacklog(c) /\ serving # c
      BY <2>2 DEF Connect, Sound, Phases
    <3> QED BY <1>1, <2>2, <3>1 DEF Grew, Line, InBacklog
  <2> QED BY <2>1, <2>2, BacklogGrows
<1>4. InHand'
  <2>1. Working => serving \in Clients
    BY ServedIsClient DEF Working
  <2>2. (Working => job.of \in 1..calls[serving])'
    BY <1>1, <1>2, <2>1 DEF InHand, Working
  <2> QED BY <1>1, <2>2 DEF InHand, Working, Logged
<1>5. Journal'
  <2>1. \A i \in 1..Len(log) : log[i].client \in Clients
    BY LogTyped
  <2>2. \A i \in 1..Len(log) : log[i].call \in 1..calls'[log[i].client]
    BY <1>2, <2>1 DEF Journal
  <2> QED BY <1>1, <2>2 DEF Journal
<1> QED BY <1>3, <1>4, <1>5

\* What is known of a client that takes a step, and what its step keeps.
Stance(c) ==
  /\ Phases(c) /\ Hails(c) /\ NotBefore(c) /\ Welcomed(c)
  /\ Ordered(c) /\ Replies(c) /\ Pending(c) /\ Truthful(c)
  /\ TypeOK /\ InHand /\ Journal
  /\ server' = server /\ serving' = serving /\ job' = job /\ log' = log
  /\ calls[c] \in Nat /\ late[c] \in Nat
  /\ Len(toServer[c]) \in Nat /\ (toServer[c] = << >> <=> Len(toServer[c]) = 0)
  /\ Len(toClient[c]) \in Nat /\ (toClient[c] = << >> <=> Len(toClient[c]) = 0)

LEMMA Stepper ==
  ASSUME BridgeAssumption, IInv, NEW c \in Clients, ClientStep(c)
  PROVE  Stance(c)
<1>1. calls[c] \in Nat /\ late[c] \in Nat
  BY Types DEF IInv, BridgeAssumption
<1>2. /\ Len(toServer[c]) \in Nat /\ (toServer[c] = << >> <=> Len(toServer[c]) = 0)
      /\ Len(toClient[c]) \in Nat /\ (toClient[c] = << >> <=> Len(toClient[c]) = 0)
  BY ServerStream, ClientStream DEF IInv
<1> QED BY <1>1, <1>2, ClientLeavesServer DEF IInv, Sound, Stance

LEMMA SoundParts ==
  ASSUME NEW c,
         Phases(c)', Hails(c)', NotBefore(c)', Welcomed(c)',
         Ordered(c)', Replies(c)', Pending(c)', Truthful(c)'
  PROVE  Sound(c)'
  BY DEF Sound

LEMMA ConnectSound ==
  ASSUME BridgeAssumption, IInv, NEW c \in Clients, Connect(c)
  PROVE  Sound(c)'
<1>0. Stance(c)
  BY Stepper DEF ClientStep
<1> USE <1>0 DEF Stance
<1>1. /\ client[c] = "new" /\ client'[c] = "hello" /\ calls'[c] = calls[c]
      /\ UNCHANGED <<late, torn>>
      /\ toClient'[c] = << >> /\ c \notin left' /\ serving # c /\ Unlogged(c)
  BY Types DEF Connect, Phases, NotBefore
<1>2. PICK h \in Request : toServer' = Put(toServer, c, h)
  BY Hellos DEF Connect
<1>3. Len(toServer'[c]) = 1
  <2>1. toServer[c] = << >>
    BY <1>1 DEF Phases
  <2>2. Grew(toServer[c], toServer'[c], h)
    BY <1>2, ServerStream
  <2> QED BY <2>1, <2>2 DEF Grew
<1>4. Len(toClient'[c]) = 0
  BY <1>1
<1>5. ~Served(c)' /\ ~Connected(c)'
  BY <1>1 DEF Served, Connected
<1>6. Phases(c)' /\ Hails(c)' /\ Welcomed(c)'
  BY <1>1, <1>3, <1>4, <1>5 DEF Phases, Hails, Welcomed
<1>7. NotBefore(c)'
  BY <1>1 DEF NotBefore, Unlogged
<1>8. Ordered(c)' /\ Replies(c)' /\ Pending(c)' /\ Truthful(c)'
  BY <1>1, <1>5 DEF Ordered, Replies, Pending, Truthful
<1> QED BY <1>6, <1>7, <1>8, SoundParts

\* A client that drops its stream.
LEMMA DropSound ==
  ASSUME BridgeAssumption, IInv, NEW c \in Clients, ClientStep(c), Drop(c),
         client[c] # "new",
         UNCHANGED <<calls, late, torn, result, toServer, dropped, backlog>>
  PROVE  Sound(c)'
<1>0. Stance(c)
  BY Stepper
<1> USE <1>0 DEF Stance
<1>1. /\ client'[c] = "gone" /\ c \in left'
      /\ toClient'[c] = << >> /\ toServer'[c] = toServer[c]
  BY Types, ClientStream DEF Drop
<1>2. Waiting(c)' <=> Waiting(c)
  BY DEF Waiting, InBacklog
<1>3. Phases(c)' /\ Hails(c)' /\ NotBefore(c)'
  BY <1>1, <1>2 DEF Phases, Hails, NotBefore, Unlogged
<1>4. Ordered(c)'
  BY <1>1 DEF Ordered, Served, Working
<1>5. Welcomed(c)' /\ Replies(c)' /\ Pending(c)' /\ Truthful(c)'
  BY <1>1 DEF Welcomed, Connected, Replies, Pending, Truthful
<1> QED BY <1>3, <1>4, <1>5, SoundParts

LEMMA HandshakeSound ==
  ASSUME BridgeAssumption, IInv, NEW c \in Clients, Handshake(c)
  PROVE  Sound(c)'
<1>0. ClientStep(c)
  BY DEF ClientStep
<1>1. CASE Drop(c)
  BY <1>0, <1>1, DropSound DEF Handshake
<1>2. CASE ~Drop(c)
  <2>0. Stance(c)
    BY <1>0, Stepper
  <2> USE <2>0 DEF Stance
  <2>1. /\ client[c] = "hello" /\ client'[c] = "ready" /\ calls[c] = 0
        /\ UNCHANGED <<calls, late, torn, toServer, left, dropped, backlog>>
    BY <1>2, Types DEF Handshake, Phases
  <2>2. toClient[c] # << >> /\ toClient[c][1].status = "ok" /\ Len(toClient'[c]) = 0
    BY <1>2, <2>1, ClientStream DEF Handshake, Shrank, Welcomed
  <2>3. ~Waiting(c)
    BY <2>1, <2>2 DEF Hails
  <2>4. ~Waiting(c)'
    BY <2>1, <2>3 DEF Waiting, InBacklog
  <2>5. c \in left \/ Served(c)
    BY <2>1, <2>2 DEF Welcomed
  <2>6. Served(c) => ~Working /\ Len(toServer[c]) = 0
    BY <2>1 DEF Ordered, Served, Working, InHand
  <2>7. Phases(c)' /\ Hails(c)' /\ NotBefore(c)' /\ Truthful(c)'
    BY <2>1, <2>4 DEF Phases, Hails, NotBefore, Truthful
  <2>8. Welcomed(c)'
    BY <2>1, <2>5 DEF Welcomed, Served
  <2>9. Ordered(c)' /\ Pending(c)'
    BY <2>1, <2>2, <2>6 DEF Ordered, Pending, Served, Working
  <2>10. Replies(c)'
    BY <2>2 DEF Replies, Increasing
  <2> QED BY <2>7, <2>8, <2>9, <2>10, SoundParts
<1> QED BY <1>1, <1>2

LEMMA LeaveSound ==
  ASSUME BridgeAssumption, IInv, NEW c \in Clients, Leave(c)
  PROVE  Sound(c)'
  BY DropSound DEF Leave, ClientStep

LEMMA BreakSound ==
  ASSUME BridgeAssumption, IInv, NEW c \in Clients, Break(c)
  PROVE  Sound(c)'
<1>0. Stance(c)
  BY Stepper DEF ClientStep
<1> USE <1>0 DEF Stance
<1>1. /\ client[c] # "new" /\ c \in left' /\ c \in dropped'
      /\ UNCHANGED <<client, calls, late, torn, result, toServer, toClient, backlog>>
  BY DEF Break, clientVars
<1>2. Waiting(c)' <=> Waiting(c)
  BY <1>1 DEF Waiting, InBacklog
<1>3. Phases(c)' /\ Hails(c)' /\ NotBefore(c)' /\ Welcomed(c)'
  BY <1>1, <1>2 DEF Phases, Hails, NotBefore, Welcomed, Unlogged
<1>4. Ordered(c)'
  BY <1>1 DEF Ordered, Served, Working
<1>5. Replies(c)' /\ Pending(c)' /\ Truthful(c)'
  BY <1>1 DEF Replies, Pending, Truthful, Connected, Recent, Logged
<1> QED BY <1>3, <1>4, <1>5, SoundParts

LEMMA TransactSound ==
  ASSUME BridgeAssumption, IInv, NEW c \in Clients, Transact(c)
  PROVE  Sound(c)'
<1>0. Stance(c)
  BY Stepper DEF ClientStep
<1> USE <1>0 DEF Stance
<1>1. /\ client[c] = "ready" /\ client'[c] = "waiting" /\ calls'[c] = calls[c] + 1
      /\ UNCHANGED <<late, torn, result, toClient, left, dropped, backlog>>
  BY Types DEF Transact
<1> DEFINE n == calls[c] + 1
<1>2. \/ c \in left \cup dropped /\ toServer'[c] = toServer[c]
      \/ /\ c \notin left \cup dropped
         /\ Grew(toServer[c], toServer'[c], [of |-> n, status |-> "request"])
  <2>1. n \in 0..MaxCalls
    BY DEF Transact, BridgeAssumption
  <2>2. [of |-> n, status |-> "request"] \in Request
    BY <2>1 DEF Request
  <2> QED BY <2>2, ServerStream DEF Transact
<1>3. ~Waiting(c) /\ ~Waiting(c)'
  BY <1>1 DEF Hails, Waiting, InBacklog
<1>4. Served(c) => (Working => job.of < n)
  BY DEF Served, InHand, Working
<1>5. \A i \in 1..Len(log) : log[i].client = c => log[i].call < n
  BY DEF Journal
<1>6. Phases(c)' /\ Hails(c)' /\ NotBefore(c)' /\ Truthful(c)'
  BY <1>1, <1>3 DEF Phases, Hails, NotBefore, Truthful
<1>7. Welcomed(c)'
  BY <1>1 DEF Welcomed, Served, Connected
<1>8. Ordered(c)'
  <2>1. CASE ~Served(c)
    BY <2>1 DEF Ordered, Served
  <2>2. CASE Served(c) /\ toServer'[c] = toServer[c]
    <3>1. Increasing(toServer'[c])
      BY <2>2 DEF Ordered
    <3>2. \A k \in 1..Len(toServer[c]) : toServer[c][k].of \in 1..calls[c]'
      <4>1. \A k \in 1..Len(toServer[c]) : toServer[c][k].of \in 1..calls[c]
        BY <2>2 DEF Ordered
      <4>2. calls[c] \in Nat
        BY Types
      <4> QED BY <1>1, <4>1, <4>2
    <3> QED BY <2>2, <3>1, <3>2 DEF Ordered, Served, Working
  <2>3. CASE Served(c) /\ Grew(toServer[c], toServer'[c], [of |-> n, status |-> "request"])
    <3>0. \A k \in 1..Len(toServer'[c]) :
            \/ k \in 1..Len(toServer[c]) /\ toServer'[c][k] = toServer[c][k]
            \/ toServer'[c][k] = [of |-> n, status |-> "request"]
      BY <2>3, GrewElements
    <3>4. \A k \in 1..Len(toServer[c]) :
            /\ toServer[c][k].status = "request" /\ toServer[c][k].of \in 1..n
            /\ toServer[c][k].of < n
            /\ Working => job.of < toServer[c][k].of
            /\ \A i \in 1..Len(log) : log[i].client = c => log[i].call < toServer[c][k].of
      BY <2>3 DEF Ordered
    <3>1. \A k \in 1..Len(toServer'[c]) :
            /\ toServer'[c][k].status = "request" /\ toServer'[c][k].of \in 1..n
            /\ Working => job.of < toServer'[c][k].of
            /\ \A i \in 1..Len(log) : log[i].client = c => log[i].call < toServer'[c][k].of
      <4> SUFFICES ASSUME NEW k \in 1..Len(toServer'[c]),
                          toServer'[c][k] = [of |-> n, status |-> "request"]
                   PROVE  /\ toServer'[c][k].status = "request" /\ toServer'[c][k].of \in 1..n
                          /\ Working => job.of < toServer'[c][k].of
                          /\ \A i \in 1..Len(log) : log[i].client = c =>
                                log[i].call < toServer'[c][k].of
        BY <3>0, <3>4, Zenon
      <4>1. toServer'[c][k].of = n /\ toServer'[c][k].status = "request"
        OBVIOUS
      <4>2. n \in 1..n
        OBVIOUS
      <4> QED BY <1>4, <1>5, <2>3, <4>1, <4>2, Zenon
    <3>2. Increasing(toServer'[c])
      BY <2>3, <3>4, GrewIncreasing DEF Ordered
    <3> QED BY <1>1, <3>1, <3>2 DEF Ordered, Working
  <2> QED BY <1>2, <2>1, <2>2, <2>3
<1>9. \A m \in Nat : Recent(c, m) => Recent(c, m)'
  BY <1>1 DEF Recent
<1>10. \A m \in Nat : m = n => Recent(c, m)'
  BY <1>1 DEF Recent
<1>11. Replies(c)'
  <2>1. \A k \in 1..Len(toClient[c]) : toClient[c][k].of \in Nat
    BY ClientFrames 
  <2> QED BY <1>1, <1>9, <2>1 DEF Replies, Connected, Logged
<1>12. Pending(c)'
  <2>1. CASE c \in left \cup dropped \cup torn \/ ~Served(c)
    BY <1>1, <2>1 DEF Pending, Served
  <2>2. CASE c \notin left \cup dropped \cup torn /\ Served(c)
    <3>1. \A k \in 1..Len(toServer[c]) : toServer[c][k].of \in Nat
      BY <2>2 DEF Ordered
    <3>2. Working => job.of \in Nat
      BY <2>2 DEF Served, Working, InHand
    <3>3. \A k \in 1..Len(toClient[c]) : toClient[c][k].of < n
      <4>1. \A k \in 1..Len(toClient[c]) : toClient[c][k].of <= calls[c]
        BY <1>1, <2>2 DEF Replies, Connected
      <4>2. \A k \in 1..Len(toClient[c]) : toClient[c][k].of \in Nat
        BY ClientFrames
      <4> QED BY <4>1, <4>2
    <3>4. \A k \in 1..Len(toServer[c]) :
            /\ toServer'[c][k] = toServer[c][k] /\ Recent(c, toServer[c][k].of)'
      BY <1>1, <1>2, <1>9, <2>2, <3>1 DEF Grew, Pending, Connected
    <3>5. Len(toServer'[c]) = Len(toServer[c]) + 1 /\ toServer'[c][Len(toServer'[c])].of = n
      BY <1>2, <2>2 DEF Grew
    <3>6. Pending(c)
      BY Zenon
    <3>7. Connected(c)
      BY <1>1 DEF Connected
    <3>8. Working' => /\ Recent(c, job.of)'
                      /\ \A k \in 1..Len(toClient[c]) : toClient[c][k].of < job.of
      BY <1>9, <2>2, <3>2, <3>6, <3>7 DEF Pending, Working
    <3>9. \A m \in 1..Len(toServer'[c]) :
            /\ Recent(c, toServer[c][m].of)'
            /\ \A k \in 1..Len(toClient[c]) : toClient[c][k].of < toServer'[c][m].of
      <4>1. ASSUME NEW m \in 1..Len(toServer[c])
            PROVE  \A k \in 1..Len(toClient[c]) : toClient[c][k].of < toServer[c][m].of
        BY <2>2, <3>6, <3>7 DEF Pending
      <4>2. \A m \in 1..Len(toServer'[c]) : m \in 1..Len(toServer[c]) \/ m = Len(toServer'[c])
        BY <3>5
      <4>3. Recent(c, toServer[c][Len(toServer[c])].of)'
        BY <1>10, <3>5
      <4> QED BY <3>3, <3>4, <3>5, <4>1, <4>2, <4>3
    <3> QED BY <1>1, <3>8, <3>9 DEF Pending
  <2> QED BY <2>1, <2>2
<1> QED BY <1>6, <1>7, <1>8, <1>11, <1>12, SoundParts

\* What a call that returns leaves as it was.
LEMMA ReturnSound ==
  ASSUME NEW c \in Clients, Stance(c),
         client[c] = "waiting", client'[c] = "ready",
         UNCHANGED <<calls, toServer, left, dropped, backlog>>
  PROVE  Phases(c)' /\ Hails(c)' /\ NotBefore(c)' /\ Welcomed(c)' /\ Ordered(c)'
<1> USE DEF Stance
<1>1. ~Waiting(c) /\ ~Waiting(c)'
  BY DEF Hails, Waiting, InBacklog
<1>2. Phases(c)' /\ Hails(c)' /\ NotBefore(c)'
  BY <1>1 DEF Phases, Hails, NotBefore
<1>3. Welcomed(c)'
  BY DEF Welcomed, Served, Connected
<1>4. Ordered(c)'
  BY DEF Ordered, Served, Working
<1> QED BY <1>2, <1>3, <1>4

\* A call that returns to a client whose stream is, or is now, cut inside a frame.
LEMMA TornSound ==
  ASSUME NEW c \in Clients, Stance(c),
         client[c] = "waiting", client'[c] = "ready", c \in torn', late'[c] > 0,
         UNCHANGED <<calls, toServer, left, dropped, backlog>>
  PROVE  Sound(c)'
<1>1. Phases(c)' /\ Hails(c)' /\ NotBefore(c)' /\ Welcomed(c)' /\ Ordered(c)'
  BY ReturnSound
<1>2. Replies(c)' /\ Pending(c)' /\ Truthful(c)'
  BY DEF Replies, Pending, Truthful
<1> QED BY <1>1, <1>2, SoundParts

LEMMA MisreadSound ==
  ASSUME BridgeAssumption, IInv, NEW c \in Clients, Misread(c)
  PROVE  Sound(c)'
<1>0. Stance(c)
  BY Stepper DEF ClientStep
<1>1. /\ client[c] = "waiting" /\ client'[c] = "ready" /\ c \in torn' /\ late'[c] = late[c]
      /\ UNCHANGED <<calls, toServer, left, dropped, backlog>>
  BY <1>0, Types DEF Stance, Misread, Return
<1>2. late[c] > 0
  BY <1>0, <1>1 DEF Stance, Truthful, Misread
<1> QED BY <1>0, <1>1, <1>2, TornSound

LEMMA GiveUpSound ==
  ASSUME BridgeAssumption, IInv, NEW c \in Clients, GiveUp(c)
  PROVE  Sound(c)'
<1>0. Stance(c)
  BY Stepper DEF ClientStep
<1> USE <1>0 DEF Stance
<1>1. /\ client[c] = "waiting" /\ client'[c] = "ready" /\ late'[c] = late[c] + 1
      /\ UNCHANGED <<calls, toServer, left, dropped, backlog>>
  BY Types DEF GiveUp, Return
<1>2. result'[c] = [of |-> calls[c], status |-> "err"]
  BY Types DEF GiveUp, Return
<1>3. CASE c \in torn'
  BY <1>1, <1>3, TornSound
<1>4. CASE c \notin torn'
  <2>0. c \notin torn /\ toClient' = toClient
    BY <1>4 DEF GiveUp
  <2>1. Phases(c)' /\ Hails(c)' /\ NotBefore(c)' /\ Welcomed(c)' /\ Ordered(c)'
    BY <1>1, ReturnSound
  <2>2. \A m \in Nat : Recent(c, m) => Recent(c, m)'
    BY <1>1 DEF Recent
  <2>3. Replies(c)'
    <3>1. \A k \in 1..Len(toClient[c]) : toClient[c][k].of \in Nat
      BY ClientFrames
    <3> QED BY <1>1, <2>0, <2>2, <3>1 DEF Replies, Connected, Logged
  <2>4. Pending(c)'
    <3>1. CASE ~Served(c)
      BY <1>1, <3>1 DEF Pending, Served
    <3>2. CASE Served(c)
      <4>1. \A k \in 1..Len(toServer[c]) : toServer[c][k].of \in Nat
        BY <3>2 DEF Ordered
      <4>2. Working => job.of \in Nat
        BY <3>2 DEF Served, Working, InHand
      <4> QED BY <1>1, <2>0, <2>2, <3>2, <4>1, <4>2 DEF Pending, Connected, Working
    <3> QED BY <3>1, <3>2
  <2>5. Truthful(c)'
    BY <1>1, <1>2, <1>4 DEF Truthful
  <2> QED BY <2>1, <2>3, <2>4, <2>5, SoundParts
<1> QED BY <1>3, <1>4

LEMMA AnswerSound ==
  ASSUME BridgeAssumption, IInv, NEW c \in Clients, Answer(c)
  PROVE  Sound(c)'
<1>0. Stance(c)
  BY Stepper DEF ClientStep
<1> USE <1>0 DEF Stance
<1>1. /\ client[c] = "waiting" /\ client'[c] = "ready"
      /\ UNCHANGED <<calls, late, torn, toServer, left, dropped, backlog>>
  BY Types DEF Answer, Return
<1>2. Phases(c)' /\ Hails(c)' /\ NotBefore(c)' /\ Welcomed(c)' /\ Ordered(c)'
  BY <1>1, ReturnSound
<1>3. CASE /\ c \notin torn /\ toClient[c] # << >> /\ toClient' = Take(toClient, c)
           /\ Return(c, Head(toClient[c]).of, Head(toClient[c]).status)
  <2> DEFINE r == toClient[c][1]
  <2>1. /\ Shrank(toClient[c], toClient'[c]) /\ Head(toClient[c]) = r
        /\ 1 \in 1..Len(toClient[c])
    BY <1>3, ClientStream DEF Shrank
  <2>2. result'[c] = [of |-> r.of, status |-> r.status]
    BY <1>3, <2>1, Types DEF Return
  <2>3. \A k \in 1..Len(toClient[c]) :
          /\ toClient[c][k].of \in Nat /\ toClient[c][k].of <= calls[c]
          /\ toClient[c][k].of + late[c] >= calls[c]
          /\ toClient[c][k].status = "ok" => Logged(c, toClient[c][k].of)
    BY <1>1, <1>3, ClientFrames DEF Replies, Connected, Recent
  <2>4. /\ r.of \in Nat /\ r.of <= calls[c] /\ r.of + late[c] >= calls[c]
        /\ r.status = "ok" => Logged(c, r.of)
    BY <2>1, <2>3
  <2>5. /\ Increasing(toClient'[c])
        /\ \A k \in 1..Len(toClient'[c]) : r.of < toClient'[c][k].of
    BY <1>1, <1>3, <2>1, ShrankIncreasing DEF Replies, Connected
  <2>6. \A m \in Nat : r.of < m => Recent(c, m)'
    BY <1>1, <2>4 DEF Recent
  <2>7. Truthful(c)'
    BY <1>1, <2>2, <2>4 DEF Truthful, Logged
  <2>8. \A k \in 1..Len(toClient'[c]) :
          k + 1 \in 1..Len(toClient[c]) /\ toClient'[c][k] = toClient[c][k + 1]
    BY <2>1, ShrankElements
  <2>9. Replies(c)'
    <3>1. \A k \in 1..Len(toClient'[c]) :
            /\ Recent(c, toClient[c][k].of)' /\ toClient'[c][k].of <= calls[c]
            /\ toClient'[c][k].status = "ok" => Logged(c, toClient'[c][k].of)
      BY <2>3, <2>5, <2>6, <2>8
    <3> QED BY <1>1, <2>5, <3>1 DEF Replies, Logged
  <2>10. Pending(c)'
    <3>1. CASE c \in left \cup dropped \/ ~Served(c)
      BY <1>1, <3>1 DEF Pending, Served
    <3>2. CASE c \notin left \cup dropped /\ Served(c)
      <4>1. \A m \in 1..Len(toServer[c]) : toServer[c][m].of \in Nat
        BY <3>2 DEF Ordered
      <4>2. Working => job.of \in Nat
        BY <3>2 DEF Served, Working, InHand
      <4>3. Working => \A k \in 1..Len(toClient[c]) : toClient[c][k].of < job.of
        BY <1>1, <1>3, <3>2 DEF Pending, Connected
      <4>4. \A m \in 1..Len(toServer[c]) : \A k \in 1..Len(toClient[c]) :
              toClient[c][k].of < toServer[c][m].of
        BY <1>1, <1>3, <3>2 DEF Pending, Connected
      <4>5. Working' => /\ Recent(c, job.of)'
                        /\ \A k \in 1..Len(toClient'[c]) : toClient'[c][k].of < job.of
        BY <2>1, <2>6, <2>8, <4>2, <4>3 DEF Working
      <4>6. \A m \in 1..Len(toServer[c]) :
              /\ Recent(c, toServer[c][m].of)'
              /\ \A k \in 1..Len(toClient'[c]) : toClient'[c][k].of < toServer[c][m].of
        BY <1>1, <2>1, <2>6, <2>8, <4>1, <4>4
      <4> QED BY <1>1, <4>5, <4>6 DEF Pending
    <3> QED BY <3>1, <3>2
  <2> QED BY <1>2, <2>7, <2>9, <2>10, SoundParts
<1>4. CASE /\ c \in dropped /\ toClient' = Discard(toClient, c)
           /\ Return(c, calls[c], "err")
  <2>1. Len(toClient'[c]) = 0
    BY <1>4, ClientStream
  <2>2. result'[c] = [of |-> calls[c], status |-> "err"]
    BY <1>4, Types DEF Return
  <2>3. Replies(c)' /\ Pending(c)'
    BY <1>1, <1>4, <2>1 DEF Replies, Pending, Increasing
  <2>4. Truthful(c)'
    BY <1>1, <2>2 DEF Truthful
  <2> QED BY <1>2, <2>3, <2>4, SoundParts
<1> QED BY <1>3, <1>4 DEF Answer

LEMMA ClientStepSound ==
  ASSUME BridgeAssumption, IInv, NEW c \in Clients, ClientStep(c)
  PROVE  \A d \in Clients : Sound(d)'
<1>1. Sound(c)'
  BY ConnectSound, HandshakeSound, TransactSound, AnswerSound, MisreadSound, GiveUpSound, LeaveSound,
     BreakSound DEF ClientStep
<1>2. ASSUME NEW d \in Clients, d # c
      PROVE  Sound(d)'
  BY <1>2, OthersUntouched, UntouchedStaysSound DEF IInv
<1> QED BY <1>1, <1>2

-----------------------------------------------------------------------------
(* The steps of the serving thread.                                        *)

\* What the thread leaves to the clients.
Aside == UNCHANGED <<client, calls, late, torn, result, left>>

\* Of a client it neither has, nor had, nor accepts, it leaves everything.
LEMMA ThreadLeavesOthers ==
  ASSUME TypeOK, Aside, NEW d \in Clients, serving # d, serving' # d,
         toServer'[d] = toServer[d], toClient'[d] = toClient[d],
         d \in dropped => d \in dropped',
         d \in dropped' => d \in dropped \/ client[d] # "new",
         InBacklog(d)' => InBacklog(d),
         \/ log' = log
         \/ \E e \in Entry : Grew(log, log', e) /\ e.client # d
  PROVE  Untouched(d)
<1>1. (Unlogged(d) => Unlogged(d)') /\ \A n : Logged(d, n) => Logged(d, n)'
  <2>1. CASE log' = log
    BY <2>1 DEF Unlogged, Logged
  <2>2. CASE \E e \in Entry : Grew(log, log', e) /\ e.client # d
    <3>1. PICK e \in Entry : Grew(log, log', e) /\ e.client # d
      BY <2>2
    <3>2. /\ \A k \in 1..Len(log') : (k \in 1..Len(log) /\ log'[k] = log[k]) \/ log'[k] = e
          /\ \A k \in 1..Len(log) : k \in 1..Len(log') /\ log'[k] = log[k]
      BY <3>1, GrewElements
    <3> QED BY <3>1, <3>2 DEF Unlogged, Logged
  <2> QED BY <2>1, <2>2
<1> QED BY <1>1 DEF Untouched, Aside

LEMMA JournalStays ==
  ASSUME Journal, log' = log, calls' = calls, serving' = serving
  PROVE  Journal'
BY DEF Journal

LEMMA JournalOfOthers ==
  ASSUME Journal, log' = log, calls' = calls,
         \A i \in 1..Len(log) : log[i].client # serving'
  PROVE  Journal'
BY DEF Journal

\* The thread has no connection, before and after.
LEMMA IdleKeeps ==
  ASSUME BridgeAssumption, IInv, CheckStop \/ AcceptNothing \/ EndLoop
  PROVE  Line' /\ InHand' /\ Journal' /\ \A d \in Clients : Sound(d)'
<1> USE DEF IInv
<1>1. /\ Aside /\ UNCHANGED <<serving, toServer, toClient, log>>
      /\ serving = NoClient /\ server' \in {"check", "accept", "ended"}
  BY DEF CheckStop, AcceptNothing, EndLoop, Aside, clientVars, wireVars, TypeOK
<1>2. NoClient \notin Clients
  BY DEF BridgeAssumption
<1>3. \/ backlog' = backlog /\ dropped' = dropped
      \/ /\ Len(backlog') = 0 /\ dropped \subseteq dropped'
         /\ \A d : d \in dropped' => d \in dropped \/ InBacklog(d)
  <2>1. CASE CheckStop \/ AcceptNothing
    BY <2>1 DEF CheckStop, AcceptNothing, wireVars
  <2>2. CASE EndLoop
    <3>1. DOMAIN backlog = 1..Len(backlog)
      BY Types, LenProperties
    <3>2. \A d \in Range(backlog) : InBacklog(d)
      BY <3>1 DEF Range, InBacklog
    <3> QED BY <2>2, <3>2, EmptySeq DEF EndLoop
  <2> QED BY <2>1, <2>2
<1>4. Line'
  BY <1>1, <1>3 DEF Line
<1>5. InHand' /\ Journal'
  <2>1. InHand'
    BY <1>1 DEF InHand, Working
  <2>2. Journal'
    BY <1>1, JournalStays DEF Aside
  <2> QED BY <2>1, <2>2
<1>6. ASSUME NEW d \in Clients
      PROVE  Sound(d)'
  <2>1. InBacklog(d)' => InBacklog(d)
    BY <1>3 DEF InBacklog
  <2>2. client[d] = "new" => ~InBacklog(d)
    BY DEF Sound, Phases
  <2>3. Untouched(d)
    BY <1>1, <1>2, <1>3, <2>1, <2>2, ThreadLeavesOthers
  <2> QED BY <2>3, UntouchedStaysSound
<1> QED BY <1>4, <1>5, <1>6

LEMMA AcceptKeeps ==
  ASSUME BridgeAssumption, IInv, Accept
  PROVE  Line' /\ InHand' /\ Journal' /\ \A d \in Clients : Sound(d)'
<1> USE DEF IInv
<1>0. /\ Shrank(backlog, backlog')
      /\ Head(backlog) = backlog[1] /\ backlog[1] \in Clients
  BY Types, TailShrinks DEF Accept
<1>1. PICK h \in Clients : h = backlog[1] /\ h = Head(backlog)
  BY <1>0
<1>2. /\ Aside /\ UNCHANGED <<toServer, toClient, job, log>> /\ serving = NoClient
  BY DEF Accept, Accepts, Aside, clientVars, TypeOK
<1>3. \/ server' = "hello" /\ serving' = h /\ dropped' = dropped
      \/ server' = "check" /\ serving' = NoClient /\ dropped' = dropped \cup {h}
  BY <1>1, <1>2 DEF Accept
<1>4. /\ \A k \in 1..Len(backlog') : k + 1 \in 1..Len(backlog) /\ backlog'[k] = backlog[k + 1]
      /\ 1 \in 1..Len(backlog)
  BY <1>0, ShrankElements
<1>5. InBacklog(h) /\ Unlogged(h) /\ client[h] \in {"hello", "gone"}
      /\ toClient[h] = << >> /\ Len(toServer[h]) = 1
  BY <1>1, <1>4 DEF InBacklog, Sound, NotBefore, Hails, Waiting
<1>6. \A k \in 1..Len(backlog') : backlog'[k] # h /\ backlog'[k] \in Clients
  <2>1. ASSUME NEW k \in 1..Len(backlog')
        PROVE  backlog'[k] # h /\ backlog'[k] \in Clients
    <3>1. k + 1 \in 1..Len(backlog) /\ backlog'[k] = backlog[k + 1] /\ k + 1 # 1
      BY <1>4
    <3>2. backlog[k + 1] \in Clients
      BY <3>1, Types, ElementOfSeq
    <3> QED BY <1>1, <1>4, <3>1, <3>2 DEF Line
  <2> QED BY <2>1
<1>7. Line'
  <2>1. \A i, j \in 1..Len(backlog') : backlog'[i] = backlog'[j] => i = j
    <3>1. ASSUME NEW i \in 1..Len(backlog'), NEW j \in 1..Len(backlog'),
                 backlog'[i] = backlog'[j]
          PROVE  i = j
      <4>1. /\ i + 1 \in 1..Len(backlog) /\ backlog'[i] = backlog[i + 1]
            /\ j + 1 \in 1..Len(backlog) /\ backlog'[j] = backlog[j + 1]
        BY <1>4
      <4>2. i + 1 = j + 1
        BY <3>1, <4>1 DEF Line
      <4> QED BY <4>2
    <3> QED BY <3>1
  <2>2. \A i \in 1..Len(backlog') : backlog'[i] # serving'
    BY <1>3, <1>6 DEF BridgeAssumption
  <2> QED BY <2>1, <2>2 DEF Line
<1>8. InHand'
  BY <1>3 DEF InHand, Working
<1>9. Journal'
  <2>1. \A i \in 1..Len(log) : log[i].client # serving'
    BY <1>3, <1>5, LogTyped DEF Unlogged, BridgeAssumption
  <2> QED BY <1>2, <2>1, JournalOfOthers DEF Aside
<1>10. Sound(h)'
  <2>1. /\ client'[h] = client[h] /\ calls'[h] = calls[h] /\ toClient'[h] = << >>
        /\ h \in left' <=> h \in left
        /\ Len(toServer'[h]) = 1 /\ Len(toClient'[h]) = 0 /\ log' = log
        /\ UNCHANGED <<late, torn>>
    BY <1>2, <1>5, EmptySeq DEF Aside
  <2>2. Sound(h)
    BY <1>1
  <2>3. ~Served(h)' /\ ~Connected(h)' /\ client'[h] # "ready"
    BY <1>1, <1>3, <1>5, <2>1 DEF Served, Connected, BridgeAssumption
  <2>4. Phases(h)' /\ Hails(h)' /\ NotBefore(h)' /\ Welcomed(h)'
    BY <1>5, <2>1, <2>2, <2>3 DEF Sound, Phases, Hails, NotBefore, Welcomed, Unlogged
  <2>5. Ordered(h)' /\ Replies(h)' /\ Pending(h)' /\ Truthful(h)'
    BY <2>1, <2>2, <2>3 DEF Sound, Ordered, Replies, Pending, Truthful
  <2> QED BY <2>4, <2>5, SoundParts
<1>11. ASSUME NEW d \in Clients, d # h
       PROVE  Sound(d)'
  <2>1. InBacklog(d)' => InBacklog(d)
    BY <1>1, <1>4 DEF InBacklog
  <2>2. serving # d /\ serving' # d
    BY <1>2, <1>3, <1>11 DEF BridgeAssumption
  <2>3. Untouched(d)
    BY <1>2, <1>3, <1>11, <2>1, <2>2, ThreadLeavesOthers
  <2> QED BY <2>3, UntouchedStaysSound
<1> QED BY <1>7, <1>8, <1>9, <1>10, <1>11

\* A step for the connection c that the thread has.
SessionStep(c) ==
  /\ Aside /\ backlog' = backlog
  /\ serving = c /\ serving' \in {c, NoClient}
  /\ toServer' \in {toServer, Take(toServer, c), Discard(toServer, c)}
  /\ toClient' = toClient \/ \E x \in Response : toClient' = Deliver(toClient, c, x)
  /\ dropped' \in {dropped, dropped \cup {c}}
  /\ log' = log \/ \E e \in Entry : Grew(log, log', e) /\ e.client = c

LEMMA SessionKeepsOthers ==
  ASSUME BridgeAssumption, IInv, NEW c \in Clients, SessionStep(c)
  PROVE  Line' /\ \A d \in Clients : d # c => Sound(d)'
<1>0. /\ TypeOK /\ Line /\ \A d \in Clients : Sound(d)
      /\ toServer' \in {toServer, Take(toServer, c), Discard(toServer, c)}
      /\ toClient' = toClient \/ \E x \in Response : toClient' = Deliver(toClient, c, x)
      /\ serving = c /\ serving' \in {c, NoClient} /\ backlog' = backlog /\ Aside
  BY DEF IInv, SessionStep
<1>00. /\ dropped' \in {dropped, dropped \cup {c}}
       /\ log' = log \/ \E e \in Entry : Grew(log, log', e) /\ e.client = c
  BY DEF SessionStep
<1>1. NoClient \notin Clients
  BY DEF BridgeAssumption
<1>2. Line'
  <2>1. \A i \in 1..Len(backlog) : backlog[i] \in Clients
    BY <1>0, Types, ElementOfSeq
  <2> QED BY <1>0, <1>1, <2>1 DEF Line
<1>3. ASSUME NEW d \in Clients, d # c
      PROVE  Sound(d)'
  <2>0. toServer \in [Clients -> Seq(Request)] /\ toClient \in [Clients -> Seq(Response)]
    BY <1>0, Types
  <2>1. toServer'[d] = toServer[d]
    <3>1. Take(toServer, c)[d] = toServer[d] /\ Discard(toServer, c)[d] = toServer[d]
      BY <1>3, <2>0, OtherStreams
    <3> QED BY <1>0, <3>1
  <2>2. toClient'[d] = toClient[d]
    <3>1. \A x : Deliver(toClient, c, x)[d] = toClient[d]
      BY <1>3, <2>0, OtherStreams
    <3> QED BY <1>0, <3>1
  <2>3. InBacklog(d)' => InBacklog(d)
    BY <1>0 DEF InBacklog
  <2>4. Untouched(d)
    BY <1>0, <1>00, <1>1, <1>3, <2>1, <2>2, <2>3, ThreadLeavesOthers
  <2> QED BY <1>0, <2>4, UntouchedStaysSound
<1> QED BY <1>2, <1>3

LEMMA AtMostOne == \A n \in {0, 1} : n <= 1
  OBVIOUS

\* The answer to a hello is all that a client has to read, if it comes.
LEMMA HelloAnswered ==
  ASSUME TypeOK, NEW c \in Clients, NEW x \in Response, toClient[c] = << >>,
         toClient' = Deliver(toClient, c, x)
  PROVE  \/ c \in left \cup dropped /\ toClient'[c] = << >>
         \/ /\ c \notin left \cup dropped
            /\ toClient'[c][1] = x /\ Len(toClient'[c]) = 1
<1>1. Len(toClient[c]) = 0
  BY ClientStream
<1>2. CASE c \in left \cup dropped /\ toClient'[c] = toClient[c]
  BY <1>2
<1>3. CASE c \notin left \cup dropped /\ Grew(toClient[c], toClient'[c], x)
  BY <1>1, <1>3 DEF Grew
<1> QED BY <1>2, <1>3, ClientStream

\* The end of a session.  Its client has left, or was not welcome.
LEMMA HangupKeeps ==
  ASSUME BridgeAssumption, IInv, NEW c \in Clients, serving = c, Hangup, Aside,
         UNCHANGED <<backlog, log>>,
         \/ toClient' = toClient /\ c \in left
         \/ server = "hello" /\ toClient' = Deliver(toClient, c, [of |-> 0, status |-> "err"])
  PROVE  Line' /\ InHand' /\ Journal' /\ \A d \in Clients : Sound(d)'
<1> USE DEF IInv
<1>1. /\ server' = "check" /\ serving' = NoClient /\ NoClient \notin Clients
      /\ dropped' = dropped \cup {c} /\ toServer' = Discard(toServer, c)
  BY DEF Hangup, BridgeAssumption
<1>2. [of |-> 0, status |-> "err"] \in Response
  BY Hellos
<1>3. SessionStep(c)
  BY <1>1, <1>2 DEF SessionStep
<1>4. Line' /\ \A d \in Clients : d # c => Sound(d)'
  BY <1>3, SessionKeepsOthers
<1>5. InHand'
  BY <1>1 DEF InHand, Working
<1>6. Journal'
  <2>1. \A i \in 1..Len(log) : log[i].client # NoClient
    BY <1>1, LogTyped
  <2>2. log' = log /\ calls' = calls /\ serving' = NoClient
    BY <1>1 DEF Aside
  <2> QED BY <2>1, <2>2, JournalOfOthers
<1>7. Sound(c)'
  <2>1. Sound(c)
    OBVIOUS
  <2>2. ~Served(c)' /\ ~Waiting(c)' /\ ~InBacklog(c)'
    BY <1>1 DEF Served, Waiting, InBacklog, Line
  <2>3. client[c] # "new"
    BY <2>1 DEF Sound, Phases
  <2>4. CASE toClient' = toClient /\ c \in left
    <3>1. Phases(c)' /\ Hails(c)' /\ NotBefore(c)' /\ Welcomed(c)'
      BY <2>1, <2>2, <2>3, <2>4 DEF Aside, Sound, Phases, Hails, NotBefore, Welcomed
    <3>2. Ordered(c)' /\ Replies(c)' /\ Pending(c)' /\ Truthful(c)'
      BY <2>1, <2>2, <2>4 DEF Aside, Sound, Ordered, Replies, Pending, Truthful, Connected,
         Recent, Logged
    <3> QED BY <3>1, <3>2, SoundParts
  <2>5. CASE /\ server = "hello"
             /\ toClient' = Deliver(toClient, c, [of |-> 0, status |-> "err"])
    <3>1. /\ client[c] \in {"hello", "gone"} /\ toClient[c] = << >>
          /\ client[c] = "gone" => c \in left
      BY <2>1, <2>5 DEF Sound, Phases, Hails, Waiting
    <3>2. \/ c \in left \cup dropped /\ toClient'[c] = << >> /\ Len(toClient'[c]) = 0
          \/ /\ c \notin left \cup dropped /\ Len(toClient'[c]) = 1
             /\ toClient'[c][1].status = "err"
      BY <1>2, <2>5, <3>1, HelloAnswered, EmptySeq
    <3>3. Phases(c)' /\ Hails(c)' /\ NotBefore(c)'
      BY <2>1, <2>2, <3>1, <3>2 DEF Aside, Sound, Phases, Hails, NotBefore
    <3>5. Welcomed(c)'
      <4>1. Len(toClient'[c]) <= 1
        BY <3>2, AtMostOne, Zenon
      <4>2. toClient'[c] # << >> => toClient'[c][1].status # "ok"
        BY <3>2
      <4>3. ~Connected(c)'
        BY <3>1 DEF Aside, Connected
      <4> QED BY <4>1, <4>2, <4>3, Zenon DEF Welcomed
    <3>4. Ordered(c)' /\ Replies(c)' /\ Pending(c)' /\ Truthful(c)'
      BY <2>1, <2>2, <3>1 DEF Aside, Sound, Ordered, Replies, Pending, Truthful, Connected
    <3> QED BY <3>3, <3>4, <3>5, SoundParts
  <2> QED BY <2>4, <2>5
<1> QED BY <1>4, <1>5, <1>6, <1>7

LEMMA GreetKeeps ==
  ASSUME BridgeAssumption, IInv, Greet
  PROVE  Line' /\ InHand' /\ Journal' /\ \A d \in Clients : Sound(d)'
<1> USE DEF IInv
<1>1. PICK c \in Clients : c = serving
  BY ServedIsClient DEF Greet
<1>2. Aside /\ UNCHANGED <<backlog, log>> /\ server = "hello"
  BY DEF Greet, Aside, clientVars
<1>3. CASE Hangup
  <2>1. \/ toClient' = toClient /\ c \in left
        \/ toClient' = Deliver(toClient, c, [of |-> 0, status |-> "err"])
    BY <1>1, <1>3 DEF Greet, Hangup
  <2> QED BY <1>1, <1>2, <1>3, <2>1, HangupKeeps
<1>4. CASE ~Hangup
  <2>1. /\ toServer[c] # << >> /\ toServer' = Take(toServer, c)
        /\ toClient' = Deliver(toClient, c, [of |-> 0, status |-> "ok"])
        /\ server' = "read" /\ UNCHANGED <<serving, job, dropped>>
    BY <1>1, <1>4 DEF Greet
  <2>2. [of |-> 0, status |-> "ok"] \in Response
    BY Hellos
  <2>3. SessionStep(c)
    BY <1>1, <1>2, <2>1, <2>2 DEF SessionStep
  <2>4. Line' /\ \A d \in Clients : d # c => Sound(d)'
    BY <2>3, SessionKeepsOthers
  <2>5. InHand'
    BY <2>1 DEF InHand, Working
  <2>6. Journal'
    BY <1>2, <2>1 DEF Journal, Aside
  <2>7. Sound(c) /\ Waiting(c)
    BY <1>1, <1>2 DEF Waiting
  <2>8. /\ client[c] \in {"hello", "gone"} /\ toClient[c] = << >> /\ Len(toServer[c]) = 1
        /\ client[c] = "gone" => c \in left
    BY <2>7 DEF Sound, Phases, Hails
  <2>9. Len(toServer'[c]) = 0
    <3>1. Shrank(toServer[c], toServer'[c])
      BY <2>1, ServerStream
    <3> QED BY <2>8, <3>1 DEF Shrank
  <2>10. \/ c \in left \cup dropped /\ toClient'[c] = << >> /\ Len(toClient'[c]) = 0
         \/ c \notin left \cup dropped /\ Len(toClient'[c]) = 1
    BY <2>1, <2>2, <2>8, HelloAnswered, EmptySeq
  <2>11. ~Waiting(c)' /\ ~InBacklog(c)' /\ Served(c)'
    BY <1>1, <1>2, <2>1 DEF Waiting, InBacklog, Line, Served
  <2>12. Phases(c)' /\ Hails(c)' /\ NotBefore(c)'
    BY <1>2, <2>7, <2>8, <2>10, <2>11 DEF Aside, Sound, Phases, Hails, NotBefore
  <2>16. Welcomed(c)'
    <3>1. Len(toClient'[c]) <= 1
      BY <2>10, AtMostOne, Zenon
    <3>2. ~Connected(c)'
      BY <1>2, <2>8 DEF Aside, Connected
    <3> QED BY <2>11, <3>1, <3>2, Zenon DEF Welcomed
  <2>13. Ordered(c)'
    BY <2>9 DEF Ordered, Increasing
  <2>14. Replies(c)' /\ Pending(c)' /\ Truthful(c)'
    BY <1>2, <2>7, <2>8 DEF Aside, Sound, Replies, Pending, Truthful, Connected
  <2>15. Sound(c)'
    BY <2>12, <2>13, <2>14, <2>16, SoundParts
  <2> QED BY <2>4, <2>5, <2>6, <2>15
<1> QED BY <1>3, <1>4

LEMMA ReadRequestKeeps ==
  ASSUME BridgeAssumption, IInv, ReadRequest
  PROVE  Line' /\ InHand' /\ Journal' /\ \A d \in Clients : Sound(d)'
<1>0. TypeOK /\ Journal /\ \A d \in Clients : Sound(d)
  BY DEF IInv
<1>1. PICK c \in Clients : c = serving
  BY <1>0, ServedIsClient DEF ReadRequest
<1>2. Aside /\ UNCHANGED <<backlog, log, toClient>> /\ server = "read"
  BY DEF ReadRequest, Aside, clientVars
<1>3. CASE Hangup
  <2>1. c \in left
    BY <1>1, <1>3 DEF ReadRequest, Hangup
  <2> QED BY <1>1, <1>2, <1>3, <2>1, HangupKeeps
<1>4. CASE ~Hangup
  <2>1. /\ toServer[c] # << >> /\ toServer' = Take(toServer, c)
        /\ job' = Head(toServer[c])
        /\ server' = "cable" /\ UNCHANGED <<serving, dropped>>
    BY <1>1, <1>4 DEF ReadRequest
  <2>2. SessionStep(c)
    BY <1>1, <1>2, <2>1 DEF SessionStep
  <2>3. Line' /\ \A d \in Clients : d # c => Sound(d)'
    BY <2>2, SessionKeepsOthers
  <2>4. /\ Shrank(toServer[c], toServer'[c]) /\ job' = toServer[c][1]
        /\ 1 \in 1..Len(toServer[c])
    <3>1. /\ Shrank(toServer[c], Take(toServer, c)[c])
          /\ Head(toServer[c]) = toServer[c][1]
      BY <1>0, <2>1, ServerStream, Zenon
    <3>2. Shrank(toServer[c], toServer'[c]) /\ job' = toServer[c][1]
      BY <2>1, <3>1, Zenon
    <3>3. \A n \in Nat : n >= 1 => 1 \in 1..n
      OBVIOUS
    <3> QED BY <3>2, <3>3, Zenon DEF Shrank
  <2>5. \A k \in 1..Len(toServer'[c]) :
          k + 1 \in 1..Len(toServer[c]) /\ toServer'[c][k] = toServer[c][k + 1]
    BY <2>4, ShrankElements
  <2>6. Sound(c) /\ Served(c) /\ Served(c)'
    BY <1>0, <1>1, <1>2, <2>1 DEF Served
  <2>7. /\ \A k \in 1..Len(toServer[c]) :
             /\ toServer[c][k].status = "request" /\ toServer[c][k].of \in 1..calls[c]
             /\ \A i \in 1..Len(log) : log[i].client = c => log[i].call < toServer[c][k].of
        /\ Increasing(toServer[c])
    BY <2>6 DEF Sound, Ordered
  <2>8. /\ Increasing(toServer'[c])
        /\ \A k \in 1..Len(toServer'[c]) : job'.of < toServer'[c][k].of
    BY <2>4, <2>7, ShrankIncreasing
  <2>9. InHand'
    <3>1. job'.of \in 1..calls[c]
      BY <2>4, <2>7
    <3>2. \A i \in 1..Len(log) : log[i].client = c => log[i].call < job'.of
      BY <2>4, <2>7
    <3> QED BY <1>1, <1>2, <2>1, <3>1, <3>2 DEF Aside, InHand, Working
  <2>10. Journal'
    BY <1>0, <1>2, <2>1 DEF Journal, Aside
  <2>12. Waiting(c)' <=> InBacklog(c)
    BY <1>2, <2>1 DEF Waiting, InBacklog
  <2>13. Phases(c)' /\ Hails(c)' /\ NotBefore(c)' /\ Welcomed(c)' /\ Truthful(c)'
    <3>1. ~InBacklog(c)
      BY <1>1 DEF IInv, Line, InBacklog
    <3>2. client[c] # "new"
      BY <1>1, <2>6 DEF Sound, Phases
    <3> QED BY <1>2, <2>6, <2>12, <3>1, <3>2
            DEF Aside, Sound, Phases, Hails, NotBefore, Welcomed, Truthful, Connected,
                InBacklog, Logged
  <2>14. Ordered(c)'
    <3>1. \A k \in 1..Len(toServer'[c]) :
            /\ toServer'[c][k].status = "request" /\ toServer'[c][k].of \in 1..calls[c]
            /\ \A i \in 1..Len(log) : log[i].client = c => log[i].call < toServer'[c][k].of
      BY <2>5, <2>7
    <3> QED BY <1>2, <2>8, <3>1 DEF Aside, Ordered
  <2>15. Replies(c)'
    BY <1>2, <2>6 DEF Aside, Sound, Replies, Connected, Recent, Logged
  <2>16. Pending(c)'
    <3> SUFFICES ASSUME Connected(c), c \notin left \cup dropped \cup torn
                 PROVE  Pending(c)'
      BY <1>2, <2>1 DEF Aside, Pending, Connected
    <3>1. \A m \in 1..Len(toServer[c]) :
            /\ Recent(c, toServer[c][m].of)
            /\ \A k \in 1..Len(toClient[c]) : toClient[c][k].of < toServer[c][m].of
      BY <2>6 DEF Sound, Pending
    <3>2. \A n : Recent(c, n) => Recent(c, n)'
      BY <1>2 DEF Recent, Aside
    <3>3. Recent(c, job.of)' /\ \A k \in 1..Len(toClient[c]) : toClient[c][k].of < job'.of
      BY <2>4, <3>1, <3>2
    <3>4. \A m \in 1..Len(toServer'[c]) :
            /\ Recent(c, toServer[c][m].of)'
            /\ \A k \in 1..Len(toClient[c]) : toClient[c][k].of < toServer'[c][m].of
      BY <2>5, <3>1, <3>2
    <3> QED BY <1>2, <3>3, <3>4 DEF Pending
  <2>17. Sound(c)'
    BY <2>13, <2>14, <2>15, <2>16, SoundParts
  <2> QED BY <2>3, <2>9, <2>10, <2>17
<1> QED BY <1>3, <1>4

LEMMA DispatchKeeps ==
  ASSUME BridgeAssumption, IInv, Dispatch
  PROVE  Line' /\ InHand' /\ Journal' /\ \A d \in Clients : Sound(d)'
<1>0. TypeOK /\ InHand /\ Journal /\ \A d \in Clients : Sound(d)
  BY DEF IInv
<1>1. PICK c \in Clients : c = serving
  BY <1>0, ServedIsClient DEF Dispatch
<1>2. /\ Aside /\ UNCHANGED <<backlog, toServer, toClient, serving, dropped>>
      /\ server = "cable" /\ server' = "reply"
  BY DEF Dispatch, Aside, clientVars, wireVars
<1>3. PICK status \in {"ok", "err"} :
        /\ job' = [job EXCEPT !.status = status]
        /\ log' = Append(log, [client |-> serving, call |-> job.of, status |-> status])
  BY DEF Dispatch
<1>4. /\ job.of \in 1..calls[c]
      /\ \A i \in 1..Len(log) : log[i].client = c => log[i].call < job.of
  BY <1>0, <1>1, <1>2 DEF InHand, Working
<1>5. calls[c] \in 0..MaxCalls /\ MaxCalls \in Nat
  BY <1>0, Types DEF BridgeAssumption
<1>6. PICK e \in Entry : e = [client |-> c, call |-> job.of, status |-> status]
  <2>1. job.of \in 1..MaxCalls
    BY <1>4, <1>5
  <2> QED BY <2>1 DEF Entry
<1>7. e.client = c /\ e.call = job.of /\ e.status = status
  BY <1>6
<1>8. Grew(log, log', e)
  BY <1>0, <1>1, <1>3, <1>6, Types, AppendGrows
<1>9. job'.of = job.of /\ job'.status = status
  BY <1>0, <1>3, Types DEF Request, Response
<1>10. /\ \A k \in 1..Len(log') : (k \in 1..Len(log) /\ log'[k] = log[k]) \/ (k = Len(log') /\ log'[k] = e)
       /\ \A k \in 1..Len(log) : k \in 1..Len(log') /\ log'[k] = log[k]
       /\ Len(log') \in 1..Len(log') /\ log'[Len(log')] = e
  BY <1>8, GrewElements
<1>11. SessionStep(c)
  BY <1>1, <1>2, <1>7, <1>8 DEF SessionStep
<1>12. Line' /\ \A d \in Clients : d # c => Sound(d)'
  BY <1>11, SessionKeepsOthers
<1>13. \A n : Logged(c, n) => Logged(c, n)'
  BY <1>10 DEF Logged
<1>14. status = "ok" => Logged(c, job.of)'
  BY <1>6, <1>9, <1>10 DEF Logged
<1>15. InHand'
  <2>1. job'.of \in 1..calls'[serving']
    BY <1>1, <1>2, <1>4, <1>9 DEF Aside
  <2>2. (server = "reply" /\ job.status = "ok" => Logged(serving, job.of))'
    BY <1>1, <1>2, <1>9, <1>14
  <2> QED BY <1>2, <2>1, <2>2 DEF InHand
<1>16. Journal'
  <2>1. \A i \in 1..Len(log') : log'[i].call \in 1..calls[log'[i].client]
    BY <1>0, <1>4, <1>7, <1>10 DEF Journal
  <2>2. Len(log) \in Nat /\ Len(log') = Len(log) + 1
    BY <1>8 DEF Grew
  <2>3. ASSUME NEW i \in 1..Len(log'), NEW j \in 1..Len(log'), i < j
        PROVE  /\ log'[i].client = c => log'[j].client = c
               /\ log'[i].client = log'[j].client => log'[i].call < log'[j].call
    <3>1. i \in 1..Len(log) /\ log'[i] = log[i]
      BY <1>10, <2>2, <2>3
    <3>2. CASE j \in 1..Len(log) /\ log'[j] = log[j]
      BY <1>0, <1>1, <2>3, <3>1, <3>2 DEF Journal
    <3>3. CASE log'[j] = e
      BY <1>4, <1>7, <3>1, <3>3
    <3> QED BY <1>10, <3>2, <3>3
  <2>4. ASSUME NEW i \in 1..Len(log'), NEW j \in 1..Len(log'), NEW k \in 1..Len(log'),
               i < j, j < k, log'[i].client = log'[k].client
        PROVE  log'[j].client = log'[i].client
    <3>1. /\ i \in 1..Len(log) /\ log'[i] = log[i]
          /\ j \in 1..Len(log) /\ log'[j] = log[j]
      BY <1>10, <2>2, <2>4
    <3>2. CASE k \in 1..Len(log) /\ log'[k] = log[k]
      BY <1>0, <2>4, <3>1, <3>2 DEF Journal
    <3>3. CASE log'[k] = e
      BY <1>7, <2>3, <2>4, <3>3
    <3> QED BY <1>10, <3>2, <3>3
  <2> QED BY <1>1, <1>2, <2>1, <2>3, <2>4 DEF Journal, Aside
<1>17. Sound(c) /\ Served(c) /\ Served(c)' /\ Working /\ Working'
  BY <1>0, <1>1, <1>2 DEF Served, Working
<1>18. ~InBacklog(c) /\ ~InBacklog(c)' /\ client[c] # "new" /\ ~Waiting(c)'
  <2>1. ~InBacklog(c)
    BY <1>1 DEF IInv, Line, InBacklog
  <2> QED BY <1>1, <1>2, <1>17, <2>1 DEF Sound, Phases, Waiting, InBacklog
<1>19. Phases(c)' /\ Hails(c)' /\ NotBefore(c)' /\ Welcomed(c)'
  BY <1>2, <1>17, <1>18
     DEF Aside, Sound, Phases, Hails, NotBefore, Welcomed, Connected
<1>20. Truthful(c)'
  BY <1>2, <1>13, <1>17 DEF Aside, Sound, Truthful
<1>21. Ordered(c)'
  <2>1. \A k \in 1..Len(toServer[c]) :
          /\ toServer[c][k].status = "request" /\ toServer[c][k].of \in 1..calls[c]
          /\ job.of < toServer[c][k].of
          /\ \A i \in 1..Len(log) : log[i].client = c => log[i].call < toServer[c][k].of
    BY <1>17 DEF Sound, Ordered
  <2>2. \A k \in 1..Len(toServer[c]) :
          \A i \in 1..Len(log') : log'[i].client = c => log'[i].call < toServer[c][k].of
    BY <1>7, <1>10, <2>1
  <2>3. Increasing(toServer[c])
    BY <1>17 DEF Sound, Ordered
  <2> QED BY <1>2, <1>9, <2>1, <2>2, <2>3 DEF Aside, Ordered
<1>22. Replies(c)'
  BY <1>2, <1>13, <1>17 DEF Aside, Sound, Replies, Connected, Recent
<1>23. Pending(c)'
  BY <1>2, <1>9, <1>17 DEF Aside, Sound, Pending, Connected, Recent
<1> QED BY <1>12, <1>15, <1>16, <1>19, <1>20, <1>21, <1>22, <1>23, SoundParts

LEMMA ReplyKeeps ==
  ASSUME BridgeAssumption, IInv, Reply
  PROVE  Line' /\ InHand' /\ Journal' /\ \A d \in Clients : Sound(d)'
<1>0. TypeOK /\ InHand /\ Journal /\ \A d \in Clients : Sound(d)
  BY DEF IInv
<1>1. PICK c \in Clients : c = serving
  BY <1>0, ServedIsClient DEF Reply
<1>2. Aside /\ UNCHANGED <<backlog, log>> /\ server = "reply"
  BY DEF Reply, Aside, clientVars
<1>3. CASE Hangup
  <2>1. toClient' = toClient /\ c \in left
    BY <1>1, <1>3 DEF Reply, Hangup
  <2> QED BY <1>1, <1>2, <1>3, <2>1, HangupKeeps
<1>4. CASE ~Hangup
  <2>1. /\ toClient' = Deliver(toClient, c, job) /\ server' = "read"
        /\ UNCHANGED <<serving, toServer, dropped>>
    BY <1>1, <1>4 DEF Reply
  <2>2. job \in Response
    BY <1>0, <1>2, Types DEF TypeOK, Request, Response
  <2>3. SessionStep(c)
    BY <1>1, <1>2, <2>1, <2>2 DEF SessionStep
  <2>4. Line' /\ \A d \in Clients : d # c => Sound(d)'
    BY <2>3, SessionKeepsOthers
  <2>5. InHand'
    BY <2>1 DEF InHand, Working
  <2>6. Journal'
    BY <1>0, <1>2, <2>1 DEF Journal, Aside
  <2>7. Sound(c) /\ Served(c) /\ Served(c)' /\ Working /\ ~Working'
    BY <1>0, <1>1, <1>2, <2>1 DEF Served, Working
  <2>8. ~InBacklog(c) /\ ~InBacklog(c)' /\ ~Waiting(c)' /\ client[c] # "new"
    <3>1. ~InBacklog(c)
      BY <1>1 DEF IInv, Line, InBacklog
    <3> QED BY <1>1, <1>2, <2>1, <2>7, <3>1 DEF Sound, Phases, Waiting, InBacklog
  <2>9. /\ job.of \in 1..calls[c]
        /\ job.status = "ok" => Logged(c, job.of)
    BY <1>0, <1>1, <1>2 DEF InHand, Working
  <2>10. client[c] # "hello"
    <3>1. client[c] = "hello" => calls[c] = 0
      BY <2>7 DEF Sound, Phases
    <3> QED BY <2>9, <3>1
  <2>11. \/ c \in left \cup dropped /\ toClient'[c] = toClient[c]
         \/ c \notin left \cup dropped /\ Grew(toClient[c], toClient'[c], job)
    BY <1>0, <2>1, <2>2, ClientStream
  <2>12. Phases(c)' /\ Hails(c)' /\ NotBefore(c)'
    BY <1>2, <2>7, <2>8, <2>10, <2>11 DEF Aside, Sound, Phases, Hails, NotBefore
  <2>13. Welcomed(c)'
    BY <1>2, <2>7, <2>10 DEF Aside, Welcomed
  <2>14. Ordered(c)' /\ Truthful(c)'
    BY <1>2, <2>1, <2>7 DEF Aside, Sound, Ordered, Truthful, Logged
  <2>15. CASE c \in left \cup dropped \cup torn \/ ~Connected(c)
    <3>1. Replies(c)' /\ Pending(c)'
      BY <1>2, <2>1, <2>7, <2>11, <2>15
         DEF Aside, Sound, Replies, Pending, Connected, Recent, Logged
    <3> QED BY <2>4, <2>5, <2>6, <2>12, <2>13, <2>14, <3>1, SoundParts
  <2>16. CASE c \notin left \cup dropped \cup torn /\ Connected(c)
    <3>1. /\ \A k \in 1..Len(toClient'[c]) :
               \/ k \in 1..Len(toClient[c]) /\ toClient'[c][k] = toClient[c][k]
               \/ toClient'[c][k] = job
      BY <2>11, <2>16, GrewElements
    <3>2. Recent(c, job.of) /\ \A k \in 1..Len(toClient[c]) : toClient[c][k].of < job.of
      BY <2>7, <2>16 DEF Sound, Pending
    <3>3. /\ \A k \in 1..Len(toClient[c]) :
               /\ Recent(c, toClient[c][k].of) /\ toClient[c][k].of <= calls[c]
               /\ toClient[c][k].status = "ok" => Logged(c, toClient[c][k].of)
          /\ Increasing(toClient[c])
      BY <2>7, <2>16 DEF Sound, Replies
    <3>4. Increasing(toClient'[c])
      BY <2>11, <2>16, <3>2, <3>3, GrewIncreasing
    <3>5. job.of <= calls[c]
      BY <2>9
    <3>6. \A n : (Recent(c, n) => Recent(c, n)') /\ (Logged(c, n) => Logged(c, n)')
      BY <1>2 DEF Recent, Logged, Aside
    <3>7. \A k \in 1..Len(toClient'[c]) :
            /\ Recent(c, toClient[c][k].of)' /\ toClient'[c][k].of <= calls[c]
            /\ toClient'[c][k].status = "ok" => Logged(c, toClient[c][k].of)'
      BY <2>9, <3>1, <3>2, <3>3, <3>5, <3>6
    <3>8. Replies(c)'
      BY <1>2, <3>4, <3>7 DEF Aside, Replies
    <3>9. Pending(c)'
      <4>1. \A m \in 1..Len(toServer[c]) :
              /\ Recent(c, toServer[c][m].of)
              /\ \A k \in 1..Len(toClient[c]) : toClient[c][k].of < toServer[c][m].of
        BY <2>7, <2>16 DEF Sound, Pending
      <4>2. \A m \in 1..Len(toServer[c]) : job.of < toServer[c][m].of
        BY <2>7 DEF Sound, Ordered
      <4>3. \A m \in 1..Len(toServer'[c]) :
              /\ Recent(c, toServer[c][m].of)'
              /\ \A k \in 1..Len(toClient'[c]) : toClient'[c][k].of < toServer'[c][m].of
        BY <2>1, <3>1, <3>6, <4>1, <4>2
      <4> QED BY <2>7, <4>3 DEF Pending
    <3> QED BY <2>4, <2>5, <2>6, <2>12, <2>13, <2>14, <3>8, <3>9, SoundParts
  <2> QED BY <2>15, <2>16
<1> QED BY <1>3, <1>4

-----------------------------------------------------------------------------
(* The theorems.                                                           *)

LEMMA InitSound ==
  ASSUME BridgeAssumption, Init
  PROVE  IInv
<1>1. MaxCalls \in Nat /\ MaxLate \in Nat /\ NoClient \notin Clients
  BY DEF BridgeAssumption
<1>2. NoJob \in Response /\ NoJob.status = "none"
  BY Hellos DEF NoJob
<1>3. \A S : << >> \in Seq(S)
  BY EmptySeq
<1>4. TypeOK
  <2>1. /\ client \in [Clients -> {"new", "hello", "ready", "waiting", "gone"}]
        /\ calls \in [Clients -> 0..MaxCalls] /\ late \in [Clients -> 0..MaxLate]
        /\ result \in [Clients -> Response]
    BY <1>1, <1>2 DEF Init
  <2>2. /\ toServer \in [Clients -> Seq(Request)] /\ toClient \in [Clients -> Seq(Response)]
        /\ backlog \in Seq(Clients) /\ log \in Seq(Entry)
    <3>1. << >> \in Seq(Request) /\ << >> \in Seq(Response)
      BY <1>3, Zenon
    <3>2. << >> \in Seq(Clients) /\ << >> \in Seq(Entry)
      BY <1>3, Zenon
    <3> QED BY <3>1, <3>2 DEF Init
  <2> QED BY <1>2, <2>1, <2>2 DEF Init, TypeOK
<1>5. Len(backlog) = 0 /\ Len(log) = 0
  BY EmptySeq DEF Init
<1>6. Line /\ InHand /\ Journal
  BY <1>5 DEF Init, Line, InHand, Working, Journal
<1>7. ASSUME NEW c \in Clients
      PROVE  Sound(c)
  <2>1. /\ client[c] = "new" /\ calls[c] = 0 /\ toServer[c] = << >> /\ toClient[c] = << >>
        /\ c \notin left \cup dropped /\ serving # c /\ server = "check"
        /\ c \notin torn
    BY <1>1 DEF Init
  <2>2. ~InBacklog(c) /\ ~Waiting(c) /\ Unlogged(c)
    BY <1>5, <2>1 DEF InBacklog, Waiting, Unlogged
  <2>3. Phases(c) /\ Hails(c) /\ NotBefore(c)
    BY <2>1, <2>2 DEF Phases, Hails, NotBefore
  <2>4. Welcomed(c) /\ Ordered(c) /\ Replies(c) /\ Pending(c) /\ Truthful(c)
    BY <2>1 DEF Welcomed, Ordered, Replies, Pending, Truthful, Served, Connected
  <2> QED BY <2>3, <2>4 DEF Sound
<1> QED BY <1>4, <1>6, <1>7 DEF IInv

LEMMA StepSound ==
  ASSUME BridgeAssumption, IInv, [Next]_vars
  PROVE  IInv'
<1>1. TypeOK'
  BY StepTyped
<1>2. CASE \E c \in Clients : ClientStep(c)
  BY <1>1, <1>2, ClientKeepsRest, ClientStepSound DEF IInv
<1>3. CASE Serve
  <2>1. Line' /\ InHand' /\ Journal' /\ \A d \in Clients : Sound(d)'
    BY <1>3, IdleKeeps, AcceptKeeps, GreetKeeps, ReadRequestKeeps, DispatchKeeps, ReplyKeeps
       DEF Serve
  <2> QED BY <1>1, <2>1 DEF IInv
<1>4. CASE StopBridge \/ ClosePort \/ UNCHANGED vars
  <2>1. UNCHANGED <<client, calls, late, torn, result, toServer, toClient, left, dropped,
                    backlog, server, serving, job, log>>
    BY <1>4 DEF StopBridge, ClosePort, vars, clientVars, wireVars, serverVars, phoneVars
  <2>2. Line' /\ InHand' /\ Journal'
    BY <2>1 DEF IInv, Line, InHand, Journal, Working, Logged
  <2>3. ASSUME NEW d \in Clients
        PROVE  Sound(d)'
    <3>1. Untouched(d)
      BY <2>1 DEF Untouched, InBacklog, Unlogged, Logged
    <3> QED BY <3>1, UntouchedStaysSound DEF IInv
  <2> QED BY <1>1, <2>2, <2>3 DEF IInv
<1> QED BY <1>2, <1>3, <1>4 DEF Next, ClientStep

LEMMA AlwaysSound == Spec => []IInv
<1>1. Init => IInv
  BY BridgeAssumption, InitSound
<1>2. IInv /\ [Next]_vars => IInv'
  BY BridgeAssumption, StepSound
<1> QED BY <1>1, <1>2, PTL DEF Spec

\* Every variable has its type, and the thread has a connection and a response
\* in its hand exactly while serve_connection has (server.rs).
THEOREM TypeCorrect == Spec => []TypeOK
<1>1. IInv => TypeOK
  BY DEF IInv
<1> QED BY <1>1, AlwaysSound, PTL

\* However many clients connect, break off and leave: who is in session over a
\* whole connection is the one that is served, and the cable's work for a client
\* is one stretch of its log (server.rs: one client at a time).
THEOREM OneOwnerAlways == Spec => []OneOwner
<1>1. IInv => OneOwner
  <2> SUFFICES ASSUME IInv
               PROVE  OneOwner
    OBVIOUS
  <2>1. \A c \in Clients : Established(c) => serving = c
    BY DEF IInv, Sound, Welcomed, Connected, Served, Established
  <2>2. DOMAIN log = 1..Len(log) /\ Len(log) \in Nat
    BY Types, LenProperties DEF IInv
  <2>3. ASSUME NEW i \in 1..Len(log), NEW k \in 1..Len(log),
               i < k, log[i].client = log[k].client, NEW j \in i..k
        PROVE  log[j].client = log[i].client
    <3>1. j \in 1..Len(log) /\ (j = i \/ j = k \/ (i < j /\ j < k))
      BY <2>2
    <3> QED BY <2>3, <3>1 DEF IInv, Journal
  <2> QED BY <2>1, <2>2, <2>3 DEF OneOwner
<1> QED BY <1>1, AlwaysSound, PTL

\* Whatever a client gives up and asks for next, the cable does each of its
\* calls at most once and in their order (client.rs transact, server.rs).
THEOREM OnceInOrderAlways == Spec => []OnceInOrder
<1>1. IInv => OnceInOrder
  <2> SUFFICES ASSUME IInv
               PROVE  OnceInOrder
    OBVIOUS
  <2>1. DOMAIN log = 1..Len(log)
    BY Types, LenProperties DEF IInv
  <2> QED BY <2>1 DEF IInv, Journal, OnceInOrder
<1> QED BY <1>1, AlwaysSound, PTL

\* What a call returns is the outcome of a call of that client, and not of one
\* further back than the calls it has given up (client.rs transact; wire.rs
\* sends no request ids), as long as it has given none up in the middle of a
\* frame: from then on its stream is out of step.
THEOREM AnswersTruthfulAlways == Spec => []AnswersTruthful
<1>1. IInv => AnswersTruthful
  <2> SUFFICES ASSUME IInv
               PROVE  AnswersTruthful
    OBVIOUS
  <2>1. DOMAIN log = 1..Len(log)
    BY Types, LenProperties DEF IInv
  <2> QED BY <2>1 DEF IInv, Sound, Truthful, Logged, AnswersTruthful
<1> QED BY <1>1, AlwaysSound, PTL
=============================================================================
