------------------------------- MODULE Bridge -------------------------------
(***************************************************************************)
(* The network bridge: a cable at a phone, served to one TCP client at a   *)
(* time (server.rs; the accept loop of rmvci-android), and the Transport   *)
(* that forwards its primitives to it (client.rs).  Frames are whole until *)
(* a client stops in the middle of one; who asked, and for the             *)
(* how-manieth time, is noted beside each request and each response, which *)
(* carry neither on the wire.                                              *)
(***************************************************************************)
EXTENDS Naturals, FiniteSets, Sequences, Functions

CONSTANTS
  Clients, NoClient,
  MaxCalls,  \* calls of one client
  MaxLate    \* calls of one client whose answer comes too late

ASSUME BridgeAssumption ==
  NoClient \notin Clients /\ {MaxCalls, MaxLate} \subseteq Nat

VARIABLES
  client,    \* what each TcpTransport is doing
  calls,     \* calls it has begun
  late,      \* calls it has given up
  torn,      \* clients that gave up in the middle of a frame
  result,    \* its last result, and the call whose answer that is
  toServer, toClient,  \* the two directions of its connection
  left,      \* clients whose connection the phone will find ended
  dropped,   \* clients that will find theirs ended
  backlog,   \* connections the kernel has for accept
  server,    \* where the serving thread is
  serving,   \* whose connection it has
  job,       \* the request or response in its hand
  stop,      \* the flag of stopBridge
  portOpen,  \* the Java side keeps the port open
  log        \* what the cable was made to do

clientVars == <<client, calls, late, torn, result>>
wireVars   == <<toServer, toClient, left, dropped, backlog>>
serverVars == <<server, serving, job>>
phoneVars  == <<stop, portOpen>>
vars == <<clientVars, wireVars, serverVars, phoneVars, log>>

\* The end c of a stream is written, or read.
Put(streams, c, frame) == [streams EXCEPT ![c] = Append(@, frame)]
Take(streams, c)       == [streams EXCEPT ![c] = Tail(@)]
Discard(streams, c)    == [streams EXCEPT ![c] = << >>]

\* Nothing more arrives over a connection that ended.
Deliver(streams, c, frame) ==
  IF c \in left \cup dropped THEN streams ELSE Put(streams, c, frame)

NoJob == [of |-> 0, status |-> "none"]

-----------------------------------------------------------------------------
(* The client.                                                             *)

\* TCP connects, and the hello goes out, of this version or of another.
Connect(c) ==
  /\ client[c] = "new" /\ server # "ended"
  /\ client' = [client EXCEPT ![c] = "hello"]
  /\ \E version \in {"ours", "other"} :
       toServer' = Put(toServer, c, [of |-> 0, status |-> version])
  /\ backlog' = Append(backlog, c)
  /\ UNCHANGED <<calls, late, torn, result, toClient, left, dropped, serverVars, phoneVars, log>>

\* The stream is dropped with its TcpTransport.
Drop(c) ==
  /\ client' = [client EXCEPT ![c] = "gone"] /\ left' = left \cup {c}
  /\ toClient' = Discard(toClient, c)

\* TcpTransport::handshake has its answer, or the stream has ended, or it gives
\* up after OP_TIMEOUT.
Handshake(c) ==
  /\ client[c] = "hello"
  /\ \/ /\ toClient[c] # << >> /\ Head(toClient[c]).status = "ok"
        /\ client' = [client EXCEPT ![c] = "ready"]
        /\ toClient' = Take(toClient, c) /\ UNCHANGED left
     \/ /\ toClient[c] # << >> => Head(toClient[c]).status = "err" \/ c \in dropped
        /\ Drop(c)
  /\ UNCHANGED <<calls, late, torn, result, toServer, dropped, backlog, serverVars, phoneVars, log>>

\* A primitive of the Transport is called: transact writes its request.
Transact(c) ==
  /\ client[c] = "ready" /\ calls[c] < MaxCalls
  /\ client' = [client EXCEPT ![c] = "waiting"]
  /\ calls' = [calls EXCEPT ![c] = @ + 1]
  /\ toServer' = Deliver(toServer, c, [of |-> calls[c] + 1, status |-> "request"])
  /\ UNCHANGED <<late, torn, result, toClient, left, dropped, backlog, serverVars, phoneVars, log>>

Return(c, of, status) ==
  /\ client' = [client EXCEPT ![c] = "ready"]
  /\ result' = [result EXCEPT ![c] = [of |-> of, status |-> status]]
  /\ UNCHANGED calls

\* transact reads the next response frame, whosever it is; or the write or the
\* read finds the connection ended, and with it what had come.
Answer(c) ==
  /\ client[c] = "waiting"
  /\ \/ /\ c \notin torn /\ toClient[c] # << >> /\ toClient' = Take(toClient, c)
        /\ Return(c, Head(toClient[c]).of, Head(toClient[c]).status)
     \/ /\ c \in dropped /\ toClient' = Discard(toClient, c)
        /\ Return(c, calls[c], "err")
  /\ UNCHANGED <<late, torn, toServer, left, dropped, backlog, serverVars, phoneVars, log>>

\* Bytes of the stream are read, up to anywhere in a frame that is then cut.
ReadSome(c) ==
  \E n \in 0..Len(toClient[c]) :
    toClient' = [toClient EXCEPT ![c] = SubSeq(@, n + 1, Len(@))]

\* read_frame takes bytes from the middle of a frame for a length, and as many as
\* that says for a response: too long, malformed, of any status, and counted as
\* of no call, whatever the bytes are of.
Misread(c) ==
  /\ client[c] = "waiting" /\ c \in torn /\ toClient[c] # << >>
  /\ ReadSome(c)
  /\ \E status \in {"ok", "err"} : Return(c, 0, status)
  /\ UNCHANGED <<late, torn, toServer, left, dropped, backlog, serverVars, phoneVars, log>>

\* Mutant: a call whose answer is late is asked for again.
GiveUpAndRetry(c) ==
  /\ client[c] = "waiting" /\ late[c] < MaxLate
  /\ late' = [late EXCEPT ![c] = @ + 1]
  /\ toServer' = Deliver(toServer, c, [of |-> calls[c], status |-> "request"])
  /\ UNCHANGED <<client, calls, torn, result, toClient, left, dropped, backlog, serverVars,
                 phoneVars, log>>

\* The socket read times out, and the TcpTransport can be used again: before the
\* first byte of a response has arrived; between or within the two read_exacts,
\* which loses the bytes they have; or in a stream that was so cut before.
GiveUp(c) ==
  /\ client[c] = "waiting" /\ late[c] < MaxLate
  /\ late' = [late EXCEPT ![c] = @ + 1]
  /\ Return(c, calls[c], "err")
  /\ \/ UNCHANGED <<toClient, torn>>
     \/ toClient[c] # << >> /\ torn' = torn \cup {c} /\ UNCHANGED toClient
     \/ c \in torn /\ ReadSome(c) /\ UNCHANGED torn
  /\ UNCHANGED <<toServer, left, dropped, backlog, serverVars, phoneVars, log>>

\* The Device closes and its transport with it, or the PC is gone.
Leave(c) ==
  /\ client[c] \in {"ready", "waiting"} /\ Drop(c)
  /\ UNCHANGED <<calls, late, torn, result, toServer, dropped, backlog, serverVars, phoneVars, log>>

\* The network breaks a connection: either end finds out when it next uses it.
Break(c) ==
  /\ client[c] \in {"hello", "ready", "waiting"} /\ c \notin left \cup dropped
  /\ left' = left \cup {c} /\ dropped' = dropped \cup {c}
  /\ UNCHANGED <<clientVars, toServer, toClient, backlog, serverVars, phoneVars, log>>

-----------------------------------------------------------------------------
(* The serving thread.                                                     *)

\* The head of the loop looks at the flag (serve, which has none, never stops).
CheckStop ==
  /\ server = "check" /\ ~stop /\ server' = "accept"
  /\ UNCHANGED <<clientVars, wireVars, serving, job, phoneVars, log>>

\* Mutant: an accept does not wait for the client that is being served.
AcceptsAnyway == server \in {"accept", "read"}

Accepts == server = "accept"

\* accept() has a connection; making it blocking may fail.
Accept ==
  /\ Accepts /\ backlog # << >> /\ backlog' = Tail(backlog)
  /\ \/ /\ server' = "hello" /\ serving' = Head(backlog) /\ UNCHANGED <<job, dropped>>
     \/ /\ server' = "check" /\ dropped' = dropped \cup {Head(backlog)}
        /\ UNCHANGED <<serving, job>>
  /\ UNCHANGED <<clientVars, toServer, toClient, left, phoneVars, log>>

\* accept() would block: the loop sleeps and looks at the flag again.
AcceptNothing ==
  /\ server = "accept" /\ backlog = << >> /\ server' = "check"
  /\ UNCHANGED <<clientVars, wireVars, serving, job, phoneVars, log>>

\* The loop is over, told to stop or because accept failed, and the listener
\* and the connections it holds go with it.
EndLoop ==
  /\ (server = "check" /\ stop) \/ server = "accept"
  /\ server' = "ended"
  /\ dropped' = dropped \cup Range(backlog) /\ backlog' = << >>
  /\ UNCHANGED <<clientVars, toServer, toClient, left, serving, job, phoneVars, log>>

\* Mutant: the stream of a client outlives its session.
HangupKeepsClient ==
  /\ server' = "check" /\ job' = NoJob
  /\ dropped' = dropped /\ toServer' = Discard(toServer, serving) /\ UNCHANGED serving

\* serve_connection returns and its stream is dropped.
Hangup ==
  /\ server' = "check" /\ serving' = NoClient /\ job' = NoJob
  /\ dropped' = dropped \cup {serving} /\ toServer' = Discard(toServer, serving)

\* The hello of serve_connection.
Greet ==
  LET c == serving IN
  /\ server = "hello"
  /\ \/ /\ toServer[c] # << >> /\ Head(toServer[c]).status = "ours"
        /\ toClient' = Deliver(toClient, c, [of |-> 0, status |-> "ok"])
        /\ toServer' = Take(toServer, c)
        /\ server' = "read" /\ UNCHANGED <<serving, job, dropped>>
     \/ /\ toServer[c] # << >> /\ Head(toServer[c]).status = "other"
        /\ toClient' = Deliver(toClient, c, [of |-> 0, status |-> "err"])
        /\ Hangup
     \/ c \in left /\ Hangup /\ UNCHANGED toClient    \* a reset
  /\ UNCHANGED <<clientVars, left, backlog, phoneVars, log>>

\* Mutant: the end of a client's stream is not the end of its session.
ReadRequestOnly ==
  /\ server = "read" /\ toServer[serving] # << >>
  /\ toServer' = Take(toServer, serving)
  /\ server' = "cable" /\ job' = Head(toServer[serving])
  /\ UNCHANGED <<clientVars, serving, toClient, left, dropped, backlog, phoneVars, log>>

\* The next request, in the order of the stream; after the last of a client
\* that left, the end of the stream.  A reset may discard some.
ReadRequest ==
  LET c == serving IN
  /\ server = "read"
  /\ \/ /\ toServer[c] # << >> /\ toServer' = Take(toServer, c)
        /\ server' = "cable" /\ job' = Head(toServer[c]) /\ UNCHANGED <<serving, dropped>>
     \/ c \in left /\ Hangup
  /\ UNCHANGED <<clientVars, toClient, left, backlog, phoneVars, log>>

\* Mutant: what the cable says is not looked at.
DispatchAlwaysOk ==
  /\ server = "cable" /\ server' = "reply"
  /\ \E status \in {"ok", "err"} :
       log' = Append(log, [client |-> serving, call |-> job.of, status |-> status])
  /\ job' = [job EXCEPT !.status = "ok"]
  /\ UNCHANGED <<clientVars, wireVars, serving, phoneVars>>

\* dispatch: the primitive runs on the cable, whose own timeouts bound it.
Dispatch ==
  /\ server = "cable" /\ server' = "reply"
  /\ \E status \in IF portOpen THEN {"ok", "err"} ELSE {"err"} :
       /\ job' = [job EXCEPT !.status = status]
       /\ log' = Append(log, [client |-> serving, call |-> job.of, status |-> status])
  /\ UNCHANGED <<clientVars, wireVars, serving, phoneVars>>

\* The response is written, which may fail for a client that left.
Reply ==
  LET c == serving IN
  /\ server = "reply"
  /\ \/ /\ toClient' = Deliver(toClient, c, job)
        /\ server' = "read" /\ job' = NoJob /\ UNCHANGED <<serving, toServer, dropped>>
     \/ c \in left /\ Hangup /\ UNCHANGED toClient
  /\ UNCHANGED <<clientVars, left, backlog, phoneVars, log>>

-----------------------------------------------------------------------------
(* The phone.                                                              *)

StopBridge ==
  /\ ~stop /\ stop' = TRUE
  /\ UNCHANGED <<clientVars, wireVars, serverVars, portOpen, log>>

\* The Java side closes the UsbSerialPort.
ClosePort ==
  /\ portOpen /\ portOpen' = FALSE
  /\ UNCHANGED <<clientVars, wireVars, serverVars, stop, log>>

Init ==
  /\ client = [c \in Clients |-> "new"]
  /\ calls = [c \in Clients |-> 0] /\ late = [c \in Clients |-> 0]
  /\ torn = {}
  /\ result = [c \in Clients |-> NoJob]
  /\ toServer = [c \in Clients |-> << >>] /\ toClient = [c \in Clients |-> << >>]
  /\ left = {} /\ dropped = {} /\ backlog = << >>
  /\ server = "check" /\ serving = NoClient /\ job = NoJob
  /\ stop = FALSE /\ portOpen = TRUE /\ log = << >>

Serve == CheckStop \/ Accept \/ AcceptNothing \/ EndLoop \/ Greet \/ ReadRequest \/ Dispatch \/ Reply

Next ==
  \/ \E c \in Clients :
       \/ Connect(c) \/ Handshake(c) \/ Transact(c) \/ Answer(c) \/ Misread(c) \/ GiveUp(c)
       \/ Leave(c) \/ Break(c)
  \/ Serve \/ StopBridge \/ ClosePort

Spec == Init /\ [][Next]_vars

\* The serving thread runs.
FairSpec == Spec /\ WF_vars(Serve)

-----------------------------------------------------------------------------
(* Properties.                                                             *)

Request  == [of : 0..MaxCalls, status : {"ours", "other", "request"}]
Response == [of : 0..MaxCalls, status : {"none", "ok", "err"}]
Entry    == [client : Clients, call : 1..MaxCalls, status : {"ok", "err"}]

\* Every variable has its type; the serving thread has a connection in its hand
\* exactly between an accept and the end of serve_connection, and a response
\* exactly between dispatch and its write.
TypeOK ==
  /\ client \in [Clients -> {"new", "hello", "ready", "waiting", "gone"}]
  /\ calls \in [Clients -> 0..MaxCalls] /\ late \in [Clients -> 0..MaxLate]
  /\ torn \subseteq Clients /\ result \in [Clients -> Response]
  /\ toServer \in [Clients -> Seq(Request)] /\ toClient \in [Clients -> Seq(Response)]
  /\ left \subseteq Clients /\ dropped \subseteq Clients /\ backlog \in Seq(Clients)
  /\ server \in {"check", "accept", "hello", "read", "cable", "reply", "ended"}
  /\ serving \in Clients \cup {NoClient} /\ job \in Request \cup Response
  /\ stop \in BOOLEAN /\ portOpen \in BOOLEAN /\ log \in Seq(Entry)
  /\ serving = NoClient <=> server \in {"check", "accept", "ended"}
  /\ job.status \in {"ok", "err"} <=> server = "reply"

Established(c) == client[c] \in {"ready", "waiting"} /\ c \notin left

\* One client at a time owns the cable (server.rs: "the bridge serves one client
\* at a time"): who has its hello acknowledged and is still connected is being
\* served, and what the cable does for one client is never interrupted by what
\* it does for another, whoever leaves, breaks off or reconnects.
OneOwner ==
  /\ \A c \in Clients : Established(c) => serving = c
  /\ \A i, k \in DOMAIN log : i < k /\ log[i].client = log[k].client =>
       \A j \in i..k : log[j].client = log[i].client

\* The cable does what a client asks at most once and in the order of its calls,
\* also for a client that gave a call up and went on (client.rs transact).
OnceInOrder ==
  \A i, j \in DOMAIN log :
    i < j /\ log[i].client = log[j].client => log[i].call < log[j].call

\* An answer is the outcome of a call of that client, and not of one further
\* back than the calls it has given up, as long as none of these was given up in
\* the middle of a frame; and that of this very call if none was given up
\* (client.rs transact, wire.rs read_frame).
AnswersTruthful ==
  \A c \in Clients :
    /\ c \in torn => late[c] > 0
    /\ client[c] = "ready" /\ calls[c] > 0 /\ c \notin torn =>
         /\ result[c].of \in calls[c] - late[c]..calls[c]
         /\ result[c].status = "ok" =>
              \E i \in DOMAIN log :
                log[i] = [client |-> c, call |-> result[c].of, status |-> "ok"]

\* After stopBridge the thread ends, unless it is serving a client that stays.
StopEnds == stop ~> (server = "ended" \/ (serving # NoClient /\ serving \notin left))
=============================================================================
