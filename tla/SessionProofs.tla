--------------------------- MODULE SessionProofs ---------------------------
(***************************************************************************)
(* Theorems about Session for any set of callers, protocols and keys, any  *)
(* number of requests and messages and any number of late answers.         *)
(***************************************************************************)
EXTENDS Session, SequenceTheorems, WellFoundedInduction, TLAPS

-----------------------------------------------------------------------------
(* Type correctness.                                                       *)

\* `connected` has a least element while it is not empty, so the protocol
\* of an idle poll and of a teardown step is one of the protocols in use.
LEMMA FirstIsTracked ==
  ASSUME NEW S \in SUBSET Protos, S # {}
  PROVE  First(S) \in S /\ First(S) \in Protos
<1>1. S \subseteq Nat
  BY SessionAssumption
<1>2. PICK p \in S : \A q \in S : <<q, p>> \notin OpToRel(<, Nat)
  BY <1>1, WFMin, NatLessThanWellFounded, Zenon
<1>3. \A q \in S : p <= q
  <2>1. \A q \in S : ~(q < p)
    BY <1>1, <1>2, Zenon DEF OpToRel
  <2>. QED  BY <1>1, <2>1
<1>. QED  BY <1>3 DEF First

\* Purging keeps frames and only frames in the receive buffer.
LEMMA PurgeType ==
  ASSUME toHost \in Seq(Frame), Purge
  PROVE  toHost' \in Seq(Frame)
<1>1. Len(toHost) \in Nat /\ \A i \in 1 .. Len(toHost) : toHost[i] \in Frame
  BY LenProperties, ElementOfSeq
<1>2. PICK arrived \in 0 .. Len(toHost) :
        toHost' = SubSeq(toHost, arrived + 1, Len(toHost))
  <2>1. {Len(toHost)} \subseteq 0 .. Len(toHost)
    BY <1>1
  <2>. QED  BY <2>1, Zenon DEF Purge
<1>. QED  BY <1>1, <1>2, SubSeqProperties

\* What the actor writes is a command of the wire vocabulary.
LEMMA WriteType ==
  ASSUME TypeOK,
         NEW op \in WireOps \cup {"Reset", "Identify"},
         NEW key \in Keys \cup {NoKey}, NEW p \in Protos,
         Write(op, key, p)
  PROVE  WireType'
<1>1. [op |-> op, key |-> key, proto |-> p] \in Command
  BY DEF Command
<1>2. toAdapter' \in Seq(Command)
  BY <1>1, AppendProperties DEF Write, TypeOK, WireType
<1>3. toHost' \in Seq(Frame)
  BY PurgeType DEF Write, TypeOK, WireType
<1>. QED  BY <1>2, <1>3 DEF WireType

LEMMA TransmitType ==
  ASSUME TypeOK,
         NEW x \in [op : ExchangeOps, from : Callers \cup {NoCaller}, proto : Protos],
         Transmit(x)
  PROVE  WireType' /\ cur' \in Exchange /\ pc' \in Phases
<1>1. WireOp(x.op) \in WireOps
  BY DEF WireOp, WireOps, ExchangeOps, RequestOps
<1>2. linkKey \in Keys \cup {NoKey}
  BY DEF TypeOK, ActorType
<1>3. WireType'
  BY <1>1, <1>2, WriteType DEF Transmit
<1>4. cur' \in Exchange /\ pc' \in Phases
  BY DEF Transmit, Exchange, Phases
<1>. QED  BY <1>3, <1>4

\* Answering a request keeps the callers' records well formed.
LEMMA AnswerType ==
  ASSUME CallerType, NEW x, x.proto \in Protos, NEW o \in Outcomes, Answer(x, o)
  PROVE  CallerType'
<1>1. handle' \in [Callers -> {"none", "live", "dropped"}] /\ asked' \in [Callers -> Protos]
  BY DEF Answer, CallerType
<1>2. result' \in [Callers -> Outcomes \cup {"pending"}]
  BY DEF Answer, CallerType
<1>3. held' \in [Callers -> SUBSET Protos]
  BY DEF Answer, CallerType
<1>4. nfilters' \in [Callers -> [Protos -> Nat]]
  <2> DEFINE now == IF x.op \in {"Connect", "Retry"} /\ o = "Ok" THEN 0
                    ELSE IF x.op = "Transact" /\ o = "Ok"
                    THEN nfilters[x.from][x.proto] + 1 ELSE nfilters[x.from][x.proto]
  <2>1. nfilters \in [Callers -> [Protos -> Nat]]
    BY DEF CallerType
  <2>2. nfilters' = [nfilters EXCEPT ![x.from] = [nfilters[x.from] EXCEPT ![x.proto] = now]]
    BY DEF Answer
  <2>3. x.from \in Callers => now \in Nat
    BY <2>1
  <2>4. x.from \in Callers => [nfilters[x.from] EXCEPT ![x.proto] = now] \in [Protos -> Nat]
    BY <2>1, <2>3
  <2>. QED  BY <2>1, <2>2, <2>4
<1>. QED  BY <1>1, <1>2, <1>3, <1>4 DEF CallerType

\* Logging a message on a channel keeps the logs well formed.
LEMMA LogType ==
  ASSUME NEW log \in [Protos -> Seq(Msg)], NEW p \in Protos, NEW m \in Msg
  PROVE  [log EXCEPT ![p] = Append(@, m)] \in [Protos -> Seq(Msg)]
<1>1. Append(log[p], m) \in Seq(Msg)
  BY AppendProperties
<1>. QED  BY <1>1

\* However an exchange ends, the actor and the callers stay well formed.
LEMMA FinishType ==
  ASSUME TypeOK, NEW o \in Outcomes, NEW m \in Msg, Finish(o, m)
  PROVE  /\ CallerType' /\ mailbox' \in Seq(Request)
         /\ ActorType' /\ AdapterType' /\ SeenType'
<1> USE DEF TypeOK
<1>1. cur \in Exchange /\ cur.proto \in Protos /\ NoExchange \in Exchange
  BY SessionAssumption DEF ActorType, Exchange, NoExchange, Own
<1>2. mailbox' \in Seq(Request) /\ AdapterType'
  BY DEF Finish, adapterVars, AdapterType
<1>3. silent' \in 0 .. 255 /\ wedged' \in BOOLEAN
  <2>1. silent' \in 0 .. 255
    <3>1. silent' = IF o = "Timeout" THEN (IF silent < 255 THEN silent + 1 ELSE silent) ELSE 0
      BY Zenon DEF Finish, NoteExchange
    <3>2. silent \in 0 .. 255
      BY Zenon DEF ActorType
    <3>. QED  BY <3>1, <3>2
  <2>2. wedged' \in BOOLEAN
    BY Zenon DEF Finish, NoteExchange, ActorType
  <2>. QED  BY <2>1, <2>2
<1>4. /\ linkKey' \in Keys \cup {NoKey}
      /\ port' \in {"held", "free"} /\ closed' \in BOOLEAN
      /\ nreq' \in Nat /\ nmsg' \in Nat
  BY DEF Finish, portVars, boundVars, ActorType, SeenType
<1> DEFINE Rest == /\ CallerType' /\ pc' \in Phases /\ cur' \in Exchange
                   /\ connected' \in SUBSET Protos /\ queues' \in [Protos -> Seq(Msg)]
                   /\ got' \in [Protos -> Seq(Msg)] /\ out' \in [Protos -> Seq(Msg)]
                   /\ stale' \in BOOLEAN
<1>5. ConnectDone(o) => Rest
  BY <1>1, AnswerType DEF ConnectDone, Done, Phases, ActorType, SeenType, seenVars, callerVars, CallerType
<1>6. DisconnectDone(o) => Rest
  BY <1>1, AnswerType DEF DisconnectDone, Done, Phases, ActorType, SeenType, seenVars
<1>7. PollDone(o, m) => Rest
  BY <1>1, AnswerType, LogType DEF PollDone, Done, Phases, ActorType, SeenType
<1>8. TransactDone(o) => Rest
  BY <1>1, AnswerType DEF TransactDone, Done, Phases, ActorType, SeenType, seenVars
<1>9. IdlePollDone(o, m) => Rest
  BY <1>1, LogType DEF IdlePollDone, Done, Phases, ActorType, SeenType, callerVars, CallerType
<1>10. TeardownDone => Rest
  BY <1>1 DEF TeardownDone, Phases, ActorType, SeenType, seenVars, callerVars, CallerType
<1>11. Rest
  BY <1>5, <1>6, <1>7, <1>8, <1>9, <1>10 DEF Finish
<1>. QED  BY <1>2, <1>3, <1>4, <1>11 DEF ActorType, SeenType

LEMMA HandshakeFailsType ==
  ASSUME TypeOK, NEW o \in Outcomes, HandshakeFails(o)
  PROVE  /\ CallerType' /\ mailbox' \in Seq(Request)
         /\ ActorType' /\ AdapterType' /\ SeenType'
<1> USE DEF TypeOK
<1>1. cur \in Exchange /\ cur.proto \in Protos /\ NoExchange \in Exchange
  BY SessionAssumption DEF ActorType, Exchange, NoExchange, Own
<1>2. mailbox' \in Seq(Request) /\ AdapterType' /\ SeenType'
  BY DEF HandshakeFails, adapterVars, boundVars, AdapterType, SeenType
<1>3. CallerType' /\ pc' \in Phases /\ cur' \in Exchange
  BY <1>1, AnswerType DEF HandshakeFails, Done, Phases, ActorType, callerVars, CallerType
<1>4. /\ silent' \in 0 .. 255 /\ connected' \in SUBSET Protos /\ queues' \in [Protos -> Seq(Msg)]
      /\ linkKey' \in Keys \cup {NoKey} /\ port' \in {"held", "free"}
  BY DEF HandshakeFails, linkVars, wedgeVars, portVars, ActorType
<1>5. wedged' \in BOOLEAN /\ closed' \in BOOLEAN
  BY DEF HandshakeFails, wedgeVars, portVars, ActorType
<1>. QED  BY <1>2, <1>3, <1>4, <1>5 DEF ActorType

LEMMA FramesType ==
  ASSUME TypeOK, toHost # <<>>
  PROVE  /\ Head(toHost) \in Frame /\ Tail(toHost) \in Seq(Frame)
         /\ Decoded(Head(toHost)) \in Outcomes /\ Head(toHost).msg \in Msg
<1>1. Head(toHost) \in Frame /\ Tail(toHost) \in Seq(Frame)
  BY HeadTailProperties DEF TypeOK, WireType
<1>. QED  BY <1>1 DEF Frame, Decoded, Outcomes, Failures

\* A read that gives up leaves the wire well formed.
LEMMA GivingUpType ==
  ASSUME TypeOK, DeadlinePasses \/ PortFails
  PROVE  WireType'
<1>1. CASE DeadlinePasses
  BY <1>1 DEF DeadlinePasses, wireVars, TypeOK, WireType
<1>2. CASE PortFails /\ toAdapter # <<>> /\ toAdapter' = SubSeq(toAdapter, 1, Len(toAdapter) - 1)
  <2>1. Len(toAdapter) \in Nat /\ \A i \in 1 .. Len(toAdapter) : toAdapter[i] \in Command
    BY LenProperties, ElementOfSeq DEF TypeOK, WireType
  <2>2. SubSeq(toAdapter, 1, Len(toAdapter) - 1) \in Seq(Command)
    BY <2>1, SubSeqProperties
  <2>. QED  BY <1>2, <2>2 DEF PortFails, TypeOK, WireType
<1>3. CASE PortFails /\ UNCHANGED toAdapter
  BY <1>3 DEF PortFails, TypeOK, WireType
<1>. QED  BY <1>1, <1>2, <1>3 DEF PortFails

LEMMA CallerStepType ==
  ASSUME TypeOK, Caller
  PROVE  TypeOK'
<1> USE DEF TypeOK
<1>1. ASSUME NEW c \in Callers, NEW op \in RequestOps, NEW p \in Protos,
             Submit(c, op, p), nreq' \in Nat
      PROVE  TypeOK'
  <2>1. [op |-> op, from |-> c, proto |-> p] \in Request
    BY DEF Request
  <2>2. mailbox' \in Seq(Request)
    BY <1>1, <2>1, AppendProperties DEF Submit
  <2>3. CallerType'
    BY <1>1 DEF Submit, CallerType
  <2>4. ActorType' /\ WireType' /\ AdapterType' /\ SeenType'
    BY <1>1 DEF Submit, ActorType, WireType, AdapterType, SeenType, linkVars, wedgeVars,
         portVars, wireVars, adapterVars, seenVars
  <2>. QED  BY <2>2, <2>3, <2>4
<1>2. ASSUME NEW c \in Callers, DropHandle(c)
      PROVE  TypeOK'
  BY <1>2 DEF DropHandle, CallerType, ActorType, WireType, AdapterType, SeenType, linkVars,
       wedgeVars, portVars, wireVars, adapterVars, seenVars, boundVars
<1>3. nreq \in Nat
  BY DEF SeenType
<1>. QED  BY <1>1, <1>2, <1>3 DEF Caller, SubmitConnect, SubmitUse, DropChannel, RequestOps

LEMMA ActorStepType ==
  ASSUME TypeOK, Actor
  PROVE  TypeOK'
<1> USE DEF TypeOK
<1>1. /\ cur \in Exchange /\ cur.proto \in Protos /\ NoExchange \in Exchange
      /\ Own("IdlePoll", Iso15765) \in [op : ExchangeOps, from : Callers \cup {NoCaller}, proto : Protos]
      /\ NoMsg \in Msg /\ {"Wedged", "Msg", "Codec", "Timeout", "Transport"} \subseteq Outcomes
  BY SessionAssumption DEF ActorType, Exchange, ExchangeOps, NoExchange, Own, NoMsg, Msg, Outcomes, Failures
<1>2. mailbox # <<>> => Oldest \in Request /\ Tail(mailbox) \in Seq(Request)
  BY HeadTailProperties DEF Oldest
<1>3. ASSUME RefuseWedged PROVE TypeOK'
  <2>1. CallerType'
    BY <1>1, <1>2, <1>3, AnswerType DEF RefuseWedged, Request
  <2>. QED  BY <1>2, <1>3, <2>1 DEF RefuseWedged, ActorType, WireType, AdapterType, SeenType, linkVars,
              wedgeVars, portVars, wireVars, adapterVars, seenVars, boundVars
<1>4. ASSUME PollQueued PROVE TypeOK'
  <2>1. Oldest.proto \in Protos /\ mailbox' \in Seq(Request)
    BY <1>2, <1>4 DEF PollQueued, Request
  <2>2. /\ queues[Oldest.proto] \in Seq(Msg) /\ queues[Oldest.proto] # <<>>
        /\ Head(queues[Oldest.proto]) \in Msg /\ Tail(queues[Oldest.proto]) \in Seq(Msg)
    BY <1>4, <2>1, HeadTailProperties DEF PollQueued, ActorType
  <2>3. CallerType'
    BY <1>1, <1>4, <2>1, AnswerType DEF PollQueued
  <2>4. out' \in [Protos -> Seq(Msg)]
    BY <1>4, <2>1, <2>2, LogType DEF PollQueued, SeenType
  <2>5. queues' \in [Protos -> Seq(Msg)]
    BY <1>4, <2>1, <2>2 DEF PollQueued, ActorType
  <2>6. ActorType'
    BY <1>4, <2>5 DEF PollQueued, ActorType, wedgeVars, portVars
  <2>7. WireType' /\ AdapterType' /\ SeenType'
    BY <1>4, <2>4 DEF PollQueued, WireType, AdapterType, SeenType, wireVars, adapterVars, boundVars
  <2>. QED  BY <2>1, <2>3, <2>6, <2>7
<1>5. ASSUME NEW x \in [op : ExchangeOps, from : Callers \cup {NoCaller}, proto : Protos],
             Transmit(x), mailbox' \in Seq(Request), connected' \in SUBSET Protos,
             UNCHANGED <<callerVars, linkKey, queues, wedgeVars, portVars, adapterVars,
                         seenVars, boundVars>>
      PROVE  TypeOK'
  BY <1>5, TransmitType DEF CallerType, ActorType, AdapterType, SeenType,
     callerVars, wedgeVars, portVars, adapterVars, seenVars, boundVars
<1>6. connected \in SUBSET Protos
  BY DEF ActorType
<1>7. ASSUME StartRequest PROVE TypeOK'
  <2>1. Oldest \in [op : ExchangeOps, from : Callers \cup {NoCaller}, proto : Protos]
    BY <1>2, <1>7 DEF StartRequest, PutOnWire, Request, ExchangeOps
  <2>. QED  BY <1>2, <1>5, <1>6, <1>7, <2>1 DEF StartRequest, PutOnWire, linkVars
<1>8. ASSUME StartIdlePoll PROVE TypeOK'
  <2>1. connected # {} => First(connected) \in Protos
    BY <1>6, FirstIsTracked
  <2>2. Own("IdlePoll", IF connected = {} THEN Iso15765 ELSE First(connected))
          \in [op : ExchangeOps, from : Callers \cup {NoCaller}, proto : Protos]
    BY <1>1, <2>1 DEF Own, ExchangeOps
  <2>. QED  BY <1>5, <1>6, <1>8, <2>2 DEF StartIdlePoll, IdlePollAnyway, linkVars
<1>9. ASSUME ReadReply PROVE TypeOK'
  <2>1. WireType'
    BY <1>9, FramesType DEF ReadReply, WireType
  <2>. QED  BY <1>9, <2>1, FramesType, FinishType DEF ReadReply
<1>10. ASSUME ReadTimeout \/ ReadError PROVE TypeOK'
  <2>1. CASE ReadTimeout
    BY <1>1, <2>1, GivingUpType, FinishType DEF ReadTimeout
  <2>2. CASE ReadError
    BY <1>1, <2>2, GivingUpType, FinishType DEF ReadError
  <2>. QED  BY <1>10, <2>1, <2>2
<1>11. ASSUME SendReset \/ SendIdentify PROVE TypeOK'
  <2>1. WireType'
    BY <1>1, <1>11, WriteType, SessionAssumption DEF SendReset, SendIdentify
  <2>2. CallerType' /\ mailbox' \in Seq(Request) /\ AdapterType' /\ SeenType'
    BY <1>11 DEF SendReset, SendIdentify, CallerType, AdapterType, SeenType,
       callerVars, adapterVars, seenVars, boundVars
  <2>3. ActorType'
    BY <1>11, ZenonT(30) DEF SendReset, SendIdentify, ActorType, Phases, linkVars, wedgeVars, portVars
  <2>. QED  BY <2>1, <2>2, <2>3
<1>12. ASSUME ReadChallenge PROVE TypeOK'
  <2>1. WireType' /\ linkKey' \in Keys \cup {NoKey}
    BY <1>12, FramesType DEF ReadChallenge, Establish, WireType, Frame
  <2>2. CallerType' /\ pc' \in Phases /\ cur' \in Exchange
    BY <1>1, <1>12 DEF ReadChallenge, Done, CallerType, ActorType, Phases
  <2>. QED  BY <1>12, <2>1, <2>2 DEF ReadChallenge, Establish, ActorType, AdapterType, SeenType,
              wedgeVars, portVars, adapterVars, boundVars
<1>13. ASSUME BadChallenge PROVE TypeOK'
  <2>1. WireType'
    BY <1>13, FramesType DEF BadChallenge, WireType
  <2>. QED  BY <1>1, <1>13, <2>1, HandshakeFailsType DEF BadChallenge
<1>14. ASSUME NoChallenge \/ HandshakeError PROVE TypeOK'
  BY <1>1, <1>14, GivingUpType, HandshakeFailsType DEF NoChallenge, HandshakeError, wireVars, WireType
<1>15. ASSUME RetryConnect PROVE TypeOK'
  <2>1. [cur EXCEPT !.op = "Retry"] \in [op : ExchangeOps, from : Callers \cup {NoCaller}, proto : Protos]
    BY <1>1 DEF Exchange, ExchangeOps
  <2>. QED  BY <1>5, <1>6, <1>15, <2>1 DEF RetryConnect, linkVars
<1>16. ASSUME TeardownStep PROVE TypeOK'
  <2>1. connected # {} => First(connected) \in Protos
    BY <1>6, FirstIsTracked
  <2>2. CASE connected # {}
    BY <1>5, <1>6, <1>16, <2>1, <2>2 DEF TeardownStep, Own, ExchangeOps
  <2>3. CASE connected = {}
    BY <1>5, <1>6, <1>16, <2>3, SessionAssumption DEF TeardownStep, Own, ExchangeOps
  <2>. QED  BY <2>2, <2>3
<1>17. ASSUME StartTeardown \/ ReleasePort \/ SignalClosed PROVE TypeOK'
  <2>1. CallerType' /\ mailbox' \in Seq(Request) /\ WireType' /\ AdapterType' /\ SeenType'
    BY <1>17 DEF StartTeardown, ReleasePort, SignalClosed, CallerType, WireType, AdapterType, SeenType,
         callerVars, wireVars, adapterVars, seenVars, boundVars
  <2>2. CASE StartTeardown
    BY <2>1, <2>2 DEF StartTeardown, ActorType, Phases, linkVars, wedgeVars, portVars
  <2>3. CASE ReleasePort
    BY <2>1, <2>3 DEF ReleasePort, ActorType, Phases, linkVars, wedgeVars
  <2>4. CASE SignalClosed
    BY <2>1, <2>4 DEF SignalClosed, ActorType, Phases, linkVars, wedgeVars
  <2>. QED  BY <1>17, <2>2, <2>3, <2>4
<1>. QED  BY <1>3, <1>4, <1>7, <1>8, <1>9, <1>10, <1>11, <1>12, <1>13, <1>14, <1>15, <1>16, <1>17 DEF Actor

\* The adapter answers with frames, whatever it answers.
LEMMA RespondType ==
  ASSUME toHost \in Seq(Frame), NEW op \in WireOps \cup {"Identify"},
         NEW key \in Keys \cup {NoKey}, NEW body \in Outcomes, NEW m \in Msg,
         Respond(op, key, body, m)
  PROVE  toHost' \in Seq(Frame)
<1>1. ASSUME NEW b \in {body, "Codec"},
             toHost' = Append(toHost, [op |-> op, key |-> key, body |-> b, msg |-> m])
      PROVE  toHost' \in Seq(Frame)
  <2>1. [op |-> op, key |-> key, body |-> b, msg |-> m] \in Frame
    BY DEF Frame, Outcomes, Failures
  <2>. QED  BY <1>1, <2>1, AppendProperties
<1>. QED  BY <1>1 DEF Respond

LEMMA AdapterStepType ==
  ASSUME TypeOK, Adapter \/ Hang
  PROVE  TypeOK'
<1> USE DEF TypeOK
<1>1. /\ toHost \in Seq(Frame) /\ toAdapter \in Seq(Command)
      /\ akey \in Keys \cup {NoKey} /\ hung \in BOOLEAN
      /\ chan \in [Protos -> {"off", "deaf", "filtered"}]
      /\ ring \in [Protos -> Seq(Msg)] /\ nmsg \in Nat
  BY DEF WireType, AdapterType, SeenType
<1>2. NoMsg \in Msg /\ {"Ok", "Msg", "Empty", "Rejected", "Codec"} \subseteq Outcomes
  BY SessionAssumption DEF NoMsg, Msg, Outcomes, Failures
<1>3. toAdapter # <<>> =>
        /\ Head(toAdapter) \in Command /\ Head(toAdapter).proto \in Protos
        /\ Tail(toAdapter) \in Seq(Command)
  <2>1. toAdapter # <<>> => Head(toAdapter) \in Command /\ Tail(toAdapter) \in Seq(Command)
    BY <1>1, HeadTailProperties
  <2>. QED  BY <2>1 DEF Command
<1> DEFINE Wired == /\ toAdapter' \in Seq(Command) /\ toHost' \in Seq(Frame)
                    /\ akey' \in Keys \cup {NoKey}
                    /\ chan' \in [Protos -> {"off", "deaf", "filtered"}]
                    /\ ring' \in [Protos -> Seq(Msg)]
<1>4. AdapterReset => Wired
  BY <1>1, <1>3, EmptySeq DEF AdapterReset, Take
<1>5. AdapterIdentify => Wired
  BY <1>1, <1>2, <1>3, RespondType DEF AdapterIdentify, Take
<1>6. AdapterIgnores => Wired
  BY <1>1, <1>3 DEF AdapterIgnores, Take
<1>7. ASSUME NEW op \in WireOps, AdapterServes(op) PROVE Wired
  <2>1. toAdapter' \in Seq(Command) /\ Head(toAdapter).proto \in Protos
    BY <1>3, <1>7 DEF AdapterServes, Take
  <2>2. /\ akey' \in Keys \cup {NoKey}
        /\ chan' \in [Protos -> {"off", "deaf", "filtered"}]
    BY <1>1, <1>7 DEF AdapterServes
  <2>3. ring' \in [Protos -> Seq(Msg)]
    <3>1. CASE op = "Poll" /\ ring[Head(toAdapter).proto] # <<>>
      <4>1. Tail(ring[Head(toAdapter).proto]) \in Seq(Msg)
        BY <1>1, <2>1, <3>1, HeadTailProperties
      <4>. QED  BY <1>1, <1>7, <2>1, <3>1, <4>1 DEF AdapterServes
    <3>2. CASE ~(op = "Poll" /\ ring[Head(toAdapter).proto] # <<>>)
      BY <1>1, <1>7, <2>1, <3>2, EmptySeq, ZenonT(30) DEF AdapterServes
    <3>. QED  BY <3>1, <3>2
  <2>4. toHost' \in Seq(Frame)
    <3>1. \E body \in Outcomes, m \in Msg : Respond(op, akey, body, m)
      <4>1. CASE op = "Poll" /\ ring[Head(toAdapter).proto] # <<>>
        <5>1. Head(ring[Head(toAdapter).proto]) \in Msg
          BY <1>1, <2>1, <4>1, HeadTailProperties
        <5>. QED  BY <1>2, <1>7, <4>1, <5>1 DEF AdapterServes
      <4>2. CASE ~(op = "Poll" /\ ring[Head(toAdapter).proto] # <<>>)
        BY <1>2, <1>7, <4>2 DEF AdapterServes
      <4>. QED  BY <4>1, <4>2
    <3>. QED  BY <1>1, <3>1, RespondType
  <2>. QED  BY <2>1, <2>2, <2>3, <2>4
<1>8. ASSUME NEW p \in Protos, BusMessage(p) PROVE Wired /\ nmsg' \in Nat
  <2>1. nmsg' \in Nat /\ [proto |-> p, n |-> nmsg'] \in Msg
    BY <1>1, <1>8 DEF BusMessage, Msg
  <2>2. ring' \in [Protos -> Seq(Msg)]
    BY <1>1, <1>8, <2>1, LogType DEF BusMessage
  <2>. QED  BY <1>1, <1>8, <2>1, <2>2 DEF BusMessage, wireVars
<1>9. CASE Adapter
  <2>1. Wired /\ nmsg' \in Nat
    BY <1>1, <1>4, <1>5, <1>6, <1>7, <1>8, <1>9 DEF Adapter
  <2>2. hung' \in BOOLEAN
    BY <1>1, <1>9 DEF Adapter
  <2>3. CallerType' /\ mailbox' \in Seq(Request) /\ ActorType'
    BY <1>9 DEF Adapter, CallerType, ActorType, callerVars, linkVars, wedgeVars, portVars
  <2>4. SeenType'
    BY <1>9, <2>1 DEF Adapter, SeenType, seenVars
  <2>. QED  BY <2>1, <2>2, <2>3, <2>4 DEF WireType, AdapterType
<1>10. CASE Hang
  <2>1. WireType' /\ AdapterType'
    BY <1>1, <1>10, EmptySeq DEF Hang, WireType, AdapterType
  <2>2. CallerType' /\ mailbox' \in Seq(Request) /\ ActorType' /\ SeenType'
    BY <1>10 DEF Hang, CallerType, ActorType, SeenType, callerVars, linkVars, wedgeVars, portVars,
       seenVars, boundVars
  <2>. QED  BY <2>1, <2>2
<1>. QED  BY <1>9, <1>10

LEMMA InitType == Init => TypeOK
<1> SUFFICES ASSUME Init PROVE TypeOK
  OBVIOUS
<1> USE SessionAssumption DEF Init
<1>1. CallerType /\ mailbox \in Seq(Request) /\ WireType
  BY EmptySeq DEF CallerType, WireType, Outcomes
<1>2. ActorType
  <2>1. pc \in Phases /\ cur \in Exchange
    BY DEF Phases, Exchange, Own
  <2>2. silent \in 0 .. 255 /\ wedged \in BOOLEAN /\ connected \in SUBSET Protos
    <3>1. silent = 0
      BY Zenon
    <3>2. silent \in 0 .. 255
      BY ONLY <3>1
    <3>3. wedged \in BOOLEAN /\ connected \in SUBSET Protos
      BY Zenon
    <3>. QED  BY <3>2, <3>3
  <2>3. queues \in [Protos -> Seq(Msg)] /\ linkKey \in Keys \cup {NoKey}
    BY EmptySeq
  <2>4. port \in {"held", "free"} /\ closed \in BOOLEAN
    OBVIOUS
  <2>. QED  BY <2>1, <2>2, <2>3, <2>4 DEF ActorType
<1>3. AdapterType /\ SeenType
  BY EmptySeq DEF AdapterType, SeenType
<1>. QED  BY <1>1, <1>2, <1>3 DEF TypeOK

LEMMA StepType == TypeOK /\ [Next]_vars => TypeOK'
<1> SUFFICES ASSUME TypeOK, [Next]_vars PROVE TypeOK'
  OBVIOUS
<1>1. CASE UNCHANGED vars
  BY <1>1 DEF vars, TypeOK, CallerType, ActorType, WireType, AdapterType, SeenType, callerVars, linkVars,
     wedgeVars, portVars, wireVars, adapterVars, seenVars, boundVars
<1>. QED  BY <1>1, CallerStepType, ActorStepType, AdapterStepType DEF Next, Ended

\* Every variable keeps its type: in particular a frame read from the wire
\* is always decoded to an outcome, and the protocol of an idle poll or of a
\* teardown step is one of those in use.
THEOREM TypeCorrect == Spec => []TypeOK
<1>. QED  BY InitType, StepType, PTL DEF Spec

-----------------------------------------------------------------------------
(* The actor's control state: what it is doing for whom.                   *)

\* A caller's request is under way in no other phase than these.
CurWhilePhase ==
  /\ cur.from \in Callers <=> cur.op \in RequestOps \cup {"Retry"}
  /\ pc = "await" => cur.op \in ExchangeOps
  /\ pc \in {"reset", "identify", "challenge"} => cur.op \in {"Open", "Connect"}
  /\ pc = "retry" => cur.op = "Connect"
  /\ pc = "idle" => cur.op = "None"
  /\ pc \in {"teardown", "release", "signal", "openFailed", "openReported", "gone"} =>
       cur.op \in {"None", "Open"}

\* No handle exists before the open has succeeded; the port is given up and
\* the signal set on the way out, in either order.
PortWhilePhase ==
  /\ cur.op = "Open" \/ pc \in {"openFailed", "openReported"} =>
       \A c \in Callers : handle[c] = "none"
  /\ closed => pc \in {"gone", "openReported"}
  /\ pc \in {"signal", "gone"} => port = "free"

\* A poll goes to the wire only when its queue is empty, and stays so.
QueueWhilePoll == pc = "await" /\ cur.op = "Poll" => queues[cur.proto] = <<>>

\* OPEN follows a reset on the wire, or waits at an adapter with no key.
OpensFollowReset(q, key) ==
  \A i \in 1 .. Len(q) : q[i].op = "Identify" =>
    IF i = 1 THEN key = NoKey ELSE q[i - 1].op = "Reset"

OpenAfterReset ==
  /\ OpensFollowReset(toAdapter, akey)
  /\ pc = "identify" => \/ hung
                        \/ toAdapter = <<>> /\ akey = NoKey
                        \/ toAdapter # <<>> /\ toAdapter[Len(toAdapter)].op = "Reset"

\* Where the actor goes when an exchange ends.
LEMMA FinishControl ==
  ASSUME NEW o, NEW m, Finish(o, m)
  PROVE  \/ pc' = "idle" /\ cur' = NoExchange
         \/ pc' = "reset" /\ cur' = cur /\ cur.op = "Connect"
         \/ /\ pc' \in {"teardown", "release"} /\ cur' = NoExchange
            /\ cur.op \in {"Drain", "Close"}
BY DEF Finish, ConnectDone, DisconnectDone, PollDone, TransactDone, IdlePollDone, TeardownDone, Done

LEMMA HandshakeFailsControl ==
  ASSUME NEW o, HandshakeFails(o)
  PROVE  \/ pc' = "idle" /\ cur' = NoExchange /\ cur.op # "Open"
         \/ pc' = "openFailed" /\ cur' = cur /\ cur.op = "Open"
BY DEF HandshakeFails, Done

LEMMA NoExchangeFacts == NoExchange.op = "None" /\ NoExchange.from \notin Callers
BY SessionAssumption DEF NoExchange, Own

LEMMA InitCur == Init => CurWhilePhase
BY SessionAssumption DEF Init, CurWhilePhase, Own, RequestOps

LEMMA StepCur ==
  ASSUME TypeOK, CurWhilePhase, [Next]_vars
  PROVE  CurWhilePhase'
<1> USE DEF CurWhilePhase
<1> DEFINE Idled == pc' = "idle" /\ cur' = NoExchange
           Same  == UNCHANGED <<pc, cur>>
<1>1. Idled => CurWhilePhase'
  BY NoExchangeFacts DEF RequestOps
<1>2. Same => CurWhilePhase'
  OBVIOUS
<1>3. ASSUME NEW x \in [op : ExchangeOps, from : Callers \cup {NoCaller}, proto : Protos],
             x.from \in Callers <=> x.op \in RequestOps \cup {"Retry"}, Transmit(x)
      PROVE  CurWhilePhase'
  BY <1>3 DEF Transmit
<1>4. CASE Caller \/ RefuseWedged \/ PollQueued \/ Adapter \/ Hang \/ UNCHANGED vars \/ Ended
  <2>1. Same
    BY <1>4, Zenon DEF Caller, SubmitConnect, SubmitUse, DropChannel, DropHandle, Submit, RefuseWedged, PollQueued,
       Adapter, Hang, vars, Ended
  <2>. QED  BY <1>2, <2>1
<1>5. CASE StartRequest
  <2>1. Oldest \in Request
    BY <1>5, HeadTailProperties DEF StartRequest, PutOnWire, Oldest, TypeOK
  <2>2. /\ Oldest \in [op : ExchangeOps, from : Callers \cup {NoCaller}, proto : Protos]
        /\ Oldest.from \in Callers /\ Oldest.op \in RequestOps
    BY <2>1 DEF Request, ExchangeOps
  <2>. QED  BY <1>3, <1>5, <2>2 DEF StartRequest, PutOnWire
<1>6. CASE StartIdlePoll \/ TeardownStep
  <2>1. pc' = "await" /\ cur'.op \in {"IdlePoll", "Drain", "Close"} /\ cur'.from = NoCaller
    BY <1>6 DEF StartIdlePoll, IdlePollAnyway, TeardownStep, Transmit, Own
  <2>. QED  BY <2>1, SessionAssumption DEF ExchangeOps, RequestOps
<1>7. CASE RetryConnect
  <2>1. pc' = "await" /\ cur'.op = "Retry" /\ cur'.from = cur.from /\ cur.op = "Connect"
    BY <1>7 DEF RetryConnect, Transmit, TypeOK, ActorType, Exchange
  <2>. QED  BY <2>1 DEF ExchangeOps, RequestOps
<1>8. CASE ReadReply \/ ReadTimeout \/ ReadError
  <2>1. \E o, m : Finish(o, m)
    BY <1>8 DEF ReadReply, ReadTimeout, ReadError
  <2>. QED  BY <1>1, <2>1, FinishControl, NoExchangeFacts DEF RequestOps
<1>9. CASE SendReset \/ SendIdentify
  BY <1>9 DEF SendReset, SendIdentify
<1>10. CASE ReadChallenge
  BY <1>1, <1>10 DEF ReadChallenge, Done
<1>11. CASE BadChallenge \/ NoChallenge \/ HandshakeError
  <2>1. \E o : HandshakeFails(o)
    BY <1>11 DEF BadChallenge, NoChallenge, HandshakeError
  <2>. QED  BY <1>1, <2>1, HandshakeFailsControl
<1>12. CASE StartTeardown \/ ReleasePort \/ SignalClosed
  BY <1>12 DEF StartTeardown, ReleasePort, SignalClosed
<1>. QED  BY <1>4, <1>5, <1>6, <1>7, <1>8, <1>9, <1>10, <1>11, <1>12 DEF Next, Actor

LEMMA InitPort == Init => PortWhilePhase
BY DEF Init, PortWhilePhase, Own

LEMMA AnswerKeepsHandles ==
  ASSUME NEW x, NEW o, Answer(x, o)
  PROVE  UNCHANGED handle
BY DEF Answer

LEMMA StepPort ==
  ASSUME TypeOK, CurWhilePhase, PortWhilePhase, [Next]_vars
  PROVE  PortWhilePhase'
<1> USE DEF PortWhilePhase
<1>1. ASSUME pc \notin {"signal", "gone", "openFailed", "openReported"},
             UNCHANGED <<handle, portVars>>, pc' \notin {"signal", "gone"},
             cur'.op = "Open" \/ pc' \in {"openFailed", "openReported"} => cur.op = "Open"
      PROVE  PortWhilePhase'
  BY <1>1 DEF portVars
<1>2. ASSUME UNCHANGED <<pc, cur, handle, portVars>> PROVE PortWhilePhase'
  BY <1>2 DEF portVars
<1>3. CASE Caller
  <2>1. ASSUME NEW c \in Callers, NEW op, NEW p, Submit(c, op, p) PROVE PortWhilePhase'
    BY <1>2, <2>1 DEF Submit
  <2>2. ASSUME NEW c \in Callers, DropHandle(c) PROVE PortWhilePhase'
    <3>1. UNCHANGED <<pc, cur, portVars>> /\ handle[c] = "live"
      BY <2>2 DEF DropHandle
    <3>. QED  BY <3>1 DEF portVars
  <2>. QED  BY <1>3, <2>1, <2>2 DEF Caller, SubmitConnect, SubmitUse, DropChannel
<1>4. CASE RefuseWedged \/ PollQueued \/ Adapter \/ Hang \/ UNCHANGED vars \/ Ended
  <2>1. UNCHANGED <<pc, cur, handle, portVars>>
    BY <1>4, AnswerKeepsHandles, Zenon DEF RefuseWedged, PollQueued, Adapter, Hang, vars, callerVars, Ended
  <2>. QED  BY <1>2, <2>1
<1>5. CASE StartRequest
  <2>1. Oldest \in Request
    BY <1>5, HeadTailProperties DEF StartRequest, PutOnWire, Oldest, TypeOK
  <2>2. Oldest.op # "Open"
    BY <2>1 DEF Request, RequestOps
  <2>. QED  BY <1>1, <1>5, <2>2 DEF StartRequest, PutOnWire, Transmit, callerVars
<1>6. CASE StartIdlePoll \/ TeardownStep \/ RetryConnect
  <2>1. pc' = "await" /\ cur'.op # "Open" /\ pc \in {"idle", "teardown", "retry"}
    BY <1>6 DEF StartIdlePoll, IdlePollAnyway, TeardownStep, RetryConnect, Transmit, Own, TypeOK, ActorType, Exchange
  <2>2. UNCHANGED <<handle, portVars>>
    BY <1>6 DEF StartIdlePoll, IdlePollAnyway, TeardownStep, RetryConnect, callerVars
  <2>. QED  BY <1>1, <2>1, <2>2
<1>7. CASE ReadReply \/ ReadTimeout \/ ReadError
  <2>1. pc = "await" /\ \E o, m : Finish(o, m)
    BY <1>7 DEF ReadReply, ReadTimeout, ReadError
  <2>2. UNCHANGED <<handle, portVars>>
    BY <2>1, AnswerKeepsHandles DEF Finish, ConnectDone, DisconnectDone, PollDone, TransactDone, IdlePollDone,
       TeardownDone, callerVars
  <2>. QED  BY <1>1, <2>1, <2>2, FinishControl DEF NoExchange, Own
<1>8. CASE SendReset \/ SendIdentify \/ StartTeardown
  BY <1>1, <1>8 DEF SendReset, SendIdentify, StartTeardown, callerVars
<1>9. CASE ReadChallenge
  BY <1>1, <1>9 DEF ReadChallenge, Done, NoExchange, Own, portVars
<1>10. CASE BadChallenge \/ NoChallenge \/ HandshakeError
  <2>1. pc \in {"reset", "identify", "challenge"} /\ \E o : HandshakeFails(o)
    BY <1>10 DEF BadChallenge, NoChallenge, HandshakeError
  <2>2. UNCHANGED <<handle, portVars>>
    BY <2>1, AnswerKeepsHandles DEF HandshakeFails, callerVars
  <2>. QED  BY <1>1, <2>1, <2>2, HandshakeFailsControl DEF NoExchange, Own
<1>11. CASE ReleasePort \/ SignalClosed
  BY <1>11 DEF ReleasePort, SignalClosed, CurWhilePhase, callerVars
<1>. QED  BY <1>3, <1>4, <1>5, <1>6, <1>7, <1>8, <1>9, <1>10, <1>11 DEF Next, Actor

\* Whoever holds or held a handle and sees the close signal can reopen the
\* port: the signal follows the release, but for an open that failed.
THEOREM ClosedPortIsFree == Spec => []CloseMeansPortFree
<1>1. Init => TypeOK /\ CurWhilePhase /\ PortWhilePhase
  BY InitType, InitCur, InitPort
<1>2. TypeOK /\ CurWhilePhase /\ PortWhilePhase /\ [Next]_vars
        => (TypeOK /\ CurWhilePhase /\ PortWhilePhase)'
  BY StepType, StepCur, StepPort
<1>3. PortWhilePhase => CloseMeansPortFree
  BY DEF PortWhilePhase, CloseMeansPortFree
<1>. QED  BY <1>1, <1>2, <1>3, PTL DEF Spec

-----------------------------------------------------------------------------
(* Every call is answered once.                                            *)

LEMMA TailLine ==
  ASSUME NEW q \in Seq(Request), q # <<>>, NoneTwice(q)
  PROVE  /\ NoneTwice(Tail(q)) /\ Head(q).from \in Callers /\ InLine(q, Head(q).from)
         /\ \A c : InLine(Tail(q), c) <=> InLine(q, c) /\ c # Head(q).from
<1>1. /\ Len(q) \in Nat \ {0} /\ Len(Tail(q)) = Len(q) - 1 /\ Head(q) = q[1]
      /\ \A i \in 1 .. Len(q) - 1 : Tail(q)[i] = q[i + 1]
  BY EmptySeq, HeadTailProperties
<1>2. Head(q).from \in Callers
  <2>1. Head(q) \in Request
    BY HeadTailProperties
  <2>. QED  BY <2>1 DEF Request
<1>3. NoneTwice(Tail(q)) /\ InLine(q, Head(q).from)
  BY <1>1 DEF NoneTwice, InLine
<1>4. ASSUME NEW c
      PROVE  InLine(Tail(q), c) <=> InLine(q, c) /\ c # Head(q).from
  <2>1. ASSUME NEW i \in 1 .. Len(q) - 1, Tail(q)[i].from = c
        PROVE  InLine(q, c) /\ c # Head(q).from
    BY <1>1, <2>1 DEF InLine, NoneTwice
  <2>2. ASSUME NEW i \in 1 .. Len(q), q[i].from = c, c # Head(q).from
        PROVE  InLine(Tail(q), c)
    <3>1. i - 1 \in 1 .. Len(q) - 1 /\ Tail(q)[i - 1] = q[i]
      BY <1>1, <2>2
    <3>. QED  BY <1>1, <2>2, <3>1 DEF InLine
  <2>. QED  BY <1>1, <2>1, <2>2 DEF InLine
<1>. QED  BY <1>2, <1>3, <1>4

LEMMA AppendLine ==
  ASSUME NEW q \in Seq(Request), NEW r \in Request, NoneTwice(q), ~InLine(q, r.from)
  PROVE  /\ NoneTwice(Append(q, r))
         /\ \A c : InLine(Append(q, r), c) <=> InLine(q, c) \/ c = r.from
<1>1. /\ Len(q) \in Nat /\ Len(Append(q, r)) = Len(q) + 1 /\ Append(q, r)[Len(q) + 1] = r
      /\ \A i \in 1 .. Len(q) : Append(q, r)[i] = q[i]
  BY LenProperties, AppendProperties
<1>. QED  BY <1>1 DEF NoneTwice, InLine

LEMMA NobodyInLine == TypeOK => ~InLine(mailbox, NoCaller)
<1>1. ASSUME TypeOK, NEW i \in 1 .. Len(mailbox) PROVE mailbox[i].from # NoCaller
  <2>1. mailbox[i] \in Request
    BY <1>1, ElementOfSeq DEF TypeOK
  <2>. QED  BY <2>1, SessionAssumption DEF Request
<1>. QED  BY <1>1 DEF InLine

LEMMA InitOneRequest == Init => OneRequestEach
BY SessionAssumption DEF Init, OneRequestEach, InLine, NoneTwice, Own

\* Answering x takes the one pending caller that x is for out of the line.
LEMMA AnswerResult ==
  ASSUME TypeOK, NEW x, x.from \in Callers, NEW o \in Outcomes, Answer(x, o)
  PROVE  \A c \in Callers : result'[c] = "pending" <=> result[c] = "pending" /\ c # x.from
BY DEF Answer, TypeOK, CallerType, Outcomes, Failures

\* An exchange that ends either answers the caller it is for, or is for no
\* caller, or goes on to the second attempt of a connect.
LEMMA FinishAnswers ==
  ASSUME TypeOK, CurWhilePhase, NEW o, NEW m, Finish(o, m)
  PROVE  \/ cur.from \in Callers /\ Answer(cur, o) /\ cur' = NoExchange
         \/ cur.from \notin Callers /\ UNCHANGED callerVars /\ cur' = NoExchange
         \/ UNCHANGED callerVars /\ cur' = cur
<1>1. CASE ConnectDone(o)
  BY <1>1 DEF ConnectDone, Done, CurWhilePhase, RequestOps
<1>2. CASE DisconnectDone(o) \/ PollDone(o, m) \/ TransactDone(o)
  BY <1>2 DEF DisconnectDone, PollDone, TransactDone, Done, CurWhilePhase, RequestOps
<1>3. CASE IdlePollDone(o, m) \/ TeardownDone
  BY <1>3 DEF IdlePollDone, TeardownDone, Done, CurWhilePhase, RequestOps
<1>. QED  BY <1>1, <1>2, <1>3 DEF Finish

LEMMA HandshakeFailsAnswers ==
  ASSUME TypeOK, CurWhilePhase, pc \in {"reset", "identify", "challenge"}, NEW o, HandshakeFails(o)
  PROVE  \/ cur.from \in Callers /\ Answer(cur, o) /\ cur' = NoExchange
         \/ UNCHANGED callerVars /\ cur' = cur
<1>1. CASE cur.op = "Open"
  BY <1>1 DEF HandshakeFails
<1>2. CASE cur.op # "Open"
  <2>1. cur.from \in Callers
    BY <1>2 DEF CurWhilePhase, RequestOps
  <2>. QED  BY <1>2, <2>1 DEF HandshakeFails, Done
<1>. QED  BY <1>1, <1>2

LEMMA StepOneRequest ==
  ASSUME TypeOK, CurWhilePhase, OneRequestEach, [Next]_vars
  PROVE  OneRequestEach'
<1> USE DEF OneRequestEach
<1>1. ASSUME UNCHANGED <<result, mailbox>>,
             cur'.from = cur.from \/ (cur.from \notin Callers /\ cur'.from = NoCaller)
      PROVE  OneRequestEach'
  <2>1. ~InLine(mailbox, NoCaller)
    BY NobodyInLine
  <2>. QED  BY <1>1, <2>1, SessionAssumption
<1>2. NoExchange.from = NoCaller
  BY DEF NoExchange, Own
<1>3. ASSUME NEW o \in Outcomes, cur.from \in Callers, Answer(cur, o), cur' = NoExchange, UNCHANGED mailbox
      PROVE  OneRequestEach'
  <2>1. ~InLine(mailbox, NoCaller)
    BY NobodyInLine
  <2>2. \A c \in Callers : result'[c] = "pending" <=> result[c] = "pending" /\ c # cur.from
    BY <1>3, AnswerResult
  <2>. QED  BY <1>2, <1>3, <2>1, <2>2, SessionAssumption
<1>4. mailbox # <<>> => /\ Oldest \in Request /\ NoneTwice(Tail(mailbox)) /\ Oldest.from \in Callers
                        /\ InLine(mailbox, Oldest.from)
                        /\ \A c : InLine(Tail(mailbox), c) <=> InLine(mailbox, c) /\ c # Oldest.from
  BY TailLine, HeadTailProperties DEF TypeOK, Oldest
<1>5. ASSUME NEW o \in Outcomes, mailbox # <<>>, Answer(Oldest, o), mailbox' = Tail(mailbox), UNCHANGED cur
      PROVE  OneRequestEach'
  <2>1. \A c \in Callers : result'[c] = "pending" <=> result[c] = "pending" /\ c # Oldest.from
    BY <1>4, <1>5, AnswerResult
  <2>. QED  BY <1>4, <1>5, <2>1
<1>6. CASE Caller
  <2>1. ASSUME NEW c \in Callers, NEW op \in RequestOps, NEW p \in Protos, Submit(c, op, p)
        PROVE  OneRequestEach'
    <3> DEFINE r == [op |-> op, from |-> c, proto |-> p]
    <3>1. r \in Request /\ r.from = c /\ ~InLine(mailbox, c) /\ cur.from # c
      BY <2>1 DEF Submit, Request
    <3>2. NoneTwice(mailbox') /\ \A d : InLine(mailbox', d) <=> InLine(mailbox, d) \/ d = c
      BY <2>1, <3>1, AppendLine DEF Submit, TypeOK
    <3>3. \A d \in Callers : result'[d] = "pending" <=> result[d] = "pending" \/ d = c
      BY <2>1 DEF Submit, TypeOK, CallerType
    <3>. QED  BY <2>1, <3>1, <3>2, <3>3 DEF Submit
  <2>2. ASSUME NEW c \in Callers, DropHandle(c) PROVE OneRequestEach'
    BY <1>1, <2>2 DEF DropHandle
  <2>. QED  BY <1>6, <2>1, <2>2 DEF Caller, SubmitConnect, SubmitUse, DropChannel, RequestOps
<1>7. CASE RefuseWedged \/ PollQueued
  BY <1>5, <1>7 DEF RefuseWedged, PollQueued, Outcomes, Failures
<1>8. CASE StartRequest
  <2>1. cur.from \notin Callers /\ cur' = Oldest /\ UNCHANGED result /\ mailbox' = Tail(mailbox) /\ mailbox # <<>>
    BY <1>8 DEF StartRequest, PutOnWire, Transmit, callerVars, CurWhilePhase, RequestOps
  <2>. QED  BY <1>4, <2>1
<1>9. CASE StartIdlePoll \/ TeardownStep
  <2>1. cur.from \notin Callers
    BY <1>9 DEF StartIdlePoll, IdlePollAnyway, TeardownStep, CurWhilePhase, RequestOps
  <2>2. cur'.from = NoCaller /\ UNCHANGED <<result, mailbox>>
    BY <1>9 DEF StartIdlePoll, IdlePollAnyway, TeardownStep, Transmit, Own, callerVars
  <2>. QED  BY <1>1, <2>1, <2>2
<1>10. CASE RetryConnect
  BY <1>1, <1>10 DEF RetryConnect, Transmit, callerVars, TypeOK, ActorType, Exchange
<1>11. CASE ReadReply \/ ReadTimeout \/ ReadError
  <2>1. UNCHANGED mailbox /\ \E o \in Outcomes : \E m : Finish(o, m)
    BY <1>11, FramesType DEF ReadReply, ReadTimeout, ReadError, Finish, Outcomes, Failures
  <2>. QED  BY <1>1, <1>2, <1>3, <2>1, FinishAnswers DEF callerVars
<1>12. CASE BadChallenge \/ NoChallenge \/ HandshakeError
  <2>1. /\ pc \in {"reset", "identify", "challenge"} /\ UNCHANGED mailbox
        /\ \E o \in Outcomes : HandshakeFails(o)
    BY <1>12 DEF BadChallenge, NoChallenge, HandshakeError, HandshakeFails, Outcomes, Failures
  <2>. QED  BY <1>1, <1>3, <2>1, HandshakeFailsAnswers DEF callerVars
<1>13. CASE ReadChallenge
  <2>1. UNCHANGED <<result, mailbox>> /\ (cur' = cur \/ (cur' = NoExchange /\ cur.op = "Open"))
    BY <1>13 DEF ReadChallenge, Done
  <2>. QED  BY <1>1, <1>2, <2>1 DEF CurWhilePhase, RequestOps
<1>14. CASE SendReset \/ SendIdentify \/ StartTeardown \/ ReleasePort \/ SignalClosed \/ Adapter \/ Hang
            \/ Ended \/ UNCHANGED vars
  <2>1. UNCHANGED <<result, mailbox, cur>>
    BY <1>14 DEF SendReset, SendIdentify, StartTeardown, ReleasePort, SignalClosed, Adapter, Hang, Ended,
       vars, callerVars
  <2>. QED  BY <1>1, <2>1
<1>. QED  BY <1>6, <1>7, <1>8, <1>9, <1>10, <1>11, <1>12, <1>13, <1>14 DEF Next, Actor

\* Every blocked caller has exactly one request under way, in the mailbox or
\* on the wire, so it gets exactly one reply and is never hung up on.
THEOREM RequestsAreAnsweredOnce == Spec => []OneRequestEach
<1>1. Init => TypeOK /\ CurWhilePhase /\ OneRequestEach
  BY InitType, InitCur, InitOneRequest
<1>2. TypeOK /\ CurWhilePhase /\ OneRequestEach /\ [Next]_vars
        => (TypeOK /\ CurWhilePhase /\ OneRequestEach)'
  BY StepType, StepCur, StepOneRequest
<1>. QED  BY <1>1, <1>2, PTL DEF Spec

-----------------------------------------------------------------------------
(* No decoded message is lost or overtaken.                                *)

\* Moving the head of one log to the end of another keeps their sum.
LEMMA MoveHead ==
  ASSUME NEW s \in Seq(Msg), NEW q \in Seq(Msg), q # <<>>
  PROVE  Append(s, Head(q)) \o Tail(q) = s \o q
<1>1. /\ Head(q) \in Msg /\ Tail(q) \in Seq(Msg) /\ Len(Tail(q)) = Len(q) - 1 /\ Len(q) \in Nat \ {0}
      /\ \A i \in 1 .. Len(Tail(q)) : Tail(q)[i] = q[i + 1]
      /\ Head(q) = q[1] /\ Len(s) \in Nat
  BY HeadTailProperties, EmptySeq, LenProperties
<1>2. /\ Append(s, Head(q)) \in Seq(Msg) /\ Len(Append(s, Head(q))) = Len(s) + 1
      /\ \A i \in 1 .. Len(s) : Append(s, Head(q))[i] = s[i]
      /\ Append(s, Head(q))[Len(s) + 1] = Head(q)
  BY <1>1, AppendProperties
<1> DEFINE l == Append(s, Head(q)) \o Tail(q)
           r == s \o q
<1>3. /\ l \in Seq(Msg) /\ Len(l) = Len(s) + Len(q)
      /\ \A i \in 1 .. Len(l) : l[i] = IF i <= Len(s) + 1 THEN Append(s, Head(q))[i] ELSE Tail(q)[i - (Len(s) + 1)]
  BY <1>1, <1>2, ConcatProperties
<1>4. /\ r \in Seq(Msg) /\ Len(r) = Len(s) + Len(q)
      /\ \A i \in 1 .. Len(r) : r[i] = IF i <= Len(s) THEN s[i] ELSE q[i - Len(s)]
  BY <1>1, ConcatProperties
<1>5. \A i \in 1 .. Len(l) : l[i] = r[i]
  BY <1>1, <1>2, <1>3, <1>4
<1>. QED  BY <1>3, <1>4, <1>5, SeqEqual

LEMMA AppendBehind ==
  ASSUME NEW s \in Seq(Msg), NEW q \in Seq(Msg), NEW m \in Msg
  PROVE  s \o Append(q, m) = Append(s \o q, m)
<1>1. <<m>> \in Seq(Msg) /\ s \o q \in Seq(Msg)
  BY ConcatProperties
<1>2. Append(q, m) = q \o <<m>> /\ Append(s \o q, m) = (s \o q) \o <<m>>
  BY <1>1, AppendIsConcat
<1>. QED  BY <1>1, <1>2, ConcatAssociative

LEMMA InitNothingLost == Init => QueueWhilePoll /\ AnsweredNotLost
<1> SUFFICES ASSUME Init PROVE QueueWhilePoll /\ AnsweredNotLost
  OBVIOUS
<1>1. QueueWhilePoll
  BY DEF Init, QueueWhilePoll
<1>2. ASSUME NEW p \in Protos PROVE got[p] = out[p] \o queues[p]
  <2>1. got[p] = <<>> /\ out[p] = <<>> /\ queues[p] = <<>>
    BY DEF Init
  <2>. QED  BY <2>1, EmptySeq, ConcatEmptySeq
<1>. QED  BY <1>1, <1>2 DEF AnsweredNotLost

LEMMA StepNothingLost ==
  ASSUME TypeOK, QueueWhilePoll, AnsweredNotLost, [Next]_vars
  PROVE  (QueueWhilePoll /\ AnsweredNotLost)'
<1> USE DEF QueueWhilePoll, AnsweredNotLost
<1>1. ASSUME UNCHANGED <<got, out, queues>>,
             pc' = "await" => (pc = "await" /\ cur' = cur) \/ cur'.op # "Poll" \/ queues[cur'.proto] = <<>>
      PROVE  (QueueWhilePoll /\ AnsweredNotLost)'
  BY <1>1
<1>2. ASSUME NEW p \in Protos
      PROVE  got[p] \in Seq(Msg) /\ out[p] \in Seq(Msg) /\ queues[p] \in Seq(Msg)
  BY DEF TypeOK, ActorType, SeenType
<1>3. CASE Caller \/ Adapter \/ Hang \/ RefuseWedged \/ Ended \/ UNCHANGED vars
  <2>1. UNCHANGED <<got, out, queues, pc, cur>>
    BY <1>3 DEF Caller, SubmitConnect, SubmitUse, DropChannel, DropHandle, Submit, Adapter, Hang, RefuseWedged,
       Ended, vars, linkVars, seenVars
  <2>. QED  BY <1>1, <2>1
<1>4. CASE PollQueued
  <2> DEFINE p == Oldest.proto
  <2>1. p \in Protos
    <3>1. Oldest \in Request
      BY <1>4, HeadTailProperties DEF PollQueued, Oldest, TypeOK
    <3>. QED  BY <3>1 DEF Request
  <2>2. /\ pc' = "idle" /\ got' = got /\ queues[p] # <<>>
        /\ queues' = [queues EXCEPT ![p] = Tail(@)] /\ out' = [out EXCEPT ![p] = Append(@, Head(queues[p]))]
    BY <1>4 DEF PollQueued
  <2>3. Append(out[p], Head(queues[p])) \o Tail(queues[p]) = out[p] \o queues[p]
    BY <1>2, <2>1, <2>2, MoveHead
  <2>4. out' \in [Protos -> Seq(Msg)] /\ queues' \in [Protos -> Seq(Msg)]
    BY StepType, Zenon DEF TypeOK, ActorType, SeenType
  <2>5. ASSUME NEW r \in Protos PROVE got'[r] = out'[r] \o queues'[r]
    <3>1. CASE r = p
      <4>1. out'[r] = Append(out[p], Head(queues[p])) /\ queues'[r] = Tail(queues[p])
        BY <2>1, <2>2, <3>1 DEF TypeOK, ActorType, SeenType
      <4>. QED  BY <2>1, <2>2, <2>3, <3>1, <4>1
    <3>2. CASE r # p
      <4>1. out'[r] = out[r] /\ queues'[r] = queues[r]
        BY <2>2, <3>2 DEF TypeOK, ActorType, SeenType
      <4>. QED  BY <2>2, <4>1
    <3>. QED  BY <3>1, <3>2
  <2>. QED  BY <2>2, <2>5
<1>5. CASE StartRequest
  BY <1>1, <1>5 DEF StartRequest, PutOnWire, Transmit, linkVars, seenVars
<1>6. CASE StartIdlePoll \/ TeardownStep
  <2>1. UNCHANGED <<got, out, queues>>
    BY <1>6 DEF StartIdlePoll, IdlePollAnyway, TeardownStep, linkVars, seenVars
  <2>2. cur'.op # "Poll"
    BY <1>6 DEF StartIdlePoll, IdlePollAnyway, TeardownStep, Transmit, Own
  <2>. QED  BY <1>1, <2>1, <2>2
<1>7. CASE RetryConnect
  BY <1>1, <1>7 DEF RetryConnect, Transmit, linkVars, seenVars, TypeOK, ActorType, Exchange
<1>8. CASE SendReset \/ SendIdentify \/ ReadChallenge \/ BadChallenge \/ NoChallenge \/ HandshakeError
          \/ StartTeardown \/ ReleasePort \/ SignalClosed
  <2>1. UNCHANGED <<got, out, queues>>
    BY <1>8 DEF SendReset, SendIdentify, ReadChallenge, BadChallenge, NoChallenge, HandshakeError, HandshakeFails,
       StartTeardown, ReleasePort, SignalClosed, linkVars, seenVars
  <2>2. pc' # "await"
    BY <1>8 DEF SendReset, SendIdentify, ReadChallenge, BadChallenge, NoChallenge, HandshakeError, HandshakeFails,
       StartTeardown, ReleasePort, SignalClosed, Done
  <2>. QED  BY <1>1, <2>1, <2>2
<1>9. CASE ReadReply \/ ReadTimeout \/ ReadError
  <2>1. pc = "await" /\ \E o \in Outcomes : \E m \in Msg : Finish(o, m)
    <3>1. NoMsg \in Msg
      BY SessionAssumption DEF NoMsg, Msg
    <3>. QED  BY <1>9, <3>1, FramesType DEF ReadReply, ReadTimeout, ReadError, Outcomes, Failures
  <2>2. PICK o \in Outcomes, m \in Msg : Finish(o, m)
    BY <2>1
  <2>3. pc' # "await"
    BY <2>2, FinishControl
  <2>4. cur.proto \in Protos
    BY DEF TypeOK, ActorType, Exchange
  <2>5. CASE ConnectDone(o) \/ DisconnectDone(o) \/ TransactDone(o) \/ TeardownDone
    BY <1>1, <2>3, <2>5 DEF ConnectDone, DisconnectDone, TransactDone, TeardownDone, seenVars
  <2>6. CASE PollDone(o, m)
    <3>1. CASE o # "Msg"
      BY <1>1, <2>3, <2>6, <3>1 DEF PollDone
    <3>2. CASE o = "Msg"
      <4>1. /\ got' = [got EXCEPT ![cur.proto] = Append(@, m)] /\ out' = [out EXCEPT ![cur.proto] = Append(@, m)]
            /\ queues' = queues /\ queues[cur.proto] = <<>>
        BY <2>1, <2>6, <3>2 DEF PollDone
      <4>2. ASSUME NEW r \in Protos PROVE got'[r] = out'[r] \o queues'[r]
        <5>1. CASE r = cur.proto
          <6>1. got'[r] = Append(got[r], m) /\ out'[r] = Append(out[r], m) /\ queues'[r] = <<>>
            BY <4>1, <5>1 DEF TypeOK, ActorType, SeenType
          <6>2. got[r] = out[r] /\ Append(out[r], m) \in Seq(Msg)
            <7>1. got[r] = out[r] \o <<>> /\ out[r] \in Seq(Msg)
              BY <1>2, <4>1, <5>1
            <7>. QED  BY <7>1, ConcatEmptySeq, AppendProperties
          <6>. QED  BY <6>1, <6>2, ConcatEmptySeq
        <5>2. CASE r # cur.proto
          BY <4>1, <5>2 DEF TypeOK, ActorType, SeenType
        <5>. QED  BY <5>1, <5>2
      <4>. QED  BY <2>3, <4>2
    <3>. QED  BY <3>1, <3>2
  <2>7. CASE IdlePollDone(o, m)
    <3>1. CASE o # "Msg"
      BY <1>1, <2>3, <2>7, <3>1 DEF IdlePollDone
    <3>2. CASE o = "Msg"
      <4>1. /\ got' = [got EXCEPT ![cur.proto] = Append(@, m)] /\ out' = out
            /\ queues' = [queues EXCEPT ![cur.proto] = Append(@, m)]
        BY <2>7, <3>2 DEF IdlePollDone
      <4>2. ASSUME NEW r \in Protos PROVE got'[r] = out'[r] \o queues'[r]
        <5>1. CASE r = cur.proto
          <6>1. got'[r] = Append(got[r], m) /\ out'[r] = out[r] /\ queues'[r] = Append(queues[r], m)
            BY <4>1, <5>1 DEF TypeOK, ActorType, SeenType
          <6>. QED  BY <1>2, <6>1, AppendBehind
        <5>2. CASE r # cur.proto
          BY <4>1, <5>2 DEF TypeOK, ActorType, SeenType
        <5>. QED  BY <5>1, <5>2
      <4>. QED  BY <2>3, <4>2
    <3>. QED  BY <3>1, <3>2
  <2>. QED  BY <2>2, <2>5, <2>6, <2>7 DEF Finish
<1>. QED  BY <1>3, <1>4, <1>5, <1>6, <1>7, <1>8, <1>9 DEF Next, Actor

\* Every message the actor decoded has been handed to a caller or is queued,
\* in the order in which it was decoded.
THEOREM NoMessageLost == Spec => []AnsweredNotLost
<1>1. Init => TypeOK /\ QueueWhilePoll /\ AnsweredNotLost
  BY InitType, InitNothingLost
<1>2. TypeOK /\ QueueWhilePoll /\ AnsweredNotLost /\ [Next]_vars
        => (TypeOK /\ QueueWhilePoll /\ AnsweredNotLost)'
  BY StepType, StepNothingLost
<1>. QED  BY <1>1, <1>2, PTL DEF Spec

-----------------------------------------------------------------------------
(* Tracked channels, the wedge and the OPEN toggle.                        *)

LEMMA InitTracked == Init => TrackedHasOwner
BY DEF Init, TrackedHasOwner

LEMMA StepTracked ==
  ASSUME TypeOK, CurWhilePhase, TrackedHasOwner, [Next]_vars
  PROVE  TrackedHasOwner'
<1> USE DEF TrackedHasOwner
<1>1. ASSUME wedged => wedged', connected' \subseteq connected, UNCHANGED held
      PROVE  TrackedHasOwner'
  BY <1>1
<1>2. ASSUME wedged => wedged', NEW x, NEW o, Answer(x, o),
             \/ x.op \in {"Connect", "Retry"} /\ x.from \in Callers /\ o = "Ok"
                  /\ connected' = connected \cup {x.proto}
             \/ x.op = "Disconnect" /\ connected' = connected \ {x.proto}
             \/ x.op # "Disconnect" /\ connected' = connected
             \/ wedged
      PROVE  TrackedHasOwner'
  <2>1. \A c \in Callers : held'[c] = IF c # x.from THEN held[c]
                                     ELSE IF x.op \in {"Connect", "Retry"} /\ o = "Ok" THEN held[c] \cup {x.proto}
                                     ELSE IF x.op = "Disconnect" THEN held[c] \ {x.proto} ELSE held[c]
    BY <1>2 DEF Answer, TypeOK, CallerType
  <2>. QED  BY <1>2, <2>1
<1>3. CASE Caller \/ Adapter \/ Hang \/ Ended \/ UNCHANGED vars
  <2>1. UNCHANGED <<held, connected, wedged>>
    BY <1>3 DEF Caller, SubmitConnect, SubmitUse, DropChannel, DropHandle, Submit, Adapter, Hang,
       Ended, vars, linkVars, wedgeVars, callerVars
  <2>. QED  BY <1>1, <2>1
<1>4. CASE RefuseWedged \/ PollQueued
  <2>1. CASE RefuseWedged
    BY <1>2, <2>1 DEF RefuseWedged, linkVars, wedgeVars
  <2>2. CASE PollQueued
    <3>1. Oldest.op # "Disconnect" /\ Answer(Oldest, "Msg") /\ UNCHANGED <<connected, wedged>>
      BY <2>2 DEF PollQueued, wedgeVars
    <3>. QED  BY <1>2, <3>1
  <2>. QED  BY <1>4, <2>1, <2>2
<1>5. CASE StartRequest \/ StartIdlePoll \/ RetryConnect \/ TeardownStep
  BY <1>1, <1>5 DEF StartRequest, PutOnWire, StartIdlePoll, IdlePollAnyway, RetryConnect, TeardownStep,
     linkVars, wedgeVars, callerVars
<1>6. CASE SendReset \/ SendIdentify \/ ReadChallenge \/ StartTeardown \/ ReleasePort \/ SignalClosed
  BY <1>1, <1>6 DEF SendReset, SendIdentify, ReadChallenge, StartTeardown, ReleasePort, SignalClosed,
     linkVars, wedgeVars, callerVars
<1>7. CASE BadChallenge \/ NoChallenge \/ HandshakeError
  <2>1. /\ pc \in {"reset", "identify", "challenge"} /\ UNCHANGED <<linkVars, wedgeVars>>
        /\ \E o \in Outcomes : HandshakeFails(o)
    BY <1>7 DEF BadChallenge, NoChallenge, HandshakeError, HandshakeFails, Outcomes, Failures
  <2>2. cur.op # "Disconnect"
    BY <2>1 DEF CurWhilePhase
  <2>. QED  BY <1>1, <1>2, <2>1, <2>2, HandshakeFailsAnswers DEF linkVars, wedgeVars, callerVars
<1>8. CASE ReadReply \/ ReadTimeout \/ ReadError
  <2>1. PICK o, m : Finish(o, m)
    BY <1>8 DEF ReadReply, ReadTimeout, ReadError
  <2>2. wedged => wedged'
    BY <2>1, Zenon DEF Finish, NoteExchange
  <2>3. CASE ConnectDone(o)
    BY <1>1, <1>2, <2>2, <2>3 DEF ConnectDone, callerVars, CurWhilePhase, RequestOps
  <2>4. CASE DisconnectDone(o)
    BY <1>2, <2>2, <2>4 DEF DisconnectDone
  <2>5. CASE PollDone(o, m) \/ TransactDone(o)
    BY <1>2, <2>2, <2>5 DEF PollDone, TransactDone
  <2>6. CASE IdlePollDone(o, m) \/ TeardownDone
    BY <1>1, <2>2, <2>6 DEF IdlePollDone, TeardownDone, callerVars
  <2>. QED  BY <2>1, <2>3, <2>4, <2>5, <2>6 DEF Finish
<1>. QED  BY <1>3, <1>4, <1>5, <1>6, <1>7, <1>8 DEF Next, Actor

\* A channel the actor tracks has an owner that will disconnect it, unless
\* the session is wedged: teardown finds nothing to disconnect otherwise.
THEOREM TrackedChannelsOwned == Spec => []TrackedHasOwner
<1>1. Init => TypeOK /\ CurWhilePhase /\ TrackedHasOwner
  BY InitType, InitCur, InitTracked
<1>2. TypeOK /\ CurWhilePhase /\ TrackedHasOwner /\ [Next]_vars
        => (TypeOK /\ CurWhilePhase /\ TrackedHasOwner)'
  BY StepType, StepCur, StepTracked
<1>. QED  BY <1>1, <1>2, PTL DEF Spec

\* A caller is answered by an exchange of its own, by the queue or by the
\* wedge, and the last two touch neither the wire nor the other callers.
LEMMA WhoIsAnswered ==
  ASSUME TypeOK, CurWhilePhase, Next, NEW c \in Callers, wedged,
         result[c] = "pending", result'[c] # "pending", cur.from # c
  PROVE  result'[c] = "Wedged" /\ UNCHANGED wireVars
<1>1. ASSUME NEW x, x.from # c, NEW o, Answer(x, o)
      PROVE  FALSE
  BY <1>1 DEF Answer, TypeOK, CallerType
<1>2. CASE UNCHANGED result
  BY <1>2
<1>3. CASE Caller
  <2>1. \E d \in Callers : result' = result \/ result' = [result EXCEPT ![d] = "pending"]
    BY <1>3 DEF Caller, SubmitConnect, SubmitUse, DropChannel, DropHandle, Submit
  <2>. QED  BY <2>1 DEF TypeOK, CallerType
<1>4. CASE RefuseWedged
  BY <1>1, <1>4 DEF RefuseWedged, Answer, TypeOK, CallerType
<1>5. CASE PollQueued \/ StartRequest
  BY <1>5 DEF PollQueued, StartRequest, PutOnWire
<1>6. CASE ReadReply \/ ReadTimeout \/ ReadError
  <2>1. \E o, m : Finish(o, m)
    BY <1>6 DEF ReadReply, ReadTimeout, ReadError
  <2>. QED  BY <1>1, <1>2, <2>1, FinishAnswers DEF callerVars
<1>7. CASE BadChallenge \/ NoChallenge \/ HandshakeError
  <2>1. pc \in {"reset", "identify", "challenge"} /\ \E o : HandshakeFails(o)
    BY <1>7 DEF BadChallenge, NoChallenge, HandshakeError
  <2>. QED  BY <1>1, <1>2, <2>1, HandshakeFailsAnswers DEF callerVars
<1>8. CASE StartIdlePoll \/ SendReset \/ SendIdentify \/ ReadChallenge \/ RetryConnect \/ StartTeardown
          \/ TeardownStep \/ ReleasePort \/ SignalClosed \/ Adapter \/ Hang \/ Ended
  <2>1. UNCHANGED result
    BY <1>8 DEF StartIdlePoll, IdlePollAnyway, SendReset, SendIdentify, ReadChallenge, RetryConnect, StartTeardown,
       TeardownStep, ReleasePort, SignalClosed, Adapter, Hang, Ended, vars, callerVars
  <2>. QED  BY <1>2, <2>1
<1>. QED  BY <1>3, <1>4, <1>5, <1>6, <1>7, <1>8 DEF Next, Actor

\* The actor turns to a caller's request only by taking it from the mailbox.
LEMMA WhoIsServed ==
  ASSUME TypeOK, CurWhilePhase, Next, NEW c \in Callers, wedged, cur.from # c
  PROVE  cur'.from # c
<1>1. NoCaller # c /\ NoExchange.from = NoCaller
  BY SessionAssumption DEF NoExchange, Own
<1>2. CASE StartRequest
  BY <1>2 DEF StartRequest
<1>3. CASE StartIdlePoll \/ TeardownStep
  BY <1>1, <1>3 DEF StartIdlePoll, IdlePollAnyway, TeardownStep, Transmit, Own
<1>4. CASE RetryConnect
  BY <1>4 DEF RetryConnect, Transmit, TypeOK, ActorType, Exchange
<1>5. CASE ReadReply \/ ReadTimeout \/ ReadError
  <2>1. \E o, m : Finish(o, m)
    BY <1>5 DEF ReadReply, ReadTimeout, ReadError
  <2>. QED  BY <1>1, <2>1, FinishControl
<1>6. CASE BadChallenge \/ NoChallenge \/ HandshakeError
  <2>1. \E o : HandshakeFails(o)
    BY <1>6 DEF BadChallenge, NoChallenge, HandshakeError
  <2>. QED  BY <1>1, <2>1, HandshakeFailsControl
<1>7. CASE ReadChallenge
  BY <1>1, <1>7 DEF ReadChallenge, Done
<1>8. CASE Caller \/ RefuseWedged \/ PollQueued \/ SendReset \/ SendIdentify \/ StartTeardown \/ ReleasePort
          \/ SignalClosed \/ Adapter \/ Hang \/ Ended
  <2>1. UNCHANGED cur
    BY <1>8, Zenon DEF Caller, SubmitConnect, SubmitUse, DropChannel, DropHandle, Submit, RefuseWedged, PollQueued,
       SendReset, SendIdentify, StartTeardown, ReleasePort, SignalClosed, Adapter, Hang, Ended, vars
  <2>. QED  BY <2>1
<1>. QED  BY <1>2, <1>3, <1>4, <1>5, <1>6, <1>7, <1>8 DEF Next, Actor

\* Once the session is wedged, no request but the one on the wire reaches the
\* wire: it is refused as Wedged, and nothing is written.
THEOREM WedgedFailsFast == Spec => WedgeFailsFast
<1>1. TypeOK /\ CurWhilePhase /\ [Next]_vars =>
        [\A c \in Callers :
           wedged /\ result[c] = "pending" /\ cur.from # c
             => /\ cur'.from # c
                /\ result'[c] # "pending" => result'[c] = "Wedged" /\ UNCHANGED wireVars]_vars
  BY WhoIsAnswered, WhoIsServed
<1>2. Spec => [](TypeOK /\ CurWhilePhase)
  <2>1. Init => TypeOK /\ CurWhilePhase
    BY InitType, InitCur
  <2>2. TypeOK /\ CurWhilePhase /\ [Next]_vars => (TypeOK /\ CurWhilePhase)'
    BY StepType, StepCur
  <2>. QED  BY <2>1, <2>2, PTL DEF Spec
<1>. QED  BY <1>1, <1>2, PTL DEF Spec, WedgeFailsFast

LEMMA AppendFollows ==
  ASSUME NEW q \in Seq(Command), NEW key, OpensFollowReset(q, key), NEW cmd \in Command,
         cmd.op = "Identify" => IF q = <<>> THEN key = NoKey ELSE q[Len(q)].op = "Reset"
  PROVE  OpensFollowReset(Append(q, cmd), key)
<1>1. /\ Len(q) \in Nat /\ Len(Append(q, cmd)) = Len(q) + 1 /\ Append(q, cmd)[Len(q) + 1] = cmd
      /\ \A i \in 1 .. Len(q) : Append(q, cmd)[i] = q[i]
      /\ q # <<>> => Len(q) # 0
  BY LenProperties, AppendProperties, EmptySeq
<1>2. Len(q) = 0 => q = <<>>
  BY <1>1
<1>. QED  BY <1>1, <1>2 DEF OpensFollowReset

LEMMA TailFollows ==
  ASSUME NEW q \in Seq(Command), q # <<>>, NEW key, NEW new, OpensFollowReset(q, key),
         Head(q).op = "Reset" => new = NoKey
  PROVE  OpensFollowReset(Tail(q), new)
<1>1. /\ Len(q) \in Nat \ {0} /\ Len(Tail(q)) = Len(q) - 1 /\ Head(q) = q[1]
      /\ \A i \in 1 .. Len(q) - 1 : Tail(q)[i] = q[i + 1]
  BY EmptySeq, HeadTailProperties
<1>2. ASSUME NEW i \in 1 .. Len(Tail(q)), Tail(q)[i].op = "Identify"
      PROVE  IF i = 1 THEN new = NoKey ELSE Tail(q)[i - 1].op = "Reset"
  <2>1. q[i].op = "Reset"
    BY <1>1, <1>2 DEF OpensFollowReset
  <2>2. CASE i = 1
    BY <1>1, <2>1, <2>2
  <2>3. CASE i # 1
    <3>1. i - 1 \in 1 .. Len(q) - 1 /\ Tail(q)[i - 1] = q[i]
      BY <1>1, <2>3
    <3>. QED  BY <2>1, <2>3, <3>1
  <2>. QED  BY <2>2, <2>3
<1>. QED  BY <1>2 DEF OpensFollowReset

\* All of a queue but its last element.
LEMMA FrontOf ==
  ASSUME NEW q \in Seq(Command), q # <<>>
  PROVE  /\ Len(SubSeq(q, 1, Len(q) - 1)) = Len(q) - 1
         /\ \A i \in 1 .. Len(q) - 1 : SubSeq(q, 1, Len(q) - 1)[i] = q[i]
<1>1. /\ Len(q) \in Nat \ {0}
      /\ \A i \in 1 .. Len(q) : q[i] \in Command
  BY EmptySeq, ElementOfSeq
<1>2. /\ Len(SubSeq(q, 1, Len(q) - 1)) = IF 1 <= Len(q) - 1 THEN (Len(q) - 1) - 1 + 1 ELSE 0
      /\ \A i \in 1 .. (Len(q) - 1) - 1 + 1 : SubSeq(q, 1, Len(q) - 1)[i] = q[1 + i - 1]
  BY <1>1, SubSeqProperties
<1>3. Len(SubSeq(q, 1, Len(q) - 1)) = Len(q) - 1
  <2>1. \A n \in Nat \ {0} : (IF 1 <= n - 1 THEN (n - 1) - 1 + 1 ELSE 0) = n - 1
    OBVIOUS
  <2>. QED  BY <1>1, <1>2, <2>1, Zenon
<1>4. ASSUME NEW i \in 1 .. Len(q) - 1
      PROVE  SubSeq(q, 1, Len(q) - 1)[i] = q[i]
  <2>1. 1 + i - 1 = i /\ i \in 1 .. (Len(q) - 1) - 1 + 1
    BY <1>1
  <2>. QED  BY <1>2, <2>1
<1>. QED  BY <1>3, <1>4

LEMMA FrontFollows ==
  ASSUME NEW q \in Seq(Command), q # <<>>, NEW key, OpensFollowReset(q, key)
  PROVE  OpensFollowReset(SubSeq(q, 1, Len(q) - 1), key)
<1>1. /\ Len(q) \in Nat \ {0}
      /\ \A i \in 1 .. Len(q) : q[i] \in Command
  BY EmptySeq, ElementOfSeq
<1>. QED  BY <1>1, FrontOf DEF OpensFollowReset

\* Every exchange the actor starts is one of its vocabulary.
LEMMA SomeTransmit ==
  ASSUME TypeOK, StartRequest \/ StartIdlePoll \/ TeardownStep \/ RetryConnect
  PROVE  \E x \in [op : ExchangeOps, from : Callers \cup {NoCaller}, proto : Protos] : Transmit(x)
<1>1. connected # {} => First(connected) \in Protos
  BY FirstIsTracked DEF TypeOK, ActorType
<1>2. CASE StartRequest
  <2>1. Oldest \in Request /\ Transmit(Oldest)
    BY <1>2, HeadTailProperties DEF StartRequest, PutOnWire, Oldest, TypeOK
  <2>. QED  BY <2>1 DEF Request, ExchangeOps
<1>3. CASE StartIdlePoll \/ TeardownStep
  <2>1. \E op \in {"IdlePoll", "Drain", "Close"}, p \in Protos : Transmit(Own(op, p))
    BY <1>1, <1>3, SessionAssumption DEF StartIdlePoll, IdlePollAnyway, TeardownStep
  <2>2. \A op \in {"IdlePoll", "Drain", "Close"}, p \in Protos :
          Own(op, p) \in [op : ExchangeOps, from : Callers \cup {NoCaller}, proto : Protos]
    BY DEF Own, ExchangeOps
  <2>. QED  BY <2>1, <2>2
<1>4. CASE RetryConnect
  <2>1. [cur EXCEPT !.op = "Retry"] \in [op : ExchangeOps, from : Callers \cup {NoCaller}, proto : Protos]
    BY DEF TypeOK, ActorType, Exchange, ExchangeOps
  <2>. QED  BY <1>4, <2>1 DEF RetryConnect
<1>. QED  BY <1>2, <1>3, <1>4

LEMMA OnlyAdapterKeys ==
  ASSUME Caller \/ Actor \/ Hang \/ Ended \/ UNCHANGED vars
  PROVE  UNCHANGED akey
<1>1. CASE Caller \/ Hang \/ Ended \/ UNCHANGED vars
  BY <1>1 DEF Caller, SubmitConnect, SubmitUse, DropChannel, DropHandle, Submit, Hang, Ended, vars, adapterVars
<1>2. CASE RefuseWedged \/ PollQueued \/ StartRequest \/ StartIdlePoll \/ RetryConnect \/ TeardownStep
  BY <1>2 DEF RefuseWedged, PollQueued, StartRequest, PutOnWire, StartIdlePoll, IdlePollAnyway, RetryConnect,
     TeardownStep, adapterVars
<1>3. CASE ReadReply \/ ReadTimeout \/ ReadError
  BY <1>3 DEF ReadReply, ReadTimeout, ReadError, Finish, adapterVars
<1>4. CASE SendReset \/ SendIdentify \/ ReadChallenge \/ BadChallenge \/ NoChallenge \/ HandshakeError
  BY <1>4 DEF SendReset, SendIdentify, ReadChallenge, BadChallenge, NoChallenge, HandshakeError, HandshakeFails,
     adapterVars
<1>5. CASE StartTeardown \/ ReleasePort \/ SignalClosed
  BY <1>5 DEF StartTeardown, ReleasePort, SignalClosed, adapterVars
<1>. QED  BY <1>1, <1>2, <1>3, <1>4, <1>5 DEF Actor

LEMMA InitOpen == Init => OpenAfterReset
BY DEF Init, OpenAfterReset, OpensFollowReset

LEMMA StepOpen ==
  ASSUME TypeOK, OpenAfterReset, [Next]_vars
  PROVE  OpenAfterReset'
<1>1. /\ toAdapter \in Seq(Command) /\ OpensFollowReset(toAdapter, akey)
      /\ Len(toAdapter) \in Nat /\ (toAdapter # <<>> => Len(toAdapter) # 0)
  BY LenProperties, EmptySeq DEF TypeOK, WireType, OpenAfterReset
<1>2. ASSUME UNCHANGED <<toAdapter, akey, hung>>, pc' = pc \/ pc' # "identify" PROVE OpenAfterReset'
  BY <1>2 DEF OpenAfterReset
\* Something is written: only a handshake writes OPEN.
<1>3. ASSUME NEW op \in WireOps \cup {"Reset"}, NEW key \in Keys \cup {NoKey}, NEW p \in Protos,
             Write(op, key, p), UNCHANGED <<akey, hung>>, pc' = "identify" => op = "Reset"
      PROVE  OpenAfterReset'
  <2> DEFINE cmd == [op |-> op, key |-> key, proto |-> p]
  <2>1. cmd \in Command /\ cmd.op = op /\ op # "Identify"
    BY DEF Command, WireOps, RequestOps
  <2>2. CASE hung
    BY <1>3, <2>2 DEF Write, OpenAfterReset
  <2>3. CASE ~hung
    <3>1. toAdapter' = Append(toAdapter, cmd)
      BY <1>3, <2>3 DEF Write
    <3>2. OpensFollowReset(toAdapter', akey')
      BY <1>1, <1>3, <2>1, <3>1, AppendFollows
    <3>3. toAdapter' # <<>> /\ toAdapter'[Len(toAdapter')].op = op
      BY <1>1, <2>1, <3>1, AppendProperties
    <3>. QED  BY <1>3, <3>2, <3>3 DEF OpenAfterReset
  <2>. QED  BY <2>2, <2>3
<1>4. CASE SendIdentify
  <2> DEFINE cmd == [op |-> "Identify", key |-> NoKey, proto |-> Iso15765]
  <2>1. cmd \in Command /\ pc = "identify" /\ pc' = "challenge" /\ UNCHANGED <<akey, hung>>
    BY <1>4, SessionAssumption DEF SendIdentify, Command, adapterVars
  <2>2. CASE hung
    BY <1>1, <1>4, <2>1, <2>2 DEF SendIdentify, Write, OpenAfterReset
  <2>3. CASE ~hung
    <3>1. toAdapter' = Append(toAdapter, cmd)
      BY <1>4, <2>3 DEF SendIdentify, Write
    <3>2. IF toAdapter = <<>> THEN akey = NoKey ELSE toAdapter[Len(toAdapter)].op = "Reset"
      BY <2>1, <2>3 DEF OpenAfterReset
    <3>3. OpensFollowReset(toAdapter', akey')
      BY <1>1, <2>1, <3>1, <3>2, AppendFollows
    <3>. QED  BY <2>1, <3>3 DEF OpenAfterReset
  <2>. QED  BY <2>2, <2>3
<1>5. CASE SendReset
  BY <1>3, <1>5, SessionAssumption DEF SendReset, adapterVars
\* The adapter takes the oldest command.
<1>6. ASSUME NEW op, Take(op), ~hung, UNCHANGED <<pc, hung>>, op = "Reset" => akey' = NoKey
      PROVE  OpenAfterReset'
  <2>1. toAdapter # <<>> /\ toAdapter' = Tail(toAdapter) /\ Head(toAdapter).op = op
    BY <1>6 DEF Take
  <2>2. OpensFollowReset(toAdapter', akey')
    BY <1>1, <1>6, <2>1, TailFollows
  <2>3. /\ Len(toAdapter) \in Nat \ {0} /\ Len(toAdapter') = Len(toAdapter) - 1 /\ Head(toAdapter) = toAdapter[1]
        /\ \A i \in 1 .. Len(toAdapter) - 1 : toAdapter'[i] = toAdapter[i + 1]
        /\ toAdapter' \in Seq(Command)
    BY <1>1, <2>1, HeadTailProperties
  <2>4. CASE pc = "identify" /\ toAdapter[Len(toAdapter)].op = "Reset"
    <3>1. CASE Len(toAdapter) = 1
      <4>1. akey' = NoKey /\ toAdapter' = <<>>
        BY <1>6, <2>1, <2>3, <2>4, <3>1, EmptySeq
      <4>. QED  BY <1>6, <2>2, <4>1 DEF OpenAfterReset
    <3>2. CASE Len(toAdapter) # 1
      <4>1. /\ Len(toAdapter') \in 1 .. Len(toAdapter) - 1 /\ Len(toAdapter') + 1 = Len(toAdapter)
            /\ toAdapter' # <<>>
        BY <2>3, <3>2
      <4>. QED  BY <2>2, <2>3, <2>4, <4>1 DEF OpenAfterReset
    <3>. QED  BY <3>1, <3>2
  <2>. QED  BY <1>6, <2>1, <2>2, <2>4 DEF OpenAfterReset
<1>7. CASE Adapter
  <2>1. ~hung /\ UNCHANGED <<pc, hung>>
    BY <1>7 DEF Adapter
  <2>2. CASE AdapterReset
    BY <1>6, <2>1, <2>2 DEF AdapterReset
  <2>3. CASE AdapterIdentify
    BY <1>6, <2>1, <2>3 DEF AdapterIdentify
  <2>4. ASSUME NEW op \in WireOps, AdapterServes(op) PROVE OpenAfterReset'
    BY <1>6, <2>1, <2>4 DEF AdapterServes, WireOps, RequestOps
  <2>5. CASE AdapterIgnores
    BY <1>6, <2>1, <2>5 DEF AdapterIgnores, WireOps, RequestOps
  <2>6. ASSUME NEW p \in Protos, BusMessage(p) PROVE OpenAfterReset'
    BY <1>2, <2>1, <2>6 DEF BusMessage, wireVars
  <2>. QED  BY <1>7, <2>2, <2>3, <2>4, <2>5, <2>6 DEF Adapter
<1>8. CASE Hang
  BY <1>8 DEF Hang, OpenAfterReset, OpensFollowReset
<1>9. CASE StartRequest \/ StartIdlePoll \/ TeardownStep \/ RetryConnect
  <2>1. \E x \in [op : ExchangeOps, from : Callers \cup {NoCaller}, proto : Protos] : Transmit(x)
    BY <1>9, SomeTransmit
  <2>2. PICK x \in [op : ExchangeOps, from : Callers \cup {NoCaller}, proto : Protos] : Transmit(x)
    BY <2>1
  <2>3. WireOp(x.op) \in WireOps /\ x.proto \in Protos /\ linkKey \in Keys \cup {NoKey}
    BY <2>2 DEF WireOp, WireOps, ExchangeOps, RequestOps, TypeOK, ActorType
  <2>4. UNCHANGED <<akey, hung>>
    BY <1>9 DEF StartRequest, PutOnWire, StartIdlePoll, IdlePollAnyway, TeardownStep, RetryConnect, adapterVars
  <2>. QED  BY <1>3, <2>2, <2>3, <2>4 DEF Transmit
\* Giving up may lose the command written last.
<1>10. ASSUME DeadlinePasses \/ PortFails, UNCHANGED <<akey, hung>>, pc' # "identify" PROVE OpenAfterReset'
  <2>1. CASE toAdapter' = toAdapter
    BY <1>2, <1>10, <2>1
  <2>2. CASE toAdapter # <<>> /\ toAdapter' = SubSeq(toAdapter, 1, Len(toAdapter) - 1)
    BY <1>1, <1>10, <2>2, FrontFollows DEF OpenAfterReset
  <2>. QED  BY <1>10, <2>1, <2>2 DEF DeadlinePasses, PortFails, wireVars
<1>11. CASE ReadTimeout \/ ReadError
  <2>1. UNCHANGED <<akey, hung>> /\ \E o, m : Finish(o, m)
    BY <1>11 DEF ReadTimeout, ReadError, Finish, adapterVars
  <2>. QED  BY <1>10, <1>11, <2>1, FinishControl DEF ReadTimeout, ReadError
<1>12. CASE NoChallenge \/ HandshakeError
  <2>1. UNCHANGED <<akey, hung>> /\ \E o : HandshakeFails(o)
    BY <1>12 DEF NoChallenge, HandshakeError, HandshakeFails, adapterVars
  <2>2. pc' # "identify"
    BY <2>1, HandshakeFailsControl
  <2>. QED  BY <1>2, <1>10, <1>12, <2>1, <2>2 DEF NoChallenge, HandshakeError, wireVars
<1>13. CASE ReadReply
  <2>1. UNCHANGED <<toAdapter, akey, hung>> /\ \E o, m : Finish(o, m)
    BY <1>13 DEF ReadReply, Finish, adapterVars
  <2>. QED  BY <1>2, <2>1, FinishControl
<1>14. CASE BadChallenge
  <2>1. UNCHANGED <<toAdapter, akey, hung>> /\ \E o : HandshakeFails(o)
    BY <1>14 DEF BadChallenge, HandshakeFails, adapterVars
  <2>. QED  BY <1>2, <2>1, HandshakeFailsControl
<1>15. CASE Caller \/ RefuseWedged \/ PollQueued \/ ReadChallenge \/ StartTeardown \/ ReleasePort \/ SignalClosed
            \/ Ended \/ UNCHANGED vars
  <2>1. UNCHANGED <<toAdapter, akey, hung>>
    BY <1>15 DEF Caller, SubmitConnect, SubmitUse, DropChannel, DropHandle, Submit, RefuseWedged, PollQueued,
       ReadChallenge, StartTeardown, ReleasePort, SignalClosed, Ended, vars, wireVars, adapterVars
  <2>2. pc' = pc \/ pc' # "identify"
    BY <1>15 DEF Caller, SubmitConnect, SubmitUse, DropChannel, DropHandle, Submit, RefuseWedged, PollQueued,
       ReadChallenge, StartTeardown, ReleasePort, SignalClosed, Ended, vars, Done
  <2>. QED  BY <1>2, <2>1, <2>2
<1>. QED  BY <1>4, <1>5, <1>7, <1>8, <1>9, <1>11, <1>12, <1>13, <1>14, <1>15 DEF Next, Actor

\* The adapter's cipher is turned off by the reset frame or the session
\* close and never by a second OPEN, however late the answers come.
THEOREM OpenNeverToggles == Spec => NeverToggledOff
<1>1. ASSUME TypeOK, OpenAfterReset, [Next]_vars, akey # NoKey, akey' = NoKey
      PROVE  Head(toAdapter).op \in {"Reset", "Close"}
  <2>1. CASE Adapter
    <3>1. CASE AdapterReset
      BY <3>1 DEF AdapterReset, Take
    <3>2. CASE AdapterIdentify
      <4>1. toAdapter # <<>> /\ Head(toAdapter).op = "Identify"
        BY <3>2 DEF AdapterIdentify, Take
      <4>2. Len(toAdapter) \in Nat \ {0} /\ Head(toAdapter) = toAdapter[1]
        BY <1>1, <4>1, EmptySeq, HeadTailProperties DEF TypeOK, WireType
      <4>. QED  BY <1>1, <4>1, <4>2 DEF OpenAfterReset, OpensFollowReset
    <3>3. ASSUME NEW op \in WireOps, AdapterServes(op)
          PROVE  Head(toAdapter).op \in {"Reset", "Close"}
      BY <1>1, <3>3 DEF AdapterServes, Take
    <3>4. CASE AdapterIgnores \/ \E p \in Protos : BusMessage(p)
      BY <1>1, <3>4 DEF AdapterIgnores, BusMessage
    <3>. QED  BY <2>1, <3>1, <3>2, <3>3, <3>4 DEF Adapter
  <2>2. CASE Caller \/ Actor \/ Hang \/ Ended \/ UNCHANGED vars
    <3>1. UNCHANGED akey
      BY <2>2, OnlyAdapterKeys
    <3>. QED  BY <1>1, <3>1
  <2>. QED  BY <1>1, <2>1, <2>2 DEF Next
<1>2. TypeOK /\ OpenAfterReset /\ [Next]_vars =>
        [akey # NoKey /\ akey' = NoKey => Head(toAdapter).op \in {"Reset", "Close"}]_vars
  BY <1>1
<1>3. Spec => [](TypeOK /\ OpenAfterReset)
  <2>1. Init => TypeOK /\ OpenAfterReset
    BY InitType, InitOpen
  <2>2. TypeOK /\ OpenAfterReset /\ [Next]_vars => (TypeOK /\ OpenAfterReset)'
    BY StepType, StepOpen
  <2>. QED  BY <2>1, <2>2, PTL DEF Spec
<1>. QED  BY <1>2, <1>3, PTL DEF Spec, NeverToggledOff

-----------------------------------------------------------------------------
(* The session key, of an adapter whose answers are not late.              *)

\* What is left of a handshake that failed, and one command behind it.
Resets(q) == \A i \in 1 .. Len(q) : q[i].op = "Reset"
OneCommand(q, op) ==
  /\ q # <<>> /\ q[Len(q)].op = op /\ op # "Reset"
  /\ \A i \in 1 .. Len(q) - 1 : q[i].op = "Reset"

\* One exchange is on the wire at a time: its command or its answer.
OneOnWire ==
  /\ toHost # <<>> => toAdapter = <<>> /\ Len(toHost) = 1 /\ pc \in {"await", "challenge"}
  /\ \/ Resets(toAdapter)
     \/ pc = "await" /\ OneCommand(toAdapter, WireOp(cur.op))
     \/ pc = "challenge" /\ OneCommand(toAdapter, "Identify")

\* The keys agree since the last handshake, and no command that is still on the
\* wire will change the adapter's; a challenge carries the key it now has.
KeysInStep ==
  /\ pc \in {"idle", "await", "retry", "reset", "teardown"} /\ cur.op # "Close" /\ ~stale =>
       linkKey = akey /\ \A i \in 1 .. Len(toAdapter) : toAdapter[i].op # "Reset"
  /\ pc = "challenge" /\ toHost # <<>> =>
       (IsChallenge(Head(toHost)) => Head(toHost).key = akey)

KeyInv == OneOnWire /\ KeysInStep

LEMMA WireFacts ==
  ASSUME TypeOK
  PROVE  /\ toAdapter \in Seq(Command) /\ Len(toAdapter) \in Nat
         /\ toAdapter = <<>> <=> Len(toAdapter) = 0
         /\ toHost \in Seq(Frame) /\ Len(toHost) \in Nat
         /\ toHost = <<>> <=> Len(toHost) = 0
<1>1. toAdapter \in Seq(Command) /\ toHost \in Seq(Frame)
  BY DEF TypeOK, WireType
<1>. QED  BY <1>1, LenProperties, EmptySeq

\* An adapter that is never late leaves nothing to arrive after a purge.
LEMMA PurgeAll ==
  ASSUME TypeOK, MaxLate = 0, Purge
  PROVE  toHost' = <<>>
<1>1. Len(toHost) \in Nat /\ \A i \in 1 .. Len(toHost) : toHost[i] \in Frame
  BY LenProperties, ElementOfSeq DEF TypeOK, WireType
<1>2. toHost' = SubSeq(toHost, Len(toHost) + 1, Len(toHost))
  BY MaxLate = 0, Zenon DEF Purge
<1>3. Len(toHost') = 0 /\ toHost' \in Seq(Frame)
  <2>1. \A n \in Nat : n + 1 \in 1 .. n + 1 /\ ~(n + 1 <= n)
    OBVIOUS
  <2>. QED  BY <1>1, <1>2, <2>1, SubSeqProperties
<1>. QED  BY <1>3, EmptySeq

\* Less its last command, the wire holds resets only.
LEMMA FrontResets ==
  ASSUME NEW q \in Seq(Command), q # <<>>, NEW op, Resets(q) \/ OneCommand(q, op)
  PROVE  LET front == SubSeq(q, 1, Len(q) - 1) IN
         Resets(front) /\ \A i \in 1 .. Len(front) : i \in 1 .. Len(q) /\ front[i] = q[i]
<1> DEFINE front == SubSeq(q, 1, Len(q) - 1)
<1>1. /\ Len(q) \in Nat \ {0}
      /\ \A i \in 1 .. Len(q) : q[i] \in Command
  BY EmptySeq, ElementOfSeq
<1>2. Len(front) = Len(q) - 1 /\ \A i \in 1 .. Len(q) - 1 : front[i] = q[i]
  BY FrontOf
<1>3. \A i \in 1 .. Len(front) : i \in 1 .. Len(q) - 1 /\ i \in 1 .. Len(q)
  BY <1>1, <1>2
<1>4. \A i \in 1 .. Len(q) - 1 : q[i].op = "Reset"
  BY <1>1 DEF Resets, OneCommand
<1>. QED  BY <1>2, <1>3, <1>4 DEF Resets

LEMMA TailResets ==
  ASSUME NEW q \in Seq(Command), q # <<>>, Resets(q)
  PROVE  Head(q).op = "Reset" /\ Resets(Tail(q))
<1>1. /\ Len(q) \in Nat \ {0} /\ Len(Tail(q)) = Len(q) - 1 /\ Head(q) = q[1]
      /\ \A i \in 1 .. Len(q) - 1 : Tail(q)[i] = q[i + 1]
  BY EmptySeq, HeadTailProperties
<1>2. \A i \in 1 .. Len(Tail(q)) : i + 1 \in 1 .. Len(q) /\ Tail(q)[i] = q[i + 1]
  BY <1>1
<1>. QED  BY <1>1, <1>2 DEF Resets

LEMMA TailOneCommand ==
  ASSUME NEW q \in Seq(Command), NEW op, OneCommand(q, op)
  PROVE  \/ Head(q).op = op /\ Tail(q) = <<>>
         \/ Head(q).op = "Reset" /\ OneCommand(Tail(q), op)
<1>1. /\ Len(q) \in Nat \ {0} /\ Len(Tail(q)) = Len(q) - 1 /\ Head(q) = q[1]
      /\ \A i \in 1 .. Len(q) - 1 : Tail(q)[i] = q[i + 1]
      /\ Tail(q) \in Seq(Command)
  BY EmptySeq, HeadTailProperties DEF OneCommand
<1>2. CASE Len(q) = 1
  <2>1. \A t \in Seq(Command) : Len(t) = 0 => t = <<>>
    BY EmptySeq
  <2>2. Len(Tail(q)) = 0 /\ Tail(q) \in Seq(Command)
    BY <1>1, <1>2
  <2>3. Tail(q) = <<>>
    BY <2>1, <2>2, Zenon
  <2>. QED  BY <1>1, <1>2, <2>3 DEF OneCommand
<1>3. CASE Len(q) # 1
  <2>0. Len(Tail(q)) \in 1 .. Len(q) - 1 /\ Len(Tail(q)) + 1 = Len(q) /\ 1 \in 1 .. Len(q) - 1
    BY <1>1, <1>3
  <2>1. Len(Tail(q)) # 0 /\ Tail(q) # <<>>
    <3>1. Len(Tail(q)) # 0 /\ Tail(q) \in Seq(Command)
      BY <1>1, <2>0
    <3>. QED  BY <3>1, EmptySeq
  <2>2. Tail(q)[Len(Tail(q))].op = op
    BY <1>1, <2>0 DEF OneCommand
  <2>3. ASSUME NEW i \in 1 .. Len(Tail(q)) - 1
        PROVE  Tail(q)[i].op = "Reset"
    <3>1. i \in 1 .. Len(q) - 1 /\ i + 1 \in 1 .. Len(q) - 1
      BY <1>1, <2>0
    <3>. QED  BY <1>1, <3>1 DEF OneCommand
  <2>. QED  BY <1>1, <2>1, <2>2, <2>3 DEF OneCommand
<1>. QED  BY <1>2, <1>3

LEMMA AppendResets ==
  ASSUME NEW q \in Seq(Command), Resets(q), NEW cmd \in Command
  PROVE  /\ cmd.op = "Reset" => Resets(Append(q, cmd))
         /\ cmd.op # "Reset" => OneCommand(Append(q, cmd), cmd.op)
         /\ \A i \in 1 .. Len(Append(q, cmd)) :
              Append(q, cmd)[i] = cmd \/ (i \in 1 .. Len(q) /\ Append(q, cmd)[i] = q[i])
<1>1. /\ Len(q) \in Nat /\ Len(Append(q, cmd)) = Len(q) + 1 /\ Append(q, cmd)[Len(q) + 1] = cmd
      /\ \A i \in 1 .. Len(q) : Append(q, cmd)[i] = q[i]
      /\ Append(q, cmd) # <<>>
  BY LenProperties, AppendProperties, EmptySeq
<1>2. \A i \in 1 .. Len(Append(q, cmd)) : i = Len(q) + 1 \/ i \in 1 .. Len(q)
  BY <1>1
<1>3. \A i \in 1 .. Len(Append(q, cmd)) - 1 : i \in 1 .. Len(q)
  BY <1>1
<1>. QED  BY <1>1, <1>2, <1>3 DEF Resets, OneCommand

\* Giving up leaves the wire with no answer and no command of this exchange.
LEMMA GivenUp ==
  ASSUME TypeOK, MaxLate = 0, OneOnWire, DeadlinePasses \/ PortFails
  PROVE  /\ toHost' = <<>> /\ Resets(toAdapter')
         /\ \A i \in 1 .. Len(toAdapter') : i \in 1 .. Len(toAdapter) /\ toAdapter'[i] = toAdapter[i]
<1>1. CASE Outstanding <= MaxLate /\ UNCHANGED <<toAdapter, toHost>>
  <2>1. Len(toHost) = 0 /\ Len(toAdapter) = 0
    BY <1>1, WireFacts DEF Outstanding
  <2>. QED  BY <1>1, <2>1, WireFacts DEF Resets
<1>2. CASE UNCHANGED toHost /\ toAdapter # <<>> /\ toAdapter' = SubSeq(toAdapter, 1, Len(toAdapter) - 1)
  <2>1. toHost = <<>>
    BY <1>2 DEF OneOnWire
  <2>2. PICK op : Resets(toAdapter) \/ OneCommand(toAdapter, op)
    BY DEF OneOnWire
  <2>. QED  BY <1>2, <2>1, <2>2, WireFacts, FrontResets
<1>. QED  BY <1>1, <1>2 DEF DeadlinePasses, PortFails, wireVars

\* What is written is alone on the wire, behind the resets at most.
LEMMA WriteAlone ==
  ASSUME TypeOK, MaxLate = 0, Resets(toAdapter),
         NEW op \in WireOps \cup {"Reset", "Identify"}, NEW key \in Keys \cup {NoKey},
         NEW p \in Protos, Write(op, key, p)
  PROVE  /\ toHost' = <<>>
         /\ Resets(toAdapter') \/ (op # "Reset" /\ OneCommand(toAdapter', op))
         /\ op = "Reset" => Resets(toAdapter')
         /\ op # "Reset" /\ (\A i \in 1 .. Len(toAdapter) : toAdapter[i].op # "Reset")
              => \A i \in 1 .. Len(toAdapter') : toAdapter'[i].op # "Reset"
<1>1. PICK cmd \in Command : cmd = [op |-> op, key |-> key, proto |-> p] /\ cmd.op = op
  <2>1. [op |-> op, key |-> key, proto |-> p] \in Command
    BY DEF Command
  <2>. QED  BY <2>1
<1>2. toHost' = <<>>
  BY PurgeAll DEF Write
<1>3. CASE hung
  BY <1>2, <1>3 DEF Write
<1>4. CASE ~hung
  <2>1. toAdapter' = Append(toAdapter, cmd) /\ toAdapter \in Seq(Command)
    BY <1>1, <1>4, WireFacts DEF Write
  <2>2. /\ cmd.op = "Reset" => Resets(toAdapter')
        /\ cmd.op # "Reset" => OneCommand(toAdapter', cmd.op)
        /\ \A i \in 1 .. Len(toAdapter') :
             toAdapter'[i] = cmd \/ (i \in 1 .. Len(toAdapter) /\ toAdapter'[i] = toAdapter[i])
    BY <2>1, AppendResets
  <2>. QED  BY <1>1, <1>2, <2>2
<1>. QED  BY <1>3, <1>4

\* The adapter takes a reset, or the command of the exchange in progress.
LEMMA Taken ==
  ASSUME TypeOK, CurWhilePhase, OneOnWire, NEW op, Take(op)
  PROVE  /\ toHost = <<>> /\ toAdapter # <<>> /\ toAdapter' = Tail(toAdapter)
         /\ toAdapter[1].op = op /\ 1 \in 1 .. Len(toAdapter)
         /\ op = "Reset" => \/ Resets(toAdapter')
                            \/ pc = "await" /\ OneCommand(toAdapter', WireOp(cur.op))
                            \/ pc = "challenge" /\ OneCommand(toAdapter', "Identify")
         /\ op # "Reset" => /\ toAdapter' = <<>>
                            /\ \/ pc = "await" /\ op = WireOp(cur.op) /\ cur.op \in ExchangeOps
                               \/ pc = "challenge" /\ op = "Identify"
<1>1. toAdapter # <<>> /\ Head(toAdapter).op = op /\ toAdapter' = Tail(toAdapter)
  BY DEF Take
<1>2. toHost = <<>>
  BY <1>1 DEF OneOnWire
<1>3. toAdapter[1] = Head(toAdapter) /\ 1 \in 1 .. Len(toAdapter)
  BY <1>1, WireFacts, HeadTailProperties
<1>4. CASE Resets(toAdapter)
  BY <1>1, <1>2, <1>3, <1>4, WireFacts, TailResets
<1>5. CASE pc = "await" /\ OneCommand(toAdapter, WireOp(cur.op))
  <2>1. \/ op = WireOp(cur.op) /\ Tail(toAdapter) = <<>>
        \/ op = "Reset" /\ OneCommand(Tail(toAdapter), WireOp(cur.op))
    BY <1>1, <1>5, WireFacts, TailOneCommand
  <2>2. WireOp(cur.op) # "Reset" /\ cur.op \in ExchangeOps
    BY <1>5 DEF CurWhilePhase, OneCommand
  <2>. QED  BY <1>1, <1>2, <1>3, <1>5, <2>1, <2>2
<1>6. CASE pc = "challenge" /\ OneCommand(toAdapter, "Identify")
  <2>1. \/ op = "Identify" /\ Tail(toAdapter) = <<>>
        \/ op = "Reset" /\ OneCommand(Tail(toAdapter), "Identify")
    BY <1>1, <1>6, WireFacts, TailOneCommand
  <2>. QED  BY <1>1, <1>2, <1>3, <1>6, <2>1
<1>. QED  BY <1>4, <1>5, <1>6 DEF OneOnWire

\* The answer to a command is then alone on the wire.
LEMMA AnswerAlone ==
  ASSUME toHost = <<>>, NEW op, NEW key, NEW body, NEW m, Respond(op, key, body, m)
  PROVE  \/ toHost' = <<>>
         \/ \E b \in {body, "Codec"} :
              toHost' = <<[op |-> op, key |-> key, body |-> b, msg |-> m]>>
BY DEF Respond

LEMMA AdapterKeys ==
  ASSUME TypeOK, CurWhilePhase, KeyInv, Adapter
  PROVE  KeyInv'
<1>0. OneOnWire /\ KeysInStep /\ UNCHANGED <<pc, cur, linkKey, stale>>
  BY DEF KeyInv, Adapter, linkVars, seenVars
<1>1. CASE AdapterReset
  <2>1. Take("Reset") /\ toHost' = toHost
    BY <1>1 DEF AdapterReset
  <2>2. /\ toHost = <<>> /\ toAdapter[1].op = "Reset" /\ 1 \in 1 .. Len(toAdapter)
        /\ \/ Resets(toAdapter')
           \/ pc = "await" /\ OneCommand(toAdapter', WireOp(cur.op))
           \/ pc = "challenge" /\ OneCommand(toAdapter', "Identify")
    BY <1>0, <2>1, Taken
  <2>3. OneOnWire'
    BY <1>0, <2>1, <2>2 DEF OneOnWire
  <2>4. KeysInStep'
    BY <1>0, <2>1, <2>2 DEF KeysInStep
  <2>. QED  BY <2>3, <2>4 DEF KeyInv
<1>2. CASE AdapterIdentify
  <2>1. Take("Identify")
    BY <1>2 DEF AdapterIdentify
  <2>2. toHost = <<>> /\ toAdapter' = <<>> /\ pc \in {"await", "challenge"}
        /\ (pc = "await" => WireOp(cur.op) = "Identify" /\ cur.op \in ExchangeOps)
    BY <1>0, <2>1, Taken
  <2>3. pc = "challenge"
    BY <2>2 DEF WireOp, ExchangeOps, RequestOps
  <2>4. \/ toHost' = <<>>
        \/ \E f : toHost' = <<f>> /\ (IsChallenge(f) => f.key = akey')
    <3>1. CASE \E k \in Keys : akey' = k /\ Respond("Identify", k, "Ok", NoMsg)
      BY <2>2, <3>1, AnswerAlone
    <3>2. CASE akey' = NoKey /\ Respond("Identify", NoKey, "Codec", NoMsg)
      BY <2>2, <3>2, AnswerAlone
    <3>. QED  BY <1>2, <3>1, <3>2 DEF AdapterIdentify
  <2>5. OneOnWire'
    BY <1>0, <2>2, <2>3, <2>4 DEF OneOnWire, Resets
  <2>6. KeysInStep'
    BY <1>0, <2>3, <2>4 DEF KeysInStep, IsChallenge
  <2>. QED  BY <2>5, <2>6 DEF KeyInv
<1>3. ASSUME NEW op \in WireOps, (AdapterIgnores /\ Take(op)) \/ AdapterServes(op)
      PROVE  KeyInv'
  <2>1. Take(op) /\ op # "Reset" /\ op # "Identify"
    BY <1>3 DEF AdapterServes, WireOps, RequestOps
  <2>2. /\ toHost = <<>> /\ toAdapter' = <<>> /\ pc = "await"
        /\ op = WireOp(cur.op) /\ cur.op \in ExchangeOps
    BY <1>0, <2>1, Taken
  <2>3. toHost' = <<>> \/ \E f : toHost' = <<f>>
    BY <1>3, <2>2, AnswerAlone DEF AdapterIgnores, AdapterServes
  <2>4. akey' = akey \/ op = "Close"
    BY <1>3 DEF AdapterIgnores, AdapterServes
  <2>5. op = "Close" => cur.op = "Close"
    BY <2>2 DEF WireOp, ExchangeOps, RequestOps
  <2>6. OneOnWire'
    BY <1>0, <2>2, <2>3 DEF OneOnWire, Resets
  <2>7. KeysInStep'
    BY <1>0, <2>2, <2>4, <2>5 DEF KeysInStep
  <2>. QED  BY <2>6, <2>7 DEF KeyInv
<1>4. CASE \E p \in Protos : BusMessage(p)
  <2>1. UNCHANGED <<toAdapter, toHost, akey>>
    BY <1>4 DEF BusMessage, wireVars
  <2>. QED  BY <1>0, <2>1 DEF KeyInv, OneOnWire, KeysInStep, IsChallenge
<1>5. AdapterIgnores => \E op \in WireOps : Take(op)
  BY DEF AdapterIgnores
<1>. QED  BY <1>1, <1>2, <1>3, <1>4, <1>5 DEF Adapter

\* An exchange ends with no answer under way, and the close with the session.
LEMMA FinishKeys ==
  ASSUME CurWhilePhase, KeyInv, pc = "await", NEW o, NEW m, Finish(o, m), toHost' = <<>>,
         Resets(toAdapter'), UNCHANGED <<linkKey, akey>>,
         \A i \in 1 .. Len(toAdapter') : i \in 1 .. Len(toAdapter) /\ toAdapter'[i] = toAdapter[i]
  PROVE  KeyInv'
<1>1. stale' = stale
  BY DEF Finish, ConnectDone, DisconnectDone, PollDone, TransactDone, IdlePollDone, TeardownDone, seenVars
<1>2. pc' \in {"idle", "reset", "teardown", "release"}
  BY FinishControl
<1>3. cur.op = "Close" => pc' = "release"
  BY DEF Finish, ConnectDone, DisconnectDone, PollDone, TransactDone, IdlePollDone, TeardownDone
<1>4. OneOnWire'
  BY DEF OneOnWire
<1>5. KeysInStep'
  BY <1>1, <1>2, <1>3 DEF KeyInv, KeysInStep
<1>. QED  BY <1>4, <1>5 DEF KeyInv

LEMMA ActorKeys ==
  ASSUME TypeOK, CurWhilePhase, MaxLate = 0, KeyInv, Actor
  PROVE  KeyInv'
<1>0. OneOnWire /\ KeysInStep /\ akey' = akey
  BY OnlyAdapterKeys DEF KeyInv
<1>1. CASE RefuseWedged \/ PollQueued
  <2>1. UNCHANGED <<toAdapter, toHost, pc, cur, linkKey, stale>>
    BY <1>1 DEF RefuseWedged, PollQueued, linkVars, wireVars, seenVars
  <2>. QED  BY <1>0, <2>1 DEF KeyInv, OneOnWire, KeysInStep, IsChallenge
<1>2. CASE StartRequest \/ StartIdlePoll \/ TeardownStep \/ RetryConnect
  <2>1. PICK x \in [op : ExchangeOps, from : Callers \cup {NoCaller}, proto : Protos] : Transmit(x)
    BY <1>2, SomeTransmit
  <2>2. /\ WireOp(x.op) \in WireOps /\ WireOp(x.op) # "Reset" /\ x.proto \in Protos
        /\ linkKey \in Keys \cup {NoKey}
    BY <2>1 DEF WireOp, WireOps, ExchangeOps, RequestOps, TypeOK, ActorType
  <2>3. pc \in {"idle", "teardown", "retry"} /\ UNCHANGED <<linkKey, stale>>
    BY <1>2 DEF StartRequest, PutOnWire, StartIdlePoll, IdlePollAnyway, TeardownStep, RetryConnect,
       linkVars, seenVars
  <2>4. Resets(toAdapter) /\ cur.op # "Close"
    BY <1>0, <2>3 DEF OneOnWire, CurWhilePhase
  <2>5. /\ toHost' = <<>> /\ pc' = "await" /\ cur' = x
        /\ Resets(toAdapter') \/ OneCommand(toAdapter', WireOp(x.op))
        /\ (\A i \in 1 .. Len(toAdapter) : toAdapter[i].op # "Reset")
             => \A i \in 1 .. Len(toAdapter') : toAdapter'[i].op # "Reset"
    BY <2>1, <2>2, <2>4, WriteAlone DEF Transmit
  <2>6. OneOnWire'
    BY <2>5 DEF OneOnWire
  <2>7. KeysInStep'
    BY <1>0, <2>3, <2>4, <2>5 DEF KeysInStep
  <2>. QED  BY <2>6, <2>7 DEF KeyInv
\* One frame is read, and there was but one.
<1>3. ASSUME toHost # <<>>, toHost' = Tail(toHost), toAdapter' = toAdapter
      PROVE  toHost' = <<>> /\ toAdapter' = <<>> /\ Resets(toAdapter') /\ Len(toAdapter') = 0
  <2>1. Len(toHost) = 1 /\ toAdapter = <<>>
    BY <1>0, <1>3 DEF OneOnWire
  <2>2. Tail(toHost) \in Seq(Frame) /\ Len(Tail(toHost)) = 0
    BY <1>3, <2>1, WireFacts, HeadTailProperties
  <2>3. Tail(toHost) = <<>>
    BY <2>2, EmptySeq
  <2>. QED  BY <1>3, <2>1, <2>3 DEF Resets
<1>4. CASE ReadReply
  <2>1. /\ toHost # <<>> /\ toHost' = Tail(toHost) /\ toAdapter' = toAdapter /\ pc = "await"
        /\ linkKey' = linkKey
    BY <1>4 DEF ReadReply, Finish
  <2>2. PICK o, m : Finish(o, m)
    BY <1>4 DEF ReadReply
  <2>. QED  BY <1>0, <1>3, <2>1, <2>2, FinishKeys
<1>5. CASE ReadTimeout \/ ReadError
  <2>1. (DeadlinePasses \/ PortFails) /\ pc = "await" /\ linkKey' = linkKey
    BY <1>5 DEF ReadTimeout, ReadError, Finish
  <2>2. PICK o, m : Finish(o, m)
    BY <1>5 DEF ReadTimeout, ReadError
  <2>. QED  BY <1>0, <2>1, <2>2, GivenUp, FinishKeys
<1>6. CASE SendReset \/ SendIdentify
  <2>1. pc \in {"reset", "identify"} /\ Resets(toAdapter)
    BY <1>0, <1>6 DEF SendReset, SendIdentify, OneOnWire
  <2>2. Iso15765 \in Protos
    BY SessionAssumption
  <2>3. /\ toHost' = <<>>
        /\ Resets(toAdapter') \/ (pc' = "challenge" /\ OneCommand(toAdapter', "Identify"))
        /\ pc' \in {"identify", "challenge"}
    BY <1>6, <2>1, <2>2, WriteAlone DEF SendReset, SendIdentify
  <2>4. OneOnWire' /\ KeysInStep'
    BY <2>3 DEF OneOnWire, KeysInStep
  <2>. QED  BY <2>4 DEF KeyInv
<1>7. CASE ReadChallenge
  <2>1. /\ pc = "challenge" /\ toHost # <<>> /\ IsChallenge(Head(toHost))
        /\ toHost' = Tail(toHost) /\ toAdapter' = toAdapter /\ linkKey' = Head(toHost).key
        /\ pc' \in {"idle", "retry"}
    BY <1>7 DEF ReadChallenge, Establish, Done
  <2>2. toHost' = <<>> /\ toAdapter' = <<>> /\ Resets(toAdapter')
    BY <1>3, <2>1
  <2>3. linkKey' = akey'
    BY <1>0, <2>1 DEF KeysInStep
  <2>4. OneOnWire' /\ KeysInStep'
    BY <2>1, <2>2, <2>3 DEF OneOnWire, KeysInStep
  <2>. QED  BY <2>4 DEF KeyInv
<1>8. CASE BadChallenge \/ NoChallenge \/ HandshakeError
  <2>1. PICK o : HandshakeFails(o)
    BY <1>8 DEF BadChallenge, NoChallenge, HandshakeError
  <2>2. stale' = TRUE /\ pc' \in {"idle", "openFailed"}
    BY <2>1 DEF HandshakeFails, Done
  <2>3. toHost' = <<>> /\ Resets(toAdapter')
    <3>1. CASE BadChallenge
      BY <1>3, <3>1 DEF BadChallenge
    <3>2. CASE DeadlinePasses \/ PortFails
      BY <1>0, <3>2, GivenUp
    <3>3. CASE pc = "reset" /\ UNCHANGED wireVars
      BY <1>0, <3>3 DEF OneOnWire, wireVars
    <3>. QED  BY <1>8, <3>1, <3>2, <3>3 DEF NoChallenge, HandshakeError
  <2>4. OneOnWire' /\ KeysInStep'
    BY <2>2, <2>3 DEF OneOnWire, KeysInStep
  <2>. QED  BY <2>4 DEF KeyInv
<1>9. CASE StartTeardown \/ ReleasePort \/ SignalClosed
  <2>1. /\ pc \in {"idle", "release", "openReported", "signal", "openFailed"}
        /\ (pc' = "teardown" /\ pc = "idle") \/ pc' \in {"signal", "gone", "openReported"}
        /\ UNCHANGED <<toAdapter, toHost, cur, linkKey, stale>>
    BY <1>9 DEF StartTeardown, ReleasePort, SignalClosed, linkVars, wireVars, seenVars
  <2>2. OneOnWire' /\ KeysInStep'
    BY <1>0, <2>1 DEF OneOnWire, KeysInStep
  <2>. QED  BY <2>2 DEF KeyInv
<1>. QED  BY <1>1, <1>2, <1>4, <1>5, <1>6, <1>7, <1>8, <1>9 DEF Actor

LEMMA StepKeys ==
  ASSUME TypeOK, CurWhilePhase, MaxLate = 0, KeyInv, [Next]_vars
  PROVE  KeyInv'
<1>1. CASE Caller \/ Ended \/ UNCHANGED vars
  <2>1. UNCHANGED <<toAdapter, toHost, pc, cur, linkKey, stale, akey>>
    BY <1>1 DEF Caller, SubmitConnect, SubmitUse, DropChannel, DropHandle, Submit, Ended, vars, linkVars,
       wireVars, seenVars, adapterVars
  <2>. QED  BY <2>1 DEF KeyInv, OneOnWire, KeysInStep, IsChallenge
<1>2. CASE Hang
  <2>1. toAdapter' = <<>> /\ UNCHANGED <<toHost, pc, cur, linkKey, stale, akey>>
    BY <1>2 DEF Hang, linkVars, seenVars
  <2>. QED  BY <2>1 DEF KeyInv, OneOnWire, KeysInStep, IsChallenge, Resets
<1>. QED  BY <1>1, <1>2, AdapterKeys, ActorKeys DEF Next

\* With an adapter whose answers are never late, the host and the adapter agree on
\* the session key between exchanges unless the last handshake failed, also after
\* hung adapters, failed writes and second handshakes (link.rs KeyedLink).
THEOREM PromptKeysAgree == MaxLate = 0 => (Spec => []KeysAgree)
<1> SUFFICES ASSUME MaxLate = 0 PROVE Spec => []KeysAgree
  OBVIOUS
<1>1. Init => KeyInv
  BY DEF Init, KeyInv, OneOnWire, KeysInStep, Resets
<1>2. TypeOK /\ CurWhilePhase /\ KeyInv /\ [Next]_vars => (TypeOK /\ CurWhilePhase /\ KeyInv)'
  BY StepType, StepCur, StepKeys
<1>3. CurWhilePhase /\ KeyInv => KeysAgree
  BY DEF CurWhilePhase, KeyInv, KeysInStep, KeysAgree
<1>4. Init => TypeOK /\ CurWhilePhase
  BY InitType, InitCur
<1>. QED  BY <1>1, <1>2, <1>3, <1>4, PTL DEF Spec

-----------------------------------------------------------------------------
(* The callers of a Device are served as DeviceService says.               *)

\* The phase and the callers that DeviceService speaks of.
Phase == IF \A c \in Callers : handle[c] = "none"
         THEN IF pc \in {"openFailed", "openReported", "gone"} THEN "closed" ELSE "opening"
         ELSE IF closed THEN "closed" ELSE "open"

Live == {c \in Callers : handle[c] = "live"}

Abs == INSTANCE DeviceService WITH phase <- Phase, live <- Live, line <- Waiting

\* The actor closes down only when nobody is left and nothing is asked of it.
ClosingDown == \/ pc \in {"teardown", "release", "signal"}
               \/ pc = "await" /\ cur.op \in {"Drain", "Close"}

Deserted == ClosingDown => mailbox = <<>> /\ \A c \in Callers : handle[c] = "dropped"

RefInv == TypeOK /\ CurWhilePhase /\ PortWhilePhase /\ Deserted

Senders(q) == [i \in 1 .. Len(q) |-> q[i].from]

LEMMA SendersType ==
  ASSUME NEW q \in Seq(Request)
  PROVE  Senders(q) \in Seq(Callers) /\ Len(Senders(q)) = Len(q)
<1>1. Len(q) \in Nat /\ \A i \in 1 .. Len(q) : q[i] \in Request
  BY LenProperties, ElementOfSeq
<1>2. Senders(q) \in [1 .. Len(q) -> Callers]
  BY <1>1 DEF Senders, Request
<1>. QED  BY <1>1, <1>2

\* The first in a line, and the line behind.
LEMMA FirstInLine ==
  ASSUME NEW c \in Callers, NEW t \in Seq(Callers)
  PROVE  /\ <<c>> \o t \in Seq(Callers) /\ <<c>> \o t # <<>>
         /\ Head(<<c>> \o t) = c /\ Tail(<<c>> \o t) = t
         /\ \A d \in Callers : Append(<<c>> \o t, d) = <<c>> \o Append(t, d)
<1> DEFINE s == <<c>> \o t
<1>1. <<c>> \in Seq(Callers) /\ Len(<<c>>) = 1 /\ <<c>>[1] = c /\ Len(t) \in Nat
  BY LenProperties
<1>2. /\ s \in Seq(Callers) /\ Len(s) = 1 + Len(t)
      /\ \A i \in 1 .. 1 + Len(t) : s[i] = IF i <= 1 THEN <<c>>[i] ELSE t[i - 1]
  BY <1>1, ConcatProperties
<1>3. s # <<>> /\ s[1] = c
  BY <1>1, <1>2, EmptySeq
<1>4. Tail(s) = t
  <2>1. /\ Tail(s) \in Seq(Callers) /\ Len(Tail(s)) = Len(t)
        /\ \A i \in 1 .. Len(t) : Tail(s)[i] = s[i + 1]
    BY <1>1, <1>2, <1>3, HeadTailProperties
  <2>2. \A i \in 1 .. Len(t) : Tail(s)[i] = t[i]
    BY <1>1, <1>2, <2>1
  <2>. QED  BY <2>1, <2>2, SeqEqual
<1>5. ASSUME NEW d \in Callers PROVE Append(s, d) = <<c>> \o Append(t, d)
  <2>1. /\ Append(s, d) \in Seq(Callers) /\ Len(Append(s, d)) = 2 + Len(t)
        /\ Append(s, d)[2 + Len(t)] = d
        /\ \A i \in 1 .. 1 + Len(t) : Append(s, d)[i] = s[i]
    BY <1>1, <1>2, AppendProperties
  <2>2. /\ Append(t, d) \in Seq(Callers) /\ Len(Append(t, d)) = 1 + Len(t)
        /\ Append(t, d)[1 + Len(t)] = d
        /\ \A i \in 1 .. Len(t) : Append(t, d)[i] = t[i]
    BY <1>1, AppendProperties
  <2>3. /\ <<c>> \o Append(t, d) \in Seq(Callers) /\ Len(<<c>> \o Append(t, d)) = 2 + Len(t)
        /\ \A i \in 1 .. 2 + Len(t) :
             (<<c>> \o Append(t, d))[i] = IF i <= 1 THEN <<c>>[i] ELSE Append(t, d)[i - 1]
    BY <1>1, <2>2, ConcatProperties
  <2>4. ASSUME NEW i \in 1 .. 2 + Len(t)
        PROVE  Append(s, d)[i] = (<<c>> \o Append(t, d))[i]
    BY <1>1, <1>2, <2>1, <2>2, <2>3
  <2>. QED  BY <2>1, <2>3, <2>4, SeqEqual
<1>. QED  BY <1>1, <1>2, <1>3, <1>4, <1>5, HeadTailProperties

LEMMA SendersAppend ==
  ASSUME NEW q \in Seq(Request), NEW r \in Request
  PROVE  Senders(Append(q, r)) = Append(Senders(q), r.from)
<1>1. Append(q, r) \in Seq(Request) /\ Senders(q) \in Seq(Callers) /\ r.from \in Callers
  BY SendersType, AppendProperties DEF Request
<1>2. /\ Senders(Append(q, r)) \in Seq(Callers) /\ Append(Senders(q), r.from) \in Seq(Callers)
      /\ Len(q) \in Nat /\ Len(Append(q, r)) = Len(q) + 1 /\ Len(Senders(q)) = Len(q)
      /\ Len(Append(Senders(q), r.from)) = Len(q) + 1 /\ Len(Senders(Append(q, r))) = Len(q) + 1
  <2>1. Len(q) \in Nat /\ Len(Append(q, r)) = Len(q) + 1
    BY LenProperties, AppendProperties
  <2>2. Len(Senders(q)) = Len(q) /\ Len(Senders(Append(q, r))) = Len(Append(q, r))
    BY <1>1, SendersType
  <2>3. Senders(Append(q, r)) \in Seq(Callers)
    BY <1>1, SendersType
  <2>4. Append(Senders(q), r.from) \in Seq(Callers) /\ Len(Append(Senders(q), r.from)) = Len(Senders(q)) + 1
    BY <1>1, AppendProperties
  <2>. QED  BY <2>1, <2>2, <2>3, <2>4
<1>3. ASSUME NEW i \in 1 .. Len(q) + 1
      PROVE  Senders(Append(q, r))[i] = Append(Senders(q), r.from)[i]
  BY <1>1, <1>2, AppendProperties DEF Senders
<1>. QED  BY <1>2, <1>3, SeqEqual

LEMMA SendersTail ==
  ASSUME NEW q \in Seq(Request), q # <<>>
  PROVE  /\ Senders(q) # <<>> /\ Head(Senders(q)) = Head(q).from
         /\ Tail(Senders(q)) = Senders(Tail(q))
         /\ <<Head(q).from>> \o Senders(Tail(q)) = Senders(q)
<1>1. /\ Len(q) \in Nat \ {0} /\ Tail(q) \in Seq(Request) /\ Len(Tail(q)) = Len(q) - 1
      /\ Head(q) = q[1] /\ Head(q) \in Request
      /\ \A i \in 1 .. Len(q) - 1 : Tail(q)[i] = q[i + 1]
  BY EmptySeq, HeadTailProperties
<1>2. /\ Senders(q) \in Seq(Callers) /\ Len(Senders(q)) = Len(q)
      /\ Senders(Tail(q)) \in Seq(Callers) /\ Len(Senders(Tail(q))) = Len(q) - 1
  BY <1>1, SendersType
<1>3. Senders(q) # <<>>
  BY <1>1, <1>2, EmptySeq
<1>4. Head(Senders(q)) = Head(q).from
  BY <1>1, <1>2, <1>3, HeadTailProperties DEF Senders
<1>5. Tail(Senders(q)) = Senders(Tail(q))
  <2>1. /\ Tail(Senders(q)) \in Seq(Callers) /\ Len(Tail(Senders(q))) = Len(q) - 1
        /\ \A i \in 1 .. Len(q) - 1 : Tail(Senders(q))[i] = Senders(q)[i + 1]
    BY <1>2, <1>3, HeadTailProperties
  <2>2. ASSUME NEW i \in 1 .. Len(q) - 1
        PROVE  Tail(Senders(q))[i] = Senders(Tail(q))[i]
    BY <1>1, <2>1 DEF Senders
  <2>. QED  BY <1>1, <1>2, <2>1, <2>2, SeqEqual
<1>6. <<Head(q).from>> \o Senders(Tail(q)) = Senders(q)
  <2>1. Head(q).from \in Callers
    BY <1>1 DEF Request
  <2>2. <<Head(Senders(q))>> \o Tail(Senders(q)) = Senders(q)
    BY <1>2, <1>3, <1>4, <2>1, ConcatProperties
  <2>. QED  BY <1>4, <1>5, <2>2
<1>. QED  BY <1>3, <1>4, <1>5, <1>6

\* The line: whom the actor works for, then the mailbox.
LEMMA WaitingIs ==
  ASSUME TypeOK
  PROVE  /\ cur.from \in Callers => Waiting = <<cur.from>> \o Senders(mailbox)
         /\ cur.from \notin Callers => Waiting = Senders(mailbox)
<1>1. Senders(mailbox) \in Seq(Callers)
  BY SendersType DEF TypeOK
<1>. QED  BY <1>1 DEF Waiting, Senders

\* What a step changes for DeviceService.
Refines == [Abs!Next]_Abs!vars

LEMMA SameLine ==
  ASSUME TypeOK, TypeOK', UNCHANGED mailbox,
         cur'.from = cur.from \/ (cur.from \notin Callers /\ cur'.from \notin Callers)
  PROVE  Waiting' = Waiting
BY DEF Waiting

LEMMA SamePhase ==
  ASSUME UNCHANGED <<handle, closed>>,
         pc' \in {"openFailed", "openReported", "gone"} <=> pc \in {"openFailed", "openReported", "gone"}
  PROVE  Phase' = Phase /\ Live' = Live
BY DEF Phase, Live

\* A step that changes no handle, no answer and no line is not seen.
LEMMA Unseen ==
  ASSUME TypeOK, TypeOK', UNCHANGED <<handle, closed, result, mailbox>>,
         cur'.from = cur.from \/ (cur.from \notin Callers /\ cur'.from \notin Callers),
         pc' \in {"openFailed", "openReported", "gone"} <=> pc \in {"openFailed", "openReported", "gone"}
  PROVE  Refines
<1>1. Waiting' = Waiting
  BY SameLine
<1>2. Phase' = Phase /\ Live' = Live
  BY SamePhase
<1>. QED  BY <1>1, <1>2 DEF Refines, Abs!vars

\* An answer to the caller at the head of the line.
LEMMA Answered ==
  ASSUME UNCHANGED <<handle, closed>>,
         pc' \in {"openFailed", "openReported", "gone"} <=> pc \in {"openFailed", "openReported", "gone"},
         Waiting # <<>>, Waiting' = Tail(Waiting),
         NEW o \in Outcomes, result' = [result EXCEPT ![Head(Waiting)] = o]
  PROVE  Refines
<1>1. Phase' = Phase /\ Live' = Live
  BY SamePhase
<1>. QED  BY <1>1 DEF Refines, Abs!Next, Abs!Answer

\* The actor answers whom it works for.
LEMMA AnsweredCurrent ==
  ASSUME TypeOK, TypeOK', cur.from \in Callers, cur'.from \notin Callers, UNCHANGED <<mailbox, closed>>,
         pc \notin {"openFailed", "openReported", "gone"}, pc' = "idle",
         NEW o \in Outcomes, Answer(cur, o)
  PROVE  Refines
<1>1. Senders(mailbox) \in Seq(Callers)
  BY SendersType DEF TypeOK
<1>2. Waiting = <<cur.from>> \o Senders(mailbox)
  BY WaitingIs
<1>3. Waiting' = Senders(mailbox)
  <2>1. Waiting' = <<>> \o Senders(mailbox)
    BY DEF Waiting, Senders
  <2>. QED  BY <1>1, <2>1, ConcatEmptySeq
<1>4. Waiting # <<>> /\ Head(Waiting) = cur.from /\ Waiting' = Tail(Waiting)
  BY <1>1, <1>2, <1>3, FirstInLine
<1>5. UNCHANGED handle /\ result' = [result EXCEPT ![Head(Waiting)] = o]
  BY <1>4 DEF Answer
<1>. QED  BY <1>4, <1>5, Answered

\* The actor answers the oldest request straight from the mailbox.
LEMMA AnsweredOldest ==
  ASSUME TypeOK, TypeOK', cur.from \notin Callers, UNCHANGED <<cur, pc, closed>>,
         mailbox # <<>>, mailbox' = Tail(mailbox), NEW o \in Outcomes, Answer(Oldest, o)
  PROVE  Refines
<1>1. Waiting = Senders(mailbox)
  BY WaitingIs
<1>2. Waiting' = Senders(Tail(mailbox))
  BY DEF Waiting, Senders, TypeOK
<1>3. Waiting # <<>> /\ Head(Waiting) = Oldest.from /\ Waiting' = Tail(Waiting)
  BY <1>1, <1>2, SendersTail DEF TypeOK, Oldest
<1>4. UNCHANGED handle /\ result' = [result EXCEPT ![Head(Waiting)] = o]
  BY <1>3 DEF Answer
<1>. QED  BY <1>3, <1>4, Answered

LEMMA SubmitRefines ==
  ASSUME TypeOK, TypeOK', NEW c \in Callers, NEW op \in RequestOps, NEW p \in Protos, Submit(c, op, p)
  PROVE  Refines
<1> DEFINE r == [op |-> op, from |-> c, proto |-> p]
<1>1. r \in Request /\ r.from = c /\ UNCHANGED <<handle, closed, pc, cur>> /\ mailbox' = Append(mailbox, r)
  BY DEF Submit, Request, portVars
<1>2. Senders(mailbox) \in Seq(Callers) /\ Senders(Append(mailbox, r)) = Append(Senders(mailbox), c)
  BY <1>1, SendersType, SendersAppend DEF TypeOK
<1>3. Waiting' = Append(Waiting, c)
  <2>1. CASE cur.from \in Callers
    <3>1. Waiting = <<cur.from>> \o Senders(mailbox) /\ Waiting' = <<cur.from>> \o Senders(Append(mailbox, r))
      BY <1>1, <2>1 DEF Waiting, Senders
    <3>2. c \in Callers /\ cur.from \in Callers
      BY <2>1
    <3>3. Append(<<cur.from>> \o Senders(mailbox), c) = <<cur.from>> \o Append(Senders(mailbox), c)
      BY <1>2, <3>2, FirstInLine
    <3>. QED  BY <1>2, <3>1, <3>3
  <2>2. CASE cur.from \notin Callers
    <3>1. Waiting = Senders(mailbox)
      BY <2>2, WaitingIs
    <3>2. Senders(Append(mailbox, r)) \in Seq(Callers)
      BY <1>2, AppendProperties
    <3>3. Waiting' = <<>> \o Senders(Append(mailbox, r))
      BY <1>1, <2>2 DEF Waiting, Senders
    <3>. QED  BY <1>2, <3>1, <3>2, <3>3, ConcatEmptySeq
  <2>. QED  BY <2>1, <2>2
<1>4. Phase' = Phase /\ Live' = Live /\ c \in Live
  BY <1>1, SamePhase DEF Submit, Live
<1>5. Abs!Call(c)
  BY <1>3, <1>4 DEF Abs!Call, Submit
<1>. QED  BY <1>5 DEF Refines, Abs!Next

LEMMA DropHandleRefines ==
  ASSUME TypeOK, TypeOK', NEW c \in Callers, DropHandle(c)
  PROVE  Refines
<1>1. Waiting' = Waiting
  BY SameLine DEF DropHandle
<1>2. handle[c] = "live" /\ handle' = [handle EXCEPT ![c] = "dropped"] /\ handle \in [Callers -> {"none", "live", "dropped"}]
  BY DEF DropHandle, TypeOK, CallerType
<1>3. Live' = Live \ {c} /\ c \in Live
  BY <1>2 DEF Live
<1>4. Phase' = Phase
  BY <1>2 DEF Phase, DropHandle, portVars
<1>5. Abs!Leave(c)
  BY <1>1, <1>3, <1>4 DEF Abs!Leave, DropHandle
<1>. QED  BY <1>5 DEF Refines, Abs!Next

LEMMA StartRefines ==
  ASSUME RefInv, TypeOK', StartRequest
  PROVE  Refines
<1>1. /\ mailbox # <<>> /\ mailbox' = Tail(mailbox) /\ cur' = Oldest /\ pc = "idle" /\ pc' = "await"
      /\ UNCHANGED <<handle, closed, result>>
  BY DEF StartRequest, PutOnWire, Transmit, callerVars, portVars
<1>2. cur.from \notin Callers
  BY <1>1 DEF RefInv, CurWhilePhase, RequestOps
<1>3. Oldest.from \in Callers
  <2>1. Oldest \in Request
    BY <1>1, HeadTailProperties DEF Oldest, RefInv, TypeOK
  <2>. QED  BY <2>1 DEF Request
<1>4. Waiting = Senders(mailbox)
  BY <1>2, WaitingIs DEF RefInv
<1>5. Waiting' = <<Oldest.from>> \o Senders(Tail(mailbox))
  BY <1>1, <1>3 DEF Waiting, Senders
<1>6. Waiting' = Waiting
  BY <1>1, <1>4, <1>5, SendersTail DEF RefInv, TypeOK, Oldest
<1>7. Phase' = Phase /\ Live' = Live
  BY <1>1, SamePhase
<1>. QED  BY <1>1, <1>6, <1>7 DEF Refines, Abs!vars

LEMMA ReadRefines ==
  ASSUME RefInv, TypeOK', ReadReply \/ ReadTimeout \/ ReadError
  PROVE  Refines
<1>1. pc = "await" /\ UNCHANGED <<mailbox, closed>> /\ \E o \in Outcomes : \E m : Finish(o, m)
  BY FramesType DEF RefInv, ReadReply, ReadTimeout, ReadError, Finish, Outcomes, Failures, portVars
<1>2. PICK o \in Outcomes : \E m : Finish(o, m)
  BY <1>1
<1>3. PICK m : Finish(o, m)
  BY <1>2
<1>4. pc' \in {"idle", "reset", "teardown", "release"}
  BY <1>3, FinishControl
<1>5. CASE cur.from \in Callers /\ Answer(cur, o) /\ cur' = NoExchange
  <2>1. pc' = "idle"
    BY <1>3, <1>5, FinishControl, NoExchangeFacts DEF RefInv, CurWhilePhase, RequestOps
  <2>. QED  BY <1>1, <1>5, <2>1, NoExchangeFacts, AnsweredCurrent DEF RefInv
<1>6. CASE cur.from \notin Callers /\ UNCHANGED callerVars /\ cur' = NoExchange
  BY <1>1, <1>4, <1>6, NoExchangeFacts, Unseen DEF RefInv, callerVars
<1>7. CASE UNCHANGED callerVars /\ cur' = cur
  BY <1>1, <1>4, <1>7, Unseen DEF RefInv, callerVars
<1>. QED  BY <1>3, <1>5, <1>6, <1>7, FinishAnswers DEF RefInv

\* A handshake that fails ends the open, or answers the connect it was for.
LEMMA FailedHandshakeRefines ==
  ASSUME RefInv, TypeOK', BadChallenge \/ NoChallenge \/ HandshakeError
  PROVE  Refines
<1>1. /\ pc \in {"reset", "identify", "challenge"} /\ UNCHANGED <<mailbox, closed>>
      /\ \E o \in Outcomes : HandshakeFails(o)
  BY DEF BadChallenge, NoChallenge, HandshakeError, HandshakeFails, Outcomes, Failures, portVars
<1>2. PICK o \in Outcomes : HandshakeFails(o)
  BY <1>1
<1>3. CASE cur.op = "Open"
  <2>1. UNCHANGED <<handle, result, cur>> /\ pc' = "openFailed" /\ \A c \in Callers : handle[c] = "none"
    BY <1>2, <1>3 DEF HandshakeFails, callerVars, RefInv, PortWhilePhase
  <2>2. Phase = "opening" /\ Phase' = "closed" /\ Live' = Live
    BY <1>1, <2>1 DEF Phase, Live
  <2>3. Waiting' = Waiting
    BY <1>1, <2>1, SameLine DEF RefInv
  <2>. QED  BY <2>1, <2>2, <2>3 DEF Refines, Abs!Next, Abs!Open
<1>4. CASE cur.op # "Open"
  <2>1. Answer(cur, o) /\ cur' = NoExchange /\ pc' = "idle" /\ cur.from \in Callers
    BY <1>1, <1>2, <1>4 DEF HandshakeFails, Done, RefInv, CurWhilePhase, RequestOps
  <2>. QED  BY <1>1, <2>1, NoExchangeFacts, AnsweredCurrent DEF RefInv
<1>. QED  BY <1>3, <1>4

LEMMA ReadChallengeRefines ==
  ASSUME RefInv, TypeOK', ReadChallenge
  PROVE  Refines
<1>1. pc = "challenge" /\ UNCHANGED <<mailbox, closed, result>>
  BY DEF ReadChallenge, portVars
<1>2. CASE cur.op = "Open"
  <2>1. pc' = "idle" /\ cur' = NoExchange /\ handle' = [c \in Callers |-> "live"]
    BY <1>2 DEF ReadChallenge, Done
  <2>2. cur.from \notin Callers /\ ~closed /\ \A c \in Callers : handle[c] = "none"
    BY <1>1, <1>2 DEF RefInv, CurWhilePhase, PortWhilePhase, RequestOps
  <2>3. Waiting' = Waiting
    BY <1>1, <2>1, <2>2, NoExchangeFacts, SameLine DEF RefInv
  <2>4. Phase = "opening"
    BY <1>1, <2>2 DEF Phase
  <2>5. CASE Callers = {}
    BY <1>1, <2>1, <2>2, <2>3, <2>4, <2>5 DEF Refines, Abs!vars, Phase, Live
  <2>6. CASE Callers # {}
    <3>1. Phase' = "open" /\ Live' = Callers
      BY <1>1, <2>1, <2>2, <2>6 DEF Phase, Live
    <3>. QED  BY <1>1, <2>3, <2>4, <3>1 DEF Refines, Abs!Next, Abs!Open
  <2>. QED  BY <2>5, <2>6
<1>3. CASE cur.op # "Open"
  BY <1>1, <1>3, Unseen DEF ReadChallenge, RefInv
<1>. QED  BY <1>2, <1>3

\* The signal ends the session, unless the open had failed.
LEMMA SignalRefines ==
  ASSUME RefInv, TypeOK', SignalClosed
  PROVE  Refines
<1>1. UNCHANGED <<handle, result, mailbox, cur>> /\ closed' = TRUE
  BY DEF SignalClosed, callerVars
<1>2. Waiting' = Waiting /\ Live' = Live
  BY <1>1, SameLine DEF RefInv, Live
<1>3. CASE pc = "signal"
  <2>1. pc' = "gone"
    BY <1>3 DEF SignalClosed
  <2>2. mailbox = <<>> /\ \A c \in Callers : handle[c] = "dropped"
    BY <1>3 DEF RefInv, Deserted, ClosingDown
  <2>3. cur.from \notin Callers /\ ~closed
    BY <1>3 DEF RefInv, CurWhilePhase, PortWhilePhase, RequestOps
  <2>4. CASE Callers = {}
    <3>1. Phase = "opening" /\ Phase' = "closed"
      BY <1>3, <2>1, <2>4 DEF Phase
    <3>. QED  BY <1>1, <1>2, <3>1 DEF Refines, Abs!Next, Abs!Open
  <2>5. CASE Callers # {}
    <3>1. Phase = "open" /\ Phase' = "closed"
      BY <1>1, <2>2, <2>3, <2>5 DEF Phase
    <3>2. Live = {}
      BY <2>2 DEF Live
    <3>3. Waiting = <<>>
      <4>1. Senders(mailbox) \in Seq(Callers) /\ Len(Senders(mailbox)) = 0 /\ Waiting = Senders(mailbox)
        BY <2>2, <2>3, SendersType, WaitingIs, EmptySeq DEF RefInv, TypeOK
      <4>. QED  BY <4>1, EmptySeq
    <3>. QED  BY <1>1, <1>2, <3>1, <3>2, <3>3 DEF Refines, Abs!Next, Abs!Close
  <2>. QED  BY <2>4, <2>5
<1>4. CASE pc = "openFailed"
  <2>1. pc' = "openReported" /\ \A c \in Callers : handle[c] = "none"
    BY <1>4 DEF SignalClosed, RefInv, PortWhilePhase
  <2>2. Phase' = Phase
    BY <1>1, <1>4, <2>1 DEF Phase
  <2>. QED  BY <1>1, <1>2, <2>2 DEF Refines, Abs!vars
<1>. QED  BY <1>3, <1>4 DEF SignalClosed

LEMMA ReleaseRefines ==
  ASSUME RefInv, TypeOK', ReleasePort
  PROVE  Refines
<1>1. UNCHANGED <<handle, result, mailbox, cur, closed>>
  BY DEF ReleasePort, callerVars
<1>2. pc = "release" => pc' = "signal"
  BY DEF ReleasePort
<1>3. pc = "openReported" => pc' = "gone"
  BY DEF ReleasePort
<1>. QED  BY <1>1, <1>2, <1>3, Unseen DEF ReleasePort, RefInv

LEMMA InitRef == Init => RefInv /\ Abs!Init
<1> SUFFICES ASSUME Init PROVE RefInv /\ Abs!Init
  OBVIOUS
<1>1. RefInv
  <2>1. TypeOK /\ CurWhilePhase /\ PortWhilePhase
    BY InitType, InitCur, InitPort
  <2>2. Deserted
    BY DEF Init, Deserted, ClosingDown
  <2>. QED  BY <2>1, <2>2 DEF RefInv
<1>2. Phase = "opening" /\ Live = {}
  BY DEF Init, Phase, Live
<1>3. Waiting = <<>>
  <2>1. cur.from \notin Callers /\ mailbox = <<>>
    BY SessionAssumption DEF Init, Own
  <2>2. Senders(mailbox) \in Seq(Callers) /\ Len(Senders(mailbox)) = 0 /\ Waiting = Senders(mailbox)
    BY <1>1, <2>1, SendersType, WaitingIs, EmptySeq DEF RefInv, TypeOK
  <2>. QED  BY <2>2, EmptySeq
<1>. QED  BY <1>1, <1>2, <1>3 DEF Abs!Init, Init

LEMMA StepDeserted ==
  ASSUME RefInv, [Next]_vars
  PROVE  Deserted'
<1>1. ASSUME UNCHANGED <<mailbox, handle>>, ClosingDown' => ClosingDown PROVE Deserted'
  BY <1>1 DEF RefInv, Deserted
<1>2. ASSUME ~ClosingDown' PROVE Deserted'
  BY <1>2 DEF Deserted
<1>3. CASE Caller
  <2>1. ASSUME NEW c \in Callers, handle[c] = "live", UNCHANGED <<pc, cur>> PROVE Deserted'
    <3>1. ~ClosingDown
      BY <2>1 DEF RefInv, Deserted
    <3>. QED  BY <2>1, <3>1, <1>2 DEF ClosingDown
  <2>2. \E c \in Callers : handle[c] = "live" /\ UNCHANGED <<pc, cur>>
    BY <1>3 DEF Caller, SubmitConnect, SubmitUse, DropChannel, Submit, DropHandle
  <2>. QED  BY <2>1, <2>2
<1>4. CASE RefuseWedged \/ PollQueued
  <2>1. ~ClosingDown'
    BY <1>4 DEF RefuseWedged, PollQueued, ClosingDown
  <2>. QED  BY <2>1, <1>2
<1>5. CASE StartRequest
  <2>1. pc' = "await" /\ cur' = Oldest /\ Oldest \in Request
    BY <1>5, HeadTailProperties DEF StartRequest, PutOnWire, Transmit, Oldest, RefInv, TypeOK
  <2>2. ~ClosingDown'
    BY <2>1 DEF ClosingDown, Request, RequestOps
  <2>. QED  BY <2>2, <1>2
<1>6. CASE StartIdlePoll \/ RetryConnect
  <2>1. pc' = "await" /\ cur'.op \in {"IdlePoll", "Retry"}
    BY <1>6 DEF StartIdlePoll, IdlePollAnyway, RetryConnect, Transmit, Own, RefInv, TypeOK, ActorType, Exchange
  <2>2. ~ClosingDown'
    BY <2>1 DEF ClosingDown
  <2>. QED  BY <2>2, <1>2
<1>7. CASE TeardownStep \/ ReleasePort \/ SignalClosed \/ Adapter \/ Hang \/ Ended \/ UNCHANGED vars
  <2>1. UNCHANGED <<mailbox, handle>>
    BY <1>7, Zenon DEF TeardownStep, ReleasePort, SignalClosed, Adapter, Hang, Ended, vars, callerVars
  <2>2. ClosingDown' => ClosingDown
    BY <1>7 DEF TeardownStep, ReleasePort, SignalClosed, Adapter, Hang, Ended, vars, ClosingDown
  <2>. QED  BY <2>1, <2>2, <1>1
<1>8. CASE StartTeardown
  BY <1>8 DEF StartTeardown, Deserted, callerVars
<1>9. CASE ReadReply \/ ReadTimeout \/ ReadError
  <2>1. pc = "await" /\ UNCHANGED mailbox /\ \E o \in Outcomes : \E m : Finish(o, m)
    BY <1>9, FramesType DEF RefInv, ReadReply, ReadTimeout, ReadError, Finish, Outcomes, Failures
  <2>2. UNCHANGED handle
    BY <2>1, FinishAnswers, AnswerKeepsHandles DEF RefInv, callerVars
  <2>3. ClosingDown' => ClosingDown
    BY <2>1, FinishControl DEF ClosingDown
  <2>. QED  BY <2>1, <2>2, <2>3, <1>1
<1>10. CASE SendReset \/ SendIdentify \/ ReadChallenge
  <2>1. ~ClosingDown'
    BY <1>10 DEF SendReset, SendIdentify, ReadChallenge, Done, ClosingDown
  <2>. QED  BY <2>1, <1>2
<1>11. CASE BadChallenge \/ NoChallenge \/ HandshakeError
  <2>1. \E o : HandshakeFails(o)
    BY <1>11 DEF BadChallenge, NoChallenge, HandshakeError
  <2>2. ~ClosingDown'
    BY <2>1, HandshakeFailsControl DEF ClosingDown
  <2>. QED  BY <2>2, <1>2
<1>. QED  BY <1>3, <1>4, <1>5, <1>6, <1>7, <1>8, <1>9, <1>10, <1>11 DEF Next, Actor

\* Every step of the session is a step of DeviceService, or none.
LEMMA StepRef == RefInv /\ [Next]_vars => RefInv' /\ [Abs!Next]_Abs!vars
<1> SUFFICES ASSUME RefInv, [Next]_vars PROVE RefInv' /\ Refines
  BY DEF Refines
<1>1. RefInv'
  BY StepType, StepCur, StepPort, StepDeserted DEF RefInv
<1>2. TypeOK /\ TypeOK'
  BY <1>1 DEF RefInv
<1>3. CASE Caller
  BY <1>1, <1>2, <1>3, SubmitRefines, DropHandleRefines
     DEF Caller, SubmitConnect, SubmitUse, DropChannel, RequestOps
<1>4. CASE RefuseWedged \/ PollQueued
  <2>1. PICK o \in Outcomes : Answer(Oldest, o)
    BY <1>4 DEF RefuseWedged, PollQueued, Outcomes, Failures
  <2>2. cur.from \notin Callers /\ UNCHANGED <<cur, pc, closed>> /\ mailbox # <<>> /\ mailbox' = Tail(mailbox)
    BY <1>4 DEF RefuseWedged, PollQueued, RefInv, CurWhilePhase, RequestOps, portVars
  <2>. QED  BY <1>1, <1>2, <2>1, <2>2, AnsweredOldest
<1>5. CASE StartIdlePoll \/ TeardownStep
  <2>1. cur.from \notin Callers /\ cur'.from = NoCaller /\ pc \in {"idle", "teardown"} /\ pc' = "await"
    BY <1>5 DEF StartIdlePoll, IdlePollAnyway, TeardownStep, Transmit, Own, RefInv, CurWhilePhase, RequestOps
  <2>2. UNCHANGED <<handle, closed, result, mailbox>>
    BY <1>5 DEF StartIdlePoll, IdlePollAnyway, TeardownStep, callerVars, portVars
  <2>. QED  BY <1>1, <1>2, <2>1, <2>2, SessionAssumption, Unseen
<1>6. CASE RetryConnect
  <2>1. cur'.from = cur.from /\ pc = "retry" /\ pc' = "await"
    BY <1>6 DEF RetryConnect, Transmit, RefInv, TypeOK, ActorType, Exchange
  <2>2. UNCHANGED <<handle, closed, result, mailbox>>
    BY <1>6 DEF RetryConnect, callerVars, portVars
  <2>. QED  BY <1>1, <1>2, <2>1, <2>2, Unseen
<1>7. CASE SendReset \/ SendIdentify \/ StartTeardown
  <2>1. UNCHANGED <<handle, closed, result, mailbox, cur>>
    BY <1>7 DEF SendReset, SendIdentify, StartTeardown, callerVars, portVars
  <2>2. pc \in {"reset", "identify", "idle"} /\ pc' \in {"identify", "challenge", "teardown"}
    BY <1>7 DEF SendReset, SendIdentify, StartTeardown
  <2>. QED  BY <1>1, <1>2, <2>1, <2>2, Unseen
<1>8. CASE Adapter \/ Hang \/ Ended \/ UNCHANGED vars
  <2>1. UNCHANGED <<handle, closed, result, mailbox, cur, pc>>
    BY <1>8, Zenon DEF Adapter, Hang, Ended, vars, callerVars, portVars
  <2>. QED  BY <1>1, <1>2, <2>1, Unseen
<1>. QED  BY <1>1, <1>2, <1>3, <1>4, <1>5, <1>6, <1>7, <1>8, StartRefines, ReadRefines,
             FailedHandshakeRefines, ReadChallengeRefines, SignalRefines, ReleaseRefines DEF Next, Actor

\* The phase, the callers and the line that Abs speaks of are those of Service.
LEMMA SameService ==
  /\ Abs!Init => Service!Init
  /\ [Abs!Next]_Abs!vars => [Service!Next]_Service!vars
<1>1. Abs!Init => Service!Init
  BY Zenon DEF Abs!Init, Service!Init, Phase, Live
<1>2. Abs!vars' = Abs!vars => Service!vars' = Service!vars
  BY Zenon DEF Abs!vars, Service!vars, Phase, Live
<1>3. Abs!Next => Service!Next
  <2>1. Abs!Open => Service!Open
    BY Zenon DEF Abs!Open, Service!Open, Phase, Live
  <2>2. Abs!Answer => Service!Answer
    BY Zenon DEF Abs!Answer, Service!Answer, Phase, Live
  <2>3. Abs!Close => Service!Close
    BY Zenon DEF Abs!Close, Service!Close, Phase, Live
  <2>4. ASSUME NEW c \in Callers
        PROVE  (Abs!Call(c) => Service!Call(c)) /\ (Abs!Leave(c) => Service!Leave(c))
    BY Zenon DEF Abs!Call, Service!Call, Abs!Leave, Service!Leave, Phase, Live
  <2>. QED  BY <2>1, <2>2, <2>3, <2>4, Zenon DEF Abs!Next, Service!Next
<1>. QED  BY <1>1, <1>2, <1>3

\* Whatever the wire and the adapter do, the callers of a Device are answered
\* one at a time, in the order of their calls and exactly once, and the session
\* closes only when all have left (actor.rs run, device.rs): the safety part of
\* ServiceSpec.
THEOREM ServedInOrder == Spec => Service!Spec
<1>1. Spec => Service!Init /\ [][Service!Next]_Service!vars
  BY InitRef, StepRef, SameService, PTL DEF Spec
<1>. QED  BY <1>1 DEF Service!Spec

=============================================================================
