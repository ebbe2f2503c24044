---------------------------- MODULE Diagnostics ----------------------------
(***************************************************************************)
(* rmvci-diag over the firmware path of isotp/mod.rs, with the one channel *)
(* an application keeps, cached by ECU as the Android library does it.     *)
(* One thread asks several ECUs, whose answers reach it through the        *)
(* adapter's ring.  An ECU may announce its answer, refuse, stay silent,   *)
(* never finish announcing, or answer after the call has given up.         *)
(***************************************************************************)
EXTENDS Naturals, Sequences, SequencesExt

CONSTANTS
  Ecus, NoEcu,
  Ids,          \* local identifiers, PIDs, poll lists, enumeration pages
  Ops,          \* the calls made
  Pages,        \* what an ECU may enumerate: for each E8 message its entries
  Pendings,     \* how many responsePending messages precede an answer
  MaxPending,   \* MAX_RESPONSE_PENDING and MAX_PENDING
  RingCap,      \* messages the adapter can hold
  Storms,       \* whether an ECU may announce an answer for ever
  MaxCalls, MaxFaults

Entry == [id : Nat, width : Nat]

ASSUME DiagAssumption ==
  /\ NoEcu \notin Ecus /\ Ids \subseteq Nat \ {0}
  /\ Ops \subseteq {"read", "command", "quiet", "enumerate", "teardown", "request"}
  /\ Pages \subseteq Seq(Seq(Entry)) /\ Pendings \subseteq Nat /\ Storms \in BOOLEAN
  /\ MaxPending \in Nat /\ RingCap \in Nat \ {0}
  /\ MaxCalls \in Nat /\ MaxFaults \in Nat

VARIABLES
  pc,       \* where the caller is
  call,     \* the call: its number, what it is, its identifier and its ECU
  key,      \* the ECU the channel is for, NoEcu without a channel
  counted,  \* whether RawChannel counts a filter
  pending,  \* responsePending messages swallowed in this call
  pids,     \* entries enumerated in this call
  result,   \* what the last call returned
  filter,   \* the ECU whose messages the adapter lets in
  ring,     \* messages the adapter holds
  ecu,      \* what each ECU will still say, and whether it storms
  truth,    \* what the ECU has to say to this call
  trouble,  \* this call began before all was quiet, or something failed since
  nfaults

hostVars == <<pc, call, key, counted, pending, pids, result>>
carVars == <<ecu, truth>>
vars == <<hostVars, filter, ring, carVars, trouble, nfaults>>

\* The calls, and the services as an ECU knows them.  "read" is any method that
\* compares the identifier its answer echoes, "command" any that does not,
\* "quiet" a testerPresent that wants no answer; request, which hands over the
\* bytes as they are, may carry any.
Service == [read |-> "read", request |-> "read", command |-> "command", quiet |-> "command",
            enumerate |-> "enumerate", teardown |-> "teardown"]

Message(kind, c, body) ==
  [kind |-> kind, sid |-> Service[c.op], id |-> c.id, from |-> c.ecu, of |-> c.n, body |-> body]

NoCall == [n |-> 0, op |-> "teardown", id |-> 0, ecu |-> NoEcu]
Nothing == Message("none", NoCall, << >>)

\* What a call returns: how it went, which message it took for its answer, and
\* what an enumeration found.
Outcome(st, m, list) ==
  [st |-> st, pids |-> list,
   msg |-> [kind |-> m.kind, sid |-> m.sid, id |-> m.id, from |-> m.from, of |-> m.of]]
Empty(st) == Outcome(st, Nothing, << >>)

Fault == nfaults < MaxFaults /\ nfaults' = nfaults + 1 /\ trouble' = TRUE
NoFault == UNCHANGED <<nfaults, trouble>>

-----------------------------------------------------------------------------
(* What the clients make of a message.                                     *)

\* Faulty variant: a support mask is taken to be one byte.
ParsePidsNarrow(tlv) ==
  [i \in 1..Len(tlv) \div 3 |->
     [id |-> tlv[3 * i - 2], width |-> tlv[3 * i - 1], support |-> <<tlv[3 * i]>>]]

\* parse_pid_tlv: <pid> <width> <width bytes> over and over; an entry that is
\* cut at the end is dropped.
ParsePids(tlv) ==
  LET end(i) == i + 1 + tlv[i + 1]
      from[i \in 1..Len(tlv) + 1] ==
        IF i + 1 > Len(tlv) THEN << >>
        ELSE IF end(i) > Len(tlv) THEN << >>
        ELSE <<[id |-> tlv[i], width |-> tlv[i + 1], support |-> SubSeq(tlv, i + 2, end(i))]>>
             \o from[end(i) + 1]
  IN from[1]

\* Any negative response is one, whatever service it names.
ParsePositive(c, m) ==
  CASE m.kind # "positive" -> Outcome("Negative", m, << >>)
    [] m.kind = "positive" /\ m.sid = Service[c.op] -> Outcome("Ok", m, << >>)
    [] OTHER -> Outcome("Unexpected", m, << >>)

\* Faulty variant: the identifier is cut off unread.
StripEchoUnread(c, m) == ParsePositive(c, m)

\* strip_echo, of the reads and the poll of a list.
StripEcho(c, m) ==
  IF m.kind = "positive" /\ m.sid = Service[c.op] /\ m.id # c.id
  THEN Outcome("Unexpected", m, << >>) ELSE ParsePositive(c, m)

Answered(c, m) ==
  CASE c.op = "request" -> Outcome("Ok", m, << >>)
    [] c.op = "read"    -> StripEcho(c, m)
    [] OTHER            -> ParsePositive(c, m)

-----------------------------------------------------------------------------
(* The ECUs and the adapter.                                               *)

Mask == 1
Encode(entries) ==
  FlattenSeq([i \in DOMAIN entries |->
                <<entries[i].id, entries[i].width>> \o [b \in 1..entries[i].width |-> Mask]])
Listed(entries) ==
  [i \in DOMAIN entries |-> [id |-> entries[i].id, width |-> entries[i].width,
                             support |-> [b \in 1..entries[i].width |-> Mask]]]

\* What an ECU may say to call c, and what the caller is to make of it.
Answers(c) ==
  LET yes == Message("positive", c, << >>)
      no == Message("negative", c, << >>)
      refusal == [says |-> <<no>>, means |-> Outcome(IF c.op = "request" THEN "Ok" ELSE "Negative", no, << >>)]
      silence(st) == [says |-> << >>, means |-> Empty(st)] IN
  CASE c.op = "teardown"  -> {silence("Ok")}
    [] c.op = "quiet"     -> {silence("Ok"), refusal}
    [] c.op = "enumerate" ->
         {silence("Ok"), refusal} \cup
         {[says |-> [i \in DOMAIN page |-> Message("positive", c, Encode(page[i]))],
           means |-> Outcome("Ok", Nothing, Listed(FlattenSeq(page)))] : page \in Pages}
    [] OTHER -> {silence("Timeout"), refusal, [says |-> <<yes>>, means |-> Outcome("Ok", yes, << >>)]}

\* What it says when the announcements are more than a call will swallow.
Announced(c, a, k) ==
  LET wait == Message("pending", c, << >>)
      gaveUp == Outcome(IF c.op = "request" THEN "Ok" ELSE "Negative", wait, << >>) IN
  [says |-> [i \in 1..k |-> wait] \o a.says, means |-> IF k > MaxPending THEN gaveUp ELSE a.means]

\* The request reaches an ECU, which drops what it was about or ends it first.
Hear(c) ==
  \E owed \in {<< >>, IF ecu[c.ecu].storm THEN << >> ELSE ecu[c.ecu].says} :
  \E a \in Answers(c), k \in Pendings, storm \in {FALSE, Storms} :
    /\ a.says = << >> => k = 0 /\ ~storm
    /\ LET b == Announced(c, a, IF storm THEN MaxPending + 1 ELSE k) IN
       /\ ecu' = [ecu EXCEPT ![c.ecu] = [says |-> IF storm THEN <<Head(b.says)>> ELSE owed \o b.says, storm |-> storm]]
       /\ truth' = b.means

\* An ECU sends what it has; what the filter bars or the ring has no room for
\* is lost.
Speak(e) ==
  LET says == ecu[e].says IN
  /\ says # << >>
  /\ ecu' = [ecu EXCEPT ![e].says = IF ecu[e].storm THEN says ELSE Tail(says)]
  /\ IF filter = e /\ Len(ring) < RingCap
     THEN ring' = Append(ring, Head(says)) /\ UNCHANGED trouble
     ELSE trouble' = (trouble \/ filter = e) /\ UNCHANGED ring
  /\ UNCHANGED <<hostVars, filter, truth, nfaults>>

-----------------------------------------------------------------------------
(* The session handle and its channel.                                     *)

Channel(e, c, f) == key' = e /\ counted' = c /\ filter' = f
NoChannel == Channel(NoEcu, FALSE, NoEcu)
Return(r) == pc' = "idle" /\ result' = r /\ pending' = 0 /\ pids' = << >>

\* No call has returned anything yet.
Begin == pc' = "sending" /\ result' = Empty("None") /\ UNCHANGED <<pending, pids>>

Open ==
  /\ pc = "closed"
  /\ \/ pc' = "idle" /\ NoFault
     \/ Fault /\ UNCHANGED pc
  /\ UNCHANGED <<call, key, counted, pending, pids, result, filter, ring, carVars>>

\* The channel goes before the device, so that its disconnect is still heard.
Close ==
  /\ pc = "idle" /\ pc' = "closed"
  /\ NoChannel /\ ring' = << >>
  /\ UNCHANGED <<call, pending, pids, result, carVars, trouble, nfaults>>

\* A call to the ECU of the cached channel uses it; for another ECU the old
\* channel is dropped first, and the new one may fail to open.
Ask ==
  /\ pc = "idle" /\ call.n < MaxCalls
  /\ \E op \in Ops, id \in Ids \cup {0}, e \in Ecus :
       /\ id = 0 <=> op \notin {"read", "enumerate"}
       /\ call' = [n |-> call.n + 1, op |-> op, id |-> id, ecu |-> e]
       /\ \/ /\ key = e /\ NoFault /\ Begin
             /\ UNCHANGED <<key, counted, filter, ring>>
          \/ /\ key # e /\ ring' = << >>
             /\ \/ Channel(e, TRUE, e) /\ NoFault /\ Begin
                \/ Fault /\ NoChannel /\ Return(Empty("Port"))
  /\ truth' = Empty("None") /\ UNCHANGED ecu

\* set_endpoints: the endpoints change, then the filter is replaced, and a
\* failure leaves the old one, none or the new one in force.
SetEndpoints(e) ==
  /\ pc = "idle" /\ key \notin {NoEcu, e}
  /\ \/ Channel(e, TRUE, e) /\ NoFault
     \/ Fault /\ \E c \in {counted, FALSE}, f \in {filter, NoEcu, e} : Channel(e, c, f)
  /\ UNCHANGED <<pc, call, pending, pids, result, ring, carVars>>

Settled == ring = << >> /\ counted /\ filter = key /\ \A e \in Ecus : ecu[e].says = << >>

\* IsoTp::send.  A write that fails may have gone out.
Send ==
  /\ pc = "sending"
  /\ \/ /\ Hear(call)
        /\ trouble' = ~Settled /\ UNCHANGED nfaults
        /\ IF call.op = "teardown" THEN Return(Empty("Ok"))
           ELSE pc' = "waiting" /\ UNCHANGED <<pending, pids, result>>
     \/ Fault /\ Return(Empty("Port")) /\ (UNCHANGED carVars \/ Hear(call))
  /\ UNCHANGED <<call, key, counted, filter, ring>>

-----------------------------------------------------------------------------
(* The wait for an answer.                                                 *)

\* Faulty variant: a message is taken for the channel's without a look.
PassesAnything(m) == TRUE

Passes(m) == m.from = key

\* Faulty variant: every announcement is swallowed.
SwallowAll(m) == m.kind = "pending"

Swallow(m) == m.kind = "pending" /\ pending < MaxPending

\* Faulty variant: the count of a call stands still.
NotCounted == pending

OneMore == pending + 1

Skip == UNCHANGED <<pc, pending, pids, result>>

\* A turn of drain_pending, exchange or enumerate_pids over IsoTp::recv.
Receive ==
  /\ pc = "waiting" /\ ring # << >> /\ ring' = Tail(ring)
  /\ LET m == Head(ring)
         chunk == m.kind = "positive" /\ m.sid = "enumerate" /\ m.id = call.id IN
     \/ ~Passes(m) /\ Skip
     \/ Passes(m) /\ Swallow(m) /\ pending' = OneMore /\ UNCHANGED <<pc, pids, result>>
     \/ Passes(m) /\ ~Swallow(m) /\
          \/ call.op # "enumerate" /\ Return(Answered(call, m))
          \/ call.op = "enumerate" /\ m.kind # "positive" /\ Return(Outcome("Negative", m, << >>))
          \/ call.op = "enumerate" /\ chunk /\ pids' = pids \o ParsePids(m.body)
             /\ UNCHANGED <<pc, pending, result>>
          \/ call.op = "enumerate" /\ m.kind = "positive" /\ ~chunk /\ Skip
  /\ UNCHANGED <<call, key, counted, filter, carVars, trouble, nfaults>>

\* Nothing came in time: the end of an enumeration, and what a suppressed
\* testerPresent hopes for, unless no filter is counted.
TimesOut ==
  /\ pc = "waiting" /\ ring = << >>
  /\ Return(CASE ~counted -> Empty("NoFilter")
              [] counted /\ call.op = "enumerate" -> Outcome("Ok", Nothing, pids)
              [] counted /\ call.op = "quiet" -> Empty("Ok")
              [] OTHER -> Empty("Timeout"))
  /\ trouble' = (trouble \/ \E e \in Ecus : ecu[e].says # << >>)
  /\ UNCHANGED <<call, key, counted, filter, ring, carVars, nfaults>>

PortFails ==
  /\ pc = "waiting" /\ Fault /\ Return(Empty("Port"))
  /\ UNCHANGED <<call, key, counted, filter, ring, carVars>>

Init ==
  /\ pc = "closed" /\ call = NoCall /\ key = NoEcu /\ counted = FALSE
  /\ pending = 0 /\ pids = << >> /\ result = Empty("None")
  /\ filter = NoEcu /\ ring = << >>
  /\ ecu = [e \in Ecus |-> [says |-> << >>, storm |-> FALSE]]
  /\ truth = Empty("None") /\ trouble = FALSE /\ nfaults = 0

Waiting == Receive \/ TimesOut

Next ==
  \/ Open \/ Close \/ Ask \/ Send \/ Receive \/ TimesOut \/ PortFails
  \/ \E e \in Ecus : Speak(e) \/ SetEndpoints(e)

\* The thread runs and its reads end: at a message, or at their deadline.
Spec == Init /\ [][Next]_vars /\ WF_vars(Waiting)

-----------------------------------------------------------------------------
(* Properties.                                                             *)

Kinds == {"none", "positive", "negative", "pending"}
Messages == [kind : Kinds, sid : {Service[op] : op \in DOMAIN Service}, id : Ids \cup {0},
             from : Ecus \cup {NoEcu}, of : 0..MaxCalls, body : Seq(Nat)]
Replies == [kind : Kinds, sid : {Service[op] : op \in DOMAIN Service}, id : Ids \cup {0},
            from : Ecus \cup {NoEcu}, of : 0..MaxCalls]
Lists == Seq([id : Nat, width : Nat, support : Seq(Nat)])
Outcomes == [st : {"None", "Ok", "Negative", "Unexpected", "Timeout", "NoFilter", "Port"},
             msg : Replies, pids : Lists]

TypeOK ==
  /\ pc \in {"closed", "idle", "sending", "waiting"}
  /\ call \in [n : 0..MaxCalls, op : DOMAIN Service, id : Ids \cup {0}, ecu : Ecus \cup {NoEcu}]
  /\ {key, filter} \subseteq Ecus \cup {NoEcu} /\ counted \in BOOLEAN
  /\ pending \in 0..MaxPending /\ pids \in Lists
  /\ {result, truth} \subseteq Outcomes
  /\ ring \in Seq(Messages) /\ Len(ring) <= RingCap
  /\ ecu \in [Ecus -> [says : Seq(Messages), storm : BOOLEAN]]
  /\ trouble \in BOOLEAN /\ nfaults \in 0..MaxFaults
  /\ pc \in {"sending", "waiting"} => key = call.ecu

\* However late the answers to earlier calls come, and wherever a repointing
\* that failed left the filter: a call that succeeds was answered by the ECU it
\* asked, with the service it asked for, and a read with the identifier it asked
\* for (isotp/mod.rs:297-299, common.rs:11-37).
AnswersFit ==
  (pc = "idle" /\ result.st = "Ok" /\ result.msg.kind # "none") =>
    /\ result.msg.from = call.ecu
    /\ call.op # "request" => result.msg.kind = "positive" /\ result.msg.sid = Service[call.op]
    /\ call.op = "read" => result.msg.id = call.id

\* When nothing of an earlier call is under way and the ECU answers in time, a
\* call returns what the ECU has to say: its answer behind any number of
\* announcements up to the limit, all of its list, its refusal or its silence
\* (isotp/mod.rs:39-62, toyota_can.rs:107-152).
PunctualAnswers == (pc = "idle" /\ ~trouble /\ call.n > 0) => result = truth

\* A call returns even if the ECU announces its answer for ever
\* (isotp/mod.rs:34-37, toyota_can.rs:64-66).
EveryCallReturns == (pc = "waiting" /\ filter = key) ~> pc = "idle"
=============================================================================
