----------------------------- MODULE KLineProofs -----------------------------
(***************************************************************************)
(* Theorems about KLine: its types and bounds, and that over a cable that  *)
(* keeps its frames a request returns its own reply and leaves the ECU and *)
(* the ring ready for the next.  The inductive invariant keeps the time    *)
(* that the ECU still has against the deadlines of read_to.                *)
(***************************************************************************)
EXTENDS KLine, SequenceTheorems, TLAPS

-----------------------------------------------------------------------------
(* The inductive invariant.                                                *)

\* Frames are of requests that were made, and so is what the ECU is on.
Typed == TypeOK /\ (Talking => ecu.of \in 1..MaxRequests)

Replies == {i \in 1..Len(ring) : ring[i].kind = "reply"}

\* Whoever times a read out has waited longer than the ECU takes: its next
\* frame comes before the deadline, or one that will move the deadline is there.
OnTime ==
  \/ waited + ecu.due < Limit
  \/ ring # << >> /\ ring[Len(ring)].kind = "pending" /\ ecu.due < PendingReadTime

\* What the ECU will still send comes before request() loses its patience.
InPatience == \A gap \in Gaps : elapsed + ecu.due + ecu.left * gap < MaxPendingTime

\* While a request reads, the ECU is on that request or on none.
Reading ==
  /\ \A i \in Replies : Len(ring) = 1 /\ ring[i].of = asked /\ ~Talking /\ ~ecu.deaf
  /\ Talking => /\ ecu.of = asked /\ (ecu.due = 0 => ring = << >>) /\ OnTime
                /\ ecu.storm \/ InPatience

\* Before and after a request, and while one re-initialises the ECU, no reply
\* is on its way.
Sound ==
  /\ \A i \in 1..Len(ring) : ring[i].kind # "runt"
  /\ ecu.storm => ~ecu.final
  /\ result.kind = "reply" => result.of = asked
  /\ answer.kind # "reply"
  /\ pc = "read" => Reading
  /\ pc # "read" => Replies = {}
  /\ pc \in {"flush", "init"} => (Talking => ecu.storm)
  /\ pc \in {"off", "idle"} => ~Talking /\ (asked > 0 => ~ecu.deaf)

IInv == Typed /\ (Untroubled => Sound)

-----------------------------------------------------------------------------
(* The constants, the ring and the ECU.                                    *)

LEMMA Constants ==
  /\ Timeout \in Nat /\ Timeout >= 1 /\ PendingReadTime \in Nat /\ PendingReadTime >= 1
  /\ MaxPendingTime \in Nat /\ MaxPendingTime >= 1 /\ FlushMax \in Nat /\ FlushMax >= 1
  /\ RingCap \in Nat /\ RingCap >= 1 /\ MaxRequests \in Nat /\ MaxFaults \in Nat
  /\ \A gap \in FirstGaps \cup Gaps : gap \in Nat /\ gap >= 1
  /\ \A k \in Pendings : k \in Nat
  /\ Storms \in BOOLEAN
  BY KLineAssumption DEF KLineAssumption

LEMMA Limits ==
  /\ Limit \in Nat /\ Limit >= 1 /\ Longest \in Nat /\ Limit <= Longest
  /\ pending => Limit >= PendingReadTime
  /\ Limit >= Timeout
  BY Constants DEF Limit, Longest

LEMMA DueTyped ==
  /\ \A gap \in FirstGaps \cup Gaps : gap \in Dues
  /\ 0 \in Dues
  /\ \A d \in Dues : d \in Nat /\ (d > 0 => d - 1 \in Dues)
<1>1. \A gap \in FirstGaps \cup Gaps : gap \in Nat
  BY Constants
<1>2. ASSUME NEW gap \in FirstGaps \cup Gaps
      PROVE  gap \in Dues /\ 0 \in Dues
  <2>1. gap \in 0..gap /\ 0 \in 0..gap
    BY <1>1
  <2> QED BY <2>1 DEF Dues
<1>3. ASSUME NEW d \in Dues
      PROVE  d \in Nat /\ (d > 0 => d - 1 \in Dues)
  <2>1. PICK gap \in FirstGaps \cup Gaps : d \in 0..gap
    BY DEF Dues
  <2>2. d \in Nat /\ (d > 0 => d - 1 \in 0..gap)
    BY <1>1, <2>1
  <2> QED BY <2>2 DEF Dues
<1>4. \E gap : gap \in FirstGaps \cup Gaps
  BY KLineAssumption DEF KLineAssumption
<1> QED BY <1>2, <1>3, <1>4

Ecus == [of : 0..MaxRequests, left : Nat, storm : BOOLEAN, final : BOOLEAN,
         due : Dues, deaf : BOOLEAN]

LEMMA QuietTyped ==
  ASSUME NEW deaf \in BOOLEAN
  PROVE  /\ Quiet(deaf) \in Ecus
         /\ Quiet(deaf).left = 0 /\ ~Quiet(deaf).storm /\ ~Quiet(deaf).final
         /\ Quiet(deaf).deaf = deaf
  BY Constants, DueTyped DEF Quiet, Ecus

\* The ring gets one frame more, or is full.
LEMMA ReceiveTyped ==
  ASSUME TypeOK, NEW n \in 1..MaxRequests, NEW kind \in {"pending", "reply", "runt", "echo"},
         Receive(kind, n)
  PROVE  /\ ring' \in Seq(Frame) /\ Len(ring') <= RingCap
         /\ \/ ring' = ring /\ ring # << >>
            \/ /\ Len(ring') = Len(ring) + 1 /\ Len(ring) \in Nat
               /\ ring'[Len(ring')] = [kind |-> kind, of |-> n]
               /\ \A i \in 1..Len(ring) : ring'[i] = ring[i]
<1>1. ring \in Seq(Frame) /\ Len(ring) \in Nat /\ Len(ring) <= RingCap
  BY LenProperties DEF TypeOK
<1>2. PICK x \in Frame : x = [kind |-> kind, of |-> n]
  BY DEF Frame
<1>3. CASE Len(ring) < RingCap
  <2>1. ring' = Append(ring, x)
    BY <1>2, <1>3 DEF Receive
  <2>2. /\ ring' \in Seq(Frame) /\ Len(ring') = Len(ring) + 1
        /\ ring'[Len(ring')] = x
        /\ \A i \in 1..Len(ring) : ring'[i] = ring[i]
    BY <1>1, <2>1, AppendProperties
  <2> QED BY <1>1, <1>2, <1>3, <2>2, Constants
<1>4. CASE ~(Len(ring) < RingCap)
  <2>1. ring' = ring
    BY <1>4 DEF Receive
  <2>2. ring # << >>
    BY <1>1, <1>4, Constants, EmptySeq
  <2> QED BY <1>1, <2>1, <2>2
<1> QED BY <1>3, <1>4

\* A frame leaves the ring.
LEMMA RingTaken ==
  ASSUME TypeOK, ring # << >>
  PROVE  /\ Tail(ring) \in Seq(Frame) /\ Len(Tail(ring)) = Len(ring) - 1
         /\ Len(ring) \in Nat /\ Len(ring) >= 1 /\ Len(ring) <= RingCap
         /\ Head(ring) = ring[1] /\ ring[1] \in Frame
         /\ \A i \in 1..Len(Tail(ring)) : i + 1 \in 1..Len(ring) /\ Tail(ring)[i] = ring[i + 1]
<1>1. ring \in Seq(Frame) /\ Len(ring) <= RingCap
  BY DEF TypeOK
<1>2. Len(ring) \in Nat /\ Len(ring) >= 1
  BY <1>1, EmptySeq, LenProperties
<1>3. /\ Tail(ring) \in Seq(Frame) /\ Len(Tail(ring)) = Len(ring) - 1
      /\ \A i \in 1..Len(Tail(ring)) : Tail(ring)[i] = ring[i + 1]
  BY <1>1, HeadTailProperties
<1>4. Head(ring) = ring[1] /\ ring[1] \in Frame
  BY <1>1, <1>2, ElementOfSeq
<1> QED BY <1>1, <1>2, <1>3, <1>4

LEMMA RingFrames ==
  ASSUME TypeOK
  PROVE  /\ Len(ring) \in Nat /\ (ring = << >> <=> Len(ring) = 0)
         /\ \A i \in 1..Len(ring) : ring[i] \in Frame
<1>1. ring \in Seq(Frame)
  BY DEF TypeOK
<1> QED BY <1>1, ElementOfSeq, EmptySeq, LenProperties

-----------------------------------------------------------------------------
(* Types.                                                                  *)

LEMMA FaultTyped ==
  ASSUME TypeOK, Fault \/ UNCHANGED nfaults
  PROVE  nfaults' \in 0..MaxFaults
  BY Constants DEF TypeOK, Fault

\* A request reaches the ECU.
LEMMA HearTyped ==
  ASSUME Typed, NEW n \in 1..MaxRequests, Hear(n)
  PROVE  ecu' \in Ecus /\ (Talking' => ecu'.of \in 1..MaxRequests)
<1>1. ecu \in Ecus
  BY DEF Typed, TypeOK, Ecus
<1>2. CASE ecu' = ecu
  BY <1>1, <1>2 DEF Typed, Talking
<1>3. CASE \E sulks \in BOOLEAN : ecu' = Quiet(sulks)
  BY <1>3, QuietTyped DEF Talking
<1>4. CASE \E k \in Pendings, storm \in {FALSE, Storms}, final \in BOOLEAN, gap \in FirstGaps :
             ecu' = [of |-> n, left |-> k, storm |-> storm, final |-> final /\ ~storm,
                     due |-> gap, deaf |-> FALSE]
  <2>1. PICK k \in Pendings, storm \in {FALSE, Storms}, final \in BOOLEAN, gap \in FirstGaps :
          ecu' = [of |-> n, left |-> k, storm |-> storm, final |-> final /\ ~storm,
                  due |-> gap, deaf |-> FALSE]
    BY <1>4
  <2>2. k \in Nat /\ gap \in Dues /\ n \in 0..MaxRequests
    BY Constants, DueTyped
  <2>3. storm \in BOOLEAN /\ (final /\ ~storm) \in BOOLEAN
    BY Constants, Zenon
  <2>4. ecu' \in Ecus
    BY <2>1, <2>2, <2>3 DEF Ecus
  <2> QED BY <2>1, <2>4
<1>5. CASE ~ecu.deaf /\ ~Talking
  <2>1. PICK k \in Pendings, storm \in {FALSE, Storms}, final \in BOOLEAN, gap \in FirstGaps,
             sulks \in BOOLEAN :
          ecu' = IF k = 0 /\ ~storm /\ ~final THEN Quiet(sulks)
                 ELSE [of |-> n, left |-> k, storm |-> storm, final |-> final /\ ~storm,
                       due |-> gap, deaf |-> FALSE]
    BY <1>2, <1>5 DEF Hear
  <2>2. CASE k = 0 /\ ~storm /\ ~final
    BY <2>1, <2>2, <1>3
  <2>3. CASE ~(k = 0 /\ ~storm /\ ~final)
    BY <2>1, <2>3, <1>4
  <2> QED BY <2>2, <2>3
<1> QED BY <1>2, <1>5 DEF Hear

\* TypeOK in parts, by the actions that disturb them.
Clocks ==
  /\ pc \in {"off", "idle", "read", "flush", "init"}
  /\ asked \in 0..MaxRequests /\ elapsed \in 0..MaxPendingTime /\ pending \in BOOLEAN
  /\ waited \in 0..Longest /\ (pc = "read" => waited <= Limit) /\ flushed \in 0..FlushMax
Results ==
  answer \in Outcome /\ (answer = Nothing <=> pc \notin {"flush", "init"}) /\ result \in Outcome
RingOK == ring \in Seq(Frame) /\ Len(ring) <= RingCap
EcuOK  == ecu \in Ecus /\ (Talking => ecu.of \in 1..MaxRequests)

LEMMA Parts ==
  Typed <=> Clocks /\ Results /\ RingOK /\ EcuOK /\ nfaults \in 0..MaxFaults
  BY DEF Typed, TypeOK, Clocks, Results, RingOK, EcuOK, Ecus

LEMMA PartsNext ==
  ASSUME Clocks', Results', RingOK', EcuOK', nfaults' \in 0..MaxFaults
  PROVE  Typed'
  BY DEF Typed, TypeOK, Clocks, Results, RingOK, EcuOK, Ecus

\* The ring loses a frame, or keeps what it has.
LEMMA RingKept ==
  ASSUME TypeOK, UNCHANGED ring \/ (ring # << >> /\ ring' = Tail(ring))
  PROVE  RingOK'
<1>1. CASE UNCHANGED ring
  BY <1>1 DEF RingOK, TypeOK
<1>2. CASE ring # << >> /\ ring' = Tail(ring)
  <2>1. Tail(ring) \in Seq(Frame) /\ Len(Tail(ring)) = Len(ring) - 1
    BY <1>2, RingTaken
  <2>2. Len(ring) \in Nat /\ Len(ring) <= RingCap /\ RingCap \in Nat
    BY <1>2, RingTaken, Constants
  <2>3. \A n, m \in Nat : n <= m => n - 1 <= m
    OBVIOUS
  <2>4. Len(Tail(ring)) <= RingCap
    BY <2>1, <2>2, <2>3
  <2> QED BY <1>2, <2>1, <2>4 DEF RingOK
<1> QED BY <1>1, <1>2

LEMMA EcuKept ==
  ASSUME EcuOK, UNCHANGED ecu
  PROVE  EcuOK'
  BY DEF EcuOK, Talking

LEMMA EcuQuiet ==
  ASSUME NEW deaf \in BOOLEAN, ecu' = Quiet(deaf)
  PROVE  EcuOK' /\ ~Talking'
  BY QuietTyped DEF EcuOK, Talking

LEMMA Ended ==
  ASSUME asked \in 0..MaxRequests
  PROVE  /\ \A kind \in {"pending", "timeout", "error"} :
              [kind |-> kind, of |-> asked] \in Outcome
         /\ \A kind \in {"pending", "timeout"} : [kind |-> kind, of |-> asked] # Nothing
         /\ Nothing \in Outcome
  BY Constants DEF Outcome, Nothing

\* What a request returns, or will return after its reinit.
LEMMA ReturnTyped ==
  ASSUME NEW r \in Outcome, Return(r)
  PROVE  Results'
<1>1. Nothing \in Outcome
  BY Constants DEF Outcome, Nothing
<1> QED BY <1>1 DEF Return, Results

LEMMA ReinitTyped ==
  ASSUME Results, NEW r \in Outcome, r # Nothing, Reinit(r)
  PROVE  Results'
  BY DEF Reinit, Results

LEMMA SpeakTyped ==
  ASSUME Typed, Speak
  PROVE  Typed'
<1>1. ecu \in Ecus /\ TypeOK /\ ecu.of \in 1..MaxRequests
  BY DEF Typed, TypeOK, Ecus, Speak
<1>2. RingOK'
  <2>1. \/ Receive("pending", ecu.of) \/ Receive("reply", ecu.of) \/ Receive("runt", ecu.of)
    BY DEF Speak
  <2> QED BY <1>1, <2>1, ReceiveTyped DEF RingOK
<1>3. EcuOK'
  <2>1. CASE \E deaf \in BOOLEAN : ecu' = Quiet(deaf)
    BY <2>1, EcuQuiet
  <2>2. CASE \E gap \in Gaps :
               ecu' = [ecu EXCEPT !.left = IF @ > 0 THEN @ - 1 ELSE 0, !.due = gap]
    <3>1. PICK gap \in Gaps :
            ecu' = [ecu EXCEPT !.left = IF @ > 0 THEN @ - 1 ELSE 0, !.due = gap]
      BY <2>2
    <3>2. (IF ecu.left > 0 THEN ecu.left - 1 ELSE 0) \in Nat /\ gap \in Dues
      BY <1>1, DueTyped DEF Ecus
    <3> QED BY <1>1, <3>1, <3>2 DEF Ecus, EcuOK
  <2> QED BY <2>1, <2>2 DEF Speak
<1>4. nfaults' \in 0..MaxFaults
  BY <1>1, FaultTyped DEF Speak
<1>5. Clocks' /\ Results'
  BY Parts DEF Speak, hostVars, Clocks, Results, Limit
<1> QED BY <1>2, <1>3, <1>4, <1>5, PartsNext

LEMMA RequestTyped ==
  ASSUME Typed, Request
  PROVE  Typed'
<1>0. TypeOK /\ Clocks /\ Results /\ RingOK /\ EcuOK /\ nfaults \in 0..MaxFaults
  BY Parts DEF Typed
<1>1. asked' = asked + 1 /\ asked' \in 1..MaxRequests /\ asked' \in 0..MaxRequests
  BY <1>0, Constants DEF Request, Clocks
<1>2. EcuOK'
  <2>1. CASE Hear(asked')
    BY <1>1, <2>1, HearTyped DEF EcuOK
  <2>2. CASE UNCHANGED ecu
    BY <1>0, <2>2, EcuKept
  <2> QED BY <2>1, <2>2 DEF Request
<1>3. RingOK'
  <2>1. CASE Receive("echo", asked')
    BY <1>0, <1>1, <2>1, ReceiveTyped DEF RingOK
  <2>2. CASE UNCHANGED ring
    BY <1>0, <2>2, RingKept
  <2> QED BY <2>1, <2>2 DEF Request
<1>4. Results'
  <2>1. CASE pc' = "read" /\ result' = Nothing /\ UNCHANGED answer
    <3>1. Nothing \in Outcome /\ answer = Nothing
      BY <1>0, Constants DEF Outcome, Nothing, Results, Request
    <3> QED BY <2>1, <3>1 DEF Results
  <2>2. CASE Return([kind |-> "error", of |-> asked'])
    <3>1. [kind |-> "error", of |-> asked'] \in Outcome
      BY <1>1 DEF Outcome
    <3> QED BY <2>2, <3>1, ReturnTyped
  <2> QED BY <2>1, <2>2 DEF Request
<1>5. Clocks'
  <2>1. /\ pc' \in {"idle", "read"} /\ waited' = 0 /\ elapsed' = 0 /\ pending' = FALSE
        /\ flushed' = flushed
    BY DEF Request, Return
  <2>2. 0 \in 0..Longest /\ 0 \in 0..MaxPendingTime /\ (0 <= Limit)'
    BY <2>1, Limits, Constants DEF Limit
  <2> QED BY <1>0, <1>1, <2>1, <2>2 DEF Clocks
<1>6. nfaults' \in 0..MaxFaults
  BY <1>0, FaultTyped DEF Request
<1> QED BY <1>2, <1>3, <1>4, <1>5, <1>6, PartsNext

LEMMA TakeFrameTyped ==
  ASSUME Typed, TakeFrame
  PROVE  Typed'
<1>0. TypeOK /\ Clocks /\ Results /\ RingOK /\ EcuOK /\ nfaults \in 0..MaxFaults
  BY Parts DEF Typed
<1>1. RingOK' /\ EcuOK' /\ nfaults' \in 0..MaxFaults
  BY <1>0, RingKept, EcuKept DEF TakeFrame
<1>2. PICK frame \in Frame : frame = Head(ring)
  BY <1>0, RingTaken DEF TakeFrame
<1>3. asked \in 0..MaxRequests /\ asked' = asked /\ elapsed' = elapsed
  BY <1>0 DEF Clocks, TakeFrame
<1>4. CASE frame.kind = "echo" /\ UNCHANGED <<pc, waited, pending, flushed, answer, result>>
  <2>1. Clocks' /\ Results'
    BY <1>0, <1>3, <1>4 DEF Clocks, Results, Limit
  <2> QED BY <1>1, <2>1, PartsNext
<1>5. CASE /\ \E r \in Outcome : Return(r)
           /\ UNCHANGED <<waited, pending, flushed>>
  <2>1. Results' /\ pc' = "idle"
    BY <1>5, ReturnTyped DEF Return
  <2>2. Clocks'
    BY <1>0, <1>3, <1>5, <2>1 DEF Clocks
  <2> QED BY <1>1, <2>1, <2>2, PartsNext
<1>6. CASE pending' = TRUE /\ waited' = 0 /\ UNCHANGED <<pc, flushed, answer, result>>
  <2>1. 0 \in 0..Longest /\ (0 <= Limit)'
    BY <1>6, Limits, Constants DEF Limit
  <2>2. Clocks' /\ Results'
    BY <1>0, <1>3, <1>6, <2>1 DEF Clocks, Results
  <2> QED BY <1>1, <2>2, PartsNext
<1>7. CASE frame.kind = "pending" /\ Reinit(frame) /\ UNCHANGED <<waited, pending>>
  <2>1. frame \in Outcome /\ frame # Nothing
    BY <1>7, Constants DEF Frame, Outcome, Nothing
  <2>2. Results'
    BY <1>0, <1>7, <2>1, ReinitTyped
  <2>3. pc' = "flush" /\ flushed' = 0 /\ 0 \in 0..FlushMax
    BY <1>7, Constants DEF Reinit
  <2>4. Clocks'
    BY <1>0, <1>3, <1>7, <2>3 DEF Clocks
  <2> QED BY <1>1, <2>2, <2>4, PartsNext
<1>8. [kind |-> "error", of |-> asked] \in Outcome
  BY <1>3, Ended
<1>9. frame.kind = "reply" => frame \in Outcome
  BY Constants DEF Frame, Outcome
<1> QED BY <1>2, <1>4, <1>5, <1>6, <1>7, <1>8, <1>9 DEF TakeFrame

LEMMA GiveUpTyped ==
  ASSUME Typed, ReadTimesOut \/ ReadFails
  PROVE  Typed'
<1>0. TypeOK /\ Clocks /\ Results /\ RingOK /\ EcuOK /\ nfaults \in 0..MaxFaults
  BY Parts DEF Typed
<1>1. RingOK' /\ EcuOK'
  BY <1>0, RingKept, EcuKept DEF ReadTimesOut, ReadFails
<1>2. nfaults' \in 0..MaxFaults
  BY <1>0, FaultTyped DEF ReadTimesOut, ReadFails
<1>3. UNCHANGED <<asked, waited, elapsed, pending>> /\ asked \in 0..MaxRequests
  BY <1>0 DEF ReadTimesOut, ReadFails, Clocks
<1>4. CASE ReadTimesOut
  <2>1. PICK r \in Outcome : r # Nothing /\ Reinit(r)
    BY <1>3, <1>4, Ended DEF ReadTimesOut, WentQuiet
  <2>2. Results'
    BY <1>0, <2>1, ReinitTyped
  <2>3. pc' = "flush" /\ flushed' = 0 /\ 0 \in 0..FlushMax
    BY <2>1, Constants DEF Reinit
  <2>4. Clocks'
    BY <1>0, <1>3, <2>3 DEF Clocks
  <2> QED BY <1>1, <1>2, <2>2, <2>4, PartsNext
<1>5. CASE ReadFails
  <2>1. [kind |-> "error", of |-> asked] \in Outcome
    BY <1>3, Ended
  <2>2. Results' /\ pc' = "idle" /\ flushed' = flushed
    BY <1>5, <2>1, ReturnTyped DEF ReadFails, Return
  <2>3. Clocks'
    BY <1>0, <1>3, <2>2 DEF Clocks
  <2> QED BY <1>1, <1>2, <2>2, <2>3, PartsNext
<1> QED BY <1>4, <1>5

LEMMA ReinitStepTyped ==
  ASSUME Typed, Connect \/ Flush \/ Init81 \/ FastInit
  PROVE  Typed'
<1>0. TypeOK /\ Clocks /\ Results /\ RingOK /\ EcuOK /\ nfaults \in 0..MaxFaults
  BY Parts DEF Typed
<1>1. nfaults' \in 0..MaxFaults
  BY <1>0, FaultTyped DEF Connect, Flush, Init81, FastInit
<1>2. RingOK'
  BY <1>0, RingKept DEF Connect, Flush, Init81, FastInit
<1>3. EcuOK'
  <2>1. CASE UNCHANGED ecu
    BY <1>0, <2>1, EcuKept
  <2>2. CASE ecu' = Quiet(FALSE)
    BY <2>2, EcuQuiet
  <2> QED BY <2>1, <2>2 DEF Connect, Flush, Init81, FastInit
<1>4. CASE Connect
  BY <1>0, <1>1, <1>2, <1>3, <1>4, PartsNext DEF Connect, Clocks, Results, Limit
<1>5. CASE Flush
  <2>1. flushed' \in 0..FlushMax
    BY <1>0, <1>5, Constants DEF Flush, Clocks
  <2>2. pc' \in {"flush", "init"} /\ UNCHANGED <<asked, waited, elapsed, pending, answer, result>>
    BY <1>5 DEF Flush
  <2>3. Clocks' /\ Results'
    BY <1>0, <1>5, <2>1, <2>2 DEF Clocks, Results, Flush
  <2> QED BY <1>1, <1>2, <1>3, <2>3, PartsNext
<1>6. CASE Init81
  <2>1. Results' /\ pc' = "idle"
    BY <1>0, <1>6, ReturnTyped DEF Init81, Return, Results
  <2>2. Clocks'
    BY <1>0, <1>6, <2>1 DEF Init81, Clocks
  <2> QED BY <1>1, <1>2, <1>3, <2>1, <2>2, PartsNext
<1>7. CASE FastInit
  <2>1. Clocks' /\ Results'
    BY <1>0, <1>7 DEF FastInit, hostVars, Clocks, Results, Limit
  <2> QED BY <1>1, <1>2, <1>3, <2>1, PartsNext
<1> QED BY <1>4, <1>5, <1>6, <1>7

LEMMA TickTyped ==
  ASSUME Typed, Tick
  PROVE  Typed'
<1>0. TypeOK /\ Clocks /\ Results /\ RingOK /\ EcuOK /\ nfaults \in 0..MaxFaults
  BY Parts DEF Typed
<1>1. EcuOK'
  <2>1. CASE Talking
    <3>1. ecu.due > 0 /\ ecu' = [ecu EXCEPT !.due = @ - 1]
      BY <2>1 DEF Tick
    <3>2. ecu.due \in Dues
      BY <1>0 DEF EcuOK, Ecus
    <3>3. ecu.due - 1 \in Dues
      BY <3>1, <3>2, DueTyped
    <3> QED BY <1>0, <2>1, <3>1, <3>3 DEF EcuOK, Ecus, Talking
  <2>2. CASE ~Talking
    BY <1>0, <2>2, EcuKept DEF Tick
  <2> QED BY <2>1, <2>2
<1>2. waited' \in 0..Longest /\ (pc = "read" => waited' <= Limit)
  BY <1>0, Limits DEF Tick, Clocks
<1>3. elapsed' \in 0..MaxPendingTime
  BY <1>0, Constants DEF Tick, Clocks
<1>4. UNCHANGED <<pc, asked, pending, flushed, answer, result, ring, nfaults>>
  BY DEF Tick
<1>5. Clocks' /\ Results' /\ RingOK'
  BY <1>0, <1>2, <1>3, <1>4 DEF Clocks, Results, RingOK, Limit
<1> QED BY <1>0, <1>1, <1>4, <1>5, PartsNext

LEMMA StepTyped ==
  ASSUME Typed, [Next]_vars
  PROVE  Typed'
<1>1. CASE UNCHANGED vars
  BY <1>1 DEF vars, hostVars, Typed, TypeOK, Limit, Talking
<1> QED BY <1>1, SpeakTyped, RequestTyped, TakeFrameTyped, GiveUpTyped, ReinitStepTyped,
           TickTyped DEF Next, Host

-----------------------------------------------------------------------------
(* The times of the ECU against those of the caller.                       *)

LEMMA Products ==
  ASSUME NEW n \in Nat, NEW g \in Nat
  PROVE  n * g \in Nat
  OBVIOUS

\* An answer that stays in patience at every gap still does after one of them.
LEMMA OneGapLess ==
  ASSUME NEW e \in Nat, NEW p \in Nat, NEW gap \in Nat, NEW g \in Nat, NEW m \in Nat,
         e + (p + 1) * gap < m, e + (p + 1) * g < m
  PROVE  e + gap + p * g < m
<1>1. (p + 1) * gap = p * gap + gap /\ (p + 1) * g = p * g + g
  OBVIOUS
<1>2. CASE gap <= g
  BY <1>1, <1>2, Products
<1>3. CASE g < gap
  <2>1. PICK d \in Nat : gap = g + d
    <3>1. gap - g \in Nat /\ gap = g + (gap - g)
      BY <1>3
    <3> QED BY <3>1
  <2>2. p * gap = p * g + p * d /\ p * d \in Nat
    BY <2>1, Products
  <2>3. p * g <= p * gap
    BY <2>2, Products
  <2> QED BY <1>1, <2>3, Products
<1> QED BY <1>2, <1>3

\* What the proofs of Sound use of the types.
Known ==
  /\ waited \in Nat /\ elapsed \in Nat /\ asked \in Nat /\ Len(ring) \in Nat
  /\ ecu.due \in Nat /\ ecu.left \in Nat /\ ecu.storm \in BOOLEAN /\ ecu.final \in BOOLEAN
  /\ ecu \in Ecus
  /\ ring = << >> <=> Len(ring) = 0
  /\ \A i \in 1..Len(ring) : ring[i] \in Frame

LEMMA Facts ==
  ASSUME Typed
  PROVE  Known
<1>1. TypeOK /\ ecu \in Ecus
  BY DEF Typed, TypeOK, Ecus
<1>2. waited \in Nat /\ elapsed \in Nat /\ asked \in Nat
  BY <1>1, Constants, Limits DEF TypeOK
<1>3. /\ ecu.due \in Nat /\ ecu.left \in Nat /\ ecu.storm \in BOOLEAN /\ ecu.final \in BOOLEAN
  BY <1>1, DueTyped DEF Ecus
<1> QED BY <1>1, <1>2, <1>3, RingFrames DEF Known

\* An ECU that has stayed in patience has not been at it for too long.
LEMMA StillPatient ==
  ASSUME Known, InPatience
  PROVE  ~TooLong
<1>1. PICK gap \in Gaps : gap \in Nat
  BY KLineAssumption, Constants DEF KLineAssumption
<1>2. elapsed + ecu.due + ecu.left * gap < MaxPendingTime
  BY <1>1 DEF InPatience
<1>3. ecu.left * gap \in Nat /\ elapsed \in Nat /\ ecu.due \in Nat /\ MaxPendingTime \in Nat
  BY <1>1, Products, Constants DEF Known
<1> QED BY <1>2, <1>3 DEF TooLong

\* A frame taken from the ring leaves no reply there, and the last one where it was.
LEMMA TakenSound ==
  ASSUME Typed, Sound, ring # << >>, ring' = Tail(ring)
  PROVE  /\ Replies' = {}
         /\ \A i \in 1..Len(ring') : ring'[i].kind # "runt"
         /\ ring' # << >> => ring'[Len(ring')] = ring[Len(ring)]
<1>1. /\ Len(ring') = Len(ring) - 1 /\ Len(ring) \in Nat /\ Len(ring) >= 1
      /\ \A i \in 1..Len(ring') : i + 1 \in 1..Len(ring) /\ ring'[i] = ring[i + 1]
  BY RingTaken DEF Typed
<1>2. \A i \in 1..Len(ring') : ring'[i].kind # "runt"
  BY <1>1 DEF Sound
<1>3. ASSUME NEW i \in 1..Len(ring'), ring'[i].kind = "reply"
      PROVE  FALSE
  <2>1. i + 1 \in Replies /\ Len(ring) >= 2
    BY <1>1, <1>3 DEF Replies
  <2> QED BY <2>1 DEF Sound, Reading
<1>4. ASSUME ring' # << >>
      PROVE  ring'[Len(ring')] = ring[Len(ring)]
  <2>1. Tail(ring) \in Seq(Frame)
    BY RingTaken DEF Typed
  <2>2. Len(ring') # 0
    BY <1>4, <2>1, EmptySeq
  <2>3. Len(ring') \in 1..Len(ring') /\ Len(ring') + 1 = Len(ring)
    BY <1>1, <2>2
  <2> QED BY <1>1, <2>3
<1> QED BY <1>2, <1>3, <1>4 DEF Replies

LEMMA ConnectSound ==
  ASSUME Typed, Sound, Connect, ~Fault
  PROVE  Sound'
<1>1. /\ pc = "off" /\ pc' = "idle"
      /\ UNCHANGED <<asked, waited, elapsed, pending, flushed, answer, result, ring, ecu>>
  BY DEF Connect
<1> QED BY <1>1 DEF Sound, Replies, Talking

LEMMA RequestSound ==
  ASSUME Typed, Sound, Punctual, Request, ~Fault
  PROVE  Sound'
<1>0. Known
  BY Facts
<1>1. /\ pc = "idle" /\ pc' = "read" /\ Hear(asked') /\ result' = Nothing /\ answer' = answer
      /\ waited' = 0 /\ elapsed' = 0 /\ pending' = FALSE /\ asked' = asked + 1
      /\ Receive("echo", asked') \/ UNCHANGED ring
  BY DEF Request
<1>2. Replies = {} /\ ~Talking
  BY <1>1 DEF Sound
<1>3. asked' \in 1..MaxRequests
  BY <1>0, <1>1, Constants DEF Request, Typed, TypeOK
<1>4. \A i \in 1..Len(ring') : ring'[i].kind \notin {"runt", "reply"}
  <2>1. CASE UNCHANGED ring
    BY <1>2, <2>1 DEF Sound, Replies
  <2>2. CASE Receive("echo", asked')
    <3>1. \/ ring' = ring
          \/ /\ Len(ring') = Len(ring) + 1 /\ Len(ring) \in Nat
             /\ ring'[Len(ring')] = [kind |-> "echo", of |-> asked']
             /\ \A i \in 1..Len(ring) : ring'[i] = ring[i]
      BY <1>3, <2>2, ReceiveTyped DEF Typed
    <3>2. ASSUME NEW i \in 1..Len(ring')
          PROVE  ring'[i].kind = "echo" \/ (i \in 1..Len(ring) /\ ring'[i] = ring[i])
      BY <3>1
    <3> QED BY <1>2, <3>2 DEF Sound, Replies
  <2> QED BY <1>1, <2>1, <2>2
<1>5. Replies' = {}
  BY <1>4 DEF Replies
<1>6. /\ ecu'.storm => ~ecu'.final
      /\ Talking' => /\ ecu'.of = asked' /\ ecu'.due # 0 /\ OnTime'
                     /\ ecu'.storm \/ InPatience'
  <2>1. CASE ecu' = ecu
    BY <1>2, <2>1 DEF Sound, Talking
  <2>2. CASE \E sulks \in BOOLEAN : ecu' = Quiet(sulks)
    BY <2>2, QuietTyped DEF Talking
  <2>3. CASE \E k \in Pendings, storm \in {FALSE, Storms}, final \in BOOLEAN, gap \in FirstGaps :
               ecu' = [of |-> asked', left |-> k, storm |-> storm, final |-> final /\ ~storm,
                       due |-> gap, deaf |-> FALSE]
    <3>1. PICK k \in Pendings, storm \in {FALSE, Storms}, final \in BOOLEAN, gap \in FirstGaps :
            ecu' = [of |-> asked', left |-> k, storm |-> storm, final |-> final /\ ~storm,
                    due |-> gap, deaf |-> FALSE]
      BY <2>3
    <3>2. ecu'.storm => ~ecu'.final
      BY <3>1
    <3>3. gap \in Nat /\ gap >= 1 /\ gap < Timeout /\ ecu'.due = gap /\ ecu'.left = k
      BY <3>1, Constants DEF Punctual
    <3>4. OnTime'
      <4>1. Limit' = Timeout
        BY <1>1 DEF Limit
      <4> QED BY <1>1, <3>3, <4>1 DEF OnTime
    <3>5. InPatience'
      <4>1. ASSUME NEW g \in Gaps
            PROVE  0 + gap + k * g < MaxPendingTime
        <5>1. gap + k * g < MaxPendingTime
          BY DEF Punctual
        <5> QED BY <3>3, <5>1
      <4> QED BY <1>1, <3>3, <4>1 DEF InPatience
    <3> QED BY <3>1, <3>2, <3>3, <3>4, <3>5
  <2>4. CASE ~ecu.deaf /\ ~Talking /\ ecu' # ecu
    <3>1. PICK k \in Pendings, storm \in {FALSE, Storms}, final \in BOOLEAN, gap \in FirstGaps,
               sulks \in BOOLEAN :
            ecu' = IF k = 0 /\ ~storm /\ ~final THEN Quiet(sulks)
                   ELSE [of |-> asked', left |-> k, storm |-> storm, final |-> final /\ ~storm,
                         due |-> gap, deaf |-> FALSE]
      BY <1>1, <2>4 DEF Hear
    <3>2. CASE k = 0 /\ ~storm /\ ~final
      BY <3>1, <3>2, <2>2
    <3>3. CASE ~(k = 0 /\ ~storm /\ ~final)
      BY <3>1, <3>3, <2>3
    <3> QED BY <3>2, <3>3
  <2> QED BY <1>1, <2>1, <2>4 DEF Hear
<1>7. Reading'
  BY <1>5, <1>6 DEF Reading
<1> QED BY <1>1, <1>4, <1>5, <1>6, <1>7 DEF Sound, Nothing

\* A frame of the ECU that is due while a request reads finds the ring empty.
LEMMA SpeakSound ==
  ASSUME Typed, Sound, Punctual, Speak, ~Fault
  PROVE  Sound'
<1>0. Known /\ TypeOK /\ ecu.of \in 1..MaxRequests
  BY Facts DEF Speak, Typed
<1>1. Talking /\ ecu.due = 0 /\ UNCHANGED hostVars
  BY DEF Speak
<1>2. pc \notin {"off", "idle"} /\ (pc \in {"flush", "init"} => ecu.storm)
  BY <1>1 DEF Sound
<1>3. pc = "read" => /\ ring = << >> /\ ecu.of = asked /\ waited < Limit
                     /\ ecu.storm \/ InPatience
  BY <1>0, <1>1, Limits DEF Sound, Reading, OnTime, Known
<1>4. ASSUME NEW kind \in {"pending", "reply", "runt", "echo"}, Receive(kind, ecu.of)
      PROVE  /\ \A i \in 1..Len(ring') : ring'[i].kind = kind \/ (i \in 1..Len(ring) /\ ring'[i] = ring[i])
             /\ pc = "read" => /\ Len(ring') = 1 /\ ring' # << >>
                               /\ ring'[1] = [kind |-> kind, of |-> ecu.of]
  <2>1. \/ ring' = ring /\ ring # << >>
        \/ /\ Len(ring') = Len(ring) + 1 /\ Len(ring) \in Nat
           /\ ring'[Len(ring')] = [kind |-> kind, of |-> ecu.of]
           /\ \A i \in 1..Len(ring) : ring'[i] = ring[i]
    BY <1>0, <1>4, ReceiveTyped
  <2>2. ring' \in Seq(Frame)
    BY <1>0, <1>4, ReceiveTyped
  <2>3. ASSUME pc = "read"
        PROVE  Len(ring') = 1 /\ ring'[1] = [kind |-> kind, of |-> ecu.of]
    <3>1. ring = << >> /\ Len(ring) = 0
      BY <1>3, <2>3, EmptySeq
    <3>2. Len(ring') = 1
      BY <2>1, <3>1
    <3> QED BY <2>1, <3>1, <3>2
  <2>4. pc = "read" => ring' # << >>
    BY <2>2, <2>3, EmptySeq
  <2>5. \A i \in 1..Len(ring') : ring'[i].kind = kind \/ (i \in 1..Len(ring) /\ ring'[i] = ring[i])
    BY <2>1
  <2> QED BY <2>3, <2>4, <2>5
<1>5. CASE /\ ecu.left > 0 \/ ecu.storm
           /\ Receive("pending", ecu.of)
           /\ \E gap \in Gaps :
                ecu' = IF ecu.left > 1 \/ ecu.storm \/ ecu.final
                       THEN [ecu EXCEPT !.left = IF @ > 0 THEN @ - 1 ELSE 0, !.due = gap]
                       ELSE Quiet(TRUE)
  <2>1. /\ \A i \in 1..Len(ring') : ring'[i].kind # "runt"
        /\ Replies' \subseteq Replies
    BY <1>4, <1>5 DEF Sound, Replies
  <2>2. Replies' = {}
    BY <1>0, <1>2, <1>3, <2>1 DEF Sound, Replies, Known
  <2>3. PICK gap \in Gaps :
          ecu' = IF ecu.left > 1 \/ ecu.storm \/ ecu.final
                 THEN [ecu EXCEPT !.left = IF @ > 0 THEN @ - 1 ELSE 0, !.due = gap]
                 ELSE Quiet(TRUE)
    BY <1>5
  <2>4. gap \in Nat /\ gap >= 1 /\ gap < PendingReadTime
    BY Constants DEF Punctual
  <2>5. CASE ecu.left > 1 \/ ecu.storm \/ ecu.final
    <3>1. /\ ecu'.of = ecu.of /\ ecu'.storm = ecu.storm /\ ecu'.final = ecu.final
          /\ ecu'.due = gap /\ ecu'.left = (IF ecu.left > 0 THEN ecu.left - 1 ELSE 0)
      BY <1>0, <2>3, <2>5 DEF Known, Ecus
    <3>2. ASSUME pc = "read"
          PROVE  ecu'.of = asked /\ ecu'.due # 0 /\ OnTime'
      <4>1. Len(ring') = 1 /\ ring' # << >> /\ ring'[1].kind = "pending"
        BY <1>4, <1>5, <3>2
      <4> QED BY <1>3, <2>4, <3>1, <3>2, <4>1 DEF OnTime
    <3>3. ASSUME pc = "read", ~ecu.storm
          PROVE  InPatience'
      <4>1. PICK p \in Nat : ecu.left = p + 1
        <5>1. ecu.left - 1 \in Nat /\ ecu.left = (ecu.left - 1) + 1
          BY <1>0, <1>5, <3>3 DEF Known
        <5> QED BY <5>1
      <4>2. ecu'.left = p /\ elapsed' = elapsed
        BY <1>1, <3>1, <4>1 DEF hostVars
      <4>3. ASSUME NEW g \in Gaps
            PROVE  elapsed + gap + p * g < MaxPendingTime
        <5>1. g \in Nat /\ elapsed \in Nat /\ ecu.due = 0 /\ MaxPendingTime \in Nat
          BY <1>0, <1>1, Constants DEF Known
        <5>2. /\ elapsed + 0 + (p + 1) * g < MaxPendingTime
              /\ elapsed + 0 + (p + 1) * gap < MaxPendingTime
          BY <1>3, <3>3, <4>1, <5>1 DEF InPatience
        <5>3. (p + 1) * g \in Nat /\ (p + 1) * gap \in Nat
          BY <2>4, <5>1, Products
        <5>4. elapsed + (p + 1) * g < MaxPendingTime /\ elapsed + (p + 1) * gap < MaxPendingTime
          BY <5>1, <5>2, <5>3
        <5> QED BY <2>4, <5>1, <5>4, OneGapLess
      <4> QED BY <3>1, <4>2, <4>3 DEF InPatience
    <3>4. pc' = pc /\ asked' = asked /\ result' = result /\ answer' = answer
      BY <1>1 DEF hostVars
    <3>5. pc = "read" => Reading'
      BY <2>2, <3>1, <3>2, <3>3, <3>4 DEF Reading
    <3> QED BY <1>2, <2>1, <2>2, <3>1, <3>4, <3>5 DEF Sound
  <2>6. CASE ~(ecu.left > 1 \/ ecu.storm \/ ecu.final)
    <3>1. ~Talking' /\ ~ecu'.storm
      BY <2>3, <2>6 DEF Quiet, Talking
    <3>2. pc' = pc /\ asked' = asked /\ result' = result /\ answer' = answer
      BY <1>1 DEF hostVars
    <3>3. Reading'
      BY <2>2, <3>1 DEF Reading
    <3> QED BY <1>2, <2>1, <2>2, <3>1, <3>2, <3>3 DEF Sound
  <2> QED BY <2>5, <2>6
<1>6. CASE ecu.left = 0 /\ ~ecu.storm /\ Receive("reply", ecu.of) /\ ecu' = Quiet(FALSE)
  <2>1. pc = "read" /\ pc' = pc /\ asked' = asked /\ result' = result /\ answer' = answer
    BY <1>0, <1>1, <1>2, <1>6 DEF hostVars, Typed, TypeOK
  <2>2. Len(ring') = 1 /\ ring'[1] = [kind |-> "reply", of |-> asked]
    BY <1>3, <1>4, <1>6, <2>1
  <2>3. ~Talking' /\ ~ecu'.deaf /\ ~ecu'.storm
    BY <1>6 DEF Quiet, Talking
  <2>4. Reading' /\ \A i \in 1..Len(ring') : ring'[i].kind # "runt"
    BY <2>1, <2>2, <2>3 DEF Reading, Replies
  <2> QED BY <2>1, <2>3, <2>4 DEF Sound
<1> QED BY <1>5, <1>6 DEF Speak

LEMMA TakeFrameSound ==
  ASSUME Typed, Sound, Punctual, TakeFrame
  PROVE  Sound'
<1>0. Known /\ TypeOK
  BY Facts DEF Typed
<1>1. /\ pc = "read" /\ ring # << >> /\ ring' = Tail(ring)
      /\ UNCHANGED <<asked, elapsed, ecu, nfaults>>
  BY DEF TakeFrame
<1>2. PICK frame \in Frame : frame = Head(ring) /\ frame = ring[1] /\ Len(ring) >= 1
  BY <1>0, <1>1, RingTaken
<1>3. /\ Replies' = {}
      /\ \A i \in 1..Len(ring') : ring'[i].kind # "runt"
      /\ ring' # << >> => ring'[Len(ring')] = ring[Len(ring)]
  BY <1>1, TakenSound
<1>4. 1 \in 1..Len(ring) /\ frame.kind # "runt" /\ Reading
  BY <1>0, <1>1, <1>2 DEF Sound, Known
<1>5. Talking => /\ ecu.of = asked /\ ecu.due # 0 /\ OnTime
                 /\ ecu.storm \/ InPatience
  BY <1>1, <1>4 DEF Reading
<1>6. (Talking' <=> Talking) /\ (InPatience' <=> InPatience)
  BY <1>1 DEF Talking, InPatience
<1>7. CASE frame.kind = "echo" /\ UNCHANGED <<pc, waited, pending, flushed, answer, result>>
  <2>1. ASSUME OnTime
        PROVE  OnTime'
    <3>1. CASE waited + ecu.due < Limit
      BY <1>1, <1>7, <3>1 DEF OnTime, Limit
    <3>2. CASE ring[Len(ring)].kind = "pending" /\ ecu.due < PendingReadTime
      <4>1. Len(ring) # 1
        BY <1>2, <1>7, <3>2
      <4>2. Len(ring') # 0 /\ ring' \in Seq(Frame)
        BY <1>0, <1>1, <1>2, <4>1, RingTaken
      <4>3. ring' # << >>
        BY <4>2, EmptySeq
      <4> QED BY <1>1, <1>3, <3>2, <4>3 DEF OnTime
    <3> QED BY <2>1, <3>1, <3>2 DEF OnTime
  <2>2. Reading'
    BY <1>1, <1>3, <1>5, <1>6, <2>1 DEF Reading
  <2> QED BY <1>1, <1>3, <1>7, <2>2 DEF Sound
<1>8. CASE frame.kind = "reply" /\ Return(frame)
  <2>1. frame.of = asked /\ ~Talking /\ ~ecu.deaf
    BY <1>2, <1>4, <1>8 DEF Reading, Replies
  <2> QED BY <1>1, <1>3, <1>6, <1>8, <2>1 DEF Sound, Return, Nothing
<1>9. CASE frame.kind = "pending" /\ pending' = TRUE /\ waited' = 0
           /\ UNCHANGED <<pc, flushed, answer, result>>
  <2>1. ASSUME OnTime
        PROVE  OnTime'
    <3>1. Limit' \in Nat /\ Limit' >= PendingReadTime /\ Limit' >= Limit
      BY <1>9, Constants DEF Limit
    <3>2. ecu.due < Limit'
      BY <1>0, <2>1, <3>1, Limits, Constants DEF OnTime, Known
    <3> QED BY <1>0, <1>1, <1>9, <3>2 DEF OnTime, Known
  <2>2. Reading'
    BY <1>1, <1>3, <1>5, <1>6, <2>1 DEF Reading
  <2> QED BY <1>1, <1>3, <1>9, <2>2 DEF Sound
<1>10. CASE frame.kind = "pending" /\ TooLong /\ Reinit(frame)
  <2>1. Talking => ecu.storm
    BY <1>0, <1>5, <1>10, StillPatient
  <2> QED BY <1>1, <1>3, <1>6, <1>10, <2>1 DEF Sound, Reinit
<1> QED BY <1>2, <1>4, <1>7, <1>8, <1>9, <1>10 DEF TakeFrame

LEMMA GiveUpSound ==
  ASSUME Typed, Sound, ReadTimesOut \/ ReadFails, ~Fault
  PROVE  Sound'
<1>0. Known
  BY Facts
<1>1. /\ pc = "read" /\ ring = << >> /\ waited >= Limit /\ WentQuiet
      /\ UNCHANGED <<ring, asked, waited, elapsed, pending, ecu>>
  BY DEF ReadTimesOut, ReadFails
<1>2. ~Talking
  <2>1. ~OnTime
    BY <1>0, <1>1, Limits DEF OnTime, Known
  <2> QED BY <1>1, <2>1 DEF Sound, Reading
<1>3. PICK r : r.kind \in {"pending", "timeout"} /\ Reinit(r)
  <2>1. [kind |-> IF pending THEN "pending" ELSE "timeout", of |-> asked].kind
          \in {"pending", "timeout"}
    OBVIOUS
  <2> QED BY <1>1, <2>1 DEF WentQuiet
<1>4. /\ pc' = "flush" /\ answer' = r /\ result' = result /\ ~Talking'
  BY <1>1, <1>2, <1>3 DEF Reinit, Talking
<1>5. Replies' = {} /\ \A i \in 1..Len(ring') : ring'[i].kind # "runt"
  BY <1>0, <1>1 DEF Replies, Known
<1> QED BY <1>1, <1>3, <1>4, <1>5 DEF Sound

\* The flush and the wake-up of the ECU: nothing but a storm was left of it.
LEMMA ReinitStepSound ==
  ASSUME Typed, Sound, Flush \/ Init81 \/ FastInit, ~Fault
  PROVE  Sound'
<1>1. CASE Flush
  <2>1. /\ pc = "flush" /\ pc' \in {"flush", "init"}
        /\ UNCHANGED <<asked, waited, elapsed, pending, answer, result, ecu>>
        /\ UNCHANGED ring \/ (ring # << >> /\ ring' = Tail(ring))
    BY <1>1 DEF Flush
  <2>2. Replies' = {} /\ \A i \in 1..Len(ring') : ring'[i].kind # "runt"
    <3>1. CASE UNCHANGED ring
      BY <2>1, <3>1 DEF Sound, Replies
    <3>2. CASE ring # << >> /\ ring' = Tail(ring)
      BY <3>2, TakenSound
    <3> QED BY <2>1, <3>1, <3>2
  <2> QED BY <2>1, <2>2 DEF Sound, Talking
<1>2. CASE Init81 \/ FastInit
  <2>1. /\ pc \in {"init", "idle"} /\ pc' = "idle" /\ UNCHANGED <<asked, ring>>
        /\ ecu' = Quiet(FALSE) /\ ((result' = answer /\ answer' = Nothing) \/ UNCHANGED <<result, answer>>)
    BY <1>2 DEF Init81, FastInit, Return, hostVars
  <2>2. ~Talking' /\ ~ecu'.deaf /\ ~ecu'.storm
    BY <2>1 DEF Quiet, Talking
  <2>3. Replies' = {}
    BY <2>1 DEF Sound, Replies
  <2>4. \A i \in 1..Len(ring') : ring'[i].kind # "runt"
    BY <2>1 DEF Sound
  <2>5. /\ result'.kind = "reply" => result'.of = asked'
        /\ answer'.kind # "reply"
    BY <2>1 DEF Sound, Nothing
  <2> QED BY <2>1, <2>2, <2>3, <2>4, <2>5 DEF Sound
<1> QED BY <1>1, <1>2

\* Time brings the next frame as much nearer as the deadlines.
LEMMA TickSound ==
  ASSUME Typed, Sound, Tick
  PROVE  Sound'
<1>0. Known
  BY Facts
<1>1. UNCHANGED <<pc, asked, pending, flushed, answer, result, ring, nfaults>>
  BY DEF Tick
<1>2. /\ ecu'.of = ecu.of /\ ecu'.left = ecu.left /\ ecu'.storm = ecu.storm
      /\ ecu'.final = ecu.final /\ ecu'.deaf = ecu.deaf
      /\ Talking => ecu.due > 0 /\ ecu'.due = ecu.due - 1
  BY <1>0 DEF Tick, Known, Ecus
<1>3. (Talking' <=> Talking) /\ Replies' = Replies
  BY <1>1, <1>2 DEF Talking, Replies
<1>4. ASSUME pc = "read"
      PROVE  Reading'
  <2>1. ring = << >> /\ ring' = ring /\ waited' = waited + 1 /\ Limit' = Limit
    BY <1>1, <1>4 DEF Tick, Limit
  <2>2. Replies' = {}
    BY <1>0, <1>3, <2>1 DEF Replies, Known
  <2>3. ASSUME Talking
        PROVE  OnTime' /\ (ecu.storm \/ InPatience')
    <3>1. OnTime /\ (ecu.storm \/ InPatience)
      BY <1>4, <2>3 DEF Sound, Reading
    <3>2. waited + ecu.due < Limit
      BY <2>1, <3>1 DEF OnTime
    <3>3. OnTime'
      BY <1>0, <1>2, <2>1, <2>3, <3>2, Limits DEF OnTime, Known
    <3>4. ASSUME InPatience
          PROVE  InPatience'
      <4>1. elapsed < MaxPendingTime
        BY <1>0, <3>4, StillPatient, Constants DEF TooLong, Known
      <4>2. elapsed' = elapsed + 1 /\ ecu'.due = ecu.due - 1 /\ ecu'.left = ecu.left
        BY <1>2, <1>4, <2>3, <4>1 DEF Tick
      <4>3. elapsed' + ecu'.due = elapsed + ecu.due
        BY <1>0, <4>2 DEF Known
      <4> QED BY <3>4, <4>2, <4>3 DEF InPatience
    <3> QED BY <3>1, <3>3, <3>4
  <2> QED BY <1>1, <1>2, <1>3, <1>4, <2>1, <2>2, <2>3 DEF Sound, Reading
<1> QED BY <1>1, <1>2, <1>3, <1>4 DEF Sound

-----------------------------------------------------------------------------
(* The theorems.                                                           *)

LEMMA Initially ==
  ASSUME Init
  PROVE  IInv
<1>1. ecu \in Ecus /\ ~Talking /\ ~ecu.storm
  <2>1. Quiet(TRUE) \in Ecus
    BY QuietTyped
  <2>2. ~Talking /\ ~ecu.storm
    BY DEF Init, Quiet, Talking
  <2> QED BY <2>1, <2>2 DEF Init
<1>2. Len(ring) = 0 /\ ring \in Seq(Frame)
  BY EmptySeq DEF Init
<1>3. Nothing \in Outcome /\ 0 \in 0..Longest
  BY Constants, Limits DEF Nothing, Outcome
<1>4. TypeOK
  <2>1. /\ pc = "off" /\ asked = 0 /\ waited = 0 /\ elapsed = 0 /\ pending = FALSE
        /\ flushed = 0 /\ answer = Nothing /\ result = Nothing /\ nfaults = 0
    BY DEF Init
  <2>2. /\ asked \in 0..MaxRequests /\ elapsed \in 0..MaxPendingTime /\ flushed \in 0..FlushMax
        /\ nfaults \in 0..MaxFaults /\ Len(ring) <= RingCap
    BY <1>2, <2>1, Constants
  <2> QED BY <1>1, <1>2, <1>3, <2>1, <2>2 DEF TypeOK, Ecus
<1>5. Sound
  <2>1. Replies = {} /\ \A i \in 1..Len(ring) : ring[i].kind # "runt"
    BY <1>2 DEF Replies
  <2>2. pc = "off" /\ asked = 0 /\ answer.kind # "reply" /\ result.kind # "reply"
    BY DEF Init, Nothing
  <2> QED BY <1>1, <2>1, <2>2 DEF Sound
<1> QED BY <1>1, <1>4, <1>5 DEF IInv, Typed

\* Over a cable that has kept its frames so far, this step keeps them too.
LEMMA StillCalm ==
  ASSUME Typed, [Next]_vars, Untroubled'
  PROVE  Untroubled /\ (Next => ~Fault)
<1>1. nfaults \in Nat /\ nfaults' = 0 /\ Punctual
  BY Constants DEF Typed, TypeOK, Untroubled, Punctual
<1>2. nfaults' = nfaults \/ Fault
  BY DEF Next, Host, Connect, TakeFrame, ReadTimesOut, ReadFails, Flush, Init81, Request, FastInit,
         Speak, Tick, vars
<1>3. ~Fault
  BY <1>1 DEF Fault
<1> QED BY <1>1, <1>2, <1>3 DEF Untroubled

LEMMA StepSound ==
  ASSUME IInv, [Next]_vars
  PROVE  IInv'
<1>1. Typed /\ Typed'
  BY StepTyped DEF IInv
<1>2. ASSUME Untroubled'
      PROVE  Sound'
  <2>1. Untroubled /\ (Next => ~Fault) /\ Sound /\ Punctual
    BY <1>1, <1>2, StillCalm DEF IInv, Untroubled
  <2>2. CASE UNCHANGED vars
    BY <2>1, <2>2 DEF vars, hostVars, Sound, Replies, Reading, Talking, OnTime, InPatience, Limit
  <2>3. CASE Next
    BY <1>1, <2>1, <2>3, ConnectSound, RequestSound, SpeakSound, TakeFrameSound, GiveUpSound,
       ReinitStepSound, TickSound DEF Next, Host
  <2> QED BY <2>2, <2>3
<1> QED BY <1>1, <1>2 DEF IInv

LEMMA Always == Spec => []IInv
  BY Initially, StepSound, PTL DEF Spec

\* Every variable of KLine has its type, no read waits longer than its limit and
\* no flush takes more frames than FLUSH_MAX_FRAMES, whatever goes wrong (kline.rs
\* read_to, flush_ring).
THEOREM TypeCorrect == Spec => []TypeOK
<1>1. IInv => TypeOK
  BY DEF IInv, Typed
<1> QED BY <1>1, Always, PTL

\* For every request timeout, every PENDING_READ_TIMEOUT and MAX_PENDING_TIME and
\* every ECU that keeps to them or never answers, a reply that request() returns
\* is the reply to that request (kline.rs request).
THEOREM AnswersOwnAlways == Spec => []AnswersOwn
<1>1. IInv => AnswersOwn
  BY DEF IInv, Sound, AnswersOwn
<1> QED BY <1>1, Always, PTL

\* For the same, a request leaves an ECU that listens and is on no answer, and no
\* reply in the ring (kline.rs request, reinit).
THEOREM ReadyForNextAlways == Spec => []ReadyForNext
<1>1. ASSUME IInv
      PROVE  ReadyForNext
  <2>1. ASSUME Untroubled, pc = "idle", asked > 0
        PROVE  ~ecu.deaf /\ ~Talking /\ \A i \in DOMAIN ring : ring[i].kind # "reply"
    <3>1. ~ecu.deaf /\ ~Talking /\ Replies = {}
      BY <1>1, <2>1 DEF IInv, Sound
    <3>2. DOMAIN ring = 1..Len(ring)
      BY <1>1, LenProperties DEF IInv, Typed, TypeOK
    <3> QED BY <3>1, <3>2 DEF Replies
  <2> QED BY <2>1 DEF ReadyForNext
<1> QED BY <1>1, Always, PTL
=============================================================================
