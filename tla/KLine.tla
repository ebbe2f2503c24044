------------------------------- MODULE KLine -------------------------------
(***************************************************************************)
(* kline.rs: requests to an ISO 14230 ECU through a raw channel.  An ECU   *)
(* answers in time, after some responsePending frames, never, or with      *)
(* responsePending for ever; when it has been left without an answer it    *)
(* ignores requests until the next FAST_INIT.  Time passes in ticks of     *)
(* half a second, the longest that read() waits for one poll.              *)
(***************************************************************************)
EXTENDS Naturals, Sequences

CONSTANTS
  Timeout,          \* of a request
  PendingReadTime,  \* PENDING_READ_TIMEOUT
  MaxPendingTime,   \* MAX_PENDING_TIME
  FlushMax,         \* FLUSH_MAX_FRAMES
  RingCap,          \* received frames the adapter can hold
  FirstGaps, Gaps,  \* how long the ECU takes to its first and its next frame
  Pendings,         \* how many responsePending frames it sends
  Storms,           \* it may send them for ever
  MaxRequests, MaxFaults

ASSUME KLineAssumption ==
  /\ {Timeout, PendingReadTime, MaxPendingTime, FlushMax, RingCap} \subseteq Nat \ {0}
  /\ FirstGaps \cup Gaps \subseteq Nat \ {0} /\ FirstGaps # {} /\ Gaps # {}
  /\ Pendings \subseteq Nat /\ Pendings # {}
  /\ Storms \in BOOLEAN /\ MaxRequests \in Nat /\ MaxFaults \in Nat

VARIABLES
  pc,       \* where the caller is in connect, request or fast_init
  asked,    \* requests made so far; the number of the last
  waited,   \* time in this read
  elapsed,  \* time since the request was written
  pending,  \* last_pending is Some
  flushed,  \* frames flushed in this reinit
  answer,   \* what the request will return after its reinit
  result,   \* what the last request returned
  ring,     \* received frames the adapter holds
  ecu,      \* the request the ECU is on, and what it will still send
  nfaults   \* what went wrong on the cable so far

hostVars == <<pc, asked, waited, elapsed, pending, flushed, answer, result>>
vars == <<hostVars, ring, ecu, nfaults>>

Nothing == [kind |-> "none", of |-> 0]
Quiet(deaf) == [of |-> 0, left |-> 0, storm |-> FALSE, final |-> FALSE, due |-> 0, deaf |-> deaf]

\* A frame for the ring is lost when it is full.
Receive(kind, n) ==
  ring' = IF Len(ring) < RingCap THEN Append(ring, [kind |-> kind, of |-> n]) ELSE ring

Fault == nfaults < MaxFaults /\ nfaults' = nfaults + 1

\* The ECU has something to say.
Talking == ecu.left > 0 \/ ecu.storm \/ ecu.final

-----------------------------------------------------------------------------
(* The ECU.                                                                *)

\* A request arrives: one that is deaf or busy ignores it.
Hear(n) ==
  \/ (ecu.deaf \/ Talking) /\ UNCHANGED ecu
  \/ /\ ~ecu.deaf /\ ~Talking
     /\ \E k \in Pendings, storm \in {FALSE, Storms}, final \in BOOLEAN, gap \in FirstGaps,
           sulks \in BOOLEAN :
          ecu' = IF k = 0 /\ ~storm /\ ~final THEN Quiet(sulks)    \* a silent LID
                 ELSE [of |-> n, left |-> k, storm |-> storm, final |-> final /\ ~storm,
                       due |-> gap, deaf |-> FALSE]

\* The frame that is due: responsePending, after the last of which the ECU may
\* have nothing to add and be left deaf; or the answer, whole or cut short.
Speak ==
  /\ Talking /\ ecu.due = 0
  /\ \/ /\ ecu.left > 0 \/ ecu.storm
        /\ Receive("pending", ecu.of)
        /\ \E gap \in Gaps :
             ecu' = IF ecu.left > 1 \/ ecu.storm \/ ecu.final
                    THEN [ecu EXCEPT !.left = IF @ > 0 THEN @ - 1 ELSE 0, !.due = gap]
                    ELSE Quiet(TRUE)
        /\ UNCHANGED nfaults
     \/ /\ ecu.left = 0 /\ ~ecu.storm
        /\ \/ Receive("reply", ecu.of) /\ UNCHANGED nfaults
           \/ Receive("runt", ecu.of) /\ Fault
        /\ ecu' = Quiet(FALSE)
  /\ UNCHANGED hostVars

-----------------------------------------------------------------------------
(* The caller.                                                             *)

\* connect_with: the channel, its filter, its timing; or none of it.
Connect ==
  /\ pc = "off"
  /\ \/ pc' = "idle" /\ UNCHANGED nfaults
     \/ Fault /\ UNCHANGED pc
  /\ UNCHANGED <<asked, waited, elapsed, pending, flushed, answer, result, ring, ecu>>

Return(r) == pc' = "idle" /\ result' = r /\ answer' = Nothing

\* clear_periodic and write of a request.  Nothing clears the ring.
Request ==
  /\ pc = "idle" /\ asked < MaxRequests
  /\ asked' = asked + 1 /\ waited' = 0 /\ elapsed' = 0 /\ pending' = FALSE
  /\ \/ /\ pc' = "read" /\ Hear(asked') /\ result' = Nothing /\ UNCHANGED <<answer, nfaults>>
        /\ Receive("echo", asked') \/ UNCHANGED ring
     \/ /\ Fault /\ Return([kind |-> "error", of |-> asked'])    \* the write is refused or lost
        /\ Hear(asked') \/ UNCHANGED ecu
        /\ UNCHANGED ring
  /\ UNCHANGED flushed

\* read_to
Limit == IF pending /\ Timeout < PendingReadTime THEN PendingReadTime ELSE Timeout

\* Mutant: pending frames are swallowed for ever.
NeverTooLong == FALSE

\* Mutant: they are swallowed for as long as the request waits at first.
TooSoon == elapsed >= Timeout

TooLong == elapsed >= MaxPendingTime

Reinit(r) == pc' = "flush" /\ flushed' = 0 /\ answer' = r /\ UNCHANGED result

\* One frame of the ring reaches request().
TakeFrame ==
  LET frame == Head(ring) IN
  /\ pc = "read" /\ ring # << >> /\ ring' = Tail(ring)
  /\ \/ /\ frame.kind = "echo" /\ UNCHANGED <<pc, waited, pending, flushed, answer, result>>
     \/ /\ frame.kind = "reply" /\ Return(frame)
        /\ UNCHANGED <<waited, pending, flushed>>
     \/ /\ frame.kind = "runt" /\ Return([kind |-> "error", of |-> asked])
        /\ UNCHANGED <<waited, pending, flushed>>
     \/ /\ frame.kind = "pending" /\ ~TooLong /\ pending' = TRUE /\ waited' = 0
        /\ UNCHANGED <<pc, flushed, answer, result>>
     \/ /\ frame.kind = "pending" /\ TooLong /\ Reinit(frame)
        /\ UNCHANGED <<waited, pending>>
  /\ UNCHANGED <<asked, elapsed, ecu, nfaults>>

\* Mutant: a silent LID is reported and the ECU left as it is.
QuietWithoutInit ==
  \/ pending /\ Reinit([kind |-> "pending", of |-> asked])
  \/ ~pending /\ Return([kind |-> "timeout", of |-> asked]) /\ UNCHANGED flushed

\* read() timed out: the last pending frame, or the silence, is the answer.
WentQuiet ==
  Reinit([kind |-> IF pending THEN "pending" ELSE "timeout", of |-> asked])

\* The deadline of a read passes; or a poll goes unanswered, which looks the
\* same, and its frame is lost.
ReadTimesOut ==
  /\ pc = "read"
  /\ \/ ring = << >> /\ waited >= Limit /\ UNCHANGED <<ring, nfaults>>
     \/ Fault /\ ring' = (IF ring = << >> THEN ring ELSE Tail(ring))
  /\ WentQuiet
  /\ UNCHANGED <<asked, waited, elapsed, pending, ecu>>

\* Any other error of a poll goes straight to the caller.
ReadFails ==
  /\ pc = "read" /\ Fault
  /\ Return([kind |-> "error", of |-> asked])
  /\ UNCHANGED <<asked, waited, elapsed, pending, flushed, ring, ecu>>

\* Mutant: frames are flushed until there is none.
FlushAll ==
  /\ pc = "flush"
  /\ \/ /\ ring # << >> /\ ring' = Tail(ring) /\ flushed' = flushed + 1
        /\ UNCHANGED <<pc, nfaults>>
     \/ /\ ring = << >> /\ pc' = "init" /\ UNCHANGED <<ring, flushed, nfaults>>
     \/ /\ Fault /\ pc' = "init" /\ UNCHANGED <<ring, flushed>>
  /\ UNCHANGED <<asked, waited, elapsed, pending, answer, result, ecu>>

\* flush_ring: a poll finds a frame, or the adapter says at once that it has
\* none, or the poll fails, or there were enough.
Flush ==
  /\ pc = "flush"
  /\ \/ /\ ring # << >> /\ flushed < FlushMax
        /\ ring' = Tail(ring) /\ flushed' = flushed + 1 /\ UNCHANGED <<pc, nfaults>>
     \/ /\ ring = << >> \/ flushed = FlushMax
        /\ pc' = "init" /\ UNCHANGED <<ring, flushed, nfaults>>
     \/ /\ Fault /\ pc' = "init" /\ UNCHANGED <<ring, flushed>>
  /\ UNCHANGED <<asked, waited, elapsed, pending, answer, result, ecu>>

\* FAST_INIT wakes the ECU and ends what it was about; a failure is logged.
Init81 ==
  /\ pc = "init"
  /\ \/ ecu' = Quiet(FALSE) /\ UNCHANGED nfaults
     \/ Fault /\ UNCHANGED ecu
  /\ Return(answer)
  /\ UNCHANGED <<asked, waited, elapsed, pending, flushed, ring>>

\* The application's own fast_init.
FastInit ==
  /\ pc = "idle"
  /\ \/ ecu' = Quiet(FALSE) /\ UNCHANGED nfaults
     \/ Fault /\ UNCHANGED ecu
  /\ UNCHANGED <<hostVars, ring>>

-----------------------------------------------------------------------------

\* Half a second.  A frame that is due, or a deadline, does not wait, and a
\* frame in the ring is polled within 2 ms.
Tick ==
  /\ Talking => ecu.due > 0
  /\ pc = "read" => ring = << >> /\ waited < Limit
  /\ waited' = IF pc = "read" THEN waited + 1 ELSE waited
  /\ elapsed' = IF pc = "read" /\ elapsed < MaxPendingTime THEN elapsed + 1 ELSE elapsed
  /\ ecu' = IF Talking THEN [ecu EXCEPT !.due = @ - 1] ELSE ecu
  /\ UNCHANGED <<pc, asked, pending, flushed, answer, result, ring, nfaults>>

Init ==
  /\ pc = "off" /\ asked = 0 /\ waited = 0 /\ elapsed = 0 /\ pending = FALSE /\ flushed = 0
  /\ answer = Nothing /\ result = Nothing
  /\ ring = << >> /\ ecu = Quiet(TRUE) /\ nfaults = 0

Host ==
  \/ Connect \/ TakeFrame \/ ReadTimesOut \/ ReadFails \/ Flush \/ Init81

Next == Host \/ Request \/ FastInit \/ Speak \/ Tick

Spec == Init /\ [][Next]_vars

\* The caller's thread runs, time passes and the ECU keeps to its own times.
FairSpec == Spec /\ WF_vars(Host) /\ WF_vars(Tick \/ Speak)

-----------------------------------------------------------------------------
(* Properties.                                                             *)

Frame == [kind : {"pending", "reply", "runt", "echo"}, of : 1..MaxRequests]
Outcome == [kind : {"none", "pending", "reply", "timeout", "error"}, of : 0..MaxRequests]
Longest == IF Timeout < PendingReadTime THEN PendingReadTime ELSE Timeout
Dues == UNION {0..gap : gap \in FirstGaps \cup Gaps}

\* Every variable has its type, no read waits longer than its limit, no more
\* frames are flushed than FLUSH_MAX_FRAMES, and a request has its answer from
\* the moment it re-initialises the ECU.
TypeOK ==
  /\ pc \in {"off", "idle", "read", "flush", "init"}
  /\ asked \in 0..MaxRequests /\ elapsed \in 0..MaxPendingTime /\ pending \in BOOLEAN
  /\ waited \in 0..Longest /\ (pc = "read" => waited <= Limit) /\ flushed \in 0..FlushMax
  /\ answer \in Outcome /\ (answer = Nothing <=> pc \notin {"flush", "init"})
  /\ result \in Outcome
  /\ ring \in Seq(Frame) /\ Len(ring) <= RingCap
  /\ ecu \in [of : 0..MaxRequests, left : Nat, storm : BOOLEAN, final : BOOLEAN,
              due : Dues, deaf : BOOLEAN]
  /\ nfaults \in 0..MaxFaults

\* The ECU begins an answer within the timeout of the request, goes on within
\* PENDING_READ_TIMEOUT, and has answered before MAX_PENDING_TIME, or never does.
Punctual ==
  /\ \A first \in FirstGaps : first < Timeout
  /\ \A gap \in Gaps : gap < PendingReadTime
  /\ \A first \in FirstGaps, gap \in Gaps, k \in Pendings : first + k * gap < MaxPendingTime

Untroubled == Punctual /\ nfaults = 0

\* A reply that a request returns is the reply to that request, whatever storms
\* and silent LIDs came before it (kline.rs request: pending frames are consumed
\* "rather than leaking into the next request").
AnswersOwn == Untroubled /\ result.kind = "reply" => result.of = asked

\* A request leaves an ECU that listens: not deaf after a silent LID or a storm,
\* and not on an answer that the next request would take for its own; and no
\* reply in the ring (kline.rs reinit).
ReadyForNext ==
  Untroubled /\ pc = "idle" /\ asked > 0 =>
    /\ ~ecu.deaf /\ ~Talking
    /\ \A i \in DOMAIN ring : ring[i].kind # "reply"

\* Every request returns, also to an ECU that sends responsePending for ever
\* (kline.rs MAX_PENDING_TIME: without it `request` would block indefinitely).
EveryRequestReturns == pc \in {"read", "flush", "init"} ~> pc = "idle"

\* kline.rs:36-41, of what flush_ring polls for: "a longer straggler is harmless
\* (the next request's own drain swallows it)".
StragglersHarmless == nfaults = 0 /\ result.kind = "reply" => result.of = asked
=============================================================================
