---------------------------- MODULE IsoTpMachine ----------------------------
(***************************************************************************)
(* The sans-IO state machines of isotp/machine.rs as operators: what       *)
(* TxMachine and RxMachine are made of, what `next` emits and leaves       *)
(* behind, and what `on_frame` makes of every kind of frame.               *)
(*                                                                         *)
(* A byte is opaque: TLC instances and IsoTp choose what stands for one.   *)
(* Times are relative: `timer` is the number of ticks until the deadline   *)
(* or the earliest instant a state carries.                                *)
(***************************************************************************)
EXTENDS Integers, Sequences

CONSTANTS
  FrameData,    \* data bytes of a consecutive frame: 7, or 6 with an address byte
  SnMod,        \* sequence numbers: 16
  CounterMod,   \* the counters are u8: 256
  MaxPayload,   \* MAX_PAYLOAD: 4095
  Padded,       \* IsoTpConfig::padding is Some(_)
  PadByte,      \* the byte it pads with
  NBs, NCr,     \* n_bs and n_cr in ticks
  WftMax        \* wft_max

ASSUME MachineAssumption ==
  /\ {FrameData, SnMod, CounterMod} \subseteq Nat \ {0, 1}
  /\ {MaxPayload, NBs, NCr} \subseteq Nat \ {0}
  /\ WftMax \in 0..(CounterMod - 1)
  /\ Padded \in BOOLEAN

Least(a, b) == IF a <= b THEN a ELSE b

\* Milliseconds for an STmin byte; the sub-millisecond codes round up, the
\* reserved ones mean the maximum.
decode_stmin(b) ==
  IF b \in 0..127 THEN b ELSE IF b \in 241..249 THEN 1 ELSE 127

pad(data) ==
  IF Padded
  THEN data \o [i \in 1..(FrameData - Len(data)) |-> PadByte]
  ELSE data

\* `counter += 1` on a u8: it wraps in a release build and panics where
\* overflow checks are on.
Increment(n) == (n + 1) % CounterMod
Overflows(m, n) == m.checked /\ n + 1 = CounterMod

FlowControl(fs, bs, stmin) == [pci |-> "FC", fs |-> fs, bs |-> bs, stmin |-> stmin]

-----------------------------------------------------------------------------
(* TxMachine.  `checked` tells a build with overflow checks.                *)

TxNew(payload, checked) ==
  [st |-> IF Len(payload) <= FrameData THEN "single" ELSE "first",
   payload |-> payload, offset |-> 0, sn |-> 0, bs |-> 0, cfs |-> 0,
   stmin |-> 0, waits |-> 0, timer |-> 0, checked |-> checked]

\* The machine of no transfer.
TxNone == [TxNew(<< >>, FALSE) EXCEPT !.st = "done"]

\* `next` answers Send.
TxReady(m) == m.st \in {"single", "first"} \/ (m.st = "cons" /\ m.timer = 0)

Chunk(m) ==
  SubSeq(m.payload, m.offset + 1,
         m.offset + Least(FrameData, Len(m.payload) - m.offset))

\* The frame `next` sends.
TxFrame(m) ==
  CASE m.st = "single" ->
         [pci |-> "SF", len |-> Len(m.payload), data |-> pad(m.payload)]
    [] m.st = "first" ->
         [pci |-> "FF", len |-> Len(m.payload),
          data |-> SubSeq(m.payload, 1, FrameData - 1)]
    [] OTHER ->
         [pci |-> "CF", sn |-> m.sn, data |-> pad(Chunk(m))]

AwaitFc(m) == [m EXCEPT !.st = "await", !.timer = NBs]

\* (Faulty variant: the sequence number is not masked.)
TxAfterCFUnmasked(m) ==
  LET n == [m EXCEPT !.offset = @ + Len(Chunk(m)), !.sn = @ + 1,
                     !.cfs = Increment(@)]
  IN  IF n.offset >= Len(n.payload) THEN [n EXCEPT !.st = "done", !.timer = 0]
      ELSE IF n.bs # 0 /\ n.cfs >= n.bs THEN AwaitFc(n)
      ELSE [n EXCEPT !.timer = n.stmin]

\* (Faulty variant: one flow control is enough, as in the cable's firmware.)
TxAfterCFNoBlock(m) ==
  LET n == [m EXCEPT !.offset = @ + Len(Chunk(m)), !.sn = (@ + 1) % SnMod,
                     !.cfs = Increment(@)]
  IN  IF n.offset >= Len(n.payload) THEN [n EXCEPT !.st = "done", !.timer = 0]
      ELSE [n EXCEPT !.timer = n.stmin]

\* A consecutive frame went out: finish, end the block, or pace.
TxAfterCF(m) ==
  LET n == [m EXCEPT !.offset = @ + Len(Chunk(m)), !.sn = (@ + 1) % SnMod]
      c == [n EXCEPT !.cfs = Increment(@)]
  IN  IF n.offset >= Len(n.payload) THEN [n EXCEPT !.st = "done", !.timer = 0]
      ELSE IF Overflows(n, n.cfs) THEN [n EXCEPT !.st = "panic"]
      ELSE IF c.bs # 0 /\ c.cfs >= c.bs THEN AwaitFc(c)
      ELSE [c EXCEPT !.timer = c.stmin]

\* The machine `next` leaves behind when it sends.
TxSent(m) ==
  CASE m.st = "single" -> [m EXCEPT !.st = "done"]
    [] m.st = "first" -> AwaitFc([m EXCEPT !.offset = FrameData - 1, !.sn = 1 % SnMod])
    [] OTHER -> TxAfterCF(m)

TxKeeps(m) == [tx |-> m, err |-> "ok"]

TxOnFrame(m, f) ==
  IF m.st # "await" \/ f.pci # "FC" THEN TxKeeps(m)
  ELSE CASE f.fs = "cts" ->
              TxKeeps([m EXCEPT !.st = "cons", !.timer = 0, !.bs = f.bs,
                                !.stmin = decode_stmin(f.stmin),
                                !.cfs = 0, !.waits = 0])
         [] f.fs = "wait" ->
              LET n == [m EXCEPT !.waits = Increment(@)]
              IN  IF Overflows(m, m.waits)
                  THEN TxKeeps([m EXCEPT !.st = "panic"])
                  ELSE [tx |-> AwaitFc(n),
                        err |-> IF n.waits > WftMax THEN "WaitLimit" ELSE "ok"]
         [] f.fs = "ovflw" -> [tx |-> m, err |-> "Overflow"]
         [] OTHER -> [tx |-> m, err |-> "Malformed"]

-----------------------------------------------------------------------------
(* RxMachine.                                                               *)

RxNew(bs, stmin, checked) ==
  [st |-> "idle", buf |-> << >>, ffdl |-> 0, sn |-> 0, cfs |-> 0, timer |-> 0,
   bs |-> bs, stmin |-> stmin, checked |-> checked]

RxKeeps(r, ev) == [rx |-> r, ev |-> ev, out |-> << >>]

\* Done: the machine is idle again and its buffer taken.
RxDone(r, payload) ==
  [rx |-> [RxNew(r.bs, r.stmin, r.checked) EXCEPT !.ffdl = r.ffdl],
   ev |-> "done", out |-> payload]

RxDrop(r) == [r EXCEPT !.st = "idle", !.sn = 0, !.cfs = 0, !.timer = 0]

\* A single frame ends whatever was being reassembled.
RxSingle(r, f) ==
  IF f.len = 0 \/ f.len > Len(f.data)
  THEN RxKeeps(r, "Malformed")
  ELSE [rx |-> RxDrop(r), ev |-> "done", out |-> SubSeq(f.data, 1, f.len)]

\* (Faulty variant: any announced length will do.)
RxFirstAnyLength(r, f) ==
  IF Len(f.data) < FrameData - 1 THEN RxKeeps(r, "Malformed")
  ELSE RxKeeps([r EXCEPT !.st = "receiving", !.ffdl = f.len,
                         !.buf = SubSeq(f.data, 1, FrameData - 1),
                         !.sn = 1 % SnMod, !.cfs = 0, !.timer = NCr],
               "fc")

RxFirst(r, f) ==
  IF Len(f.data) < FrameData - 1 \/ f.len <= FrameData
  THEN RxKeeps(r, "Malformed")
  ELSE RxKeeps([r EXCEPT !.st = "receiving", !.ffdl = f.len,
                         !.buf = SubSeq(f.data, 1, FrameData - 1),
                         !.sn = 1 % SnMod, !.cfs = 0, !.timer = NCr],
               "fc")

\* (Faulty variant: sequence numbers are not compared.)
RxConsecutiveUnchecked(r, f) ==
  LET buf == r.buf \o SubSeq(f.data, 1, Least(r.ffdl - Len(r.buf), Len(f.data)))
      cfs == Increment(r.cfs)
      more == [r EXCEPT !.buf = buf, !.timer = NCr]
  IN  IF r.st # "receiving" THEN RxKeeps(r, "Malformed")
      ELSE IF Len(buf) >= r.ffdl THEN RxDone(r, buf)
      ELSE IF r.bs # 0 /\ cfs >= r.bs THEN RxKeeps([more EXCEPT !.cfs = 0], "fc")
      ELSE RxKeeps([more EXCEPT !.cfs = cfs], "continue")

\* (Faulty variant: the next block is granted one frame late.)
RxConsecutiveLate(r, f) ==
  LET buf == r.buf \o SubSeq(f.data, 1, Least(r.ffdl - Len(r.buf), Len(f.data)))
      cfs == Increment(r.cfs)
      more == [r EXCEPT !.buf = buf, !.sn = (f.sn + 1) % SnMod, !.timer = NCr]
  IN  IF r.st # "receiving" THEN RxKeeps(r, "Malformed")
      ELSE IF f.sn # r.sn THEN RxKeeps(RxDrop(r), "Sequence")
      ELSE IF Len(buf) >= r.ffdl THEN RxDone(r, buf)
      ELSE IF r.bs # 0 /\ cfs > r.bs THEN RxKeeps([more EXCEPT !.cfs = 0], "fc")
      ELSE RxKeeps([more EXCEPT !.cfs = cfs], "continue")

\* (Faulty variant: the padding of the last frame is not cut off.)
RxConsecutiveUntrimmed(r, f) ==
  LET buf == r.buf \o f.data
      cfs == Increment(r.cfs)
      more == [r EXCEPT !.buf = buf, !.sn = (f.sn + 1) % SnMod, !.timer = NCr]
  IN  IF r.st # "receiving" THEN RxKeeps(r, "Malformed")
      ELSE IF f.sn # r.sn THEN RxKeeps(RxDrop(r), "Sequence")
      ELSE IF Len(buf) >= r.ffdl THEN RxDone(r, buf)
      ELSE IF r.bs # 0 /\ cfs >= r.bs THEN RxKeeps([more EXCEPT !.cfs = 0], "fc")
      ELSE RxKeeps([more EXCEPT !.cfs = cfs], "continue")

RxConsecutive(r, f) ==
  LET need == r.ffdl - Len(r.buf)
      take == Least(Least(need, FrameData), Len(f.data))
      buf  == r.buf \o SubSeq(f.data, 1, take)
      more == [r EXCEPT !.buf = buf, !.sn = (f.sn + 1) % SnMod, !.timer = NCr]
      cfs  == Increment(r.cfs)
  IN  IF r.st # "receiving" THEN RxKeeps(r, "Malformed")
      ELSE IF f.sn # r.sn THEN RxKeeps(RxDrop(r), "Sequence")
      ELSE IF Len(buf) >= r.ffdl THEN RxDone(r, SubSeq(buf, 1, r.ffdl))
      ELSE IF Overflows(r, r.cfs) THEN RxKeeps([r EXCEPT !.st = "panic"], "panic")
      ELSE IF r.bs # 0 /\ cfs >= r.bs THEN RxKeeps([more EXCEPT !.cfs = 0], "fc")
      ELSE RxKeeps([more EXCEPT !.cfs = cfs], "continue")

RxOnFrame(r, f) ==
  CASE f.pci = "SF" -> RxSingle(r, f)
    [] f.pci = "FF" -> RxFirst(r, f)
    [] f.pci = "CF" -> RxConsecutive(r, f)
    [] f.pci = "FC" -> RxKeeps(r, "continue")
    [] OTHER -> RxKeeps(r, "Malformed")

\* check_timeout
RxExpired(r) == r.st = "receiving" /\ r.timer < 0

=============================================================================
