---------------------------- MODULE IsoTpProofs ----------------------------
(***************************************************************************)
(* Theorems about IsoTp: its type invariant with the bounds that keep the  *)
(* machines' subtractions and slices in range, the limit on WAITs, the     *)
(* block size the ECU asks for, that what is reassembled is one whole      *)
(* message, with the refinement of IsoTpService, and that a call of which  *)
(* nothing is lost succeeds.  Lemmas about the machines come first, then   *)
(* one step per action.                                                    *)
(***************************************************************************)
EXTENDS IsoTp, SequenceTheorems, TLAPS

\* The constants one by one.
LEMMA Constants ==
  ASSUME MachineAssumption
  PROVE  /\ FrameData \in Nat /\ FrameData >= 2
         /\ SnMod \in Nat /\ SnMod >= 2
         /\ CounterMod \in Nat /\ CounterMod >= 2
         /\ NBs \in Nat /\ NBs >= 1 /\ NCr \in Nat /\ NCr >= 1
         /\ WftMax \in 0..(CounterMod - 1)
  BY DEF MachineAssumption

LEMMA ModTyped ==
  ASSUME NEW n \in Nat, NEW m \in Nat \ {0}
  PROVE  n % m \in 0..(m - 1)
  OBVIOUS

LEMMA LastBefore ==
  ASSUME NEW n \in Nat, NEW m \in Nat, n >= 2, n - 1 < m
  PROVE  n - 1 \in 0..m
  OBVIOUS

LEMMA SubSeqTyped ==
  ASSUME NEW S, NEW s \in Seq(S), NEW n \in 0..Len(s)
  PROVE  SubSeq(s, 1, n) \in Seq(S) /\ Len(SubSeq(s, 1, n)) = n
  BY LenProperties, SubSeqProperties

LEMMA SubSeqBetween ==
  ASSUME NEW S, NEW s \in Seq(S), NEW a \in 1..(Len(s) + 1), NEW b \in (a - 1)..Len(s)
  PROVE  SubSeq(s, a, b) \in Seq(S)
  BY SubSeqProperties

LEMMA FillTyped ==
  ASSUME NEW S, NEW n \in Int, NEW e \in S
  PROVE  [i \in 1..n |-> e] \in Seq(S)
<1>1. CASE n \in Nat
  BY <1>1
<1>2. CASE n \notin Nat
  <2>1. 1..n = 1..0
    BY <1>2
  <2> QED BY <2>1
<1> QED BY <1>1, <1>2

LEMMA PadTyped ==
  ASSUME IsoTpAssumption, MachineAssumption, NEW d \in Seq(Bytes)
  PROVE  pad(d) \in Seq(Bytes)
<1> DEFINE fill == [i \in 1..(FrameData - Len(d)) |-> PadByte]
<1>1. Len(d) \in Nat /\ FrameData \in Nat /\ PadByte \in Bytes
  BY LenProperties DEF IsoTpAssumption, MachineAssumption
<1>2. fill \in Seq(Bytes)
  <2>1. FrameData - Len(d) \in Int
    BY <1>1
  <2> QED BY <1>1, <2>1, FillTyped, Zenon
<1>3. d \o fill \in Seq(Bytes)
  BY <1>2, ConcatProperties
<1> QED BY <1>3 DEF pad

LEMMA TxNewTyped ==
  ASSUME MachineAssumption, NEW p \in Seq(Bytes), NEW c \in BOOLEAN
  PROVE  TxNew(p, c) \in TxMachines /\ TxSound(TxNew(p, c))
  BY LenProperties, Constants DEF TxNew, TxMachines, TxSound, Byte8

LEMMA TxNoneTyped ==
  ASSUME MachineAssumption
  PROVE  TxNone \in TxMachines /\ TxSound(TxNone) /\ TxNone.st = "done"
<1>1. TxNew(<< >>, FALSE) \in TxMachines
  BY TxNewTyped, EmptySeq
<1> QED BY <1>1 DEF TxNone, TxMachines, TxSound

LEMMA ChunkTyped ==
  ASSUME MachineAssumption, NEW t \in TxMachines, t.offset < Len(t.payload)
  PROVE  /\ Chunk(t) \in Seq(Bytes)
         /\ Len(Chunk(t)) \in Nat
<1> DEFINE n == Least(FrameData, Len(t.payload) - t.offset)
<1>1. t.payload \in Seq(Bytes) /\ t.offset \in Nat /\ Len(t.payload) \in Nat
  BY LenProperties DEF TxMachines
<1>2. n \in Nat /\ t.offset + n <= Len(t.payload)
  BY <1>1, Constants DEF Least
<1>3. t.offset + 1 \in 1..(Len(t.payload) + 1)
  BY <1>1
<1>4. t.offset + n \in ((t.offset + 1) - 1)..Len(t.payload)
  BY <1>1, <1>2
<1>5. Chunk(t) = SubSeq(t.payload, t.offset + 1, t.offset + n)
  BY DEF Chunk
<1> HIDE DEF n
<1>6. SubSeq(t.payload, t.offset + 1, t.offset + n) \in Seq(Bytes)
  BY <1>1, <1>3, <1>4, SubSeqBetween
<1> QED BY <1>5, <1>6, LenProperties

LEMMA TxFrameTyped ==
  ASSUME IsoTpAssumption, MachineAssumption,
         NEW t \in TxMachines, TxSound(t), TxReady(t)
  PROVE  TxFrame(t) \in Frames
<1>1. t.payload \in Seq(Bytes) /\ t.sn \in 0..(SnMod - 1)
  BY DEF TxMachines
<1>0. Len(t.payload) \in Nat
  BY <1>1, LenProperties
<1>2. CASE t.st = "single"
  BY <1>0, <1>1, <1>2, PadTyped DEF TxFrame, Frames
<1>3. CASE t.st = "first"
  <2>1. FrameData - 1 \in 0..Len(t.payload)
    <3>1. FrameData - 1 < Len(t.payload)
      BY <1>3 DEF TxSound
    <3>2. FrameData \in Nat /\ FrameData >= 2
      BY Constants
    <3> QED BY <1>0, <3>1, <3>2, LastBefore
  <2>2. SubSeq(t.payload, 1, FrameData - 1) \in Seq(Bytes)
    BY <1>1, <2>1, SubSeqTyped
  <2> QED BY <1>0, <1>1, <1>3, <2>2 DEF TxFrame, Frames
<1>4. CASE t.st = "cons"
  <2>1. pad(Chunk(t)) \in Seq(Bytes)
    BY <1>4, ChunkTyped, PadTyped DEF TxSound
  <2> QED BY <1>1, <1>4, <2>1 DEF TxFrame, Frames
<1> QED BY <1>2, <1>3, <1>4 DEF TxReady

LEMMA CounterTyped ==
  ASSUME MachineAssumption, NEW n \in 0..(CounterMod - 1)
  PROVE  Increment(n) \in 0..(CounterMod - 1)
<1>1. CounterMod \in Nat \ {0} /\ n + 1 \in Nat
  BY DEF MachineAssumption
<1> QED BY <1>1, ModTyped DEF Increment

LEMMA SnTyped ==
  ASSUME MachineAssumption, NEW n \in Nat
  PROVE  n % SnMod \in 0..(SnMod - 1)
  BY ModTyped DEF MachineAssumption

LEMMA AwaitTyped ==
  ASSUME MachineAssumption, NEW t \in TxMachines, t.offset < Len(t.payload)
  PROVE  AwaitFc(t) \in TxMachines /\ TxSound(AwaitFc(t))
  BY Constants DEF AwaitFc, TxMachines, TxSound

LEMMA TxFields ==
  ASSUME NEW t \in TxMachines
  PROVE  /\ t.payload \in Seq(Bytes) /\ t.offset \in Nat /\ t.sn \in 0..(SnMod - 1)
         /\ t.cfs \in 0..(CounterMod - 1) /\ t.waits \in 0..(CounterMod - 1)
         /\ t.stmin \in Nat /\ t.timer \in Nat
<1>1. t.payload \in Seq(Bytes) /\ t.offset \in Nat /\ t.timer \in Nat
  BY DEF TxMachines
<1>2. /\ t.sn \in 0..(SnMod - 1) /\ t.cfs \in 0..(CounterMod - 1)
      /\ t.waits \in 0..(CounterMod - 1) /\ t.stmin \in 0..127
  BY Zenon DEF TxMachines
<1>3. \A n \in 0..127 : n \in Nat
  OBVIOUS
<1> QED BY <1>1, <1>2, <1>3, Zenon

LEMMA TxPanics ==
  ASSUME NEW t \in TxMachines
  PROVE  /\ [t EXCEPT !.st = "panic"] \in TxMachines
         /\ TxSound([t EXCEPT !.st = "panic"])
  BY DEF TxMachines, TxSound

\* Updates that keep a machine in its type.
LEMMA TxMoved ==
  ASSUME NEW t \in TxMachines, NEW o \in Nat, NEW s \in 0..(SnMod - 1)
  PROVE  [t EXCEPT !.offset = o, !.sn = s] \in TxMachines
  BY DEF TxMachines

LEMMA TxTimed ==
  ASSUME NEW t \in TxMachines, NEW k \in Nat
  PROVE  [t EXCEPT !.timer = k] \in TxMachines
  BY DEF TxMachines

LEMMA TxGranted ==
  ASSUME NEW t \in TxMachines, NEW b \in Byte8, NEW g \in 0..127,
         NEW z \in 0..(CounterMod - 1), NEW k \in Nat
  PROVE  [t EXCEPT !.st = "cons", !.timer = k, !.bs = b, !.stmin = g,
                   !.cfs = z, !.waits = z] \in TxMachines
<1>1. [t EXCEPT !.st = "cons", !.timer = k] \in TxMachines
  BY DEF TxMachines
<1>2. \A u \in TxMachines : [u EXCEPT !.bs = b, !.stmin = g] \in TxMachines
  BY DEF TxMachines
<1>3. \A u \in TxMachines : [u EXCEPT !.cfs = z, !.waits = z] \in TxMachines
  BY DEF TxMachines
<1>4. [[[t EXCEPT !.st = "cons", !.timer = k] EXCEPT !.bs = b, !.stmin = g]
         EXCEPT !.cfs = z, !.waits = z] \in TxMachines
  BY <1>1, <1>2, <1>3
<1> QED BY <1>4

\* What follows a consecutive frame, from the machine that counted it.
LEMMA TxFollows ==
  ASSUME MachineAssumption, NEW n \in TxMachines, n.st = "cons",
         NEW c \in TxMachines, c = [n EXCEPT !.cfs = Increment(@)],
         NEW u,
         u = IF n.offset >= Len(n.payload) THEN [n EXCEPT !.st = "done", !.timer = 0]
             ELSE IF Overflows(n, n.cfs) THEN [n EXCEPT !.st = "panic"]
             ELSE IF c.bs # 0 /\ c.cfs >= c.bs THEN AwaitFc(c)
             ELSE [c EXCEPT !.timer = c.stmin]
  PROVE  u \in TxMachines /\ TxSound(u)
<1>1. n.offset \in Nat /\ Len(n.payload) \in Nat
  BY LenProperties DEF TxMachines
<1>2. c.st = "cons" /\ c.offset = n.offset /\ c.payload = n.payload
  BY DEF TxMachines
<1>3. c.stmin \in Nat
  BY TxFields
<1>4. CASE n.offset >= Len(n.payload)
  BY <1>4 DEF TxMachines, TxSound
<1>5. CASE n.offset < Len(n.payload) /\ Overflows(n, n.cfs)
  <2>1. u = [n EXCEPT !.st = "panic"]
    BY <1>1, <1>5
  <2> QED BY <2>1 DEF TxMachines, TxSound
<1>6. CASE n.offset < Len(n.payload) /\ ~Overflows(n, n.cfs)
  <2>1. u = AwaitFc(c) \/ u = [c EXCEPT !.timer = c.stmin]
    BY <1>1, <1>6
  <2>2. AwaitFc(c) \in TxMachines /\ TxSound(AwaitFc(c))
    BY <1>2, <1>6, AwaitTyped
  <2>3. [c EXCEPT !.timer = c.stmin] \in TxMachines
    BY <1>3, TxTimed
  <2>4. TxSound([c EXCEPT !.timer = c.stmin])
    <3> DEFINE v == [c EXCEPT !.timer = c.stmin]
    <3>1. v.st = c.st /\ v.offset = c.offset /\ v.payload = c.payload
      BY DEF TxMachines
    <3> QED BY <1>2, <1>6, <3>1 DEF TxSound
  <2> QED BY <2>1, <2>2, <2>3, <2>4
<1> QED BY <1>1, <1>4, <1>5, <1>6

LEMMA TxSentTyped ==
  ASSUME MachineAssumption, NEW t \in TxMachines, TxSound(t), TxReady(t)
  PROVE  TxSent(t) \in TxMachines /\ TxSound(TxSent(t))
<1>1. t.payload \in Seq(Bytes) /\ Len(t.payload) \in Nat /\ t.offset \in Nat
  BY LenProperties DEF TxMachines
<1>2. CASE t.st = "single"
  BY <1>2 DEF TxSent, TxMachines, TxSound
<1>3. CASE t.st = "first"
  <2> DEFINE u == [t EXCEPT !.offset = FrameData - 1, !.sn = 1 % SnMod]
  <2>1. u \in TxMachines
    <3>1. FrameData - 1 \in Nat /\ 1 % SnMod \in 0..(SnMod - 1)
      BY SnTyped, Constants
    <3> QED BY <3>1, TxMoved
  <2>2. u.offset < Len(u.payload)
    BY <1>1, <1>3, Constants DEF TxMachines, TxSound
  <2> QED BY <1>3, <2>1, <2>2, AwaitTyped DEF TxSent
<1>4. CASE t.st = "cons"
  <2> DEFINE n == [t EXCEPT !.offset = @ + Len(Chunk(t)), !.sn = (@ + 1) % SnMod]
             c == [n EXCEPT !.cfs = Increment(@)]
  <2>1. n \in TxMachines
    <3>1. t.offset + Len(Chunk(t)) \in Nat
      BY <1>1, <1>4, ChunkTyped DEF TxSound
    <3>2. (t.sn + 1) % SnMod \in 0..(SnMod - 1)
      <4>1. t.sn \in 0..(SnMod - 1)
        BY TxFields
      <4>2. t.sn + 1 \in Nat
        BY <4>1
      <4> QED BY <4>2, SnTyped, Zenon
    <3>3. \A o \in Nat, q \in 0..(SnMod - 1) :
            [t EXCEPT !.offset = o, !.sn = q] \in TxMachines
      BY TxMoved
    <3> QED BY <3>1, <3>2, <3>3, Zenon
  <2>2. n.st = "cons"
    BY <1>4 DEF TxMachines
  <2>3. c \in TxMachines
    <3> HIDE DEF n
    <3>1. Increment(n.cfs) \in 0..(CounterMod - 1)
      BY <2>1, CounterTyped DEF TxMachines
    <3> QED BY <2>1, <3>1 DEF TxMachines
  <2>4. TxSent(t) = TxAfterCF(t)
    BY <1>4 DEF TxSent
  <2>5. TxSent(t) =
          IF n.offset >= Len(n.payload) THEN [n EXCEPT !.st = "done", !.timer = 0]
          ELSE IF Overflows(n, n.cfs) THEN [n EXCEPT !.st = "panic"]
          ELSE IF c.bs # 0 /\ c.cfs >= c.bs THEN AwaitFc(c)
          ELSE [c EXCEPT !.timer = c.stmin]
    BY <2>4 DEF TxAfterCF
  <2>6. c = [n EXCEPT !.cfs = Increment(@)]
    OBVIOUS
  <2> HIDE DEF n, c
  <2> QED BY <2>1, <2>2, <2>3, <2>5, <2>6, TxFollows
<1> QED BY <1>2, <1>3, <1>4 DEF TxReady

LEMMA TxOnFrameTyped ==
  ASSUME MachineAssumption, NEW t \in TxMachines, TxSound(t), NEW f \in Frames
  PROVE  /\ TxOnFrame(t, f).tx \in TxMachines
         /\ TxSound(TxOnFrame(t, f).tx)
         /\ TxOnFrame(t, f).err \in {"ok"} \cup Errors
<1>1. CASE t.st # "await" \/ f.pci # "FC"
  BY <1>1 DEF TxOnFrame, TxKeeps
<1>2. CASE t.st = "await" /\ f.pci = "FC"
  <2>1. /\ f.fs \in {"cts", "wait", "ovflw", "reserved"}
        /\ f.bs \in Byte8 /\ f.stmin \in Byte8
    BY <1>2 DEF Frames
  <2>2. CASE f.fs = "cts"
    <3> DEFINE u == [t EXCEPT !.st = "cons", !.timer = 0, !.bs = f.bs,
                              !.stmin = decode_stmin(f.stmin),
                              !.cfs = 0, !.waits = 0]
    <3>1. TxOnFrame(t, f) = TxKeeps(u)
      BY <1>2, <2>2 DEF TxOnFrame
    <3>2. decode_stmin(f.stmin) \in 0..127
      BY <2>1 DEF decode_stmin, Byte8
    <3>3. u \in TxMachines
      <4>1. 0 \in 0..(CounterMod - 1)
        BY Constants
      <4> QED BY <2>1, <3>2, <4>1, TxGranted
    <3>4. TxSound(u)
      BY <1>2 DEF TxMachines, TxSound
    <3>5. TxOnFrame(t, f).tx = u /\ TxOnFrame(t, f).err = "ok"
      BY <3>1 DEF TxKeeps
    <3> HIDE DEF u
    <3> QED BY <3>3, <3>4, <3>5
  <2>3. CASE f.fs = "wait"
    <3> DEFINE n == [t EXCEPT !.waits = Increment(@)]
    <3>1. n \in TxMachines /\ n.offset < Len(n.payload)
      BY <1>2, CounterTyped DEF TxMachines, TxSound
    <3>2. AwaitFc(n) \in TxMachines /\ TxSound(AwaitFc(n))
      BY <3>1, AwaitTyped
    <3>3. CASE Overflows(t, t.waits)
      <4>1. TxOnFrame(t, f) = TxKeeps([t EXCEPT !.st = "panic"])
        BY <1>2, <2>3, <3>3 DEF TxOnFrame
      <4> QED BY <4>1, TxPanics DEF TxKeeps
    <3>4. CASE ~Overflows(t, t.waits)
      <4>1. TxOnFrame(t, f) =
              [tx |-> AwaitFc(n), err |-> IF n.waits > WftMax THEN "WaitLimit" ELSE "ok"]
        BY <1>2, <2>3, <3>4 DEF TxOnFrame
      <4> QED BY <3>2, <4>1 DEF Errors
    <3> QED BY <3>3, <3>4
  <2>4. CASE f.fs \in {"ovflw", "reserved"}
    BY <1>2, <2>4 DEF TxOnFrame, Errors
  <2> QED BY <2>1, <2>2, <2>3, <2>4
<1> QED BY <1>1, <1>2

-----------------------------------------------------------------------------

LEMMA RxFields ==
  ASSUME NEW r \in RxMachines
  PROVE  /\ r.buf \in Seq(Bytes) /\ Len(r.buf) \in Nat /\ r.ffdl \in Nat
         /\ r.sn \in 0..(SnMod - 1) /\ r.cfs \in 0..(CounterMod - 1)
         /\ r.bs \in Byte8 /\ r.stmin \in Byte8 /\ r.checked \in BOOLEAN
<1>1. r.buf \in Seq(Bytes) /\ r.ffdl \in Nat
  BY DEF RxMachines
<1>2. /\ r.sn \in 0..(SnMod - 1) /\ r.cfs \in 0..(CounterMod - 1)
      /\ r.bs \in Byte8 /\ r.stmin \in Byte8 /\ r.checked \in BOOLEAN
  BY Zenon DEF RxMachines
<1>3. Len(r.buf) \in Nat
  BY <1>1, LenProperties
<1> QED BY <1>1, <1>2, <1>3, Zenon

LEMMA RxNewTyped ==
  ASSUME MachineAssumption, NEW b \in Byte8, NEW g \in Byte8, NEW c \in BOOLEAN
  PROVE  RxNew(b, g, c) \in RxMachines /\ RxSound(RxNew(b, g, c))
BY Constants, EmptySeq DEF RxNew, RxMachines, RxSound

LEMMA RxDropTyped ==
  ASSUME MachineAssumption, NEW r \in RxMachines
  PROVE  RxDrop(r) \in RxMachines /\ RxSound(RxDrop(r))
<1>1. 0 \in 0..(SnMod - 1) /\ 0 \in 0..(CounterMod - 1) /\ 0 \in -1..NCr
  BY Constants
<1>2. \A s \in 0..(SnMod - 1), k \in 0..(CounterMod - 1), n \in -1..NCr :
        [r EXCEPT !.st = "idle", !.sn = s, !.cfs = k, !.timer = n] \in RxMachines
  BY Zenon DEF RxMachines
<1>3. RxDrop(r) \in RxMachines
  BY <1>1, <1>2, Zenon DEF RxDrop
<1>4. RxDrop(r).st = "idle"
  BY DEF RxDrop, RxMachines
<1> QED BY <1>3, <1>4 DEF RxSound

\* A machine that goes on receiving.
LEMMA RxReceives ==
  ASSUME MachineAssumption, NEW r \in RxMachines, NEW n \in Nat,
         NEW b \in Seq(Bytes), NEW s \in 0..(SnMod - 1),
         NEW k \in 0..(CounterMod - 1)
  PROVE  [r EXCEPT !.st = "receiving", !.ffdl = n, !.buf = b, !.sn = s,
                   !.cfs = k, !.timer = NCr] \in RxMachines
<1>1. NCr \in -1..NCr
  BY Constants
<1>2. [r EXCEPT !.st = "receiving", !.ffdl = n, !.buf = b] \in RxMachines
  BY DEF RxMachines
<1>3. \A u \in RxMachines : [u EXCEPT !.sn = s, !.cfs = k, !.timer = NCr] \in RxMachines
  BY <1>1, Zenon DEF RxMachines
<1>4. [[r EXCEPT !.st = "receiving", !.ffdl = n, !.buf = b]
         EXCEPT !.sn = s, !.cfs = k, !.timer = NCr] \in RxMachines
  BY <1>2, <1>3
<1> QED BY <1>4

\* A machine that took a consecutive frame and waits for another.
LEMMA RxAccumulates ==
  ASSUME MachineAssumption, NEW r \in RxMachines,
         NEW b \in Seq(Bytes), NEW s \in 0..(SnMod - 1),
         NEW k \in 0..(CounterMod - 1), Len(b) < r.ffdl
  PROVE  LET u == [[r EXCEPT !.buf = b, !.sn = s, !.timer = NCr] EXCEPT !.cfs = k]
         IN  u \in RxMachines /\ RxSound(u)
<1> DEFINE v == [r EXCEPT !.buf = b, !.sn = s, !.timer = NCr]
           u == [v EXCEPT !.cfs = k]
<1>1. NCr \in -1..NCr
  BY Constants
<1>2. v \in RxMachines
  BY <1>1 DEF RxMachines
<1>3. \A w \in RxMachines : [w EXCEPT !.cfs = k] \in RxMachines
  BY DEF RxMachines
<1>4. u \in RxMachines
  BY <1>2, <1>3, Zenon
<1>5. u.buf = b /\ u.ffdl = r.ffdl
  BY DEF RxMachines
<1> QED BY <1>4, <1>5 DEF RxSound

\* What on_frame makes of a frame, in one sentence: the machine keeps its type
\* and its bounds, and a payload it hands over is not empty.
RxFine(o) ==
  /\ o.rx \in RxMachines /\ RxSound(o.rx)
  /\ o.ev \in {"Malformed", "Sequence", "fc", "continue", "panic", "done"}
  /\ o.out \in Seq(Bytes)
  /\ o.ev = "done" => Len(o.out) >= 1

LEMMA RxKeepsFine ==
  ASSUME NEW r \in RxMachines, RxSound(r),
         NEW ev \in {"Malformed", "Sequence", "fc", "continue", "panic"}
  PROVE  RxFine(RxKeeps(r, ev))
BY EmptySeq DEF RxKeeps, RxFine

LEMMA RxSingleFine ==
  ASSUME MachineAssumption, NEW r \in RxMachines, RxSound(r),
         NEW f, f.len \in Nat, f.data \in Seq(Bytes)
  PROVE  RxFine(RxSingle(r, f))
<1>1. CASE f.len = 0 \/ f.len > Len(f.data)
  BY <1>1, RxKeepsFine DEF RxSingle
<1>2. CASE ~(f.len = 0 \/ f.len > Len(f.data))
  <2>1. f.len \in 0..Len(f.data) /\ f.len >= 1
    BY <1>2, LenProperties
  <2>2. /\ SubSeq(f.data, 1, f.len) \in Seq(Bytes)
        /\ Len(SubSeq(f.data, 1, f.len)) = f.len
    BY <2>1, SubSeqTyped
  <2>3. RxSingle(r, f) = [rx |-> RxDrop(r), ev |-> "done", out |-> SubSeq(f.data, 1, f.len)]
    BY <1>2 DEF RxSingle
  <2> QED BY <2>1, <2>2, <2>3, RxDropTyped DEF RxFine
<1> QED BY <1>1, <1>2

LEMMA RxFirstFine ==
  ASSUME MachineAssumption, NEW r \in RxMachines, RxSound(r),
         NEW f, f.len \in Nat, f.data \in Seq(Bytes)
  PROVE  RxFine(RxFirst(r, f))
<1>1. CASE Len(f.data) < FrameData - 1 \/ f.len <= FrameData
  BY <1>1, RxKeepsFine DEF RxFirst
<1>2. CASE ~(Len(f.data) < FrameData - 1 \/ f.len <= FrameData)
  <2> DEFINE b == SubSeq(f.data, 1, FrameData - 1)
             u == [r EXCEPT !.st = "receiving", !.ffdl = f.len, !.buf = b,
                            !.sn = 1 % SnMod, !.cfs = 0, !.timer = NCr]
  <2>1. b \in Seq(Bytes) /\ Len(b) = FrameData - 1 /\ Len(b) < f.len
    <3>1. FrameData - 1 \in 0..Len(f.data)
      BY <1>2, Constants, LenProperties
    <3>2. b \in Seq(Bytes) /\ Len(b) = FrameData - 1
      BY <3>1, SubSeqTyped, Zenon
    <3>3. FrameData - 1 < f.len
      BY <1>2, Constants
    <3> QED BY <3>2, <3>3, Zenon
  <2>2. 1 % SnMod \in 0..(SnMod - 1) /\ 0 \in 0..(CounterMod - 1)
    BY SnTyped, Constants
  <2> HIDE DEF b
  <2>3. u \in RxMachines
    BY <2>1, <2>2, RxReceives
  <2>4. u.buf = b /\ u.ffdl = f.len
    BY DEF RxMachines
  <2>5. RxFirst(r, f) = RxKeeps(u, "fc")
    BY <1>2 DEF RxFirst, b
  <2>6. RxSound(u)
    BY <2>1, <2>4 DEF RxSound
  <2> HIDE DEF u
  <2> QED BY <2>3, <2>5, <2>6, RxKeepsFine
<1> QED BY <1>1, <1>2

LEMMA RxConsecutiveFine ==
  ASSUME MachineAssumption, NEW r \in RxMachines, RxSound(r),
         NEW f, f.sn \in 0..(SnMod - 1), f.data \in Seq(Bytes)
  PROVE  RxFine(RxConsecutive(r, f))
<1> DEFINE take == Least(Least(r.ffdl - Len(r.buf), FrameData), Len(f.data))
           part == SubSeq(f.data, 1, take)
           buf  == r.buf \o part
           more == [r EXCEPT !.buf = buf, !.sn = (f.sn + 1) % SnMod, !.timer = NCr]
           cfs  == Increment(r.cfs)
<1>1. CASE r.st # "receiving"
  BY <1>1, RxKeepsFine DEF RxConsecutive
<1>2. CASE r.st = "receiving" /\ f.sn # r.sn
  <2>1. RxConsecutive(r, f) = RxKeeps(RxDrop(r), "Sequence")
    BY <1>2 DEF RxConsecutive
  <2> QED BY <2>1, RxDropTyped, RxKeepsFine
<1>3. CASE r.st = "receiving" /\ f.sn = r.sn
  <2>1. r.buf \in Seq(Bytes) /\ Len(r.buf) \in Nat /\ r.ffdl \in Nat /\ Len(r.buf) < r.ffdl
    BY <1>3, RxFields DEF RxSound
  <2>2. take \in 0..Len(f.data)
    <3>1. Len(f.data) \in Nat /\ FrameData \in Nat
      BY Constants, LenProperties
    <3>2. \A n, m, k \in Nat : Least(Least(n, m), k) \in 0..k
      BY DEF Least
    <3>3. r.ffdl - Len(r.buf) \in Nat
      BY <2>1
    <3> QED BY <3>1, <3>2, <3>3
  <2>3. buf \in Seq(Bytes) /\ Len(buf) \in Nat
    <3>1. part \in Seq(Bytes)
      BY <2>2, SubSeqTyped
    <3>2. buf \in Seq(Bytes)
      BY <2>1, <3>1, ConcatProperties
    <3> QED BY <3>2, LenProperties
  <2> HIDE DEF take
  <2>4. CASE Len(buf) >= r.ffdl
    <3>1. r.ffdl \in 0..Len(buf) /\ r.ffdl >= 1
      BY <2>1, <2>3, <2>4
    <3>2. SubSeq(buf, 1, r.ffdl) \in Seq(Bytes) /\ Len(SubSeq(buf, 1, r.ffdl)) = r.ffdl
      BY <2>3, <3>1, SubSeqTyped
    <3>3. RxConsecutive(r, f) = RxDone(r, SubSeq(buf, 1, r.ffdl))
      BY <1>3, <2>4 DEF RxConsecutive, take
    <3> DEFINE n == RxNew(r.bs, r.stmin, r.checked)
               d == [n EXCEPT !.ffdl = r.ffdl]
    <3>4. n \in RxMachines
      BY RxFields, RxNewTyped
    <3>5. d \in RxMachines /\ d.st = "idle"
      <4>1. n.st = "idle"
        BY DEF RxNew
      <4> HIDE DEF n
      <4> QED BY <2>1, <3>4, <4>1 DEF RxMachines
    <3>6. RxSound(d)
      BY <3>5 DEF RxSound
    <3>7. RxDone(r, SubSeq(buf, 1, r.ffdl)) =
            [rx |-> d, ev |-> "done", out |-> SubSeq(buf, 1, r.ffdl)]
      BY DEF RxDone
    <3> HIDE DEF d, buf
    <3>8. /\ RxConsecutive(r, f).rx = d /\ RxConsecutive(r, f).ev = "done"
          /\ RxConsecutive(r, f).out = SubSeq(buf, 1, r.ffdl)
      BY <3>3, <3>7
    <3>9. Len(RxConsecutive(r, f).out) >= 1
      BY <3>1, <3>2, <3>8
    <3> QED BY <3>2, <3>5, <3>6, <3>8, <3>9, Zenon DEF RxFine
  <2>5. CASE Len(buf) < r.ffdl /\ Overflows(r, r.cfs)
    <3> DEFINE u == [r EXCEPT !.st = "panic"]
    <3>1. RxConsecutive(r, f) = RxKeeps(u, "panic")
      BY <1>3, <2>1, <2>3, <2>5 DEF RxConsecutive, take
    <3>2. u \in RxMachines /\ RxSound(u)
      BY DEF RxMachines, RxSound
    <3> HIDE DEF u
    <3> QED BY <3>1, <3>2, RxKeepsFine
  <2>6. CASE Len(buf) < r.ffdl /\ ~Overflows(r, r.cfs)
    <3> DEFINE go(k) == [more EXCEPT !.cfs = k]
    <3>1. /\ (f.sn + 1) % SnMod \in 0..(SnMod - 1)
          /\ cfs \in 0..(CounterMod - 1) /\ 0 \in 0..(CounterMod - 1)
      <4>1. f.sn + 1 \in Nat /\ 0 \in 0..(CounterMod - 1)
        BY Constants
      <4>2. (f.sn + 1) % SnMod \in 0..(SnMod - 1)
        BY <4>1, SnTyped, Zenon
      <4>3. cfs \in 0..(CounterMod - 1)
        BY CounterTyped, RxFields, Zenon
      <4> QED BY <4>1, <4>2, <4>3, Zenon
    <3>2. \/ RxConsecutive(r, f) = RxKeeps(go(0), "fc")
          \/ RxConsecutive(r, f) = RxKeeps(go(cfs), "continue")
      BY <1>3, <2>1, <2>3, <2>6 DEF RxConsecutive, take
    <3> HIDE DEF buf, cfs
    <3>3. go(0) \in RxMachines /\ RxSound(go(0))
      BY <2>3, <2>6, <3>1, RxAccumulates
    <3>4. go(cfs) \in RxMachines /\ RxSound(go(cfs))
      BY <2>3, <2>6, <3>1, RxAccumulates
    <3> HIDE DEF go
    <3> QED BY <3>2, <3>3, <3>4, RxKeepsFine
  <2>7. Len(buf) >= r.ffdl \/ Len(buf) < r.ffdl
    <3> HIDE DEF buf
    <3> QED BY <2>1, <2>3
  <2> QED BY <2>4, <2>5, <2>6, <2>7, Zenon
<1> QED BY <1>1, <1>2, <1>3

LEMMA RxOnFrameFine ==
  ASSUME MachineAssumption, NEW r \in RxMachines, RxSound(r), NEW f \in Frames
  PROVE  RxFine(RxOnFrame(r, f))
<1>1. CASE f.pci \in {"SF", "FF"}
  <2>1. f.len \in Nat /\ f.data \in Seq(Bytes)
    BY <1>1 DEF Frames
  <2> QED BY <1>1, <2>1, RxSingleFine, RxFirstFine DEF RxOnFrame
<1>2. CASE f.pci = "CF"
  <2>1. f.sn \in 0..(SnMod - 1) /\ f.data \in Seq(Bytes)
    BY <1>2 DEF Frames
  <2> QED BY <1>2, <2>1, RxConsecutiveFine DEF RxOnFrame
<1>3. CASE f.pci \notin {"SF", "FF", "CF"}
  BY <1>3, RxKeepsFine DEF RxOnFrame
<1> QED BY <1>1, <1>2, <1>3

-----------------------------------------------------------------------------
(* The invariant, cut along the variables its parts speak of.               *)

HostType ==
  /\ pc \in {"idle", "send", "fcpoll", "recv", "rxpoll", "panicked"}
  /\ op \in {"none", "send", "recv", "request"}
  /\ tx \in TxMachines /\ TxSound(tx)
  /\ rx \in RxMachines /\ RxSound(rx)
  /\ left \in 0..RecvTimeout /\ polled \in BOOLEAN /\ pends \in 0..MaxPending
  /\ result \in [err : {"none", "ok"} \cup Errors, data : Seq(Bytes)]
  /\ said \in Seq(Seq(Bytes))

EcuType ==
  /\ ecuTx \in TxMachines /\ TxSound(ecuTx)
  /\ ecuRx \in RxMachines /\ RxSound(ecuRx)
  /\ owed \in BOOLEAN /\ todo \in Nat /\ heard \subseteq Seq(Bytes)

WireType == toEcu \in Seq(Frames) /\ ring \in Seq(Frames)

CountType ==
  /\ waited \in Nat
  /\ ncalls \in 0..MaxCalls /\ npends \in 0..MaxPends /\ nfaults \in 0..MaxFaults

TypedAndSound == HostType /\ EcuType /\ WireType /\ CountType

LEMMA SplitInvariant == TypedAndSound <=> TypeOK /\ NoUnderflow
BY DEF TypedAndSound, HostType, EcuType, WireType, CountType, TypeOK, NoUnderflow

LEMMA CallConstants ==
  ASSUME IsoTpAssumption
  PROVE  /\ OverflowChecks \in BOOLEAN
         /\ HostBs \in Byte8 /\ HostStMin \in Byte8
         /\ EcuBs \in Byte8 /\ EcuStMin \in Byte8
         /\ RecvTimeout \in Nat /\ RecvTimeout >= 1 /\ RingCap \in Nat
         /\ MaxPending \in Nat /\ MaxCalls \in Nat /\ MaxPends \in Nat
         /\ MaxFaults \in Nat
         /\ RequestLens \subseteq Nat /\ AnswerLens \subseteq Nat \ {0}
BY DEF IsoTpAssumption, Byte8

LEMMA HostRxTyped == HostRx \in RxMachines /\ RxSound(HostRx)
BY MachineAssumption, IsoTpAssumption, CallConstants, RxNewTyped DEF HostRx

LEMMA EcuIdleTyped == EcuIdle \in RxMachines /\ RxSound(EcuIdle)
BY MachineAssumption, IsoTpAssumption, CallConstants, RxNewTyped DEF EcuIdle

LEMMA MessageTyped ==
  ASSUME NEW kind \in {"req", "resp", "pend", "pad"}, NEW n \in Nat, NEW len \in Nat
  PROVE  Message(kind, n, len) \in Seq(Bytes)
<1>1. \A i \in 1..len : <<kind, n, len, i>> \in Bytes
  BY DEF Bytes
<1>2. [i \in 1..len |-> <<kind, n, len, i>>] \in [1..len -> Bytes]
  BY <1>1
<1> QED BY <1>2 DEF Message

LEMMA RequestTyped ==
  ASSUME NEW d \in Seq(Bytes), Len(d) >= 1
  PROVE  Request(d) \in Nat
<1>1. d[1] \in Bytes
  BY ElementOfSeq, LenProperties
<1> QED BY <1>1 DEF Request, Bytes

LEMMA AfterTyped ==
  ASSUME said \in Seq(Seq(Bytes)), NEW d
  PROVE  After(d) \in Seq(Seq(Bytes))
<1>1. CASE \E i \in DOMAIN said : said[i] = d
  <2> DEFINE i == CHOOSE j \in DOMAIN said : said[j] = d
  <2>1. i \in DOMAIN said
    BY <1>1
  <2>2. i \in 1..Len(said) /\ Len(said) \in Nat
    BY <2>1, LenProperties
  <2>3. After(d) = SubSeq(said, 1 + i, Len(said))
    BY <1>1 DEF After
  <2> HIDE DEF i
  <2>4. 1 + i \in 1..(Len(said) + 1) /\ Len(said) \in (1 + i - 1)..Len(said)
    BY <2>2
  <2> QED BY <2>3, <2>4, SubSeqProperties
<1>2. CASE ~\E i \in DOMAIN said : said[i] = d
  BY <1>2 DEF After
<1> QED BY <1>1, <1>2

-----------------------------------------------------------------------------
(* What the ends of a host step do to the caller's variables.               *)

LEMMA ReturnTyped ==
  ASSUME HostType, NEW err \in {"none", "ok"} \cup Errors, NEW d \in Seq(Bytes),
         Return(err, d)
  PROVE  HostType'
<1>1. said' \in Seq(Seq(Bytes))
  BY AfterTyped, Zenon DEF HostType, Return
<1>2. result' \in [err : {"none", "ok"} \cup Errors, data : Seq(Bytes)]
  BY DEF Return
<1>3. tx' \in TxMachines /\ TxSound(tx)'
  BY MachineAssumption, TxNoneTyped DEF Return, TxSound
<1>4. rx' \in RxMachines /\ RxSound(rx)'
  BY HostRxTyped DEF Return, RxSound
<1>5. left' \in 0..RecvTimeout /\ pends' \in 0..MaxPending
  BY IsoTpAssumption, CallConstants DEF Return
<1>6. pc' = "idle" /\ op' = "none" /\ polled' = FALSE
  BY DEF Return
<1> QED BY <1>1, <1>2, <1>3, <1>4, <1>5, <1>6 DEF HostType

LEMMA FailsTyped ==
  ASSUME HostType, NEW err \in Errors, Return(err, << >>)
  PROVE  HostType'
BY ReturnTyped, EmptySeq

LEMMA StartRecvTyped ==
  ASSUME HostType, StartRecv, pends' \in 0..MaxPending
  PROVE  HostType'
<1>1. tx' \in TxMachines /\ TxSound(tx)'
  BY MachineAssumption, TxNoneTyped DEF StartRecv, TxSound
<1>2. rx' \in RxMachines /\ RxSound(rx)'
  BY HostRxTyped DEF StartRecv, RxSound
<1>3. left' \in 0..RecvTimeout
  BY IsoTpAssumption, CallConstants DEF StartRecv
<1> QED BY <1>1, <1>2, <1>3 DEF HostType, StartRecv

LEMMA ContinueTyped ==
  ASSUME HostType, NEW t \in TxMachines, TxSound(t), NEW r \in RxMachines, RxSound(r),
         NEW l \in {"idle", "send", "fcpoll", "recv", "rxpoll", "panicked"},
         Continue(l, t, r)
  PROVE  HostType'
BY DEF HostType, Continue, TxSound, RxSound

LEMMA PanicTyped == HostType /\ Panic => HostType'
BY ContinueTyped DEF Panic, HostType

LEMMA AppendTyped ==
  ASSUME NEW S, NEW s \in Seq(S), NEW e \in S
  PROVE  Append(s, e) \in Seq(S)
BY AppendProperties

LEMMA TailTyped ==
  ASSUME NEW S, NEW s \in Seq(S), s # << >>
  PROVE  Head(s) \in S /\ Tail(s) \in Seq(S)
BY HeadTailProperties

LEMMA DepositTyped ==
  ASSUME WireType, NEW f \in Frames, Deposit(f)
  PROVE  ring' \in Seq(Frames)
BY AppendTyped DEF WireType, Deposit

LEMMA FlowControlTyped ==
  ASSUME NEW fs \in {"cts", "wait", "ovflw"}, NEW b \in Byte8, NEW g \in Byte8
  PROVE  FlowControl(fs, b, g) \in Frames
BY DEF FlowControl, Frames

LEMMA FaultTyped ==
  ASSUME CountType, NEW k, Fault(k)
  PROVE  nfaults' \in 0..MaxFaults
BY IsoTpAssumption, CallConstants DEF CountType, Fault

LEMMA InitTyped == Init => TypedAndSound
<1> SUFFICES ASSUME Init PROVE TypedAndSound
  OBVIOUS
<1>1. HostType
  <2>1. tx \in TxMachines /\ TxSound(tx) /\ rx \in RxMachines /\ RxSound(rx)
    BY MachineAssumption, TxNoneTyped, HostRxTyped DEF Init
  <2>2. left \in 0..RecvTimeout /\ pends \in 0..MaxPending
    BY IsoTpAssumption, CallConstants DEF Init
  <2>3. result \in [err : {"none", "ok"} \cup Errors, data : Seq(Bytes)]
    BY EmptySeq DEF Init, NoResult
  <2>4. said \in Seq(Seq(Bytes))
    BY EmptySeq DEF Init
  <2>5. pc = "idle" /\ op = "none" /\ polled = FALSE
    BY DEF Init
  <2> QED BY <2>1, <2>2, <2>3, <2>4, <2>5 DEF HostType
<1>2. EcuType
  BY MachineAssumption, TxNoneTyped, EcuIdleTyped DEF Init, EcuType
<1>3. WireType
  BY EmptySeq DEF Init, WireType
<1>4. CountType
  BY IsoTpAssumption, CallConstants DEF Init, CountType
<1> QED BY <1>1, <1>2, <1>3, <1>4 DEF TypedAndSound

-----------------------------------------------------------------------------
(* One lemma per action, or per group of actions with the same frame.       *)

LEMMA CallTyped == TypedAndSound /\ Call => TypedAndSound'
<1> SUFFICES ASSUME TypedAndSound, Call PROVE TypedAndSound'
  OBVIOUS
<1> USE DEF TypedAndSound
<1>1. EcuType' /\ WireType'
  BY DEF Call, EcuType, WireType, ecuVars, TxSound, RxSound
<1>2. CountType'
  <2>1. ncalls \in Nat /\ ncalls' = ncalls + 1 /\ ncalls < MaxCalls /\ waited' = 0
    BY IsoTpAssumption, CallConstants DEF Call, CountType
  <2>2. ncalls' \in 0..MaxCalls
    BY <2>1, IsoTpAssumption, CallConstants
  <2>3. UNCHANGED <<npends, nfaults>>
    BY DEF Call
  <2> QED BY <2>1, <2>2, <2>3 DEF CountType
<1>3. HostType'
  <2>1. ASSUME pc' = "recv", op' = "recv", tx' = TxNone, rx' = HostRx,
               left' = RecvTimeout, polled' = FALSE, UNCHANGED <<pends, result, said>>
        PROVE  HostType'
    <3>1. tx' \in TxMachines /\ TxSound(tx)' /\ rx' \in RxMachines /\ RxSound(rx)'
      BY <2>1, MachineAssumption, TxNoneTyped, HostRxTyped DEF TxSound, RxSound
    <3>2. left' \in 0..RecvTimeout
      BY <2>1, IsoTpAssumption, CallConstants
    <3> QED BY <2>1, <3>1, <3>2 DEF HostType
  <2>2. ASSUME NEW o \in Ops \ {"recv"}, NEW len \in RequestLens,
               IF len = 0 \/ len > MaxPayload
               THEN Return(IF len = 0 THEN "Malformed" ELSE "PayloadTooLong", << >>)
               ELSE /\ op' = o /\ pc' = "send"
                    /\ tx' = TxNew(Message("req", ncalls + 1, len), OverflowChecks)
                    /\ UNCHANGED <<rx, left, polled, pends, result, said>>
        PROVE  HostType'
    <3>1. CASE len = 0 \/ len > MaxPayload
      BY <2>2, <3>1, FailsTyped DEF Errors
    <3>2. CASE ~(len = 0 \/ len > MaxPayload)
      <4>1. Message("req", ncalls + 1, len) \in Seq(Bytes)
        BY IsoTpAssumption, CallConstants, MessageTyped DEF CountType
      <4>2. tx' = TxNew(Message("req", ncalls + 1, len), OverflowChecks)
        BY <2>2, <3>2
      <4>3. tx' \in TxMachines /\ TxSound(tx')
        BY <4>1, <4>2, MachineAssumption, IsoTpAssumption, CallConstants, TxNewTyped
      <4>4. TxSound(tx)'
        BY <4>3 DEF TxSound
      <4>5. op' \in {"none", "send", "recv", "request"}
        BY <2>2, <3>2, IsoTpAssumption DEF IsoTpAssumption
      <4> QED BY <2>2, <3>2, <4>3, <4>4, <4>5 DEF HostType, RxSound
    <3> QED BY <3>1, <3>2
  <2> QED BY <2>1, <2>2, Zenon DEF Call
<1> QED BY <1>1, <1>2, <1>3

\* The frame a ready machine sends may go on the wire.
LEMMA SentTyped ==
  ASSUME WireType, NEW t \in TxMachines, TxSound(t), TxReady(t)
  PROVE  Append(toEcu, TxFrame(t)) \in Seq(Frames)
BY IsoTpAssumption, MachineAssumption, TxFrameTyped, AppendTyped DEF WireType

LEMMA SendFrameTyped == TypedAndSound /\ SendFrame => TypedAndSound'
<1> SUFFICES ASSUME TypedAndSound, SendFrame PROVE TypedAndSound'
  OBVIOUS
<1> USE DEF TypedAndSound
<1> DEFINE m == TxSent(tx)
<1>1. tx \in TxMachines /\ TxSound(tx) /\ TxReady(tx)
  BY DEF SendFrame, HostType
<1>2. m \in TxMachines /\ TxSound(m)
  BY <1>1, MachineAssumption, TxSentTyped
<1>3. EcuType'
  BY DEF SendFrame, EcuType, ecuVars, TxSound, RxSound
<1>4. WireType'
  <2>1. ring' = ring /\ (toEcu' = toEcu \/ toEcu' = Append(toEcu, TxFrame(tx)))
    BY DEF SendFrame
  <2> QED BY <1>1, <2>1, SentTyped DEF WireType
<1>5. CountType'
  <2>1. UNCHANGED <<waited, ncalls, npends, nfaults>>
    BY DEF SendFrame
  <2> QED BY <2>1 DEF CountType
<1>6. HostType'
  <2> HIDE DEF m
  <2>1. \/ Panic \/ Continue("send", m, rx) \/ Return("ok", << >>)
        \/ StartRecv /\ UNCHANGED pends
    BY DEF SendFrame, m
  <2>2. CASE StartRecv /\ UNCHANGED pends
    BY <2>2, StartRecvTyped DEF HostType
  <2>3. CASE Return("ok", << >>)
    BY <2>3, ReturnTyped, EmptySeq
  <2>4. CASE Continue("send", m, rx)
    BY <1>2, <2>4, ContinueTyped DEF HostType
  <2> QED BY <2>1, <2>2, <2>3, <2>4, PanicTyped
<1> QED BY <1>3, <1>4, <1>5, <1>6

LEMMA LinkTyped ==
  TypedAndSound /\ (SendFails \/ PollFails \/ FlowFails) => TypedAndSound'
<1> SUFFICES ASSUME TypedAndSound, SendFails \/ PollFails \/ FlowFails PROVE TypedAndSound'
  OBVIOUS
<1> USE DEF TypedAndSound
<1>1. HostType'
  <2>1. Return("Link", << >>)
    BY DEF SendFails, PollFails, FlowFails
  <2> QED BY <2>1, FailsTyped DEF Errors
<1>2. EcuType'
  BY DEF SendFails, PollFails, FlowFails, EcuType, ecuVars, TxSound, RxSound
<1>3. WireType'
  <2>1. ring' = ring \/ (ring # << >> /\ ring' = Tail(ring))
    BY DEF SendFails, PollFails, FlowFails
  <2>2. \/ toEcu' = toEcu
        \/ SendFails /\ toEcu' = Append(toEcu, TxFrame(tx))
        \/ toEcu' = Append(toEcu, FlowControl("cts", HostBs, HostStMin))
    BY DEF SendFails, PollFails, FlowFails
  <2>3. ring' \in Seq(Frames)
    BY <2>1, TailTyped DEF WireType
  <2>4. FlowControl("cts", HostBs, HostStMin) \in Frames
    BY IsoTpAssumption, CallConstants, FlowControlTyped
  <2>5. toEcu' \in Seq(Frames)
    <3>1. CASE toEcu' = toEcu
      BY <3>1 DEF WireType
    <3>2. CASE SendFails /\ toEcu' = Append(toEcu, TxFrame(tx))
      BY <3>2, SentTyped DEF SendFails, HostType
    <3>3. CASE toEcu' = Append(toEcu, FlowControl("cts", HostBs, HostStMin))
      BY <2>4, <3>3, AppendTyped DEF WireType
    <3> QED BY <2>2, <3>1, <3>2, <3>3
  <2> QED BY <2>3, <2>5 DEF WireType
<1>4. CountType'
  <2>1. nfaults' \in 0..MaxFaults
    BY FaultTyped DEF SendFails, PollFails, FlowFails
  <2>2. UNCHANGED <<waited, ncalls, npends>>
    BY DEF SendFails, PollFails, FlowFails
  <2> QED BY <2>1, <2>2 DEF CountType
<1> QED BY <1>1, <1>2, <1>3, <1>4

LEMMA LoopTyped == TypedAndSound /\ (AwaitFlow \/ RecvLoop \/ PollEmpty) => TypedAndSound'
<1> SUFFICES ASSUME TypedAndSound, AwaitFlow \/ RecvLoop \/ PollEmpty PROVE TypedAndSound'
  OBVIOUS
<1> USE DEF TypedAndSound
<1>1. EcuType' /\ WireType' /\ CountType'
  BY DEF AwaitFlow, RecvLoop, PollEmpty, EcuType, WireType, CountType, ecuVars, TxSound, RxSound
<1>2. \/ Return("FcTimeout", << >>) \/ Return("CfTimeout", << >>) \/ Return("Timeout", << >>)
      \/ \E l \in {"send", "recv", "fcpoll", "rxpoll"} : Continue(l, tx, rx)
  BY DEF AwaitFlow, RecvLoop, PollEmpty
<1>3. HostType'
  BY <1>2, FailsTyped, ContinueTyped DEF HostType, Errors
<1> QED BY <1>1, <1>3

LEMMA FlowPolledTyped == TypedAndSound /\ FlowPolled => TypedAndSound'
<1> SUFFICES ASSUME TypedAndSound, FlowPolled PROVE TypedAndSound'
  OBVIOUS
<1> USE DEF TypedAndSound
<1> DEFINE f == Head(ring)
           o == TxOnFrame(tx, f)
<1>1. f \in Frames /\ Tail(ring) \in Seq(Frames)
  BY TailTyped DEF FlowPolled, WireType
<1>2. o.tx \in TxMachines /\ TxSound(o.tx) /\ o.err \in {"ok"} \cup Errors
  BY <1>1, MachineAssumption, TxOnFrameTyped DEF HostType
<1>3. EcuType'
  BY DEF FlowPolled, EcuType, ecuVars, TxSound, RxSound
<1>4. WireType'
  BY <1>1 DEF FlowPolled, WireType
<1>5. CountType'
  <2>1. UNCHANGED <<ncalls, npends, nfaults>> /\ waited' \in {waited, waited + 1, 0}
    BY DEF FlowPolled
  <2> QED BY <2>1 DEF CountType
<1>6. HostType'
  <2> HIDE DEF o
  <2>1. \/ Panic \/ (o.err # "ok" /\ Return(o.err, << >>)) \/ Continue("send", o.tx, rx)
    BY DEF FlowPolled, o
  <2>2. CASE o.err # "ok" /\ Return(o.err, << >>)
    BY <1>2, <2>2, FailsTyped
  <2>3. CASE Continue("send", o.tx, rx)
    BY <1>2, <2>3, ContinueTyped DEF HostType
  <2> QED BY <2>1, <2>2, <2>3, PanicTyped
<1> QED BY <1>3, <1>4, <1>5, <1>6

LEMMA RecvPolledTyped == TypedAndSound /\ RecvPolled => TypedAndSound'
<1> SUFFICES ASSUME TypedAndSound, RecvPolled PROVE TypedAndSound'
  OBVIOUS
<1> USE DEF TypedAndSound
<1> DEFINE f == Head(ring)
           o == RxOnFrame(rx, f)
<1>1. f \in Frames /\ Tail(ring) \in Seq(Frames)
  BY TailTyped DEF RecvPolled, WireType
<1>2. RxFine(o)
  BY <1>1, MachineAssumption, RxOnFrameFine DEF HostType
<1>3. EcuType'
  BY DEF RecvPolled, EcuType, ecuVars, TxSound, RxSound
<1>4. WireType'
  <2>1. FlowControl("cts", HostBs, HostStMin) \in Frames
    BY IsoTpAssumption, CallConstants, FlowControlTyped
  <2>2. \/ toEcu' = toEcu \/ toEcu' = Append(toEcu, FlowControl("cts", HostBs, HostStMin))
    BY DEF RecvPolled
  <2> QED BY <1>1, <2>1, <2>2, AppendTyped DEF RecvPolled, WireType
<1>5. CountType'
  BY DEF RecvPolled, CountType
<1>6. HostType'
  <2> HIDE DEF o
  <2>1. \/ Continue("recv", tx, rx)
        \/ Panic
        \/ o.ev = "done" /\ Received(o.out)
        \/ Continue("recv", tx, o.rx)
        \/ o.ev \notin {"panic", "done", "fc", "continue"} /\ Return(o.ev, << >>)
    BY DEF RecvPolled, o
  <2>2. CASE Continue("recv", tx, rx) \/ Continue("recv", tx, o.rx)
    BY <1>2, <2>2, ContinueTyped DEF HostType, RxFine
  <2>3. CASE o.ev \notin {"panic", "done", "fc", "continue"} /\ Return(o.ev, << >>)
    BY <1>2, <2>3, FailsTyped DEF RxFine, Errors
  <2>4. CASE o.ev = "done" /\ Received(o.out)
    <3>1. CASE StartRecv /\ pends < MaxPending /\ pends' = pends + 1
      <4>1. pends' \in 0..MaxPending
        BY <3>1, IsoTpAssumption, CallConstants DEF HostType
      <4> QED BY <3>1, <4>1, StartRecvTyped
    <3>2. CASE Return("ok", o.out)
      BY <1>2, <3>2, ReturnTyped DEF RxFine
    <3> QED BY <2>4, <3>1, <3>2 DEF Received
  <2> QED BY <2>1, <2>2, <2>3, <2>4, PanicTyped
<1> QED BY <1>3, <1>4, <1>5, <1>6

LEMMA HostUnchanged == HostType /\ UNCHANGED <<hostVars, said>> => HostType'
BY DEF HostType, hostVars, TxSound, RxSound

LEMMA EcuReceiveTyped == TypedAndSound /\ EcuReceive => TypedAndSound'
<1> SUFFICES ASSUME TypedAndSound, EcuReceive PROVE TypedAndSound'
  OBVIOUS
<1> USE DEF TypedAndSound
<1> DEFINE f == Head(toEcu)
           t == TxOnFrame(ecuTx, f)
           r == RxOnFrame(ecuRx, f)
<1>1. f \in Frames /\ Tail(toEcu) \in Seq(Frames)
  BY TailTyped DEF EcuReceive, WireType
<1>2. t.tx \in TxMachines /\ TxSound(t.tx)
  BY <1>1, MachineAssumption, TxOnFrameTyped DEF EcuType
<1>3. RxFine(r)
  BY <1>1, MachineAssumption, RxOnFrameFine DEF EcuType
<1>4. HostType'
  BY HostUnchanged DEF EcuReceive
<1>5. WireType' /\ CountType'
  BY <1>1 DEF EcuReceive, WireType, CountType
<1>6. EcuType'
  <2> HIDE DEF t, r
  <2>1. CASE /\ ecuTx' \in {t.tx, TxNone}
             /\ UNCHANGED <<ecuRx, owed, todo, heard>>
    <3>1. ecuTx' \in TxMachines /\ TxSound(ecuTx')
      BY <1>2, <2>1, MachineAssumption, TxNoneTyped
    <3> QED BY <2>1, <3>1 DEF EcuType, TxSound, RxSound
  <2>2. CASE /\ ecuRx' = r.rx
             /\ owed' = (r.rx.st = "receiving" /\ (owed \/ r.ev = "fc"))
             /\ todo' = IF r.ev = "done" THEN Request(r.out) ELSE todo
             /\ heard' = IF r.ev = "done" THEN heard \cup {r.out} ELSE heard
             /\ UNCHANGED ecuTx
    <3>1. todo' \in Nat
      BY <1>3, <2>2, RequestTyped DEF EcuType, RxFine
    <3>2. heard' \subseteq Seq(Bytes)
      BY <1>3, <2>2 DEF EcuType, RxFine
    <3>3. ecuRx' \in RxMachines /\ RxSound(ecuRx')
      BY <1>3, <2>2 DEF RxFine
    <3>4. owed' \in BOOLEAN /\ ecuTx' \in TxMachines /\ TxSound(ecuTx')
      BY <2>2 DEF EcuType
    <3> QED BY <3>1, <3>2, <3>3, <3>4 DEF EcuType, TxSound, RxSound
  <2> QED BY <2>1, <2>2 DEF EcuReceive, t, r
<1> QED BY <1>4, <1>5, <1>6

LEMMA EcuFlowTyped == TypedAndSound /\ EcuFlow => TypedAndSound'
<1> SUFFICES ASSUME TypedAndSound, EcuFlow PROVE TypedAndSound'
  OBVIOUS
<1> USE DEF TypedAndSound
<1> PICK fs \in EcuFlows :
      /\ Deposit(FlowControl(fs, EcuBs, EcuStMin))
      /\ owed' = (fs = "wait")
      /\ ecuRx' = IF fs = "ovflw" THEN EcuIdle ELSE [ecuRx EXCEPT !.timer = NCr]
  BY DEF EcuFlow
<1>1. HostType' /\ CountType'
  BY HostUnchanged DEF EcuFlow, obsVars, CountType
<1>2. WireType'
  <2>1. FlowControl(fs, EcuBs, EcuStMin) \in Frames
    BY IsoTpAssumption, CallConstants, FlowControlTyped DEF IsoTpAssumption
  <2> QED BY <2>1, DepositTyped DEF EcuFlow, WireType
<1>3. EcuType'
  <2>1. NCr \in -1..NCr
    BY MachineAssumption, Constants
  <2>2. [ecuRx EXCEPT !.timer = NCr] \in RxMachines
    BY <2>1 DEF EcuType, RxMachines
  <2>3. RxSound([ecuRx EXCEPT !.timer = NCr])
    BY DEF EcuType, RxMachines, RxSound
  <2>4. ecuRx' \in RxMachines /\ RxSound(ecuRx')
    BY <2>2, <2>3, EcuIdleTyped
  <2>5. UNCHANGED <<ecuTx, todo, heard>> /\ owed' \in BOOLEAN
    BY DEF EcuFlow, obsVars
  <2> QED BY <2>4, <2>5 DEF EcuType, TxSound, RxSound
<1> QED BY <1>1, <1>2, <1>3

LEMMA EcuAnswerTyped == TypedAndSound /\ EcuAnswer => TypedAndSound'
<1> SUFFICES ASSUME TypedAndSound, EcuAnswer PROVE TypedAndSound'
  OBVIOUS
<1> USE DEF TypedAndSound
<1> PICK len \in AnswerLens :
      \/ /\ ecuTx' = TxNew(Message("resp", todo, len), FALSE)
         /\ said' = Append(said, Message("resp", todo, len))
         /\ todo' = 0 /\ UNCHANGED npends
      \/ /\ npends < MaxPends /\ npends' = npends + 1
         /\ ecuTx' = TxNew(Message("pend", todo, 1), FALSE)
         /\ said' = Append(said, Message("pend", todo, 1))
         /\ UNCHANGED todo
  BY DEF EcuAnswer
<1>0. /\ todo' \in {0, todo}
      /\ npends' = npends \/ (npends < MaxPends /\ npends' = npends + 1)
  BY Zenon
<1>1. PICK d \in Seq(Bytes) : ecuTx' = TxNew(d, FALSE) /\ said' = Append(said, d)
  <2>1. /\ Message("resp", todo, len) \in Seq(Bytes)
        /\ Message("pend", todo, 1) \in Seq(Bytes)
    BY IsoTpAssumption, CallConstants, MessageTyped DEF EcuType
  <2> QED BY <2>1
<1>2. HostType'
  <2>1. said' \in Seq(Seq(Bytes))
    BY <1>1, AppendTyped DEF HostType
  <2> QED BY <2>1 DEF EcuAnswer, hostVars, HostType, TxSound, RxSound
<1>3. EcuType'
  <2>1. ecuTx' \in TxMachines /\ TxSound(ecuTx')
    BY <1>1, MachineAssumption, TxNewTyped
  <2>2. UNCHANGED <<ecuRx, owed, heard>>
    BY DEF EcuAnswer
  <2>3. todo' \in Nat
    BY <1>0 DEF EcuType
  <2> QED BY <2>1, <2>2, <2>3 DEF EcuType, TxSound, RxSound
<1>4. WireType'
  BY DEF EcuAnswer, WireType
<1>5. CountType'
  <2>1. npends' \in 0..MaxPends
    BY <1>0, IsoTpAssumption, CallConstants DEF CountType
  <2> QED BY <2>1 DEF EcuAnswer, CountType
<1> QED BY <1>2, <1>3, <1>4, <1>5

LEMMA EcuSendTyped == TypedAndSound /\ EcuSend => TypedAndSound'
<1> SUFFICES ASSUME TypedAndSound, EcuSend PROVE TypedAndSound'
  OBVIOUS
<1> USE DEF TypedAndSound
<1> DEFINE m == TxSent(ecuTx)
<1>1. m \in TxMachines /\ TxSound(m) /\ TxFrame(ecuTx) \in Frames
  BY MachineAssumption, IsoTpAssumption, TxSentTyped, TxFrameTyped DEF EcuSend, EcuType
<1>2. HostType' /\ CountType'
  BY HostUnchanged DEF EcuSend, obsVars, CountType
<1>3. WireType'
  BY <1>1, DepositTyped DEF EcuSend, WireType
<1>4. EcuType'
  <2>1. ecuTx' \in {m, TxNone}
    BY DEF EcuSend
  <2> HIDE DEF m
  <2>2. ecuTx' \in TxMachines /\ TxSound(ecuTx')
    BY <1>1, <2>1, MachineAssumption, TxNoneTyped
  <2> QED BY <2>2 DEF EcuSend, EcuType, obsVars, TxSound, RxSound
<1> QED BY <1>2, <1>3, <1>4

LEMMA EcuStopsTyped == TypedAndSound /\ (EcuIgnores \/ EcuExpires) => TypedAndSound'
<1> SUFFICES ASSUME TypedAndSound, EcuIgnores \/ EcuExpires PROVE TypedAndSound'
  OBVIOUS
<1> USE DEF TypedAndSound
<1>1. HostType' /\ WireType'
  BY HostUnchanged DEF EcuIgnores, EcuExpires, obsVars, WireType
<1>2. CountType'
  <2>1. nfaults' \in 0..MaxFaults
    BY FaultTyped DEF EcuIgnores, EcuExpires, CountType
  <2> QED BY <2>1 DEF EcuIgnores, EcuExpires, obsVars, CountType
<1>3. EcuType'
  <2>1. ecuTx' \in {ecuTx, TxNone} /\ ecuRx' \in {ecuRx, EcuIdle}
    BY DEF EcuIgnores, EcuExpires
  <2>2. ecuTx' \in TxMachines /\ TxSound(ecuTx')
    BY <2>1, MachineAssumption, TxNoneTyped DEF EcuType
  <2>3. ecuRx' \in RxMachines /\ RxSound(ecuRx')
    BY <2>1, EcuIdleTyped DEF EcuType
  <2>4. heard' = heard /\ owed' \in {owed, FALSE} /\ todo' \in {todo, 0}
    BY DEF EcuIgnores, EcuExpires, obsVars
  <2> HIDE DEF TypedAndSound
  <2>5. owed' \in BOOLEAN
    <3>1. owed \in BOOLEAN /\ FALSE \in BOOLEAN
      BY DEF EcuType, TypedAndSound
    <3> QED BY <2>4, <3>1, Zenon
  <2>6. todo' \in Nat
    BY <2>4 DEF EcuType, TypedAndSound
  <2> QED BY <2>2, <2>3, <2>4, <2>5, <2>6 DEF EcuType, TypedAndSound, TxSound, RxSound
<1> QED BY <1>1, <1>2, <1>3

LEMMA BusTyped == TypedAndSound /\ (Lose \/ Repeat \/ Noise) => TypedAndSound'
<1> SUFFICES ASSUME TypedAndSound, Lose \/ Repeat \/ Noise PROVE TypedAndSound'
  OBVIOUS
<1> USE DEF TypedAndSound
<1>1. HostType' /\ EcuType'
  BY HostUnchanged DEF Lose, Repeat, Noise, obsVars, ecuVars, EcuType, TxSound, RxSound
<1>2. CountType'
  <2>1. nfaults' \in 0..MaxFaults
    BY FaultTyped DEF Lose, Repeat, Noise
  <2> QED BY <2>1 DEF Lose, Repeat, Noise, obsVars, CountType
<1>3. WireType'
  <2>1. ASSUME NEW s \in Seq(Frames), s # << >>
        PROVE  Tail(s) \in Seq(Frames) /\ <<Head(s)>> \o s \in Seq(Frames)
    <3>1. Tail(s) \in Seq(Frames) /\ Head(s) \in Frames
      BY <2>1, TailTyped
    <3>2. <<Head(s)>> \in Seq(Frames)
      BY <3>1
    <3> QED BY <3>1, <3>2, ConcatProperties
  <2>2. CASE Lose \/ Repeat
    BY <2>1, <2>2 DEF Lose, Repeat, WireType
  <2>3. CASE Noise
    <3>1. \A f \in NoiseFrames : f \in Frames
      BY IsoTpAssumption DEF IsoTpAssumption
    <3>2. ring' \in Seq(Frames)
      BY <2>3, <3>1, DepositTyped DEF Noise
    <3> QED BY <2>3, <3>2 DEF Noise, WireType
  <2> QED BY <2>2, <2>3
<1> QED BY <1>1, <1>2, <1>3

LEMMA TickTx ==
  ASSUME NEW t \in TxMachines, TxSound(t)
  PROVE  [t EXCEPT !.timer = Down(@)] \in TxMachines /\ TxSound([t EXCEPT !.timer = Down(@)])
<1>1. Down(t.timer) \in Nat
  BY TxFields DEF Down
<1>2. [t EXCEPT !.timer = Down(@)] \in TxMachines
  BY <1>1, TxTimed
<1> QED BY <1>2 DEF TxMachines, TxSound

LEMMA OneLess ==
  ASSUME NEW n \in Nat, NEW t \in -1..n, t >= 0
  PROVE  t - 1 \in -1..n
OBVIOUS

LEMMA TickRx ==
  ASSUME NEW r \in RxMachines, RxSound(r)
  PROVE  RxDown(r) \in RxMachines /\ RxSound(RxDown(r))
<1>1. CASE r.st = "receiving" /\ r.timer >= 0
  <2>1. r.timer - 1 \in -1..NCr
    <3>1. r.timer \in -1..NCr
      BY DEF RxMachines
    <3>2. NCr \in Nat
      BY MachineAssumption, Constants
    <3> QED BY <1>1, <3>1, <3>2, OneLess, Zenon
  <2>2. \A n \in -1..NCr : [r EXCEPT !.timer = n] \in RxMachines
    BY DEF RxMachines
  <2>3. RxDown(r) = [r EXCEPT !.timer = r.timer - 1]
    BY <1>1 DEF RxDown
  <2>4. RxDown(r) \in RxMachines
    BY <2>1, <2>2, <2>3, Zenon
  <2> QED BY <2>3, <2>4 DEF RxMachines, RxSound
<1>2. CASE ~(r.st = "receiving" /\ r.timer >= 0)
  BY <1>2 DEF RxDown
<1> QED BY <1>1, <1>2

LEMMA TickTyped == TypedAndSound /\ Tick => TypedAndSound'
<1> SUFFICES ASSUME TypedAndSound, Tick PROVE TypedAndSound'
  OBVIOUS
<1> USE DEF TypedAndSound
<1>1. tx' \in TxMachines /\ TxSound(tx') /\ ecuTx' \in TxMachines /\ TxSound(ecuTx')
  BY TickTx DEF Tick, HostType, EcuType
<1>2. rx' \in RxMachines /\ RxSound(rx') /\ ecuRx' \in RxMachines /\ RxSound(ecuRx')
  BY TickRx DEF Tick, HostType, EcuType
<1>3. HostType'
  <2>1. left' \in 0..RecvTimeout
    BY IsoTpAssumption, CallConstants DEF Tick, HostType, Down
  <2>2. polled' \in BOOLEAN
    BY DEF Tick, Polling
  <2>3. UNCHANGED <<pc, op, pends, result, said>>
    BY DEF Tick
  <2> QED BY <1>1, <1>2, <2>1, <2>2, <2>3 DEF HostType, TxSound, RxSound
<1>4. EcuType'
  BY <1>1, <1>2 DEF Tick, EcuType, TxSound, RxSound
<1>5. WireType'
  BY DEF Tick, WireType
<1>6. CountType'
  BY DEF Tick, CountType
<1> QED BY <1>3, <1>4, <1>5, <1>6

LEMMA StepTyped == TypedAndSound /\ [Next]_vars => TypedAndSound'
<1> SUFFICES ASSUME TypedAndSound, [Next]_vars PROVE TypedAndSound'
  OBVIOUS
<1>1. CASE UNCHANGED vars
  BY <1>1, HostUnchanged
     DEF vars, ecuVars, obsVars, TypedAndSound, EcuType, WireType, CountType, TxSound, RxSound
<1>2. CASE Next
  BY <1>2, CallTyped, SendFrameTyped, LinkTyped, LoopTyped, FlowPolledTyped,
     RecvPolledTyped, EcuReceiveTyped, EcuFlowTyped, EcuAnswerTyped, EcuSendTyped,
     EcuStopsTyped, BusTyped, TickTyped, Zenon DEF Next
<1> QED BY <1>1, <1>2

\* Types and bounds at once: neither is inductive alone, since the slices of
\* the machines are sequences only while the bounds hold.
THEOREM TypedAndSoundAlways == Spec => []TypedAndSound
<1>1. Init => TypedAndSound
  BY InitTyped
<1>2. TypedAndSound /\ [Next]_vars => TypedAndSound'
  BY StepTyped
<1> QED BY <1>1, <1>2, PTL DEF Spec

\* Every variable keeps its type, for any lengths, block sizes, STmin, faults
\* and noise.
THEOREM TypeCorrect == Spec => []TypeOK
<1>1. TypedAndSound => TypeOK
  BY SplitInvariant
<1> QED BY <1>1, TypedAndSoundAlways, PTL

\* No subtraction or slice in machine.rs leaves its range (machine.rs:146, 164
\* and 365), whatever frames arrive, in whatever order.
THEOREM NoUnderflowAlways == Spec => []NoUnderflow
<1>1. TypedAndSound => NoUnderflow
  BY SplitInvariant
<1> QED BY <1>1, TypedAndSoundAlways, PTL

-----------------------------------------------------------------------------
(* The limit on WAITs.  The count in the machine is the number of WAITs the  *)
(* caller took since the last grant as long as the u8 does not wrap, which  *)
(* wft_max < 255 rules out.                                                 *)

WaitsCounted ==
  /\ pc = "fcpoll" => tx.st = "await"
  /\ pc \in {"send", "fcpoll"} => waited = tx.waits /\ waited <= WftMax

LEMMA SendKeepsWaits ==
  ASSUME NEW t \in TxMachines, TxReady(t)
  PROVE  TxSent(t).waits = t.waits
<1>1. CASE t.st = "single"
  BY <1>1 DEF TxSent, TxMachines
<1>2. CASE t.st = "first"
  BY <1>2 DEF TxSent, TxMachines, AwaitFc
<1>3. CASE t.st = "cons"
  <2> DEFINE o == t.offset + Len(Chunk(t))
             q == (t.sn + 1) % SnMod
             k == Increment(t.cfs)
             n == [t EXCEPT !.offset = o, !.sn = q]
             c == [n EXCEPT !.cfs = Increment(@)]
  <2>1. TxSent(t) =
          IF n.offset >= Len(n.payload) THEN [n EXCEPT !.st = "done", !.timer = 0]
          ELSE IF Overflows(n, n.cfs) THEN [n EXCEPT !.st = "panic"]
          ELSE IF c.bs # 0 /\ c.cfs >= c.bs THEN AwaitFc(c)
          ELSE [c EXCEPT !.timer = c.stmin]
    BY <1>3 DEF TxSent, TxAfterCF
  <2>2. n.waits = t.waits /\ n = [t EXCEPT !.offset = o, !.sn = q]
    BY DEF TxMachines
  <2>3. c.waits = n.waits
    BY DEF TxMachines
  <2>4. /\ [n EXCEPT !.st = "done", !.timer = 0].waits = t.waits
        /\ [n EXCEPT !.st = "panic"].waits = t.waits
        /\ AwaitFc(c).waits = t.waits
        /\ [c EXCEPT !.timer = c.stmin].waits = t.waits
    BY DEF TxMachines, AwaitFc
  <2> HIDE DEF n, c
  <2> QED BY <2>1, <2>4
<1> QED BY <1>1, <1>2, <1>3 DEF TxReady

LEMMA FlowCounts ==
  ASSUME MachineAssumption, WftMax < CounterMod - 1, NEW t \in TxMachines,
         t.st = "await", t.waits <= WftMax, NEW f \in Frames,
         f.pci = "FC", TxOnFrame(t, f).err = "ok"
  PROVE  LET n == TxOnFrame(t, f).tx
         IN  \/ f.fs # "wait" /\ n.waits = 0
             \/ f.fs = "wait" /\ n.waits = t.waits + 1 /\ n.waits <= WftMax
<1>1. f.fs \in {"cts", "wait", "ovflw", "reserved"}
  BY DEF Frames
<1>2. CASE f.fs = "cts"
  BY <1>2 DEF TxOnFrame, TxKeeps, TxMachines
<1>3. CASE f.fs = "wait"
  <2>1. t.waits \in Nat /\ CounterMod \in Nat /\ t.waits + 1 < CounterMod
    BY TxFields, Constants
  <2>2. Increment(t.waits) = t.waits + 1
    BY <2>1 DEF Increment
  <2>3. ~Overflows(t, t.waits)
    BY <2>1 DEF Overflows
  <2> DEFINE n == [t EXCEPT !.waits = Increment(@)]
  <2>4. TxOnFrame(t, f) =
          [tx |-> AwaitFc(n), err |-> IF n.waits > WftMax THEN "WaitLimit" ELSE "ok"]
    BY <1>3, <2>3 DEF TxOnFrame
  <2>5. n.waits = t.waits + 1 /\ AwaitFc(n).waits = t.waits + 1
    BY <2>2 DEF AwaitFc, TxMachines
  <2> HIDE DEF n
  <2>6. ~(n.waits > WftMax)
    BY <2>4
  <2>7. TxOnFrame(t, f).tx = AwaitFc(n)
    BY <2>4
  <2> QED BY <1>3, <2>1, <2>5, <2>6, <2>7, Constants
<1>4. CASE f.fs \in {"ovflw", "reserved"}
  BY <1>4 DEF TxOnFrame
<1> QED BY <1>1, <1>2, <1>3, <1>4

LEMMA StepWaits ==
  ASSUME WftMax < CounterMod - 1, TypedAndSound, WaitsCounted, [Next]_vars
  PROVE  WaitsCounted'
<1> USE DEF WaitsCounted
<1>0. tx \in TxMachines /\ TxSound(tx)
  BY DEF TypedAndSound, HostType
<1>1. ASSUME pc' \notin {"send", "fcpoll"} PROVE WaitsCounted'
  BY <1>1
<1>2. ASSUME UNCHANGED <<pc, tx, waited>> PROVE WaitsCounted'
  BY <1>2
<1>3. CASE Call
  <2>1. ASSUME NEW d, tx' = TxNew(d, OverflowChecks), pc' = "send", waited' = 0
        PROVE  WaitsCounted'
    <3>1. tx'.waits = 0
      BY <2>1 DEF TxNew
    <3> QED BY <2>1, <3>1, MachineAssumption, Constants
  <2>2. \/ pc' \in {"recv", "idle"}
        \/ pc' = "send" /\ \E d : tx' = TxNew(d, OverflowChecks)
    BY <1>3 DEF Call, Return
  <2>3. waited' = 0
    BY <1>3 DEF Call
  <2> QED BY <1>1, <2>1, <2>2, <2>3
<1>4. CASE SendFrame
  <2>1. \/ pc' \notin {"send", "fcpoll"}
        \/ pc' = "send" /\ tx' = TxSent(tx)
    BY <1>4 DEF SendFrame, Panic, Continue, Return, StartRecv
  <2>2. pc = "send" /\ TxReady(tx) /\ waited' = waited
    BY <1>4 DEF SendFrame
  <2>3. TxSent(tx).waits = tx.waits
    BY <1>0, <2>2, SendKeepsWaits
  <2> QED BY <2>1, <2>2, <2>3
<1>5. CASE SendFails \/ PollFails \/ FlowFails \/ RecvLoop \/ RecvPolled
  <2>1. pc' \notin {"send", "fcpoll"}
    BY <1>5 DEF SendFails, PollFails, FlowFails, RecvLoop, RecvPolled, Received, Return,
       StartRecv, Continue, Panic
  <2> QED BY <1>1, <2>1
<1>6. CASE AwaitFlow
  <2>1. pc = "send" /\ tx.st = "await" /\ waited' = waited
    BY <1>6 DEF AwaitFlow
  <2>2. pc' = "idle" \/ (pc' = "fcpoll" /\ tx' = tx)
    BY <1>6 DEF AwaitFlow, Return, Continue
  <2> QED BY <2>1, <2>2
<1>7. CASE FlowPolled
  <2> DEFINE f == Head(ring)
             o == TxOnFrame(tx, f)
  <2>1. f \in Frames
    BY <1>7, TailTyped DEF FlowPolled, TypedAndSound, WireType
  <2>2. pc = "fcpoll" /\ tx.st = "await"
    BY <1>7 DEF FlowPolled
  <2>3. waited' = IF f.pci # "FC" THEN waited ELSE IF f.fs = "wait" THEN waited + 1 ELSE 0
    BY <1>7 DEF FlowPolled
  <2>4. \/ pc' \in {"panicked", "idle"}
        \/ o.err = "ok" /\ pc' = "send" /\ tx' = o.tx
    BY <1>7 DEF FlowPolled, Return, Continue, Panic
  <2>5. CASE o.err = "ok" /\ pc' = "send" /\ tx' = o.tx /\ f.pci = "FC"
    <3>1. \/ f.fs # "wait" /\ tx'.waits = 0
          \/ f.fs = "wait" /\ tx'.waits = tx.waits + 1 /\ tx'.waits <= WftMax
      BY <1>0, <2>1, <2>2, <2>5, MachineAssumption, FlowCounts
    <3> HIDE DEF f, o
    <3> QED BY <2>2, <2>3, <2>5, <3>1, MachineAssumption, Constants
  <2>6. CASE o.err = "ok" /\ pc' = "send" /\ tx' = o.tx /\ f.pci # "FC"
    <3>1. tx' = tx
      BY <2>6 DEF TxOnFrame, TxKeeps
    <3> QED BY <2>2, <2>3, <2>6, <3>1
  <2> QED BY <1>1, <2>4, <2>5, <2>6
<1>8. CASE PollEmpty
  <2>1. tx' = tx /\ waited' = waited /\ pc' # "fcpoll" /\ (pc' = "send" => pc = "fcpoll")
    BY <1>8 DEF PollEmpty, Continue
  <2> QED BY <2>1
<1>9. CASE \/ EcuReceive \/ EcuFlow \/ EcuAnswer \/ EcuIgnores \/ EcuSend \/ EcuExpires
           \/ Lose \/ Repeat \/ Noise \/ UNCHANGED vars
  <2>1. UNCHANGED <<pc, tx, waited>>
    BY <1>9 DEF EcuReceive, EcuFlow, EcuAnswer, EcuIgnores, EcuSend, EcuExpires,
       Lose, Repeat, Noise, vars, hostVars, obsVars
  <2> QED BY <1>2, <2>1
<1>10. CASE Tick
  <2>1. tx'.st = tx.st /\ tx'.waits = tx.waits /\ UNCHANGED <<pc, waited>>
    BY <1>0, <1>10 DEF Tick, TxMachines
  <2> QED BY <2>1
<1> QED BY <1>3, <1>4, <1>5, <1>6, <1>7, <1>8, <1>9, <1>10 DEF Next

\* Below 255 the limit is kept: a send tolerates wft_max WAITs between two
\* grants and no more (machine.rs:223-228).
THEOREM WaitLimit ==
  ASSUME WftMax < CounterMod - 1
  PROVE  Spec => []WaitLimitKept
<1>1. Init => WaitsCounted
  BY DEF Init, WaitsCounted
<1>2. TypedAndSound /\ WaitsCounted /\ [Next]_vars => WaitsCounted'
  BY StepWaits
<1>3. WaitsCounted => WaitLimitKept
  BY DEF WaitsCounted, WaitLimitKept
<1> QED BY <1>1, <1>2, <1>3, TypedAndSoundAlways, PTL DEF Spec

-----------------------------------------------------------------------------
(* The block size.  A transfer is in step with the ECU as long as nobody is *)
(* late, the link works, no frame is repeated or foreign and the ECU does   *)
(* not ask for patience; frames may be lost.                                *)

Undisturbed ==
  /\ Prompt /\ CounterMod >= 256 /\ "wait" \notin EcuFlows
  /\ FaultKinds \cap {"link", "repeat", "noise"} = {}

\* A flow control of the ECU is in the ring.
FlowComes == \E i \in DOMAIN ring : ring[i].pci = "FC"

\* There is one at most, and it is the ECU's.
OneFlow ==
  /\ \A i, j \in DOMAIN ring : ring[i].pci = "FC" /\ ring[j].pci = "FC" => i = j
  /\ \A i \in DOMAIN ring :
       ring[i].pci = "FC" => ring[i].fs \in EcuFlows /\ ring[i].bs = EcuBs

\* The host is in the middle of a message: it was granted a block.
InBlock == tx.st = "cons" \/ (tx.st = "await" /\ tx.cfs # 0)

\* The machine of a send exists while the send does.
TxPlaced ==
  /\ pc \in {"idle", "recv", "rxpoll"} => tx.st = "done"
  /\ pc = "panicked" => tx.st # "await"
  /\ pc = "fcpoll" => tx.st = "await"
  /\ tx.st \in {"single", "first"} => tx.cfs = 0

\* The ECU counts up to its block size.
EcuCounts ==
  /\ ecuRx.bs = EcuBs /\ ~ecuRx.checked
  /\ EcuBs # 0 /\ ecuRx.st = "receiving" => ecuRx.cfs < EcuBs

\* The ECU has of the message what the host has sent.
Abreast ==
  ecuRx.st = "receiving" =>
    ecuRx.cfs = 0 /\ ecuRx.ffdl = Len(tx.payload) /\ Len(ecuRx.buf) = tx.offset

\* A grant that is owed or comes is awaited, and nothing else is on its way.
GrantAwaited ==
  /\ owed \/ FlowComes => tx.st = "await" /\ toEcu = << >> /\ Abreast
  /\ owed => ~FlowComes

\* A transfer that lost time has lost its grant.
LateIsDead ==
  tx.st = "await" /\ tx.timer < NBs => toEcu = << >> /\ ~owed /\ ~FlowComes

\* A first frame is the last frame on its way, and the transfer's own.
FirstIsLast ==
  \A i \in DOMAIN toEcu : toEcu[i].pci = "FF" =>
    /\ i = Len(toEcu) /\ tx.st = "await"
    /\ toEcu[i].len = Len(tx.payload) /\ tx.offset = FrameData - 1

\* The first n frames of q are consecutive frames, the others are not.
Leads(q, n) ==
  /\ n \in 0..Len(q)
  /\ \A i \in 1..n : q[i].pci = "CF"
  /\ \A i \in (n + 1)..Len(q) : q[i].pci # "CF"

\* The n consecutive frames before machine r, which counts blocks, complete
\* none, or they complete the message.
Short(r, n) == r.cfs + n < EcuBs

Final(r, q, n) ==
  /\ n > 0 /\ r.cfs + n = EcuBs
  /\ \A i \in 1..(n - 1) : Len(q[i].data) = FrameData
  /\ Len(q[n].data) <= FrameData
  /\ Len(r.buf) + FrameData * (n - 1) + Len(q[n].data) >= r.ffdl

Quiet(r, q, n) ==
  EcuBs # 0 /\ r.st = "receiving" => Short(r, n) \/ Final(r, q, n)

\* Between two transfers the frames on their way complete no block.
Between == ~InBlock => \E n \in Nat : Leads(toEcu, n) /\ Quiet(ecuRx, toEcu, n)

BlockSize ==
  EcuBs # 0 => IF tx.st = "cons" THEN tx.cfs < EcuBs ELSE tx.cfs = EcuBs

\* The ECU has not counted more frames than the host; if it counted as many,
\* it has, or will have, what the host has sent.
InStep ==
  EcuBs # 0 /\ ecuRx.st = "receiving" =>
    /\ ecuRx.cfs + Len(toEcu) <= tx.cfs
    /\ ecuRx.cfs + Len(toEcu) = tx.cfs =>
         /\ ecuRx.ffdl = Len(tx.payload)
         /\ Len(ecuRx.buf) + FrameData * Len(toEcu) = tx.offset

\* Consecutive frames only, all of them full.
FullFrames(q) ==
  \A i \in DOMAIN q : q[i].pci = "CF" /\ Len(q[i].data) = FrameData

Within ==
  InBlock =>
    /\ tx.bs = EcuBs /\ FullFrames(toEcu)
    /\ EcuBs = 0 => tx.st = "cons"
    /\ BlockSize /\ InStep

InvBlock ==
  /\ TxPlaced /\ EcuCounts /\ OneFlow /\ GrantAwaited /\ LateIsDead
  /\ FirstIsLast /\ Between /\ Within

-----------------------------------------------------------------------------
(* Frames of the transmitter.                                               *)

LEMMA SliceBounds ==
  ASSUME NEW o \in Nat, NEW n \in Nat, NEW k \in Nat, k >= 1, o + k <= n
  PROVE  /\ o + 1 \in 1..(n + 1) /\ o + k \in ((o + 1) - 1)..n
         /\ ((o + k) - (o + 1)) + 1 = k
  OBVIOUS

LEMMA LastReaches ==
  ASSUME NEW o \in Nat, NEW n \in Nat, NEW c \in Int, NEW d \in Int,
         c <= d, c = n - o
  PROVE  o + d >= n
  OBVIOUS

LEMMA SubSeqLength ==
  ASSUME NEW S, NEW s \in Seq(S), NEW a \in 1..(Len(s) + 1), NEW b \in (a - 1)..Len(s)
  PROVE  Len(SubSeq(s, a, b)) = b - a + 1
<1>1. Len(s) \in Nat /\ a \in Nat /\ b \in Int
  BY LenProperties
<1>2. Len(SubSeq(s, a, b)) = IF a <= b THEN b - a + 1 ELSE 0
  BY SubSeqProperties
<1> QED BY <1>1, <1>2

LEMMA ChunkLength ==
  ASSUME MachineAssumption, NEW t \in TxMachines, t.offset < Len(t.payload)
  PROVE  /\ Chunk(t) \in Seq(Bytes) /\ Len(Chunk(t)) \in 1..FrameData
         /\ Len(Chunk(t)) = Least(FrameData, Len(t.payload) - t.offset)
<1>1. t.payload \in Seq(Bytes) /\ t.offset \in Nat /\ Len(t.payload) \in Nat
  BY TxFields, LenProperties
<1> DEFINE k == Least(FrameData, Len(t.payload) - t.offset)
<1>2. k \in 1..FrameData /\ t.offset + k <= Len(t.payload)
  BY <1>1, Constants DEF Least
<1>3. Chunk(t) = SubSeq(t.payload, t.offset + 1, t.offset + k)
  BY DEF Chunk
<1> HIDE DEF k
<1>4. k \in Nat /\ k >= 1
  BY <1>2, Constants
<1> DEFINE a == t.offset + 1
           b == t.offset + k
<1>5. /\ a \in 1..(Len(t.payload) + 1) /\ b \in (a - 1)..Len(t.payload)
      /\ b - a + 1 = k
  BY <1>1, <1>2, <1>4, SliceBounds, Zenon
<1>6. Chunk(t) = SubSeq(t.payload, a, b)
  BY <1>3
<1> HIDE DEF a, b
<1>7. Chunk(t) \in Seq(Bytes) /\ Len(Chunk(t)) = b - a + 1
  BY <1>1, <1>5, <1>6, SubSeqBetween, SubSeqLength
<1>8. Chunk(t) \in Seq(Bytes) /\ Len(Chunk(t)) = k
  BY <1>5, <1>7
<1> QED BY <1>2, <1>8, Zenon DEF k

LEMMA UpToNext ==
  ASSUME NEW n \in Nat
  PROVE  \A i \in 1..(n + 1) : i \in 1..n \/ i = n + 1
  OBVIOUS

LEMMA PadLength ==
  ASSUME IsoTpAssumption, MachineAssumption, NEW d \in Seq(Bytes), Len(d) <= FrameData
  PROVE  /\ pad(d) \in Seq(Bytes)
         /\ Len(pad(d)) \in Len(d)..FrameData
<1> DEFINE fill == [i \in 1..(FrameData - Len(d)) |-> PadByte]
<1>1. Len(d) \in Nat /\ FrameData \in Nat /\ PadByte \in Bytes
  BY LenProperties DEF IsoTpAssumption, MachineAssumption
<1>2. fill \in Seq(Bytes) /\ Len(fill) = FrameData - Len(d)
  BY <1>1
<1>3. pad(d) = IF Padded THEN d \o fill ELSE d
  BY DEF pad
<1> HIDE DEF fill
<1>4. d \o fill \in Seq(Bytes) /\ Len(d \o fill) = FrameData
  <2>1. d \o fill \in Seq(Bytes) /\ Len(d \o fill) = Len(d) + Len(fill)
    BY <1>2, ConcatProperties
  <2> QED BY <1>1, <1>2, <2>1
<1> QED BY <1>1, <1>3, <1>4

LEMMA Squeezed ==
  ASSUME NEW m \in Nat, NEW c \in 1..m, NEW d \in c..m
  PROVE  d \in Nat /\ c <= d /\ d <= m /\ (c = m => d = m)
OBVIOUS

\* A consecutive frame carries a full frame's bytes unless it is the last.
LEMMA FrameCarries ==
  ASSUME IsoTpAssumption, MachineAssumption, NEW t \in TxMachines, TxSound(t),
         t.st = "cons"
  PROVE  /\ TxFrame(t).pci = "CF"
         /\ Len(TxFrame(t).data) \in Nat /\ Len(TxFrame(t).data) <= FrameData
         /\ \/ Len(TxFrame(t).data) = FrameData /\ Len(Chunk(t)) = FrameData
            \/ t.offset + Len(TxFrame(t).data) >= Len(t.payload)
         /\ Len(Chunk(t)) <= Len(TxFrame(t).data)
<1>1. t.offset \in Nat /\ Len(t.payload) \in Nat /\ t.offset < Len(t.payload)
  BY TxFields, LenProperties DEF TxSound
<1>2. /\ Chunk(t) \in Seq(Bytes) /\ Len(Chunk(t)) \in 1..FrameData
      /\ Len(Chunk(t)) = Least(FrameData, Len(t.payload) - t.offset)
  BY <1>1, ChunkLength
<1>3. TxFrame(t).pci = "CF" /\ TxFrame(t).data = pad(Chunk(t))
  BY DEF TxFrame
<1>4. Len(pad(Chunk(t))) \in Len(Chunk(t))..FrameData
  <2>1. \A n \in 1..FrameData : n <= FrameData
    BY Constants
  <2>2. Len(Chunk(t)) <= FrameData
    BY <1>2, <2>1, Zenon
  <2> QED BY <1>2, <2>2, PadLength, Zenon
<1>5. Len(Chunk(t)) = FrameData \/ Len(Chunk(t)) = Len(t.payload) - t.offset
  BY <1>2 DEF Least
<1> DEFINE c == Len(Chunk(t))
           d == Len(TxFrame(t).data)
<1>6. c \in 1..FrameData /\ d \in c..FrameData
  BY <1>2, <1>3, <1>4
<1>7. d \in Nat /\ c <= d /\ d <= FrameData /\ (c = FrameData => d = FrameData)
  <2>1. FrameData \in Nat
    BY Constants
  <2> HIDE DEF c, d
  <2> QED BY <1>6, <2>1, Squeezed, Zenon
<1> HIDE DEF c, d
<1>8. c = Len(t.payload) - t.offset => t.offset + d >= Len(t.payload)
  <2>1. c \in Int /\ d \in Int /\ c <= d
    BY <1>6, <1>7, Constants
  <2> QED BY <1>1, <2>1, LastReaches, Zenon
<1> QED BY <1>3, <1>5, <1>7, <1>8 DEF c, d

LEMMA FirstSent ==
  ASSUME MachineAssumption, NEW t \in TxMachines, t.st = "first"
  PROVE  LET u == TxSent(t)
         IN  /\ u.st = "await" /\ u.cfs = t.cfs /\ u.offset = FrameData - 1
             /\ u.payload = t.payload /\ u.timer = NBs
             /\ TxFrame(t).pci = "FF" /\ TxFrame(t).len = Len(t.payload)
BY DEF TxSent, AwaitFc, TxMachines, TxFrame

\* A part that does not reach the end of the payload is a full one.
LEMMA FullPart ==
  ASSUME NEW o \in Nat, NEW n \in Nat, NEW d \in Nat, NEW k \in 1..d,
         k = Least(d, n - o), ~(o + k >= n)
  PROVE  k = d /\ o + d < n
BY DEF Least

\* The transmitter after a consecutive frame: it is done or goes on with a
\* full frame sent, within the block or at its end.
LEMMA ConsecutiveSent ==
  ASSUME MachineAssumption, NEW t \in TxMachines, TxSound(t), t.st = "cons"
  PROVE  LET u == TxSent(t)
         IN  \/ u.st = "panic"
             \/ u.st = "done" /\ t.offset + Len(Chunk(t)) >= Len(t.payload)
             \/ /\ u.payload = t.payload /\ u.offset = t.offset + FrameData
                /\ u.bs = t.bs /\ u.cfs = Increment(t.cfs)
                /\ Len(Chunk(t)) = FrameData
                /\ t.offset + FrameData < Len(t.payload)
                /\ IF u.bs # 0 /\ u.cfs >= u.bs
                   THEN u.st = "await" /\ u.timer = NBs ELSE u.st = "cons"
<1> DEFINE k == Len(Chunk(t))
           o == t.offset + Len(Chunk(t))
           q == (t.sn + 1) % SnMod
           n == [t EXCEPT !.offset = @ + Len(Chunk(t)), !.sn = (@ + 1) % SnMod]
           c == [n EXCEPT !.cfs = Increment(@)]
<1>1. TxSent(t) =
        IF n.offset >= Len(n.payload) THEN [n EXCEPT !.st = "done", !.timer = 0]
        ELSE IF Overflows(n, n.cfs) THEN [n EXCEPT !.st = "panic"]
        ELSE IF c.bs # 0 /\ c.cfs >= c.bs THEN AwaitFc(c)
        ELSE [c EXCEPT !.timer = c.stmin]
  BY DEF TxSent, TxAfterCF
<1>2. /\ n.offset = t.offset + k /\ n.payload = t.payload /\ n.bs = t.bs
      /\ n.cfs = t.cfs /\ n.st = "cons" /\ DOMAIN n = DOMAIN t
  BY DEF TxMachines
<1>3. /\ c.offset = n.offset /\ c.payload = n.payload /\ c.bs = n.bs
      /\ c.cfs = Increment(n.cfs) /\ c.st = "cons" /\ DOMAIN c = DOMAIN t
  BY <1>2 DEF TxMachines
<1>4. {"st", "offset", "payload", "bs", "cfs", "timer"} \subseteq DOMAIN t
  BY DEF TxMachines
<1>5. /\ t.offset \in Nat /\ Len(t.payload) \in Nat /\ k \in 1..FrameData
      /\ k = Least(FrameData, Len(t.payload) - t.offset)
  BY ChunkLength, TxFields, LenProperties DEF TxSound
<1> HIDE DEF n, c
<1>6. CASE n.offset >= Len(n.payload)
  <2>1. TxSent(t) = [n EXCEPT !.st = "done", !.timer = 0]
    BY <1>1, <1>6
  <2>2. TxSent(t).st = "done"
    BY <1>2, <1>4, <2>1
  <2> QED BY <1>2, <1>6, <2>2
<1>7. CASE ~(n.offset >= Len(n.payload)) /\ Overflows(n, n.cfs)
  <2>1. TxSent(t) = [n EXCEPT !.st = "panic"]
    BY <1>1, <1>7
  <2>2. TxSent(t).st = "panic"
    BY <1>2, <1>4, <2>1
  <2> QED BY <2>2
<1>8. CASE ~(n.offset >= Len(n.payload)) /\ ~Overflows(n, n.cfs)
  <2>1. k = FrameData /\ t.offset + FrameData < Len(t.payload)
    <3> HIDE DEF k
    <3>1. ~(t.offset + k >= Len(t.payload))
      BY <1>2, <1>8, Zenon
    <3>2. FrameData \in Nat
      BY Constants
    <3> QED BY <1>5, <3>1, <3>2, FullPart, Zenon
  <2>2. CASE c.bs # 0 /\ c.cfs >= c.bs
    <3>1. TxSent(t) = AwaitFc(c)
      BY <1>1, <1>8, <2>2
    <3>2. /\ AwaitFc(c).payload = c.payload /\ AwaitFc(c).offset = c.offset
          /\ AwaitFc(c).bs = c.bs /\ AwaitFc(c).cfs = c.cfs
          /\ AwaitFc(c).st = "await" /\ AwaitFc(c).timer = NBs
      BY <1>3, <1>4 DEF AwaitFc
    <3> QED BY <1>2, <1>3, <2>1, <2>2, <3>1, <3>2
  <2>3. CASE ~(c.bs # 0 /\ c.cfs >= c.bs)
    <3> DEFINE v == [c EXCEPT !.timer = c.stmin]
    <3>1. TxSent(t) = v
      BY <1>1, <1>8, <2>3
    <3>2. /\ v.payload = c.payload /\ v.offset = c.offset
          /\ v.bs = c.bs /\ v.cfs = c.cfs /\ v.st = "cons"
      BY <1>3, <1>4
    <3> HIDE DEF v
    <3> QED BY <1>2, <1>3, <2>1, <2>3, <3>1, <3>2
  <2> QED BY <2>2, <2>3
<1> QED BY <1>6, <1>7, <1>8

-----------------------------------------------------------------------------
(* What the receiver makes of a frame, as far as blocks go: o is the outcome *)
(* of frame f in machine r.                                                 *)

RxStays(r, o) == o.rx = r /\ o.ev # "fc"

RxStops(r, o) ==
  o.rx.st = "idle" /\ o.rx.bs = r.bs /\ o.rx.checked = r.checked /\ o.ev # "fc"

RxBegins(r, f, o) ==
  /\ f.pci = "FF" /\ o.rx.st = "receiving" /\ o.ev = "fc"
  /\ o.rx.bs = r.bs /\ o.rx.checked = r.checked
  /\ o.rx.cfs = 0 /\ o.rx.ffdl = f.len /\ Len(o.rx.buf) = FrameData - 1

RxGoesOn(r, f, o) ==
  /\ r.st = "receiving" /\ o.rx.st = "receiving"
  /\ o.rx.bs = r.bs /\ o.rx.checked = r.checked /\ o.rx.ffdl = r.ffdl
  /\ Len(f.data) = FrameData => Len(o.rx.buf) = Len(r.buf) + FrameData
  /\ Len(f.data) <= FrameData => Len(r.buf) + Len(f.data) < r.ffdl
  /\ IF r.bs # 0 /\ Increment(r.cfs) >= r.bs
     THEN o.ev = "fc" /\ o.rx.cfs = 0
     ELSE o.ev # "fc" /\ o.rx.cfs = Increment(r.cfs)

LEMMA DropStops ==
  ASSUME NEW r \in RxMachines, NEW ev, ev # "fc", NEW d
  PROVE  /\ RxStops(r, [rx |-> RxDrop(r), ev |-> ev, out |-> d])
         /\ RxStops(r, RxDone(r, d))
<1>1. /\ RxDrop(r).st = "idle" /\ RxDrop(r).bs = r.bs
      /\ RxDrop(r).checked = r.checked
  BY DEF RxDrop, RxMachines
<1>2. /\ RxDone(r, d).rx.st = "idle" /\ RxDone(r, d).rx.bs = r.bs
      /\ RxDone(r, d).rx.checked = r.checked /\ RxDone(r, d).ev = "done"
  BY DEF RxDone, RxNew
<1> QED BY <1>1, <1>2 DEF RxStops

LEMMA OtherFrames ==
  ASSUME MachineAssumption, NEW r \in RxMachines, NEW f \in Frames, f.pci # "CF"
  PROVE  LET o == RxOnFrame(r, f)
         IN  RxStays(r, o) \/ RxStops(r, o) \/ RxBegins(r, f, o)
<1> DEFINE o == RxOnFrame(r, f)
<1>1. CASE f.pci = "SF"
  <2>1. CASE f.len = 0 \/ f.len > Len(f.data)
    BY <1>1, <2>1 DEF RxOnFrame, RxSingle, RxKeeps, RxStays
  <2>2. CASE ~(f.len = 0 \/ f.len > Len(f.data))
    <3>1. o = [rx |-> RxDrop(r), ev |-> "done", out |-> SubSeq(f.data, 1, f.len)]
      BY <1>1, <2>2 DEF RxOnFrame, RxSingle
    <3> QED BY <3>1, DropStops
  <2> QED BY <2>1, <2>2
<1>2. CASE f.pci = "FF"
  <2>1. CASE Len(f.data) < FrameData - 1 \/ f.len <= FrameData
    BY <1>2, <2>1 DEF RxOnFrame, RxFirst, RxKeeps, RxStays
  <2>2. CASE ~(Len(f.data) < FrameData - 1 \/ f.len <= FrameData)
    <3> DEFINE b == SubSeq(f.data, 1, FrameData - 1)
               u == [r EXCEPT !.st = "receiving", !.ffdl = f.len, !.buf = b,
                              !.sn = 1 % SnMod, !.cfs = 0, !.timer = NCr]
    <3>1. Len(b) = FrameData - 1
      <4>1. f.data \in Seq(Bytes)
        BY <1>2 DEF Frames
      <4>2. FrameData - 1 \in 0..Len(f.data)
        BY <2>2, <4>1, Constants, LenProperties
      <4> QED BY <4>1, <4>2, SubSeqTyped
    <3>2. o = RxKeeps(u, "fc")
      BY <1>2, <2>2 DEF RxOnFrame, RxFirst
    <3> HIDE DEF b
    <3>3. /\ u.st = "receiving" /\ u.bs = r.bs /\ u.checked = r.checked
          /\ u.cfs = 0 /\ u.ffdl = f.len /\ u.buf = b
      BY DEF RxMachines
    <3> HIDE DEF u
    <3>4. o.rx = u /\ o.ev = "fc"
      BY <3>2 DEF RxKeeps
    <3> QED BY <1>2, <3>1, <3>3, <3>4 DEF RxBegins
  <2> QED BY <2>1, <2>2
<1>3. CASE f.pci \notin {"SF", "FF", "CF"}
  BY <1>3 DEF RxOnFrame, RxKeeps, RxStays
<1> QED BY <1>1, <1>2, <1>3

\* Arithmetic of a consecutive frame: what is missing, what a frame holds.
LEMMA Taken ==
  ASSUME NEW miss \in Nat, NEW room \in Nat, NEW held \in Nat
  PROVE  LET k == Least(Least(miss, room), held)
         IN  /\ k \in 0..held
             /\ k < miss /\ held = room => k = room
             /\ k < miss /\ held <= room => held < miss
BY DEF Least

LEMMA Misses ==
  ASSUME NEW a \in Nat, NEW n \in Nat, NEW h \in Nat, h < n - a
  PROVE  a + h < n
  OBVIOUS

LEMMA FallsShort ==
  ASSUME NEW a \in Nat, NEW n \in Nat, NEW h \in Nat, NEW k \in 0..h, ~(a + k >= n)
  PROVE  k < n - a /\ k \in Nat
  OBVIOUS

LEMMA ConsecutiveFrames ==
  ASSUME MachineAssumption, NEW r \in RxMachines, RxSound(r), ~r.checked,
         NEW f \in Frames, f.pci = "CF"
  PROVE  LET o == RxOnFrame(r, f)
         IN  \/ r.st # "receiving" /\ RxStays(r, o)
             \/ RxStops(r, o)
             \/ RxGoesOn(r, f, o)
<1> DEFINE miss == r.ffdl - Len(r.buf)
           held == Len(f.data)
           take == Least(Least(miss, FrameData), held)
           buf  == r.buf \o SubSeq(f.data, 1, take)
           sn   == (f.sn + 1) % SnMod
           more == [r EXCEPT !.buf = buf, !.sn = sn, !.timer = NCr]
           o    == RxOnFrame(r, f)
<1>1. o = RxConsecutive(r, f)
  BY DEF RxOnFrame
<1>2. CASE r.st # "receiving"
  BY <1>1, <1>2 DEF RxConsecutive, RxKeeps, RxStays
<1>3. CASE r.st = "receiving" /\ f.sn # r.sn
  <2>1. o = [rx |-> RxDrop(r), ev |-> "Sequence", out |-> << >>]
    BY <1>1, <1>3 DEF RxConsecutive, RxKeeps
  <2> QED BY <2>1, DropStops
<1>4. CASE r.st = "receiving" /\ f.sn = r.sn
  <2>1. f.data \in Seq(Bytes) /\ held \in Nat
    <3>1. f.data \in Seq(Bytes)
      BY DEF Frames
    <3> QED BY <3>1, LenProperties
  <2>2. r.buf \in Seq(Bytes) /\ Len(r.buf) \in Nat /\ r.ffdl \in Nat /\ miss \in Nat
    BY <1>4, RxFields DEF RxSound
  <2>3. /\ take \in 0..held
        /\ take < miss /\ held = FrameData => take = FrameData
        /\ take < miss /\ held <= FrameData => held < miss
    <3> HIDE DEF miss, held
    <3> QED BY <2>1, <2>2, Constants, Taken
  <2>4. ~Overflows(r, r.cfs)
    BY DEF Overflows
  <2> DEFINE part == SubSeq(f.data, 1, take)
  <2>5. part \in Seq(Bytes) /\ Len(part) = take
    <3> HIDE DEF take
    <3> QED BY <2>1, <2>3, SubSeqTyped
  <2>6. buf \in Seq(Bytes) /\ Len(buf) = Len(r.buf) + take
    <3> HIDE DEF part, take
    <3>1. r.buf \o part \in Seq(Bytes) /\ Len(r.buf \o part) = Len(r.buf) + Len(part)
      BY <2>2, <2>5, ConcatProperties
    <3> QED BY <2>5, <3>1 DEF part
  <2>7. CASE Len(buf) >= r.ffdl
    <3>1. o = RxDone(r, SubSeq(buf, 1, r.ffdl))
      BY <1>1, <1>4, <2>7 DEF RxConsecutive
    <3> QED BY <3>1, DropStops
  <2>8. CASE ~(Len(buf) >= r.ffdl)
    <3> DEFINE k == IF r.bs # 0 /\ Increment(r.cfs) >= r.bs THEN 0 ELSE Increment(r.cfs)
               ev == IF r.bs # 0 /\ Increment(r.cfs) >= r.bs THEN "fc" ELSE "continue"
               u == [more EXCEPT !.cfs = k]
    <3>1. o = RxKeeps(u, ev)
      BY <1>1, <1>4, <2>4, <2>8 DEF RxConsecutive
    <3> HIDE DEF buf, sn, k
    <3>2. /\ more.st = r.st /\ more.bs = r.bs /\ more.checked = r.checked
          /\ more.ffdl = r.ffdl /\ more.buf = buf /\ DOMAIN more = DOMAIN r
      BY DEF RxMachines
    <3>3. {"st", "bs", "checked", "ffdl", "buf", "cfs"} \subseteq DOMAIN r
      BY DEF RxMachines
    <3> HIDE DEF more
    <3>4. /\ u.st = r.st /\ u.bs = r.bs /\ u.checked = r.checked
          /\ u.ffdl = r.ffdl /\ u.buf = buf /\ u.cfs = k
      BY <3>2, <3>3
    <3> HIDE DEF u
    <3>5. o.rx = u /\ o.ev = ev
      BY <3>1 DEF RxKeeps
    <3> HIDE DEF o, ev, held, take
    <3>6. take < miss /\ take \in Nat
      <4>1. ~(Len(r.buf) + take >= r.ffdl)
        BY <2>6, <2>8, Zenon
      <4>2. take < r.ffdl - Len(r.buf) /\ take \in Nat
        <5> HIDE DEF miss
        <5> QED BY <2>1, <2>2, <2>3, <4>1, FallsShort, Zenon
      <4> QED BY <4>2
    <3>7. Len(f.data) = FrameData => Len(o.rx.buf) = Len(r.buf) + FrameData
      BY <2>3, <2>6, <3>4, <3>5, <3>6 DEF held
    <3>8. Len(f.data) <= FrameData => Len(r.buf) + Len(f.data) < r.ffdl
      <4>1. Len(f.data) <= FrameData => Len(f.data) < r.ffdl - Len(r.buf)
        BY <2>3, <3>6, Zenon DEF held, miss
      <4> QED BY <2>1, <2>2, <4>1, Misses DEF held
    <3>9. IF r.bs # 0 /\ Increment(r.cfs) >= r.bs
          THEN o.ev = "fc" /\ o.rx.cfs = 0
          ELSE o.ev # "fc" /\ o.rx.cfs = Increment(r.cfs)
      BY <3>4, <3>5 DEF k, ev
    <3> HIDE DEF miss
    <3>10. RxGoesOn(r, f, o)
      BY <1>4, <3>4, <3>5, <3>7, <3>8, <3>9, Zenon DEF RxGoesOn
    <3> QED BY <3>10 DEF o
  <2> QED BY <2>7, <2>8
<1> QED BY <1>2, <1>3, <1>4

-----------------------------------------------------------------------------
(* The frames on their way.                                                 *)

LEMMA TailElements ==
  ASSUME NEW S, NEW s \in Seq(S), s # << >>
  PROVE  /\ Tail(s) \in Seq(S) /\ Len(Tail(s)) = Len(s) - 1 /\ Len(s) \in Nat
         /\ Len(s) >= 1 /\ Head(s) = s[1] /\ Head(s) \in S
         /\ \A i \in 1..(Len(s) - 1) : Tail(s)[i] = s[i + 1]
         /\ DOMAIN s = 1..Len(s) /\ DOMAIN Tail(s) = 1..(Len(s) - 1)
<1>1. /\ Tail(s) \in Seq(S) /\ Len(Tail(s)) = Len(s) - 1
      /\ Head(s) \in S /\ \A i \in 1..Len(Tail(s)) : Tail(s)[i] = s[i + 1]
  BY HeadTailProperties
<1>2. Len(s) \in Nat /\ Len(s) # 0 /\ DOMAIN s = 1..Len(s)
  BY LenProperties, EmptySeq
<1>3. DOMAIN Tail(s) = 1..Len(Tail(s))
  BY <1>1, LenProperties
<1>4. Head(s) = s[1]
  BY <1>2
<1> QED BY <1>1, <1>2, <1>3, <1>4

LEMMA AppendElements ==
  ASSUME NEW S, NEW s \in Seq(S), NEW e \in S
  PROVE  /\ Append(s, e) \in Seq(S) /\ Len(Append(s, e)) = Len(s) + 1
         /\ Len(s) \in Nat /\ DOMAIN s = 1..Len(s)
         /\ DOMAIN Append(s, e) = 1..(Len(s) + 1)
         /\ \A i \in 1..Len(s) : Append(s, e)[i] = s[i]
         /\ Append(s, e)[Len(s) + 1] = e
BY AppendProperties, LenProperties

LEMMA HeadFlows ==
  ASSUME ring \in Seq(Frames), ring # << >>, OneFlow, Head(ring).pci = "FC"
  PROVE  FlowComes /\ Head(ring).fs \in EcuFlows /\ Head(ring).bs = EcuBs
<1>1. Head(ring) = ring[1] /\ 1 \in DOMAIN ring
  BY TailElements
<1> QED BY <1>1 DEF FlowComes, OneFlow

LEMMA RingTail ==
  ASSUME ring \in Seq(Frames), ring # << >>, OneFlow, ring' = Tail(ring)
  PROVE  OneFlow' /\ (FlowComes' => FlowComes /\ Head(ring).pci # "FC")
<1>1. /\ DOMAIN ring = 1..Len(ring) /\ DOMAIN ring' = 1..(Len(ring) - 1)
      /\ Len(ring) \in Nat /\ Len(ring) >= 1 /\ Head(ring) = ring[1]
      /\ \A i \in 1..(Len(ring) - 1) : ring'[i] = ring[i + 1]
  BY TailElements
<1>2. \A i \in DOMAIN ring' : i + 1 \in DOMAIN ring /\ ring'[i] = ring[i + 1] /\ i \in Nat
                              /\ i + 1 # 1
  BY <1>1
<1>3. 1 \in DOMAIN ring
  BY <1>1
<1>4. \A i, j \in DOMAIN ring' :
        ring'[i].pci = "FC" /\ ring'[j].pci = "FC" => i = j
  <2> SUFFICES ASSUME NEW i \in DOMAIN ring', NEW j \in DOMAIN ring',
                      ring'[i].pci = "FC", ring'[j].pci = "FC"
               PROVE  i = j
    OBVIOUS
  <2>1. i + 1 = j + 1
    BY <1>2, Zenon DEF OneFlow
  <2> QED BY <1>2, <2>1
<1>5. \A i \in DOMAIN ring' :
        ring'[i].pci = "FC" => ring'[i].fs \in EcuFlows /\ ring'[i].bs = EcuBs
  BY <1>2, Zenon DEF OneFlow
<1>6. ASSUME FlowComes' PROVE FlowComes /\ Head(ring).pci # "FC"
  <2>1. PICK i \in DOMAIN ring' : ring'[i].pci = "FC"
    BY <1>6 DEF FlowComes
  <2>2. i + 1 \in DOMAIN ring /\ ring[i + 1].pci = "FC" /\ i + 1 # 1
    BY <1>2, <2>1
  <2>3. ring[1].pci # "FC"
    BY <1>3, <2>2, Zenon DEF OneFlow
  <2> QED BY <1>1, <2>2, <2>3 DEF FlowComes
<1> QED BY <1>4, <1>5, <1>6 DEF OneFlow

LEMMA RingDeposit ==
  ASSUME ring \in Seq(Frames), OneFlow, NEW f \in Frames, Deposit(f),
         f.pci = "FC" => ~FlowComes /\ f.fs \in EcuFlows /\ f.bs = EcuBs
  PROVE  OneFlow' /\ (f.pci # "FC" /\ FlowComes' => FlowComes)
<1>1. CASE ring' = ring
  BY <1>1 DEF OneFlow, FlowComes
<1>2. CASE ring' = Append(ring, f)
  <2>1. /\ Len(ring) \in Nat /\ DOMAIN ring = 1..Len(ring)
        /\ DOMAIN ring' = 1..(Len(ring) + 1)
        /\ \A i \in 1..Len(ring) : ring'[i] = ring[i]
        /\ ring'[Len(ring) + 1] = f
    BY <1>2, AppendElements
  <2>2. \A i \in DOMAIN ring' :
          \/ i \in DOMAIN ring /\ ring'[i] = ring[i]
          \/ i = Len(ring) + 1 /\ ring'[i] = f
    BY <2>1
  <2>3. CASE f.pci # "FC"
    <3>1. \A i \in DOMAIN ring' : ring'[i].pci = "FC" => i \in DOMAIN ring /\ ring'[i] = ring[i]
      BY <2>2, <2>3
    <3> QED BY <3>1, Zenon DEF OneFlow, FlowComes
  <2>4. CASE f.pci = "FC"
    <3>1. \A i \in DOMAIN ring' : ring'[i].pci = "FC" => i = Len(ring) + 1 /\ ring'[i] = f
      BY <2>2, <2>4 DEF FlowComes
    <3> QED BY <2>4, <3>1 DEF OneFlow
  <2> QED BY <2>3, <2>4
<1> QED BY <1>1, <1>2 DEF Deposit

\* The frame that leaves the head of the queue.
LEMMA LeadsTail ==
  ASSUME NEW q \in Seq(Frames), q # << >>, NEW n \in Nat, Leads(q, n)
  PROVE  IF n = 0 THEN Head(q).pci # "CF" /\ Leads(Tail(q), 0)
         ELSE Head(q).pci = "CF" /\ Leads(Tail(q), n - 1)
<1>1. /\ Len(q) \in Nat /\ Len(q) >= 1 /\ Head(q) = q[1] /\ Len(Tail(q)) = Len(q) - 1
      /\ \A i \in 1..(Len(q) - 1) : Tail(q)[i] = q[i + 1]
  BY TailElements
<1>2. CASE n = 0
  <2>1. \A i \in 1..Len(q) : q[i].pci # "CF"
    BY <1>2 DEF Leads
  <2>2. \A i \in 1..Len(Tail(q)) : i + 1 \in 1..Len(q) /\ Tail(q)[i] = q[i + 1]
    BY <1>1
  <2>3. \A i \in 1..Len(Tail(q)) : Tail(q)[i].pci # "CF"
    BY <2>1, <2>2
  <2>4. 1 \in 1..Len(q) /\ 0 \in 0..Len(Tail(q)) /\ 1..0 = {}
    BY <1>1
  <2> QED BY <1>1, <1>2, <2>1, <2>3, <2>4 DEF Leads
<1>3. CASE n # 0
  <2>1. n <= Len(q) /\ n - 1 \in Nat /\ n - 1 \in 0..Len(Tail(q)) /\ 1 \in 1..n
    BY <1>1, <1>3 DEF Leads
  <2>2. \A i \in 1..(n - 1) : Tail(q)[i] = q[i + 1] /\ i + 1 \in 1..n
    BY <1>1, <2>1
  <2>3. \A i \in n..Len(Tail(q)) : Tail(q)[i] = q[i + 1] /\ i + 1 \in (n + 1)..Len(q)
    BY <1>1, <1>3, <2>1
  <2>4. \A i \in 1..(n - 1) : Tail(q)[i].pci = "CF"
    BY <2>2, Zenon DEF Leads
  <2>5. \A i \in n..Len(Tail(q)) : Tail(q)[i].pci # "CF"
    BY <2>3, Zenon DEF Leads
  <2>6. (n - 1) + 1 = n
    OBVIOUS
  <2>7. Leads(Tail(q), n - 1)
    BY <2>1, <2>4, <2>5, <2>6 DEF Leads
  <2>8. q[1].pci = "CF"
    BY <2>1 DEF Leads
  <2> QED BY <1>1, <1>3, <2>7, <2>8
<1> QED BY <1>2, <1>3

LEMMA LeadsAppend ==
  ASSUME NEW q \in Seq(Frames), NEW f \in Frames, f.pci # "CF", NEW n \in Nat, Leads(q, n)
  PROVE  /\ Leads(Append(q, f), n)
         /\ \A i \in 1..n : Append(q, f)[i] = q[i]
<1>1. /\ Len(q) \in Nat /\ Len(Append(q, f)) = Len(q) + 1
      /\ \A i \in 1..Len(q) : Append(q, f)[i] = q[i]
      /\ Append(q, f)[Len(q) + 1] = f
  BY AppendElements
<1>2. n <= Len(q) /\ n \in 0..Len(Append(q, f))
  BY <1>1 DEF Leads
<1>3. \A i \in 1..n : Append(q, f)[i] = q[i]
  BY <1>1, <1>2
<1>4. \A i \in (n + 1)..Len(Append(q, f)) :
        \/ i \in (n + 1)..Len(q) /\ Append(q, f)[i] = q[i]
        \/ Append(q, f)[i] = f
  BY <1>1, <1>2
<1>5. \A i \in (n + 1)..Len(Append(q, f)) : Append(q, f)[i].pci # "CF"
  BY <1>4, Zenon DEF Leads
<1>6. \A i \in 1..n : Append(q, f)[i].pci = "CF"
  BY <1>3 DEF Leads
<1> QED BY <1>2, <1>3, <1>5, <1>6 DEF Leads

LEMMA QuietAppend ==
  ASSUME NEW q \in Seq(Frames), NEW f \in Frames, f.pci # "CF", NEW n \in Nat,
         Leads(q, n), NEW r, Quiet(r, q, n)
  PROVE  Leads(Append(q, f), n) /\ Quiet(r, Append(q, f), n)
<1>1. /\ Leads(Append(q, f), n)
      /\ \A i \in 1..n : Append(q, f)[i] = q[i]
  BY LeadsAppend
<1>2. ASSUME Final(r, q, n) PROVE Final(r, Append(q, f), n)
  <2>1. n \in 1..n /\ \A i \in 1..(n - 1) : i \in 1..n
    BY <1>2 DEF Final
  <2>2. Append(q, f)[n] = q[n] /\ \A i \in 1..(n - 1) : Append(q, f)[i] = q[i]
    BY <1>1, <2>1
  <2> QED BY <1>2, <2>2 DEF Final
<1> QED BY <1>1, <1>2 DEF Quiet

LEMMA FullTail ==
  ASSUME NEW q \in Seq(Frames), q # << >>, FullFrames(q)
  PROVE  FullFrames(Tail(q)) /\ Head(q).pci = "CF" /\ Len(Head(q).data) = FrameData
<1>1. /\ Len(q) \in Nat /\ Len(q) >= 1 /\ Head(q) = q[1]
      /\ DOMAIN q = 1..Len(q) /\ DOMAIN Tail(q) = 1..(Len(q) - 1)
      /\ \A i \in 1..(Len(q) - 1) : Tail(q)[i] = q[i + 1]
  BY TailElements
<1>2. 1 \in DOMAIN q /\ \A i \in DOMAIN Tail(q) : i + 1 \in DOMAIN q /\ Tail(q)[i] = q[i + 1]
  BY <1>1
<1> QED BY <1>1, <1>2, Zenon DEF FullFrames

LEMMA FullAppend ==
  ASSUME NEW q \in Seq(Frames), FullFrames(q), NEW f \in Frames, f.pci = "CF",
         Len(f.data) = FrameData
  PROVE  FullFrames(Append(q, f))
<1>1. /\ DOMAIN q = 1..Len(q) /\ DOMAIN Append(q, f) = 1..(Len(q) + 1) /\ Len(q) \in Nat
      /\ \A i \in 1..Len(q) : Append(q, f)[i] = q[i]
      /\ Append(q, f)[Len(q) + 1] = f
  BY AppendElements
<1>2. \A i \in DOMAIN Append(q, f) :
        \/ i \in DOMAIN q /\ Append(q, f)[i] = q[i]
        \/ Append(q, f)[i] = f
  BY <1>1
<1> QED BY <1>2 DEF FullFrames

\* A block counter below the block size does not wrap.
LEMMA CountsUp ==
  ASSUME IsoTpAssumption, MachineAssumption, Undisturbed, NEW k \in Nat, k < EcuBs
  PROVE  Increment(k) = k + 1
<1>1. EcuBs \in Nat /\ EcuBs <= 255
  BY CallConstants DEF Byte8
<1>2. CounterMod \in Nat /\ CounterMod >= 256
  BY Constants DEF Undisturbed
<1>3. k + 1 \in Nat /\ k + 1 < CounterMod
  BY <1>1, <1>2
<1> QED BY <1>2, <1>3 DEF Increment

\* A product one step further.
LEMMA OneMore ==
  ASSUME NEW a \in Nat, NEW k \in Nat
  PROVE  a * (k + 1) = a * k + a /\ a * k \in Nat /\ a * 0 = 0
OBVIOUS

LEMMA BlockNumbers ==
  ASSUME IsoTpAssumption, MachineAssumption, NEW r \in RxMachines
  PROVE  r.cfs \in Nat /\ EcuBs \in Nat /\ r.ffdl \in Nat /\ Len(r.buf) \in Nat
<1>1. /\ r.cfs \in 0..(CounterMod - 1) /\ EcuBs \in 0..255
      /\ r.ffdl \in Nat /\ Len(r.buf) \in Nat
  BY RxFields, CallConstants DEF Byte8
<1>2. \A k, m \in Int : \A i \in 0..(k - m) : i \in Nat
  OBVIOUS
<1>3. r.cfs \in Nat
  BY <1>1, <1>2, Constants
<1> QED BY <1>1, <1>3

LEMMA BlockSteps ==
  ASSUME NEW c \in Nat, NEW n \in Nat, NEW b \in Nat, n > 0
  PROVE  /\ c + n < b => c + 1 < b /\ (c + 1) + (n - 1) < b
         /\ c + n = b => c + (n - 1) < b /\ (c + 1) + (n - 1) = b
         /\ c + n = b /\ n # 1 => c + 1 < b /\ n - 1 > 0
         /\ c + n < b => c + (n - 1) < b
OBVIOUS

\* One more frame does not fill a block.
LEMMA RoomLeft ==
  ASSUME NEW c \in Nat, NEW b \in Nat, c + 1 < b
  PROVE  c < b /\ ~(c + 1 >= b)
OBVIOUS

\* A frame is lost.
LEMMA QuietLess ==
  ASSUME NEW r \in RxMachines, NEW q, NEW n \in Nat, n > 0, Quiet(r, q, n)
  PROVE  Quiet(r, Tail(q), n - 1)
<1>1. r.cfs \in Nat /\ EcuBs \in Nat
  BY IsoTpAssumption, MachineAssumption, BlockNumbers
<1>2. Short(r, n) \/ Final(r, q, n) => Short(r, n - 1)
  BY <1>1, BlockSteps DEF Short, Final
<1> QED BY <1>2 DEF Quiet

\* A frame is taken: no block ends with it.
LEMMA QuietNext ==
  ASSUME IsoTpAssumption, MachineAssumption, Undisturbed,
         NEW r \in RxMachines, r.bs = EcuBs,
         NEW q \in Seq(Frames), q # << >>, NEW n \in Nat, n > 0, Leads(q, n),
         Quiet(r, q, n), NEW o, RxGoesOn(r, Head(q), o)
  PROVE  o.ev # "fc" /\ Quiet(o.rx, Tail(q), n - 1)
<1>1. r.cfs \in Nat /\ EcuBs \in Nat /\ r.ffdl \in Nat /\ Len(r.buf) \in Nat
  BY BlockNumbers
<1>2. /\ Len(q) \in Nat /\ Len(q) >= 1 /\ Head(q) = q[1]
      /\ \A i \in 1..(Len(q) - 1) : Tail(q)[i] = q[i + 1]
  BY TailElements
<1>3. CASE EcuBs = 0
  BY <1>3 DEF RxGoesOn, Quiet
<1>4. CASE EcuBs # 0
  <2>1. r.st = "receiving" /\ (Short(r, n) \/ Final(r, q, n))
    BY <1>4 DEF RxGoesOn, Quiet
  <2>2. ASSUME r.cfs + 1 < EcuBs
        PROVE  o.ev # "fc" /\ o.rx.cfs = r.cfs + 1
    <3>0. r.cfs < EcuBs /\ ~(r.cfs + 1 >= EcuBs)
      BY <1>1, <2>2, RoomLeft, Zenon
    <3>1. Increment(r.cfs) = r.cfs + 1
      BY <1>1, <3>0, CountsUp, Zenon
    <3>2. ~(Increment(r.cfs) >= r.bs)
      BY <3>0, <3>1, Zenon
    <3> QED BY <3>1, <3>2 DEF RxGoesOn
  <2>3. CASE Short(r, n)
    <3>1. r.cfs + 1 < EcuBs /\ (r.cfs + 1) + (n - 1) < EcuBs
      BY <1>1, <2>3, BlockSteps DEF Short
    <3> QED BY <2>2, <3>1 DEF Quiet, Short
  <2>4. CASE Final(r, q, n)
    <3>1. n <= Len(q)
      BY <1>2 DEF Leads
    <3>2. CASE n = 1
      <4>1. Len(q[1].data) <= FrameData
        BY <2>4, <3>2 DEF Final
      <4>2. Len(r.buf) + Len(q[1].data) < r.ffdl
        BY <1>2, <4>1 DEF RxGoesOn
      <4>3. Len(r.buf) + FrameData * 0 + Len(q[1].data) >= r.ffdl
        <5>1. n - 1 = 0
          BY <3>2
        <5> QED BY <2>4, <3>2, <5>1 DEF Final
      <4>4. q[1].data \in Seq(Bytes)
        <5>1. q[1] \in Frames /\ q[1].pci = "CF"
          BY <1>2, <3>2, TailElements DEF Leads
        <5> QED BY <5>1 DEF Frames
      <4>5. Len(q[1].data) \in Nat /\ FrameData * 0 = 0
        BY <4>4, LenProperties, OneMore, Constants
      <4> DEFINE h == Len(q[1].data)
                 m == Len(r.buf)
                 d == r.ffdl
      <4>6. h \in Nat /\ m \in Nat /\ d \in Nat /\ m + h < d /\ m + 0 + h >= d
        BY <1>1, <4>2, <4>3, <4>5
      <4> HIDE DEF h, m, d
      <4> QED BY <4>6
    <3>3. CASE n # 1
      <4> DEFINE p == FrameData * (n - 2)
                 h == Len(q[n].data)
      <4>1. n - 2 \in Nat /\ 1 \in 1..(n - 1) /\ n \in 1..n
        BY <3>3
      <4>2. FrameData * (n - 1) = p + FrameData /\ p \in Nat /\ FrameData \in Nat
        <5>1. FrameData * ((n - 2) + 1) = p + FrameData /\ p \in Nat
          BY <4>1, OneMore, Constants
        <5>2. (n - 2) + 1 = n - 1
          OBVIOUS
        <5> QED BY <5>1, <5>2, Constants
      <4>3. Len(Head(q).data) = FrameData
        BY <1>2, <2>4, <4>1 DEF Final
      <4>4. Len(o.rx.buf) = Len(r.buf) + FrameData /\ o.rx.ffdl = r.ffdl
        BY <4>3 DEF RxGoesOn
      <4>5. r.cfs + n = EcuBs
        BY <2>4 DEF Final
      <4>6. r.cfs + 1 < EcuBs /\ (r.cfs + 1) + (n - 1) = EcuBs /\ n - 1 > 0
        <5> DEFINE c == r.cfs
        <5>1. c \in Nat /\ EcuBs \in Nat /\ c + n = EcuBs
          BY <1>1, <4>5
        <5> HIDE DEF c
        <5>2. c + 1 < EcuBs /\ (c + 1) + (n - 1) = EcuBs /\ n - 1 > 0
          BY <3>3, <5>1
        <5> QED BY <5>2 DEF c
      <4>7. o.ev # "fc" /\ o.rx.cfs = r.cfs + 1
        BY <2>2, <4>6
      <4>8. Tail(q)[n - 1] = q[n]
        <5>1. n - 1 \in 1..(Len(q) - 1) /\ (n - 1) + 1 = n
          BY <1>2, <3>1, <3>3
        <5> QED BY <1>2, <5>1
      <4>9. \A i \in 1..((n - 1) - 1) : Len(Tail(q)[i].data) = FrameData
        <5> TAKE i \in 1..((n - 1) - 1)
        <5>1. i + 1 \in 1..(n - 1) /\ Tail(q)[i] = q[i + 1]
          BY <1>2, <3>1
        <5>2. Len(q[i + 1].data) = FrameData
          BY <2>4, <5>1 DEF Final
        <5> QED BY <5>1, <5>2, Zenon
      <4>10. h <= FrameData /\ Len(r.buf) + FrameData * (n - 1) + h >= r.ffdl
        BY <2>4 DEF Final
      <4>11. h \in Nat
        <5>1. q[n] \in Frames /\ q[n].pci = "CF"
          <6>1. n \in 1..Len(q)
            BY <1>2, <3>1
          <6>2. q[n] \in Frames
            BY <6>1, ElementOfSeq
          <6> QED BY <4>1, <6>2, Zenon DEF Leads
        <5>2. q[n].data \in Seq(Bytes)
          BY <5>1 DEF Frames
        <5> QED BY <5>2, LenProperties
      <4>12. (n - 1) - 1 = n - 2
        OBVIOUS
      <4>13. Len(o.rx.buf) + FrameData * ((n - 1) - 1) + h >= o.rx.ffdl
        <5>1. Len(r.buf) + (p + FrameData) + h >= r.ffdl
          BY <4>2, <4>10
        <5>2. (Len(r.buf) + FrameData) + p + h >= r.ffdl
          <6> DEFINE a == Len(r.buf)
          <6>1. a \in Nat /\ p \in Nat /\ FrameData \in Nat /\ h \in Nat
            BY <1>1, <4>2, <4>11
          <6>2. a + (p + FrameData) + h >= r.ffdl
            BY <5>1
          <6> HIDE DEF a, p, h
          <6>3. (a + FrameData) + p + h >= r.ffdl
            BY <1>1, <6>1, <6>2
          <6> QED BY <6>3 DEF a
        <5> QED BY <4>4, <4>12, <5>2
      <4> QED BY <4>6, <4>7, <4>8, <4>9, <4>10, <4>13, Zenon DEF Quiet, Final
    <3> QED BY <3>2, <3>3
  <2> QED BY <2>1, <2>3, <2>4
<1> QED BY <1>3, <1>4

-----------------------------------------------------------------------------
(* The invariant from step to step.                                         *)

\* No transfer goes on: nothing is owed, no first frame is on its way.
LEMMA Settled ==
  ASSUME InvBlock, tx.st \notin {"await", "cons"}
  PROVE  /\ ~owed /\ ~FlowComes
         /\ \A i \in DOMAIN toEcu : toEcu[i].pci # "FF"
         /\ \E n \in Nat : Leads(toEcu, n) /\ Quiet(ecuRx, toEcu, n)
<1>1. ~owed /\ ~FlowComes
  BY DEF InvBlock, GrantAwaited
<1>2. \A i \in DOMAIN toEcu : toEcu[i].pci # "FF"
  BY DEF InvBlock, FirstIsLast
<1>3. ~InBlock
  BY DEF InBlock
<1> QED BY <1>1, <1>2, <1>3 DEF InvBlock, Between

LEMMA Settles ==
  ASSUME tx'.st \notin {"await", "cons"}, TxPlaced', EcuCounts',
         ~owed', ~FlowComes', \A i \in DOMAIN toEcu' : toEcu'[i].pci # "FF",
         \E n \in Nat : Leads(toEcu', n) /\ Quiet(ecuRx', toEcu', n)
  PROVE  InvBlock'
<1>1. ~InBlock'
  BY DEF InBlock
<1>2. Between' /\ Within'
  BY <1>1 DEF Between, Within
<1>3. OneFlow'
  BY Zenon DEF OneFlow, FlowComes
<1>4. GrantAwaited' /\ LateIsDead' /\ FirstIsLast'
  BY DEF GrantAwaited, LateIsDead, FirstIsLast
<1> QED BY <1>2, <1>3, <1>4 DEF InvBlock

\* A machine of the caller that differs in its timer at most, one of the ECU
\* that does or has stopped.
TxAlike ==
  /\ tx'.st = tx.st /\ tx'.cfs = tx.cfs /\ tx'.bs = tx.bs
  /\ tx'.payload = tx.payload /\ tx'.offset = tx.offset

EcuAlike ==
  /\ ecuRx'.bs = ecuRx.bs /\ ecuRx'.checked = ecuRx.checked
  /\ ecuRx'.st = "receiving" =>
       /\ ecuRx.st = "receiving" /\ ecuRx'.cfs = ecuRx.cfs
       /\ ecuRx'.ffdl = ecuRx.ffdl /\ ecuRx'.buf = ecuRx.buf

LEMMA Alike ==
  ASSUME InvBlock, TxAlike, EcuAlike, toEcu' = toEcu
  PROVE  /\ EcuCounts' /\ FirstIsLast' /\ Between' /\ Within'
         /\ Abreast => Abreast'
<1>1. EcuCounts'
  BY DEF InvBlock, EcuCounts, EcuAlike
<1>2. FirstIsLast'
  BY DEF InvBlock, FirstIsLast, TxAlike
<1>3. InBlock' <=> InBlock
  BY DEF InBlock, TxAlike
<1>4. Between'
  <2>1. \A n \in Nat : Quiet(ecuRx, toEcu, n) => Quiet(ecuRx', toEcu', n)
    BY DEF Quiet, Short, Final, EcuAlike
  <2> QED BY <1>3, <2>1 DEF InvBlock, Between
<1>5. Within'
  <2>1. BlockSize => BlockSize'
    BY DEF BlockSize, TxAlike
  <2>2. InStep => InStep'
    BY DEF InStep, TxAlike, EcuAlike
  <2> QED BY <1>3, <2>1, <2>2 DEF InvBlock, Within, TxAlike
<1>6. Abreast => Abreast'
  BY DEF Abreast, TxAlike, EcuAlike
<1> QED BY <1>1, <1>2, <1>4, <1>5, <1>6

\* Nothing happens but to the ring, which gets no flow control.
LEMMA OnlyRing ==
  ASSUME InvBlock, TxPlaced', TxAlike, tx'.timer = tx.timer, EcuAlike, toEcu' = toEcu,
         owed' => owed, OneFlow', FlowComes' => FlowComes
  PROVE  InvBlock'
<1>1. EcuCounts' /\ FirstIsLast' /\ Between' /\ Within' /\ (Abreast => Abreast')
  BY Alike
<1>2. GrantAwaited'
  BY <1>1 DEF InvBlock, GrantAwaited, TxAlike
<1>3. LateIsDead'
  BY DEF InvBlock, LateIsDead, TxAlike
<1> QED BY <1>1, <1>2, <1>3 DEF InvBlock

\* The head of the queue goes, and nothing is owed for it.
LEMMA FrameGone ==
  ASSUME TypedAndSound, InvBlock, toEcu # << >>, toEcu' = Tail(toEcu),
         UNCHANGED <<pc, tx, ring>>, ~owed', EcuCounts', Between',
         InBlock => InStep'
  PROVE  InvBlock'
<1>1. ~owed /\ ~FlowComes /\ ~(tx.st = "await" /\ tx.timer < NBs)
  BY DEF InvBlock, GrantAwaited, LateIsDead
<1>2. toEcu \in Seq(Frames)
  BY DEF TypedAndSound, WireType
<1>3. ~FlowComes' /\ OneFlow' /\ TxPlaced' /\ (InBlock' <=> InBlock)
  BY <1>1 DEF FlowComes, OneFlow, TxPlaced, InBlock, InvBlock
<1>4. GrantAwaited' /\ LateIsDead'
  BY <1>1, <1>3 DEF GrantAwaited, LateIsDead
<1>5. FirstIsLast'
  <2>1. /\ DOMAIN toEcu = 1..Len(toEcu) /\ DOMAIN toEcu' = 1..(Len(toEcu) - 1)
        /\ Len(toEcu) \in Nat /\ Len(toEcu') = Len(toEcu) - 1
        /\ \A i \in 1..(Len(toEcu) - 1) : toEcu'[i] = toEcu[i + 1]
    BY <1>2, TailElements
  <2> SUFFICES ASSUME NEW i \in DOMAIN toEcu', toEcu'[i].pci = "FF"
               PROVE  /\ i = Len(toEcu') /\ tx.st = "await"
                      /\ toEcu'[i].len = Len(tx.payload) /\ tx.offset = FrameData - 1
    BY DEF FirstIsLast
  <2>2. i + 1 \in DOMAIN toEcu /\ toEcu'[i] = toEcu[i + 1] /\ i \in Nat
    BY <2>1
  <2>3. /\ i + 1 = Len(toEcu) /\ tx.st = "await"
        /\ toEcu[i + 1].len = Len(tx.payload) /\ tx.offset = FrameData - 1
    BY <2>2, Zenon DEF InvBlock, FirstIsLast
  <2> QED BY <2>1, <2>2, <2>3
<1>6. Within'
  <2>1. BlockSize => BlockSize'
    BY DEF BlockSize
  <2>2. FullFrames(toEcu) => FullFrames(toEcu')
    BY <1>2, FullTail
  <2> QED BY <1>3, <2>1, <2>2 DEF InvBlock, Within
<1> QED BY <1>3, <1>4, <1>5, <1>6 DEF InvBlock

LEMMA QuietZero ==
  ASSUME IsoTpAssumption, MachineAssumption, NEW r \in RxMachines, NEW q,
         EcuBs # 0 /\ r.st = "receiving" => r.cfs < EcuBs
  PROVE  Quiet(r, q, 0)
<1>1. EcuBs # 0 /\ r.st = "receiving" => r.cfs + 0 < EcuBs
  <2>1. r.cfs \in Nat
    BY BlockNumbers, Zenon
  <2>2. \A k \in Nat : k + 0 = k
    OBVIOUS
  <2> QED BY <2>1, <2>2, Zenon
<1> QED BY <1>1, Zenon DEF Quiet, Short

LEMMA LeadsEmpty == Leads(<< >>, 0)
BY DEF Leads

LEMMA InitBlock == Init => InvBlock
<1> SUFFICES ASSUME Init PROVE InvBlock
  OBVIOUS
<1>1. tx.st = "done" /\ pc = "idle" /\ ~owed /\ toEcu = << >> /\ ring = << >> /\ ecuRx = EcuIdle
  BY TxNoneTyped, MachineAssumption DEF Init
<1>2. ecuRx.st = "idle" /\ ecuRx.bs = EcuBs /\ ~ecuRx.checked
  BY <1>1 DEF EcuIdle, RxNew
<1>3. TxPlaced /\ EcuCounts
  BY <1>1, <1>2 DEF TxPlaced, EcuCounts
<1>4. ~FlowComes /\ OneFlow /\ ~InBlock
  BY <1>1 DEF FlowComes, OneFlow, InBlock
<1>5. GrantAwaited /\ LateIsDead /\ FirstIsLast /\ Within
  BY <1>1, <1>4 DEF GrantAwaited, LateIsDead, FirstIsLast, Within
<1>6. Between
  BY <1>1, <1>2, LeadsEmpty DEF Between, Quiet
<1> QED BY <1>3, <1>4, <1>5, <1>6 DEF InvBlock

-----------------------------------------------------------------------------
(* The caller.                                                              *)

\* A settled caller's step that leaves the ECU and the queues alone.
LEMMA SettledStep ==
  ASSUME TypedAndSound, InvBlock, tx.st \notin {"await", "cons"},
         UNCHANGED <<ecuRx, owed, toEcu>>, FlowComes' => FlowComes,
         tx'.st \notin {"await", "cons"}, TxPlaced'
  PROVE  InvBlock'
<1>1. /\ ~owed /\ ~FlowComes
      /\ \A i \in DOMAIN toEcu : toEcu[i].pci # "FF"
      /\ \E n \in Nat : Leads(toEcu, n) /\ Quiet(ecuRx, toEcu, n)
  BY Settled
<1>2. EcuCounts'
  BY DEF InvBlock, EcuCounts
<1> QED BY <1>1, <1>2, Settles

\* A settled caller sends a frame that begins no transfer.
LEMMA SettledSend ==
  ASSUME TypedAndSound, InvBlock, tx.st \notin {"await", "cons"},
         UNCHANGED <<ecuRx, owed>>, FlowComes' => FlowComes,
         NEW f \in Frames, f.pci \notin {"CF", "FF"}, toEcu' = Append(toEcu, f),
         tx'.st \notin {"await", "cons"}, TxPlaced'
  PROVE  InvBlock'
<1>1. /\ ~owed /\ ~FlowComes
      /\ \A i \in DOMAIN toEcu : toEcu[i].pci # "FF"
      /\ \E n \in Nat : Leads(toEcu, n) /\ Quiet(ecuRx, toEcu, n)
  BY Settled
<1>2. EcuCounts'
  BY DEF InvBlock, EcuCounts
<1>3. toEcu \in Seq(Frames)
  BY DEF TypedAndSound, WireType
<1>4. \E n \in Nat : Leads(toEcu', n) /\ Quiet(ecuRx', toEcu', n)
  BY <1>1, <1>3, QuietAppend
<1>5. \A i \in DOMAIN toEcu' : toEcu'[i].pci # "FF"
  <2>1. /\ DOMAIN toEcu = 1..Len(toEcu) /\ DOMAIN toEcu' = 1..(Len(toEcu) + 1)
        /\ \A i \in 1..Len(toEcu) : toEcu'[i] = toEcu[i]
        /\ toEcu'[Len(toEcu) + 1] = f /\ Len(toEcu) \in Nat
    BY <1>3, AppendElements
  <2>2. \A i \in DOMAIN toEcu' :
          (i \in DOMAIN toEcu /\ toEcu'[i] = toEcu[i]) \/ toEcu'[i] = f
    BY <2>1
  <2> QED BY <1>1, <2>2
<1> QED BY <1>1, <1>2, <1>4, <1>5, Settles

LEMMA CallBlock == TypedAndSound /\ InvBlock /\ Call => InvBlock'
<1> SUFFICES ASSUME TypedAndSound, InvBlock, Call PROVE InvBlock'
  OBVIOUS
<1>1. tx.st = "done" /\ UNCHANGED <<ecuRx, owed, toEcu, ring>>
  BY DEF Call, InvBlock, TxPlaced, ecuVars
<1>2. \/ pc' \in {"recv", "idle"} /\ tx' = TxNone
      \/ pc' = "send" /\ \E d : tx' = TxNew(d, OverflowChecks)
  BY DEF Call, Return
<1>3. \A d : TxNew(d, OverflowChecks).st \in {"single", "first"} /\ TxNew(d, OverflowChecks).cfs = 0
  BY DEF TxNew
<1>4. TxPlaced' /\ tx'.st \notin {"await", "cons"}
  BY <1>2, <1>3, TxNoneTyped, MachineAssumption DEF TxPlaced
<1>5. FlowComes' => FlowComes
  BY <1>1 DEF FlowComes
<1> QED BY <1>1, <1>4, <1>5, SettledStep

\* The ends of a host step, as far as the transmitter goes.
LEMMA EndsPlaced ==
  ASSUME pc' \in {"idle", "recv"}, tx' = TxNone
  PROVE  TxPlaced' /\ tx'.st = "done"
BY TxNoneTyped, MachineAssumption DEF TxPlaced

LEMMA SendSingle ==
  ASSUME TypedAndSound, InvBlock, SendFrame, tx.st = "single"
  PROVE  InvBlock'
<1> DEFINE f == TxFrame(tx)
           m == TxSent(tx)
<1>1. tx \in TxMachines /\ TxSound(tx) /\ TxReady(tx)
  BY DEF TypedAndSound, HostType, TxReady
<1>2. m.st = "done"
  BY <1>1 DEF TxSent, TxMachines
<1>3. f \in Frames
  BY <1>1, TxFrameTyped, IsoTpAssumption, MachineAssumption
<1>4. f.pci = "SF"
  BY DEF TxFrame
<1>5. /\ toEcu' = Append(toEcu, f) /\ UNCHANGED <<ecuRx, owed, ring>>
      /\ pc' \in {"idle", "recv"} /\ tx' = TxNone
  BY <1>2 DEF SendFrame, Return, StartRecv, ecuVars
<1>6. FlowComes' => FlowComes
  BY <1>5 DEF FlowComes
<1>7. TxPlaced' /\ tx'.st = "done"
  BY <1>5, EndsPlaced
<1> HIDE DEF f
<1> QED BY <1>3, <1>4, <1>5, <1>6, <1>7, SettledSend

LEMMA SendFirst ==
  ASSUME TypedAndSound, InvBlock, SendFrame, tx.st = "first"
  PROVE  InvBlock'
<1> DEFINE f == TxFrame(tx)
           m == TxSent(tx)
<1>1. tx \in TxMachines /\ TxSound(tx) /\ TxReady(tx)
  BY DEF TypedAndSound, HostType, TxReady
<1>2. /\ m.st = "await" /\ m.cfs = 0 /\ m.offset = FrameData - 1
      /\ m.payload = tx.payload /\ m.timer = NBs
      /\ f.pci = "FF" /\ f.len = Len(tx.payload)
  <2>1. tx.cfs = 0
    BY DEF InvBlock, TxPlaced
  <2> QED BY <1>1, <2>1, FirstSent, MachineAssumption
<1>3. f \in Frames
  BY <1>1, TxFrameTyped, IsoTpAssumption, MachineAssumption
<1>4. /\ toEcu' = Append(toEcu, f) /\ UNCHANGED <<ecuRx, owed, ring>>
      /\ pc' = "send" /\ tx' = m
  <2>1. ~(m.st = "panic") /\ m.st # "done"
    BY <1>2
  <2>2. toEcu' = Append(toEcu, f) /\ Continue("send", m, rx)
    <3>1. /\ toEcu' = Append(toEcu, f)
          /\ CASE m.st # "done" -> Continue("send", m, rx)
               [] m.st = "done" /\ op = "send" -> Return("ok", << >>)
               [] m.st = "done" /\ op # "send" -> StartRecv /\ UNCHANGED pends
      BY <2>1 DEF SendFrame
    <3> HIDE DEF f, m
    <3> QED BY <2>1, <3>1
  <2>3. UNCHANGED <<ecuRx, owed, ring>>
    BY DEF SendFrame, ecuVars
  <2> QED BY <2>2, <2>3 DEF Continue
<1> HIDE DEF f, m
<1>5. /\ ~owed /\ ~FlowComes
      /\ \A i \in DOMAIN toEcu : toEcu[i].pci # "FF"
      /\ \E n \in Nat : Leads(toEcu, n) /\ Quiet(ecuRx, toEcu, n)
  BY Settled
<1>6. ~owed' /\ ~FlowComes' /\ OneFlow' /\ EcuCounts'
  BY <1>4, <1>5 DEF FlowComes, OneFlow, EcuCounts, InvBlock
<1>7. toEcu \in Seq(Frames)
  BY DEF TypedAndSound, WireType
<1>8. Between'
  <2>1. \E n \in Nat : Leads(toEcu', n) /\ Quiet(ecuRx', toEcu', n)
    BY <1>2, <1>3, <1>4, <1>5, <1>7, QuietAppend
  <2> QED BY <2>1 DEF Between
<1>9. FirstIsLast'
  <2>1. /\ DOMAIN toEcu = 1..Len(toEcu) /\ DOMAIN toEcu' = 1..(Len(toEcu) + 1)
        /\ \A i \in 1..Len(toEcu) : toEcu'[i] = toEcu[i] /\ Len(toEcu) \in Nat
        /\ toEcu'[Len(toEcu) + 1] = f /\ Len(toEcu') = Len(toEcu) + 1
    BY <1>3, <1>4, <1>7, AppendElements
  <2>2. \A i \in DOMAIN toEcu' :
          \/ i \in DOMAIN toEcu /\ toEcu'[i] = toEcu[i]
          \/ i = Len(toEcu') /\ toEcu'[i] = f
    BY <2>1, <1>7, LenProperties
  <2> QED BY <1>2, <1>4, <1>5, <2>2 DEF FirstIsLast
<1>10. LateIsDead' /\ GrantAwaited' /\ TxPlaced'
  <2>1. ~(NBs < NBs)
    BY Constants, MachineAssumption
  <2> QED BY <1>2, <1>4, <1>6, <2>1 DEF LateIsDead, GrantAwaited, TxPlaced
<1>11. Within'
  BY <1>2, <1>4 DEF Within, InBlock
<1> QED BY <1>6, <1>8, <1>9, <1>10, <1>11 DEF InvBlock

LEMMA Reaches ==
  ASSUME NEW o \in Nat, NEW n \in Nat, NEW c \in Nat, NEW h \in Nat,
         c <= h, o + c >= n
  PROVE  o + h >= n
OBVIOUS

LEMMA TxNumbers ==
  ASSUME MachineAssumption, NEW t \in TxMachines
  PROVE  t.cfs \in Nat /\ t.offset \in Nat /\ Len(t.payload) \in Nat
<1>1. t.cfs \in 0..(CounterMod - 1)
  BY TxFields
<1>2. \A k \in Int : \A i \in 0..(k - 1) : i \in Nat
  OBVIOUS
<1> QED BY <1>1, <1>2, TxFields, LenProperties, Constants

LEMMA FillsOrNot ==
  ASSUME NEW k \in Nat, NEW n \in Nat, NEW c \in Nat, NEW b \in Nat, k + n <= c, c < b
  PROVE  k + (n + 1) < b \/ (k + (n + 1) = b /\ k + n = c)
OBVIOUS

\* The last frame of a message goes out: whatever is on its way now, no
\* block ends with it.
LEMMA LastFrameQuiet ==
  ASSUME IsoTpAssumption, MachineAssumption, TypedAndSound, InvBlock, tx.st = "cons",
         tx.offset + Len(Chunk(tx)) >= Len(tx.payload),
         NEW f \in Frames, f = TxFrame(tx)
  PROVE  /\ Leads(Append(toEcu, f), Len(toEcu) + 1) /\ Len(toEcu) \in Nat
         /\ Quiet(ecuRx, Append(toEcu, f), Len(toEcu) + 1)
         /\ \A i \in DOMAIN Append(toEcu, f) : Append(toEcu, f)[i].pci # "FF"
<1> DEFINE q == Append(toEcu, f)
           n == Len(toEcu)
           h == Len(f.data)
<1>1. toEcu \in Seq(Frames) /\ ecuRx \in RxMachines /\ tx \in TxMachines /\ TxSound(tx)
  BY DEF TypedAndSound, WireType, EcuType, HostType
<1>2. /\ FullFrames(toEcu) /\ BlockSize /\ InStep
  BY DEF InvBlock, Within, InBlock
<1>3. /\ f.pci = "CF" /\ h \in Nat /\ h <= FrameData
      /\ tx.offset + h >= Len(tx.payload)
  <2>1. /\ f.pci = "CF" /\ h \in Nat /\ h <= FrameData
        /\ Len(Chunk(tx)) <= h
    BY <1>1, FrameCarries
  <2>2. tx.offset \in Nat /\ Len(tx.payload) \in Nat /\ Len(Chunk(tx)) \in Nat
    BY <1>1, TxFields, LenProperties, ChunkTyped DEF TxSound
  <2> DEFINE c == Len(Chunk(tx))
  <2>3. c \in Nat /\ c <= h /\ tx.offset + c >= Len(tx.payload)
    BY <2>1, <2>2
  <2> HIDE DEF h, c
  <2>4. tx.offset + h >= Len(tx.payload)
    BY <2>1, <2>2, <2>3, Reaches
  <2> QED BY <2>1, <2>4
<1>4. /\ n \in Nat /\ DOMAIN toEcu = 1..n /\ DOMAIN q = 1..(n + 1) /\ Len(q) = n + 1
      /\ \A i \in 1..n : q[i] = toEcu[i]
      /\ q[n + 1] = f
  BY <1>1, AppendElements
<1> HIDE DEF q, n, h
<1>5. \A i \in 1..n : q[i].pci = "CF" /\ Len(q[i].data) = FrameData
  <2> TAKE i \in 1..n
  <2>1. i \in DOMAIN toEcu /\ q[i] = toEcu[i]
    BY <1>4, Zenon
  <2>2. toEcu[i].pci = "CF" /\ Len(toEcu[i].data) = FrameData
    BY <1>2, <2>1, Zenon DEF FullFrames
  <2> QED BY <2>1, <2>2, Zenon
<1>6. \A i \in 1..(n + 1) : i \in 1..n \/ i = n + 1
  <2>1. n \in Nat
    BY <1>4
  <2> QED BY <2>1, UpToNext, Zenon
<1>7. \A i \in 1..(n + 1) : q[i].pci = "CF"
  BY <1>3, <1>4, <1>5, <1>6
<1>8. Leads(q, n + 1)
  <2>1. ((n + 1) + 1)..(n + 1) = {} /\ n + 1 \in 0..(n + 1)
    BY <1>4
  <2> QED BY <1>4, <1>7, <2>1 DEF Leads
<1>9. Quiet(ecuRx, q, n + 1)
  <2> SUFFICES ASSUME EcuBs # 0, ecuRx.st = "receiving"
               PROVE  Short(ecuRx, n + 1) \/ Final(ecuRx, q, n + 1)
    BY DEF Quiet
  <2> DEFINE k == ecuRx.cfs
             b == Len(ecuRx.buf)
  <2>1. k \in Nat /\ EcuBs \in Nat /\ ecuRx.ffdl \in Nat /\ b \in Nat /\ FrameData \in Nat
    BY <1>1, BlockNumbers, Constants
  <2>2. tx.cfs < EcuBs
    BY <1>2 DEF BlockSize
  <2>3. /\ k + n <= tx.cfs
        /\ k + n = tx.cfs => ecuRx.ffdl = Len(tx.payload) /\ b + FrameData * n = tx.offset
    BY <1>2 DEF InStep, n
  <2> DEFINE c == tx.cfs
  <2>4. c \in Nat /\ c < EcuBs /\ k + n <= c
    BY <1>1, <2>2, <2>3, TxNumbers
  <2> HIDE DEF k, b, c
  <2>5. k + (n + 1) < EcuBs \/ (k + (n + 1) = EcuBs /\ k + n = c)
    <3>1. n \in Nat
      BY <1>4
    <3> QED BY <2>1, <2>4, <3>1, FillsOrNot, Zenon
  <2>6. CASE k + (n + 1) < EcuBs
    BY <2>6 DEF Short, k
  <2>7. CASE k + (n + 1) = EcuBs /\ k + n = c
    <3>1. (n + 1) - 1 = n /\ n + 1 > 0
      BY <1>4
    <3>2. b + FrameData * n + h >= ecuRx.ffdl
      <4>1. ecuRx.ffdl = Len(tx.payload) /\ b + FrameData * n = tx.offset
        BY <2>3, <2>7 DEF c
      <4> QED BY <1>3, <4>1
    <3>3. b + FrameData * ((n + 1) - 1) + h >= ecuRx.ffdl
      BY <3>1, <3>2
    <3>4. \A i \in 1..((n + 1) - 1) : Len(q[i].data) = FrameData
      BY <1>5, <3>1
    <3> QED BY <1>3, <1>4, <2>7, <3>1, <3>3, <3>4 DEF Final, k, b, h
  <2> QED BY <2>5, <2>6, <2>7
<1>10. \A i \in DOMAIN q : q[i].pci # "FF"
  BY <1>4, <1>7
<1> QED BY <1>4, <1>8, <1>9, <1>10 DEF q, n

LEMMA SendLast ==
  ASSUME TypedAndSound, InvBlock, SendFrame, tx.st = "cons", TxSent(tx).st = "done"
  PROVE  InvBlock'
<1> DEFINE f == TxFrame(tx)
           m == TxSent(tx)
<1>1. tx \in TxMachines /\ TxSound(tx) /\ TxReady(tx)
  BY DEF TypedAndSound, HostType, SendFrame
<1>2. f \in Frames
  BY <1>1, TxFrameTyped, IsoTpAssumption, MachineAssumption
<1>3. tx.offset + Len(Chunk(tx)) >= Len(tx.payload)
  BY <1>1, ConsecutiveSent, MachineAssumption
<1>4. /\ toEcu' = Append(toEcu, f) /\ UNCHANGED <<ecuRx, owed, ring>>
      /\ pc' \in {"idle", "recv"} /\ tx' = TxNone
  BY DEF SendFrame, Return, StartRecv, ecuVars
<1> HIDE DEF f
<1>5. ~owed /\ ~FlowComes /\ EcuCounts
  BY DEF InvBlock, GrantAwaited
<1>6. ~owed' /\ ~FlowComes' /\ EcuCounts'
  BY <1>4, <1>5 DEF FlowComes, EcuCounts
<1>7. TxPlaced' /\ tx'.st = "done"
  BY <1>4, EndsPlaced
<1>8. /\ Leads(toEcu', Len(toEcu) + 1) /\ Len(toEcu) \in Nat
      /\ Quiet(ecuRx', toEcu', Len(toEcu) + 1)
      /\ \A i \in DOMAIN toEcu' : toEcu'[i].pci # "FF"
  BY <1>2, <1>3, <1>4, LastFrameQuiet, IsoTpAssumption, MachineAssumption DEF f
<1>9. Len(toEcu) + 1 \in Nat
  BY <1>8
<1>10. \E n \in Nat : Leads(toEcu', n) /\ Quiet(ecuRx', toEcu', n)
  BY <1>8, <1>9, Zenon
<1> QED BY <1>6, <1>7, <1>8, <1>10, Settles

\* One more on both sides of the count.
LEMMA OneMoreCounted ==
  ASSUME NEW k \in Nat, NEW n \in Nat, NEW c \in Nat, NEW b \in Nat, NEW o \in Nat,
         NEW a \in Nat, k + n <= c, k + n = c => b + a * n = o
  PROVE  /\ k + (n + 1) <= c + 1
         /\ k + (n + 1) = c + 1 => k + n = c /\ b + a * (n + 1) = o + a
<1>1. a * (n + 1) = a * n + a /\ a * n \in Nat
  BY OneMore
<1> DEFINE p == a * n
<1>2. p \in Nat /\ a * (n + 1) = p + a /\ (k + n = c => b + p = o)
  BY <1>1
<1> HIDE DEF p
<1> QED BY <1>2

LEMMA SendMore ==
  ASSUME Undisturbed, TypedAndSound, InvBlock, SendFrame, tx.st = "cons",
         TxSent(tx).st \notin {"done", "panic"}
  PROVE  InvBlock'
<1> DEFINE f == TxFrame(tx)
           m == TxSent(tx)
<1>1. tx \in TxMachines /\ TxSound(tx) /\ TxReady(tx)
  BY DEF TypedAndSound, HostType, SendFrame
<1>2. f \in Frames
  BY <1>1, TxFrameTyped, IsoTpAssumption, MachineAssumption
<1>3. /\ m.payload = tx.payload /\ m.offset = tx.offset + FrameData
      /\ m.bs = tx.bs /\ m.cfs = Increment(tx.cfs)
      /\ Len(Chunk(tx)) = FrameData
      /\ IF m.bs # 0 /\ m.cfs >= m.bs
         THEN m.st = "await" /\ m.timer = NBs ELSE m.st = "cons"
  BY <1>1, ConsecutiveSent, MachineAssumption
<1>4. f.pci = "CF" /\ Len(f.data) = FrameData
  <2>1. /\ f.pci = "CF" /\ Len(f.data) \in Nat /\ Len(f.data) <= FrameData
        /\ Len(Chunk(tx)) <= Len(f.data)
    BY <1>1, FrameCarries, IsoTpAssumption, MachineAssumption
  <2> DEFINE h == Len(f.data)
  <2>2. h \in Nat /\ h <= FrameData /\ FrameData <= h
    BY <1>3, <2>1
  <2> HIDE DEF h
  <2>3. h = FrameData
    BY <2>2, Constants, MachineAssumption
  <2> QED BY <2>1, <2>3 DEF h
<1>5. /\ toEcu' = Append(toEcu, f) /\ UNCHANGED <<ecuRx, owed, ring>>
      /\ pc' = "send" /\ tx' = m
  <2>1. ~(m.st = "panic") /\ m.st # "done"
    OBVIOUS
  <2>2. /\ toEcu' = Append(toEcu, f)
        /\ CASE m.st # "done" -> Continue("send", m, rx)
             [] m.st = "done" /\ op = "send" -> Return("ok", << >>)
             [] m.st = "done" /\ op # "send" -> StartRecv /\ UNCHANGED pends
    BY <2>1 DEF SendFrame
  <2>3. UNCHANGED <<ecuRx, owed, ring>>
    BY DEF SendFrame, ecuVars
  <2> HIDE DEF f, m
  <2> QED BY <2>1, <2>2, <2>3 DEF Continue
<1> HIDE DEF f, m
<1>6. ~owed /\ ~FlowComes /\ EcuCounts
  BY DEF InvBlock, GrantAwaited
<1>7. ~owed' /\ ~FlowComes' /\ EcuCounts' /\ OneFlow' /\ GrantAwaited'
  BY <1>5, <1>6 DEF FlowComes, EcuCounts, OneFlow, InvBlock, GrantAwaited
<1>8. tx.bs = EcuBs /\ FullFrames(toEcu) /\ BlockSize /\ InStep
  BY DEF InvBlock, Within, InBlock
<1>9. toEcu \in Seq(Frames) /\ ecuRx \in RxMachines
  BY DEF TypedAndSound, WireType, EcuType
<1>10. FullFrames(toEcu')
  BY <1>2, <1>4, <1>5, <1>8, <1>9, FullAppend
<1>11. TxPlaced' /\ LateIsDead'
  <2>1. ~(NBs < NBs)
    BY Constants, MachineAssumption
  <2> QED BY <1>3, <1>5, <2>1 DEF TxPlaced, LateIsDead
<1>12. FirstIsLast'
  BY <1>10 DEF FirstIsLast, FullFrames
<1>13. CASE EcuBs = 0
  <2>1. tx'.st = "cons"
    BY <1>3, <1>5, <1>8, <1>13
  <2>2. InBlock' /\ ~(tx.st = "await")
    BY <2>1 DEF InBlock
  <2>3. Between' /\ Within'
    BY <1>3, <1>5, <1>8, <1>10, <1>13, <2>1, <2>2 DEF Between, Within, BlockSize, InStep
  <2> QED BY <1>7, <1>11, <1>12, <2>3 DEF InvBlock
<1>14. CASE EcuBs # 0
  <2> DEFINE c == tx.cfs
  <2>1. c \in Nat /\ tx.offset \in Nat /\ EcuBs \in Nat
    BY <1>1, <1>9, TxNumbers, BlockNumbers, IsoTpAssumption, MachineAssumption
  <2>2. c < EcuBs
    BY <1>8, <1>14 DEF BlockSize
  <2>3. Increment(c) = c + 1
    BY <2>1, <2>2, CountsUp, IsoTpAssumption, MachineAssumption
  <2>4. tx'.cfs = c + 1
    BY <1>3, <1>5, <2>3
  <2> HIDE DEF c
  <2>5. IF c + 1 >= EcuBs THEN tx'.st = "await" ELSE tx'.st = "cons"
    BY <1>3, <1>5, <1>8, <1>14, <2>4
  <2>6. InBlock' /\ BlockSize'
    <3>1. CASE c + 1 >= EcuBs
      <4>1. tx'.st = "await" /\ tx'.cfs = EcuBs
        BY <2>1, <2>2, <2>4, <2>5, <3>1 DEF c
      <4> QED BY <1>14, <4>1 DEF InBlock, BlockSize
    <3>2. CASE ~(c + 1 >= EcuBs)
      <4>1. tx'.st = "cons" /\ tx'.cfs < EcuBs
        BY <2>1, <2>4, <2>5, <3>2
      <4> QED BY <4>1 DEF InBlock, BlockSize
    <3> QED BY <3>1, <3>2
  <2>7. InStep'
    <3> SUFFICES ASSUME ecuRx.st = "receiving"
                 PROVE  /\ ecuRx.cfs + Len(toEcu') <= tx'.cfs
                        /\ ecuRx.cfs + Len(toEcu') = tx'.cfs =>
                             /\ ecuRx.ffdl = Len(tx'.payload)
                             /\ Len(ecuRx.buf) + FrameData * Len(toEcu') = tx'.offset
      BY <1>5 DEF InStep
    <3> DEFINE k == ecuRx.cfs
               n == Len(toEcu)
               b == Len(ecuRx.buf)
               o == tx.offset
    <3>1. /\ k \in Nat /\ n \in Nat /\ b \in Nat /\ o \in Nat /\ FrameData \in Nat
          /\ Len(toEcu') = n + 1
      <4>1. k \in Nat /\ b \in Nat /\ FrameData \in Nat
        BY <1>9, BlockNumbers, Constants, IsoTpAssumption, MachineAssumption
      <4>2. Len(toEcu') = n + 1 /\ n \in Nat
        BY <1>2, <1>5, <1>9, AppendElements
      <4> QED BY <2>1, <4>1, <4>2
    <3>2. /\ k + n <= c
          /\ k + n = c => ecuRx.ffdl = Len(tx.payload) /\ b + FrameData * n = o
      BY <1>8, <1>14 DEF InStep, c
    <3> HIDE DEF k, n, b, o
    <3>3. /\ k + (n + 1) <= c + 1
          /\ k + (n + 1) = c + 1 => k + n = c /\ b + FrameData * (n + 1) = o + FrameData
      BY <2>1, <3>1, <3>2, OneMoreCounted
    <3>4. tx'.payload = tx.payload /\ tx'.offset = o + FrameData
      BY <1>3, <1>5 DEF o
    <3> QED BY <2>4, <3>1, <3>2, <3>3, <3>4 DEF k, b
  <2>8. Between' /\ Within'
    BY <1>3, <1>5, <1>8, <1>10, <1>14, <2>6, <2>7 DEF Between, Within
  <2> QED BY <1>7, <1>11, <1>12, <2>8 DEF InvBlock
<1> QED BY <1>13, <1>14

LEMMA SendPanics ==
  ASSUME TypedAndSound, InvBlock, SendFrame, tx.st = "cons", TxSent(tx).st = "panic"
  PROVE  InvBlock'
<1>1. Panic /\ UNCHANGED <<toEcu, ecuRx, owed, ring>>
  BY DEF SendFrame, ecuVars
<1>2. pc' = "panicked" /\ tx' = tx
  BY <1>1 DEF Panic, Continue
<1>3. TxPlaced'
  BY <1>2 DEF TxPlaced
<1>4. TxAlike /\ EcuAlike /\ OneFlow' /\ (FlowComes' => FlowComes)
  BY <1>1, <1>2 DEF TxAlike, EcuAlike, OneFlow, FlowComes, InvBlock
<1> QED BY <1>1, <1>2, <1>3, <1>4, OnlyRing

LEMMA SendBlock ==
  ASSUME Undisturbed, TypedAndSound, InvBlock, SendFrame
  PROVE  InvBlock'
<1>1. tx.st \in {"single", "first", "cons"}
  BY DEF SendFrame, TxReady
<1> QED BY <1>1, SendSingle, SendFirst, SendLast, SendMore, SendPanics

LEMMA AwaitBlock == TypedAndSound /\ InvBlock /\ AwaitFlow => InvBlock'
<1> SUFFICES ASSUME TypedAndSound, InvBlock, AwaitFlow PROVE InvBlock'
  OBVIOUS
<1>1. tx.st = "await" /\ UNCHANGED <<toEcu, ring, ecuRx, owed>>
  BY DEF AwaitFlow, ecuVars
<1>2. OneFlow' /\ (FlowComes' <=> FlowComes)
  BY <1>1 DEF OneFlow, FlowComes, InvBlock
<1>3. CASE tx.timer = 0
  <2>1. pc' = "idle" /\ tx' = TxNone
    BY <1>3 DEF AwaitFlow, Return
  <2>2. toEcu = << >> /\ ~owed /\ ~FlowComes
    <3>1. 0 < NBs
      BY Constants, MachineAssumption
    <3> QED BY <1>1, <1>3, <3>1 DEF InvBlock, LateIsDead
  <2>3. TxPlaced' /\ tx'.st = "done"
    BY <2>1, EndsPlaced
  <2>4. EcuCounts'
    BY <1>1 DEF InvBlock, EcuCounts
  <2>5. Leads(toEcu', 0) /\ Quiet(ecuRx', toEcu', 0)
    <3>1. ecuRx' \in RxMachines
      BY <1>1 DEF TypedAndSound, EcuType
    <3> QED BY <1>1, <2>2, <2>4, <3>1, LeadsEmpty, QuietZero, IsoTpAssumption,
               MachineAssumption DEF EcuCounts
  <2> QED BY <1>1, <1>2, <2>2, <2>3, <2>4, <2>5, Settles
<1>4. CASE tx.timer # 0
  <2>1. pc' = "fcpoll" /\ tx' = tx
    BY <1>4 DEF AwaitFlow, Continue
  <2>2. TxPlaced' /\ TxAlike /\ EcuAlike
    BY <1>1, <2>1 DEF TxPlaced, TxAlike, EcuAlike
  <2> QED BY <1>1, <1>2, <2>1, <2>2, OnlyRing
<1> QED BY <1>3, <1>4

\* The grant arrives: a block begins with nothing on its way.
LEMMA GrantBlock ==
  ASSUME Undisturbed, TypedAndSound, InvBlock, FlowPolled, Head(ring).pci = "FC"
  PROVE  InvBlock'
<1> DEFINE f == Head(ring)
           o == TxOnFrame(tx, f)
<1>1. /\ pc = "fcpoll" /\ ring # << >> /\ ring' = Tail(ring)
      /\ UNCHANGED <<toEcu, ecuRx, owed>>
  BY DEF FlowPolled, ecuVars
<1>2. ring \in Seq(Frames) /\ tx \in TxMachines /\ ecuRx \in RxMachines
  BY DEF TypedAndSound, WireType, HostType, EcuType
<1>3. FlowComes /\ f.fs \in EcuFlows /\ f.bs = EcuBs
  BY <1>1, <1>2, HeadFlows DEF InvBlock
<1>4. tx.st = "await" /\ toEcu = << >> /\ Abreast /\ ~owed
  BY <1>3 DEF InvBlock, GrantAwaited
<1>5. OneFlow' /\ ~FlowComes'
  BY <1>1, <1>2, RingTail DEF InvBlock
<1>6. EcuCounts'
  BY <1>1 DEF InvBlock, EcuCounts
<1>7. f.fs = "cts" \/ f.fs = "ovflw"
  BY <1>3, IsoTpAssumption DEF IsoTpAssumption, Undisturbed
<1>8. CASE f.fs = "ovflw"
  <2>1. o = [tx |-> tx, err |-> "Overflow"]
    BY <1>4, <1>8 DEF TxOnFrame
  <2>2. o.tx.st # "panic" /\ o.err = "Overflow"
    BY <1>4, <2>1
  <2> HIDE DEF o
  <2>4. Return(o.err, << >>)
    <3>1. (CASE o.tx.st = "panic" -> Panic
             [] o.err # "ok"      -> Return(o.err, << >>)
             [] OTHER             -> Continue("send", o.tx, rx))
      BY DEF FlowPolled, o
    <3> QED BY <2>2, <3>1
  <2>5. TxPlaced' /\ tx'.st = "done"
    <3>1. pc' = "idle" /\ tx' = TxNone
      BY <2>4 DEF Return
    <3> QED BY <3>1, EndsPlaced
  <2>6. Leads(toEcu', 0) /\ Quiet(ecuRx', toEcu', 0)
    BY <1>1, <1>2, <1>4, <1>6, LeadsEmpty, QuietZero, IsoTpAssumption,
       MachineAssumption DEF EcuCounts
  <2> QED BY <1>1, <1>4, <1>5, <1>6, <2>5, <2>6, Settles
<1>9. CASE f.fs = "cts"
  <2> DEFINE u == [tx EXCEPT !.st = "cons", !.timer = 0, !.bs = f.bs,
                             !.stmin = decode_stmin(f.stmin), !.cfs = 0, !.waits = 0]
  <2>1. o = [tx |-> u, err |-> "ok"]
    BY <1>4, <1>9 DEF TxOnFrame, TxKeeps
  <2>2. /\ u.st = "cons" /\ u.bs = EcuBs /\ u.cfs = 0
        /\ u.payload = tx.payload /\ u.offset = tx.offset
    <3> HIDE DEF f
    <3> QED BY <1>2, <1>3 DEF TxMachines
  <2> HIDE DEF u
  <2>3. o.tx = u /\ o.err = "ok"
    BY <2>1
  <2> HIDE DEF o
  <2>4. Continue("send", u, rx)
    <3>1. (CASE o.tx.st = "panic" -> Panic
             [] o.err # "ok"      -> Return(o.err, << >>)
             [] OTHER             -> Continue("send", o.tx, rx))
      BY DEF FlowPolled, o
    <3> QED BY <2>2, <2>3, <3>1
  <2>5. pc' = "send" /\ tx' = u
    BY <2>4 DEF Continue
  <2>6. TxPlaced' /\ GrantAwaited' /\ LateIsDead' /\ FirstIsLast'
    BY <1>1, <1>4, <1>5, <2>2, <2>5 DEF TxPlaced, GrantAwaited, LateIsDead, FirstIsLast
  <2>7. InBlock'
    BY <2>2, <2>5 DEF InBlock
  <2>8. FullFrames(toEcu')
    BY <1>1, <1>4 DEF FullFrames
  <2>9. BlockSize'
    <3>1. EcuBs \in Nat
      BY <1>2, BlockNumbers, IsoTpAssumption, MachineAssumption
    <3> QED BY <2>2, <2>5, <3>1 DEF BlockSize
  <2>10. InStep'
    <3>1. /\ Len(toEcu') = 0 /\ FrameData * 0 = 0
          /\ tx.offset \in Nat /\ Len(ecuRx.buf) \in Nat
      BY <1>1, <1>2, <1>4, OneMore, TxNumbers, BlockNumbers, Constants, EmptySeq,
         IsoTpAssumption, MachineAssumption
    <3> QED BY <1>1, <1>4, <2>2, <2>5, <3>1 DEF InStep, Abreast
  <2>11. Between' /\ Within'
    BY <2>2, <2>5, <2>7, <2>8, <2>9, <2>10 DEF Between, Within
  <2> QED BY <1>5, <1>6, <2>6, <2>11 DEF InvBlock
<1> QED BY <1>7, <1>8, <1>9

\* Any other frame leaves the transmitter waiting.
LEMMA IgnoreBlock ==
  ASSUME TypedAndSound, InvBlock, FlowPolled, Head(ring).pci # "FC"
  PROVE  InvBlock'
<1> DEFINE o == TxOnFrame(tx, Head(ring))
<1>1. /\ pc = "fcpoll" /\ ring # << >> /\ ring' = Tail(ring)
      /\ UNCHANGED <<toEcu, ecuRx, owed>>
  BY DEF FlowPolled, ecuVars
<1>2. tx.st = "await"
  BY <1>1 DEF InvBlock, TxPlaced
<1>3. ring \in Seq(Frames)
  BY DEF TypedAndSound, WireType
<1>4. OneFlow' /\ (FlowComes' => FlowComes)
  BY <1>1, <1>3, RingTail DEF InvBlock
<1>5. o.tx = tx /\ o.err = "ok"
  BY DEF TxOnFrame, TxKeeps
<1> HIDE DEF o
<1>6. (CASE o.tx.st = "panic" -> Panic
         [] o.err # "ok"      -> Return(o.err, << >>)
         [] OTHER             -> Continue("send", o.tx, rx))
  BY DEF FlowPolled, o
<1>7. Continue("send", tx, rx)
  BY <1>2, <1>5, <1>6
<1>8. pc' = "send" /\ tx' = tx
  BY <1>7 DEF Continue
<1>9. TxPlaced' /\ TxAlike /\ EcuAlike
  BY <1>1, <1>2, <1>8 DEF TxPlaced, TxAlike, EcuAlike
<1> QED BY <1>1, <1>4, <1>8, <1>9, OnlyRing

LEMMA FlowPolledBlock ==
  ASSUME Undisturbed, TypedAndSound, InvBlock, FlowPolled
  PROVE  InvBlock'
BY GrantBlock, IgnoreBlock

\* A receive sends nothing but flow controls and leaves no transmitter behind.
LEMMA RecvBlock ==
  ASSUME TypedAndSound, InvBlock, RecvLoop \/ RecvPolled \/ (PollEmpty /\ pc = "rxpoll")
  PROVE  InvBlock'
<1>1. tx.st = "done" /\ UNCHANGED <<ecuRx, owed>>
  BY DEF RecvLoop, RecvPolled, PollEmpty, InvBlock, TxPlaced, ecuVars
<1>2. /\ pc' \in {"idle", "recv", "rxpoll", "panicked"}
      /\ tx' = tx \/ tx' = TxNone
  BY DEF RecvLoop, RecvPolled, PollEmpty, Received, Return, StartRecv, Continue, Panic
<1>3. TxPlaced' /\ tx'.st = "done"
  BY <1>1, <1>2, TxNoneTyped, MachineAssumption DEF TxPlaced
<1>4. FlowComes' => FlowComes
  <2>1. CASE ring' = ring
    BY <2>1 DEF FlowComes
  <2>2. CASE ring # << >> /\ ring' = Tail(ring)
    BY <2>2, RingTail DEF TypedAndSound, WireType, InvBlock
  <2> QED BY <2>1, <2>2 DEF RecvLoop, RecvPolled, PollEmpty
<1>5. CASE toEcu' = toEcu
  BY <1>1, <1>3, <1>4, <1>5, SettledStep
<1>6. CASE toEcu' = Append(toEcu, FlowControl("cts", HostBs, HostStMin))
  <2>1. /\ FlowControl("cts", HostBs, HostStMin) \in Frames
        /\ FlowControl("cts", HostBs, HostStMin).pci = "FC"
    BY FlowControlTyped, CallConstants, IsoTpAssumption DEF FlowControl
  <2> QED BY <1>1, <1>3, <1>4, <1>6, <2>1, SettledSend
<1>7. toEcu' = toEcu \/ toEcu' = Append(toEcu, FlowControl("cts", HostBs, HostStMin))
  BY DEF RecvLoop, RecvPolled, PollEmpty
<1> QED BY <1>5, <1>6, <1>7

LEMMA PollEmptyBlock == TypedAndSound /\ InvBlock /\ PollEmpty => InvBlock'
<1> SUFFICES ASSUME TypedAndSound, InvBlock, PollEmpty PROVE InvBlock'
  OBVIOUS
<1>1. CASE pc = "rxpoll"
  BY <1>1, RecvBlock
<1>2. CASE pc = "fcpoll"
  <2>1. pc' = "send" /\ tx' = tx /\ UNCHANGED <<toEcu, ecuRx, owed, ring>>
    BY <1>2 DEF PollEmpty, Continue, ecuVars
  <2>2. TxPlaced' /\ TxAlike /\ EcuAlike /\ OneFlow' /\ (FlowComes' => FlowComes)
    BY <1>2, <2>1 DEF TxPlaced, TxAlike, EcuAlike, OneFlow, FlowComes, InvBlock
  <2> QED BY <2>1, <2>2, OnlyRing
<1> QED BY <1>1, <1>2 DEF PollEmpty, Polling

-----------------------------------------------------------------------------
(* The ECU, the bus and the clock.                                          *)

\* A frame that is not a consecutive frame reaches the receiver.
LEMMA TakesOther ==
  ASSUME TypedAndSound, InvBlock, EcuReceive, Head(toEcu).pci \notin {"FC", "CF"}
  PROVE  InvBlock'
<1> DEFINE f == Head(toEcu)
           o == RxOnFrame(ecuRx, f)
<1>1. toEcu \in Seq(Frames) /\ ecuRx \in RxMachines /\ tx \in TxMachines
  BY DEF TypedAndSound, WireType, EcuType, HostType
<1>2. /\ toEcu # << >> /\ toEcu' = Tail(toEcu) /\ UNCHANGED <<pc, tx, ring>>
      /\ ecuRx' = o.rx /\ owed' = (o.rx.st = "receiving" /\ (owed \/ o.ev = "fc"))
  BY DEF EcuReceive, hostVars
<1>3. /\ f \in Frames /\ f = toEcu[1] /\ 1 \in DOMAIN toEcu
      /\ Len(toEcu) \in Nat
  BY <1>1, <1>2, TailElements
<1>4. ~owed /\ ~FlowComes /\ EcuCounts
  BY <1>2 DEF InvBlock, GrantAwaited
<1>5. RxStays(ecuRx, o) \/ RxStops(ecuRx, o) \/ RxBegins(ecuRx, f, o)
  BY <1>1, <1>3, OtherFrames, MachineAssumption
<1> HIDE DEF o
<1>6. ~InBlock
  BY <1>3 DEF InvBlock, Within, FullFrames
<1>7. PICK n \in Nat : Leads(toEcu, n) /\ Quiet(ecuRx, toEcu, n)
  BY <1>6 DEF InvBlock, Between
<1>8. Leads(toEcu', 0)
  BY <1>1, <1>2, <1>7, LeadsTail
<1>9. ecuRx' \in RxMachines
  BY StepTyped DEF TypedAndSound, EcuType, Next
<1>10. CASE RxStays(ecuRx, o) \/ RxStops(ecuRx, o)
  <2>1. ~owed' /\ EcuCounts'
    BY <1>2, <1>4, <1>10 DEF RxStays, RxStops, EcuCounts
  <2>2. Quiet(ecuRx', toEcu', 0)
    BY <1>9, <2>1, QuietZero, IsoTpAssumption, MachineAssumption DEF EcuCounts
  <2>3. Between'
    BY <1>8, <2>2 DEF Between
  <2> QED BY <1>2, <1>6, <2>1, <2>3, FrameGone
<1>11. CASE RxBegins(ecuRx, f, o)
  <2>1. /\ f.pci = "FF" /\ ecuRx'.st = "receiving" /\ ecuRx'.bs = EcuBs /\ ~ecuRx'.checked
        /\ ecuRx'.cfs = 0 /\ ecuRx'.ffdl = f.len /\ Len(ecuRx'.buf) = FrameData - 1
    BY <1>2, <1>4, <1>11 DEF RxBegins, EcuCounts
  <2>2. /\ 1 = Len(toEcu) /\ tx.st = "await"
        /\ f.len = Len(tx.payload) /\ tx.offset = FrameData - 1
    BY <1>3, <2>1 DEF InvBlock, FirstIsLast
  <2>3. toEcu' = << >>
    <3>1. toEcu' \in Seq(Frames) /\ Len(toEcu') = 0
      BY <1>1, <1>2, <2>2, TailElements
    <3> QED BY <3>1, EmptySeq
  <2>4. EcuCounts'
    <3>1. EcuBs \in Nat
      BY <1>1, BlockNumbers, IsoTpAssumption, MachineAssumption, Zenon
    <3>2. EcuBs # 0 => 0 < EcuBs
      BY <3>1
    <3> QED BY <2>1, <3>2 DEF EcuCounts
  <2>5. ~FlowComes' /\ OneFlow' /\ TxPlaced' /\ ~InBlock'
    BY <1>2, <1>4, <1>6 DEF FlowComes, OneFlow, TxPlaced, InBlock, InvBlock
  <2>6. GrantAwaited' /\ FirstIsLast' /\ Within'
    BY <1>2, <2>1, <2>2, <2>3, <2>5 DEF GrantAwaited, Abreast, FirstIsLast, Within
  <2>7. LateIsDead'
    BY <1>2 DEF InvBlock, LateIsDead
  <2>8. Between'
    <3>1. Quiet(ecuRx', toEcu', 0)
      BY <1>9, <2>4, QuietZero, IsoTpAssumption, MachineAssumption DEF EcuCounts
    <3> QED BY <1>8, <3>1 DEF Between
  <2> QED BY <2>4, <2>5, <2>6, <2>7, <2>8 DEF InvBlock
<1> QED BY <1>5, <1>10, <1>11

\* A flow control reaches the ECU's transmitter.
LEMMA TakesFlow ==
  ASSUME TypedAndSound, InvBlock, EcuReceive, Head(toEcu).pci = "FC"
  PROVE  InvBlock'
<1>1. toEcu \in Seq(Frames) /\ ecuRx \in RxMachines
  BY DEF TypedAndSound, WireType, EcuType
<1>2. /\ toEcu # << >> /\ toEcu' = Tail(toEcu)
      /\ UNCHANGED <<pc, tx, ring, ecuRx, owed>>
  BY DEF EcuReceive, hostVars
<1>3. Head(toEcu) = toEcu[1] /\ 1 \in DOMAIN toEcu
  BY <1>1, <1>2, TailElements
<1>4. ~owed' /\ EcuCounts'
  BY <1>2 DEF InvBlock, GrantAwaited, EcuCounts
<1>5. ~InBlock
  BY <1>3 DEF InvBlock, Within, FullFrames
<1>6. PICK n \in Nat : Leads(toEcu, n) /\ Quiet(ecuRx, toEcu, n)
  BY <1>5 DEF InvBlock, Between
<1>7. Leads(toEcu', 0)
  BY <1>1, <1>2, <1>6, LeadsTail
<1>8. Quiet(ecuRx', toEcu', 0)
  BY <1>1, <1>2, <1>4, QuietZero, IsoTpAssumption, MachineAssumption DEF EcuCounts
<1>9. Between'
  BY <1>7, <1>8 DEF Between
<1> QED BY <1>2, <1>4, <1>5, <1>9, FrameGone

\* One frame fewer on its way, one more in the buffer.
LEMMA OneMoreTaken ==
  ASSUME NEW k \in Nat, NEW n \in Nat, n >= 1, NEW c \in Nat, NEW b \in Nat, NEW o \in Nat,
         NEW a \in Nat, k + n <= c, k + n = c => b + a * n = o
  PROVE  /\ (k + 1) + (n - 1) <= c
         /\ (k + 1) + (n - 1) = c => k + n = c /\ (b + a) + a * (n - 1) = o
<1>1. a * ((n - 1) + 1) = a * (n - 1) + a /\ a * (n - 1) \in Nat
  BY OneMore
<1>2. (n - 1) + 1 = n
  OBVIOUS
<1> DEFINE p == a * (n - 1)
<1>3. p \in Nat /\ a * n = p + a /\ (k + n = c => b + (p + a) = o)
  BY <1>1, <1>2
<1> HIDE DEF p
<1>4. (k + 1) + (n - 1) = k + n
  OBVIOUS
<1>5. b + (p + a) = (b + a) + p
  BY <1>3
<1> QED BY <1>3, <1>4, <1>5 DEF p

\* A consecutive frame of the transfer that goes on.
LEMMA TakesBlockFrame ==
  ASSUME Undisturbed, TypedAndSound, InvBlock, EcuReceive, InBlock,
         RxGoesOn(ecuRx, Head(toEcu), RxOnFrame(ecuRx, Head(toEcu)))
  PROVE  InvBlock'
<1> DEFINE f == Head(toEcu)
           o == RxOnFrame(ecuRx, f)
<1>1. toEcu \in Seq(Frames) /\ ecuRx \in RxMachines /\ tx \in TxMachines
  BY DEF TypedAndSound, WireType, EcuType, HostType
<1>2. /\ tx.bs = EcuBs /\ FullFrames(toEcu) /\ BlockSize /\ InStep /\ EcuCounts
      /\ EcuBs = 0 => tx.st = "cons"
  BY DEF InvBlock, Within
<1>3. toEcu # << >> /\ toEcu' = Tail(toEcu) /\ UNCHANGED <<pc, tx, ring>>
  BY DEF EcuReceive, hostVars
<1>4. FullFrames(toEcu') /\ f.pci = "CF" /\ Len(f.data) = FrameData
  BY <1>1, <1>2, <1>3, FullTail
<1>5. ecuRx' = o.rx /\ owed' = (o.rx.st = "receiving" /\ (owed \/ o.ev = "fc"))
  BY <1>4 DEF EcuReceive
<1> HIDE DEF f, o
<1>6. RxGoesOn(ecuRx, f, o)
  BY DEF f, o
<1>7. /\ ecuRx.st = "receiving" /\ ecuRx'.st = "receiving"
      /\ ecuRx'.bs = EcuBs /\ ~ecuRx'.checked /\ ecuRx'.ffdl = ecuRx.ffdl
      /\ Len(ecuRx'.buf) = Len(ecuRx.buf) + FrameData
      /\ IF EcuBs # 0 /\ Increment(ecuRx.cfs) >= EcuBs
         THEN o.ev = "fc" /\ ecuRx'.cfs = 0
         ELSE o.ev # "fc" /\ ecuRx'.cfs = Increment(ecuRx.cfs)
  BY <1>2, <1>4, <1>5, <1>6 DEF RxGoesOn, EcuCounts
<1>8. ~owed /\ ~FlowComes
  BY <1>3 DEF InvBlock, GrantAwaited
<1>9. InBlock' /\ Between'
  BY <1>3 DEF InBlock, Between
<1>10. CASE EcuBs = 0
  <2>1. ~owed' /\ EcuCounts'
    BY <1>5, <1>7, <1>8, <1>10 DEF EcuCounts
  <2>2. InStep'
    BY <1>10 DEF InStep
  <2> QED BY <1>3, <1>9, <2>1, <2>2, FrameGone
<1>11. CASE EcuBs # 0
  <2> DEFINE k == ecuRx.cfs
             n == Len(toEcu)
             b == Len(ecuRx.buf)
             c == tx.cfs
             p == tx.offset
  <2>1. /\ k \in Nat /\ EcuBs \in Nat /\ b \in Nat /\ c \in Nat /\ p \in Nat
        /\ FrameData \in Nat
    BY <1>1, BlockNumbers, TxNumbers, Constants, IsoTpAssumption, MachineAssumption
  <2>2. n \in Nat /\ n >= 1 /\ Len(toEcu') = n - 1 /\ toEcu' \in Seq(Frames)
    BY <1>1, <1>3, TailElements
  <2>3. k < EcuBs /\ Increment(k) = k + 1
    <3>1. k < EcuBs
      BY <1>2, <1>7, <1>11 DEF EcuCounts
    <3> QED BY <2>1, <3>1, CountsUp, IsoTpAssumption, MachineAssumption
  <2>4. /\ k + n <= c
        /\ k + n = c => ecuRx.ffdl = Len(tx.payload) /\ b + FrameData * n = p
    BY <1>2, <1>7, <1>11 DEF InStep
  <2>5. IF tx.st = "cons" THEN c < EcuBs ELSE c = EcuBs
    BY <1>2, <1>11 DEF BlockSize
  <2> HIDE DEF k, n, b, c, p
  <2>6. /\ (k + 1) + (n - 1) <= c
        /\ (k + 1) + (n - 1) = c => k + n = c /\ (b + FrameData) + FrameData * (n - 1) = p
    BY <2>1, <2>2, <2>4, OneMoreTaken
  <2>7. CASE k + 1 < EcuBs
    <3>1. ecuRx'.cfs = k + 1 /\ o.ev # "fc"
      <4>1. ~(Increment(k) >= EcuBs)
        BY <2>1, <2>3, <2>7
      <4> QED BY <1>7, <2>3, <4>1 DEF k
    <3>2. ~owed' /\ EcuCounts'
      BY <1>5, <1>7, <1>8, <2>7, <3>1 DEF EcuCounts
    <3>3. InStep'
      BY <1>3, <1>7, <2>2, <2>4, <2>6, <3>1 DEF InStep, b, c, p
    <3> QED BY <1>3, <1>9, <3>2, <3>3, FrameGone
  <2>8. CASE ~(k + 1 < EcuBs)
    <3>1. n = 1 /\ c = EcuBs /\ k + n = c
      BY <2>1, <2>2, <2>3, <2>4, <2>5, <2>8
    <3>2. ecuRx'.cfs = 0 /\ o.ev = "fc"
      <4>1. Increment(k) >= EcuBs
        BY <2>1, <2>3, <2>8
      <4> QED BY <1>7, <1>11, <4>1 DEF k
    <3>3. tx.st = "await"
      <4>1. tx.st # "cons"
        BY <2>1, <2>5, <3>1
      <4> QED BY <4>1 DEF InBlock
    <3>4. toEcu' = << >>
      BY <2>2, <3>1, EmptySeq
    <3>5. ecuRx'.ffdl = Len(tx.payload) /\ Len(ecuRx'.buf) = p
      <4>1. FrameData * (n - 1) = 0
        <5>1. n - 1 = 0
          BY <3>1
        <5> QED BY <2>1, <5>1, OneMore
      <4>2. (b + FrameData) + 0 = p
        <5>1. (k + 1) + (n - 1) = c
          BY <2>1, <3>1
        <5> QED BY <2>6, <4>1, <5>1
      <4>3. b + FrameData = p
        BY <2>1, <4>2
      <4> QED BY <1>7, <2>4, <3>1, <4>3 DEF b
    <3>6. EcuCounts'
      BY <1>7, <1>11, <2>1, <3>2 DEF EcuCounts
    <3>7. ~FlowComes' /\ OneFlow' /\ TxPlaced'
      BY <1>3, <1>8 DEF FlowComes, OneFlow, TxPlaced, InvBlock
    <3>8. GrantAwaited' /\ FirstIsLast' /\ LateIsDead'
      <4>1. GrantAwaited'
        BY <1>3, <3>2, <3>3, <3>4, <3>5, <3>7 DEF GrantAwaited, Abreast, p
      <4>2. FirstIsLast'
        BY <3>4 DEF FirstIsLast
      <4>3. LateIsDead'
        BY <1>3 DEF InvBlock, LateIsDead
      <4> QED BY <4>1, <4>2, <4>3
    <3>9. InStep'
      <4>1. Len(toEcu') = 0 /\ 0 + 0 <= c /\ 0 + 0 # c
        BY <1>11, <2>1, <2>2, <3>1
      <4> QED BY <1>3, <3>2, <4>1 DEF InStep, c
    <3>10. Within'
      <4>1. BlockSize'
        BY <1>2, <1>3 DEF BlockSize
      <4> QED BY <1>2, <1>3, <1>4, <3>9, <4>1 DEF Within
    <3> QED BY <1>9, <3>6, <3>7, <3>8, <3>10 DEF InvBlock
  <2> QED BY <2>7, <2>8
<1> QED BY <1>10, <1>11

\* A consecutive frame that is refused or ends the message, or any between
\* two transfers.
LEMMA TakesLeftover ==
  ASSUME Undisturbed, TypedAndSound, InvBlock, EcuReceive, Head(toEcu).pci = "CF",
         ~(InBlock /\ RxGoesOn(ecuRx, Head(toEcu), RxOnFrame(ecuRx, Head(toEcu))))
  PROVE  InvBlock'
<1> DEFINE f == Head(toEcu)
           o == RxOnFrame(ecuRx, f)
<1>1. toEcu \in Seq(Frames) /\ ecuRx \in RxMachines /\ RxSound(ecuRx)
  BY DEF TypedAndSound, WireType, EcuType
<1>2. /\ toEcu # << >> /\ toEcu' = Tail(toEcu) /\ UNCHANGED <<pc, tx, ring>>
      /\ ecuRx' = o.rx /\ owed' = (o.rx.st = "receiving" /\ (owed \/ o.ev = "fc"))
  BY DEF EcuReceive, hostVars
<1>3. f \in Frames
  BY <1>1, <1>2, TailElements
<1>4. ~owed /\ EcuCounts
  BY <1>2 DEF InvBlock, GrantAwaited
<1>5. \/ ecuRx.st # "receiving" /\ RxStays(ecuRx, o)
      \/ RxStops(ecuRx, o) \/ RxGoesOn(ecuRx, f, o)
  BY <1>1, <1>3, <1>4, ConsecutiveFrames, MachineAssumption DEF EcuCounts
<1>6. ~(InBlock /\ RxGoesOn(ecuRx, f, o))
  OBVIOUS
<1>7. f.pci = "CF"
  OBVIOUS
<1> HIDE DEF f, o
<1>8. ASSUME ~InBlock, NEW n \in Nat, Leads(toEcu, n), Quiet(ecuRx, toEcu, n)
      PROVE  n > 0 /\ Leads(toEcu', n - 1) /\ n - 1 \in Nat
  <2>1. n # 0
    BY <1>1, <1>2, <1>7, <1>8, LeadsTail DEF f
  <2> QED BY <1>1, <1>2, <1>8, <2>1, LeadsTail
<1>9. CASE ecuRx'.st # "receiving"
  <2>1. ~owed' /\ EcuCounts'
    BY <1>2, <1>4, <1>5, <1>9 DEF RxStays, RxStops, RxGoesOn, EcuCounts
  <2>2. Between'
    <3> SUFFICES ASSUME ~InBlock'
                 PROVE  \E n \in Nat : Leads(toEcu', n) /\ Quiet(ecuRx', toEcu', n)
      BY DEF Between
    <3>1. ~InBlock
      BY <1>2 DEF InBlock
    <3>2. PICK n \in Nat : Leads(toEcu, n) /\ Quiet(ecuRx, toEcu, n)
      BY <3>1 DEF InvBlock, Between
    <3>3. Quiet(ecuRx', toEcu', n - 1)
      BY <1>9 DEF Quiet
    <3> QED BY <1>8, <3>1, <3>2, <3>3
  <2>3. InStep'
    BY <1>9 DEF InStep
  <2> QED BY <1>2, <2>1, <2>2, <2>3, FrameGone
<1>10. CASE ecuRx'.st = "receiving"
  <2>1. RxGoesOn(ecuRx, f, o) /\ ~InBlock
    BY <1>2, <1>5, <1>6, <1>10 DEF RxStays, RxStops
  <2>2. PICK n \in Nat : Leads(toEcu, n) /\ Quiet(ecuRx, toEcu, n)
    BY <2>1 DEF InvBlock, Between
  <2>3. n > 0 /\ Leads(toEcu', n - 1) /\ n - 1 \in Nat
    BY <1>8, <2>1, <2>2
  <2>4. o.ev # "fc" /\ Quiet(ecuRx', toEcu', n - 1)
    <3>1. ecuRx.bs = EcuBs
      BY <1>4 DEF EcuCounts
    <3> QED BY <1>1, <1>2, <2>1, <2>2, <2>3, <3>1, QuietNext, IsoTpAssumption,
               MachineAssumption DEF f
  <2>5. Between'
    BY <2>3, <2>4 DEF Between
  <2>6. EcuCounts'
    <3>1. /\ ecuRx'.bs = EcuBs /\ ~ecuRx'.checked
      BY <1>2, <1>4, <2>1 DEF RxGoesOn, EcuCounts
    <3>2. EcuBs # 0 => ecuRx'.cfs < EcuBs
      <4> SUFFICES ASSUME EcuBs # 0 PROVE ecuRx'.cfs < EcuBs
        OBVIOUS
      <4>1. EcuBs \in Nat
        BY <1>1, BlockNumbers, IsoTpAssumption, MachineAssumption
      <4>2. ecuRx'.cfs = Increment(ecuRx.cfs) /\ ~(Increment(ecuRx.cfs) >= EcuBs)
        BY <1>2, <1>4, <2>1, <2>4 DEF RxGoesOn, EcuCounts
      <4>3. Increment(ecuRx.cfs) \in Nat
        <5>1. ecuRx' \in RxMachines
          BY StepTyped DEF TypedAndSound, EcuType, Next
        <5> QED BY <4>2, <5>1, BlockNumbers, IsoTpAssumption, MachineAssumption
      <4> QED BY <4>1, <4>2, <4>3
    <3> QED BY <3>1, <3>2 DEF EcuCounts
  <2>7. ~owed'
    BY <1>2, <1>4, <2>4
  <2> QED BY <1>2, <2>1, <2>5, <2>6, <2>7, FrameGone
<1> QED BY <1>9, <1>10

LEMMA EcuReceiveBlock ==
  ASSUME Undisturbed, TypedAndSound, InvBlock, EcuReceive
  PROVE  InvBlock'
<1>1. CASE Head(toEcu).pci # "CF"
  BY <1>1, TakesOther, TakesFlow
<1>2. CASE Head(toEcu).pci = "CF"
  BY <1>2, TakesBlockFrame, TakesLeftover
<1> QED BY <1>1, <1>2

\* A step of the ECU's that puts nothing but a flow control in the ring.
LEMMA EcuFlowBlock == Undisturbed /\ TypedAndSound /\ InvBlock /\ EcuFlow => InvBlock'
<1> SUFFICES ASSUME Undisturbed, TypedAndSound, InvBlock, EcuFlow PROVE InvBlock'
  OBVIOUS
<1>1. PICK fs \in EcuFlows :
        /\ Deposit(FlowControl(fs, EcuBs, EcuStMin))
        /\ owed' = (fs = "wait")
        /\ ecuRx' = IF fs = "ovflw" THEN EcuIdle ELSE [ecuRx EXCEPT !.timer = NCr]
  BY DEF EcuFlow
<1> DEFINE f == FlowControl(fs, EcuBs, EcuStMin)
<1>2. owed /\ UNCHANGED <<pc, tx, toEcu>>
  BY DEF EcuFlow, hostVars
<1>3. ~owed'
  BY <1>1 DEF Undisturbed
<1>4. tx.st = "await" /\ toEcu = << >> /\ Abreast /\ ~FlowComes
  BY <1>2 DEF InvBlock, GrantAwaited
<1>5. OneFlow'
  <2>1. f \in Frames /\ f.fs = fs /\ f.bs = EcuBs
    <3>1. fs \in {"cts", "wait", "ovflw"}
      BY IsoTpAssumption DEF IsoTpAssumption
    <3> QED BY <3>1, FlowControlTyped, CallConstants, IsoTpAssumption DEF FlowControl
  <2> HIDE DEF f
  <2>2. ring \in Seq(Frames) /\ OneFlow
    BY DEF TypedAndSound, WireType, InvBlock
  <2>3. Deposit(f)
    BY <1>1 DEF f
  <2> QED BY <1>4, <2>1, <2>2, <2>3, RingDeposit
<1>6. TxAlike /\ EcuAlike /\ TxPlaced'
  <2>1. ecuRx \in RxMachines
    BY DEF TypedAndSound, EcuType
  <2>2. EcuIdle.st = "idle" /\ EcuIdle.bs = EcuBs /\ EcuIdle.checked = FALSE
    BY DEF EcuIdle, RxNew
  <2> DEFINE u == [ecuRx EXCEPT !.timer = NCr]
  <2>3. /\ u.st = ecuRx.st /\ u.bs = ecuRx.bs /\ u.checked = ecuRx.checked
        /\ u.cfs = ecuRx.cfs /\ u.ffdl = ecuRx.ffdl /\ u.buf = ecuRx.buf
    BY <2>1 DEF RxMachines
  <2>4. ecuRx.bs = EcuBs /\ ecuRx.checked = FALSE
    BY <2>1, RxFields DEF InvBlock, EcuCounts
  <2>5. EcuAlike
    <3>1. ecuRx' = EcuIdle \/ ecuRx' = u
      BY <1>1
    <3> HIDE DEF u
    <3> QED BY <2>2, <2>3, <2>4, <3>1 DEF EcuAlike
  <2> QED BY <1>2, <2>5 DEF TxAlike, TxPlaced, InvBlock
<1>7. EcuCounts' /\ FirstIsLast' /\ Between' /\ Within' /\ (Abreast => Abreast')
  BY <1>2, <1>6, Alike
<1>8. GrantAwaited'
  BY <1>2, <1>3, <1>4, <1>7 DEF GrantAwaited
<1>9. LateIsDead'
  BY <1>2 DEF InvBlock, LateIsDead
<1> QED BY <1>5, <1>6, <1>7, <1>8, <1>9 DEF InvBlock

\* The ECU answers, or drops what it was doing.
LEMMA EcuMovesBlock ==
  TypedAndSound /\ InvBlock /\ (EcuAnswer \/ EcuIgnores \/ EcuSend \/ EcuExpires) => InvBlock'
<1> SUFFICES ASSUME TypedAndSound, InvBlock, EcuAnswer \/ EcuIgnores \/ EcuSend \/ EcuExpires
             PROVE  InvBlock'
  OBVIOUS
<1>1. UNCHANGED <<pc, tx, toEcu>>
  BY DEF EcuAnswer, EcuIgnores, EcuSend, EcuExpires, hostVars
<1>2. TxAlike /\ TxPlaced' /\ tx'.timer = tx.timer
  BY <1>1 DEF TxAlike, TxPlaced, InvBlock
<1>3. CASE EcuAnswer \/ EcuIgnores
  <2>1. UNCHANGED <<ring, ecuRx, owed>>
    BY <1>3 DEF EcuAnswer, EcuIgnores
  <2>2. EcuAlike /\ OneFlow' /\ (FlowComes' => FlowComes)
    BY <2>1 DEF EcuAlike, OneFlow, FlowComes, InvBlock
  <2> QED BY <1>1, <1>2, <2>1, <2>2, OnlyRing
<1>4. CASE EcuSend
  <2> DEFINE f == TxFrame(ecuTx)
  <2>1. Deposit(f) /\ UNCHANGED <<ecuRx, owed>> /\ TxReady(ecuTx)
    BY <1>4 DEF EcuSend
  <2>2. f \in Frames /\ f.pci # "FC"
    <3>1. ecuTx \in TxMachines /\ TxSound(ecuTx)
      BY DEF TypedAndSound, EcuType
    <3>2. f \in Frames
      BY <2>1, <3>1, TxFrameTyped, IsoTpAssumption, MachineAssumption
    <3>3. f.pci # "FC"
      BY DEF TxFrame
    <3> QED BY <3>2, <3>3
  <2> HIDE DEF f
  <2>3. ring \in Seq(Frames) /\ OneFlow
    BY DEF TypedAndSound, WireType, InvBlock
  <2>4. OneFlow' /\ (FlowComes' => FlowComes)
    BY <2>1, <2>2, <2>3, RingDeposit
  <2>5. EcuAlike
    BY <2>1 DEF EcuAlike
  <2> QED BY <1>1, <1>2, <2>1, <2>4, <2>5, OnlyRing
<1>5. CASE EcuExpires
  <2>1. /\ UNCHANGED ring /\ (owed' = owed \/ owed' = FALSE)
        /\ ecuRx' = ecuRx \/ ecuRx' = EcuIdle
    BY <1>5 DEF EcuExpires
  <2>2. EcuAlike
    <3>1. EcuIdle.st = "idle" /\ EcuIdle.bs = EcuBs /\ EcuIdle.checked = FALSE
      BY DEF EcuIdle, RxNew
    <3>2. ecuRx.bs = EcuBs /\ ecuRx.checked = FALSE
      BY RxFields DEF InvBlock, EcuCounts, TypedAndSound, EcuType
    <3> QED BY <2>1, <3>1, <3>2 DEF EcuAlike
  <2>3. OneFlow' /\ (FlowComes' => FlowComes)
    BY <2>1 DEF OneFlow, FlowComes, InvBlock
  <2> QED BY <1>1, <1>2, <2>1, <2>2, <2>3, OnlyRing
<1> QED BY <1>3, <1>4, <1>5

LEMMA LoseBlock == TypedAndSound /\ InvBlock /\ Lose => InvBlock'
<1> SUFFICES ASSUME TypedAndSound, InvBlock, Lose PROVE InvBlock'
  OBVIOUS
<1>1. UNCHANGED <<pc, tx, ecuRx, owed>>
  BY DEF Lose, hostVars, ecuVars
<1>2. toEcu \in Seq(Frames) /\ ring \in Seq(Frames) /\ ecuRx \in RxMachines
      /\ tx \in TxMachines
  BY DEF TypedAndSound, WireType, EcuType, HostType
<1>3. CASE ring # << >> /\ ring' = Tail(ring) /\ UNCHANGED toEcu
  <2>1. OneFlow' /\ (FlowComes' => FlowComes)
    BY <1>2, <1>3, RingTail DEF InvBlock
  <2>2. TxAlike /\ EcuAlike /\ TxPlaced' /\ tx'.timer = tx.timer
    BY <1>1 DEF TxAlike, EcuAlike, TxPlaced, InvBlock
  <2> QED BY <1>1, <1>3, <2>1, <2>2, OnlyRing
<1>4. CASE toEcu # << >> /\ toEcu' = Tail(toEcu) /\ UNCHANGED ring
  <2>1. ~owed' /\ EcuCounts' /\ EcuCounts
    BY <1>1, <1>4 DEF InvBlock, GrantAwaited, EcuCounts
  <2>2. Between'
    <3> SUFFICES ASSUME ~InBlock'
                 PROVE  \E n \in Nat : Leads(toEcu', n) /\ Quiet(ecuRx', toEcu', n)
      BY DEF Between
    <3>1. ~InBlock
      BY <1>1 DEF InBlock
    <3>2. PICK n \in Nat : Leads(toEcu, n) /\ Quiet(ecuRx, toEcu, n)
      BY <3>1 DEF InvBlock, Between
    <3>3. CASE n = 0
      <4>1. Leads(toEcu', 0)
        BY <1>2, <1>4, <3>2, <3>3, LeadsTail
      <4>2. Quiet(ecuRx', toEcu', 0)
        BY <1>1, <1>2, <2>1, QuietZero, IsoTpAssumption, MachineAssumption DEF EcuCounts
      <4> QED BY <4>1, <4>2
    <3>4. CASE n # 0
      <4>1. Leads(toEcu', n - 1) /\ n - 1 \in Nat /\ n > 0
        BY <1>2, <1>4, <3>2, <3>4, LeadsTail
      <4>2. Quiet(ecuRx', toEcu', n - 1)
        BY <1>1, <1>2, <1>4, <3>2, <4>1, QuietLess
      <4> QED BY <4>1, <4>2
    <3> QED BY <3>3, <3>4
  <2>3. InBlock => InStep'
    <3> SUFFICES ASSUME InBlock, EcuBs # 0, ecuRx.st = "receiving"
                 PROVE  InStep'
      BY <1>1 DEF InStep
    <3>1. ecuRx.cfs + Len(toEcu) <= tx.cfs
      BY DEF InvBlock, Within, InStep
    <3> DEFINE k == ecuRx.cfs
               n == Len(toEcu)
               c == tx.cfs
               n1 == Len(toEcu')
    <3>2. k \in Nat /\ c \in Nat /\ n \in Nat /\ n1 = n - 1 /\ k + n <= c
      BY <1>2, <1>4, <3>1, TailElements, TxNumbers, BlockNumbers, IsoTpAssumption,
         MachineAssumption
    <3>3. ecuRx'.cfs = k /\ tx'.cfs = c /\ ecuRx'.st = "receiving"
      BY <1>1
    <3>4. ecuRx'.cfs + Len(toEcu') = k + n1
      BY <3>3
    <3> HIDE DEF k, n, c, n1
    <3>5. k + n1 <= c /\ k + n1 # c
      BY <3>2
    <3> QED BY <3>3, <3>4, <3>5 DEF InStep
  <2> QED BY <1>1, <1>4, <2>1, <2>2, <2>3, FrameGone
<1> QED BY <1>3, <1>4 DEF Lose

\* Time passes when nobody has anything to do: nothing is owed or comes then.
LEMMA TickBlock == Undisturbed /\ TypedAndSound /\ InvBlock /\ Tick => InvBlock'
<1> SUFFICES ASSUME Undisturbed, TypedAndSound, InvBlock, Tick PROVE InvBlock'
  OBVIOUS
<1>1. /\ UNCHANGED <<pc, toEcu, ring, owed>>
      /\ tx' = [tx EXCEPT !.timer = Down(@)] /\ ecuRx' = RxDown(ecuRx)
      /\ HostWaits /\ EcuWaits
  BY DEF Tick, Undisturbed
<1>2. tx \in TxMachines /\ ecuRx \in RxMachines
  BY DEF TypedAndSound, HostType, EcuType
<1>3. TxAlike
  BY <1>1, <1>2 DEF TxAlike, TxMachines
<1>4. EcuAlike
  BY <1>1, <1>2 DEF EcuAlike, RxDown, RxMachines
<1>5. EcuCounts' /\ FirstIsLast' /\ Between' /\ Within' /\ (Abreast => Abreast')
  BY <1>1, <1>3, <1>4, Alike
<1>6. OneFlow' /\ (FlowComes' <=> FlowComes)
  BY <1>1 DEF OneFlow, FlowComes, InvBlock
<1>7. GrantAwaited' /\ TxPlaced'
  BY <1>1, <1>3, <1>5, <1>6 DEF GrantAwaited, TxPlaced, TxAlike, InvBlock
<1>8. LateIsDead'
  <2> SUFFICES ASSUME tx.st = "await" PROVE toEcu = << >> /\ ~owed /\ ~FlowComes
    BY <1>1, <1>3, <1>6 DEF LateIsDead, TxAlike
  <2>1. ring = << >>
    BY <1>1 DEF HostWaits, InvBlock, TxPlaced
  <2> QED BY <1>1, <2>1 DEF EcuWaits, FlowComes
<1> QED BY <1>5, <1>6, <1>7, <1>8 DEF InvBlock

LEMMA StepBlock ==
  ASSUME Undisturbed
  PROVE  TypedAndSound /\ InvBlock /\ [Next]_vars => InvBlock'
<1> SUFFICES ASSUME TypedAndSound, InvBlock, [Next]_vars PROVE InvBlock'
  OBVIOUS
<1>1. CASE UNCHANGED vars
  BY <1>1 DEF vars, hostVars, ecuVars, InvBlock, TxPlaced, EcuCounts, OneFlow, FlowComes,
     GrantAwaited, Abreast, LateIsDead, FirstIsLast, Between, Within, InBlock, BlockSize, InStep
<1>2. CASE Call \/ SendFrame \/ AwaitFlow \/ FlowPolled \/ RecvLoop \/ RecvPolled \/ PollEmpty
  BY <1>2, CallBlock, SendBlock, AwaitBlock, FlowPolledBlock, RecvBlock, PollEmptyBlock
<1>3. CASE SendFails \/ PollFails \/ FlowFails \/ Repeat \/ Noise
  BY <1>3 DEF SendFails, PollFails, FlowFails, Repeat, Noise, Fault, Undisturbed
<1>4. CASE EcuReceive \/ EcuFlow \/ EcuAnswer \/ EcuIgnores \/ EcuSend \/ EcuExpires
  BY <1>4, EcuReceiveBlock, EcuFlowBlock, EcuMovesBlock
<1>5. CASE Lose \/ Tick
  BY <1>5, LoseBlock, TickBlock
<1> QED BY <1>1, <1>2, <1>3, <1>4, <1>5 DEF Next

\* While the ECU owes a flow control no consecutive frame is on its way to it
\* (machine.rs:174-179), for any lengths, block sizes, STmin and ring, however
\* many frames are lost.  The counters are bytes in the code, and each other part
\* of Undisturbed is needed: a frame that is late, repeated or foreign, or left
\* over by a call the link ended or by one that ran out of patience, may pass for
\* the grant of another block.
THEOREM BlockHonouredAlways ==
  ASSUME Undisturbed
  PROVE  Spec => []BlockHonoured
<1>1. Init => InvBlock
  BY InitBlock
<1>2. TypedAndSound /\ InvBlock /\ [Next]_vars => InvBlock'
  BY StepBlock
<1>3. InvBlock => BlockHonoured
  BY DEF InvBlock, GrantAwaited, BlockHonoured
<1> QED BY <1>1, <1>2, <1>3, TypedAndSoundAlways, PTL DEF Spec

-----------------------------------------------------------------------------
(* No splice.  One message P is on its way from the sender t over the queue *)
(* q to the receiver r.  Single frames of the messages in S, the announced  *)
(* answers, and frames without data are loose: they may stand anywhere.     *)
(* Every other frame is a part of P and shows by its first byte which one.  *)
(* Whatever was lost before it, the receiver then holds either a prefix of  *)
(* P up to the next frame or so little that P never becomes complete.       *)

Numbered(P) ==
  /\ P \in Seq(Bytes) /\ Len(P) >= 1
  /\ \A i \in 1..Len(P) : P[i][4] = i

Loose(f, S) ==
  \/ f.pci \notin {"SF", "FF", "CF"}
  \/ f.pci = "SF" /\ \E m \in S : f.len = Len(m) /\ f.data = pad(m)

Firm(q, S) == {i \in DOMAIN q : ~Loose(q[i], S)}

\* The bytes that stand before a part in its message.
At(f) == f.data[1][4] - 1

Part(f, P, o) ==
  \/ /\ f.pci = "SF" /\ o = 0 /\ Len(P) <= FrameData
     /\ f.len = Len(P) /\ f.data = pad(P)
  \/ /\ f.pci = "FF" /\ o = 0 /\ Len(P) > FrameData
     /\ f.len = Len(P) /\ f.data = SubSeq(P, 1, FrameData - 1)
  \/ /\ f.pci = "CF" /\ o \in (FrameData - 1)..(Len(P) - 1) /\ Len(P) > FrameData
     /\ f.data = pad(SubSeq(P, o + 1, o + Least(FrameData, Len(P) - o)))

\* Where the part after the one at o begins.
End(o) == IF o = 0 THEN FrameData - 1 ELSE o + FrameData

\* A part at o comes after the first e bytes: at once, or with parts missing.
Follows(e, o) == o = e \/ o >= e + FrameData

Own(t, S) ==
  /\ t.st \in {"single", "first", "await", "cons"}
  /\ ~(t.st = "single" /\ t.payload \in S)

Placed(t, P) ==
  /\ t.payload = P
  /\ \/ t.st = "single" /\ t.offset = 0 /\ Len(P) <= FrameData
     \/ t.st = "first" /\ t.offset = 0 /\ Len(P) > FrameData
     \/ t.st \in {"await", "cons"} /\ t.offset >= FrameData - 1 /\ Len(P) > FrameData

Held(r, e, P) ==
  /\ r.ffdl = Len(P) /\ Len(P) > FrameData /\ e >= FrameData - 1
  /\ \/ e < Len(P) /\ r.buf = SubSeq(P, 1, e)
     \/ Len(r.buf) + FrameData <= e

Ascends(q, P, S) ==
  /\ \A i \in Firm(q, S) : Part(q[i], P, At(q[i]))
  /\ \A i, j \in Firm(q, S) : i < j => Follows(End(At(q[i])), At(q[j]))

Leaves(t, q, P, S) ==
  Own(t, S) => Placed(t, P) /\ \A i \in Firm(q, S) : Follows(End(At(q[i])), t.offset)

Arrives(t, q, r, P, S, e) ==
  /\ Held(r, e, P)
  /\ \A i \in Firm(q, S) : Follows(e, At(q[i]))
  /\ Own(t, S) => Follows(e, t.offset)

Transfer(t, q, r, P, S) ==
  /\ Ascends(q, P, S) /\ Leaves(t, q, P, S)
  /\ r.st = "receiving" => \E e \in Nat : Arrives(t, q, r, P, S, e)

\* Something of the message is still on its way.
Live(t, q, r, S) == Own(t, S) \/ Firm(q, S) # {} \/ r.st = "receiving"

LEMMA MessageNumbered ==
  ASSUME NEW kind \in {"req", "resp", "pend", "pad"}, NEW n \in Nat,
         NEW len \in Nat, len >= 1
  PROVE  /\ Numbered(Message(kind, n, len)) /\ Whole(Message(kind, n, len))
         /\ Len(Message(kind, n, len)) = len
         /\ Message(kind, n, len)[1] = <<kind, n, len, 1>>
<1> DEFINE M == Message(kind, n, len)
<1>1. M = [i \in 1..len |-> <<kind, n, len, i>>]
  BY DEF Message
<1>2. M \in Seq(Bytes)
  BY MessageTyped
<1>3. Len(M) = len /\ \A i \in 1..len : M[i] = <<kind, n, len, i>>
  BY <1>1
<1>4. 1 \in 1..len
  OBVIOUS
<1> HIDE DEF M
<1>5. M[1] = <<kind, n, len, 1>>
  BY <1>3, <1>4
<1>6. Whole(M)
  <2>1. M[1][1] = kind /\ M[1][2] = n /\ M[1][3] = len
    BY <1>5
  <2> QED BY <2>1 DEF Whole, M
<1>7. Numbered(M)
  BY <1>2, <1>3 DEF Numbered
<1> QED BY <1>3, <1>5, <1>6, <1>7 DEF M

\* Padding keeps what it pads in front.
LEMMA PadPrefix ==
  ASSUME IsoTpAssumption, MachineAssumption, NEW d \in Seq(Bytes), NEW k \in 0..Len(d)
  PROVE  /\ SubSeq(pad(d), 1, k) = SubSeq(d, 1, k)
         /\ Len(pad(d)) \in Nat /\ Len(pad(d)) >= Len(d)
         /\ \A i \in 1..Len(d) : pad(d)[i] = d[i]
<1> DEFINE fill == [i \in 1..(FrameData - Len(d)) |-> PadByte]
<1>1. Len(d) \in Nat /\ FrameData \in Nat /\ PadByte \in Bytes
  BY LenProperties DEF IsoTpAssumption, MachineAssumption
<1>2. fill \in Seq(Bytes)
  <2>1. FrameData - Len(d) \in Int
    BY <1>1
  <2> QED BY <1>1, <2>1, FillTyped, Zenon
<1>3. pad(d) = IF Padded THEN d \o fill ELSE d
  BY DEF pad
<1> HIDE DEF fill
<1>4. CASE ~Padded
  BY <1>1, <1>3, <1>4
<1>5. CASE Padded
  <2>1. /\ d \o fill \in Seq(Bytes) /\ Len(d \o fill) = Len(d) + Len(fill)
        /\ Len(fill) \in Nat
        /\ \A i \in 1..(Len(d) + Len(fill)) :
             (d \o fill)[i] = IF i <= Len(d) THEN d[i] ELSE fill[i - Len(d)]
    BY <1>2, ConcatProperties, LenProperties
  <2>2. \A i \in 1..Len(d) : (d \o fill)[i] = d[i]
    BY <1>1, <2>1
  <2>3. SubSeq(d \o fill, 1, k) = SubSeq(d, 1, k)
    <3>1. CASE k = 0
      BY <3>1, SubSeqEmpty
    <3>2. CASE k # 0
      <4>1. k \in 1..Len(d) /\ 1 \in 1..Len(d)
        BY <1>1, <3>2
      <4> QED BY <1>2, <4>1, SubSeqOfConcat1
    <3> QED BY <3>1, <3>2
  <2>4. pad(d) = d \o fill
    BY <1>3, <1>5
  <2>5. Len(d \o fill) \in Nat /\ Len(d \o fill) >= Len(d)
    <3>1. Len(d) + Len(fill) \in Nat /\ Len(d) + Len(fill) >= Len(d)
      BY <1>1, <2>1
    <3> QED BY <2>1, <3>1, Zenon
  <2> QED BY <2>2, <2>3, <2>4, <2>5, Zenon
<1> QED BY <1>4, <1>5

\* A piece of a numbered message begins with the byte after those before it.
LEMMA PieceBegins ==
  ASSUME NEW P, Numbered(P), NEW o \in Nat, NEW k \in Nat, k >= 1, o + k <= Len(P)
  PROVE  /\ SubSeq(P, o + 1, o + k) \in Seq(Bytes)
         /\ Len(SubSeq(P, o + 1, o + k)) = k
         /\ SubSeq(P, o + 1, o + k)[1] = P[o + 1] /\ P[o + 1][4] = o + 1
<1> DEFINE a == o + 1
           b == o + k
<1>1. P \in Seq(Bytes) /\ Len(P) \in Nat
  BY LenProperties DEF Numbered
<1>2. /\ a \in Int /\ b \in Int /\ a <= b /\ b - a + 1 = k /\ a + 1 - 1 = a
      /\ 1 \in 1..(b - a + 1) /\ a \in 1..Len(P) /\ a..b \subseteq 1..Len(P)
  BY <1>1
<1> HIDE DEF a, b
<1>3. \A i \in a..b : P[i] \in Bytes
  <2>1. \A i \in 1..Len(P) : P[i] \in Bytes
    BY <1>1, ElementOfSeq
  <2> QED BY <1>2, <2>1
<1>4. /\ SubSeq(P, a, b) \in Seq(Bytes) /\ Len(SubSeq(P, a, b)) = b - a + 1
      /\ SubSeq(P, a, b)[1] = P[a + 1 - 1]
  BY <1>2, <1>3, SubSeqProperties
<1>5. P[a][4] = a
  BY <1>2 DEF Numbered
<1> QED BY <1>2, <1>4, <1>5 DEF a, b

\* What a consecutive frame at o carries.
LEMMA PieceOf ==
  ASSUME NEW P, Numbered(P),
         NEW o \in Nat, o < Len(P)
  PROVE  LET k == Least(FrameData, Len(P) - o)
             d == SubSeq(P, o + 1, o + k)
         IN  /\ k \in 1..FrameData /\ o + k <= Len(P)
             /\ k < FrameData => o + k = Len(P)
             /\ d \in Seq(Bytes) /\ Len(d) = k /\ pad(d)[1][4] = o + 1
<1> DEFINE k == Least(FrameData, Len(P) - o)
           d == SubSeq(P, o + 1, o + k)
<1>1. Len(P) \in Nat
  BY LenProperties DEF Numbered
<1>2. k \in 1..FrameData /\ o + k <= Len(P) /\ (k < FrameData => o + k = Len(P))
  BY <1>1, Constants, MachineAssumption DEF Least
<1> HIDE DEF k
<1>3. k \in Nat /\ k >= 1
  BY <1>2, Constants, MachineAssumption
<1>4. /\ SubSeq(P, o + 1, o + k) \in Seq(Bytes) /\ Len(SubSeq(P, o + 1, o + k)) = k
      /\ SubSeq(P, o + 1, o + k)[1] = P[o + 1] /\ P[o + 1][4] = o + 1
  <2>1. o + k <= Len(P)
    BY <1>2
  <2>2. SubSeq(P, o + 1, o + k) \in Seq(Bytes)
    BY <1>3, <2>1, PieceBegins
  <2>3. SubSeq(P, o + 1, o + k)[1] = P[o + 1]
    BY <1>3, <2>1, PieceBegins
  <2>4. Len(SubSeq(P, o + 1, o + k)) = k
    BY <1>3, <2>1, PieceBegins
  <2>5. P[o + 1][4] = o + 1
    BY <1>3, <2>1, PieceBegins
  <2> QED BY <2>2, <2>3, <2>4, <2>5
<1> HIDE DEF d
<1>5. pad(d)[1] = d[1]
  <2>1. 0 \in 0..Len(d) /\ 1 \in 1..Len(d)
    BY <1>3, <1>4 DEF d
  <2>2. d \in Seq(Bytes)
    BY <1>4 DEF d
  <2>3. \A i \in 1..Len(d) : pad(d)[i] = d[i]
    BY <2>1, <2>2, PadPrefix, IsoTpAssumption, MachineAssumption
  <2> QED BY <2>1, <2>3
<1> QED BY <1>2, <1>4, <1>5 DEF k, d

\* A part shows where it stands.
LEMMA PartAt ==
  ASSUME NEW P, Numbered(P),
         NEW f, NEW o, Part(f, P, o)
  PROVE  At(f) = o /\ o \in Nat /\ o < Len(P)
<1>1. P \in Seq(Bytes) /\ Len(P) \in Nat /\ Len(P) >= 1
  BY LenProperties DEF Numbered
<1>2. 1 \in 1..Len(P) /\ 0 \in 0..Len(P) /\ P[1][4] = 1
  BY <1>1 DEF Numbered
<1>3. CASE f.pci = "SF"
  <2>1. f.data = pad(P) /\ o = 0
    BY <1>3 DEF Part
  <2>2. pad(P)[1] = P[1]
    BY <1>1, <1>2, PadPrefix, IsoTpAssumption, MachineAssumption
  <2> QED BY <1>1, <1>2, <2>1, <2>2 DEF At
<1>4. CASE f.pci = "FF"
  <2> DEFINE n == FrameData - 1
  <2>1. f.data = SubSeq(P, 1, n) /\ o = 0 /\ Len(P) > FrameData
    BY <1>4 DEF Part
  <2>2. n \in Nat /\ n >= 1 /\ 0 + n <= Len(P)
    BY <1>1, <2>1, Constants, MachineAssumption
  <2> HIDE DEF n
  <2>3. SubSeq(P, 0 + 1, 0 + n)[1] = P[0 + 1]
    BY <2>2, PieceBegins
  <2>4. 0 + 1 = 1 /\ 0 + n = n
    BY <2>2
  <2>5. f.data[1] = P[1]
    BY <2>1, <2>3, <2>4, Zenon DEF n
  <2>6. At(f) = 0
    BY <1>2, <2>5 DEF At
  <2> QED BY <1>1, <2>1, <2>6
<1>5. CASE f.pci = "CF"
  <2>1. /\ o \in (FrameData - 1)..(Len(P) - 1)
        /\ f.data = pad(SubSeq(P, o + 1, o + Least(FrameData, Len(P) - o)))
    BY <1>5 DEF Part
  <2>2. o \in Nat /\ o < Len(P) /\ o + 1 - 1 = o
    BY <1>1, <2>1, Constants, MachineAssumption
  <2>3. f.data[1][4] = o + 1
    BY <2>1, <2>2, PieceOf
  <2> QED BY <2>2, <2>3 DEF At
<1> QED BY <1>3, <1>4, <1>5 DEF Part

-----------------------------------------------------------------------------
(* What a transfer survives.                                                *)

LEMMA TailFirm ==
  ASSUME NEW S, NEW q \in Seq(Frames), q # << >>
  PROVE  \A i \in Firm(Tail(q), S) : i + 1 \in Firm(q, S) /\ Tail(q)[i] = q[i + 1]
<1> SUFFICES ASSUME NEW i \in Firm(Tail(q), S)
             PROVE  i + 1 \in Firm(q, S) /\ Tail(q)[i] = q[i + 1]
  OBVIOUS
<1>1. i \in 1..(Len(q) - 1) /\ ~Loose(Tail(q)[i], S)
  BY TailElements DEF Firm
<1>2. Len(q) \in Nat /\ Tail(q)[i] = q[i + 1] /\ DOMAIN q = 1..Len(q)
  BY <1>1, TailElements
<1>3. i + 1 \in DOMAIN q
  BY <1>1, <1>2
<1> QED BY <1>1, <1>2, <1>3 DEF Firm

LEMMA FirmBelow ==
  ASSUME NEW S, NEW q \in Seq(Frames)
  PROVE  Len(q) \in Nat /\ \A i \in Firm(q, S) : i \in Nat /\ i <= Len(q)
BY LenProperties DEF Firm

LEMMA AppendFirm ==
  ASSUME NEW S, NEW q \in Seq(Frames), NEW f, NEW p,
         DOMAIN p = 1..(Len(q) + 1), \A j \in 1..Len(q) : p[j] = q[j],
         p[Len(q) + 1] = f, NEW i \in Firm(p, S)
  PROVE  \/ i \in Firm(q, S) /\ p[i] = q[i]
         \/ i = Len(q) + 1 /\ p[i] = f /\ ~Loose(f, S)
<1>1. Len(q) \in Nat /\ DOMAIN q = 1..Len(q)
  BY LenProperties
<1>2. i \in 1..(Len(q) + 1) /\ ~Loose(p[i], S)
  BY <1>1 DEF Firm
<1>3. CASE i \in 1..Len(q)
  BY <1>1, <1>2, <1>3 DEF Firm
<1>4. CASE i = Len(q) + 1
  BY <1>1, <1>2, <1>4
<1> QED BY <1>1, <1>2, <1>3, <1>4

\* Frames lost, the sender stopped or granted a block, the receiver stopped.
LEMMA Lesser ==
  ASSUME NEW S, NEW P, NEW t, NEW q \in Seq(Frames), NEW r,
         Transfer(t, q, r, P, S),
         NEW u, NEW p \in Seq(Frames), NEW v, NEW d \in {0, 1},
         Own(u, S) => /\ Own(t, S) /\ u.payload = t.payload /\ u.offset = t.offset
                      /\ u.st = t.st \/ {u.st, t.st} \subseteq {"await", "cons"},
         \A i \in Firm(p, S) : i + d \in Firm(q, S) /\ p[i] = q[i + d],
         v.st = "receiving" => r.st = "receiving" /\ v.ffdl = r.ffdl /\ v.buf = r.buf
  PROVE  Transfer(u, p, v, P, S) /\ (Live(u, p, v, S) => Live(t, q, r, S))
<1>1. \A i \in Firm(p, S) : i \in Nat
  BY LenProperties DEF Firm
<1>2. Ascends(p, P, S)
  <2>1. \A i \in Firm(p, S) : Part(p[i], P, At(p[i]))
    BY Zenon DEF Ascends, Transfer
  <2>2. \A i, j \in Firm(p, S) : i < j => i + d < j + d
    BY <1>1
  <2>3. \A i, j \in Firm(p, S) : i < j => Follows(End(At(p[i])), At(p[j]))
    BY <2>2, Zenon DEF Ascends, Transfer
  <2> QED BY <2>1, <2>3 DEF Ascends
<1>3. Own(u, S) => Placed(u, P)
  BY DEF Placed, Leaves, Transfer
<1>4. Leaves(u, p, P, S)
  <2> SUFFICES ASSUME Own(u, S), NEW i \in Firm(p, S)
               PROVE  Follows(End(At(p[i])), u.offset)
    BY <1>3 DEF Leaves
  <2>1. Own(t, S) /\ i + d \in Firm(q, S) /\ p[i] = q[i + d] /\ u.offset = t.offset
    OBVIOUS
  <2> QED BY <2>1, Zenon DEF Leaves, Transfer
<1>5. ASSUME v.st = "receiving", NEW e \in Nat, Arrives(t, q, r, P, S, e)
      PROVE  Arrives(u, p, v, P, S, e)
  <2>1. Held(v, e, P)
    BY <1>5 DEF Arrives, Held
  <2>2. \A i \in Firm(p, S) : Follows(e, At(p[i]))
    BY <1>5, Zenon DEF Arrives
  <2>3. Own(u, S) => Follows(e, u.offset)
    BY <1>5, Zenon DEF Arrives
  <2> QED BY <2>1, <2>2, <2>3 DEF Arrives
<1>6. v.st = "receiving" => \E e \in Nat : Arrives(u, p, v, P, S, e)
  BY <1>5, Zenon DEF Transfer
<1>7. Live(u, p, v, S) => Live(t, q, r, S)
  BY Zenon DEF Live
<1> QED BY <1>2, <1>4, <1>6, <1>7 DEF Transfer

\* The fields of a first frame.
LEMMA FirstFields ==
  ASSUME NEW t, t.st = "first"
  PROVE  /\ TxFrame(t).pci = "FF" /\ TxFrame(t).len = Len(t.payload)
         /\ TxFrame(t).data = SubSeq(t.payload, 1, FrameData - 1)
<1>1. TxFrame(t) = [pci |-> "FF", len |-> Len(t.payload),
                    data |-> SubSeq(t.payload, 1, FrameData - 1)]
  BY DEF TxFrame
<1> DEFINE n == Len(t.payload)
           d == SubSeq(t.payload, 1, FrameData - 1)
<1>2. TxFrame(t) = [pci |-> "FF", len |-> n, data |-> d]
  BY <1>1
<1> HIDE DEF n, d
<1>3. TxFrame(t).pci = "FF" /\ TxFrame(t).len = n /\ TxFrame(t).data = d
  BY <1>2
<1> QED BY <1>3 DEF n, d

\* The sender's next frame is the next part.
LEMMA SentPart ==
  ASSUME NEW P, Numbered(P), NEW S,
         NEW t \in TxMachines, TxSound(t), TxReady(t), Own(t, S), Placed(t, P)
  PROVE  /\ Part(TxFrame(t), P, t.offset)
         /\ Own(TxSent(t), S) =>
              Placed(TxSent(t), P) /\ TxSent(t).offset = End(t.offset)
<1>1. P \in Seq(Bytes) /\ Len(P) \in Nat /\ t.payload = P /\ t.offset \in Nat
  BY LenProperties, TxFields DEF Numbered, Placed
<1>2. t.st \in {"single", "first", "cons"}
  BY DEF TxReady
<1>3. CASE t.st = "single"
  <2>1. TxFrame(t) = [pci |-> "SF", len |-> Len(t.payload), data |-> pad(t.payload)]
    BY <1>3 DEF TxFrame
  <2>2. TxSent(t).st = "done"
    BY <1>3 DEF TxSent, TxMachines
  <2>3. t.offset = 0 /\ Len(P) <= FrameData
    BY <1>3 DEF Placed
  <2> QED BY <1>1, <2>1, <2>2, <2>3 DEF Part, Own
<1>4. CASE t.st = "first"
  <2>1. /\ TxFrame(t).pci = "FF" /\ TxFrame(t).len = Len(t.payload)
        /\ TxFrame(t).data = SubSeq(t.payload, 1, FrameData - 1)
    BY <1>4, FirstFields
  <2>2. TxSent(t).offset = FrameData - 1 /\ TxSent(t).payload = P /\ TxSent(t).st = "await"
    BY <1>1, <1>4, FirstSent, MachineAssumption
  <2>3. t.offset = 0 /\ Len(P) > FrameData
    BY <1>4 DEF Placed
  <2>4. FrameData - 1 >= FrameData - 1
    BY Constants, MachineAssumption
  <2>5. Part(TxFrame(t), P, t.offset)
    <3>1. t.payload = P /\ t.offset = 0 /\ Len(P) > FrameData
      BY <1>1, <2>3
    <3>2. /\ TxFrame(t).len = Len(P)
          /\ TxFrame(t).data = SubSeq(P, 1, FrameData - 1)
      BY <2>1, <3>1, Zenon
    <3> QED BY <2>1, <3>1, <3>2, Zenon DEF Part
  <2>6. Placed(TxSent(t), P)
    BY <2>2, <2>3, <2>4 DEF Placed
  <2>7. TxSent(t).offset = End(t.offset)
    BY <2>2, <2>3 DEF End
  <2> QED BY <2>5, <2>6, <2>7
<1>5. CASE t.st = "cons"
  <2>1. t.offset < Len(P) /\ t.offset >= FrameData - 1 /\ Len(P) > FrameData
    BY <1>1, <1>5 DEF Placed, TxSound
  <2>2. TxFrame(t) = [pci |-> "CF", sn |-> t.sn, data |-> pad(Chunk(t))]
    BY <1>5 DEF TxFrame
  <2>3. Chunk(t) = SubSeq(P, t.offset + 1, t.offset + Least(FrameData, Len(P) - t.offset))
    BY <1>1 DEF Chunk
  <2>4. t.offset \in (FrameData - 1)..(Len(P) - 1)
    BY <1>1, <2>1, Constants, MachineAssumption
  <2>5. Part(TxFrame(t), P, t.offset)
    <3>1. TxFrame(t).pci = "CF" /\ TxFrame(t).data = pad(Chunk(t))
      BY <2>2
    <3> QED BY <2>1, <2>3, <2>4, <3>1, Zenon DEF Part
  <2>6. ASSUME Own(TxSent(t), S)
        PROVE  Placed(TxSent(t), P) /\ TxSent(t).offset = End(t.offset)
    <3>1. /\ TxSent(t).payload = t.payload /\ TxSent(t).offset = t.offset + FrameData
          /\ TxSent(t).st \in {"await", "cons"}
      BY <1>5, <2>6, ConsecutiveSent, MachineAssumption DEF Own
    <3>2. t.offset + FrameData >= FrameData - 1 /\ t.offset # 0
      <4>1. FrameData \in Nat /\ FrameData >= 2
        BY Constants, MachineAssumption
      <4> QED BY <1>1, <2>1, <4>1
    <3> QED BY <1>1, <2>1, <3>1, <3>2 DEF Placed, End
  <2> QED BY <2>5, <2>6
<1> QED BY <1>2, <1>3, <1>4, <1>5

LEMMA FollowsOn ==
  ASSUME MachineAssumption, NEW e \in Nat, e >= FrameData - 1, NEW o \in Nat,
         Follows(e, o)
  PROVE  Follows(e, End(o)) /\ End(o) \in Nat /\ End(o) >= FrameData - 1
<1>1. FrameData \in Nat /\ FrameData >= 2
  BY Constants
<1>2. o # 0 /\ End(o) = o + FrameData
  BY <1>1 DEF Follows, End
<1> QED BY <1>1, <1>2 DEF Follows

LEMMA EndReaches ==
  ASSUME MachineAssumption, NEW o \in Nat
  PROVE  End(o) \in Nat /\ End(o) >= FrameData - 1
BY Constants DEF End

\* The sender sends its next frame, which reaches the queue or does not, and
\* goes on or stops.
LEMMA Pushed ==
  ASSUME NEW P, Numbered(P), NEW S,
         NEW t \in TxMachines, TxSound(t), TxReady(t),
         NEW q \in Seq(Frames), NEW r, Transfer(t, q, r, P, S),
         NEW u, Own(u, S) => u = TxSent(t),
         NEW p, p = q \/ p = Append(q, TxFrame(t))
  PROVE  Transfer(u, p, r, P, S) /\ (Live(u, p, r, S) => Live(t, q, r, S))
<1> DEFINE f == TxFrame(t)
<1>1. f \in Frames /\ p \in Seq(Frames)
  <2>1. f \in Frames
    BY TxFrameTyped, IsoTpAssumption, MachineAssumption, Zenon
  <2> HIDE DEF f
  <2>2. Append(q, f) \in Seq(Frames)
    BY <2>1, AppendTyped, Zenon
  <2> QED BY <2>1, <2>2, Zenon DEF f
<1>2. ASSUME NEW i \in Firm(p, S)
       PROVE  \/ i \in Firm(q, S) /\ p[i] = q[i]
              \/ i = Len(q) + 1 /\ p[i] = f /\ ~Loose(f, S)
  <2>1. CASE p = q
    BY <2>1
  <2>2. CASE p = Append(q, f)
    <3>1. /\ DOMAIN p = 1..(Len(q) + 1) /\ p[Len(q) + 1] = f
          /\ \A j \in 1..Len(q) : p[j] = q[j]
      BY <1>1, <2>2, AppendElements
    <3> QED BY <3>1, AppendFirm
  <2> QED BY <2>1, <2>2
<1>3. CASE ~Own(t, S)
  <2>1. t.st = "single" /\ t.payload \in S
    BY <1>3 DEF TxReady, Own
  <2>2. Loose(f, S)
    BY <2>1 DEF Loose, TxFrame
  <2>3. ~Own(u, S)
    <3>1. TxSent(t).st = "done"
      BY <2>1 DEF TxSent, TxMachines
    <3> QED BY <3>1 DEF Own
  <2>4. \A i \in Firm(p, S) : i + 0 \in Firm(q, S) /\ p[i] = q[i + 0]
    <3>1. \A i \in Firm(p, S) : i \in Firm(q, S) /\ p[i] = q[i]
      BY <1>2, <2>2, Zenon
    <3>2. \A i \in Firm(q, S) : i + 0 = i
      BY FirmBelow
    <3> QED BY <3>1, <3>2
  <2> HIDE DEF f
  <2> QED BY <1>1, <2>3, <2>4, Lesser
<1>4. CASE Own(t, S)
  <2>1. Placed(t, P) /\ t.offset \in Nat
    BY <1>4, TxFields DEF Transfer, Leaves
  <2>2. /\ Part(f, P, t.offset) /\ At(f) = t.offset
        /\ Own(u, S) => Placed(u, P) /\ u.offset = End(t.offset)
    <3>1. /\ Part(f, P, t.offset)
          /\ Own(TxSent(t), S) =>
               Placed(TxSent(t), P) /\ TxSent(t).offset = End(t.offset)
      BY <1>4, <2>1, SentPart
    <3>2. At(f) = t.offset
      BY <3>1, PartAt
    <3> QED BY <3>1, <3>2, Zenon
  <2> HIDE DEF f
  <2>3. \A i \in Firm(p, S) :
          \/ i \in Firm(q, S) /\ p[i] = q[i]
          \/ i = Len(q) + 1 /\ p[i] = f
    BY <1>2, Zenon
  <2>4. /\ \A i \in Firm(q, S) : i \in Nat /\ i <= Len(q)
        /\ Len(q) \in Nat
    BY FirmBelow
  <2>5. \A i \in Firm(q, S) : /\ Part(q[i], P, At(q[i])) /\ At(q[i]) \in Nat
                              /\ Follows(End(At(q[i])), t.offset)
    <3>1. \A i \in Firm(q, S) : /\ Part(q[i], P, At(q[i]))
                                /\ Follows(End(At(q[i])), t.offset)
      BY <1>4, Zenon DEF Transfer, Ascends, Leaves
    <3> QED BY <3>1, PartAt, Zenon
  <2>6. \A i \in Firm(p, S) : Part(p[i], P, At(p[i])) /\ At(p[i]) \in Nat
    BY <2>1, <2>2, <2>3, <2>5, Zenon
  <2>7. \A i, j \in Firm(p, S) : i < j => Follows(End(At(p[i])), At(p[j]))
    <3> SUFFICES ASSUME NEW i \in Firm(p, S), NEW j \in Firm(p, S), i < j
                 PROVE  Follows(End(At(p[i])), At(p[j]))
      OBVIOUS
    <3>1. i \in Firm(q, S) /\ p[i] = q[i]
      <4>1. i # Len(q) + 1
        <5>1. CASE j \in Firm(q, S)
          BY <2>4, <5>1
        <5>2. CASE j = Len(q) + 1
          BY <2>4, <5>2
        <5> QED BY <2>3, <5>1, <5>2, Zenon
      <4> QED BY <2>3, <4>1, Zenon
    <3>2. CASE j \in Firm(q, S) /\ p[j] = q[j]
      BY <3>1, <3>2, Zenon DEF Transfer, Ascends
    <3>3. CASE p[j] = f
      BY <2>2, <2>5, <3>1, <3>3, Zenon
    <3> QED BY <2>3, <3>2, <3>3
  <2>8. Ascends(p, P, S)
    BY <2>6, <2>7 DEF Ascends
  <2>9. Leaves(u, p, P, S)
    <3> SUFFICES ASSUME Own(u, S), NEW i \in Firm(p, S)
                 PROVE  Follows(End(At(p[i])), u.offset)
      BY <2>2 DEF Leaves
    <3>1. CASE i \in Firm(q, S) /\ p[i] = q[i]
      <4>1. End(At(q[i])) \in Nat /\ End(At(q[i])) >= FrameData - 1
        BY <2>5, <3>1, EndReaches, MachineAssumption
      <4>2. Follows(End(At(q[i])), End(t.offset))
        BY <2>1, <2>5, <3>1, <4>1, FollowsOn, MachineAssumption
      <4> QED BY <2>2, <3>1, <4>2, Zenon
    <3>2. CASE p[i] = f
      BY <2>2, <3>2 DEF Follows
    <3> QED BY <2>3, <3>1, <3>2
  <2>10. ASSUME r.st = "receiving", NEW e \in Nat, Arrives(t, q, r, P, S, e)
         PROVE  Arrives(u, p, r, P, S, e)
    <3>1. Held(r, e, P) /\ e >= FrameData - 1 /\ Follows(e, t.offset)
      BY <1>4, <2>10 DEF Arrives, Held
    <3>2. Follows(e, End(t.offset))
      BY <2>1, <3>1, FollowsOn, MachineAssumption
    <3>3. \A i \in Firm(p, S) : Follows(e, At(p[i]))
      BY <2>2, <2>3, <2>10, <3>1, Zenon DEF Arrives
    <3> QED BY <2>2, <3>1, <3>2, <3>3, Zenon DEF Arrives
  <2>11. r.st = "receiving" => \E e \in Nat : Arrives(u, p, r, P, S, e)
    BY <2>10, Zenon DEF Transfer
  <2> QED BY <1>4, <2>8, <2>9, <2>11 DEF Transfer, Live
<1> QED BY <1>3, <1>4

\* A sender begins: nothing else is on its way.
LEMMA Begun ==
  ASSUME NEW P, NEW S, NEW t, NEW q, Firm(q, S) = {}, NEW r, r.st # "receiving",
         Own(t, S) => Placed(t, P)
  PROVE  Transfer(t, q, r, P, S)
BY DEF Transfer, Ascends, Leaves

-----------------------------------------------------------------------------
(* What the receiver makes of a part.                                       *)

\* Nothing else arrives in a single frame than the message in it.
Single(f, m) == f.pci = "SF" /\ f.len = Len(m) /\ f.data = pad(m)

Ends(w, m) == w.ev = "done" /\ w.out = m /\ w.rx.st # "receiving"

LEMMA TakesSingle ==
  ASSUME NEW r \in RxMachines, NEW m, Numbered(m), NEW f, Single(f, m)
  PROVE  Ends(RxOnFrame(r, f), m)
<1>1. /\ m \in Seq(Bytes) /\ Len(m) >= 1 /\ f.pci = "SF" /\ f.len = Len(m)
      /\ f.data = pad(m) /\ Len(m) \in Nat /\ Len(m) \in 0..Len(m)
  BY LenProperties DEF Numbered, Single
<1>2. /\ SubSeq(f.data, 1, f.len) = m
      /\ f.len # 0 /\ ~(f.len > Len(f.data))
  <2>1. SubSeq(pad(m), 1, Len(m)) = SubSeq(m, 1, Len(m))
    BY <1>1, PadPrefix, IsoTpAssumption, MachineAssumption
  <2>2. SubSeq(m, 1, Len(m)) = m
    BY <1>1, SubSeqFull
  <2>3. Len(pad(m)) \in Nat /\ Len(pad(m)) >= Len(m)
    BY <1>1, PadPrefix, IsoTpAssumption, MachineAssumption
  <2> QED BY <1>1, <2>1, <2>2, <2>3
<1>3. RxOnFrame(r, f) = [rx |-> RxDrop(r), ev |-> "done", out |-> SubSeq(f.data, 1, f.len)]
  BY <1>1, <1>2 DEF RxOnFrame, RxSingle
<1>4. RxDrop(r).st = "idle"
  BY DEF RxDrop, RxMachines
<1> QED BY <1>2, <1>3, <1>4 DEF Ends

LEMMA LessThanFrame ==
  ASSUME NEW d \in Nat, d >= 2, NEW m \in Nat, m > d
  PROVE  /\ d - 1 \in Nat /\ d - 1 >= 1 /\ d - 1 \in 0..m /\ d - 1 < m /\ 1 \in Int
OBVIOUS

LEMMA TakesFirst ==
  ASSUME IsoTpAssumption, MachineAssumption, NEW P, Numbered(P),
         NEW f, f.pci = "FF", NEW o, Part(f, P, o), NEW r \in RxMachines
  PROVE  /\ RxOnFrame(r, f).ev # "done" /\ o = 0
         /\ Held(RxOnFrame(r, f).rx, End(o), P)
<1> DEFINE n == FrameData - 1
           b == SubSeq(f.data, 1, FrameData - 1)
           u == [r EXCEPT !.st = "receiving", !.ffdl = f.len, !.buf = b,
                          !.sn = 1 % SnMod, !.cfs = 0, !.timer = NCr]
<1>1. P \in Seq(Bytes) /\ Len(P) \in Nat
  BY LenProperties DEF Numbered
<1>2. /\ o = 0 /\ Len(P) > FrameData /\ f.len = Len(P)
      /\ f.data = SubSeq(P, 1, n)
  BY DEF Part
<1>3. n \in Nat /\ n >= 1 /\ n \in 0..Len(P) /\ n < Len(P) /\ 1 \in Int
      /\ FrameData \in Nat
  <2>1. FrameData \in Nat /\ FrameData >= 2
    BY Constants
  <2> QED BY <1>1, <1>2, <2>1, LessThanFrame, Zenon
<1> HIDE DEF n
<1>4. f.data \in Seq(Bytes) /\ Len(f.data) = n
  BY <1>1, <1>2, <1>3, SubSeqTyped
<1>5. SubSeq(f.data, 1, n) = f.data
  BY <1>4, SubSeqFull
<1>6. b = SubSeq(P, 1, n)
  BY <1>2, <1>5 DEF n
<1>7. RxOnFrame(r, f) = RxKeeps(u, "fc")
  <2>1. ~(Len(f.data) < FrameData - 1 \/ f.len <= FrameData)
    BY <1>1, <1>2, <1>3, <1>4 DEF n
  <2> QED BY <2>1 DEF RxOnFrame, RxFirst
<1> HIDE DEF b
<1>8. u.ffdl = f.len /\ u.buf = b
  BY DEF RxMachines
<1> HIDE DEF u
<1>9. RxOnFrame(r, f).rx = u /\ RxOnFrame(r, f).ev = "fc"
  BY <1>7 DEF RxKeeps
<1>10. End(o) = n /\ n >= FrameData - 1
  BY <1>2, <1>3 DEF End, n
<1>11. Held(u, n, P)
  BY <1>2, <1>3, <1>6, <1>8, <1>10 DEF Held
<1> QED BY <1>2, <1>9, <1>10, <1>11

\* Arithmetic of a consecutive frame that continues what is held.
LEMMA TakesPiece ==
  ASSUME NEW miss \in Nat, NEW room \in Nat, NEW held \in Nat,
         held >= Least(room, miss)
  PROVE  Least(Least(miss, room), held) = Least(room, miss)
BY DEF Least

LEMMA TakesAtMost ==
  ASSUME NEW miss \in Nat, NEW room \in Nat, NEW held \in Nat
  PROVE  LET k == Least(Least(miss, room), held)
         IN  k \in 0..held /\ k <= room /\ k \in Nat
BY DEF Least

\* A frame after a gap never completes the message.
LEMMA GapStays ==
  ASSUME NEW b \in Nat, NEW k \in Nat, NEW room \in Nat, NEW e \in Nat, NEW o \in Nat,
         NEW n \in Nat, k <= room, o < n,
         (b = e /\ o >= e + room) \/ (b + room <= e /\ (o = e \/ o >= e + room))
  PROVE  b + k < n /\ (b + k) + room <= o + room
OBVIOUS

\* The piece that continues a prefix continues it.
LEMMA Joined ==
  ASSUME NEW P \in Seq(Bytes), NEW e \in Nat, NEW k \in Nat, e + k <= Len(P)
  PROVE  /\ SubSeq(P, 1, e) \o SubSeq(P, e + 1, e + k) = SubSeq(P, 1, e + k)
         /\ Len(SubSeq(P, 1, e)) = e
<1>1. Len(P) \in Nat
  BY LenProperties
<1> DEFINE n == e + k
<1>2. /\ 1 \in 1..(Len(P) + 1) /\ e \in (1 - 1)..Len(P) /\ n \in e..Len(P)
      /\ e \in 0..Len(P)
  BY <1>1
<1> HIDE DEF n
<1>3. SubSeq(P, 1, e) \o SubSeq(P, e + 1, n) = SubSeq(P, 1, n)
  BY <1>2, ConcatAdjacentSubSeq
<1>4. Len(SubSeq(P, 1, e)) = e
  BY <1>2, SubSeqTyped
<1> QED BY <1>3, <1>4 DEF n

Passes(w, o, P) ==
  \/ w.ev # "done" /\ (w.rx.st = "receiving" => Held(w.rx, End(o), P))
  \/ Ends(w, P) /\ End(o) >= Len(P)

LEMMA TakesConsecutive ==
  ASSUME NEW r \in RxMachines, RxSound(r), r.st = "receiving",
         NEW P, Numbered(P), NEW o, NEW f, Part(f, P, o), f.pci = "CF",
         NEW e \in Nat, Held(r, e, P), Follows(e, o)
  PROVE  Passes(RxOnFrame(r, f), o, P)
<1> DEFINE w == RxOnFrame(r, f)
           miss == r.ffdl - Len(r.buf)
           held == Len(f.data)
           take == Least(Least(miss, FrameData), held)
           buf  == r.buf \o SubSeq(f.data, 1, take)
           sn   == (f.sn + 1) % SnMod
           more == [r EXCEPT !.buf = buf, !.sn = sn, !.timer = NCr]
           k == Least(FrameData, Len(P) - o)
           d == SubSeq(P, o + 1, o + k)
<1>1. w = RxConsecutive(r, f)
  BY DEF RxOnFrame
<1>2. CASE f.sn # r.sn
  <2>1. w = [rx |-> RxDrop(r), ev |-> "Sequence", out |-> << >>]
    BY <1>1, <1>2 DEF RxConsecutive, RxKeeps
  <2>2. RxDrop(r).st = "idle"
    BY DEF RxDrop, RxMachines
  <2>3. w.ev # "done" /\ w.rx.st # "receiving"
    BY <2>1, <2>2
  <2> HIDE DEF w
  <2> QED BY <2>3 DEF Passes, w
<1>3. CASE f.sn = r.sn
  <2>1. /\ P \in Seq(Bytes) /\ Len(P) \in Nat /\ FrameData \in Nat /\ FrameData >= 2
        /\ o \in Nat /\ o < Len(P) /\ o >= FrameData - 1 /\ f.data = pad(d)
    <3>1. P \in Seq(Bytes) /\ Len(P) \in Nat /\ FrameData \in Nat /\ FrameData >= 2
      BY Constants, IsoTpAssumption, MachineAssumption, LenProperties DEF Numbered
    <3>2. o \in Nat /\ o < Len(P)
      BY PartAt, IsoTpAssumption, MachineAssumption
    <3>3. o \in (FrameData - 1)..(Len(P) - 1) /\ f.data = pad(d)
      BY Zenon DEF Part
    <3>4. o >= FrameData - 1
      BY <3>1, <3>3
    <3> QED BY <3>1, <3>2, <3>3, <3>4, Zenon
  <2>2. d \in Seq(Bytes) /\ Len(d) = k
    BY <2>1, PieceOf, IsoTpAssumption, MachineAssumption
  <2>3. k \in Nat /\ k <= FrameData /\ o + k <= Len(P) /\ (k < FrameData => o + k = Len(P))
    <3>1. k \in 1..FrameData /\ o + k <= Len(P) /\ (k < FrameData => o + k = Len(P))
      BY <2>1, PieceOf, IsoTpAssumption, MachineAssumption
    <3> HIDE DEF k
    <3> QED BY <2>1, <3>1
  <2>4. f.data \in Seq(Bytes) /\ held \in Nat /\ held >= k /\ SubSeq(f.data, 1, k) = d
    <3> HIDE DEF d, k
    <3>1. pad(d) \in Seq(Bytes)
      BY <2>2, PadTyped, IsoTpAssumption, MachineAssumption
    <3>2. Len(d) \in 0..Len(d)
      BY <2>2, <2>3
    <3>3. /\ SubSeq(pad(d), 1, Len(d)) = SubSeq(d, 1, Len(d))
          /\ Len(pad(d)) \in Nat /\ Len(pad(d)) >= Len(d)
      BY <2>2, <3>2, PadPrefix, IsoTpAssumption, MachineAssumption
    <3>4. SubSeq(d, 1, Len(d)) = d
      BY <2>2, SubSeqFull
    <3> QED BY <2>1, <2>2, <3>1, <3>3, <3>4
  <2>5. /\ r.buf \in Seq(Bytes) /\ Len(r.buf) \in Nat /\ r.ffdl = Len(P)
        /\ miss \in Nat /\ Len(r.buf) + miss = Len(P)
    <3>1. r.buf \in Seq(Bytes) /\ Len(r.buf) \in Nat /\ r.ffdl \in Nat
      BY RxFields
    <3>2. Len(r.buf) < r.ffdl /\ r.ffdl = Len(P)
      BY DEF RxSound, Held
    <3> QED BY <3>1, <3>2
  <2>6. take \in 0..held /\ take \in Nat /\ take <= FrameData
    <3> HIDE DEF miss, held
    <3> QED BY <2>1, <2>4, <2>5, TakesAtMost
  <2>7. buf \in Seq(Bytes) /\ Len(buf) = Len(r.buf) + take
    <3> DEFINE part == SubSeq(f.data, 1, take)
    <3>1. part \in Seq(Bytes) /\ Len(part) = take
      <4> HIDE DEF take
      <4> QED BY <2>4, <2>6, SubSeqTyped
    <3> HIDE DEF part, take
    <3>2. \A p, q \in Seq(Bytes) : p \o q \in Seq(Bytes) /\ Len(p \o q) = Len(p) + Len(q)
      BY ConcatProperties
    <3> QED BY <2>5, <3>1, <3>2, Zenon DEF part
  <2>8. ASSUME e < Len(P), r.buf = SubSeq(P, 1, e), o = e
        PROVE  Len(buf) = o + k /\ buf = SubSeq(P, 1, o + k)
    <3>1. Len(r.buf) = e
      BY <2>1, <2>8, SubSeqTyped
    <3>2. miss = Len(P) - o
      BY <2>5, <2>8, <3>1
    <3>3. take = k
      <4> HIDE DEF miss, held
      <4>1. k = Least(FrameData, miss)
        BY <3>2 DEF k
      <4> QED BY <2>1, <2>4, <2>5, <4>1, TakesPiece
    <3>4. buf = SubSeq(P, 1, e) \o SubSeq(P, e + 1, e + k)
      <4>1. SubSeq(f.data, 1, take) = d
        BY <2>4, <3>3
      <4>2. d = SubSeq(P, e + 1, e + k)
        BY <2>8
      <4> QED BY <2>8, <4>1, <4>2, Zenon
    <3> HIDE DEF k, buf
    <3>5. buf = SubSeq(P, 1, e + k)
      BY <2>1, <2>3, <2>8, <3>4, Joined
    <3>6. Len(buf) = o + k
      BY <2>7, <2>8, <3>1, <3>3
    <3> QED BY <2>8, <3>5, <3>6
  <2>9. ASSUME ~(e < Len(P) /\ r.buf = SubSeq(P, 1, e) /\ o = e)
        PROVE  Len(buf) < Len(P) /\ Len(buf) + FrameData <= o + FrameData
    <3> DEFINE b == Len(r.buf)
    <3>1. \/ b = e /\ o >= e + FrameData
          \/ b + FrameData <= e /\ (o = e \/ o >= e + FrameData)
      <4>1. CASE e < Len(P) /\ r.buf = SubSeq(P, 1, e)
        <5>1. b = e
          BY <2>1, <4>1, SubSeqTyped
        <5> QED BY <2>9, <4>1, <5>1 DEF Follows
      <4>2. CASE b + FrameData <= e
        BY <4>2, Zenon DEF Follows
      <4> QED BY <4>1, <4>2, Zenon DEF Held
    <3> HIDE DEF b, take, buf
    <3>2. b \in Nat
      BY <2>5 DEF b
    <3>3. b + take < Len(P) /\ (b + take) + FrameData <= o + FrameData
      BY <2>1, <2>6, <3>1, <3>2, GapStays
    <3> QED BY <2>7, <3>3, Zenon DEF b
  <2>10. End(o) = o + FrameData /\ End(o) >= FrameData - 1
    BY <2>1 DEF End
  <2> HIDE DEF d
  <2>11. CASE Len(buf) >= r.ffdl
    <3>1. w = RxDone(r, SubSeq(buf, 1, r.ffdl))
      BY <1>1, <1>3, <2>11 DEF RxConsecutive
    <3> HIDE DEF w, buf, k
    <3>2. w.ev = "done" /\ w.out = SubSeq(buf, 1, r.ffdl) /\ w.rx.st # "receiving"
      BY <3>1 DEF RxDone, RxNew
    <3>3. Len(buf) = o + k /\ buf = SubSeq(P, 1, o + k)
      <4>1. ~(Len(buf) < Len(P))
        BY <2>1, <2>5, <2>6, <2>7, <2>11
      <4> QED BY <2>8, <2>9, <4>1, Zenon
    <3>4. o + k = Len(P)
      <4>1. o + k >= Len(P)
        BY <2>5, <2>11, <3>3, Zenon
      <4> QED BY <2>1, <2>3, <4>1
    <3>5. SubSeq(P, 1, Len(P)) = P
      BY <2>1, SubSeqFull
    <3>6. w.out = P
      BY <2>5, <3>2, <3>3, <3>4, <3>5, Zenon
    <3>7. End(o) >= Len(P)
      <4>1. o + FrameData >= o + k
        BY <2>1, <2>3
      <4> QED BY <2>10, <3>4, <4>1, Zenon
    <3> QED BY <3>2, <3>6, <3>7 DEF Passes, Ends, w
  <2>12. CASE ~(Len(buf) >= r.ffdl)
    <3>1. \/ w.ev = "panic" /\ w.rx.st = "panic"
          \/ w.ev \in {"fc", "continue"} /\ w.rx.ffdl = r.ffdl /\ w.rx.buf = buf
      <4>1. CASE Overflows(r, r.cfs)
        <5>1. w = RxKeeps([r EXCEPT !.st = "panic"], "panic")
          BY <1>1, <1>3, <2>12, <4>1 DEF RxConsecutive
        <5>2. [r EXCEPT !.st = "panic"].st = "panic"
          BY DEF RxMachines
        <5> HIDE DEF w
        <5> QED BY <5>1, <5>2 DEF RxKeeps
      <4>2. CASE ~Overflows(r, r.cfs)
        <5> DEFINE n == IF r.bs # 0 /\ Increment(r.cfs) >= r.bs THEN 0 ELSE Increment(r.cfs)
                   ev == IF r.bs # 0 /\ Increment(r.cfs) >= r.bs THEN "fc" ELSE "continue"
                   u == [more EXCEPT !.cfs = n]
        <5>1. w = RxKeeps(u, ev)
          BY <1>1, <1>3, <2>12, <4>2 DEF RxConsecutive
        <5> HIDE DEF buf, sn, n
        <5>2. more.ffdl = r.ffdl /\ more.buf = buf /\ DOMAIN more = DOMAIN r
          BY DEF RxMachines
        <5>3. {"ffdl", "buf", "cfs"} \subseteq DOMAIN r
          BY DEF RxMachines
        <5> HIDE DEF more
        <5>4. u.ffdl = r.ffdl /\ u.buf = buf
          BY <5>2, <5>3
        <5> HIDE DEF u
        <5>5. w.rx = u /\ w.ev = ev
          BY <5>1 DEF RxKeeps
        <5> HIDE DEF w
        <5> QED BY <5>4, <5>5 DEF ev
      <4> QED BY <4>1, <4>2
    <3> HIDE DEF w, buf, k
    <3>2. CASE e < Len(P) /\ r.buf = SubSeq(P, 1, e) /\ o = e
      <4>1. Len(buf) = o + k /\ buf = SubSeq(P, 1, o + k)
        BY <2>8, <3>2
      <4>2. k = FrameData /\ o + FrameData < Len(P)
        <5>1. ~(o + k >= Len(P))
          BY <2>5, <2>12, <4>1, Zenon
        <5> QED BY <2>1, <2>3, <5>1
      <4>3. buf = SubSeq(P, 1, End(o)) /\ End(o) < Len(P)
        BY <2>10, <4>1, <4>2, Zenon
      <4> QED BY <2>5, <2>10, <3>1, <4>3 DEF Held, Passes, w
    <3>3. CASE ~(e < Len(P) /\ r.buf = SubSeq(P, 1, e) /\ o = e)
      <4>1. Len(buf) + FrameData <= End(o)
        BY <2>9, <2>10, <3>3, Zenon
      <4> QED BY <2>5, <2>10, <3>1, <4>1 DEF Held, Passes, w
    <3> QED BY <3>2, <3>3
  <2> QED BY <2>11, <2>12
<1> QED BY <1>2, <1>3

\* After the last part comes nothing.
LEMMA NoMore ==
  ASSUME MachineAssumption, NEW n \in Nat, NEW o \in Nat,
         n <= FrameData \/ End(o) >= n, NEW x \in Nat, Follows(End(o), x),
         x = 0 \/ (x < n /\ n > FrameData)
  PROVE  FALSE
<1>1. FrameData \in Nat /\ FrameData >= 2 /\ End(o) \in Nat /\ End(o) >= FrameData - 1
  BY Constants, EndReaches
<1>2. x >= End(o)
  BY <1>1 DEF Follows
<1> HIDE DEF End
<1> QED BY <1>1, <1>2

\* A receiver takes the frame at the head of the queue.
LEMMA Takes ==
  ASSUME NEW P, Numbered(P), NEW S, \A m \in S : Numbered(m),
         NEW t \in TxMachines, TxSound(t), NEW q \in Seq(Frames), q # << >>,
         NEW r \in RxMachines, RxSound(r), Transfer(t, q, r, P, S)
  PROVE  LET f == Head(q)
             w == RxOnFrame(r, f)
         IN  /\ Transfer(t, Tail(q), w.rx, P, S)
             /\ Live(t, Tail(q), w.rx, S) => Live(t, q, r, S)
             /\ w.ev = "done" =>
                  \/ /\ w.out = P /\ Live(t, q, r, S)
                     /\ ~Live(t, Tail(q), w.rx, S)
                  \/ w.out \in S /\ f.pci = "SF" /\ Loose(f, S)
<1> DEFINE f == Head(q)
           w == RxOnFrame(r, f)
           p == Tail(q)
<1>1. p \in Seq(Frames) /\ f = q[1] /\ 1 \in DOMAIN q
  BY TailElements
<1>2. \A i \in Firm(p, S) : i + 1 \in Firm(q, S) /\ p[i] = q[i + 1] /\ i \in Nat /\ 1 < i + 1
  <2>1. \A i \in Firm(p, S) : i \in Nat /\ i >= 1
    BY <1>1, LenProperties DEF Firm
  <2>2. \A i \in Firm(p, S) : i \in Nat /\ 1 < i + 1
    BY <2>1
  <2> QED BY <2>2, TailFirm, Zenon
<1> HIDE DEF f, p
<1>3. ASSUME NEW v, v.st = "receiving" => v = r
      PROVE  Transfer(t, p, v, P, S) /\ (Live(t, p, v, S) => Live(t, q, r, S))
  BY <1>1, <1>2, <1>3, Lesser
<1>4. CASE f.pci \notin {"SF", "FF", "CF"}
  <2>1. w.rx = r /\ w.ev # "done"
    BY <1>4 DEF RxOnFrame, RxKeeps
  <2> QED BY <1>3, <2>1 DEF f, p
<1>5. CASE f.pci = "SF" /\ Loose(f, S)
  <2>1. PICK m \in S : Single(f, m)
    BY <1>5 DEF Loose, Single
  <2>2. Numbered(m)
    OBVIOUS
  <2>3. Ends(w, m)
    BY <2>1, <2>2, TakesSingle
  <2> HIDE DEF w
  <2> QED BY <1>3, <1>5, <2>3 DEF Ends, f, p, w
<1>6. CASE ~Loose(f, S)
  <2> DEFINE o == At(f)
  <2>1. 1 \in Firm(q, S) /\ q[1] = f
    BY <1>1, <1>6 DEF Firm
  <2>2. Part(f, P, o) /\ o \in Nat /\ o < Len(P)
    <3>1. Part(f, P, o)
      BY <2>1, Zenon DEF Transfer, Ascends
    <3> QED BY <3>1, PartAt, IsoTpAssumption, MachineAssumption
  <2>3. \A i \in Firm(p, S) : Part(p[i], P, At(p[i])) /\ Follows(End(o), At(p[i]))
    BY <1>2, <2>1, Zenon DEF Transfer, Ascends
  <2>4. Own(t, S) => Placed(t, P) /\ Follows(End(o), t.offset)
    BY <2>1, Zenon DEF Transfer, Leaves
  <2>5. Live(t, q, r, S)
    BY <2>1, Zenon DEF Live
  <2>6. ASSUME NEW v, v.st = "receiving" => Held(v, End(o), P)
        PROVE  Transfer(t, p, v, P, S)
    <3>1. Ascends(p, P, S) /\ Leaves(t, p, P, S)
      <4>1. Transfer(t, p, [st |-> "idle"], P, S)
        BY <1>3
      <4> QED BY <4>1 DEF Transfer
    <3>2. End(o) \in Nat
      BY <2>2, EndReaches, IsoTpAssumption, MachineAssumption
    <3>3. v.st = "receiving" => Arrives(t, p, v, P, S, End(o))
      BY <2>3, <2>4, <2>6, Zenon DEF Arrives
    <3> QED BY <3>1, <3>2, <3>3, Zenon DEF Transfer
  <2>7. ASSUME NEW v, v.st # "receiving", Len(P) <= FrameData \/ End(o) >= Len(P)
        PROVE  ~Live(t, p, v, S)
    <3>1. Len(P) \in Nat /\ FrameData \in Nat
      BY Constants, IsoTpAssumption, MachineAssumption, LenProperties DEF Numbered
    <3>2. ASSUME NEW i \in Firm(p, S) PROVE FALSE
      <4> DEFINE x == At(p[i])
      <4>1. Part(p[i], P, x) /\ Follows(End(o), x)
        BY <2>3
      <4>2. x \in Nat /\ x < Len(P)
        BY <4>1, PartAt, IsoTpAssumption, MachineAssumption
      <4>3. x = 0 \/ Len(P) > FrameData
        BY <4>1, Zenon DEF Part
      <4> HIDE DEF x, o
      <4> QED BY <2>2, <2>7, <3>1, <4>1, <4>2, <4>3, NoMore, IsoTpAssumption, MachineAssumption
    <3>3. ASSUME Own(t, S) PROVE FALSE
      <4>1. Placed(t, P) /\ Follows(End(o), t.offset)
        BY <2>4, <3>3
      <4>2. t.offset \in Nat
        BY TxFields
      <4>3. t.offset = 0 \/ (t.offset < Len(P) /\ Len(P) > FrameData)
        BY <4>1 DEF Placed, TxSound
      <4> HIDE DEF o
      <4> QED BY <2>2, <2>7, <3>1, <4>1, <4>2, <4>3, NoMore, IsoTpAssumption, MachineAssumption
    <3> QED BY <2>7, <3>2, <3>3 DEF Live
  <2> HIDE DEF o
  <2>8. CASE f.pci = "SF"
    <3>1. Single(f, P) /\ Len(P) <= FrameData
      BY <2>2, <2>8 DEF Part, Single
    <3>2. Ends(w, P)
      BY <3>1, TakesSingle
    <3> HIDE DEF w
    <3> QED BY <2>5, <2>6, <2>7, <3>1, <3>2 DEF Ends, f, p, w
  <2>9. CASE f.pci = "FF"
    <3>1. w.ev # "done" /\ Held(w.rx, End(o), P)
      BY <2>2, <2>9, TakesFirst, IsoTpAssumption, MachineAssumption
    <3> HIDE DEF w
    <3> QED BY <2>5, <2>6, <3>1 DEF f, p, w
  <2>10. CASE f.pci = "CF" /\ r.st # "receiving"
    <3>1. w.ev # "done" /\ w.rx = r
      BY <2>10 DEF RxOnFrame, RxConsecutive, RxKeeps
    <3> HIDE DEF w
    <3> QED BY <1>3, <3>1 DEF f, p, w
  <2>11. CASE f.pci = "CF" /\ r.st = "receiving"
    <3>1. PICK e \in Nat : Arrives(t, q, r, P, S, e)
      BY <2>11 DEF Transfer
    <3>2. Held(r, e, P) /\ Follows(e, o)
      BY <2>1, <3>1, Zenon DEF Arrives, o
    <3>3. Passes(w, o, P)
      BY <2>2, <2>11, <3>2, TakesConsecutive
    <3> HIDE DEF w
    <3> QED BY <2>5, <2>6, <2>7, <3>3 DEF Passes, Ends, f, p, w
  <2> QED BY <1>4, <2>8, <2>9, <2>10, <2>11
<1>7. f.pci \in {"SF", "FF", "CF"} /\ Loose(f, S) => f.pci = "SF"
  BY DEF Loose
<1> QED BY <1>4, <1>5, <1>6, <1>7

-----------------------------------------------------------------------------
(* What a step leaves of a transfer, whichever message it carries.          *)

Onward(u, p, v, t, q, r, S) ==
  \A P : Numbered(P) /\ Transfer(t, q, r, P, S) =>
           Transfer(u, p, v, P, S) /\ (Live(u, p, v, S) => Live(t, q, r, S))

\* The sender stopped, or was granted a block, or did nothing.
Stops(u, t, S) ==
  Own(u, S) => /\ Own(t, S) /\ u.payload = t.payload /\ u.offset = t.offset
               /\ u.st = t.st \/ {u.st, t.st} \subseteq {"await", "cons"}

\* A frame is gone, a loose one came, or nothing happened.
Fewer(p, q, S) ==
  \E d \in {0, 1} : \A i \in Firm(p, S) : i + d \in Firm(q, S) /\ p[i] = q[i + d]

\* The receiver stopped or did nothing.
Lets(v, r) ==
  v.st = "receiving" => r.st = "receiving" /\ v.ffdl = r.ffdl /\ v.buf = r.buf

LEMMA Eased ==
  ASSUME NEW S, NEW u, NEW t, Stops(u, t, S),
         NEW p \in Seq(Frames), NEW q \in Seq(Frames), Fewer(p, q, S),
         NEW v, NEW r, Lets(v, r)
  PROVE  Onward(u, p, v, t, q, r, S)
<1> SUFFICES ASSUME NEW P, Transfer(t, q, r, P, S)
             PROVE  Transfer(u, p, v, P, S) /\ (Live(u, p, v, S) => Live(t, q, r, S))
  BY DEF Onward
<1>1. PICK d \in {0, 1} : \A i \in Firm(p, S) : i + d \in Firm(q, S) /\ p[i] = q[i + d]
  BY DEF Fewer
<1>2. Own(u, S) => /\ Own(t, S) /\ u.payload = t.payload /\ u.offset = t.offset
                   /\ u.st = t.st \/ {u.st, t.st} \subseteq {"await", "cons"}
  BY DEF Stops
<1>3. v.st = "receiving" => r.st = "receiving" /\ v.ffdl = r.ffdl /\ v.buf = r.buf
  BY DEF Lets
<1> QED BY <1>1, <1>2, <1>3, Lesser

LEMMA Then ==
  ASSUME NEW S, NEW a, NEW b, NEW c, NEW u, NEW p, NEW v, NEW t, NEW q, NEW r,
         Onward(a, b, c, u, p, v, S), Onward(u, p, v, t, q, r, S)
  PROVE  Onward(a, b, c, t, q, r, S)
BY Zenon DEF Onward

LEMMA FewerSame ==
  ASSUME NEW S, NEW q \in Seq(Frames)
  PROVE  Fewer(q, q, S)
<1>1. \A i \in Firm(q, S) : i + 0 = i
  BY FirmBelow
<1> QED BY <1>1 DEF Fewer

LEMMA FewerTail ==
  ASSUME NEW S, NEW q \in Seq(Frames), q # << >>
  PROVE  Fewer(Tail(q), q, S)
BY TailFirm DEF Fewer

LEMMA FewerLoose ==
  ASSUME NEW S, NEW q \in Seq(Frames), NEW f \in Frames, Loose(f, S)
  PROVE  Fewer(Append(q, f), q, S)
<1> DEFINE p == Append(q, f)
<1>1. /\ DOMAIN p = 1..(Len(q) + 1) /\ p[Len(q) + 1] = f
      /\ \A j \in 1..Len(q) : p[j] = q[j]
  BY AppendElements
<1> HIDE DEF p
<1>2. ASSUME NEW i \in Firm(p, S)
      PROVE  i \in Firm(q, S) /\ p[i] = q[i]
  <2>1. i \in DOMAIN p /\ ~Loose(p[i], S)
    BY DEF Firm
  <2>2. i \in 1..Len(q)
    <3>1. Len(q) \in Nat /\ i # Len(q) + 1
      BY <1>1, <2>1, LenProperties
    <3>2. i \in 1..(Len(q) + 1)
      BY <1>1, <2>1, Zenon
    <3> QED BY <3>1, <3>2, UpToNext, Zenon
  <2>3. DOMAIN q = 1..Len(q) /\ p[i] = q[i]
    BY <1>1, <2>2, LenProperties
  <2> QED BY <2>1, <2>2, <2>3 DEF Firm
<1>3. \A i \in Firm(q, S) : i + 0 = i
  BY FirmBelow
<1>4. Fewer(p, q, S)
  BY <1>2, <1>3 DEF Fewer
<1> QED BY <1>4 DEF p

LEMMA StopsIdle ==
  ASSUME NEW S, NEW t, NEW u, u.st \in {"done", "panic"}
  PROVE  Stops(u, t, S)
BY DEF Stops, Own

LEMMA StopsAlike ==
  ASSUME NEW S, NEW t, NEW u, u.st = t.st, u.payload = t.payload, u.offset = t.offset
  PROVE  Stops(u, t, S)
BY DEF Stops, Own

LEMMA StopsFlow ==
  ASSUME NEW S, NEW t \in TxMachines, NEW f
  PROVE  Stops(TxOnFrame(t, f).tx, t, S)
<1>1. CASE t.st # "await" \/ f.pci # "FC"
  BY <1>1, StopsAlike DEF TxOnFrame, TxKeeps
<1>2. CASE t.st = "await" /\ f.pci = "FC"
  <2> DEFINE u == TxOnFrame(t, f).tx
  <2>1. CASE f.fs = "cts"
    <3>1. u = [t EXCEPT !.st = "cons", !.timer = 0, !.bs = f.bs,
                        !.stmin = decode_stmin(f.stmin), !.cfs = 0, !.waits = 0]
      BY <1>2, <2>1 DEF TxOnFrame, TxKeeps
    <3>2. u.st = "cons" /\ u.payload = t.payload /\ u.offset = t.offset
      BY <3>1 DEF TxMachines
    <3> HIDE DEF u
    <3>3. Stops(u, t, S)
      BY <1>2, <3>2 DEF Stops, Own
    <3> QED BY <3>3 DEF u
  <2>2. CASE f.fs = "wait" /\ Overflows(t, t.waits)
    <3>1. u = [t EXCEPT !.st = "panic"]
      BY <1>2, <2>2 DEF TxOnFrame, TxKeeps
    <3>2. u.st = "panic"
      BY <3>1 DEF TxMachines
    <3> QED BY <3>2, StopsIdle
  <2>3. CASE f.fs = "wait" /\ ~Overflows(t, t.waits)
    <3> DEFINE n == [t EXCEPT !.waits = Increment(@)]
    <3>1. u = AwaitFc(n)
      BY <1>2, <2>3 DEF TxOnFrame
    <3>2. n.payload = t.payload /\ n.offset = t.offset /\ DOMAIN n = DOMAIN t
      BY DEF TxMachines
    <3>3. {"st", "timer", "payload", "offset"} \subseteq DOMAIN t
      BY DEF TxMachines
    <3> HIDE DEF n, u
    <3>4. u.st = "await" /\ u.payload = t.payload /\ u.offset = t.offset
      BY <3>1, <3>2, <3>3 DEF AwaitFc
    <3>5. Stops(u, t, S)
      BY <1>2, <3>4 DEF Stops, Own
    <3> QED BY <3>5 DEF u
  <2>4. CASE f.fs \notin {"cts", "wait"}
    <3>1. u = t
      BY <1>2, <2>4 DEF TxOnFrame
    <3> QED BY <3>1, StopsAlike
  <2> QED BY <2>1, <2>2, <2>3, <2>4
<1> QED BY <1>1, <1>2

LEMMA StopsTick ==
  ASSUME NEW S, NEW t \in TxMachines
  PROVE  Stops([t EXCEPT !.timer = Down(@)], t, S)
<1> DEFINE u == [t EXCEPT !.timer = Down(@)]
<1>1. u.st = t.st /\ u.payload = t.payload /\ u.offset = t.offset
  BY DEF TxMachines
<1> HIDE DEF u
<1>2. Stops(u, t, S)
  BY <1>1, StopsAlike
<1> QED BY <1>2 DEF u

LEMMA LetsTick ==
  ASSUME NEW r \in RxMachines
  PROVE  Lets(RxDown(r), r) /\ Lets([r EXCEPT !.timer = NCr], r)
BY DEF Lets, RxDown, RxMachines

LEMMA Sent ==
  ASSUME NEW S, NEW t \in TxMachines, TxSound(t), TxReady(t), NEW q \in Seq(Frames),
         NEW u, Own(u, S) => u = TxSent(t),
         NEW p, p = q \/ p = Append(q, TxFrame(t)), NEW r
  PROVE  Onward(u, p, r, t, q, r, S)
BY Pushed, IsoTpAssumption, MachineAssumption DEF Onward

LEMMA Taking ==
  ASSUME NEW S, \A m \in S : Numbered(m), NEW t \in TxMachines, TxSound(t),
         NEW q \in Seq(Frames), q # << >>, NEW r \in RxMachines, RxSound(r)
  PROVE  Onward(t, Tail(q), RxOnFrame(r, Head(q)).rx, t, q, r, S)
BY Takes DEF Onward

-----------------------------------------------------------------------------
(* The invariant.  A request and its answer are each one message, and the   *)
(* answer is not on its way before the request has left the bus.            *)

IsMessage(P, kind, n) == \E len \in Nat \ {0} : P = Message(kind, n, len)

\* The announcements of the answer to this call.
Pends == {Message("pend", ncalls, 1)}

Asking    == Live(tx, toEcu, ecuRx, {})
Answering == Live(ecuTx, ring, rx, Pends)

Asked == \E P : IsMessage(P, "req", ncalls) /\ Transfer(tx, toEcu, ecuRx, P, {})

Answered ==
  \E P : /\ IsMessage(P, "resp", ncalls) /\ Transfer(ecuTx, ring, rx, P, Pends)
         /\ pc # "idle" /\ Answering => \E k \in DOMAIN said : said[k] = P

Announced ==
  \/ \E i \in DOMAIN ring : ring[i].pci = "SF" /\ Loose(ring[i], Pends)
  \/ ecuTx.st = "single" /\ ecuTx.payload \in Pends

Forewarned ==
  pc # "idle" /\ Announced => \E k \in DOMAIN said : said[k] \in Pends

InTurn ==
  /\ todo # 0 => todo = ncalls /\ ~Asking /\ ~Answering
  /\ Asking => ~Answering

RxRests == pc = "idle" => rx.st # "receiving"

InvTransfer == Asked /\ Answered /\ Forewarned /\ InTurn /\ RxRests /\ NoSplice

\* What a step does that neither begins a call nor an answer.
Proceeds ==
  /\ ncalls' = ncalls
  /\ Onward(tx', toEcu', ecuRx', tx, toEcu, ecuRx, {})
  /\ Onward(ecuTx', ring', rx', ecuTx, ring, rx, Pends)
  /\ Announced' => Announced
  /\ pc' # "idle" => pc # "idle" /\ said' = said
  /\ todo' \in {0, todo} \/ (todo' = ncalls /\ Asking /\ ~Asking')
  /\ pc' = "idle" => rx'.st # "receiving"
  /\ NoSplice'

LEMMA AMessage ==
  ASSUME NEW kind \in {"req", "resp", "pend", "pad"}, NEW n \in Nat,
         NEW P, IsMessage(P, kind, n)
  PROVE  Numbered(P) /\ Whole(P) /\ Request(P) = n /\ P[1][1] = kind /\ P # << >>
<1>1. PICK len \in Nat \ {0} : P = Message(kind, n, len)
  BY DEF IsMessage
<1>2. len \in Nat /\ len >= 1
  BY <1>1
<1> DEFINE M == Message(kind, n, len)
<1>3. Numbered(M) /\ Whole(M) /\ Len(M) = len /\ M[1] = <<kind, n, len, 1>>
  BY <1>2, MessageNumbered
<1> HIDE DEF M
<1>4. M[1][1] = kind /\ M[1][2] = n
  BY <1>3
<1>5. M # << >>
  BY <1>2, <1>3
<1> QED BY <1>1, <1>3, <1>4, <1>5 DEF M, Request

LEMMA ThePends ==
  ASSUME ncalls \in Nat
  PROVE  \A m \in Pends : Numbered(m) /\ Whole(m) /\ Request(m) = ncalls /\ m # << >>
<1> SUFFICES ASSUME NEW m \in Pends
             PROVE  Numbered(m) /\ Whole(m) /\ Request(m) = ncalls /\ m # << >>
  OBVIOUS
<1>1. m = Message("pend", ncalls, 1) /\ 1 \in Nat \ {0}
  BY DEF Pends
<1>2. IsMessage(m, "pend", ncalls)
  BY <1>1 DEF IsMessage
<1> QED BY <1>2, AMessage

LEMMA Numbers == TypedAndSound => ncalls \in Nat /\ todo \in Nat
BY IsoTpAssumption, CallConstants DEF TypedAndSound, CountType, EcuType

LEMMA ProceedsKeeps ==
  ASSUME TypedAndSound, InvTransfer, Proceeds
  PROVE  InvTransfer'
<1>1. ncalls \in Nat /\ ncalls' = ncalls /\ Pends' = Pends
  BY Numbers DEF Proceeds, Pends
<1>2. PICK P : IsMessage(P, "req", ncalls) /\ Transfer(tx, toEcu, ecuRx, P, {})
  BY DEF InvTransfer, Asked
<1>3. PICK R : /\ IsMessage(R, "resp", ncalls) /\ Transfer(ecuTx, ring, rx, R, Pends)
               /\ pc # "idle" /\ Answering => \E k \in DOMAIN said : said[k] = R
  BY DEF InvTransfer, Answered
<1>4. Transfer(tx', toEcu', ecuRx', P, {}) /\ (Asking' => Asking)
  <2>1. Numbered(P)
    BY <1>1, <1>2, AMessage
  <2> QED BY <1>2, <2>1 DEF Proceeds, Onward, Asking
<1>5. Transfer(ecuTx', ring', rx', R, Pends) /\ (Answering' => Answering)
  <2>1. Numbered(R)
    BY <1>1, <1>3, AMessage
  <2>2. /\ Transfer(ecuTx', ring', rx', R, Pends)
        /\ Live(ecuTx', ring', rx', Pends) => Answering
    BY <1>3, <2>1 DEF Proceeds, Onward, Answering
  <2> QED BY <1>1, <2>2 DEF Answering
<1>6. Asked'
  BY <1>1, <1>2, <1>4 DEF Asked, IsMessage
<1>7. Answered'
  <2>1. Transfer(ecuTx', ring', rx', R, Pends')
    BY <1>1, <1>5
  <2>2. pc' # "idle" /\ Answering' => \E k \in DOMAIN said' : said'[k] = R
    BY <1>3, <1>5 DEF Proceeds
  <2>3. IsMessage(R, "resp", ncalls')
    BY <1>1, <1>3
  <2> QED BY <2>1, <2>2, <2>3 DEF Answered
<1>8. Forewarned'
  BY <1>1 DEF InvTransfer, Forewarned, Proceeds
<1>9. InTurn'
  BY <1>1, <1>4, <1>5 DEF InvTransfer, InTurn, Proceeds
<1>10. RxRests' /\ NoSplice'
  BY DEF RxRests, Proceeds
<1> QED BY <1>6, <1>7, <1>8, <1>9, <1>10 DEF InvTransfer

LEMMA InitTransfer == Init => InvTransfer
<1> SUFFICES ASSUME Init PROVE InvTransfer
  OBVIOUS
<1>1. ncalls \in Nat /\ ncalls = 0 /\ toEcu = << >> /\ ring = << >> /\ pc = "idle" /\ todo = 0
  BY DEF Init
<1>2. tx.st = "done" /\ ecuTx.st = "done" /\ rx.st = "idle" /\ ecuRx.st = "idle"
  BY DEF Init, TxNone, TxNew, HostRx, EcuIdle, RxNew
<1>3. ~Own(tx, {}) /\ ~Own(ecuTx, Pends)
  BY <1>2 DEF Own
<1>4. Firm(toEcu, {}) = {} /\ Firm(ring, Pends) = {}
  BY <1>1 DEF Firm
<1>5. \A P : /\ Transfer(tx, toEcu, ecuRx, P, {})
             /\ Transfer(ecuTx, ring, rx, P, Pends)
  BY <1>2, <1>3, <1>4, Begun
<1>6. ~Asking /\ ~Answering
  BY <1>2, <1>3, <1>4 DEF Live, Asking, Answering
<1>7. \A kind : IsMessage(Message(kind, ncalls, 1), kind, ncalls)
  BY DEF IsMessage
<1>8. Asked /\ Answered
  BY <1>1, <1>5, <1>7, Zenon DEF Asked, Answered
<1>9. NoSplice
  BY DEF Init, NoResult, NoSplice
<1> QED BY <1>1, <1>2, <1>6, <1>8, <1>9
    DEF InvTransfer, Forewarned, InTurn, RxRests

-----------------------------------------------------------------------------
(* The steps of the caller.                                                 *)

LEMMA FewerAnnounced ==
  ASSUME ring \in Seq(Frames), ncalls' = ncalls,
         ecuTx'.st = "single" => ecuTx.st = "single" /\ ecuTx'.payload = ecuTx.payload,
         ring' = ring \/ (ring # << >> /\ ring' = Tail(ring)), Announced'
  PROVE  Announced
<1>1. Pends' = Pends
  BY DEF Pends
<1>2. CASE ecuTx'.st = "single" /\ ecuTx'.payload \in Pends
  BY <1>2 DEF Announced
<1>3. CASE \E i \in DOMAIN ring' : ring'[i].pci = "SF" /\ Loose(ring'[i], Pends)
  <2>1. PICK i \in DOMAIN ring' : ring'[i].pci = "SF" /\ Loose(ring'[i], Pends)
    BY <1>3
  <2>2. CASE ring' = ring
    BY <2>1, <2>2, Zenon DEF Announced
  <2>3. CASE ring # << >> /\ ring' = Tail(ring)
    <3>1. /\ Len(ring) \in Nat /\ DOMAIN ring = 1..Len(ring)
          /\ DOMAIN ring' = 1..(Len(ring) - 1)
          /\ \A j \in 1..(Len(ring) - 1) : ring'[j] = ring[j + 1]
      BY <2>3, TailElements
    <3>2. i + 1 \in DOMAIN ring /\ ring'[i] = ring[i + 1]
      BY <2>1, <3>1
    <3> QED BY <2>1, <3>2, Zenon DEF Announced
  <2> QED BY <2>2, <2>3
<1> QED BY <1>1, <1>2, <1>3 DEF Announced

LEMMA SameMessages ==
  ASSUME NoSplice, heard' = heard, result' = result \/ result'.data = << >>
  PROVE  NoSplice'
BY DEF NoSplice

LEMMA HostMoves ==
  ASSUME TypedAndSound, InvTransfer, pc # "idle",
         UNCHANGED <<ecuTx, todo, ncalls>>, NoSplice',
         ring' = ring \/ (ring # << >> /\ ring' = Tail(ring)),
         IF pc' = "idle" THEN rx'.st # "receiving" ELSE said' = said,
         Onward(tx', toEcu', ecuRx', tx, toEcu, ecuRx, {}),
         Onward(ecuTx', ring', rx', ecuTx, ring, rx, Pends)
  PROVE  Proceeds
<1>1. ring \in Seq(Frames)
  BY DEF TypedAndSound, WireType
<1>2. Announced' => Announced
  BY <1>1, FewerAnnounced
<1> QED BY <1>2 DEF Proceeds

LEMMA HostStops == HostRx.st = "idle" /\ TxNone.st = "done"
BY DEF HostRx, RxNew, TxNone, TxNew

LEMMA AnswerUntouched ==
  ASSUME TypedAndSound, UNCHANGED <<ecuTx, ncalls>>,
         ring' = ring \/ (ring # << >> /\ ring' = Tail(ring)), rx' \in {rx, HostRx}
  PROVE  Onward(ecuTx', ring', rx', ecuTx, ring, rx, Pends)
<1>1. ring \in Seq(Frames) /\ ring' \in Seq(Frames)
  BY TailTyped DEF TypedAndSound, WireType
<1>2. Fewer(ring', ring, Pends)
  BY <1>1, FewerSame, FewerTail
<1>3. Lets(rx', rx)
  BY HostStops DEF Lets
<1>4. Stops(ecuTx', ecuTx, Pends)
  BY StopsAlike
<1> QED BY <1>1, <1>2, <1>3, <1>4, Eased

LEMMA SendTransfer ==
  ASSUME TypedAndSound, InvTransfer, SendFrame \/ SendFails
  PROVE  Proceeds
<1> DEFINE m == TxSent(tx)
<1>1. /\ pc # "idle" /\ tx \in TxMachines /\ TxSound(tx) /\ TxReady(tx)
      /\ toEcu \in Seq(Frames) /\ UNCHANGED <<ring, ecuTx, ecuRx, todo, heard, ncalls>>
  BY DEF SendFrame, SendFails, TypedAndSound, HostType, WireType, ecuVars
<1>2. /\ tx' \in {tx, m, TxNone} /\ said' = said /\ rx' \in {rx, HostRx}
      /\ pc' = "idle" => rx' = HostRx
      /\ result' = result \/ result'.data = << >>
      /\ \/ tx' = tx /\ toEcu' = toEcu
         \/ tx' \in {m, TxNone} /\ toEcu' \in {toEcu, Append(toEcu, TxFrame(tx))}
  <2> HIDE DEF m
  <2>1. CASE SendFails
    BY <2>1, Zenon DEF SendFails, Return
  <2>2. CASE SendFrame
    <3>1. CASE m.st = "panic"
      BY <2>2, <3>1 DEF SendFrame, Panic, Continue, m
    <3>2. CASE m.st # "panic"
      <4>1. /\ toEcu' = Append(toEcu, TxFrame(tx))
            /\ \/ Continue("send", m, rx)
               \/ Return("ok", << >>)
               \/ StartRecv
        BY <2>2, <3>2 DEF SendFrame, m
      <4> QED BY <4>1 DEF Continue, Return, StartRecv
    <3> QED BY <3>1, <3>2
  <2> QED BY <2>1, <2>2
<1>3. Onward(tx', toEcu', ecuRx', tx, toEcu, ecuRx, {})
  <2> HIDE DEF m
  <2>1. CASE tx' = tx /\ toEcu' = toEcu
    BY <1>1, <2>1 DEF Onward
  <2>2. CASE tx' \in {m, TxNone} /\ toEcu' \in {toEcu, Append(toEcu, TxFrame(tx))}
    <3>1. Own(tx', {}) => tx' = TxSent(tx)
      BY <2>2, HostStops DEF Own, m
    <3>2. ecuRx' = ecuRx
      BY <1>1
    <3>3. Onward(tx', toEcu', ecuRx, tx, toEcu, ecuRx, {})
      BY <1>1, <2>2, <3>1, Sent
    <3> QED BY <3>2, <3>3
  <2> QED BY <1>2, <2>1, <2>2
<1>4. Onward(ecuTx', ring', rx', ecuTx, ring, rx, Pends)
  BY <1>1, <1>2, AnswerUntouched
<1> HIDE DEF m
<1>5. NoSplice' /\ (pc' = "idle" => rx'.st # "receiving")
  BY <1>1, <1>2, HostStops, SameMessages DEF InvTransfer
<1> QED BY <1>1, <1>2, <1>3, <1>4, <1>5, HostMoves

\* The caller's machine does not send, and it hears no message.
LEMMA ListenTransfer ==
  ASSUME TypedAndSound, InvTransfer, AwaitFlow \/ FlowPolled \/ RecvLoop \/ PollEmpty \/ PollFails
  PROVE  Proceeds
<1> DEFINE o == TxOnFrame(tx, Head(ring))
<1>1. /\ pc # "idle" /\ tx \in TxMachines /\ toEcu \in Seq(Frames)
      /\ UNCHANGED <<toEcu, ecuTx, ecuRx, todo, heard, ncalls>>
      /\ ring' = ring \/ (ring # << >> /\ ring' = Tail(ring))
  BY DEF AwaitFlow, FlowPolled, RecvLoop, PollEmpty, PollFails, Polling,
         TypedAndSound, HostType, WireType, ecuVars, obsVars
<1>2. /\ tx' \in {tx, o.tx, TxNone} /\ said' = said /\ rx' \in {rx, HostRx}
      /\ pc' = "idle" => rx' = HostRx
      /\ result' = result \/ result'.data = << >>
  <2> HIDE DEF o
  <2>1. CASE FlowPolled
    <3>1. \/ Panic
          \/ Return(o.err, << >>)
          \/ Continue("send", o.tx, rx)
      BY <2>1 DEF FlowPolled, o
    <3> QED BY <3>1 DEF Panic, Return, Continue
  <2>2. CASE AwaitFlow \/ RecvLoop \/ PollEmpty \/ PollFails
    <3>1. \/ Return("FcTimeout", << >>) \/ Return("CfTimeout", << >>)
          \/ Return("Timeout", << >>) \/ Return("Link", << >>)
          \/ \E l \in {"send", "recv", "fcpoll", "rxpoll"} : Continue(l, tx, rx)
      BY <2>2 DEF AwaitFlow, RecvLoop, PollEmpty, PollFails
    <3> QED BY <3>1 DEF Return, Continue
  <2> QED BY <2>1, <2>2
<1>3. Onward(tx', toEcu', ecuRx', tx, toEcu, ecuRx, {})
  <2>1. Stops(tx', tx, {})
    <3>1. Stops(o.tx, tx, {})
      BY <1>1, StopsFlow
    <3>2. Stops(TxNone, tx, {})
      BY HostStops, StopsIdle
    <3>3. Stops(tx, tx, {})
      BY StopsAlike
    <3> HIDE DEF o
    <3> QED BY <1>2, <3>1, <3>2, <3>3
  <2>2. Lets(ecuRx', ecuRx) /\ Fewer(toEcu', toEcu, {}) /\ toEcu' \in Seq(Frames)
    BY <1>1, FewerSame DEF Lets
  <2> QED BY <1>1, <2>1, <2>2, Eased
<1> HIDE DEF o
<1>4. Onward(ecuTx', ring', rx', ecuTx, ring, rx, Pends)
  BY <1>1, <1>2, AnswerUntouched
<1>5. NoSplice' /\ (pc' = "idle" => rx'.st # "receiving")
  BY <1>1, <1>2, HostStops, SameMessages DEF InvTransfer
<1> QED BY <1>1, <1>2, <1>3, <1>4, <1>5, HostMoves

LEMMA GrantLoose ==
  ASSUME NEW S, NEW q \in Seq(Frames), NEW b \in Byte8, NEW g \in Byte8,
         NEW fs \in {"cts", "wait", "ovflw"}
  PROVE  LET f == FlowControl(fs, b, g)
         IN  /\ f \in Frames /\ Loose(f, S) /\ f.pci = "FC"
             /\ Append(q, f) \in Seq(Frames) /\ Fewer(Append(q, f), q, S)
<1> DEFINE f == FlowControl(fs, b, g)
<1>1. f \in Frames
  BY FlowControlTyped
<1>2. f.pci = "FC"
  BY DEF FlowControl
<1> HIDE DEF f
<1>3. Loose(f, S)
  BY <1>2 DEF Loose
<1> QED BY <1>1, <1>2, <1>3, AppendTyped, FewerLoose DEF f

\* The caller may write a flow control and may drop its machine.
LEMMA RequestUntouched ==
  ASSUME TypedAndSound, UNCHANGED ecuRx, tx' \in {tx, TxNone},
         toEcu' \in {toEcu, Append(toEcu, FlowControl("cts", HostBs, HostStMin))}
  PROVE  Onward(tx', toEcu', ecuRx', tx, toEcu, ecuRx, {})
<1>1. toEcu \in Seq(Frames)
  BY DEF TypedAndSound, WireType
<1>2. Stops(tx', tx, {})
  BY HostStops, StopsIdle, StopsAlike
<1>3. toEcu' \in Seq(Frames) /\ Fewer(toEcu', toEcu, {})
  <2>1. CASE toEcu' = toEcu
    BY <1>1, <2>1, FewerSame
  <2>2. CASE toEcu' = Append(toEcu, FlowControl("cts", HostBs, HostStMin))
    BY <1>1, <2>2, GrantLoose, IsoTpAssumption, CallConstants
  <2> QED BY <2>1, <2>2
<1>4. Lets(ecuRx', ecuRx)
  BY DEF Lets
<1> QED BY <1>1, <1>2, <1>3, <1>4, Eased

LEMMA FlowFailsTransfer ==
  ASSUME TypedAndSound, InvTransfer, FlowFails
  PROVE  Proceeds
<1>1. /\ pc # "idle" /\ UNCHANGED <<ecuTx, ecuRx, todo, heard, ncalls>>
      /\ ring # << >> /\ ring' = Tail(ring)
      /\ toEcu' \in {toEcu, Append(toEcu, FlowControl("cts", HostBs, HostStMin))}
  BY DEF FlowFails, ecuVars
<1>2. tx' = TxNone /\ rx' = HostRx /\ pc' = "idle" /\ result'.data = << >>
  BY DEF FlowFails, Return
<1>3. Onward(tx', toEcu', ecuRx', tx, toEcu, ecuRx, {})
  BY <1>1, <1>2, RequestUntouched
<1>4. Onward(ecuTx', ring', rx', ecuTx, ring, rx, Pends)
  BY <1>1, <1>2, AnswerUntouched
<1>5. NoSplice' /\ rx'.st # "receiving"
  BY <1>1, <1>2, HostStops, SameMessages DEF InvTransfer
<1> QED BY <1>1, <1>2, <1>3, <1>4, <1>5, HostMoves

\* What completes is a message the ECU began and the caller is not past.
LEMMA Delivered ==
  ASSUME TypedAndSound, InvTransfer, pc # "idle", ring # << >>,
         RxOnFrame(rx, Head(ring)).ev = "done"
  PROVE  LET d == RxOnFrame(rx, Head(ring)).out
         IN  /\ Whole(d) /\ d # << >> /\ Request(d) = ncalls
             /\ \E k \in DOMAIN said : said[k] = d
<1> DEFINE f == Head(ring)
           w == RxOnFrame(rx, f)
<1>1. PICK R : /\ IsMessage(R, "resp", ncalls) /\ Transfer(ecuTx, ring, rx, R, Pends)
               /\ Answering => \E k \in DOMAIN said : said[k] = R
  BY DEF InvTransfer, Answered
<1>2. ncalls \in Nat /\ Numbered(R) /\ Whole(R) /\ Request(R) = ncalls /\ R # << >>
  BY <1>1, Numbers, AMessage
<1>3. \A m \in Pends : Numbered(m) /\ Whole(m) /\ Request(m) = ncalls /\ m # << >>
  BY <1>2, ThePends
<1>4. /\ ecuTx \in TxMachines /\ TxSound(ecuTx) /\ ring \in Seq(Frames)
      /\ rx \in RxMachines /\ RxSound(rx)
  BY DEF TypedAndSound, HostType, EcuType, WireType
<1>5. \/ w.out = R /\ Live(ecuTx, ring, rx, Pends)
      \/ w.out \in Pends /\ f.pci = "SF" /\ Loose(f, Pends)
  BY <1>1, <1>2, <1>3, <1>4, Takes
<1>6. CASE w.out = R /\ Answering
  BY <1>1, <1>2, <1>6, Zenon
<1>7. CASE w.out \in Pends /\ f.pci = "SF" /\ Loose(f, Pends)
  <2>1. f = ring[1] /\ 1 \in DOMAIN ring
    BY <1>4, TailElements
  <2>2. Announced
    BY <1>7, <2>1 DEF Announced
  <2>3. \E k \in DOMAIN said : said[k] \in Pends
    BY <2>2 DEF InvTransfer, Forewarned
  <2>4. \A m \in Pends : m = w.out
    BY <1>7 DEF Pends
  <2> QED BY <1>3, <1>7, <2>3, <2>4, Zenon
<1> QED BY <1>5, <1>6, <1>7 DEF Answering

LEMMA RecvTransfer ==
  ASSUME TypedAndSound, InvTransfer, RecvPolled
  PROVE  Proceeds
<1> DEFINE f == Head(ring)
           o == RxOnFrame(rx, f)
<1>1. /\ pc # "idle" /\ UNCHANGED <<ecuTx, ecuRx, todo, heard, ncalls>>
      /\ ring # << >> /\ ring' = Tail(ring)
      /\ toEcu' \in {toEcu, Append(toEcu, FlowControl("cts", HostBs, HostStMin))}
  BY DEF RecvPolled, ecuVars
<1>2. \/ Continue("recv", tx, rx)
      \/ Panic
      \/ o.ev = "done" /\ Received(o.out)
      \/ Continue("recv", tx, o.rx)
      \/ Return(o.ev, << >>)
  BY DEF RecvPolled
<1>3. o.ev = "done" => Whole(o.out)
  BY <1>1, Delivered
<1>4. Onward(ecuTx, Tail(ring), o.rx, ecuTx, ring, rx, Pends)
  BY <1>1, Numbers, ThePends, Taking DEF TypedAndSound, HostType, EcuType, WireType
<1> HIDE DEF o
<1>5. /\ tx' \in {tx, TxNone} /\ rx' \in {rx, o.rx, HostRx}
      /\ IF pc' = "idle" THEN rx' = HostRx ELSE said' = said
      /\ \/ result' = result \/ result'.data = << >>
         \/ result'.data = o.out /\ o.ev = "done"
  BY <1>2 DEF Continue, Panic, Received, StartRecv, Return
<1>6. Onward(tx', toEcu', ecuRx', tx, toEcu, ecuRx, {})
  BY <1>1, <1>5, RequestUntouched
<1>7. Onward(ecuTx', ring', rx', ecuTx, ring, rx, Pends)
  <2>1. CASE rx' = o.rx
    BY <1>1, <1>4, <2>1
  <2>2. CASE rx' \in {rx, HostRx}
    BY <1>1, <2>2, AnswerUntouched
  <2> QED BY <1>5, <2>1, <2>2
<1>8. NoSplice'
  BY <1>1, <1>3, <1>5, SameMessages DEF InvTransfer, NoSplice
<1> QED BY <1>1, <1>5, <1>6, <1>7, <1>8, HostStops, HostMoves

-----------------------------------------------------------------------------
(* The steps of the ECU, the bus and the clock.                             *)

LEMMA EcuMoves ==
  ASSUME InvTransfer, UNCHANGED <<pc, said, ncalls>>, rx'.st = rx.st,
         todo' \in {0, todo} \/ (todo' = ncalls /\ Asking /\ ~Asking'),
         Announced' => Announced, NoSplice',
         Onward(tx', toEcu', ecuRx', tx, toEcu, ecuRx, {}),
         Onward(ecuTx', ring', rx', ecuTx, ring, rx, Pends)
  PROVE  Proceeds
BY DEF Proceeds, InvTransfer, RxRests

LEMMA Parts ==
  ASSUME TypedAndSound
  PROVE  /\ tx \in TxMachines /\ TxSound(tx) /\ ecuTx \in TxMachines /\ TxSound(ecuTx)
         /\ rx \in RxMachines /\ RxSound(rx) /\ ecuRx \in RxMachines /\ RxSound(ecuRx)
         /\ toEcu \in Seq(Frames) /\ ring \in Seq(Frames)
BY DEF TypedAndSound, HostType, EcuType, WireType

LEMMA Unmoved ==
  ASSUME TypedAndSound
  PROVE  /\ UNCHANGED <<tx, toEcu, ecuRx>> =>
              Onward(tx', toEcu', ecuRx', tx, toEcu, ecuRx, {})
         /\ UNCHANGED <<ecuTx, ring, rx>> =>
              Onward(ecuTx', ring', rx', ecuTx, ring, rx, Pends)
BY DEF Onward

\* A machine that waits never has a single frame.
LEMMA FlowSingle ==
  ASSUME NEW t \in TxMachines, NEW f, TxOnFrame(t, f).tx.st = "single"
  PROVE  TxOnFrame(t, f).tx = t
<1>1. CASE t.st # "await" \/ f.pci # "FC"
  BY <1>1 DEF TxOnFrame, TxKeeps
<1>2. CASE t.st = "await" /\ f.pci = "FC"
  <2> DEFINE u == TxOnFrame(t, f).tx
  <2>1. CASE f.fs = "cts"
    <3>1. u = [t EXCEPT !.st = "cons", !.timer = 0, !.bs = f.bs,
                        !.stmin = decode_stmin(f.stmin), !.cfs = 0, !.waits = 0]
      BY <1>2, <2>1 DEF TxOnFrame, TxKeeps
    <3>2. u.st = "cons"
      BY <3>1 DEF TxMachines
    <3> QED BY <3>2
  <2>2. CASE f.fs = "wait" /\ Overflows(t, t.waits)
    <3>1. u = [t EXCEPT !.st = "panic"]
      BY <1>2, <2>2 DEF TxOnFrame, TxKeeps
    <3>2. u.st = "panic"
      BY <3>1 DEF TxMachines
    <3> QED BY <3>2
  <2>3. CASE f.fs = "wait" /\ ~Overflows(t, t.waits)
    <3> DEFINE n == [t EXCEPT !.waits = Increment(@)]
    <3>1. u = AwaitFc(n) /\ "st" \in DOMAIN n
      BY <1>2, <2>3 DEF TxOnFrame, TxMachines
    <3> HIDE DEF n
    <3>2. AwaitFc(n).st = "await"
      BY <3>1 DEF AwaitFc
    <3> QED BY <3>1, <3>2
  <2>4. CASE f.fs \notin {"cts", "wait"}
    BY <1>2, <2>4 DEF TxOnFrame
  <2> QED BY <2>1, <2>2, <2>3, <2>4
<1> QED BY <1>1, <1>2

LEMMA EcuHearsTransfer ==
  ASSUME TypedAndSound, InvTransfer, EcuReceive
  PROVE  Proceeds
<1> DEFINE f == Head(toEcu)
           t == TxOnFrame(ecuTx, f)
           r == RxOnFrame(ecuRx, f)
<1>1. /\ toEcu # << >> /\ toEcu' = Tail(toEcu)
      /\ UNCHANGED <<pc, rx, tx, result, ring, said, ncalls>>
  BY DEF EcuReceive, hostVars
<1>2. toEcu' \in Seq(Frames) /\ Fewer(toEcu', toEcu, {})
  BY <1>1, Parts, TailTyped, FewerTail
<1>3. CASE f.pci = "FC"
  <2>1. ecuTx' \in {t.tx, TxNone} /\ UNCHANGED <<ecuRx, todo, heard>>
    BY <1>3 DEF EcuReceive
  <2>2. Stops(ecuTx', ecuTx, Pends)
    <3>1. Stops(t.tx, ecuTx, Pends)
      BY Parts, StopsFlow
    <3>2. Stops(TxNone, ecuTx, Pends)
      BY HostStops, StopsIdle
    <3> HIDE DEF t
    <3> QED BY <2>1, <3>1, <3>2
  <2>3. ecuTx'.st = "single" => ecuTx.st = "single" /\ ecuTx'.payload = ecuTx.payload
    <3>1. t.tx.st = "single" => t.tx = ecuTx
      BY Parts, FlowSingle
    <3> HIDE DEF t
    <3> QED BY <2>1, <3>1, HostStops
  <2> HIDE DEF t
  <2>4. Announced' => Announced
    BY <1>1, <2>3, Parts, FewerAnnounced
  <2>5. Onward(tx', toEcu', ecuRx', tx, toEcu, ecuRx, {})
    <3>1. Stops(tx', tx, {}) /\ Lets(ecuRx', ecuRx)
      BY <1>1, <2>1, StopsAlike DEF Lets
    <3> QED BY <1>2, <3>1, Parts, Eased
  <2>6. Onward(ecuTx', ring', rx', ecuTx, ring, rx, Pends)
    <3>1. ring' \in Seq(Frames) /\ Fewer(ring', ring, Pends) /\ Lets(rx', rx)
      BY <1>1, Parts, FewerSame DEF Lets
    <3> QED BY <2>2, <3>1, Parts, Eased
  <2>7. NoSplice'
    BY <1>1, <2>1, SameMessages DEF InvTransfer
  <2> QED BY <1>1, <2>1, <2>4, <2>5, <2>6, <2>7, EcuMoves
<1>4. CASE f.pci # "FC"
  <2>1. /\ ecuRx' = r.rx /\ ecuTx' = ecuTx
        /\ todo' = IF r.ev = "done" THEN Request(r.out) ELSE todo
        /\ heard' = IF r.ev = "done" THEN heard \cup {r.out} ELSE heard
    BY <1>4 DEF EcuReceive
  <2>2. PICK P : IsMessage(P, "req", ncalls) /\ Transfer(tx, toEcu, ecuRx, P, {})
    BY DEF InvTransfer, Asked
  <2>3. Numbered(P) /\ Whole(P) /\ Request(P) = ncalls
    BY <2>2, Numbers, AMessage
  <2>4. r.ev = "done" =>
          /\ r.out = P /\ Live(tx, toEcu, ecuRx, {})
          /\ ~Live(tx, Tail(toEcu), r.rx, {})
    BY <1>1, <2>2, <2>3, Parts, Takes
  <2>5. Onward(tx', toEcu', ecuRx', tx, toEcu, ecuRx, {})
    <3>1. Onward(tx, Tail(toEcu), r.rx, tx, toEcu, ecuRx, {})
      BY <1>1, Parts, Taking
    <3> QED BY <1>1, <2>1, <3>1
  <2> HIDE DEF r
  <2>6. r.ev = "done" => todo' = ncalls /\ Asking /\ ~Asking'
    BY <1>1, <2>1, <2>3, <2>4 DEF Asking
  <2>7. NoSplice'
    <3>1. heard' \in {heard, heard \cup {P}}
      BY <2>1, <2>4
    <3> QED BY <1>1, <2>3, <3>1 DEF InvTransfer, NoSplice
  <2>8. Announced' => Announced
    BY <1>1, <2>1, Parts, FewerAnnounced
  <2>9. Onward(ecuTx', ring', rx', ecuTx, ring, rx, Pends)
    BY <1>1, <2>1, Unmoved
  <2> QED BY <1>1, <2>1, <2>5, <2>6, <2>7, <2>8, <2>9, EcuMoves
<1> QED BY <1>3, <1>4

\* A frame without data may come into the ring at any time.
LEMMA LooseDeposit ==
  ASSUME TypedAndSound, NEW f \in Frames, f.pci \notin {"SF", "FF", "CF"}, Deposit(f),
         UNCHANGED <<ecuTx, rx, ncalls>>
  PROVE  /\ Announced' => Announced
         /\ Onward(ecuTx', ring', rx', ecuTx, ring, rx, Pends)
<1>1. ring \in Seq(Frames) /\ ring' \in Seq(Frames) /\ Pends' = Pends
  BY Parts, DepositTyped DEF TypedAndSound, Pends
<1>2. CASE ring' = ring
  BY <1>1, <1>2, FewerAnnounced, Unmoved
<1>3. CASE ring' = Append(ring, f)
  <2>1. Fewer(ring', ring, Pends)
    BY <1>1, <1>3, FewerLoose DEF Loose
  <2>2. Stops(ecuTx', ecuTx, Pends) /\ Lets(rx', rx)
    BY StopsAlike DEF Lets
  <2>3. Onward(ecuTx', ring', rx', ecuTx, ring, rx, Pends)
    BY <1>1, <2>1, <2>2, Eased
  <2>4. ASSUME NEW i \in DOMAIN ring', ring'[i].pci = "SF"
        PROVE  i \in DOMAIN ring /\ ring'[i] = ring[i]
    <3>1. /\ DOMAIN ring' = 1..(Len(ring) + 1) /\ ring'[Len(ring) + 1] = f
          /\ \A j \in 1..Len(ring) : ring'[j] = ring[j]
          /\ Len(ring) \in Nat /\ DOMAIN ring = 1..Len(ring)
      BY <1>1, <1>3, AppendElements
    <3>2. i \in 1..Len(ring) \/ i = Len(ring) + 1
      BY <2>4, <3>1, UpToNext
    <3> QED BY <2>4, <3>1, <3>2
  <2>5. Announced' => Announced
    BY <1>1, <2>4, Zenon DEF Announced
  <2> QED BY <2>3, <2>5
<1> QED BY <1>2, <1>3 DEF Deposit

LEMMA EcuFlowTransfer ==
  ASSUME TypedAndSound, InvTransfer, EcuFlow
  PROVE  Proceeds
<1> PICK fs \in EcuFlows :
      /\ Deposit(FlowControl(fs, EcuBs, EcuStMin))
      /\ ecuRx' = IF fs = "ovflw" THEN EcuIdle ELSE [ecuRx EXCEPT !.timer = NCr]
  BY DEF EcuFlow
<1>1. UNCHANGED <<pc, tx, rx, said, result, heard, ncalls, toEcu, ecuTx, todo>>
  BY DEF EcuFlow, hostVars, obsVars
<1> DEFINE f == FlowControl(fs, EcuBs, EcuStMin)
<1>2. f \in Frames /\ f.pci = "FC" /\ Deposit(f)
  <2>1. fs \in {"cts", "wait", "ovflw"}
    BY IsoTpAssumption DEF IsoTpAssumption
  <2>2. EcuBs \in Byte8 /\ EcuStMin \in Byte8
    BY IsoTpAssumption, CallConstants
  <2>3. f \in Frames
    BY <2>1, <2>2, FlowControlTyped
  <2> QED BY <2>3 DEF FlowControl
<1> HIDE DEF f
<1>3. /\ Announced' => Announced
      /\ Onward(ecuTx', ring', rx', ecuTx, ring, rx, Pends)
  BY <1>1, <1>2, LooseDeposit
<1>4. Onward(tx', toEcu', ecuRx', tx, toEcu, ecuRx, {})
  <2>1. EcuIdle.st = "idle"
    BY DEF EcuIdle, RxNew
  <2>2. Lets(ecuRx', ecuRx)
    BY <2>1, Parts, LetsTick DEF Lets
  <2>3. Stops(tx', tx, {}) /\ toEcu' \in Seq(Frames) /\ Fewer(toEcu', toEcu, {})
    BY <1>1, Parts, StopsAlike, FewerSame
  <2> QED BY <2>2, <2>3, Parts, Eased
<1>5. NoSplice'
  BY <1>1, SameMessages DEF InvTransfer
<1> QED BY <1>1, <1>3, <1>4, <1>5, EcuMoves

\* What a single frame carries tells an announcement from an answer.
LEMMA SinglesDiffer ==
  ASSUME NEW R, NEW m, Numbered(R), Numbered(m), R[1][1] # m[1][1]
  PROVE  pad(R) # pad(m)
<1>1. /\ R \in Seq(Bytes) /\ m \in Seq(Bytes) /\ 1 \in 1..Len(R) /\ 1 \in 1..Len(m)
      /\ 0 \in 0..Len(R) /\ 0 \in 0..Len(m)
  BY LenProperties DEF Numbered
<1>2. pad(R)[1] = R[1]
  BY <1>1, PadPrefix, IsoTpAssumption, MachineAssumption
<1>3. pad(m)[1] = m[1]
  BY <1>1, PadPrefix, IsoTpAssumption, MachineAssumption
<1> QED BY <1>2, <1>3

LEMMA SendsNoSingle ==
  ASSUME NEW t \in TxMachines, TxSound(t), TxReady(t)
  PROVE  TxSent(t).st # "single" /\ (TxFrame(t).pci = "SF" => t.st = "single")
<1>1. CASE t.st = "single"
  BY <1>1 DEF TxSent, TxMachines
<1>2. CASE t.st = "first"
  BY <1>2, FirstSent, MachineAssumption
<1>3. CASE t.st = "cons"
  <2>1. TxFrame(t).pci = "CF"
    BY <1>3 DEF TxFrame
  <2>2. TxSent(t).st \in {"panic", "done", "await", "cons"}
    BY <1>3, ConsecutiveSent, MachineAssumption
  <2> QED BY <2>1, <2>2
<1> QED BY <1>1, <1>2, <1>3 DEF TxReady

LEMMA EcuSendTransfer ==
  ASSUME TypedAndSound, InvTransfer, EcuSend
  PROVE  Proceeds
<1> DEFINE f == TxFrame(ecuTx)
           m == TxSent(ecuTx)
<1>1. /\ TxReady(ecuTx) /\ ring' \in {ring, Append(ring, f)} /\ ecuTx' \in {m, TxNone}
      /\ UNCHANGED <<pc, tx, rx, said, result, heard, ncalls, toEcu, ecuRx, todo>>
  BY DEF EcuSend, Deposit, hostVars, obsVars
<1>2. m.st # "single" /\ (f.pci = "SF" => ecuTx.st = "single") /\ f \in Frames
  BY <1>1, Parts, SendsNoSingle, TxFrameTyped, IsoTpAssumption, MachineAssumption
<1>3. Onward(ecuTx', ring', rx', ecuTx, ring, rx, Pends)
  <2>1. Own(ecuTx', Pends) => ecuTx' = m
    BY <1>1, HostStops DEF Own
  <2>2. Onward(ecuTx', ring', rx, ecuTx, ring, rx, Pends)
    BY <1>1, <2>1, Parts, Sent
  <2> QED BY <1>1, <2>2
<1>4. f.pci = "SF" /\ Loose(f, Pends) => ecuTx.st = "single" /\ ecuTx.payload \in Pends
  <2> SUFFICES ASSUME ecuTx.st = "single", Loose(f, Pends), f.pci = "SF",
                      ecuTx.payload \notin Pends
               PROVE  FALSE
    BY <1>2
  <2>1. PICK p \in Pends : f.data = pad(p)
    BY DEF Loose
  <2>2. f.data = pad(ecuTx.payload)
    BY DEF TxFrame
  <2>3. PICK R : IsMessage(R, "resp", ncalls) /\ Transfer(ecuTx, ring, rx, R, Pends)
    BY DEF InvTransfer, Answered
  <2>4. ecuTx.payload = R
    BY <2>3 DEF Transfer, Leaves, Placed, Own
  <2>5. Numbered(R) /\ R[1][1] = "resp"
    BY <2>3, Numbers, AMessage
  <2>6. Numbered(p) /\ p[1][1] = "pend"
    <3>1. IsMessage(p, "pend", ncalls)
      BY DEF Pends, IsMessage
    <3> QED BY <3>1, Numbers, AMessage
  <2> HIDE DEF f
  <2> QED BY <2>1, <2>2, <2>4, <2>5, <2>6, SinglesDiffer
<1>5. ASSUME Announced' PROVE Announced
  <2>1. Pends' = Pends /\ ecuTx'.st # "single"
    BY <1>1, <1>2, HostStops DEF Pends
  <2> HIDE DEF f, m
  <2>2. PICK i \in DOMAIN ring' : ring'[i].pci = "SF" /\ Loose(ring'[i], Pends)
    BY <1>5, <2>1 DEF Announced
  <2>3. CASE ring' = ring
    BY <2>2, <2>3, Zenon DEF Announced
  <2>4. CASE ring' = Append(ring, f)
    <3>1. /\ DOMAIN ring' = 1..(Len(ring) + 1) /\ ring'[Len(ring) + 1] = f
          /\ \A j \in 1..Len(ring) : ring'[j] = ring[j]
          /\ Len(ring) \in Nat /\ DOMAIN ring = 1..Len(ring)
      BY <1>2, <2>4, Parts, AppendElements
    <3>2. i \in 1..Len(ring) \/ i = Len(ring) + 1
      BY <2>2, <3>1, UpToNext
    <3>3. CASE i \in 1..Len(ring)
      BY <2>2, <3>1, <3>3, Zenon DEF Announced
    <3>4. CASE i = Len(ring) + 1
      BY <1>4, <2>2, <3>1, <3>4, Zenon DEF Announced
    <3> QED BY <3>2, <3>3, <3>4
  <2> QED BY <1>1, <2>3, <2>4
<1>6. Onward(tx', toEcu', ecuRx', tx, toEcu, ecuRx, {})
  BY <1>1, Unmoved
<1>7. NoSplice'
  BY <1>1, SameMessages DEF InvTransfer
<1> QED BY <1>1, <1>3, <1>5, <1>6, <1>7, EcuMoves

LEMMA EcuStopsTransfer ==
  ASSUME TypedAndSound, InvTransfer, EcuIgnores \/ EcuExpires
  PROVE  Proceeds
<1>1. /\ UNCHANGED <<pc, tx, rx, said, result, heard, ncalls, toEcu, ring>>
      /\ ecuTx' \in {ecuTx, TxNone} /\ ecuRx' \in {ecuRx, EcuIdle} /\ todo' \in {0, todo}
  BY DEF EcuIgnores, EcuExpires, hostVars, obsVars
<1>2. Onward(tx', toEcu', ecuRx', tx, toEcu, ecuRx, {})
  <2>1. EcuIdle.st = "idle"
    BY DEF EcuIdle, RxNew
  <2>2. Stops(tx', tx, {}) /\ Lets(ecuRx', ecuRx)
    BY <1>1, <2>1, StopsAlike DEF Lets
  <2>3. toEcu' \in Seq(Frames) /\ Fewer(toEcu', toEcu, {})
    BY <1>1, Parts, FewerSame
  <2> QED BY <2>2, <2>3, Parts, Eased
<1>3. Onward(ecuTx', ring', rx', ecuTx, ring, rx, Pends)
  <2>1. Stops(ecuTx', ecuTx, Pends) /\ Lets(rx', rx)
    BY <1>1, HostStops, StopsAlike, StopsIdle DEF Lets
  <2>2. ring' \in Seq(Frames) /\ Fewer(ring', ring, Pends)
    BY <1>1, Parts, FewerSame
  <2> QED BY <2>1, <2>2, Parts, Eased
<1>4. Announced' => Announced
  BY <1>1, HostStops, Parts, FewerAnnounced
<1>5. NoSplice'
  BY <1>1, SameMessages DEF InvTransfer
<1> QED BY <1>1, <1>2, <1>3, <1>4, <1>5, EcuMoves

LEMMA LoseTransfer ==
  ASSUME TypedAndSound, InvTransfer, Lose
  PROVE  Proceeds
<1>1. /\ UNCHANGED <<pc, tx, rx, said, result, heard, ncalls, ecuTx, ecuRx, todo>>
      /\ toEcu' = toEcu \/ (toEcu # << >> /\ toEcu' = Tail(toEcu))
      /\ ring' = ring \/ (ring # << >> /\ ring' = Tail(ring))
  BY DEF Lose, hostVars, ecuVars, obsVars
<1>2. Onward(tx', toEcu', ecuRx', tx, toEcu, ecuRx, {})
  <2>1. Stops(tx', tx, {}) /\ Lets(ecuRx', ecuRx)
    BY <1>1, StopsAlike DEF Lets
  <2>2. toEcu' \in Seq(Frames) /\ Fewer(toEcu', toEcu, {})
    BY <1>1, Parts, TailTyped, FewerSame, FewerTail
  <2> QED BY <2>1, <2>2, Parts, Eased
<1>3. Onward(ecuTx', ring', rx', ecuTx, ring, rx, Pends)
  BY <1>1, AnswerUntouched
<1>4. Announced' => Announced
  BY <1>1, Parts, FewerAnnounced
<1>5. NoSplice'
  BY <1>1, SameMessages DEF InvTransfer
<1> QED BY <1>1, <1>2, <1>3, <1>4, <1>5, EcuMoves

\* The bus neither repeats a frame nor brings foreign ones with data.
NothingAdded ==
  /\ "repeat" \notin FaultKinds
  /\ \A f \in NoiseFrames : f.pci \notin {"SF", "FF", "CF"}

LEMMA NoiseTransfer ==
  ASSUME NothingAdded, TypedAndSound, InvTransfer, Noise
  PROVE  Proceeds
<1>1. UNCHANGED <<pc, tx, rx, said, result, heard, ncalls, ecuTx, ecuRx, todo, toEcu>>
  BY DEF Noise, hostVars, ecuVars, obsVars
<1>2. PICK f \in NoiseFrames : Deposit(f)
  BY DEF Noise
<1>3. f \in Frames /\ f.pci \notin {"SF", "FF", "CF"}
  BY IsoTpAssumption DEF NothingAdded, IsoTpAssumption
<1>4. /\ Announced' => Announced
      /\ Onward(ecuTx', ring', rx', ecuTx, ring, rx, Pends)
  BY <1>1, <1>2, <1>3, LooseDeposit
<1>5. Onward(tx', toEcu', ecuRx', tx, toEcu, ecuRx, {})
  BY <1>1, Unmoved
<1>6. NoSplice'
  BY <1>1, SameMessages DEF InvTransfer
<1> QED BY <1>1, <1>4, <1>5, <1>6, EcuMoves

LEMMA TickTransfer ==
  ASSUME TypedAndSound, InvTransfer, Tick
  PROVE  Proceeds
<1>1. /\ UNCHANGED <<pc, said, result, heard, ncalls, todo, toEcu, ring>>
      /\ tx' = [tx EXCEPT !.timer = Down(@)] /\ ecuTx' = [ecuTx EXCEPT !.timer = Down(@)]
      /\ rx' = RxDown(rx) /\ ecuRx' = RxDown(ecuRx)
  BY DEF Tick
<1>2. Onward(tx', toEcu', ecuRx', tx, toEcu, ecuRx, {})
  <2>1. Stops(tx', tx, {}) /\ Lets(ecuRx', ecuRx)
    BY <1>1, Parts, StopsTick, LetsTick
  <2>2. toEcu' \in Seq(Frames) /\ Fewer(toEcu', toEcu, {})
    BY <1>1, Parts, FewerSame
  <2> QED BY <2>1, <2>2, Parts, Eased
<1>3. Onward(ecuTx', ring', rx', ecuTx, ring, rx, Pends)
  <2>1. Stops(ecuTx', ecuTx, Pends) /\ Lets(rx', rx)
    BY <1>1, Parts, StopsTick, LetsTick
  <2>2. ring' \in Seq(Frames) /\ Fewer(ring', ring, Pends)
    BY <1>1, Parts, FewerSame
  <2> QED BY <2>1, <2>2, Parts, Eased
<1>4. rx'.st = rx.st /\ ecuTx'.st = ecuTx.st /\ ecuTx'.payload = ecuTx.payload
  BY <1>1, Parts DEF RxDown, RxMachines, TxMachines
<1>5. Announced' => Announced
  BY <1>1, <1>4, Parts, FewerAnnounced
<1>6. NoSplice'
  BY <1>1, SameMessages DEF InvTransfer
<1> QED BY <1>1, <1>2, <1>3, <1>4, <1>5, <1>6, EcuMoves

-----------------------------------------------------------------------------
(* The steps that begin a message.                                          *)

LEMMA NewSender ==
  ASSUME NEW P, Numbered(P), NEW c, NEW S
  PROVE  LET t == TxNew(P, c)
         IN  /\ Own(t, S) => Placed(t, P)
             /\ P \in S /\ Len(P) <= FrameData => ~Own(t, S)
             /\ t.st = "single" => t.payload = P
<1>1. Len(P) \in Nat /\ FrameData \in Nat
  BY Constants, LenProperties, MachineAssumption DEF Numbered
<1> DEFINE t == TxNew(P, c)
<1>2. /\ t.payload = P /\ t.offset = 0
      /\ t.st = IF Len(P) <= FrameData THEN "single" ELSE "first"
  BY DEF TxNew
<1> HIDE DEF t
<1>3. Own(t, S) => Placed(t, P)
  BY <1>1, <1>2 DEF Placed
<1>4. P \in S /\ Len(P) <= FrameData => ~Own(t, S)
  BY <1>2 DEF Own
<1> QED BY <1>2, <1>3, <1>4 DEF t

LEMMA CallTransfer ==
  ASSUME TypedAndSound, InvTransfer, Call, AtRest
  PROVE  InvTransfer'
<1>1. /\ pc = "idle" /\ ncalls' = ncalls + 1 /\ ncalls \in Nat /\ ncalls' \in Nat
      /\ UNCHANGED <<toEcu, ring, ecuTx, ecuRx, todo, heard>>
      /\ toEcu = << >> /\ ring = << >> /\ ecuTx.st = "done" /\ ecuRx.st = "idle" /\ todo = 0
  BY Numbers DEF Call, AtRest, ecuVars
<1>2. rx' \in {rx, HostRx} /\ (result' = result \/ result'.data = << >>)
  BY DEF Call, Return
<1>3. rx'.st # "receiving"
  BY <1>1, <1>2, HostStops DEF InvTransfer, RxRests
<1>4. \E P : IsMessage(P, "req", ncalls') /\ (Own(tx', {}) => Placed(tx', P))
  <2>1. CASE tx' = TxNone
    <3>1. ~Own(tx', {})
      BY <2>1, HostStops DEF Own
    <3>2. IsMessage(Message("req", ncalls', 1), "req", ncalls')
      BY DEF IsMessage
    <3> QED BY <3>1, <3>2
  <2>2. ASSUME NEW len \in RequestLens, len # 0,
               tx' = TxNew(Message("req", ncalls + 1, len), OverflowChecks)
        PROVE  \E P : IsMessage(P, "req", ncalls') /\ (Own(tx', {}) => Placed(tx', P))
    <3> DEFINE P == Message("req", ncalls', len)
    <3>1. len \in Nat \ {0}
      BY <2>2, IsoTpAssumption, CallConstants
    <3>2. IsMessage(P, "req", ncalls')
      BY <3>1 DEF IsMessage
    <3>3. Numbered(P)
      BY <1>1, <3>2, AMessage
    <3>4. tx' = TxNew(P, OverflowChecks)
      BY <1>1, <2>2
    <3> HIDE DEF P
    <3>5. Own(tx', {}) => Placed(tx', P)
      BY <3>3, <3>4, NewSender
    <3> QED BY <3>2, <3>5
  <2>3. \/ tx' = TxNone
        \/ \E len \in RequestLens :
             len # 0 /\ tx' = TxNew(Message("req", ncalls + 1, len), OverflowChecks)
    BY Zenon DEF Call, Return
  <2> QED BY <2>1, <2>2, <2>3
<1>5. Firm(toEcu', {}) = {} /\ Firm(ring', Pends') = {} /\ ~Own(ecuTx', Pends')
  BY <1>1 DEF Firm, Own
<1>6. Asked'
  <2>1. PICK P : IsMessage(P, "req", ncalls') /\ (Own(tx', {}) => Placed(tx', P))
    BY <1>4
  <2>2. Transfer(tx', toEcu', ecuRx', P, {})
    BY <1>1, <1>5, <2>1, Begun
  <2> QED BY <2>1, <2>2 DEF Asked
<1>7. ~Answering'
  BY <1>1, <1>3, <1>5 DEF Answering, Live
<1>8. Answered'
  <2> DEFINE R == Message("resp", ncalls', 1)
  <2>1. Transfer(ecuTx', ring', rx', R, Pends')
    BY <1>3, <1>5, Begun
  <2>2. IsMessage(R, "resp", ncalls')
    BY DEF IsMessage
  <2> HIDE DEF R
  <2> QED BY <1>7, <2>1, <2>2 DEF Answered
<1>9. Forewarned'
  BY <1>1 DEF Forewarned, Announced
<1>10. InTurn'
  BY <1>1, <1>7 DEF InTurn
<1>11. NoSplice'
  BY <1>1, <1>2, SameMessages DEF InvTransfer
<1> QED BY <1>3, <1>6, <1>8, <1>9, <1>10, <1>11 DEF InvTransfer, RxRests

LEMMA AnswerTransfer ==
  ASSUME TypedAndSound, InvTransfer, EcuAnswer
  PROVE  InvTransfer'
<1>1. /\ UNCHANGED <<pc, tx, rx, result, heard, ncalls, toEcu, ring, ecuRx>>
      /\ todo # 0
  BY DEF EcuAnswer, hostVars
<1>2. /\ todo = ncalls /\ ncalls \in Nat /\ Pends' = Pends
      /\ ~Asking /\ ~Answering /\ ~Asking'
  BY <1>1, Numbers DEF InvTransfer, InTurn, Pends, Asking
<1>3. Firm(ring, Pends) = {} /\ rx.st # "receiving"
  BY <1>2 DEF Answering, Live
<1>4. said \in Seq(Seq(Bytes))
  BY DEF TypedAndSound, HostType
<1>5. PICK d : /\ ecuTx' = TxNew(d, FALSE) /\ said' = Append(said, d)
               /\ \/ IsMessage(d, "resp", ncalls) /\ todo' = 0
                  \/ d \in Pends /\ Len(d) = 1 /\ todo' = todo
  <2>1. PICK len \in AnswerLens :
      \/ /\ ecuTx' = TxNew(Message("resp", todo, len), FALSE)
         /\ said' = Append(said, Message("resp", todo, len))
         /\ todo' = 0
      \/ /\ ecuTx' = TxNew(Message("pend", todo, 1), FALSE)
         /\ said' = Append(said, Message("pend", todo, 1))
         /\ todo' = todo
    BY DEF EcuAnswer
  <2>2. len \in Nat \ {0}
    BY IsoTpAssumption, CallConstants
  <2>3. IsMessage(Message("resp", todo, len), "resp", ncalls)
    BY <1>2, <2>2 DEF IsMessage
  <2>4. Message("pend", todo, 1) \in Pends
    BY <1>2 DEF Pends
  <2>5. Len(Message("pend", todo, 1)) = 1
    BY DEF Message
  <2> QED BY <2>1, <2>3, <2>4, <2>5, Zenon
<1>6. PICK R : IsMessage(R, "resp", ncalls) /\ (d \in Pends \/ d = R)
  <2>1. IsMessage(Message("resp", ncalls, 1), "resp", ncalls)
    BY DEF IsMessage
  <2> QED BY <1>5, <2>1
<1>7. Numbered(d) /\ d \in Seq(Bytes)
  BY <1>2, <1>5, ThePends, AMessage DEF Numbered
<1>8. /\ Own(ecuTx', Pends) => Placed(ecuTx', R)
      /\ d \in Pends /\ Len(d) = 1 => ~Own(ecuTx', Pends)
      /\ ecuTx'.st = "single" => ecuTx'.payload = d
  <2>1. /\ Own(ecuTx', Pends) => Placed(ecuTx', d)
        /\ d \in Pends /\ Len(d) <= FrameData => ~Own(ecuTx', Pends)
        /\ ecuTx'.st = "single" => ecuTx'.payload = d
    BY <1>5, <1>7, NewSender
  <2>2. Len(d) = 1 => Len(d) <= FrameData
    BY Constants, MachineAssumption
  <2>3. d \in Pends => Len(d) = 1
    BY DEF Pends, Message
  <2> QED BY <1>6, <2>1, <2>2, <2>3
<1>9. \E k \in DOMAIN said' : said'[k] = d
  BY <1>4, <1>5, <1>7, AppendElements
<1>10. Answered'
  <2>1. Transfer(ecuTx', ring', rx', R, Pends')
    <3>1. Transfer(ecuTx', ring, rx, R, Pends)
      BY <1>3, <1>8, Begun
    <3> QED BY <1>1, <1>2, <3>1
  <2>2. Answering' => Own(ecuTx', Pends)
    BY <1>1, <1>2, <1>3 DEF Answering, Live
  <2>3. Own(ecuTx', Pends) => d = R
    <3>1. d \in Pends => Len(d) = 1
      BY DEF Pends, Message
    <3> QED BY <1>6, <1>8, <3>1
  <2>4. IsMessage(R, "resp", ncalls')
    BY <1>1, <1>6
  <2> QED BY <1>9, <2>1, <2>2, <2>3, <2>4 DEF Answered
<1>11. Asked'
  BY <1>1 DEF InvTransfer, Asked
<1>12. Forewarned'
  <2> SUFFICES ASSUME pc' # "idle", Announced'
               PROVE  \E k \in DOMAIN said' : said'[k] \in Pends
    BY <1>2 DEF Forewarned
  <2>1. CASE ecuTx'.st = "single" /\ ecuTx'.payload \in Pends
    BY <1>8, <1>9, <2>1
  <2>2. CASE Announced
    <3>1. PICK k \in DOMAIN said : said[k] \in Pends
      BY <1>1, <2>2 DEF InvTransfer, Forewarned
    <3>2. k \in DOMAIN said' /\ said'[k] = said[k]
      <4>1. /\ DOMAIN said = 1..Len(said) /\ DOMAIN said' = 1..(Len(said) + 1)
            /\ Len(said) \in Nat /\ \A i \in 1..Len(said) : said'[i] = said[i]
        BY <1>4, <1>5, <1>7, AppendElements
      <4> QED BY <3>1, <4>1
    <3> QED BY <3>1, <3>2
  <2> QED BY <1>1, <1>2, <2>1, <2>2 DEF Announced
<1>13. InTurn'
  <2>1. CASE todo' = 0
    BY <1>2, <2>1 DEF InTurn
  <2>2. CASE todo' = todo /\ d \in Pends /\ Len(d) = 1
    <3>1. ~Answering'
      BY <1>1, <1>2, <1>3, <1>8, <2>2 DEF Answering, Live
    <3> QED BY <1>1, <1>2, <2>2, <3>1 DEF InTurn
  <2> QED BY <1>5, <2>1, <2>2
<1>14. RxRests' /\ NoSplice'
  BY <1>1, SameMessages DEF InvTransfer, RxRests
<1> QED BY <1>10, <1>11, <1>12, <1>13, <1>14 DEF InvTransfer

LEMMA StutterTransfer == InvTransfer /\ UNCHANGED vars => InvTransfer'
<1> SUFFICES ASSUME InvTransfer, UNCHANGED vars PROVE InvTransfer'
  OBVIOUS
<1>1. UNCHANGED <<pc, tx, rx, result, toEcu, ring, ecuTx, ecuRx, todo, said, heard, ncalls>>
  BY DEF vars, hostVars, ecuVars, obsVars
<1>2. Pends' = Pends
  BY <1>1 DEF Pends
<1>3. (Asking' <=> Asking) /\ (Answering' <=> Answering) /\ (Announced' <=> Announced)
  BY <1>1, <1>2 DEF Asking, Answering, Announced
<1>4. Asked' /\ Answered'
  BY <1>1, <1>2, <1>3 DEF InvTransfer, Asked, Answered
<1>5. Forewarned' /\ InTurn' /\ RxRests' /\ NoSplice'
  BY <1>1, <1>2, <1>3, SameMessages DEF InvTransfer, Forewarned, InTurn, RxRests
<1> QED BY <1>4, <1>5 DEF InvTransfer

LEMMA StepTransfer ==
  ASSUME NothingAdded, TypedAndSound, InvTransfer,
         [Next /\ (ncalls' # ncalls => AtRest)]_vars
  PROVE  InvTransfer'
<1>1. CASE UNCHANGED vars
  BY <1>1, StutterTransfer
<1>2. CASE Call /\ AtRest
  BY <1>2, CallTransfer
<1>3. CASE EcuAnswer
  BY <1>3, AnswerTransfer
<1>4. CASE SendFrame \/ SendFails
  BY <1>4, SendTransfer, ProceedsKeeps
<1>5. CASE AwaitFlow \/ FlowPolled \/ RecvLoop \/ PollEmpty \/ PollFails
  BY <1>5, ListenTransfer, ProceedsKeeps
<1>6. CASE RecvPolled \/ FlowFails
  BY <1>6, RecvTransfer, FlowFailsTransfer, ProceedsKeeps
<1>7. CASE EcuReceive \/ EcuFlow \/ EcuSend
  BY <1>7, EcuHearsTransfer, EcuFlowTransfer, EcuSendTransfer, ProceedsKeeps
<1>8. CASE EcuIgnores \/ EcuExpires
  BY <1>8, EcuStopsTransfer, ProceedsKeeps
<1>9. CASE Lose \/ Noise \/ Tick
  BY <1>9, LoseTransfer, NoiseTransfer, TickTransfer, ProceedsKeeps
<1>10. ~Repeat
  BY DEF NothingAdded, Repeat, Fault
<1>11. Call => ncalls' # ncalls
  BY Numbers DEF Call
<1> QED BY <1>1, <1>2, <1>3, <1>4, <1>5, <1>6, <1>7, <1>8, <1>9, <1>10, <1>11 DEF Next

\* Called at rest, over a bus that loses and delays frames but adds none with
\* data, either side reassembles whole messages only: whatever the lengths,
\* block sizes and STmin, whichever frames are lost and however late the rest
\* come, since no frame after a gap completes the message and every message
\* begins from nothing (machine.rs:309-396).
THEOREM NoSpliceAlways ==
  ASSUME NothingAdded
  PROVE  CalmSpec => []NoSplice
<1>1. Init => TypedAndSound /\ InvTransfer
  BY InitTyped, InitTransfer
<1>2. ASSUME TypedAndSound, InvTransfer, [Next /\ (ncalls' # ncalls => AtRest)]_vars
      PROVE  TypedAndSound' /\ InvTransfer'
  <2>1. [Next]_vars
    BY <1>2
  <2> QED BY <1>2, <2>1, StepTyped, StepTransfer
<1>3. InvTransfer => NoSplice
  BY DEF InvTransfer
<1> QED BY <1>1, <1>2, <1>3, PTL DEF CalmSpec

-----------------------------------------------------------------------------
(* The host path implements IsoTpService.                                   *)

Served == [Service!Next]_Service!vars

LEMMA Stands ==
  ASSUME UNCHANGED <<pc, said, result>>
  PROVE  Served
BY DEF Served, Service!vars

\* A step of a call that goes on, fails, or ends with nothing to hand over.
LEMMA Turns ==
  ASSUME pc # "idle",
         \/ pc' # "idle" /\ UNCHANGED <<said, result>>
         \/ /\ pc' = "idle" /\ said' = said
            /\ \E e : e # "none" /\ result' = [err |-> e, data |-> << >>]
  PROVE  Served
<1>1. CASE pc' # "idle" /\ UNCHANGED <<said, result>>
  BY <1>1 DEF Served, Service!vars
<1>2. ASSUME NEW e, e # "none", result' = [err |-> e, data |-> << >>],
             pc' = "idle", said' = said
      PROVE  Served
  <2>1. CASE e = "ok"
    BY <1>2, <2>1 DEF Served, Service!Next, Service!Sent
  <2>2. CASE e # "ok"
    BY <1>2, <2>2 DEF Served, Service!Next, Service!Fail
  <2> QED BY <2>1, <2>2
<1> QED BY <1>1, <1>2

LEMMA HostServed ==
  ASSUME TypedAndSound,
         SendFrame \/ SendFails \/ AwaitFlow \/ FlowPolled \/ RecvLoop \/ PollEmpty
           \/ PollFails \/ FlowFails
  PROVE  Served
<1> DEFINE o == TxOnFrame(tx, Head(ring))
<1>1. pc # "idle"
  BY DEF SendFrame, SendFails, AwaitFlow, FlowPolled, RecvLoop, PollEmpty, PollFails,
         FlowFails, Polling
<1>2. FlowPolled => o.err # "none"
  <2> SUFFICES ASSUME FlowPolled PROVE o.err # "none"
    OBVIOUS
  <2>1. Head(ring) \in Frames
    BY Parts, TailTyped DEF FlowPolled
  <2>2. o.err \in {"ok"} \cup Errors
    BY <2>1, Parts, TxOnFrameTyped, MachineAssumption
  <2> HIDE DEF o
  <2> QED BY <2>2 DEF Errors
<1> HIDE DEF o
<1>3. \/ \E l, t, r : l # "idle" /\ Continue(l, t, r)
      \/ StartRecv
      \/ \E e : e # "none" /\ Return(e, << >>)
  <2>1. CASE SendFrame
    BY <2>1 DEF SendFrame, Panic
  <2>2. CASE FlowPolled
    <3>1. \/ Panic \/ Return(o.err, << >>) \/ Continue("send", o.tx, rx)
      BY <2>2 DEF FlowPolled, o
    <3> QED BY <1>2, <2>2, <3>1 DEF Panic
  <2>3. CASE AwaitFlow \/ RecvLoop \/ PollEmpty
    <3>1. \/ Return("FcTimeout", << >>) \/ Return("CfTimeout", << >>)
          \/ Return("Timeout", << >>)
          \/ \E l \in {"send", "recv", "fcpoll", "rxpoll"} : Continue(l, tx, rx)
      BY <2>3 DEF AwaitFlow, RecvLoop, PollEmpty
    <3> QED BY <3>1
  <2>4. CASE SendFails \/ PollFails \/ FlowFails
    <3>1. Return("Link", << >>)
      BY <2>4 DEF SendFails, PollFails, FlowFails
    <3> QED BY <3>1
  <2> QED BY <2>1, <2>2, <2>3, <2>4
<1>4. CASE \E l, t, r : l # "idle" /\ Continue(l, t, r)
  BY <1>1, <1>4, Turns DEF Continue
<1>5. CASE StartRecv
  BY <1>1, <1>5, Turns DEF StartRecv
<1>6. CASE \E e : e # "none" /\ Return(e, << >>)
  BY <1>1, <1>6, Turns DEF Return
<1> QED BY <1>3, <1>4, <1>5, <1>6

LEMMA RecvServed ==
  ASSUME TypedAndSound, InvTransfer, RecvPolled
  PROVE  Served
<1> DEFINE o == RxOnFrame(rx, Head(ring))
<1>1. pc # "idle" /\ ring # << >>
  BY DEF RecvPolled
<1>2. \/ \E l, t, r : l # "idle" /\ Continue(l, t, r)
      \/ o.ev = "done" /\ Received(o.out)
      \/ o.ev \notin {"panic", "done", "fc", "continue"} /\ Return(o.ev, << >>)
  BY DEF RecvPolled, Panic
<1>3. o.ev \in {"fc", "continue", "done", "panic", "Malformed", "Sequence"}
  <2>1. Head(ring) \in Frames
    BY <1>1, Parts, TailTyped
  <2>2. RxFine(o)
    BY <2>1, Parts, RxOnFrameFine, MachineAssumption
  <2> QED BY <2>2 DEF RxFine
<1>4. o.ev = "done" => /\ o.out # << >> /\ Request(o.out) = ncalls
                       /\ \E k \in DOMAIN said : said[k] = o.out
  BY <1>1, Delivered
<1> HIDE DEF o
<1>5. CASE \E l, t, r : l # "idle" /\ Continue(l, t, r)
  BY <1>1, <1>5, Turns DEF Continue
<1>6. CASE o.ev \notin {"panic", "done", "fc", "continue"} /\ Return(o.ev, << >>)
  BY <1>1, <1>3, <1>6, Turns DEF Return
<1>7. CASE o.ev = "done" /\ StartRecv
  BY <1>1, <1>7, Turns DEF StartRecv
<1>8. CASE o.ev = "done" /\ Return("ok", o.out)
  <2> DEFINE k == CHOOSE i \in DOMAIN said : said[i] = o.out
  <2>1. k \in DOMAIN said /\ said[k] = o.out
    BY <1>4, <1>8
  <2>2. k \in Nat
    BY <2>1, LenProperties DEF TypedAndSound, HostType
  <2>3. said' = SubSeq(said, 1 + k, Len(said))
    BY <1>4, <1>8 DEF Return, After
  <2> HIDE DEF k
  <2>4. said' = SubSeq(said, k + 1, Len(said))
    BY <2>2, <2>3
  <2>5. pc' = "idle" /\ result' = [err |-> "ok", data |-> said[k]]
    BY <1>8, <2>1 DEF Return
  <2>6. Service!Deliver
    BY <1>1, <2>1, <2>4, <2>5 DEF Service!Deliver
  <2> QED BY <2>6 DEF Served, Service!Next
<1> QED BY <1>2, <1>5, <1>6, <1>7, <1>8 DEF Received

LEMMA CallServed ==
  ASSUME Call
  PROVE  Served
<1>1. pc = "idle"
  BY DEF Call
<1>2. CASE pc' # "idle" /\ UNCHANGED <<said, result>>
  BY <1>1, <1>2 DEF Served, Service!Next, Service!Call
<1>3. ASSUME NEW e \in {"Malformed", "PayloadTooLong"}, Return(e, << >>)
      PROVE  Served
  <2>1. Service!Fail
    BY <1>3 DEF Return, Service!Fail
  <2> QED BY <2>1 DEF Served, Service!Next
<1>4. \/ pc' # "idle" /\ UNCHANGED <<said, result>>
      \/ \E e \in {"Malformed", "PayloadTooLong"} : Return(e, << >>)
  BY DEF Call
<1> QED BY <1>2, <1>3, <1>4

LEMMA AnswerServed ==
  ASSUME TypedAndSound, EcuAnswer
  PROVE  Served
<1>1. UNCHANGED <<pc, result>>
  BY DEF EcuAnswer, hostVars
<1>2. said \in Seq(Seq(Bytes)) /\ todo \in Nat
  BY DEF TypedAndSound, HostType, EcuType
<1>3. PICK d \in Seq(Bytes) : said' = Append(said, d)
  <2>1. PICK len \in AnswerLens :
      \/ said' = Append(said, Message("resp", todo, len))
      \/ said' = Append(said, Message("pend", todo, 1))
    BY DEF EcuAnswer
  <2>2. /\ Message("resp", todo, len) \in Seq(Bytes)
        /\ Message("pend", todo, 1) \in Seq(Bytes)
    BY <1>2, IsoTpAssumption, CallConstants, MessageTyped
  <2> QED BY <2>1, <2>2
<1>4. Len(said') = Len(said) + 1 /\ SubSeq(said', 1, Len(said)) = said
  BY <1>2, <1>3, AppendProperties
<1>5. Service!Say
  BY <1>1, <1>4 DEF Service!Say
<1> QED BY <1>1, <1>5 DEF Served, Service!Next

LEMMA StepServed ==
  ASSUME TypedAndSound, InvTransfer, [Next]_vars
  PROVE  Served
<1>1. CASE UNCHANGED vars
  BY <1>1, Stands DEF vars, hostVars, obsVars
<1>2. CASE Call \/ EcuAnswer
  BY <1>2, CallServed, AnswerServed
<1>3. CASE \/ SendFrame \/ SendFails \/ AwaitFlow \/ FlowPolled \/ RecvLoop \/ PollEmpty
           \/ PollFails \/ FlowFails
  BY <1>3, HostServed
<1>4. CASE RecvPolled
  BY <1>4, RecvServed
<1>5. CASE EcuReceive \/ EcuFlow \/ EcuIgnores \/ EcuSend \/ EcuExpires
  <2>1. UNCHANGED <<pc, said, result>>
    BY <1>5 DEF EcuReceive, EcuFlow, EcuIgnores, EcuSend, EcuExpires, hostVars, obsVars
  <2> QED BY <2>1, Stands
<1>6. CASE Lose \/ Repeat \/ Noise \/ Tick
  <2>1. UNCHANGED <<pc, said, result>>
    BY <1>6 DEF Lose, Repeat, Noise, Tick, hostVars, obsVars
  <2> QED BY <2>1, Stands
<1> QED BY <1>1, <1>2, <1>3, <1>4, <1>5, <1>6 DEF Next

LEMMA CalmStep ==
  ASSUME NothingAdded, TypedAndSound, InvTransfer,
         [Next /\ (ncalls' # ncalls => AtRest)]_vars
  PROVE  TypedAndSound' /\ InvTransfer' /\ Served
<1>1. [Next]_vars
  OBVIOUS
<1> QED BY <1>1, StepTyped, StepTransfer, StepServed

LEMMA CalmInit == Init => TypedAndSound /\ InvTransfer /\ Service!Init
<1>1. Init => Service!Init
  BY DEF Init, Service!Init, NoResult
<1> QED BY <1>1, InitTyped, InitTransfer

\* The host path implements IsoTpService: a call made at rest ends with an
\* error or with one whole message of the ECU, each message at most once and in
\* the order in which the ECU began them (mod.rs:310-396).
THEOREM HostPathServes ==
  ASSUME NothingAdded
  PROVE  CalmSpec => ServiceSpec
BY CalmInit, CalmStep, PTL DEF CalmSpec, ServiceSpec, Service!Spec, Served

-----------------------------------------------------------------------------
(* When nothing goes wrong, every call succeeds.                            *)
(*                                                                          *)
(* As long as nothing is lost or ignored the two ends of a transfer are in  *)
(* step: the receiver has the frames before the k-th, those from the k-th   *)
(* on stand in the queue, and the sender is right behind them.  The two     *)
(* count the same frames of a block, the pause before the next frame is     *)
(* shorter than N_Cr, and what the pauses take of the caller's time is at   *)
(* most one STmin for every frame sent.                                     *)

\* Everybody is quick and the constants leave room: nobody is late or refuses,
\* the block sizes and STmin fit the counters, N_Cr and the deadline, and the
\* ring holds what comes before the caller can take it.
Leeway ==
  /\ Prompt /\ "late" \notin FaultKinds /\ EcuFlows \subseteq {"cts"}
  /\ Ops \subseteq {"request"} /\ RequestLens \subseteq 1..MaxPayload
  /\ HostBs < CounterMod /\ EcuBs < CounterMod
  /\ OverflowChecks => HostBs # 0 /\ EcuBs # 0
  /\ decode_stmin(HostStMin) <= NCr /\ decode_stmin(EcuStMin) <= NCr
  /\ MaxPends <= MaxPending /\ MaxPends < RingCap
  /\ \A n \in AnswerLens :
       /\ n * decode_stmin(HostStMin) < FrameData * RecvTimeout
       /\ HostBs \in 1..RingCap \/ n < (RingCap + 1) * FrameData

\* The bytes before consecutive frame j.
Offset(j) == j * FrameData - 1

\* Frame j of P.
Piece(f, P, j) == f.pci = "CF" /\ f.sn = j % SnMod /\ Part(f, P, Offset(j))

\* The receiver has all frames of P before the k-th.
Has(r, P, k) ==
  /\ r.st = "receiving" /\ r.ffdl = Len(P) /\ r.sn = k % SnMod
  /\ Offset(k) < Len(P) /\ r.buf = SubSeq(P, 1, Offset(k))

\* The sender has sent all frames of P before the j-th.
Sending(t, P, j) ==
  t.payload = P /\ t.sn = j % SnMod /\ t.offset = Offset(j) /\ Offset(j) < Len(P)

Row(q, P, k) == \A i \in DOMAIN q : Piece(q[i], P, k + i - 1)

\* A sender that goes on, one that waits for a grant, one that is done.
Streams(t, q, r, P, j) ==
  /\ t.st = "cons" /\ Sending(t, P, j)
  /\ t.bs = r.bs /\ (r.bs # 0 => t.cfs = r.cfs + Len(q) /\ t.cfs < r.bs)
  /\ t.timer <= t.stmin /\ t.stmin <= NCr
  /\ q = << >> => t.timer <= r.timer

Pauses(t, q, r, P, j) ==
  /\ t.st = "await" /\ Sending(t, P, j) /\ t.timer = NBs
  /\ IF q = << >> THEN r.cfs = 0 ELSE r.bs # 0 /\ r.cfs + Len(q) = r.bs

Finished(t, q, r, P, j) ==
  /\ t.st = "done" /\ q # << >> /\ Offset(j) >= Len(P)
  /\ r.bs # 0 => r.cfs + Len(q) <= r.bs

Stage(t, q, r, P, k) ==
  /\ Has(r, P, k) /\ Row(q, P, k)
  /\ \/ Streams(t, q, r, P, k + Len(q))
     \/ Pauses(t, q, r, P, k + Len(q))
     \/ Finished(t, q, r, P, k + Len(q))

\* P is under way; granted: a grant is owed or on its way.
Underway(t, q, r, P, granted) ==
  /\ Numbered(P) /\ Len(P) > FrameData
  /\ r.timer >= 0 /\ granted = (t.st = "await" /\ q = << >>)
  /\ \E k \in Nat \ {0} : Stage(t, q, r, P, k)

Unsent(t, P) ==
  /\ Numbered(P) /\ t.payload = P /\ t.offset = 0
  /\ t.st = IF Len(P) <= FrameData THEN "single" ELSE "first"

\* The first frame f of P is on its way.
Opened(t, f, P) ==
  /\ Numbered(P)
  /\ \/ t.st = "done" /\ Single(f, P)
     \/ /\ t.st = "await" /\ t.timer = NBs /\ Sending(t, P, 1)
        /\ f.pci = "FF" /\ Part(f, P, 0)

-----------------------------------------------------------------------------
(* Offsets and sequence numbers.                                            *)

LEMMA DivMod ==
  ASSUME NEW a \in Nat, NEW m \in Nat, m >= 2
  PROVE  a \div m \in Int /\ a = m * (a \div m) + (a % m) /\ a % m \in 0..(m-1)
  OBVIOUS

LEMMA Bigger ==
  ASSUME NEW p \in Int, NEW q \in Int, NEW m \in Nat, p + 1 <= q
  PROVE  m * p + m <= m * q
<1>1. PICK d \in Nat : q = p + 1 + d
  BY q - p - 1 \in Nat /\ q = p + 1 + (q - p - 1)
<1>2. m * q = m * p + m + m * d /\ m * d \in Nat /\ m * p \in Int
  BY <1>1
<1> QED BY <1>2

\* A number has one remainder.
LEMMA OneRemainder ==
  ASSUME NEW p \in Int, NEW q \in Int, NEW m \in Nat, NEW x \in 0..(m-1), NEW y \in 0..(m-1),
         m * p + x = m * q + y
  PROVE  x = y
<1>0. m * p \in Int /\ m * q \in Int
  OBVIOUS
<1>1. CASE p + 1 <= q
  <2>1. m * p + m <= m * q
    BY <1>1, Bigger
  <2> QED BY <1>0, <2>1
<1>2. CASE q + 1 <= p
  <2>1. m * q + m <= m * p
    BY <1>2, Bigger
  <2> QED BY <1>0, <2>1
<1>3. CASE p = q
  BY <1>0, <1>3
<1> QED BY <1>1, <1>2, <1>3

\* The sequence number after a wrapped one.
LEMMA ModNext ==
  ASSUME NEW a \in Nat, NEW m \in Nat, m >= 2
  PROVE  ((a % m) + 1) % m = (a + 1) % m
<1> DEFINE p == a \div m
           r == a % m
           q == (a + 1) \div m
           s == (a + 1) % m
           u == (r + 1) \div m
           v == (r + 1) % m
<1>1. p \in Int /\ a = m * p + r /\ r \in 0..(m - 1)
  BY DivMod
<1>2. q \in Int /\ a + 1 = m * q + s /\ s \in 0..(m - 1)
  BY DivMod
<1>3. u \in Int /\ r + 1 = m * u + v /\ v \in 0..(m - 1)
  BY <1>1, DivMod
<1> HIDE DEF p, r, q, s, u, v
<1>4. m * (p + u) = m * p + m * u /\ m * p \in Int /\ m * u \in Int /\ m * q \in Int
  BY <1>1, <1>2, <1>3
<1>5. m * (p + u) + v = m * q + s /\ p + u \in Int
  BY <1>1, <1>2, <1>3, <1>4
<1>6. v = s
  BY <1>2, <1>3, <1>5, OneRemainder
<1> QED BY <1>6 DEF r, s, v

LEMMA OffsetNext ==
  ASSUME NEW j \in Nat \ {0}
  PROVE  /\ Offset(j) \in Nat /\ Offset(j) >= FrameData - 1
         /\ Offset(j + 1) = Offset(j) + FrameData /\ Offset(1) = FrameData - 1
         /\ FrameData \in Nat /\ FrameData >= 2 /\ j + 1 \in Nat \ {0}
<1> DEFINE F == FrameData
<1>1. F \in Nat /\ F >= 2
  BY Constants, MachineAssumption
<1> HIDE DEF F
<1>2. (j + 1) * F = j * F + F /\ 1 * F = F
  BY <1>1
<1>3. PICK i \in Nat : j = i + 1
  BY j - 1 \in Nat /\ j = (j - 1) + 1
<1>4. j * F = i * F + F /\ i * F \in Nat
  BY <1>1, <1>3
<1> QED BY <1>1, <1>2, <1>4 DEF Offset, F

LEMMA OffsetGrows ==
  ASSUME NEW i \in Nat \ {0}, NEW j \in Nat \ {0}, i <= j
  PROVE  Offset(i) <= Offset(j)
<1> DEFINE F == FrameData
<1>1. F \in Nat /\ F >= 2
  BY Constants, MachineAssumption
<1> HIDE DEF F
<1>2. PICK d \in Nat : j = i + d
  BY j - i \in Nat /\ j = i + (j - i)
<1>3. j * F = i * F + d * F /\ i * F \in Nat /\ d * F \in Nat
  BY <1>1, <1>2
<1> QED BY <1>1, <1>3 DEF Offset, F

LEMMA NextNumber ==
  ASSUME NEW j \in Nat
  PROVE  ((j % SnMod) + 1) % SnMod = (j + 1) % SnMod
BY ModNext, Constants, MachineAssumption

-----------------------------------------------------------------------------
(* What the sender sends.                                                   *)

LEMMA StepsDown ==
  ASSUME NEW t \in TxMachines, TxReady(t)
  PROVE  TxSent(t).checked = t.checked
<1>1. CASE t.st \in {"single", "first"}
  BY <1>1 DEF TxSent, AwaitFc, TxMachines
<1>2. CASE t.st = "cons"
  <2> DEFINE n == [t EXCEPT !.offset = @ + Len(Chunk(t)), !.sn = (@ + 1) % SnMod]
             c == [n EXCEPT !.cfs = Increment(@)]
  <2>1. TxSent(t) =
          IF n.offset >= Len(n.payload) THEN [n EXCEPT !.st = "done", !.timer = 0]
          ELSE IF Overflows(n, n.cfs) THEN [n EXCEPT !.st = "panic"]
          ELSE IF c.bs # 0 /\ c.cfs >= c.bs THEN AwaitFc(c)
          ELSE [c EXCEPT !.timer = c.stmin]
    BY <1>2 DEF TxSent, TxAfterCF
  <2>2. n.checked = t.checked /\ c.checked = t.checked
    BY DEF TxMachines
  <2> HIDE DEF n, c
  <2> QED BY <2>1, <2>2 DEF AwaitFc
<1> QED BY <1>1, <1>2 DEF TxReady

LEMMA SendsSingle ==
  ASSUME NEW t \in TxMachines, NEW P, Unsent(t, P), t.st = "single"
  PROVE  TxSent(t).st = "done" /\ Single(TxFrame(t), P) /\ Numbered(P)
<1>1. TxFrame(t) = [pci |-> "SF", len |-> Len(t.payload), data |-> pad(t.payload)]
  BY DEF TxFrame
<1>2. TxSent(t).st = "done"
  BY DEF TxSent, TxMachines
<1> QED BY <1>1, <1>2 DEF Unsent, Single

LEMMA SendsFirst ==
  ASSUME NEW t \in TxMachines, NEW P, Unsent(t, P), t.st = "first"
  PROVE  Opened(TxSent(t), TxFrame(t), P) /\ TxSent(t).st = "await"
<1>1. /\ TxFrame(t).pci = "FF" /\ TxFrame(t).len = Len(t.payload)
      /\ TxFrame(t).data = SubSeq(t.payload, 1, FrameData - 1)
  BY FirstFields
<1>2. t.payload = P /\ Numbered(P) /\ ~(Len(P) <= FrameData) /\ Len(P) \in Nat
  BY LenProperties DEF Unsent, Numbered
<1>3. /\ TxSent(t).st = "await" /\ TxSent(t).timer = NBs /\ TxSent(t).payload = P
      /\ TxSent(t).offset = FrameData - 1
  BY <1>2, FirstSent, MachineAssumption
<1>4. TxSent(t).sn = 1 % SnMod
  BY DEF TxSent, AwaitFc, TxMachines
<1>5. Part(TxFrame(t), P, 0)
  <2>1. Len(P) > FrameData
    BY <1>2, Constants, MachineAssumption
  <2>2. TxFrame(t).len = Len(P) /\ TxFrame(t).data = SubSeq(P, 1, FrameData - 1)
    BY <1>1, <1>2, Zenon
  <2> QED BY <1>1, <2>1, <2>2, Zenon DEF Part
<1>6. Offset(1) = FrameData - 1 /\ FrameData - 1 < Len(P)
  BY <1>2, OffsetNext, Constants, MachineAssumption
<1>7. Sending(TxSent(t), P, 1)
  BY <1>3, <1>4, <1>6 DEF Sending
<1> QED BY <1>1, <1>2, <1>3, <1>5, <1>7, Zenon DEF Opened

LEMMA TxBlock ==
  ASSUME NEW t \in TxMachines
  PROVE  t.bs \in Nat
<1>1. t.bs \in Byte8
  BY DEF TxMachines
<1> QED BY <1>1 DEF Byte8

\* A sender in step goes on with the next frame, pauses at the end of the
\* block, and is done after the last one.
GoesOn(u, t, P, j) ==
  IF Offset(j + 1) >= Len(P) THEN u.st = "done"
  ELSE /\ Sending(u, P, j + 1) /\ u.bs = t.bs /\ u.stmin = t.stmin
       /\ u.bs # 0 => u.cfs = t.cfs + 1
       /\ IF u.bs # 0 /\ u.cfs >= u.bs
          THEN u.st = "await" /\ u.timer = NBs
          ELSE u.st = "cons" /\ u.timer = u.stmin

LEMMA ChunkEnds ==
  ASSUME NEW t \in TxMachines, TxSound(t), t.st = "cons", NEW P, Numbered(P),
         NEW j \in Nat \ {0}, Sending(t, P, j)
  PROVE  LET o == t.offset + Len(Chunk(t))
         IN  /\ o \in Nat
             /\ Offset(j + 1) >= Len(P) => o >= Len(P)
             /\ ~(Offset(j + 1) >= Len(P)) => o = Offset(j + 1) /\ ~(o >= Len(P))
<1>1. /\ Len(Chunk(t)) = Least(FrameData, Len(t.payload) - t.offset)
      /\ t.offset \in Nat /\ Len(P) \in Nat /\ t.payload = P /\ t.offset = Offset(j)
      /\ t.offset < Len(P)
  <2>1. t.payload = P /\ t.offset = Offset(j) /\ t.offset < Len(P)
    BY DEF Sending
  <2> QED BY <2>1, ChunkLength, TxFields, LenProperties, MachineAssumption DEF Numbered
<1>2. /\ FrameData \in Nat /\ Offset(j + 1) = Offset(j) + FrameData /\ FrameData >= 2
  BY OffsetNext
<1> QED BY <1>1, <1>2 DEF Least

LEMMA SendsOn ==
  ASSUME NEW t \in TxMachines, TxSound(t), t.st = "cons", NEW P, Numbered(P),
         NEW j \in Nat \ {0}, Sending(t, P, j),
         t.checked => t.bs # 0, t.bs # 0 => t.cfs < t.bs /\ t.bs < CounterMod
  PROVE  GoesOn(TxSent(t), t, P, j)
<1> DEFINE o == t.offset + Len(Chunk(t))
           s == (t.sn + 1) % SnMod
           i == Increment(t.cfs)
           n == [t EXCEPT !.offset = o, !.sn = s]
           c == [n EXCEPT !.cfs = i]
<1>0. /\ t.bs \in Nat /\ t.cfs \in Nat /\ t.sn = j % SnMod /\ t.payload = P
      /\ CounterMod \in Nat /\ CounterMod >= 2
  <2>1. t.bs \in Nat
    BY TxBlock
  <2>2. t.cfs \in Nat /\ CounterMod \in Nat /\ CounterMod >= 2
    BY TxFields, Constants, MachineAssumption
  <2> QED BY <2>1, <2>2 DEF Sending
<1>1. TxSent(t) =
        IF n.offset >= Len(n.payload) THEN [n EXCEPT !.st = "done", !.timer = 0]
        ELSE IF Overflows(n, n.cfs) THEN [n EXCEPT !.st = "panic"]
        ELSE IF c.bs # 0 /\ c.cfs >= c.bs THEN AwaitFc(c)
        ELSE [c EXCEPT !.timer = c.stmin]
  <2>1. n.cfs = t.cfs /\ n = [t EXCEPT !.offset = @ + Len(Chunk(t)), !.sn = (@ + 1) % SnMod]
    BY DEF TxMachines
  <2>2. c = [n EXCEPT !.cfs = Increment(@)]
    BY <2>1 DEF TxMachines
  <2> QED BY <2>1, <2>2 DEF TxSent, TxAfterCF
<1>2. /\ o \in Nat
      /\ Offset(j + 1) >= Len(P) => o >= Len(P)
      /\ ~(Offset(j + 1) >= Len(P)) => o = Offset(j + 1) /\ ~(o >= Len(P))
  BY ChunkEnds
<1>3. s = (j + 1) % SnMod
  BY <1>0, NextNumber
<1>4. t.bs # 0 => i = t.cfs + 1 /\ t.cfs + 1 # CounterMod
  BY <1>0 DEF Increment
<1> HIDE DEF o, s, i
<1>5. /\ n.offset = o /\ n.payload = P /\ n.bs = t.bs /\ n.sn = s /\ n.stmin = t.stmin
      /\ n.cfs = t.cfs /\ n.st = "cons" /\ n.checked = t.checked /\ DOMAIN n = DOMAIN t
  BY <1>0 DEF TxMachines
<1>6. /\ c.offset = o /\ c.payload = P /\ c.bs = t.bs /\ c.sn = s /\ c.stmin = t.stmin
      /\ c.cfs = i /\ c.st = "cons" /\ DOMAIN c = DOMAIN t
  BY <1>0 DEF TxMachines
<1>7. {"st", "offset", "payload", "bs", "cfs", "timer", "sn", "stmin"} \subseteq DOMAIN t
  BY DEF TxMachines
<1> HIDE DEF n, c
<1>8. CASE Offset(j + 1) >= Len(P)
  <2>1. TxSent(t) = [n EXCEPT !.st = "done", !.timer = 0]
    BY <1>1, <1>2, <1>5, <1>8
  <2>2. TxSent(t).st = "done"
    BY <1>5, <1>7, <2>1
  <2> QED BY <1>8, <2>2 DEF GoesOn
<1>9. CASE ~(Offset(j + 1) >= Len(P))
  <2>1. ~Overflows(n, n.cfs)
    BY <1>4, <1>5 DEF Overflows
  <2>2. o = Offset(j + 1) /\ ~(n.offset >= Len(n.payload)) /\ Offset(j + 1) < Len(P)
    <3>1. Offset(j + 1) \in Nat /\ Len(P) \in Nat
      BY OffsetNext, LenProperties DEF Numbered
    <3> QED BY <1>2, <1>5, <1>9, <3>1
  <2>3. CASE c.bs # 0 /\ c.cfs >= c.bs
    <3>1. TxSent(t) = AwaitFc(c)
      BY <1>1, <2>1, <2>2, <2>3
    <3>2. /\ AwaitFc(c).payload = P /\ AwaitFc(c).offset = o /\ AwaitFc(c).sn = s
          /\ AwaitFc(c).bs = t.bs /\ AwaitFc(c).cfs = i /\ AwaitFc(c).stmin = t.stmin
          /\ AwaitFc(c).st = "await" /\ AwaitFc(c).timer = NBs
      BY <1>6, <1>7 DEF AwaitFc
    <3> QED BY <1>3, <1>4, <1>6, <1>9, <2>2, <2>3, <3>1, <3>2 DEF GoesOn, Sending
  <2>4. CASE ~(c.bs # 0 /\ c.cfs >= c.bs)
    <3> DEFINE v == [c EXCEPT !.timer = c.stmin]
    <3>1. TxSent(t) = v
      BY <1>1, <2>1, <2>2, <2>4
    <3>2. /\ v.payload = P /\ v.offset = o /\ v.sn = s
          /\ v.bs = t.bs /\ v.cfs = i /\ v.stmin = t.stmin
          /\ v.st = "cons" /\ v.timer = t.stmin
      BY <1>6, <1>7
    <3> HIDE DEF v
    <3> QED BY <1>3, <1>4, <1>6, <1>9, <2>2, <2>4, <3>1, <3>2 DEF GoesOn, Sending
  <2> QED BY <2>3, <2>4
<1> QED BY <1>8, <1>9

LEMMA SendsPiece ==
  ASSUME NEW t \in TxMachines, TxSound(t), t.st = "cons", t.timer = 0, NEW P, Numbered(P),
         Len(P) > FrameData, NEW j \in Nat \ {0}, Sending(t, P, j)
  PROVE  Piece(TxFrame(t), P, j)
<1>1. Own(t, {}) /\ TxReady(t)
  BY DEF Own, TxReady
<1>2. t.payload = P /\ t.offset = Offset(j) /\ t.sn = j % SnMod
  BY DEF Sending
<1>3. Placed(t, P)
  BY <1>2, OffsetNext DEF Placed
<1>4. Part(TxFrame(t), P, Offset(j))
  BY <1>1, <1>2, <1>3, SentPart
<1>5. TxFrame(t) = [pci |-> "CF", sn |-> t.sn, data |-> pad(Chunk(t))]
  BY DEF TxFrame
<1>6. TxFrame(t).pci = "CF" /\ TxFrame(t).sn = t.sn
  BY <1>5
<1> QED BY <1>2, <1>4, <1>6 DEF Piece

-----------------------------------------------------------------------------
(* What the receiver makes of it.                                           *)

\* The buffer after the next frame.
LEMMA BufferGrows ==
  ASSUME NEW r \in RxMachines, NEW P, Numbered(P), Len(P) > FrameData,
         NEW k \in Nat \ {0}, Has(r, P, k), NEW f, Piece(f, P, k)
  PROVE  LET miss == r.ffdl - Len(r.buf)
             take == Least(Least(miss, FrameData), Len(f.data))
             buf  == r.buf \o SubSeq(f.data, 1, take)
         IN  IF Offset(k + 1) >= Len(P)
             THEN Len(buf) >= r.ffdl /\ SubSeq(buf, 1, r.ffdl) = P
             ELSE ~(Len(buf) >= r.ffdl) /\ buf = SubSeq(P, 1, Offset(k + 1))
<1> DEFINE o == Offset(k)
           miss == r.ffdl - Len(r.buf)
           held == Len(f.data)
           take == Least(Least(miss, FrameData), held)
           buf  == r.buf \o SubSeq(f.data, 1, take)
           m == Least(FrameData, Len(P) - o)
           d == SubSeq(P, o + 1, o + m)
<1>1. P \in Seq(Bytes) /\ Len(P) \in Nat
  BY LenProperties DEF Numbered
<1>2. /\ o \in Nat /\ o >= FrameData - 1 /\ Offset(k + 1) = o + FrameData
      /\ FrameData \in Nat /\ FrameData >= 2
  BY OffsetNext
<1>3. /\ r.ffdl = Len(P) /\ o < Len(P) /\ r.buf = SubSeq(P, 1, o)
  BY DEF Has
<1>4. f.pci = "CF" /\ f.data = pad(d)
  BY Zenon DEF Piece, Part
<1> HIDE DEF o
<1>5. m \in Nat /\ m <= FrameData /\ o + m <= Len(P) /\ (m < FrameData => o + m = Len(P))
  BY <1>1, <1>2, <1>3 DEF Least
<1>6. d \in Seq(Bytes) /\ Len(d) = m
  BY <1>2, <1>3, PieceOf
<1>7. f.data \in Seq(Bytes) /\ held \in Nat /\ held >= m /\ SubSeq(f.data, 1, m) = d
  <2> HIDE DEF d, m
  <2>1. pad(d) \in Seq(Bytes)
    BY <1>6, PadTyped, IsoTpAssumption, MachineAssumption
  <2>2. Len(d) \in 0..Len(d)
    BY <1>5, <1>6
  <2>3. /\ SubSeq(pad(d), 1, Len(d)) = SubSeq(d, 1, Len(d))
        /\ Len(pad(d)) \in Nat /\ Len(pad(d)) >= Len(d)
    BY <1>6, <2>2, PadPrefix, IsoTpAssumption, MachineAssumption
  <2>4. SubSeq(d, 1, Len(d)) = d
    BY <1>6, SubSeqFull
  <2> QED BY <1>4, <1>6, <2>1, <2>3, <2>4
<1>8. r.buf \in Seq(Bytes) /\ Len(r.buf) = o
  <2>1. o \in 0..Len(P)
    BY <1>1, <1>2, <1>3
  <2> QED BY <1>1, <1>3, <2>1, SubSeqTyped
<1>9. miss = Len(P) - o /\ miss \in Nat
  BY <1>1, <1>2, <1>3, <1>8
<1>10. take = m
  <2> HIDE DEF miss, held
  <2>1. m = Least(FrameData, miss)
    BY <1>9
  <2> QED BY <1>2, <1>7, <1>9, <2>1, TakesPiece
<1>11. buf = SubSeq(P, 1, o + m) /\ Len(buf) = o + m
  <2>1. SubSeq(f.data, 1, take) = d
    BY <1>7, <1>10
  <2>2. buf = SubSeq(P, 1, o) \o SubSeq(P, o + 1, o + m)
    BY <1>3, <2>1, Zenon
  <2> HIDE DEF buf, m
  <2>3. buf = SubSeq(P, 1, o + m)
    BY <1>1, <1>2, <1>5, <2>2, Joined
  <2>4. o + m \in 0..Len(P)
    BY <1>1, <1>2, <1>5
  <2> QED BY <1>1, <2>3, <2>4, SubSeqTyped
<1> HIDE DEF buf
<1>12. CASE Offset(k + 1) >= Len(P)
  <2>1. o + m = Len(P)
    <3> HIDE DEF m
    <3> QED BY <1>1, <1>2, <1>5, <1>12
  <2>2. buf = P
    BY <1>1, <1>11, <2>1, SubSeqFull
  <2>3. SubSeq(buf, 1, r.ffdl) = P
    BY <1>1, <1>3, <2>2, SubSeqFull
  <2>4. Len(buf) >= r.ffdl
    BY <1>1, <1>3, <1>11, <2>1
  <2> QED BY <1>12, <2>3, <2>4 DEF buf
<1>13. CASE ~(Offset(k + 1) >= Len(P))
  <2>1. m = FrameData
    <3> HIDE DEF m
    <3> QED BY <1>1, <1>2, <1>5, <1>13
  <2> QED BY <1>1, <1>2, <1>3, <1>11, <1>13, <2>1 DEF buf
<1> QED BY <1>12, <1>13

\* A receiver in step goes on, grants the next block, or is done.
Advances(w, r, P, k) ==
  /\ w.rx.bs = r.bs /\ w.rx.checked = r.checked
  /\ IF Offset(k + 1) >= Len(P)
     THEN w.ev = "done" /\ w.out = P /\ w.rx.st = "idle"
     ELSE /\ Has(w.rx, P, k + 1) /\ w.rx.timer = NCr
          /\ IF r.bs # 0 /\ Increment(r.cfs) >= r.bs
             THEN w.ev = "fc" /\ w.rx.cfs = 0
             ELSE w.ev = "continue" /\ w.rx.cfs = Increment(r.cfs)

LEMMA TakesInStep ==
  ASSUME NEW r \in RxMachines, NEW P, Numbered(P), Len(P) > FrameData,
         NEW k \in Nat \ {0}, Has(r, P, k), NEW f, Piece(f, P, k), ~Overflows(r, r.cfs)
  PROVE  Advances(RxOnFrame(r, f), r, P, k)
<1> DEFINE w == RxOnFrame(r, f)
           take == Least(Least(r.ffdl - Len(r.buf), FrameData), Len(f.data))
           buf  == r.buf \o SubSeq(f.data, 1, take)
           sn   == (f.sn + 1) % SnMod
           more == [r EXCEPT !.buf = buf, !.sn = sn, !.timer = NCr]
<1>1. w = RxConsecutive(r, f)
  BY DEF Piece, RxOnFrame
<1>2. f.sn = r.sn /\ r.st = "receiving" /\ r.ffdl = Len(P) /\ f.sn = k % SnMod
  BY DEF Piece, Has
<1>3. sn = (k + 1) % SnMod
  BY <1>2, NextNumber
<1>4. IF Offset(k + 1) >= Len(P)
      THEN Len(buf) >= r.ffdl /\ SubSeq(buf, 1, r.ffdl) = P
      ELSE ~(Len(buf) >= r.ffdl) /\ buf = SubSeq(P, 1, Offset(k + 1))
  BY BufferGrows
<1>5. CASE Offset(k + 1) >= Len(P)
  <2>1. w = RxDone(r, SubSeq(buf, 1, r.ffdl))
    BY <1>1, <1>2, <1>4, <1>5 DEF RxConsecutive
  <2>2. w = RxDone(r, P)
    BY <1>4, <1>5, <2>1
  <2> HIDE DEF w
  <2>3. w.ev = "done" /\ w.out = P /\ w.rx.st = "idle" /\ w.rx.bs = r.bs /\ w.rx.checked = r.checked
    BY <2>2 DEF RxDone, RxNew
  <2> QED BY <1>5, <2>3 DEF Advances, w
<1>6. CASE ~(Offset(k + 1) >= Len(P))
  <2> DEFINE n == IF r.bs # 0 /\ Increment(r.cfs) >= r.bs THEN 0 ELSE Increment(r.cfs)
             ev == IF r.bs # 0 /\ Increment(r.cfs) >= r.bs THEN "fc" ELSE "continue"
             u == [more EXCEPT !.cfs = n]
  <2>1. w = RxKeeps(u, ev)
    BY <1>1, <1>2, <1>4, <1>6 DEF RxConsecutive
  <2> HIDE DEF buf, sn, n
  <2>2. /\ more.ffdl = r.ffdl /\ more.buf = buf /\ more.sn = sn /\ more.timer = NCr
        /\ more.st = r.st /\ more.bs = r.bs /\ more.checked = r.checked
        /\ DOMAIN more = DOMAIN r
    BY DEF RxMachines
  <2>3. {"ffdl", "buf", "cfs", "sn", "timer", "st", "bs", "checked"} \subseteq DOMAIN r
    BY DEF RxMachines
  <2> HIDE DEF more
  <2>4. /\ u.ffdl = r.ffdl /\ u.buf = buf /\ u.sn = sn /\ u.timer = NCr
        /\ u.st = r.st /\ u.bs = r.bs /\ u.checked = r.checked /\ u.cfs = n
    BY <2>2, <2>3
  <2> HIDE DEF u
  <2>5. w.rx = u /\ w.ev = ev
    BY <2>1 DEF RxKeeps
  <2> HIDE DEF w
  <2>6. Offset(k + 1) < Len(P)
    BY <1>6, OffsetNext, LenProperties DEF Numbered
  <2>7. Has(u, P, k + 1)
    BY <1>2, <1>3, <1>4, <1>6, <2>4, <2>6 DEF Has
  <2>8. n = IF ev = "fc" THEN 0 ELSE Increment(r.cfs)
    BY DEF n
  <2> QED BY <1>6, <2>4, <2>5, <2>7, <2>8 DEF Advances, w, n
<1> QED BY <1>5, <1>6

\* The first frame opens a transfer.
LEMMA TakesOpening ==
  ASSUME NEW r \in RxMachines, NEW P, Numbered(P), NEW f, f.pci = "FF", Part(f, P, 0)
  PROVE  LET w == RxOnFrame(r, f)
         IN  /\ w.ev = "fc" /\ Has(w.rx, P, 1) /\ w.rx.timer = NCr /\ w.rx.cfs = 0
             /\ w.rx.bs = r.bs /\ w.rx.checked = r.checked /\ Len(P) > FrameData
<1> DEFINE n == FrameData - 1
           b == SubSeq(f.data, 1, FrameData - 1)
           s == 1 % SnMod
           u == [r EXCEPT !.st = "receiving", !.ffdl = f.len, !.buf = b,
                          !.sn = s, !.cfs = 0, !.timer = NCr]
<1>1. P \in Seq(Bytes) /\ Len(P) \in Nat
  BY LenProperties DEF Numbered
<1>2. Len(P) > FrameData /\ f.len = Len(P) /\ f.data = SubSeq(P, 1, n)
  BY DEF Part
<1>3. n \in Nat /\ n \in 0..Len(P) /\ n < Len(P) /\ FrameData \in Nat
  BY <1>1, <1>2, Constants, MachineAssumption
<1> HIDE DEF n
<1>4. f.data \in Seq(Bytes) /\ Len(f.data) = n
  BY <1>1, <1>2, <1>3, SubSeqTyped
<1>5. SubSeq(f.data, 1, n) = f.data
  BY <1>4, SubSeqFull
<1>6. b = SubSeq(P, 1, n)
  BY <1>2, <1>5 DEF n
<1>7. RxOnFrame(r, f) = RxKeeps(u, "fc")
  <2>1. ~(Len(f.data) < FrameData - 1 \/ f.len <= FrameData)
    BY <1>1, <1>2, <1>3, <1>4 DEF n
  <2> QED BY <2>1 DEF RxOnFrame, RxFirst
<1> HIDE DEF b, s
<1>8. /\ u.ffdl = f.len /\ u.buf = b /\ u.sn = s /\ u.cfs = 0 /\ u.timer = NCr
      /\ u.st = "receiving" /\ u.bs = r.bs /\ u.checked = r.checked
  BY DEF RxMachines
<1> HIDE DEF u
<1>9. RxOnFrame(r, f).rx = u /\ RxOnFrame(r, f).ev = "fc"
  BY <1>7 DEF RxKeeps
<1>10. Offset(1) = n
  BY OffsetNext DEF n
<1>11. Has(u, P, 1)
  BY <1>2, <1>3, <1>6, <1>8, <1>10 DEF Has, s
<1> QED BY <1>2, <1>8, <1>9, <1>11

-----------------------------------------------------------------------------
(* A transfer in step stays in step.                                        *)

LEMMA RowTail ==
  ASSUME NEW q \in Seq(Frames), q # << >>, NEW P, NEW k \in Nat, Row(q, P, k)
  PROVE  /\ Piece(Head(q), P, k) /\ Row(Tail(q), P, k + 1)
         /\ Len(q) \in Nat /\ Len(q) >= 1 /\ Len(Tail(q)) = Len(q) - 1
         /\ k + Len(q) = (k + 1) + Len(Tail(q))
<1>1. /\ Len(Tail(q)) = Len(q) - 1 /\ Len(q) \in Nat /\ Len(q) >= 1 /\ Head(q) = q[1]
      /\ \A i \in 1..(Len(q) - 1) : Tail(q)[i] = q[i + 1]
      /\ DOMAIN q = 1..Len(q) /\ DOMAIN Tail(q) = 1..(Len(q) - 1)
  BY TailElements
<1>2. Piece(q[1], P, k)
  <2>1. 1 \in DOMAIN q /\ k + 1 - 1 = k
    BY <1>1
  <2> QED BY <2>1, Zenon DEF Row
<1>3. ASSUME NEW i \in DOMAIN Tail(q)
      PROVE  Piece(Tail(q)[i], P, (k + 1) + i - 1)
  <2>1. /\ i + 1 \in DOMAIN q /\ Tail(q)[i] = q[i + 1]
        /\ (k + 1) + i - 1 = k + (i + 1) - 1
    BY <1>1
  <2> QED BY <2>1, Zenon DEF Row
<1> QED BY <1>1, <1>2, <1>3 DEF Row

LEMMA RowAppend ==
  ASSUME NEW q \in Seq(Frames), NEW P, NEW k \in Nat, Row(q, P, k), NEW f \in Frames,
         Piece(f, P, k + Len(q))
  PROVE  /\ Row(Append(q, f), P, k) /\ Append(q, f) \in Seq(Frames) /\ Append(q, f) # << >>
         /\ Len(q) \in Nat /\ Len(Append(q, f)) = Len(q) + 1
         /\ k + Len(Append(q, f)) = (k + Len(q)) + 1
<1> DEFINE p == Append(q, f)
<1>1. /\ p \in Seq(Frames) /\ Len(p) = Len(q) + 1
      /\ Len(q) \in Nat /\ DOMAIN q = 1..Len(q)
      /\ DOMAIN p = 1..(Len(q) + 1)
      /\ \A i \in 1..Len(q) : p[i] = q[i]
      /\ p[Len(q) + 1] = f
  BY AppendElements
<1> HIDE DEF p
<1>2. ASSUME NEW i \in DOMAIN p
      PROVE  Piece(p[i], P, k + i - 1)
  <2>1. CASE i \in 1..Len(q)
    <3>1. p[i] = q[i] /\ i \in DOMAIN q
      BY <1>1, <2>1
    <3> QED BY <3>1, Zenon DEF Row
  <2>2. CASE i = Len(q) + 1
    <3>1. p[i] = f /\ k + i - 1 = k + Len(q)
      BY <1>1, <2>2
    <3> QED BY <3>1, Zenon
  <2> QED BY <1>1, <2>1, <2>2
<1>3. p # << >>
  BY <1>1
<1>4. k + Len(p) = (k + Len(q)) + 1
  BY <1>1
<1> QED BY <1>1, <1>2, <1>3, <1>4 DEF Row, p

LEMMA RxNumbers ==
  ASSUME NEW r \in RxMachines
  PROVE  r.bs \in Nat /\ r.cfs \in Nat
<1>1. r.bs \in Byte8 /\ r.cfs \in 0..(CounterMod - 1)
  BY RxFields
<1> QED BY <1>1 DEF Byte8

\* The two ends count the same frames of a block.
LEMMA Counted ==
  ASSUME NEW t \in TxMachines, NEW q \in Seq(Frames), q # << >>, NEW r \in RxMachines,
         NEW P, NEW k \in Nat \ {0}, Stage(t, q, r, P, k)
  PROVE  r.bs # 0 => r.cfs + Len(q) <= r.bs
<1>1. r.bs \in Nat /\ r.cfs \in Nat /\ Len(q) \in Nat
  BY RxNumbers, LenProperties
<1> QED BY <1>1 DEF Stage, Streams, Pauses, Finished

LEMMA NoWrap ==
  ASSUME NEW c \in Nat, NEW m \in Nat, c + 1 < m
  PROVE  (c + 1) % m = c + 1
OBVIOUS

LEMMA CountsOn ==
  ASSUME NEW q \in Seq(Frames), q # << >>, NEW r \in RxMachines, r.bs < CounterMod,
         r.checked => r.bs # 0, r.bs # 0 => r.cfs + Len(q) <= r.bs
  PROVE  ~Overflows(r, r.cfs) /\ (r.bs # 0 => Increment(r.cfs) = r.cfs + 1)
<1>1. /\ r.bs \in Nat /\ r.cfs \in Nat /\ Len(q) \in Nat /\ Len(q) >= 1
      /\ CounterMod \in Nat /\ CounterMod >= 2
  BY RxNumbers, TailElements, Constants, MachineAssumption
<1>2. r.bs # 0 => r.cfs + 1 < CounterMod
  BY <1>1
<1>3. r.bs # 0 => ~Overflows(r, r.cfs)
  BY <1>1, <1>2 DEF Overflows
<1>4. r.bs = 0 => ~Overflows(r, r.cfs)
  BY DEF Overflows
<1>5. r.bs # 0 => Increment(r.cfs) = r.cfs + 1
  BY <1>1, <1>2, NoWrap, Zenon DEF Increment
<1> QED BY <1>3, <1>4, <1>5

\* A sender and a receiver that have counted the same frames of a block count
\* one more: the block does not overflow, a full one is full for both.
LEMMA BlockHolds ==
  ASSUME NEW b \in Nat, NEW c \in Nat, NEW n \in Nat, NEW t, NEW m,
         b # 0 => t = c + n /\ t < b, m = n + 1
  PROVE  b # 0 => c + m <= b
OBVIOUS

LEMMA BlockGrows ==
  ASSUME NEW b \in Nat, NEW c \in Nat, NEW n \in Nat, NEW t, NEW u, NEW m,
         b # 0 => t = c + n /\ t < b, m = n + 1, b # 0 => u = t + 1
  PROVE  /\ b # 0 /\ u >= b => c + m = b
         /\ ~(b # 0 /\ u >= b) => (b # 0 => u = c + m /\ u < b)
OBVIOUS

LEMMA StageSends ==
  ASSUME NEW t \in TxMachines, TxSound(t), TxReady(t), NEW q \in Seq(Frames),
         NEW r \in RxMachines, r.bs < CounterMod, t.checked => r.bs # 0,
         NEW P, Numbered(P), Len(P) > FrameData, NEW k \in Nat \ {0},
         Stage(t, q, r, P, k),
         NEW u, u = TxSent(t) \/ (TxSent(t).st = "done" /\ u.st = "done")
  PROVE  Stage(u, Append(q, TxFrame(t)), r, P, k)
<1> DEFINE f == TxFrame(t)
           p == Append(q, f)
           j == k + Len(q)
           v == TxSent(t)
<1>1. Streams(t, q, r, P, j) /\ t.st = "cons" /\ t.timer = 0
  BY DEF Stage, TxReady, Streams, Pauses, Finished
<1>2. Len(q) \in Nat /\ j \in Nat \ {0} /\ r.bs \in Nat /\ r.cfs \in Nat /\ t.cfs \in Nat
  BY LenProperties, RxNumbers, TxFields
<1>3. Sending(t, P, j) /\ t.bs = r.bs /\ (r.bs # 0 => t.cfs = r.cfs + Len(q) /\ t.cfs < r.bs)
      /\ t.stmin <= NCr
  BY <1>1 DEF Streams
<1>4. f \in Frames
  BY TxFrameTyped, IsoTpAssumption, MachineAssumption
<1> HIDE DEF f, j, v
<1>5. Piece(f, P, j)
  BY <1>1, <1>2, <1>3, SendsPiece DEF f
<1>6. GoesOn(v, t, P, j)
  BY <1>1, <1>2, <1>3, SendsOn DEF v
<1>7. /\ Row(p, P, k) /\ p # << >> /\ Len(p) = Len(q) + 1 /\ k + Len(p) = j + 1
  BY <1>4, <1>5, RowAppend DEF Stage, j
<1> HIDE DEF p
<1>8. CASE Offset(j + 1) >= Len(P)
  <2>1. u.st = "done"
    BY <1>6, <1>8 DEF GoesOn, v
  <2>2. r.bs # 0 => r.cfs + Len(p) <= r.bs
    BY <1>2, <1>3, <1>7, BlockHolds, Zenon
  <2>3. Finished(u, p, r, P, k + Len(p))
    BY <1>7, <1>8, <2>1, <2>2 DEF Finished
  <2> QED BY <1>7, <2>3 DEF Stage, p, f
<1>9. CASE ~(Offset(j + 1) >= Len(P))
  <2>1. v.st \in {"await", "cons"}
    BY <1>6, <1>9 DEF GoesOn
  <2>2. u = v
    BY <2>1 DEF v
  <2>3. /\ Sending(u, P, j + 1) /\ u.bs = t.bs /\ u.stmin = t.stmin
        /\ u.bs # 0 => u.cfs = t.cfs + 1
        /\ IF u.bs # 0 /\ u.cfs >= u.bs
           THEN u.st = "await" /\ u.timer = NBs
           ELSE u.st = "cons" /\ u.timer = u.stmin
    BY <1>6, <1>9, <2>2 DEF GoesOn
  <2>0. /\ u.bs = r.bs
        /\ r.bs # 0 /\ u.cfs >= r.bs => r.cfs + Len(p) = r.bs
        /\ ~(r.bs # 0 /\ u.cfs >= r.bs) => (r.bs # 0 => u.cfs = r.cfs + Len(p) /\ u.cfs < r.bs)
    <3>1. u.bs = r.bs /\ (r.bs # 0 => u.cfs = t.cfs + 1)
      BY <1>3, <2>3, Zenon
    <3> DEFINE b == r.bs
               c == r.cfs
               n == Len(q)
               m == Len(p)
    <3>2. /\ b \in Nat /\ c \in Nat /\ n \in Nat /\ m = n + 1
          /\ (b # 0 => t.cfs = c + n /\ t.cfs < b) /\ (b # 0 => u.cfs = t.cfs + 1)
      BY <1>2, <1>3, <1>7, <3>1, Zenon
    <3> HIDE DEF b, c, n, m
    <3>3. /\ b # 0 /\ u.cfs >= b => c + m = b
          /\ ~(b # 0 /\ u.cfs >= b) => (b # 0 => u.cfs = c + m /\ u.cfs < b)
      BY <3>2, BlockGrows
    <3> QED BY <3>1, <3>3, Zenon DEF b, c, m
  <2>4. CASE u.bs # 0 /\ u.cfs >= u.bs
    <3>1. r.bs # 0 /\ r.cfs + Len(p) = r.bs
      BY <2>0, <2>4, Zenon
    <3>2. Pauses(u, p, r, P, k + Len(p))
      BY <1>7, <2>3, <2>4, <3>1 DEF Pauses
    <3> QED BY <1>7, <3>2 DEF Stage, p, f
  <2>5. CASE ~(u.bs # 0 /\ u.cfs >= u.bs)
    <3>1. u.bs = r.bs /\ (r.bs # 0 => u.cfs = r.cfs + Len(p) /\ u.cfs < r.bs)
      BY <2>0, <2>5, Zenon
    <3>2. u.timer <= u.stmin /\ u.stmin <= NCr
      <4>1. t.stmin \in Nat
        BY TxFields
      <4> QED BY <1>3, <2>3, <2>5, <4>1
    <3>3. Streams(u, p, r, P, k + Len(p))
      BY <1>7, <2>3, <2>5, <3>1, <3>2 DEF Streams
    <3> QED BY <1>7, <3>3 DEF Stage, p, f
  <2> QED BY <2>4, <2>5
<1> QED BY <1>8, <1>9

\* The last frame of the queue completes the message, or the receiver waits
\* for the next one.
StageTook(t, q, r, w, P, k) ==
  \/ w.ev = "done" /\ w.out = P /\ w.rx.st = "idle" /\ t.st = "done" /\ Tail(q) = << >>
  \/ /\ w.ev \in {"fc", "continue"} /\ w.rx.timer = NCr
     /\ Stage(t, Tail(q), w.rx, P, k + 1)
     /\ (w.ev = "fc") = (t.st = "await" /\ Tail(q) = << >>)

LEMMA StageTakes ==
  ASSUME NEW t \in TxMachines, NEW q \in Seq(Frames), q # << >>,
         NEW r \in RxMachines, r.bs < CounterMod, r.checked => r.bs # 0,
         NEW P, Numbered(P), Len(P) > FrameData, NEW k \in Nat \ {0},
         Stage(t, q, r, P, k)
  PROVE  LET w == RxOnFrame(r, Head(q))
         IN  StageTook(t, q, r, w, P, k) /\ w.rx.bs = r.bs /\ w.rx.checked = r.checked
<1> DEFINE w == RxOnFrame(r, Head(q))
           p == Tail(q)
           j == k + Len(q)
<1>1. Has(r, P, k) /\ Row(q, P, k)
  BY DEF Stage
<1>2. /\ Piece(Head(q), P, k) /\ Row(p, P, k + 1) /\ Len(q) \in Nat /\ Len(q) >= 1
      /\ Len(p) = Len(q) - 1 /\ j = (k + 1) + Len(p)
  BY <1>1, RowTail
<1>3. r.bs # 0 => r.cfs + Len(q) <= r.bs
  BY Counted
<1>4. ~Overflows(r, r.cfs) /\ (r.bs # 0 => Increment(r.cfs) = r.cfs + 1)
  BY <1>3, CountsOn
<1>5. Advances(w, r, P, k)
  BY <1>1, <1>2, <1>4, TakesInStep
<1>6. r.bs \in Nat /\ r.cfs \in Nat /\ Len(P) \in Nat /\ p \in Seq(Frames)
      /\ (p = << >> <=> Len(p) = 0)
  <2>1. p \in Seq(Frames)
    BY TailElements
  <2> HIDE DEF p
  <2>2. p = << >> <=> Len(p) = 0
    BY <2>1, EmptySeq
  <2> QED BY <2>1, <2>2, RxNumbers, LenProperties DEF Numbered
<1>7. k + 1 \in Nat \ {0} /\ Offset(k + 1) \in Nat
  BY OffsetNext
<1> HIDE DEF w
<1>8. CASE Offset(k + 1) >= Len(P)
  <2>1. w.ev = "done" /\ w.out = P /\ w.rx.st = "idle"
    BY <1>5, <1>8 DEF Advances
  <2>2. p = << >>
    <3> SUFFICES ASSUME p # << >> PROVE FALSE
      OBVIOUS
    <3>1. Piece(Head(p), P, k + 1)
      BY <1>2, <1>6, <1>7, RowTail
    <3>2. Offset(k + 1) \in (FrameData - 1)..(Len(P) - 1)
      BY <3>1 DEF Piece, Part
    <3> QED BY <1>6, <1>7, <1>8, <3>2, Constants, MachineAssumption
  <2>3. j = k + 1
    BY <1>2, <1>6, <2>2
  <2>4. ~(Offset(j) < Len(P))
    BY <1>6, <1>7, <1>8, <2>3
  <2>5. t.st = "done"
    BY <2>4 DEF Stage, Streams, Pauses, Finished, Sending
  <2>6. w.rx.bs = r.bs /\ w.rx.checked = r.checked
    BY <1>5 DEF Advances
  <2> QED BY <2>1, <2>2, <2>5, <2>6 DEF StageTook, w
<1>9. CASE ~(Offset(k + 1) >= Len(P))
  <2>1. /\ Has(w.rx, P, k + 1) /\ w.rx.timer = NCr /\ w.rx.bs = r.bs
        /\ w.rx.checked = r.checked
        /\ IF r.bs # 0 /\ Increment(r.cfs) >= r.bs
           THEN w.ev = "fc" /\ w.rx.cfs = 0
           ELSE w.ev = "continue" /\ w.rx.cfs = Increment(r.cfs)
    BY <1>5, <1>9 DEF Advances
  <2>2. /\ r.bs # 0 /\ p # << >> => w.rx.cfs = r.cfs + 1 /\ w.ev = "continue"
        /\ r.bs # 0 /\ p = << >> /\ r.cfs + 1 < r.bs => w.rx.cfs = r.cfs + 1 /\ w.ev = "continue"
        /\ r.bs # 0 /\ p = << >> /\ r.cfs + 1 = r.bs => w.rx.cfs = 0 /\ w.ev = "fc"
        /\ r.bs = 0 => w.ev = "continue"
    <3> DEFINE c == r.cfs
               b == r.bs
               i == Increment(r.cfs)
    <3>1. /\ b \in Nat /\ c \in Nat /\ (b # 0 => i = c + 1)
          /\ IF b # 0 /\ i >= b THEN w.ev = "fc" /\ w.rx.cfs = 0
                                ELSE w.ev = "continue" /\ w.rx.cfs = i
      BY <1>4, <1>6, <2>1, Zenon
    <3>2. b # 0 => c + Len(q) <= b
      BY <1>3
    <3>3. p # << >> => Len(q) \in Nat /\ Len(q) >= 2
      BY <1>2, <1>6
    <3> HIDE DEF b, c, i
    <3>4. p # << >> => (b # 0 => c + 1 < b)
      BY <3>1, <3>2, <3>3
    <3>5. /\ b # 0 /\ p # << >> => w.rx.cfs = c + 1 /\ w.ev = "continue"
          /\ b # 0 /\ c + 1 < b => w.rx.cfs = c + 1 /\ w.ev = "continue"
          /\ b # 0 /\ c + 1 = b => w.rx.cfs = 0 /\ w.ev = "fc"
          /\ b = 0 => w.ev = "continue"
      BY <3>1, <3>4
    <3> QED BY <3>5, Zenon DEF b, c
  <2>3. CASE Streams(t, q, r, P, j)
    <3>1. r.bs # 0 => t.cfs = r.cfs + Len(q) /\ t.cfs < r.bs
      BY <2>3 DEF Streams
    <3>2. r.bs # 0 => w.rx.cfs = r.cfs + 1 /\ w.ev = "continue"
      BY <1>2, <1>6, <2>2, <3>1
    <3>3. r.bs # 0 => t.cfs = w.rx.cfs + Len(p)
      BY <1>2, <1>6, <3>1, <3>2
    <3>4. t.timer <= w.rx.timer
      <4>1. t.timer <= t.stmin /\ t.stmin <= NCr /\ t.timer \in Nat /\ t.stmin \in Nat
        BY <2>3, TxFields DEF Streams
      <4> QED BY <2>1, <4>1, Constants, MachineAssumption
    <3>5. Streams(t, p, w.rx, P, (k + 1) + Len(p))
      BY <1>2, <2>1, <2>3, <3>1, <3>3, <3>4, Zenon DEF Streams
    <3>6. t.st = "cons" /\ w.ev = "continue"
      BY <2>2, <2>3, <3>2 DEF Streams
    <3>7. Stage(t, p, w.rx, P, k + 1)
      BY <1>2, <2>1, <3>5 DEF Stage
    <3> QED BY <2>1, <3>6, <3>7 DEF StageTook, w
  <2>4. CASE Pauses(t, q, r, P, j)
    <3>1. r.bs # 0 /\ r.cfs + Len(q) = r.bs /\ t.st = "await"
      BY <2>4 DEF Pauses
    <3>2. IF p = << >> THEN w.rx.cfs = 0 /\ w.ev = "fc"
          ELSE w.rx.cfs = r.cfs + 1 /\ w.ev = "continue" /\ w.rx.cfs + Len(p) = r.bs
      <4>1. CASE p = << >>
        <5>1. r.cfs + 1 = r.bs
          BY <1>2, <1>6, <3>1, <4>1
        <5> QED BY <2>2, <3>1, <4>1, <5>1, Zenon
      <4>2. CASE p # << >>
        <5>1. w.rx.cfs = r.cfs + 1 /\ w.ev = "continue"
          BY <2>2, <3>1, <4>2, Zenon
        <5>2. (r.cfs + 1) + Len(p) = r.bs
          BY <1>2, <1>6, <3>1
        <5> QED BY <4>2, <5>1, <5>2
      <4> QED BY <4>1, <4>2
    <3>3. Pauses(t, p, w.rx, P, (k + 1) + Len(p))
      BY <1>2, <2>1, <2>4, <3>1, <3>2 DEF Pauses
    <3>4. Stage(t, p, w.rx, P, k + 1)
      BY <1>2, <2>1, <3>3 DEF Stage
    <3> QED BY <2>1, <3>1, <3>2, <3>4 DEF StageTook, w
  <2>5. CASE Finished(t, q, r, P, j)
    <3>1. Offset(j) >= Len(P) /\ t.st = "done"
      BY <2>5 DEF Finished
    <3>2. p # << >>
      BY <1>2, <1>6, <1>9, <3>1
    <3>3. r.bs # 0 => w.rx.cfs + Len(p) <= r.bs
      BY <1>2, <1>3, <1>6, <2>2, <3>2
    <3>4. Finished(t, p, w.rx, P, (k + 1) + Len(p))
      BY <1>2, <2>1, <3>1, <3>2, <3>3 DEF Finished
    <3>5. Stage(t, p, w.rx, P, k + 1)
      BY <1>2, <2>1, <3>4 DEF Stage
    <3>6. w.ev = "continue"
      BY <2>2, <3>2
    <3> QED BY <2>1, <3>1, <3>5, <3>6 DEF StageTook, w
  <2> QED BY <2>3, <2>4, <2>5 DEF Stage
<1> QED BY <1>8, <1>9

LEMMA UnderwaySends ==
  ASSUME NEW t \in TxMachines, TxSound(t), TxReady(t), NEW q \in Seq(Frames),
         NEW r \in RxMachines, r.bs < CounterMod, t.checked => r.bs # 0,
         NEW P, NEW g, Underway(t, q, r, P, g),
         NEW u, u = TxSent(t) \/ (TxSent(t).st = "done" /\ u.st = "done")
  PROVE  Underway(u, Append(q, TxFrame(t)), r, P, FALSE) /\ g = FALSE
<1>1. PICK k \in Nat \ {0} : Stage(t, q, r, P, k)
  BY DEF Underway
<1>2. Stage(u, Append(q, TxFrame(t)), r, P, k)
  BY <1>1, StageSends DEF Underway
<1>3. Append(q, TxFrame(t)) # << >>
  <2>1. TxFrame(t) \in Frames
    BY TxFrameTyped, IsoTpAssumption, MachineAssumption
  <2> HIDE DEF TxFrame
  <2> QED BY <2>1, RowAppend, <1>1, AppendElements, EmptySeq
<1>4. t.st # "await"
  BY DEF TxReady
<1> QED BY <1>2, <1>3, <1>4 DEF Underway

\* The frame at the head of q was the last, or the transfer goes on without it.
UnderwayTook(t, q, r, w, P, g) ==
  /\ w.rx.bs = r.bs /\ w.rx.checked = r.checked /\ g = FALSE
  /\ \/ /\ w.ev = "done" /\ w.out = P /\ w.rx.st = "idle" /\ t.st = "done"
        /\ Tail(q) = << >>
     \/ /\ w.ev \in {"fc", "continue"}
        /\ Underway(t, Tail(q), w.rx, P, w.ev = "fc")

LEMMA UnderwayTakes ==
  ASSUME NEW t \in TxMachines, NEW q \in Seq(Frames), q # << >>,
         NEW r \in RxMachines, r.bs < CounterMod, r.checked => r.bs # 0,
         NEW P, NEW g, Underway(t, q, r, P, g)
  PROVE  UnderwayTook(t, q, r, RxOnFrame(r, Head(q)), P, g)
<1> DEFINE w == RxOnFrame(r, Head(q))
<1>1. PICK k \in Nat \ {0} : Stage(t, q, r, P, k)
  BY DEF Underway
<1>2. Numbered(P) /\ Len(P) > FrameData /\ g = FALSE
  BY DEF Underway
<1>3. StageTook(t, q, r, w, P, k) /\ w.rx.bs = r.bs /\ w.rx.checked = r.checked
  BY <1>1, <1>2, StageTakes
<1> HIDE DEF w
<1>4. CASE w.ev \in {"fc", "continue"} /\ w.rx.timer = NCr
           /\ Stage(t, Tail(q), w.rx, P, k + 1)
           /\ (w.ev = "fc") = (t.st = "await" /\ Tail(q) = << >>)
  <2>1. w.rx.timer >= 0 /\ k + 1 \in Nat \ {0}
    BY <1>4, Constants, MachineAssumption
  <2>2. Underway(t, Tail(q), w.rx, P, w.ev = "fc")
    BY <1>2, <1>4, <2>1, Zenon DEF Underway
  <2> QED BY <1>2, <1>3, <1>4, <2>2, Zenon DEF w, UnderwayTook
<1>5. CASE /\ w.ev = "done" /\ w.out = P /\ w.rx.st = "idle" /\ t.st = "done"
           /\ Tail(q) = << >>
  BY <1>2, <1>3, <1>5, Zenon DEF w, UnderwayTook
<1> QED BY <1>3, <1>4, <1>5 DEF StageTook

LEMMA UnderwayOpens ==
  ASSUME NEW t \in TxMachines, NEW r \in RxMachines, NEW P, NEW f,
         Opened(t, f, P), t.st = "await"
  PROVE  LET w == RxOnFrame(r, f)
         IN  /\ w.ev = "fc" /\ w.rx.bs = r.bs /\ w.rx.checked = r.checked
             /\ Underway(t, << >>, w.rx, P, TRUE)
<1> DEFINE w == RxOnFrame(r, f)
           e == << >>
<1>1. Numbered(P) /\ t.timer = NBs /\ Sending(t, P, 1) /\ f.pci = "FF" /\ Part(f, P, 0)
  BY DEF Opened
<1>2. /\ w.ev = "fc" /\ Has(w.rx, P, 1) /\ w.rx.timer = NCr /\ w.rx.cfs = 0
      /\ w.rx.bs = r.bs /\ w.rx.checked = r.checked /\ Len(P) > FrameData
  BY <1>1, TakesOpening
<1> HIDE DEF w
<1>3. Len(e) = 0 /\ DOMAIN e = {} /\ 1 + Len(e) = 1
  OBVIOUS
<1> HIDE DEF e
<1>4. Pauses(t, e, w.rx, P, 1 + Len(e))
  BY <1>1, <1>2, <1>3 DEF Pauses, e
<1>5. Row(e, P, 1)
  BY <1>3 DEF Row
<1>6. Stage(t, e, w.rx, P, 1)
  BY <1>2, <1>4, <1>5 DEF Stage
<1>7. w.rx.timer >= 0 /\ 1 \in Nat \ {0}
  BY <1>2, Constants, MachineAssumption
<1>8. TRUE = (t.st = "await" /\ e = << >>)
  BY DEF e
<1> QED BY <1>1, <1>2, <1>6, <1>7, <1>8 DEF Underway, w, e

LEMMA GrantTaken ==
  ASSUME NEW t \in TxMachines, t.st = "await", NEW b, NEW g
  PROVE  LET o == TxOnFrame(t, FlowControl("cts", b, g))
         IN  /\ o.err = "ok" /\ o.tx.st = "cons" /\ o.tx.timer = 0 /\ o.tx.bs = b
             /\ o.tx.stmin = decode_stmin(g) /\ o.tx.cfs = 0
             /\ o.tx.payload = t.payload /\ o.tx.offset = t.offset /\ o.tx.sn = t.sn
             /\ o.tx.checked = t.checked
<1> DEFINE f == FlowControl("cts", b, g)
           d == decode_stmin(g)
           u == [t EXCEPT !.st = "cons", !.timer = 0, !.bs = b, !.stmin = d,
                          !.cfs = 0, !.waits = 0]
<1>1. f.pci = "FC" /\ f.fs = "cts" /\ f.bs = b /\ f.stmin = g
  BY DEF FlowControl
<1> HIDE DEF f
<1>2. TxOnFrame(t, f) = TxKeeps(u)
  BY <1>1 DEF TxOnFrame
<1> HIDE DEF d
<1>3. /\ u.st = "cons" /\ u.timer = 0 /\ u.bs = b /\ u.stmin = d /\ u.cfs = 0
      /\ u.payload = t.payload /\ u.offset = t.offset /\ u.sn = t.sn
      /\ u.checked = t.checked
  BY DEF TxMachines
<1> HIDE DEF u
<1> QED BY <1>2, <1>3 DEF TxKeeps, f, d

LEMMA UnderwayGranted ==
  ASSUME NEW t \in TxMachines, NEW q, NEW r \in RxMachines, NEW P, Underway(t, q, r, P, TRUE),
         NEW b, b = r.bs, NEW g, decode_stmin(g) <= NCr, decode_stmin(g) >= 0
  PROVE  LET u == TxOnFrame(t, FlowControl("cts", b, g)).tx
         IN  q = << >> /\ t.st = "await" /\ Underway(u, << >>, r, P, FALSE)
<1> DEFINE u == TxOnFrame(t, FlowControl("cts", b, g)).tx
           e == << >>
<1>1. PICK k \in Nat \ {0} : Stage(t, q, r, P, k)
  BY DEF Underway
<1>2. t.st = "await" /\ q = e /\ Numbered(P) /\ Len(P) > FrameData /\ r.timer >= 0
  BY DEF Underway
<1>3. /\ u.st = "cons" /\ u.timer = 0 /\ u.bs = b /\ u.stmin = decode_stmin(g) /\ u.cfs = 0
      /\ u.payload = t.payload /\ u.offset = t.offset /\ u.sn = t.sn
  BY <1>2, GrantTaken
<1> HIDE DEF u
<1>4. Len(e) = 0 /\ r.bs \in Nat
  BY RxNumbers
<1> HIDE DEF e
<1>5. Pauses(t, e, r, P, k + Len(e)) /\ Has(r, P, k) /\ Row(e, P, k)
  BY <1>1, <1>2 DEF Stage, Streams, Finished
<1>6. Sending(t, P, k + Len(e)) /\ r.cfs = 0
  BY <1>5 DEF Pauses, e
<1>7. Sending(u, P, k + Len(e))
  BY <1>3, <1>6 DEF Sending
<1>8. r.bs # 0 => u.cfs = r.cfs + Len(e) /\ u.cfs < r.bs
  BY <1>3, <1>4, <1>6
<1>9. Streams(u, e, r, P, k + Len(e))
  BY <1>2, <1>3, <1>7, <1>8 DEF Streams
<1>10. Stage(u, e, r, P, k)
  BY <1>5, <1>9 DEF Stage
<1>11. FALSE = (u.st = "await" /\ e = << >>)
  BY <1>3
<1> QED BY <1>2, <1>10, <1>11 DEF Underway, u, e

\* The clock is at most as far in the receiver as in the sender.
LEMMA UnderwayTicks ==
  ASSUME NEW t \in TxMachines, ~TxReady(t), NEW r \in RxMachines, NEW P,
         Underway(t, << >>, r, P, FALSE)
  PROVE  /\ t.st = "cons" /\ t.timer > 0
         /\ Underway([t EXCEPT !.timer = Down(@)], << >>, RxDown(r), P, FALSE)
<1> DEFINE e == << >>
           u == [t EXCEPT !.timer = Down(@)]
           v == RxDown(r)
<1>1. PICK k \in Nat \ {0} : Stage(t, e, r, P, k)
  BY DEF Underway
<1>2. t.st # "await" /\ Numbered(P) /\ Len(P) > FrameData /\ r.timer >= 0
  BY DEF Underway
<1>3. Streams(t, e, r, P, k + Len(e)) /\ t.st = "cons"
  BY <1>1, <1>2 DEF Stage, Pauses, Finished, Streams
<1>4. t.timer > 0 /\ t.timer \in Nat /\ t.stmin \in Nat
  BY <1>3, TxFields DEF TxReady
<1>5. r.st = "receiving" /\ t.timer <= r.timer /\ r.timer \in Int
  <2>1. r.timer \in -1..NCr
    BY DEF RxMachines
  <2>2. r.timer \in Int
    BY <2>1, Constants, MachineAssumption
  <2> QED BY <1>1, <1>3, <2>2 DEF Stage, Has, Streams
<1>6. /\ u.st = t.st /\ u.payload = t.payload /\ u.offset = t.offset /\ u.sn = t.sn
      /\ u.bs = t.bs /\ u.cfs = t.cfs /\ u.stmin = t.stmin /\ u.timer = t.timer - 1
  BY <1>4 DEF TxMachines, Down
<1>7. /\ v.st = r.st /\ v.ffdl = r.ffdl /\ v.sn = r.sn /\ v.buf = r.buf /\ v.bs = r.bs
      /\ v.cfs = r.cfs /\ v.timer = r.timer - 1
  BY <1>2, <1>5 DEF RxMachines, RxDown
<1> HIDE DEF e, u, v
<1>8. Sending(u, P, k + Len(e))
  BY <1>3, <1>6 DEF Streams, Sending
<1>9. u.timer <= u.stmin /\ u.timer <= v.timer
  BY <1>3, <1>4, <1>5, <1>6, <1>7 DEF Streams
<1>10. Streams(u, e, v, P, k + Len(e))
  BY <1>3, <1>6, <1>7, <1>8, <1>9 DEF Streams
<1>11. Has(v, P, k) /\ Row(e, P, k)
  BY <1>1, <1>7 DEF Stage, Has
<1>12. Stage(u, e, v, P, k)
  BY <1>10, <1>11 DEF Stage
<1>13. v.timer >= 0 /\ FALSE = (u.st = "await" /\ e = << >>)
  BY <1>3, <1>4, <1>5, <1>6, <1>7
<1> QED BY <1>2, <1>3, <1>4, <1>12, <1>13 DEF Underway, u, v, e

\* The machines of a transfer.
LEMMA UnderwayStates ==
  ASSUME NEW t \in TxMachines, NEW q, NEW r \in RxMachines, NEW P, NEW g, Underway(t, q, r, P, g)
  PROVE  /\ r.st = "receiving" /\ r.timer >= 0 /\ ~RxExpired(r)
         /\ t.st \in {"cons", "await", "done"} /\ (t.st = "done" => q # << >>)
         /\ t.st = "await" => t.timer = NBs
         /\ g = (t.st = "await" /\ q = << >>)
         /\ t.st # "done" => t.payload = P /\ t.offset < Len(P)
<1>1. PICK k \in Nat \ {0} : Stage(t, q, r, P, k)
  BY DEF Underway
<1>2. r.st = "receiving" /\ r.timer >= 0 /\ g = (t.st = "await" /\ q = << >>)
  BY <1>1 DEF Underway, Stage, Has
<1>3. ~RxExpired(r)
  <2>1. r.timer \in -1..NCr
    BY DEF RxMachines
  <2>2. r.timer \in Int
    BY <2>1, Constants, MachineAssumption
  <2> QED BY <1>2, <2>2 DEF RxExpired
<1>4. /\ t.st \in {"cons", "await", "done"} /\ (t.st = "done" => q # << >>)
      /\ t.st = "await" => t.timer = NBs
      /\ t.st # "done" => t.payload = P /\ t.offset < Len(P)
  BY <1>1 DEF Stage, Streams, Pauses, Finished, Sending
<1> QED BY <1>2, <1>3, <1>4

\* Every frame of a transfer is a consecutive one.
LEMMA UnderwayHead ==
  ASSUME NEW t, NEW q \in Seq(Frames), q # << >>, NEW r, NEW P, NEW g, Underway(t, q, r, P, g)
  PROVE  Head(q).pci = "CF"
<1>1. PICK k \in Nat \ {0} : Stage(t, q, r, P, k)
  BY DEF Underway
<1>2. Piece(Head(q), P, k)
  BY <1>1, RowTail DEF Stage
<1> QED BY <1>2 DEF Piece

\* What is on its way fits the ring.
LEMMA UnderwayFits ==
  ASSUME NEW t \in TxMachines, TxReady(t), NEW q \in Seq(Frames), NEW r \in RxMachines,
         NEW P, NEW g, Underway(t, q, r, P, g), NEW cap \in Nat,
         r.bs \in 1..cap \/ Len(P) < (cap + 1) * FrameData
  PROVE  Len(q) < cap
<1>1. PICK k \in Nat \ {0} : Stage(t, q, r, P, k)
  BY DEF Underway
<1>2. Streams(t, q, r, P, k + Len(q)) /\ Len(q) \in Nat /\ r.bs \in Nat /\ r.cfs \in Nat
      /\ t.cfs \in Nat /\ Len(P) \in Nat
  BY <1>1, RxNumbers, TxFields, LenProperties
     DEF Stage, TxReady, Pauses, Finished, Underway, Numbered
<1>3. CASE r.bs \in 1..cap
  <2>1. t.cfs = r.cfs + Len(q) /\ t.cfs < r.bs
    BY <1>2, <1>3 DEF Streams
  <2> QED BY <1>2, <1>3, <2>1
<1>4. CASE Len(P) < (cap + 1) * FrameData
  <2> DEFINE F == FrameData
             j == k + Len(q)
  <2>1. F \in Nat /\ F >= 2 /\ j \in Nat \ {0}
    BY <1>2, Constants, MachineAssumption
  <2>2. Offset(j) < Len(P)
    BY <1>2 DEF Streams, Sending
  <2> HIDE DEF F, j
  <2>3. j * F \in Nat /\ (cap + 1) * F \in Nat
    BY <2>1
  <2>4. j * F < (cap + 1) * F
    BY <1>2, <1>4, <2>2, <2>3 DEF Offset, F
  <2>5. j < cap + 1
    <3> SUFFICES ASSUME cap + 1 <= j PROVE FALSE
      BY <2>1
    <3>0. j - (cap + 1) \in Nat /\ j = (cap + 1) + (j - (cap + 1))
      BY <2>1
    <3>1. PICK d \in Nat : j = (cap + 1) + d
      BY <3>0
    <3>2. j * F = (cap + 1) * F + d * F /\ d * F \in Nat
      BY <2>1, <3>1
    <3> QED BY <2>3, <2>4, <3>2
  <2> QED BY <1>2, <2>1, <2>5 DEF j
<1> QED BY <1>3, <1>4

\* What is asked and answered in this call.
Questions == {Message("req", ncalls, n) : n \in RequestLens}
Replies   == {Message("resp", ncalls, n) : n \in AnswerLens}
Patience  == Message("pend", ncalls, 1)

EcuGrant  == FlowControl("cts", EcuBs, EcuStMin)
HostGrant == FlowControl("cts", HostBs, HostStMin)

\* Nothing is on its way and nobody is busy.
Rests == pc = "idle" /\ AtRest /\ ~owed /\ pends = 0

\* One frame is on its way.
Alone(q) == q # << >> /\ q = <<Head(q)>>

\* The caller sends its request: nothing of it has left, the first frame has,
\* it is under way.
Asks(P) ==
  /\ pc \in {"send", "fcpoll"} /\ op = "request" /\ ncalls > 0 /\ pends = 0
  /\ ecuTx.st = "done" /\ todo = 0 /\ (tx.checked => EcuBs # 0)

AskUnsent(P) ==
  /\ Asks(P) /\ pc = "send" /\ Unsent(tx, P)
  /\ toEcu = << >> /\ ring = << >> /\ ecuRx.st = "idle" /\ ~owed

AskOpened(P) ==
  /\ Asks(P) /\ tx.st = "await" /\ Alone(toEcu) /\ Opened(tx, Head(toEcu), P)
  /\ ring = << >> /\ ecuRx.st = "idle" /\ ~owed

AskUnderway(P) ==
  /\ Asks(P) /\ tx.st # "done" /\ (pc = "fcpoll" => tx.st = "await")
  /\ Underway(tx, toEcu, ecuRx, P, owed \/ ring # << >>)
  /\ ring = << >> \/ (ring = <<EcuGrant>> /\ ~owed)

\* It has sent it, and the ECU has not received all of it.
Listens == pc \in {"recv", "rxpoll"} /\ op = "request" /\ ncalls > 0 /\ ~owed

Hears(P) ==
  /\ Listens /\ pends = 0 /\ left = RecvTimeout /\ rx = HostRx /\ ring = << >>
  /\ ecuTx.st = "done" /\ todo = 0
  /\ \/ ecuRx.st = "idle" /\ Alone(toEcu) /\ Single(Head(toEcu), P)
     \/ Underway(TxNone, toEcu, ecuRx, P, FALSE)

\* The ECU has the request; announcements may be on their way.
Announces(q, n) == \A i \in 1..n : Single(q[i], Patience)

Quiets == Listens /\ ecuRx.st = "idle" /\ rx = HostRx /\ left = RecvTimeout /\ toEcu = << >>

Ponders ==
  /\ Quiets /\ todo = ncalls /\ Announces(ring, Len(ring))
  /\ \/ ecuTx.st = "done" /\ pends + Len(ring) <= npends
     \/ Unsent(ecuTx, Patience) /\ pends + Len(ring) < npends

\* It answers: nothing has left, the first frame has, the answer is under way.
AnswerUnsent(P) ==
  /\ Quiets /\ todo = 0 /\ Announces(ring, Len(ring)) /\ pends + Len(ring) <= npends
  /\ Unsent(ecuTx, P)

AnswerOpened(P) ==
  /\ Quiets /\ todo = 0 /\ ring # << >> /\ Announces(ring, Len(ring) - 1)
  /\ pends + (Len(ring) - 1) <= npends /\ Opened(ecuTx, ring[Len(ring)], P)

\* What the pauses of the ECU have taken of the caller's time: at most one STmin
\* for every FrameData bytes sent.
Pause == IF ecuTx.st = "cons" THEN ecuTx.timer ELSE 0
SentBytes(P) == IF ecuTx.st = "done" THEN Len(P) ELSE ecuTx.offset
Paced(P) ==
  /\ FrameData * (RecvTimeout - left + Pause) <= SentBytes(P) * decode_stmin(HostStMin)
  /\ ecuTx.st = "cons" => ecuTx.stmin = decode_stmin(HostStMin)

AnswerUnderway(P) ==
  /\ Listens /\ ecuRx.st = "idle" /\ todo = 0 /\ toEcu \in {<< >>, <<HostGrant>>}
  /\ Underway(ecuTx, ring, rx, P, toEcu # << >>) /\ Paced(P)

Phase ==
  \/ Rests \/ Ponders
  \/ \E P \in Questions : AskUnsent(P) \/ AskOpened(P) \/ AskUnderway(P) \/ Hears(P)
  \/ \E P \in Replies : AnswerUnsent(P) \/ AnswerOpened(P) \/ AnswerUnderway(P)

\* The machines have the parameters of the two sides, and no counter of theirs
\* can overflow.
AsConfigured ==
  /\ rx.bs = HostBs /\ ecuRx.bs = EcuBs /\ (rx.checked => HostBs # 0)
  /\ ~ecuRx.checked /\ ~ecuTx.checked

Well == AsConfigured /\ Phase /\ PromptCallsSucceed

\* As long as nothing has gone wrong, all is well.
InvSucceed == nfaults = 0 => Well

-----------------------------------------------------------------------------
(* Messages and queues.                                                     *)

LEMMA QuestionKnown ==
  ASSUME Leeway, ncalls \in Nat, NEW P \in Questions
  PROVE  Numbered(P) /\ Request(P) = ncalls /\ P # << >>
<1>1. PICK n \in RequestLens : P = Message("req", ncalls, n)
  BY DEF Questions
<1>2. n \in Nat \ {0}
  BY DEF Leeway
<1>3. IsMessage(P, "req", ncalls)
  BY <1>1, <1>2 DEF IsMessage
<1> QED BY <1>3, AMessage

LEMMA ReplyKnown ==
  ASSUME Leeway, ncalls \in Nat, NEW P \in Replies
  PROVE  /\ Numbered(P) /\ Request(P) = ncalls /\ P # << >> /\ ~is_response_pending(P)
         /\ Len(P) \in Nat /\ Len(P) * decode_stmin(HostStMin) < FrameData * RecvTimeout
         /\ HostBs \in 1..RingCap \/ Len(P) < (RingCap + 1) * FrameData
<1>1. PICK n \in AnswerLens : P = Message("resp", ncalls, n)
  BY DEF Replies
<1>2. n \in Nat \ {0}
  BY CallConstants, IsoTpAssumption
<1>3. IsMessage(P, "resp", ncalls)
  BY <1>1, <1>2 DEF IsMessage
<1>4. Numbered(P) /\ Request(P) = ncalls /\ P # << >> /\ P[1][1] = "resp"
  BY <1>3, AMessage
<1>5. Len(P) = n
  BY <1>1, <1>2, MessageNumbered
<1>6. ~is_response_pending(P)
  BY <1>4 DEF is_response_pending
<1> QED BY <1>2, <1>4, <1>5, <1>6 DEF Leeway

LEMMA PatienceKnown ==
  ASSUME ncalls \in Nat
  PROVE  /\ Numbered(Patience) /\ Len(Patience) = 1 /\ is_response_pending(Patience)
         /\ Len(Patience) <= FrameData /\ Patience # << >>
<1>1. IsMessage(Patience, "pend", ncalls)
  BY DEF IsMessage, Patience
<1>2. Numbered(Patience) /\ Patience # << >> /\ Patience[1][1] = "pend"
  BY <1>1, AMessage
<1>3. Len(Patience) = 1
  <2>1. 1 \in Nat /\ 1 >= 1 /\ "pend" \in {"req", "resp", "pend", "pad"}
    OBVIOUS
  <2>2. Len(Message("pend", ncalls, 1)) = 1
    BY <2>1, MessageNumbered, Zenon
  <2> QED BY <2>2 DEF Patience
<1> QED BY <1>2, <1>3, Constants, MachineAssumption DEF is_response_pending

LEMMA SameCall ==
  ASSUME ncalls' = ncalls
  PROVE  Questions' = Questions /\ Replies' = Replies /\ Patience' = Patience
BY DEF Questions, Replies, Patience

LEMMA OneFrame ==
  ASSUME NEW f \in Frames
  PROVE  /\ Append(<< >>, f) = <<f>> /\ Head(<<f>>) = f /\ Tail(<<f>>) = << >>
         /\ Len(<<f>>) = 1 /\ <<f>> # << >> /\ Alone(<<f>>) /\ <<f>> \in Seq(Frames)
BY DEF Alone

LEMMA AloneTail ==
  ASSUME NEW q \in Seq(Frames), Alone(q)
  PROVE  q # << >> /\ Tail(q) = << >> /\ Head(q) \in Frames
<1>1. q # << >> /\ q = <<Head(q)>> /\ Head(q) \in Frames
  BY TailTyped DEF Alone
<1> DEFINE f == Head(q)
<1>2. q = <<f>> /\ f \in Frames
  BY <1>1
<1> HIDE DEF f
<1>3. Tail(<<f>>) = << >>
  BY <1>2, OneFrame
<1> QED BY <1>1, <1>2, <1>3

LEMMA AnnouncesTail ==
  ASSUME NEW q \in Seq(Frames), q # << >>, NEW n \in Nat, n >= 1, n <= Len(q), Announces(q, n)
  PROVE  Single(Head(q), Patience) /\ Announces(Tail(q), n - 1)
<1>1. /\ Len(q) \in Nat /\ Head(q) = q[1]
      /\ \A i \in 1..(Len(q) - 1) : Tail(q)[i] = q[i + 1]
  BY TailElements
<1>2. 1 \in 1..n
  OBVIOUS
<1>3. \A i \in 1..(n - 1) : Tail(q)[i] = q[i + 1] /\ i + 1 \in 1..n
  BY <1>1
<1> QED BY <1>1, <1>2, <1>3, Zenon DEF Announces

LEMMA AnnouncesMore ==
  ASSUME NEW q \in Seq(Frames), NEW f \in Frames, Announces(q, Len(q))
  PROVE  /\ Announces(Append(q, f), Len(q))
         /\ Single(f, Patience) => Announces(Append(q, f), Len(q) + 1)
         /\ Append(q, f)[Len(q) + 1] = f /\ Len(Append(q, f)) = Len(q) + 1
         /\ Append(q, f) # << >> /\ Len(q) \in Nat /\ Append(q, f) \in Seq(Frames)
<1> DEFINE p == Append(q, f)
<1>1. /\ Len(p) = Len(q) + 1 /\ Len(q) \in Nat /\ p \in Seq(Frames)
      /\ \A i \in 1..Len(q) : p[i] = q[i]
      /\ p[Len(q) + 1] = f
  BY AppendElements
<1> HIDE DEF p
<1>2. Announces(p, Len(q))
  BY <1>1, Zenon DEF Announces
<1>3. ASSUME Single(f, Patience) PROVE Announces(p, Len(q) + 1)
  <2>1. \A i \in 1..(Len(q) + 1) : i \in 1..Len(q) \/ i = Len(q) + 1
    BY <1>1
  <2> QED BY <1>1, <1>3, <2>1, Zenon DEF Announces
<1>4. p # << >>
  BY <1>1
<1> QED BY <1>1, <1>2, <1>3, <1>4 DEF p

\* What the types and the leeway say of the machines.
LEMMA Fit ==
  ASSUME Leeway, TypedAndSound, AsConfigured
  PROVE  /\ rx.bs < CounterMod /\ ecuRx.bs < CounterMod
         /\ (rx.checked => rx.bs # 0) /\ (ecuRx.checked => ecuRx.bs # 0)
         /\ (ecuTx.checked => rx.bs # 0)
         /\ pends \in Nat /\ npends \in Nat /\ npends <= MaxPends /\ ncalls \in Nat
         /\ left \in Nat /\ left <= RecvTimeout /\ RecvTimeout \in Nat /\ RecvTimeout >= 1
         /\ MaxPends \in Nat /\ MaxPending \in Nat /\ RingCap \in Nat /\ RingCap >= 1
<1>1. /\ left \in 0..RecvTimeout /\ pends \in 0..MaxPending /\ npends \in 0..MaxPends
      /\ ncalls \in 0..MaxCalls
  BY DEF TypedAndSound, HostType, CountType
<1>2. /\ RecvTimeout \in Nat /\ RecvTimeout >= 1 /\ MaxPends \in Nat /\ MaxPending \in Nat
      /\ RingCap \in Nat /\ MaxCalls \in Nat
  BY CallConstants, IsoTpAssumption
<1>3. RingCap >= 1
  BY <1>2 DEF Leeway
<1> QED BY <1>1, <1>2, <1>3 DEF Leeway, AsConfigured

LEMMA HostRxFields ==
  /\ HostRx.st = "idle" /\ HostRx.bs = HostBs /\ HostRx.checked = OverflowChecks
  /\ ~RxExpired(HostRx)
BY DEF HostRx, RxNew, RxExpired

LEMMA StminTyped ==
  ASSUME NEW b \in Byte8
  PROVE  decode_stmin(b) \in Nat
BY DEF decode_stmin, Byte8

\* A call that goes on has not failed.
LEMMA NotFailed ==
  ASSUME PromptCallsSucceed, nfaults = 0, result' = result, pc' # "idle"
  PROVE  PromptCallsSucceed'
BY DEF PromptCallsSucceed

-----------------------------------------------------------------------------
(* One step per action.                                                     *)

\* Between two calls nothing but a call can happen.
LEMMA IdleRests ==
  ASSUME Phase, pc = "idle"
  PROVE  Rests
BY DEF Phase, Ponders, Quiets, Listens, AskUnsent, AskOpened, AskUnderway, Asks, Hears,
       AnswerUnsent, AnswerOpened, AnswerUnderway

LEMMA CallSucceeds ==
  ASSUME Leeway, TypedAndSound, nfaults = 0, Well, Call
  PROVE  Well'
<1>1. pc = "idle" /\ ncalls' = ncalls + 1 /\ ncalls \in Nat
  BY Fit DEF Well, Call
<1>2. Rests
  BY <1>1, IdleRests DEF Well
<1>3. UNCHANGED <<toEcu, ring, ecuTx, ecuRx, owed, todo, nfaults>>
  BY DEF Call, ecuVars
<1>4. PICK o \in Ops \ {"recv"}, len \in RequestLens :
        IF len = 0 \/ len > MaxPayload
        THEN Return(IF len = 0 THEN "Malformed" ELSE "PayloadTooLong", << >>)
        ELSE /\ op' = o /\ pc' = "send"
             /\ tx' = TxNew(Message("req", ncalls + 1, len), OverflowChecks)
             /\ UNCHANGED <<rx, left, polled, pends, result, said>>
  <2>1. "recv" \notin Ops
    BY DEF Leeway
  <2> QED BY <2>1, Zenon DEF Call
<1>5. o = "request" /\ len \in Nat /\ len >= 1 /\ ~(len > MaxPayload)
  <2>1. o = "request" /\ len \in 1..MaxPayload /\ MaxPayload \in Nat
    BY MachineAssumption DEF Leeway, MachineAssumption
  <2> QED BY <2>1
<1>0. PICK P : P = Message("req", ncalls + 1, len)
  OBVIOUS
<1>6. /\ op' = "request" /\ pc' = "send" /\ tx' = TxNew(P, OverflowChecks)
      /\ UNCHANGED <<rx, pends, result>>
  BY <1>0, <1>4, <1>5
<1>7. P \in Questions'
  BY <1>0, <1>1 DEF Questions
<1>8. Numbered(P)
  <2>1. ncalls + 1 \in Nat /\ "req" \in {"req", "resp", "pend", "pad"}
    BY <1>1
  <2> QED BY <1>0, <1>5, <2>1, MessageNumbered
<1>9. Unsent(tx', P) /\ tx'.checked = OverflowChecks
  BY <1>6, <1>8 DEF Unsent, TxNew
<1>10. AskUnsent(P)'
  <2>1. ncalls' > 0
    BY <1>1
  <2>2. OverflowChecks => EcuBs # 0
    BY DEF Leeway
  <2> QED BY <1>2, <1>3, <1>6, <1>9, <2>1, <2>2 DEF AskUnsent, Asks, Rests, AtRest
<1>11. Phase'
  BY <1>7, <1>10 DEF Phase
<1>12. AsConfigured'
  BY <1>3, <1>6 DEF Well, AsConfigured
<1>13. PromptCallsSucceed'
  BY <1>6, NotFailed DEF Well
<1> QED BY <1>11, <1>12, <1>13 DEF Well

\* What phases a call goes through before and after its request has left.
LEMMA AskPhases ==
  ASSUME Phase, pc \in {"send", "fcpoll"}
  PROVE  \E P \in Questions : AskUnsent(P) \/ AskOpened(P) \/ AskUnderway(P)
BY DEF Phase, Rests, Ponders, Quiets, Listens, Hears, AnswerUnsent, AnswerOpened, AnswerUnderway

LEMMA AnswerPhases ==
  ASSUME Phase, pc \in {"recv", "rxpoll"}
  PROVE  \/ Ponders \/ \E P \in Questions : Hears(P)
         \/ \E P \in Replies : AnswerUnsent(P) \/ AnswerOpened(P) \/ AnswerUnderway(P)
BY DEF Phase, Rests, AskUnsent, AskOpened, AskUnderway, Asks

\* The caller looks at the clock, or at a flow control that is not there.
Looks ==
  /\ UNCHANGED <<op, tx, rx, left, pends, result, toEcu, ring, ecuTx, ecuRx, owed, todo,
                 ncalls, npends, nfaults>>
  /\ \/ pc \in {"send", "fcpoll"} /\ tx.st = "await" /\ pc' \in {"send", "fcpoll"}
     \/ pc \in {"recv", "rxpoll"} /\ pc' \in {"recv", "rxpoll"}

LEMMA LooksSucceed ==
  ASSUME nfaults = 0, Well, Looks
  PROVE  Well'
<1>1. Questions' = Questions /\ Replies' = Replies /\ Patience' = Patience
  BY SameCall DEF Looks
<1>2. AsConfigured'
  BY DEF Well, AsConfigured, Looks
<1>3. PromptCallsSucceed'
  BY NotFailed DEF Looks, Well
<1>4. \A n : Announces(ring, n) => Announces(ring, n)'
  <2>1. ring' = ring
    BY DEF Looks
  <2> QED BY <1>1, <2>1 DEF Announces
<1>5. CASE pc \in {"send", "fcpoll"} /\ tx.st = "await" /\ pc' \in {"send", "fcpoll"}
  <2>1. ASSUME NEW P \in Questions, AskUnsent(P) PROVE FALSE
    BY <1>5, <2>1 DEF AskUnsent, Unsent
  <2>2. ASSUME NEW P \in Questions, AskOpened(P) PROVE AskOpened(P)'
    BY <1>5, <2>2 DEF AskOpened, Asks, Looks, Alone
  <2>3. ASSUME NEW P \in Questions, AskUnderway(P) PROVE AskUnderway(P)'
    <3>1. EcuGrant' = EcuGrant
      BY DEF EcuGrant
    <3> QED BY <1>5, <2>3, <3>1 DEF AskUnderway, Asks, Looks
  <2>4. \E P \in Questions : AskUnsent(P) \/ AskOpened(P) \/ AskUnderway(P)
    BY <1>5, AskPhases DEF Well
  <2> QED BY <1>1, <1>2, <1>3, <2>1, <2>2, <2>3, <2>4, Zenon DEF Phase, Well
<1>6. CASE pc \in {"recv", "rxpoll"} /\ pc' \in {"recv", "rxpoll"}
  <2>1. Listens => Listens'
    BY <1>6 DEF Listens, Looks
  <2>2. Quiets => Quiets'
    BY <2>1 DEF Quiets, Looks, HostRx
  <2>3. Ponders => Ponders'
    BY <1>1, <1>4, <2>2 DEF Ponders, Looks
  <2>4. ASSUME NEW P \in Questions, Hears(P) PROVE Hears(P)'
    BY <2>1, <2>4 DEF Hears, Looks, HostRx, Alone
  <2>5. ASSUME NEW P \in Replies, AnswerUnsent(P) PROVE AnswerUnsent(P)'
    BY <1>1, <1>4, <2>2, <2>5 DEF AnswerUnsent, Looks
  <2>6. ASSUME NEW P \in Replies, AnswerOpened(P) PROVE AnswerOpened(P)'
    BY <1>1, <1>4, <2>2, <2>6 DEF AnswerOpened, Looks
  <2>7. ASSUME NEW P \in Replies, AnswerUnderway(P) PROVE AnswerUnderway(P)'
    <3>1. Paced(P)'
      BY <2>7 DEF AnswerUnderway, Paced, Pause, SentBytes, Looks
    <3> QED BY <2>1, <2>7, <3>1 DEF AnswerUnderway, HostGrant, Looks
  <2>8. \/ Ponders \/ \E P \in Questions : Hears(P)
        \/ \E P \in Replies : AnswerUnsent(P) \/ AnswerOpened(P) \/ AnswerUnderway(P)
    BY <1>6, AnswerPhases DEF Well
  <2>9. Phase'
    BY <1>1, <2>3, <2>4, <2>5, <2>6, <2>7, <2>8, Zenon DEF Phase
  <2> QED BY <1>2, <1>3, <2>9 DEF Well
<1> QED BY <1>5, <1>6 DEF Looks

\* The pauses of the ECU leave the caller time.
LEMMA InTime ==
  ASSUME Leeway, TypedAndSound, AsConfigured, NEW P \in Replies, NEW g,
         Underway(ecuTx, ring, rx, P, g), Paced(P)
  PROVE  left # 0
<1> SUFFICES ASSUME left = 0 PROVE FALSE
  OBVIOUS
<1> DEFINE F == FrameData
           s == decode_stmin(HostStMin)
           n == Len(P)
           T == RecvTimeout
<1>1. ecuTx \in TxMachines /\ rx \in RxMachines /\ ncalls \in Nat /\ T \in Nat
  BY Parts, Fit
<1>2. F \in Nat /\ n \in Nat /\ n * s < F * T
  BY <1>1, ReplyKnown, Constants, MachineAssumption
<1>3. s \in Nat
  BY StminTyped, CallConstants, IsoTpAssumption
<1>4. SentBytes(P) \in Nat /\ SentBytes(P) <= n /\ Pause \in Nat
  <2>1. ecuTx.st # "done" => ecuTx.offset < n
    BY <1>1, UnderwayStates
  <2>2. ecuTx.offset \in Nat /\ ecuTx.timer \in Nat
    BY <1>1, TxFields
  <2> QED BY <1>2, <2>1, <2>2 DEF SentBytes, Pause
<1>5. F * (T - left + Pause) <= SentBytes(P) * s
  BY DEF Paced
<1> HIDE DEF F, s, n, T
<1>6. F * (T + Pause) <= SentBytes(P) * s
  BY <1>1, <1>4, <1>5
<1>7. PICK d \in Nat : n = SentBytes(P) + d
  BY <1>2, <1>4, n - SentBytes(P) \in Nat /\ n = SentBytes(P) + (n - SentBytes(P))
<1>8. n * s = SentBytes(P) * s + d * s /\ d * s \in Nat /\ SentBytes(P) * s \in Nat
  BY <1>3, <1>4, <1>7
<1>9. F * (T + Pause) = F * T + F * Pause /\ F * Pause \in Nat /\ F * T \in Nat
  BY <1>1, <1>2, <1>4
<1> QED BY <1>2, <1>6, <1>8, <1>9

LEMMA Patient ==
  ASSUME Leeway, TypedAndSound, Well, pc \in {"recv", "rxpoll"}
  PROVE  ~RxExpired(rx) /\ left # 0
<1>1. RecvTimeout # 0 /\ ~RxExpired(HostRx) /\ rx \in RxMachines /\ ecuTx \in TxMachines
  BY Fit, HostRxFields, Parts DEF Well
<1>2. CASE Ponders \/ \E P \in Replies : AnswerUnsent(P) \/ AnswerOpened(P)
  BY <1>1, <1>2 DEF Ponders, Quiets, AnswerUnsent, AnswerOpened
<1>3. CASE \E P \in Questions : Hears(P)
  BY <1>1, <1>3 DEF Hears
<1>4. ASSUME NEW P \in Replies, AnswerUnderway(P) PROVE ~RxExpired(rx) /\ left # 0
  <2>1. Underway(ecuTx, ring, rx, P, toEcu # << >>) /\ Paced(P)
    BY <1>4 DEF AnswerUnderway
  <2>2. ~RxExpired(rx)
    BY <1>1, <2>1, UnderwayStates
  <2>3. left # 0
    BY <2>1, InTime DEF Well
  <2> QED BY <2>2, <2>3
<1> QED BY <1>2, <1>3, <1>4, AnswerPhases DEF Well

LEMMA Awaits ==
  ASSUME TypedAndSound, Well, pc \in {"send", "fcpoll"}, tx.st = "await"
  PROVE  tx.timer # 0
<1>1. tx \in TxMachines /\ ecuRx \in RxMachines /\ NBs # 0
  BY Parts, Constants, MachineAssumption
<1>2. PICK P \in Questions : AskUnsent(P) \/ AskOpened(P) \/ AskUnderway(P)
  BY AskPhases DEF Well
<1>3. CASE AskUnsent(P)
  BY <1>3 DEF AskUnsent, Unsent
<1>4. CASE AskOpened(P)
  BY <1>1, <1>4 DEF AskOpened, Opened
<1>5. CASE AskUnderway(P)
  <2>1. Underway(tx, toEcu, ecuRx, P, owed \/ ring # << >>)
    BY <1>5 DEF AskUnderway
  <2> QED BY <1>1, <2>1, UnderwayStates
<1> QED BY <1>2, <1>3, <1>4, <1>5

LEMMA HostLooks ==
  ASSUME Leeway, TypedAndSound, nfaults = 0, Well, AwaitFlow \/ RecvLoop \/ PollEmpty
  PROVE  Well'
<1>1. UNCHANGED <<toEcu, ring, ecuTx, ecuRx, owed, todo, ncalls, npends, nfaults>>
  BY DEF AwaitFlow, RecvLoop, PollEmpty, ecuVars
<1>2. CASE AwaitFlow
  <2>1. pc = "send" /\ tx.st = "await"
    BY <1>2 DEF AwaitFlow
  <2>2. Continue("fcpoll", tx, rx)
    BY <1>2, <2>1, Awaits DEF AwaitFlow
  <2> QED BY <1>1, <2>1, <2>2, LooksSucceed DEF Looks, Continue
<1>3. CASE RecvLoop
  <2>1. pc = "recv"
    BY <1>3 DEF RecvLoop
  <2>2. Continue("rxpoll", tx, rx)
    BY <1>3, <2>1, Patient DEF RecvLoop
  <2> QED BY <1>1, <2>1, <2>2, LooksSucceed DEF Looks, Continue
<1>4. CASE PollEmpty
  <2>1. Continue(IF pc = "fcpoll" THEN "send" ELSE "recv", tx, rx) /\ pc \in {"fcpoll", "rxpoll"}
    BY <1>4 DEF PollEmpty, Polling
  <2>2. pc = "fcpoll" => tx.st = "await"
    BY AskPhases DEF Well, AskUnsent, AskOpened, AskUnderway
  <2> QED BY <1>1, <2>1, <2>2, LooksSucceed DEF Looks, Continue
<1> QED BY <1>2, <1>3, <1>4

LEMMA NewReceive ==
  ASSUME Leeway, AsConfigured, rx' = HostRx, UNCHANGED <<ecuRx, ecuTx>>
  PROVE  AsConfigured'
BY HostRxFields DEF AsConfigured, Leeway

LEMMA SendSucceeds ==
  ASSUME Leeway, TypedAndSound, nfaults = 0, Well, SendFrame
  PROVE  Well'
<1>1. /\ pc = "send" /\ TxReady(tx) /\ tx.st # "await"
      /\ UNCHANGED <<ring, ecuTx, ecuRx, owed, todo, ncalls, nfaults>>
  BY DEF SendFrame, ecuVars, TxReady
<1>2. PICK P \in Questions : AskUnsent(P) \/ AskOpened(P) \/ AskUnderway(P)
  BY <1>1, AskPhases DEF Well
<1>3. Asks(P) /\ op = "request" /\ pends = 0 /\ ncalls > 0 /\ ecuTx.st = "done" /\ todo = 0
  BY <1>2 DEF AskUnsent, AskOpened, AskUnderway, Asks
<1>4. /\ tx \in TxMachines /\ TxSound(tx) /\ ecuRx \in RxMachines /\ toEcu \in Seq(Frames)
      /\ TxFrame(tx) \in Frames
  BY <1>1, Parts, TxFrameTyped, IsoTpAssumption, MachineAssumption
<1>5. P \in Questions'
  BY <1>1, <1>2, SameCall
<1> DEFINE m == TxSent(tx)
           f == TxFrame(tx)
<1>6. m.checked => EcuBs # 0
  BY <1>1, <1>3, <1>4, StepsDown DEF Asks
<1>7. ASSUME m.st # "panic"
      PROVE  /\ toEcu' = Append(toEcu, f) /\ result' = result /\ pc' # "idle" /\ pends' = 0
             /\ m.st # "done" => pc' = "send" /\ tx' = m /\ rx' = rx /\ op' = "request"
             /\ m.st = "done" => /\ pc' = "recv" /\ rx' = HostRx /\ left' = RecvTimeout
                                 /\ op' = "request"
  <2>1. toEcu' = Append(toEcu, f)
    BY <1>7 DEF SendFrame
  <2>2. CASE m.st = "done"
    <3>1. StartRecv /\ UNCHANGED pends
      BY <1>3, <2>2 DEF SendFrame
    <3> QED BY <1>3, <2>1, <2>2, <3>1 DEF StartRecv
  <2>3. CASE m.st # "done"
    <3>1. Continue("send", m, rx)
      BY <1>7, <2>3 DEF SendFrame
    <3> QED BY <1>3, <2>1, <2>3, <3>1 DEF Continue
  <2> QED BY <2>2, <2>3
<1>8. ASSUME m.st # "panic" PROVE AsConfigured' /\ PromptCallsSucceed'
  <2>1. PromptCallsSucceed'
    BY <1>7, <1>8, NotFailed DEF Well
  <2>2. CASE m.st = "done"
    BY <1>1, <1>7, <1>8, <2>1, <2>2, NewReceive DEF Well
  <2>3. CASE m.st # "done"
    BY <1>1, <1>7, <1>8, <2>1, <2>3 DEF Well, AsConfigured
  <2> QED BY <2>2, <2>3
<1> HIDE DEF m, f
<1>9. CASE AskUnsent(P) /\ tx.st = "single"
  <2>1. m.st = "done" /\ Single(f, P)
    BY <1>4, <1>9, SendsSingle DEF AskUnsent, m, f
  <2>2. toEcu' = <<f>> /\ f \in Frames
    BY <1>4, <1>7, <1>9, <2>1, OneFrame DEF AskUnsent, f
  <2>3. Alone(toEcu') /\ Head(toEcu') = f
    BY <2>2, OneFrame
  <2>4. Listens'
    BY <1>1, <1>3, <1>7, <1>9, <2>1 DEF Listens, AskUnsent
  <2>5. Hears(P)'
    BY <1>1, <1>3, <1>7, <1>9, <2>1, <2>3, <2>4, HostRxFields DEF Hears, AskUnsent, HostRx
  <2> QED BY <1>5, <1>8, <2>1, <2>5 DEF Well, Phase
<1>10. CASE AskUnsent(P) /\ tx.st # "single"
  <2>1. tx.st = "first"
    BY <1>10 DEF AskUnsent, Unsent
  <2>2. Opened(m, f, P) /\ m.st = "await"
    BY <1>4, <1>10, <2>1, SendsFirst DEF AskUnsent, m, f
  <2>3. toEcu' = <<f>> /\ f \in Frames
    BY <1>4, <1>7, <1>10, <2>2, OneFrame DEF AskUnsent, f
  <2>4. Alone(toEcu') /\ Head(toEcu') = f
    BY <2>3, OneFrame
  <2>5. tx' = m /\ pc' = "send" /\ op' = "request" /\ pends' = 0
    BY <1>7, <2>2
  <2>6. Asks(P)'
    BY <1>1, <1>3, <1>6, <2>5 DEF Asks
  <2>7. AskOpened(P)'
    BY <1>1, <1>10, <2>2, <2>4, <2>5, <2>6 DEF AskOpened, AskUnsent
  <2> QED BY <1>5, <1>8, <2>2, <2>7 DEF Well, Phase
<1>11. CASE AskOpened(P)
  BY <1>1, <1>11 DEF AskOpened
<1>12. CASE AskUnderway(P)
  <2> DEFINE g == owed \/ ring # << >>
  <2>1. Underway(tx, toEcu, ecuRx, P, g)
    BY <1>12 DEF AskUnderway
  <2>2. ecuRx.bs < CounterMod /\ (tx.checked => ecuRx.bs # 0)
    BY <1>3, Fit DEF Asks, Well, AsConfigured
  <2> HIDE DEF g
  <2>3. Underway(m, Append(toEcu, f), ecuRx, P, FALSE) /\ g = FALSE
    <3>1. m = TxSent(tx) \/ (TxSent(tx).st = "done" /\ m.st = "done")
      BY DEF m
    <3>2. Underway(m, Append(toEcu, TxFrame(tx)), ecuRx, P, FALSE)
      BY <1>1, <1>4, <2>1, <2>2, <3>1, UnderwaySends
    <3>3. g = (tx.st = "await" /\ toEcu = << >>)
      BY <1>4, <2>1, UnderwayStates
    <3>4. g = FALSE
      BY <1>1, <3>3
    <3> QED BY <3>2, <3>4 DEF f
  <2>4. m.st = "done" => Underway(TxNone, Append(toEcu, f), ecuRx, P, FALSE)
    <3>1. TxNone.st = "done"
      BY TxNoneTyped, MachineAssumption
    <3> QED BY <1>1, <1>4, <2>1, <2>2, <3>1, UnderwaySends DEF m, f
  <2>5. m.st \in {"cons", "await", "done"}
    <3>1. m \in TxMachines
      BY <1>1, <1>4, TxSentTyped, MachineAssumption DEF m
    <3> QED BY <1>4, <2>3, <3>1, UnderwayStates
  <2>6. ring = << >> /\ ~owed
    BY <2>3 DEF g
  <2>7. CASE m.st = "done"
    <3>1. Listens'
      BY <1>1, <1>3, <1>7, <2>6, <2>7 DEF Listens
    <3>2. Hears(P)'
      BY <1>1, <1>3, <1>7, <2>4, <2>6, <2>7, <3>1 DEF Hears, HostRx, TxNone, TxNew
    <3> QED BY <1>5, <1>8, <2>7, <3>2 DEF Well, Phase
  <2>8. CASE m.st # "done"
    <3>1. tx' = m /\ pc' = "send" /\ op' = "request" /\ pends' = 0 /\ toEcu' = Append(toEcu, f)
      BY <1>7, <2>5, <2>8
    <3>2. Asks(P)'
      BY <1>1, <1>3, <1>6, <3>1 DEF Asks
    <3>3. AskUnderway(P)'
      <4>1. (owed \/ ring # << >>)' = FALSE
        BY <1>1, <2>6
      <4> QED BY <1>1, <2>3, <2>6, <2>8, <3>1, <3>2, <4>1 DEF AskUnderway
    <3> QED BY <1>5, <1>8, <2>5, <3>3 DEF Well, Phase
  <2> QED BY <2>7, <2>8
<1> QED BY <1>2, <1>9, <1>10, <1>11, <1>12

LEMMA GrantFields ==
  /\ EcuGrant \in Frames /\ EcuGrant.pci = "FC" /\ EcuGrant.fs = "cts"
  /\ HostGrant \in Frames /\ HostGrant.pci = "FC" /\ HostGrant.fs = "cts"
  /\ decode_stmin(EcuStMin) \in Nat /\ decode_stmin(HostStMin) \in Nat
<1>1. EcuBs \in Byte8 /\ EcuStMin \in Byte8 /\ HostBs \in Byte8 /\ HostStMin \in Byte8
  BY CallConstants, IsoTpAssumption
<1>2. EcuGrant \in Frames /\ HostGrant \in Frames
  BY <1>1, FlowControlTyped DEF EcuGrant, HostGrant
<1>3. /\ EcuGrant.pci = "FC" /\ EcuGrant.fs = "cts"
      /\ HostGrant.pci = "FC" /\ HostGrant.fs = "cts"
  BY DEF EcuGrant, HostGrant, FlowControl
<1> QED BY <1>1, <1>2, <1>3, StminTyped

LEMMA GrantSucceeds ==
  ASSUME Leeway, TypedAndSound, nfaults = 0, Well, FlowPolled
  PROVE  Well'
<1>1. /\ pc = "fcpoll" /\ ring # << >> /\ ring' = Tail(ring)
      /\ UNCHANGED <<toEcu, ecuTx, ecuRx, owed, todo, ncalls, nfaults>>
  BY DEF FlowPolled, ecuVars
<1>2. PICK P \in Questions : AskUnderway(P)
  BY <1>1, AskPhases DEF Well, AskUnsent, AskOpened
<1>3. /\ op = "request" /\ pends = 0 /\ ncalls > 0 /\ ecuTx.st = "done" /\ todo = 0
      /\ (tx.checked => EcuBs # 0)
  BY <1>2 DEF AskUnderway, Asks
<1>4. ring = <<EcuGrant>> /\ ~owed /\ (owed \/ ring # << >>) = TRUE
  BY <1>1, <1>2 DEF AskUnderway
<1>5. Underway(tx, toEcu, ecuRx, P, TRUE)
  BY <1>2, <1>4 DEF AskUnderway
<1>6. tx \in TxMachines /\ ecuRx \in RxMachines /\ EcuGrant \in Frames
  BY Parts, GrantFields
<1>7. Head(ring) = EcuGrant /\ ring' = << >>
  BY <1>1, <1>4, <1>6, OneFrame
<1> DEFINE o == TxOnFrame(tx, EcuGrant)
<1>8. toEcu = << >> /\ tx.st = "await" /\ Underway(o.tx, << >>, ecuRx, P, FALSE)
  <2>1. EcuBs = ecuRx.bs /\ decode_stmin(EcuStMin) <= NCr /\ decode_stmin(EcuStMin) >= 0
    BY GrantFields DEF Well, AsConfigured, Leeway
  <2> DEFINE u == TxOnFrame(tx, FlowControl("cts", EcuBs, EcuStMin)).tx
  <2>2. Underway(u, << >>, ecuRx, P, FALSE)
    BY <1>5, <1>6, <2>1, UnderwayGranted
  <2>4. toEcu = << >> /\ tx.st = "await"
    BY <1>5, <1>6, UnderwayStates
  <2>3. u = o.tx
    BY DEF EcuGrant
  <2> HIDE DEF u, o
  <2> QED BY <2>2, <2>3, <2>4
<1>9. o.err = "ok" /\ o.tx.st = "cons" /\ o.tx.checked = tx.checked
  BY <1>6, <1>8, GrantTaken DEF EcuGrant
<1> HIDE DEF o
<1>10. Continue("send", o.tx, rx)
  BY <1>7, <1>9 DEF FlowPolled, o
<1>11. /\ pc' = "send" /\ op' = "request" /\ pends' = 0 /\ tx' = o.tx /\ rx' = rx
       /\ result' = result
  BY <1>3, <1>10 DEF Continue
<1>12. P \in Questions'
  BY <1>1, <1>2, SameCall
<1>13. AskUnderway(P)'
  <2>1. Asks(P)'
    BY <1>1, <1>3, <1>9, <1>11 DEF Asks
  <2>2. (owed \/ ring # << >>)' = FALSE
    BY <1>1, <1>4, <1>7
  <2>3. toEcu' = << >>
    BY <1>1, <1>8
  <2> QED BY <1>1, <1>7, <1>8, <1>9, <1>11, <2>1, <2>2, <2>3 DEF AskUnderway
<1>14. AsConfigured'
  BY <1>1, <1>11 DEF Well, AsConfigured
<1>15. PromptCallsSucceed'
  BY <1>11, NotFailed DEF Well
<1> QED BY <1>12, <1>13, <1>14, <1>15 DEF Well, Phase

LEMMA SameResult ==
  ASSUME PromptCallsSucceed, UNCHANGED <<result, pc, ncalls, nfaults>>
  PROVE  PromptCallsSucceed'
BY DEF PromptCallsSucceed

LEMMA UnderwayRearmed ==
  ASSUME NEW t \in TxMachines, NEW q, NEW r \in RxMachines, NEW P,
         Underway(t, q, r, P, TRUE)
  PROVE  LET v == [r EXCEPT !.timer = NCr]
         IN  /\ Underway(t, q, v, P, TRUE) /\ v.bs = r.bs /\ v.checked = r.checked
             /\ q = << >> /\ t.st = "await"
<1> DEFINE v == [r EXCEPT !.timer = NCr]
<1>1. PICK k \in Nat \ {0} : Stage(t, q, r, P, k)
  BY DEF Underway
<1>2. t.st = "await" /\ q = << >> /\ Numbered(P) /\ Len(P) > FrameData
  BY DEF Underway
<1>3. /\ v.st = r.st /\ v.ffdl = r.ffdl /\ v.sn = r.sn /\ v.buf = r.buf /\ v.bs = r.bs
      /\ v.cfs = r.cfs /\ v.timer = NCr /\ v.checked = r.checked
  BY DEF RxMachines
<1> HIDE DEF v
<1>4. Pauses(t, q, r, P, k + Len(q)) /\ Has(r, P, k) /\ Row(q, P, k)
  BY <1>1, <1>2 DEF Stage, Streams, Finished
<1>5. Pauses(t, q, v, P, k + Len(q))
  BY <1>3, <1>4 DEF Pauses
<1>6. Stage(t, q, v, P, k)
  BY <1>3, <1>4, <1>5 DEF Stage, Has
<1>7. v.timer >= 0
  BY <1>3, Constants, MachineAssumption
<1>8. TRUE = (t.st = "await" /\ q = << >>)
  BY <1>2
<1> QED BY <1>2, <1>3, <1>6, <1>7, <1>8 DEF Underway, v

\* Only in the middle of a request does the ECU owe a flow control.
LEMMA OwesPhase ==
  ASSUME Phase, owed
  PROVE  \E P \in Questions : AskUnderway(P)
BY DEF Phase, Rests, Ponders, Quiets, Listens, Hears, AnswerUnsent, AnswerOpened,
       AnswerUnderway, AskUnsent, AskOpened

LEMMA FlowSucceeds ==
  ASSUME Leeway, TypedAndSound, nfaults = 0, Well, EcuFlow
  PROVE  Well'
<1>1. owed /\ UNCHANGED <<pc, op, tx, rx, left, pends, result, toEcu, ecuTx, todo, ncalls,
                          npends, nfaults>>
  BY DEF EcuFlow, hostVars
<1>2. PICK P \in Questions : AskUnderway(P)
  BY <1>1, OwesPhase DEF Well
<1>3. ring = << >> /\ (owed \/ ring # << >>) = TRUE
  BY <1>1, <1>2 DEF AskUnderway
<1>4. Underway(tx, toEcu, ecuRx, P, TRUE) /\ tx.st # "done" /\ Asks(P)
      /\ (pc = "fcpoll" => tx.st = "await")
  BY <1>2, <1>3 DEF AskUnderway
<1>5. PICK fs \in EcuFlows :
        /\ Deposit(FlowControl(fs, EcuBs, EcuStMin)) /\ owed' = (fs = "wait")
        /\ ecuRx' = IF fs = "ovflw" THEN EcuIdle ELSE [ecuRx EXCEPT !.timer = NCr]
  BY DEF EcuFlow
<1>6. fs = "cts"
  BY DEF Leeway
<1>7. /\ Deposit(EcuGrant) /\ owed' = FALSE /\ ecuRx' = [ecuRx EXCEPT !.timer = NCr]
  BY <1>5, <1>6 DEF EcuGrant
<1>8. ring' = <<EcuGrant>> /\ ring' # << >>
  <2>1. Len(ring) < RingCap
    BY <1>3, Fit DEF Well
  <2>2. ring' = Append(<< >>, EcuGrant)
    BY <1>3, <1>7, <2>1 DEF Deposit
  <2> QED BY <2>2, OneFrame, GrantFields
<1>9. tx \in TxMachines /\ ecuRx \in RxMachines
  BY Parts
<1>10. Underway(tx, toEcu, ecuRx', P, TRUE) /\ ecuRx'.bs = ecuRx.bs
       /\ ecuRx'.checked = ecuRx.checked
  BY <1>4, <1>7, <1>9, UnderwayRearmed
<1>11. P \in Questions' /\ EcuGrant' = EcuGrant
  BY <1>1, SameCall DEF EcuGrant
<1>12. AskUnderway(P)'
  <2>1. Asks(P)'
    BY <1>1, <1>4 DEF Asks
  <2>2. (owed \/ ring # << >>)' = TRUE
    BY <1>8
  <2> QED BY <1>1, <1>4, <1>7, <1>8, <1>10, <1>11, <2>1, <2>2 DEF AskUnderway
<1>13. AsConfigured'
  BY <1>1, <1>10 DEF Well, AsConfigured
<1>14. PromptCallsSucceed'
  BY <1>1, SameResult DEF Well
<1> QED BY <1>11, <1>12, <1>13, <1>14 DEF Well, Phase

\* The ECU has a request to answer.
LEMMA PondersPhase ==
  ASSUME Phase, todo # 0
  PROVE  Ponders
BY DEF Phase, Rests, AtRest, Hears, AnswerUnsent, AnswerOpened, AnswerUnderway, AskUnsent,
       AskOpened, AskUnderway, Asks

LEMMA NewUnsent ==
  ASSUME NEW P, Numbered(P), NEW c
  PROVE  Unsent(TxNew(P, c), P) /\ TxNew(P, c).checked = c
BY DEF Unsent, TxNew

LEMMA AnswerSucceeds ==
  ASSUME Leeway, TypedAndSound, nfaults = 0, Well, EcuAnswer
  PROVE  Well'
<1>1. /\ todo # 0 /\ ecuTx.st = "done"
      /\ UNCHANGED <<pc, op, tx, rx, left, pends, result, toEcu, ring, ecuRx, owed, ncalls,
                     nfaults>>
  BY DEF EcuAnswer, hostVars
<1>2. Ponders
  BY <1>1, PondersPhase DEF Well
<1>3. /\ Quiets /\ todo = ncalls /\ Announces(ring, Len(ring))
      /\ pends + Len(ring) <= npends
  BY <1>1, <1>2 DEF Ponders, Unsent
<1>4. Questions' = Questions /\ Replies' = Replies /\ Patience' = Patience
  BY <1>1, SameCall
<1>5. pends \in Nat /\ npends \in Nat /\ ncalls \in Nat /\ Len(ring) \in Nat
  <2>1. ring \in Seq(Frames)
    BY Parts
  <2> QED BY <2>1, Fit, LenProperties DEF Well
<1>6. Quiets'
  BY <1>1, <1>3 DEF Quiets, Listens, HostRx
<1>7. Announces(ring, Len(ring))'
  BY <1>1, <1>3, <1>4 DEF Announces
<1>8. PromptCallsSucceed'
  BY <1>1, SameResult DEF Well
<1>9. PICK len \in AnswerLens :
        \/ /\ ecuTx' = TxNew(Message("resp", ncalls, len), FALSE)
           /\ todo' = 0 /\ npends' = npends
        \/ /\ npends' = npends + 1
           /\ ecuTx' = TxNew(Message("pend", ncalls, 1), FALSE)
           /\ todo' = todo
  BY <1>3 DEF EcuAnswer
<1>10. ASSUME NEW P, Numbered(P), ecuTx' = TxNew(P, FALSE)
       PROVE  Unsent(ecuTx', P) /\ AsConfigured'
  <2>1. Unsent(ecuTx', P) /\ ecuTx'.checked = FALSE
    BY <1>10, NewUnsent
  <2> QED BY <1>1, <2>1 DEF Well, AsConfigured
<1>11. CASE /\ ecuTx' = TxNew(Message("resp", ncalls, len), FALSE)
            /\ todo' = 0 /\ npends' = npends
  <2>1. PICK P : P = Message("resp", ncalls, len)
    OBVIOUS
  <2>2. P \in Replies /\ P \in Replies'
    BY <1>4, <2>1 DEF Replies
  <2>3. Numbered(P)
    BY <1>5, <2>2, ReplyKnown
  <2>4. Unsent(ecuTx', P) /\ AsConfigured'
    BY <1>10, <1>11, <2>1, <2>3
  <2>5. pends' + Len(ring') <= npends'
    BY <1>1, <1>3, <1>11
  <2>6. AnswerUnsent(P)'
    BY <1>6, <1>7, <1>11, <2>4, <2>5 DEF AnswerUnsent
  <2> QED BY <1>8, <2>2, <2>4, <2>6 DEF Well, Phase
<1>12. CASE /\ npends' = npends + 1 /\ todo' = todo
            /\ ecuTx' = TxNew(Message("pend", ncalls, 1), FALSE)
  <2>1. Numbered(Patience)
    BY <1>5, PatienceKnown
  <2>2. Unsent(ecuTx', Patience) /\ AsConfigured'
    BY <1>10, <1>12, <2>1 DEF Patience
  <2>3. pends' + Len(ring') < npends'
    BY <1>1, <1>3, <1>5, <1>12
  <2>4. Ponders'
    BY <1>1, <1>3, <1>4, <1>6, <1>7, <1>12, <2>2, <2>3 DEF Ponders
  <2> QED BY <1>8, <2>2, <2>4 DEF Well, Phase
<1> QED BY <1>9, <1>11, <1>12

LEMMA NeverExpires ==
  ASSUME Leeway, TypedAndSound, Well
  PROVE  /\ ecuTx.st = "await" => ecuTx.timer # 0
         /\ ~RxExpired(ecuRx) /\ pc # "panicked"
<1>1. ecuTx \in TxMachines /\ tx \in TxMachines /\ rx \in RxMachines /\ ecuRx \in RxMachines
  BY Parts
<1>2. NBs # 0
  BY Constants, MachineAssumption
<1>3. CASE Rests \/ Ponders
  BY <1>3 DEF Rests, AtRest, Ponders, Quiets, Listens, Unsent, RxExpired
<1>4. ASSUME NEW P \in Questions, AskUnsent(P) \/ AskOpened(P)
      PROVE  ecuTx.st = "done" /\ ~RxExpired(ecuRx) /\ pc # "panicked"
  BY <1>4 DEF AskUnsent, AskOpened, Asks, RxExpired
<1>5. ASSUME NEW P \in Questions, AskUnderway(P)
      PROVE  ecuTx.st = "done" /\ ~RxExpired(ecuRx) /\ pc # "panicked"
  <2>1. ecuTx.st = "done" /\ pc # "panicked"
    BY <1>5 DEF AskUnderway, Asks
  <2>2. Underway(tx, toEcu, ecuRx, P, owed \/ ring # << >>)
    BY <1>5 DEF AskUnderway
  <2> QED BY <1>1, <2>1, <2>2, UnderwayStates
<1>6. ASSUME NEW P \in Questions, Hears(P)
      PROVE  ecuTx.st = "done" /\ ~RxExpired(ecuRx) /\ pc # "panicked"
  <2>1. ecuTx.st = "done" /\ pc # "panicked"
    BY <1>6 DEF Hears, Listens
  <2>2. CASE ecuRx.st = "idle"
    BY <2>1, <2>2 DEF RxExpired
  <2>3. CASE Underway(TxNone, toEcu, ecuRx, P, FALSE)
    <3>1. TxNone \in TxMachines
      BY TxNoneTyped, MachineAssumption
    <3> QED BY <1>1, <2>1, <2>3, <3>1, UnderwayStates
  <2> QED BY <1>6, <2>2, <2>3 DEF Hears
<1>7. ASSUME NEW P \in Replies, AnswerUnsent(P) \/ AnswerOpened(P)
      PROVE  (ecuTx.st = "await" => ecuTx.timer # 0) /\ ~RxExpired(ecuRx) /\ pc # "panicked"
  BY <1>2, <1>7 DEF AnswerUnsent, AnswerOpened, Quiets, Listens, Unsent, Opened, RxExpired
<1>8. ASSUME NEW P \in Replies, AnswerUnderway(P)
      PROVE  (ecuTx.st = "await" => ecuTx.timer # 0) /\ ~RxExpired(ecuRx) /\ pc # "panicked"
  <2>1. Underway(ecuTx, ring, rx, P, toEcu # << >>) /\ ecuRx.st = "idle" /\ pc # "panicked"
    BY <1>8 DEF AnswerUnderway, Listens
  <2>2. ecuTx.st = "await" => ecuTx.timer = NBs
    BY <1>1, <2>1, UnderwayStates
  <2> QED BY <1>2, <2>1, <2>2 DEF RxExpired
<1> QED BY <1>3, <1>4, <1>5, <1>6, <1>7, <1>8 DEF Well, Phase

LEMMA NoneExpires ==
  ASSUME Leeway, TypedAndSound, Well, EcuExpires
  PROVE  FALSE
BY NeverExpires DEF EcuExpires

\* When nobody has anything to do there are three things left to wait for: the
\* next call, and the pause between two consecutive frames of either side.
LEMMA WaitsPhase ==
  ASSUME Leeway, TypedAndSound, Well, HostWaits, EcuWaits
  PROVE  \/ Rests
         \/ \E P \in Questions :
              AskUnderway(P) /\ pc = "send" /\ ~TxReady(tx) /\ ring = << >> /\ ~owed
                /\ toEcu = << >>
         \/ \E P \in Replies :
              AnswerUnderway(P) /\ ~TxReady(ecuTx) /\ ring = << >> /\ toEcu = << >>
<1>1. ecuTx \in TxMachines /\ tx \in TxMachines /\ rx \in RxMachines /\ ecuRx \in RxMachines
      /\ TxNone \in TxMachines /\ TxNone.st = "done"
  BY Parts, TxNoneTyped, MachineAssumption
<1>2. /\ toEcu = << >> /\ ~owed /\ ~TxReady(ecuTx) /\ (todo = 0 \/ ecuTx.st # "done")
  BY DEF EcuWaits, Leeway
<1>3. /\ pc \notin {"idle", "panicked"} =>
           \/ pc = "send" /\ tx.st = "cons" /\ tx.timer > 0
           \/ pc \in {"fcpoll", "rxpoll"} /\ ring = << >>
  BY DEF HostWaits, Polling
<1>4. ASSUME Ponders PROVE FALSE
  <2>1. ncalls > 0 /\ todo = ncalls
    BY <1>4 DEF Ponders, Quiets, Listens
  <2>2. todo # 0
    BY <2>1, Fit DEF Well
  <2> QED BY <1>2, <1>4, <2>2 DEF Ponders, Unsent, TxReady
<1>5. ASSUME NEW P \in Questions, AskUnsent(P) \/ AskOpened(P) PROVE FALSE
  BY <1>2, <1>3, <1>5 DEF AskUnsent, AskOpened, Unsent, Alone
<1>6. ASSUME NEW P \in Questions, AskUnderway(P)
      PROVE  pc = "send" /\ ~TxReady(tx) /\ ring = << >> /\ ~owed /\ toEcu = << >>
  <2>1. Underway(tx, toEcu, ecuRx, P, owed \/ ring # << >>) /\ Asks(P)
        /\ (pc = "fcpoll" => tx.st = "await")
    BY <1>6 DEF AskUnderway
  <2>2. (owed \/ ring # << >>) = (tx.st = "await" /\ toEcu = << >>)
    BY <1>1, <2>1, UnderwayStates
  <2>3. pc \in {"send", "fcpoll"}
    BY <2>1 DEF Asks
  <2>4. CASE pc = "send" /\ tx.st = "cons" /\ tx.timer > 0
    BY <1>2, <2>2, <2>4 DEF TxReady
  <2>5. CASE pc = "fcpoll" /\ ring = << >>
    BY <1>2, <2>1, <2>2, <2>5
  <2> QED BY <1>3, <2>3, <2>4, <2>5
<1>7. ASSUME NEW P \in Questions, Hears(P) PROVE FALSE
  <2>1. CASE Alone(toEcu)
    BY <1>2, <2>1 DEF Alone
  <2>2. CASE Underway(TxNone, toEcu, ecuRx, P, FALSE)
    BY <1>1, <1>2, <2>2, UnderwayStates
  <2> QED BY <1>7, <2>1, <2>2 DEF Hears
<1>8. ASSUME NEW P \in Replies, AnswerUnsent(P) PROVE FALSE
  BY <1>2, <1>8 DEF AnswerUnsent, Unsent, TxReady
<1>9. ASSUME NEW P \in Replies, AnswerOpened(P) PROVE FALSE
  BY <1>3, <1>9 DEF AnswerOpened, Quiets, Listens
<1>10. ASSUME NEW P \in Replies, AnswerUnderway(P)
       PROVE  ~TxReady(ecuTx) /\ ring = << >> /\ toEcu = << >>
  BY <1>2, <1>3, <1>10 DEF AnswerUnderway, Listens
<1> QED BY <1>4, <1>5, <1>6, <1>7, <1>8, <1>9, <1>10 DEF Well, Phase

LEMMA TicksKeep ==
  ASSUME TypedAndSound, AsConfigured, Tick
  PROVE  /\ AsConfigured' /\ tx'.st = tx.st /\ tx'.checked = tx.checked /\ ecuTx'.st = ecuTx.st
         /\ ecuTx'.offset = ecuTx.offset /\ ecuTx'.stmin = ecuTx.stmin
         /\ ecuRx'.st = ecuRx.st
<1>1. /\ tx' = [tx EXCEPT !.timer = Down(@)] /\ ecuTx' = [ecuTx EXCEPT !.timer = Down(@)]
      /\ rx' = RxDown(rx) /\ ecuRx' = RxDown(ecuRx)
  BY DEF Tick
<1>2. /\ tx'.st = tx.st /\ tx'.checked = tx.checked
  BY <1>1, Parts DEF TxMachines
<1>3. /\ ecuTx'.st = ecuTx.st /\ ecuTx'.checked = ecuTx.checked
      /\ ecuTx'.offset = ecuTx.offset /\ ecuTx'.stmin = ecuTx.stmin
  BY <1>1, Parts DEF TxMachines
<1>4. rx'.bs = rx.bs /\ rx'.checked = rx.checked
  BY <1>1, Parts DEF RxMachines, RxDown
<1>5. ecuRx'.st = ecuRx.st /\ ecuRx'.bs = ecuRx.bs /\ ecuRx'.checked = ecuRx.checked
  BY <1>1, Parts DEF RxMachines, RxDown
<1> QED BY <1>2, <1>3, <1>4, <1>5 DEF AsConfigured

LEMMA TickSucceeds ==
  ASSUME Leeway, TypedAndSound, nfaults = 0, Well, Tick
  PROVE  Well'
<1>1. /\ tx' = [tx EXCEPT !.timer = Down(@)] /\ ecuTx' = [ecuTx EXCEPT !.timer = Down(@)]
      /\ rx' = RxDown(rx) /\ ecuRx' = RxDown(ecuRx) /\ left' = Down(left)
      /\ UNCHANGED <<pc, op, pends, result, toEcu, ring, owed, todo, ncalls, npends, nfaults>>
  BY DEF Tick
<1>2. HostWaits /\ EcuWaits
  BY DEF Tick, Leeway
<1>3. /\ AsConfigured' /\ tx'.st = tx.st /\ tx'.checked = tx.checked /\ ecuTx'.st = ecuTx.st
      /\ ecuTx'.offset = ecuTx.offset /\ ecuTx'.stmin = ecuTx.stmin
      /\ ecuRx'.st = ecuRx.st
  BY TicksKeep DEF Well
<1>4. PromptCallsSucceed'
  BY <1>1, SameResult DEF Well
<1>5. Questions' = Questions /\ Replies' = Replies
  BY <1>1, SameCall
<1>6. ecuTx \in TxMachines /\ tx \in TxMachines /\ rx \in RxMachines /\ ecuRx \in RxMachines
  BY Parts
<1>7. ASSUME Rests PROVE Rests'
  BY <1>1, <1>3, <1>7 DEF Rests, AtRest
<1>8. ASSUME NEW P \in Questions, AskUnderway(P), pc = "send", ~TxReady(tx), ring = << >>,
             ~owed, toEcu = << >>
      PROVE  AskUnderway(P)'
  <2>1. Underway(tx, << >>, ecuRx, P, FALSE) /\ Asks(P) /\ tx.st # "done"
    <3>1. (owed \/ ring # << >>) = FALSE
      BY <1>8
    <3> QED BY <1>8, <3>1 DEF AskUnderway
  <2>2. Underway(tx', << >>, ecuRx', P, FALSE)
    BY <1>1, <1>6, <1>8, <2>1, UnderwayTicks
  <2>3. Asks(P)'
    BY <1>1, <1>3, <2>1 DEF Asks
  <2>4. (owed \/ ring # << >>)' = FALSE
    BY <1>1, <1>8
  <2> QED BY <1>1, <1>3, <1>8, <2>1, <2>2, <2>3, <2>4 DEF AskUnderway
<1>9. ASSUME NEW P \in Replies, AnswerUnderway(P), ~TxReady(ecuTx), ring = << >>,
             toEcu = << >>
      PROVE  AnswerUnderway(P)'
  <2>1. Underway(ecuTx, << >>, rx, P, FALSE) /\ Listens /\ Paced(P) /\ todo = 0
        /\ ecuRx.st = "idle"
    <3>1. (toEcu # << >>) = FALSE
      BY <1>9
    <3> QED BY <1>9, <3>1 DEF AnswerUnderway
  <2>2. Underway(ecuTx', << >>, rx', P, FALSE) /\ ecuTx.st = "cons" /\ ecuTx.timer > 0
    BY <1>1, <1>6, <1>9, <2>1, UnderwayTicks
  <2>3. left # 0 /\ left \in Nat /\ RecvTimeout \in Nat
    <3>1. pc \in {"recv", "rxpoll"}
      BY <2>1 DEF Listens
    <3> QED BY <3>1, Patient, Fit DEF Well
  <2>4. Paced(P)'
    <3>1. left' = left - 1
      BY <1>1, <2>3 DEF Down
    <3>2. Pause = ecuTx.timer /\ Pause' = Pause - 1 /\ Pause \in Nat
      <4>1. ecuTx'.timer = ecuTx.timer - 1 /\ ecuTx.timer \in Nat
        BY <1>1, <1>6, <2>2, TxFields DEF TxMachines, Down
      <4> QED BY <1>3, <2>2, <4>1 DEF Pause
    <3>3. SentBytes(P)' = SentBytes(P)
      BY <1>3 DEF SentBytes
    <3>4. RecvTimeout - left' + Pause' = RecvTimeout - left + Pause
      BY <2>3, <3>1, <3>2
    <3> QED BY <1>3, <2>1, <3>3, <3>4 DEF Paced
  <2>5. Listens'
    BY <1>1, <2>1 DEF Listens
  <2>6. (toEcu # << >>)' = FALSE
    BY <1>1, <1>9
  <2> QED BY <1>1, <1>3, <1>9, <2>1, <2>2, <2>4, <2>5, <2>6 DEF AnswerUnderway
<1>10. Phase'
  BY <1>2, <1>5, <1>7, <1>8, <1>9, WaitsPhase, Zenon DEF Phase
<1> QED BY <1>3, <1>4, <1>10 DEF Well

LEMMA RxTyped ==
  ASSUME NEW r \in RxMachines, RxSound(r), NEW f \in Frames
  PROVE  RxOnFrame(r, f).rx \in RxMachines
BY RxOnFrameFine, MachineAssumption DEF RxFine

LEMMA SingleTaken ==
  ASSUME NEW r \in RxMachines, NEW m, Numbered(m), NEW f, Single(f, m)
  PROVE  LET w == RxOnFrame(r, f)
         IN  /\ w.ev = "done" /\ w.out = m /\ w.rx.st = "idle" /\ f.pci = "SF"
             /\ w.rx.bs = r.bs /\ w.rx.checked = r.checked
<1> DEFINE w == RxOnFrame(r, f)
<1>1. w.ev = "done" /\ w.out = m /\ f.pci = "SF"
  BY TakesSingle DEF Ends, Single
<1>2. w = RxSingle(r, f)
  BY <1>1 DEF RxOnFrame
<1>3. w.rx = RxDrop(r)
  <2>1. ~(f.len = 0 \/ f.len > Len(f.data))
    <3> SUFFICES ASSUME f.len = 0 \/ f.len > Len(f.data) PROVE FALSE
      OBVIOUS
    <3>1. w = RxKeeps(r, "Malformed")
      BY <1>2 DEF RxSingle
    <3>2. w.ev = "Malformed"
      BY <3>1 DEF RxKeeps
    <3> QED BY <1>1, <3>2
  <2> QED BY <1>2, <2>1 DEF RxSingle
<1>4. RxDrop(r).st = "idle" /\ RxDrop(r).bs = r.bs /\ RxDrop(r).checked = r.checked
  BY DEF RxDrop, RxMachines
<1> QED BY <1>1, <1>3, <1>4

\* Something is on its way to the ECU.
LEMMA HearsPhase ==
  ASSUME Phase, toEcu # << >>
  PROVE  \/ \E P \in Questions : AskOpened(P) \/ AskUnderway(P) \/ Hears(P)
         \/ \E P \in Replies : AnswerUnderway(P)
BY DEF Phase, Rests, AtRest, Ponders, Quiets, AskUnsent, AnswerUnsent, AnswerOpened

\* The ECU takes a frame of the request.
EcuTakes(f, w) ==
  /\ f.pci # "FC" /\ f = Head(toEcu) /\ toEcu' = Tail(toEcu) /\ ecuRx' = w.rx
  /\ owed' = (w.rx.st = "receiving" /\ (owed \/ w.ev = "fc"))
  /\ todo' = IF w.ev = "done" THEN Request(w.out) ELSE todo
  /\ UNCHANGED <<pc, op, tx, rx, left, pends, result, ring, ecuTx, ncalls, npends, nfaults>>

LEMMA ReceiveTakes ==
  ASSUME EcuReceive, Head(toEcu).pci # "FC"
  PROVE  EcuTakes(Head(toEcu), RxOnFrame(ecuRx, Head(toEcu)))
BY DEF EcuTakes, EcuReceive, hostVars

LEMMA EcuTakesWell ==
  ASSUME Well, NEW f, NEW w, EcuTakes(f, w), w.rx.bs = ecuRx.bs, w.rx.checked = ecuRx.checked
  PROVE  AsConfigured' /\ PromptCallsSucceed' /\ Questions' = Questions /\ Replies' = Replies
<1>1. AsConfigured'
  BY DEF Well, AsConfigured, EcuTakes
<1>2. PromptCallsSucceed'
  BY SameResult DEF Well, EcuTakes
<1> QED BY <1>1, <1>2, SameCall DEF EcuTakes

LEMMA OpeningTaken ==
  ASSUME Leeway, TypedAndSound, Well, EcuReceive, NEW P \in Questions, AskOpened(P)
  PROVE  Well'
<1> DEFINE f == Head(toEcu)
           w == RxOnFrame(ecuRx, f)
<1>1. /\ Asks(P) /\ tx.st = "await" /\ Opened(tx, f, P) /\ ring = << >> /\ ~owed
      /\ tx \in TxMachines /\ ecuRx \in RxMachines
  BY Parts DEF AskOpened
<1>2. Tail(toEcu) = << >> /\ f \in Frames
  BY AloneTail, Parts DEF AskOpened
<1>3. f.pci = "FF"
  BY <1>1 DEF Opened
<1>4. EcuTakes(f, w)
  BY <1>3, ReceiveTakes
<1>5. /\ w.ev = "fc" /\ w.rx.bs = ecuRx.bs /\ w.rx.checked = ecuRx.checked
      /\ Underway(tx, << >>, w.rx, P, TRUE)
  BY <1>1, UnderwayOpens
<1>6. w.rx \in RxMachines
  BY <1>2, RxTyped, Parts
<1> HIDE DEF w, f
<1>7. /\ ecuRx' = w.rx /\ toEcu' = << >> /\ todo' = todo
      /\ owed' = (w.rx.st = "receiving" /\ (owed \/ w.ev = "fc"))
      /\ UNCHANGED <<pc, op, tx, pends, ring, ecuTx, ncalls>>
  BY <1>2, <1>4, <1>5 DEF EcuTakes, f
<1>8. ecuRx'.st = "receiving"
  BY <1>1, <1>5, <1>6, <1>7, UnderwayStates
<1>9. owed' = TRUE
  BY <1>5, <1>7, <1>8
<1>10. AskUnderway(P)'
  <2>1. Asks(P)'
    BY <1>1, <1>7 DEF Asks
  <2>2. (owed \/ ring # << >>)' = TRUE
    BY <1>9
  <2> QED BY <1>1, <1>5, <1>7, <2>1, <2>2 DEF AskUnderway
<1> QED BY <1>4, <1>5, <1>10, EcuTakesWell DEF Well, Phase

LEMMA AskingTaken ==
  ASSUME Leeway, TypedAndSound, Well, EcuReceive, NEW P \in Questions, AskUnderway(P)
  PROVE  Well'
<1> DEFINE f == Head(toEcu)
           w == RxOnFrame(ecuRx, f)
           g == owed \/ ring # << >>
<1>1. /\ Asks(P) /\ Underway(tx, toEcu, ecuRx, P, g) /\ tx.st # "done"
      /\ (pc = "fcpoll" => tx.st = "await")
      /\ tx \in TxMachines /\ ecuRx \in RxMachines /\ toEcu \in Seq(Frames) /\ toEcu # << >>
  BY Parts DEF AskUnderway, EcuReceive
<1>2. /\ ecuRx.bs < CounterMod /\ (ecuRx.checked => ecuRx.bs # 0)
  BY Fit DEF Well
<1> HIDE DEF g
<1>3. f.pci = "CF"
  BY <1>1, UnderwayHead
<1>4. EcuTakes(f, w)
  BY <1>3, ReceiveTakes
<1>5. /\ w.rx.bs = ecuRx.bs /\ w.rx.checked = ecuRx.checked /\ g = FALSE
      /\ \/ w.ev = "done" /\ tx.st = "done"
         \/ /\ w.ev \in {"fc", "continue"}
            /\ Underway(tx, Tail(toEcu), w.rx, P, w.ev = "fc")
  <2>1. g = (tx.st = "await" /\ toEcu = << >>)
    BY <1>1, UnderwayStates
  <2>2. g = FALSE
    BY <1>1, <2>1
  <2>3. Underway(tx, toEcu, ecuRx, P, FALSE)
    BY <1>1, <2>2
  <2>4. UnderwayTook(tx, toEcu, ecuRx, w, P, FALSE)
    BY <1>1, <1>2, <2>3, UnderwayTakes, Zenon
  <2> HIDE DEF w
  <2> QED BY <2>2, <2>4, Zenon DEF UnderwayTook
<1>6. Tail(toEcu) \in Seq(Frames) /\ w.rx \in RxMachines
  BY <1>1, TailTyped, RxTyped, Parts
<1> HIDE DEF w, f
<1>7. /\ w.ev \in {"fc", "continue"} /\ Underway(tx, Tail(toEcu), w.rx, P, w.ev = "fc")
      /\ ~owed /\ ring = << >>
  BY <1>1, <1>5 DEF g
<1>8. w.rx.st = "receiving"
  BY <1>1, <1>6, <1>7, UnderwayStates
<1>9. /\ ecuRx' = w.rx /\ toEcu' = Tail(toEcu) /\ todo' = todo /\ owed' = (w.ev = "fc")
      /\ UNCHANGED <<pc, op, tx, pends, ring, ecuTx, ncalls>>
  BY <1>4, <1>7, <1>8 DEF EcuTakes
<1>10. AskUnderway(P)'
  <2>1. Asks(P)'
    BY <1>1, <1>9 DEF Asks
  <2>2. (owed \/ ring # << >>)' = (w.ev = "fc")
    BY <1>7, <1>9
  <2> QED BY <1>1, <1>7, <1>9, <2>1, <2>2 DEF AskUnderway
<1> QED BY <1>4, <1>5, <1>10, EcuTakesWell DEF Well, Phase

\* The request is complete.
LEMMA ToldPonders ==
  ASSUME Leeway, TypedAndSound, Well, NEW P \in Questions, Hears(P), NEW f, NEW w,
         EcuTakes(f, w), w.ev = "done", w.out = P, w.rx.st = "idle", Tail(toEcu) = << >>
  PROVE  Ponders'
<1>1. /\ ecuRx' = w.rx /\ toEcu' = << >> /\ owed' = FALSE
      /\ UNCHANGED <<pc, op, rx, left, pends, ring, ecuTx, ncalls, npends>>
  BY DEF EcuTakes
<1>2. todo' = Request(P)
  BY DEF EcuTakes
<1>3. todo' = ncalls
  BY <1>2, QuestionKnown, Fit DEF Well
<1>4. /\ Listens /\ pends = 0 /\ left = RecvTimeout /\ rx = HostRx /\ ring = << >>
      /\ ecuTx.st = "done"
  BY DEF Hears
<1>5. Quiets'
  BY <1>1, <1>4 DEF Quiets, Listens, HostRx
<1>6. Len(ring') = 0 /\ Announces(ring, Len(ring))'
  <2>1. Len(ring') = 0
    BY <1>1, <1>4
  <2>2. \A i \in 1..0 : FALSE
    OBVIOUS
  <2>3. Len(ring)' = 0
    BY <2>1
  <2> QED BY <2>1, <2>2, <2>3, Zenon DEF Announces
<1>7. npends' \in Nat /\ npends' >= 0
  BY <1>1, Fit DEF Well
<1>9. pends' + Len(ring') <= npends'
  BY <1>1, <1>4, <1>6, <1>7
<1> QED BY <1>1, <1>3, <1>4, <1>5, <1>6, <1>9 DEF Ponders

LEMMA RestTaken ==
  ASSUME Leeway, TypedAndSound, Well, EcuReceive, NEW P \in Questions, Hears(P)
  PROVE  Well'
<1> DEFINE f == Head(toEcu)
           w == RxOnFrame(ecuRx, f)
<1>1. /\ ecuRx \in RxMachines /\ toEcu \in Seq(Frames) /\ toEcu # << >>
      /\ TxNone \in TxMachines /\ TxNone.st = "done"
  BY Parts, TxNoneTyped, MachineAssumption DEF EcuReceive
<1>2. /\ ecuRx.bs < CounterMod /\ (ecuRx.checked => ecuRx.bs # 0) /\ Numbered(P)
  BY Fit, QuestionKnown DEF Well
<1>3. CASE ecuRx.st = "idle" /\ Alone(toEcu) /\ Single(f, P)
  <2>1. /\ w.ev = "done" /\ w.out = P /\ w.rx.st = "idle" /\ f.pci = "SF"
        /\ w.rx.bs = ecuRx.bs /\ w.rx.checked = ecuRx.checked
    BY <1>1, <1>2, <1>3, SingleTaken
  <2>2. EcuTakes(f, w) /\ Tail(toEcu) = << >>
    BY <1>1, <1>3, <2>1, ReceiveTakes, AloneTail
  <2> HIDE DEF f, w
  <2>3. Ponders'
    BY <2>1, <2>2, ToldPonders
  <2> QED BY <2>1, <2>2, <2>3, EcuTakesWell DEF Well, Phase
<1>4. CASE Underway(TxNone, toEcu, ecuRx, P, FALSE)
  <2>1. f.pci = "CF"
    BY <1>1, <1>4, UnderwayHead
  <2>2. EcuTakes(f, w)
    BY <2>1, ReceiveTakes
  <2>3. /\ w.rx.bs = ecuRx.bs /\ w.rx.checked = ecuRx.checked
        /\ \/ w.ev = "done" /\ w.out = P /\ w.rx.st = "idle" /\ Tail(toEcu) = << >>
           \/ /\ w.ev \in {"fc", "continue"}
              /\ Underway(TxNone, Tail(toEcu), w.rx, P, w.ev = "fc")
    <3>1. UnderwayTook(TxNone, toEcu, ecuRx, w, P, FALSE)
      BY <1>1, <1>2, <1>4, UnderwayTakes, Zenon
    <3> HIDE DEF w
    <3> QED BY <3>1, Zenon DEF UnderwayTook
  <2>4. Tail(toEcu) \in Seq(Frames) /\ w.rx \in RxMachines
    BY <1>1, TailTyped, RxTyped, Parts
  <2> HIDE DEF f, w
  <2>5. CASE w.ev = "done"
    <3>1. Ponders'
      BY <2>2, <2>3, <2>5, ToldPonders
    <3> QED BY <2>2, <2>3, <3>1, EcuTakesWell DEF Well, Phase
  <2>6. CASE w.ev # "done"
    <3>1. w.ev \in {"fc", "continue"} /\ Underway(TxNone, Tail(toEcu), w.rx, P, w.ev = "fc")
      BY <2>3, <2>6
    <3>2. (w.ev = "fc") = (TxNone.st = "await" /\ Tail(toEcu) = << >>)
      BY <1>1, <2>4, <3>1, UnderwayStates
    <3>3. (w.ev = "fc") = FALSE
      BY <1>1, <3>2
    <3>4. Underway(TxNone, Tail(toEcu), w.rx, P, FALSE)
      BY <3>1, <3>3
    <3>5. /\ ecuRx' = w.rx /\ toEcu' = Tail(toEcu) /\ todo' = todo /\ owed' = FALSE
          /\ UNCHANGED <<pc, op, rx, left, pends, ring, ecuTx, ncalls>>
      BY <2>2, <2>6, <3>3 DEF EcuTakes, Hears, Listens
    <3>6. Listens'
      BY <3>5 DEF Hears, Listens
    <3>7. Hears(P)'
      BY <3>4, <3>5, <3>6 DEF Hears, HostRx, TxNone, TxNew
    <3> QED BY <2>2, <2>3, <3>7, EcuTakesWell DEF Well, Phase
  <2> QED BY <2>5, <2>6
<1> QED BY <1>3, <1>4 DEF Hears

\* The caller's grant reaches the ECU.
LEMMA GrantArrives ==
  ASSUME Leeway, TypedAndSound, Well, EcuReceive, NEW P \in Replies, AnswerUnderway(P)
  PROVE  Well'
<1> DEFINE t == TxOnFrame(ecuTx, HostGrant)
<1>1. /\ ecuTx \in TxMachines /\ rx \in RxMachines /\ toEcu # << >> /\ HostGrant \in Frames
  BY Parts, GrantFields DEF EcuReceive
<1>2. toEcu = <<HostGrant>> /\ (toEcu # << >>) = TRUE
  BY <1>1 DEF AnswerUnderway
<1>3. /\ Underway(ecuTx, ring, rx, P, TRUE) /\ Listens /\ ecuRx.st = "idle" /\ todo = 0
      /\ Paced(P)
  BY <1>2 DEF AnswerUnderway
<1>4. Head(toEcu) = HostGrant /\ Tail(toEcu) = << >> /\ HostGrant.pci = "FC"
  BY <1>1, <1>2, OneFrame, GrantFields
<1>5. ring = << >> /\ ecuTx.st = "await"
  BY <1>1, <1>3, UnderwayStates
<1>6. Underway(t.tx, << >>, rx, P, FALSE)
  <2> DEFINE u == TxOnFrame(ecuTx, FlowControl("cts", HostBs, HostStMin)).tx
  <2>1. HostBs = rx.bs /\ decode_stmin(HostStMin) <= NCr /\ decode_stmin(HostStMin) >= 0
    BY GrantFields DEF Well, AsConfigured, Leeway
  <2>2. Underway(u, << >>, rx, P, FALSE)
    BY <1>1, <1>3, <2>1, UnderwayGranted
  <2>3. u = t.tx
    BY DEF HostGrant
  <2> HIDE DEF u, t
  <2> QED BY <2>2, <2>3
<1>7. /\ t.err = "ok" /\ t.tx.st = "cons" /\ t.tx.timer = 0 /\ t.tx.checked = ecuTx.checked
      /\ t.tx.stmin = decode_stmin(HostStMin) /\ t.tx.offset = ecuTx.offset
  BY <1>1, <1>5, GrantTaken DEF HostGrant
<1> HIDE DEF t
<1>8. /\ ecuTx' = t.tx /\ toEcu' = << >> /\ UNCHANGED <<ecuRx, owed, todo>>
      /\ UNCHANGED <<pc, op, rx, left, pends, result, ring, ncalls, npends, nfaults>>
  BY <1>4, <1>7 DEF EcuReceive, hostVars, t
<1>9. Paced(P)'
  <2>1. Pause = 0 /\ Pause' = 0
    BY <1>5, <1>7, <1>8 DEF Pause
  <2>2. SentBytes(P)' = SentBytes(P)
    BY <1>5, <1>7, <1>8 DEF SentBytes
  <2> QED BY <1>3, <1>7, <1>8, <2>1, <2>2 DEF Paced
<1>10. AnswerUnderway(P)'
  <2>1. Listens'
    BY <1>3, <1>8 DEF Listens
  <2>2. (toEcu # << >>)' = FALSE
    BY <1>8
  <2> QED BY <1>3, <1>5, <1>6, <1>8, <1>9, <2>1, <2>2 DEF AnswerUnderway
<1>11. P \in Replies'
  BY <1>8, SameCall
<1>12. AsConfigured'
  BY <1>7, <1>8 DEF Well, AsConfigured
<1>13. PromptCallsSucceed'
  BY <1>8, SameResult DEF Well
<1> QED BY <1>10, <1>11, <1>12, <1>13 DEF Well, Phase

LEMMA ReceiveSucceeds ==
  ASSUME Leeway, TypedAndSound, Well, EcuReceive
  PROVE  Well'
<1>1. toEcu # << >>
  BY DEF EcuReceive
<1> QED BY <1>1, HearsPhase, OpeningTaken, AskingTaken, RestTaken, GrantArrives DEF Well

\* drain_pending swallows an announcement and starts anew.
LEMMA Swallows ==
  ASSUME TypedAndSound, AsConfigured, RecvPolled, op = "request", Single(Head(ring), Patience),
         pends < MaxPending, ncalls \in Nat
  PROVE  /\ pc' = "recv" /\ rx' = HostRx /\ left' = RecvTimeout /\ pends' = pends + 1
         /\ ring' = Tail(ring)
         /\ UNCHANGED <<op, result, toEcu, ecuTx, ecuRx, owed, todo, ncalls, npends, nfaults>>
<1> DEFINE o == RxOnFrame(rx, Head(ring))
<1>1. /\ o.ev = "done" /\ o.out = Patience /\ Head(ring).pci = "SF"
      /\ is_response_pending(Patience)
  BY PatienceKnown, SingleTaken, Parts
<1> HIDE DEF o
<1>2. toEcu' = toEcu /\ Received(o.out) /\ ring' = Tail(ring)
  BY <1>1 DEF RecvPolled, o
<1>3. StartRecv /\ pends' = pends + 1
  BY <1>1, <1>2 DEF Received
<1>4. UNCHANGED <<ecuTx, ecuRx, owed, todo, ncalls, npends, nfaults>>
  BY DEF RecvPolled, ecuVars
<1> QED BY <1>2, <1>3, <1>4 DEF StartRecv

\* The answer is handed over and nothing is left.
LEMMA Delivers ==
  ASSUME Leeway, TypedAndSound, AsConfigured, RecvPolled, Listens, NEW P \in Replies,
         Head(ring).pci # "Other", RxOnFrame(rx, Head(ring)).ev = "done",
         RxOnFrame(rx, Head(ring)).out = P, Tail(ring) = << >>, toEcu = << >>,
         ecuTx.st = "done", ecuRx.st = "idle", todo = 0
  PROVE  Well'
<1> DEFINE o == RxOnFrame(rx, Head(ring))
<1>1. /\ o.ev = "done" /\ o.out = P
  OBVIOUS
<1> HIDE DEF o
<1>2. Request(P) = ncalls /\ P # << >> /\ ~is_response_pending(P)
  BY ReplyKnown, Fit
<1>3. toEcu' = toEcu /\ Received(o.out) /\ ring' = Tail(ring)
  BY <1>1 DEF RecvPolled, o
<1>4. Return("ok", P)
  BY <1>1, <1>2, <1>3 DEF Received
<1>5. UNCHANGED <<ecuTx, ecuRx, owed, todo, ncalls, npends, nfaults>>
  BY DEF RecvPolled, ecuVars
<1>6. /\ pc' = "idle" /\ rx' = HostRx /\ pends' = 0 /\ result' = [err |-> "ok", data |-> P]
  BY <1>4 DEF Return
<1>7. AsConfigured'
  BY <1>5, <1>6, NewReceive
<1>8. Rests'
  BY <1>3, <1>5, <1>6 DEF Rests, AtRest, Listens
<1>9. PromptCallsSucceed'
  BY <1>2, <1>5, <1>6 DEF PromptCallsSucceed, Request, is_response_pending
<1> QED BY <1>7, <1>8, <1>9 DEF Well, Phase

LEMMA QuietsOn ==
  ASSUME Quiets, pc' = "recv", rx' = HostRx, left' = RecvTimeout,
         UNCHANGED <<op, toEcu, ecuRx, owed, ncalls>>
  PROVE  Quiets'
BY DEF Quiets, Listens, HostRx

\* The machines of an answer after a frame that does not end it.
LEMMA AnswerGoesOn ==
  ASSUME TypedAndSound, Well, RecvPolled, Head(ring).pci # "Other",
         RxOnFrame(rx, Head(ring)).ev \in {"fc", "continue"},
         RxOnFrame(rx, Head(ring)).rx.bs = rx.bs,
         RxOnFrame(rx, Head(ring)).rx.checked = rx.checked,
         toEcu = << >>, Listens, nfaults = 0
  PROVE  LET o == RxOnFrame(rx, Head(ring))
         IN  /\ rx' = o.rx /\ ring' = Tail(ring)
             /\ Listens' /\ AsConfigured' /\ PromptCallsSucceed'
             /\ UNCHANGED <<left, ecuTx, ecuRx, owed, todo, ncalls>>
             /\ IF o.ev = "fc" THEN toEcu' = <<HostGrant>> ELSE toEcu' = << >>
<1> DEFINE o == RxOnFrame(rx, Head(ring))
<1>1. /\ o.ev \in {"fc", "continue"} /\ o.rx.bs = rx.bs /\ o.rx.checked = rx.checked
  OBVIOUS
<1> HIDE DEF o
<1>2. /\ Continue("recv", tx, o.rx) /\ ring' = Tail(ring)
      /\ toEcu' = IF o.ev = "fc" THEN Append(toEcu, HostGrant) ELSE toEcu
  BY <1>1 DEF RecvPolled, o, HostGrant
<1>3. UNCHANGED <<ecuTx, ecuRx, owed, todo, ncalls, npends, nfaults>>
  BY DEF RecvPolled, ecuVars
<1>4. pc' = "recv" /\ rx' = o.rx /\ UNCHANGED <<op, left, pends, result>>
  BY <1>2 DEF Continue
<1>5. IF o.ev = "fc" THEN toEcu' = <<HostGrant>> ELSE toEcu' = << >>
  BY <1>2, OneFrame, GrantFields
<1>6. Listens'
  BY <1>3, <1>4 DEF Listens
<1>7. AsConfigured'
  BY <1>1, <1>3, <1>4 DEF Well, AsConfigured
<1>8. PromptCallsSucceed'
  BY <1>3, <1>4, NotFailed DEF Well
<1> QED BY <1>2, <1>3, <1>4, <1>5, <1>6, <1>7, <1>8 DEF o

LEMMA PondersOn ==
  ASSUME Leeway, TypedAndSound, nfaults = 0, Well, RecvPolled,
         NEW P, Ponders \/ (P \in Replies /\ AnswerUnsent(P))
  PROVE  Well'
<1>1. ring \in Seq(Frames) /\ ring # << >> /\ AsConfigured
  BY Parts DEF RecvPolled, Well
<1>2. /\ Quiets /\ op = "request" /\ Announces(ring, Len(ring)) /\ pends + Len(ring) <= npends
  <2>1. Len(ring) \in Nat /\ pends \in Nat /\ npends \in Nat
    BY <1>1, LenProperties, Fit
  <2>2. CASE Ponders
    BY <2>1, <2>2 DEF Ponders, Quiets, Listens
  <2>3. CASE P \in Replies /\ AnswerUnsent(P)
    BY <2>3 DEF AnswerUnsent, Quiets, Listens
  <2> QED BY <2>2, <2>3
<1>3. /\ pends \in Nat /\ npends \in Nat /\ npends <= MaxPends /\ ncalls \in Nat
      /\ MaxPends \in Nat /\ MaxPending \in Nat /\ MaxPends <= MaxPending
  BY Fit DEF Well, Leeway
<1>4. /\ Len(ring) \in Nat /\ Len(ring) >= 1 /\ Len(Tail(ring)) = Len(ring) - 1
  BY <1>1, TailElements
<1>5. Single(Head(ring), Patience) /\ Announces(Tail(ring), Len(Tail(ring)))
  BY <1>1, <1>2, <1>4, AnnouncesTail
<1>6. pends < MaxPending
  BY <1>2, <1>3, <1>4
<1>7. /\ pc' = "recv" /\ rx' = HostRx /\ left' = RecvTimeout /\ pends' = pends + 1
      /\ ring' = Tail(ring)
      /\ UNCHANGED <<op, result, toEcu, ecuTx, ecuRx, owed, todo, ncalls, npends, nfaults>>
  BY <1>1, <1>2, <1>3, <1>5, <1>6, Swallows
<1>8. Quiets'
  BY <1>2, <1>7, QuietsOn
<1>9. Questions' = Questions /\ Replies' = Replies /\ Patience' = Patience
  BY <1>7, SameCall
<1>10. Announces(ring, Len(ring))'
  BY <1>5, <1>7, <1>9 DEF Announces
<1>11. pends' + Len(ring') = pends + Len(ring)
  <2> DEFINE n == Len(ring)
             m == Len(Tail(ring))
  <2>1. n \in Nat /\ n >= 1 /\ m = n - 1
    BY <1>4
  <2>2. pends' = pends + 1 /\ Len(ring') = m
    BY <1>7
  <2> HIDE DEF n, m
  <2>3. pends' + Len(ring') = pends + n
    BY <1>3, <2>1, <2>2
  <2> QED BY <2>3 DEF n
<1>12. AsConfigured' /\ PromptCallsSucceed'
  BY <1>1, <1>7, NewReceive, NotFailed DEF Well
<1>13. CASE Ponders
  <2>1. Ponders'
    BY <1>7, <1>8, <1>9, <1>10, <1>11, <1>13 DEF Ponders
  <2> QED BY <1>12, <2>1 DEF Well, Phase
<1>14. CASE P \in Replies /\ AnswerUnsent(P)
  <2>1. AnswerUnsent(P)' /\ P \in Replies'
    BY <1>7, <1>8, <1>9, <1>10, <1>11, <1>14 DEF AnswerUnsent
  <2> QED BY <1>12, <2>1 DEF Well, Phase
<1> QED BY <1>13, <1>14

\* An announcement still stands before the first frame of the answer.
LEMMA OpenedOn ==
  ASSUME Leeway, TypedAndSound, nfaults = 0, Well, RecvPolled, NEW P \in Replies,
         AnswerOpened(P), Len(ring) >= 2
  PROVE  Well'
<1>1. ring \in Seq(Frames) /\ ring # << >> /\ AsConfigured
  BY Parts DEF RecvPolled, Well
<1>2. /\ Quiets /\ op = "request" /\ todo = 0 /\ Announces(ring, Len(ring) - 1)
      /\ pends + (Len(ring) - 1) <= npends /\ Opened(ecuTx, ring[Len(ring)], P)
  BY DEF AnswerOpened, Quiets, Listens
<1>3. /\ pends \in Nat /\ npends \in Nat /\ npends <= MaxPends /\ ncalls \in Nat
      /\ MaxPends \in Nat /\ MaxPending \in Nat /\ MaxPends <= MaxPending
  BY Fit DEF Well, Leeway
<1>4. /\ Len(ring) \in Nat /\ Len(Tail(ring)) = Len(ring) - 1
      /\ \A i \in 1..(Len(ring) - 1) : Tail(ring)[i] = ring[i + 1]
  BY <1>1, TailElements
<1>5. Tail(ring)[Len(Tail(ring))] = ring[Len(ring)]
  <2>1. Len(ring) - 1 \in 1..(Len(ring) - 1) /\ (Len(ring) - 1) + 1 = Len(ring)
    BY <1>4
  <2>2. Tail(ring)[Len(ring) - 1] = ring[(Len(ring) - 1) + 1]
    BY <1>4, <2>1
  <2> QED BY <1>4, <2>1, <2>2
<1>6. Single(Head(ring), Patience) /\ Announces(Tail(ring), Len(Tail(ring)) - 1)
  <2>1. Len(ring) - 1 \in Nat /\ Len(ring) - 1 >= 1 /\ Len(ring) - 1 <= Len(ring)
    BY <1>4
  <2> QED BY <1>1, <1>2, <1>4, <2>1, AnnouncesTail
<1>7. pends < MaxPending
  BY <1>2, <1>3, <1>4
<1>8. /\ pc' = "recv" /\ rx' = HostRx /\ left' = RecvTimeout /\ pends' = pends + 1
      /\ ring' = Tail(ring)
      /\ UNCHANGED <<op, result, toEcu, ecuTx, ecuRx, owed, todo, ncalls, npends, nfaults>>
  BY <1>1, <1>2, <1>3, <1>6, <1>7, Swallows
<1>9. Quiets'
  BY <1>2, <1>8, QuietsOn
<1>10. Replies' = Replies /\ Patience' = Patience
  BY <1>8, SameCall
<1>11. Announces(ring, Len(ring) - 1)'
  BY <1>6, <1>8, <1>10 DEF Announces
<1>12. /\ pends' + (Len(ring') - 1) = pends + (Len(ring) - 1) /\ ring' # << >>
  <2> DEFINE n == Len(ring)
             p == Tail(ring)
             m == Len(p)
  <2>1. n \in Nat /\ n >= 2 /\ m = n - 1
    BY <1>4
  <2>2. pends' = pends + 1 /\ Len(ring') = m /\ ring' = p
    BY <1>8
  <2> HIDE DEF p
  <2>3. p = << >> => m = 0
    OBVIOUS
  <2> HIDE DEF n, m
  <2>4. pends' + (Len(ring') - 1) = pends + (n - 1) /\ m # 0
    BY <1>3, <2>1, <2>2
  <2> QED BY <2>2, <2>3, <2>4 DEF n
<1>13. AsConfigured' /\ PromptCallsSucceed'
  BY <1>1, <1>8, NewReceive, NotFailed DEF Well
<1>14. Opened(ecuTx, ring[Len(ring)], P)'
  BY <1>2, <1>5, <1>8 DEF Opened
<1>15. AnswerOpened(P)'
  BY <1>2, <1>8, <1>9, <1>11, <1>12, <1>14 DEF AnswerOpened
<1> QED BY <1>10, <1>13, <1>15 DEF Well, Phase

LEMMA OnlyFrame ==
  ASSUME NEW q \in Seq(Frames), q # << >>, ~(Len(q) >= 2)
  PROVE  Len(q) = 1 /\ q[Len(q)] = Head(q) /\ Tail(q) = << >>
<1>1. /\ Len(Tail(q)) = Len(q) - 1 /\ Len(q) \in Nat /\ Len(q) >= 1 /\ Head(q) = q[1]
      /\ Tail(q) \in Seq(Frames)
  BY TailElements
<1>2. Len(q) = 1 /\ Len(Tail(q)) = 0
  BY <1>1
<1>3. Tail(q) = << >>
  BY <1>1, <1>2, EmptySeq
<1> QED BY <1>1, <1>2, <1>3

\* The first frame of the answer comes.
LEMMA OpenedTaken ==
  ASSUME Leeway, TypedAndSound, nfaults = 0, Well, RecvPolled, NEW P \in Replies,
         AnswerOpened(P), ~(Len(ring) >= 2)
  PROVE  Well'
<1> DEFINE f == Head(ring)
           o == RxOnFrame(rx, f)
<1>1. /\ ring \in Seq(Frames) /\ ring # << >> /\ AsConfigured /\ rx \in RxMachines
      /\ ecuTx \in TxMachines /\ Numbered(P)
  BY Parts, ReplyKnown, Fit DEF RecvPolled, Well
<1>2. Tail(ring) = << >> /\ ring[Len(ring)] = f
  BY <1>1, OnlyFrame
<1>3. /\ Listens /\ ecuRx.st = "idle" /\ left = RecvTimeout /\ toEcu = << >>
      /\ todo = 0 /\ Opened(ecuTx, f, P)
  BY <1>2 DEF AnswerOpened, Quiets
<1>4. CASE ecuTx.st = "done" /\ Single(f, P)
  <2>1. o.ev = "done" /\ o.out = P /\ f.pci = "SF"
    BY <1>1, <1>4, SingleTaken
  <2> QED BY <1>1, <1>2, <1>3, <1>4, <2>1, Delivers
<1>5. CASE ecuTx.st = "await" /\ f.pci = "FF"
  <2>1. /\ o.ev = "fc" /\ o.rx.bs = rx.bs /\ o.rx.checked = rx.checked
        /\ Underway(ecuTx, << >>, o.rx, P, TRUE)
    BY <1>1, <1>3, <1>5, UnderwayOpens
  <2>2. /\ rx' = o.rx /\ ring' = << >> /\ Listens' /\ AsConfigured' /\ PromptCallsSucceed'
        /\ UNCHANGED <<left, ecuTx, ecuRx, owed, todo, ncalls>> /\ toEcu' = <<HostGrant>>
    BY <1>2, <1>3, <1>5, <2>1, AnswerGoesOn
  <2> HIDE DEF o, f
  <2>3. Paced(P)'
    <3>1. Pause' = 0 /\ SentBytes(P)' = ecuTx.offset /\ ecuTx.offset \in Nat
      BY <1>1, <1>5, <2>2, TxFields DEF Pause, SentBytes
    <3>2. RecvTimeout - left' + Pause' = 0
      BY <1>3, <2>2, <3>1, Fit DEF Well
    <3>3. ecuTx.offset * decode_stmin(HostStMin) \in Nat
      BY <3>1, GrantFields
    <3>4. FrameData * 0 = 0
      BY Constants, MachineAssumption
    <3>5. FrameData * (RecvTimeout - left' + Pause') <= SentBytes(P)' * decode_stmin(HostStMin)
      BY <3>1, <3>2, <3>3, <3>4
    <3>6. ecuTx'.st # "cons"
      BY <1>5, <2>2
    <3> QED BY <3>5, <3>6 DEF Paced
  <2>4. (toEcu # << >>)' = TRUE /\ HostGrant' = HostGrant
    BY <2>2 DEF HostGrant
  <2>5. AnswerUnderway(P)'
    BY <1>3, <2>1, <2>2, <2>3, <2>4 DEF AnswerUnderway
  <2>6. P \in Replies'
    BY <2>2, SameCall
  <2> QED BY <2>2, <2>5, <2>6 DEF Well, Phase
<1> QED BY <1>3, <1>4, <1>5 DEF Opened

\* A consecutive frame of the answer comes.
LEMMA AnswerTaken ==
  ASSUME Leeway, TypedAndSound, nfaults = 0, Well, RecvPolled, NEW P \in Replies,
         AnswerUnderway(P)
  PROVE  Well'
<1> DEFINE f == Head(ring)
           o == RxOnFrame(rx, f)
<1>1. /\ ring \in Seq(Frames) /\ ring # << >> /\ AsConfigured /\ rx \in RxMachines
      /\ ecuTx \in TxMachines
  BY Parts DEF RecvPolled, Well
<1>2. /\ Listens /\ ecuRx.st = "idle" /\ todo = 0 /\ Paced(P)
      /\ Underway(ecuTx, ring, rx, P, toEcu # << >>)
  BY DEF AnswerUnderway
<1>3. (toEcu # << >>) = (ecuTx.st = "await" /\ ring = << >>)
  BY <1>1, <1>2, UnderwayStates
<1>4. toEcu = << >>
  BY <1>1, <1>3
<1>5. Underway(ecuTx, ring, rx, P, FALSE)
  <2>1. (toEcu # << >>) = FALSE
    BY <1>4
  <2> QED BY <1>2, <2>1
<1>6. rx.bs < CounterMod /\ (rx.checked => rx.bs # 0)
  BY <1>1, Fit
<1>7. f.pci = "CF"
  BY <1>1, <1>5, UnderwayHead
<1>8. /\ o.rx.bs = rx.bs /\ o.rx.checked = rx.checked
      /\ \/ /\ o.ev = "done" /\ o.out = P /\ ecuTx.st = "done"
            /\ Tail(ring) = << >>
         \/ /\ o.ev \in {"fc", "continue"}
            /\ Underway(ecuTx, Tail(ring), o.rx, P, o.ev = "fc")
  <2>1. UnderwayTook(ecuTx, ring, rx, o, P, FALSE)
    BY <1>1, <1>5, <1>6, UnderwayTakes, Zenon
  <2> HIDE DEF o
  <2> QED BY <2>1, Zenon DEF UnderwayTook
<1>9. CASE o.ev = "done"
  <2>1. o.out = P /\ ecuTx.st = "done" /\ Tail(ring) = << >>
    BY <1>8, <1>9
  <2> QED BY <1>1, <1>2, <1>4, <1>7, <1>9, <2>1, Delivers
<1>10. CASE o.ev # "done"
  <2>1. o.ev \in {"fc", "continue"} /\ Underway(ecuTx, Tail(ring), o.rx, P, o.ev = "fc")
    BY <1>8, <1>10
  <2>2. /\ rx' = o.rx /\ ring' = Tail(ring) /\ Listens' /\ AsConfigured' /\ PromptCallsSucceed'
        /\ UNCHANGED <<left, ecuTx, ecuRx, owed, todo, ncalls>>
        /\ IF o.ev = "fc" THEN toEcu' = <<HostGrant>> ELSE toEcu' = << >>
    BY <1>2, <1>4, <1>7, <1>8, <2>1, AnswerGoesOn
  <2> HIDE DEF o, f
  <2>3. Paced(P)'
    BY <1>2, <2>2 DEF Paced, Pause, SentBytes
  <2>4. (toEcu # << >>)' = (o.ev = "fc") /\ HostGrant' = HostGrant
    BY <2>2 DEF HostGrant
  <2>5. AnswerUnderway(P)'
    BY <1>2, <2>1, <2>2, <2>3, <2>4 DEF AnswerUnderway
  <2>6. P \in Replies'
    BY <2>2, SameCall
  <2> QED BY <2>2, <2>5, <2>6 DEF Well, Phase
<1> QED BY <1>9, <1>10

LEMMA RecvSucceeds ==
  ASSUME Leeway, TypedAndSound, nfaults = 0, Well, RecvPolled
  PROVE  Well'
<1>1. pc = "rxpoll" /\ ring # << >>
  BY DEF RecvPolled
<1>2. ASSUME NEW P \in Questions, Hears(P) PROVE FALSE
  BY <1>1, <1>2 DEF Hears
<1> QED BY <1>1, <1>2, AnswerPhases, PondersOn, OpenedOn, OpenedTaken, AnswerTaken DEF Well

\* The ring has room for what the ECU sends.
LEMMA Stored ==
  ASSUME ring \in Seq(Frames), NEW f \in Frames, Deposit(f), Len(ring) < RingCap
  PROVE  ring' = Append(ring, f)
BY DEF Deposit

LEMMA SendsPhase ==
  ASSUME Phase, TxReady(ecuTx)
  PROVE  \/ Ponders /\ Unsent(ecuTx, Patience)
         \/ \E P \in Replies : AnswerUnsent(P) \/ AnswerUnderway(P)
<1>1. ecuTx.st # "done" /\ ecuTx.st # "await"
  BY DEF TxReady
<1> QED BY <1>1 DEF Phase, Rests, AtRest, Ponders, AskUnsent, AskOpened, AskUnderway, Asks,
           Hears, AnswerOpened, Opened

LEMMA PendSends ==
  ASSUME Leeway, TypedAndSound, nfaults = 0, Well, EcuSend, Ponders,
         Unsent(ecuTx, Patience)
  PROVE  Well'
<1> DEFINE f == TxFrame(ecuTx)
<1>1. /\ ecuTx \in TxMachines /\ TxSound(ecuTx) /\ TxReady(ecuTx) /\ ring \in Seq(Frames)
      /\ TxNone.st = "done" /\ ~TxNone.checked
  BY Parts, TxNoneTyped, MachineAssumption DEF EcuSend, TxNone, TxNew
<1>2. f \in Frames
  BY <1>1, TxFrameTyped, IsoTpAssumption, MachineAssumption
<1>3. pends \in Nat /\ npends \in Nat /\ npends <= MaxPends /\ ncalls \in Nat
      /\ MaxPends \in Nat /\ RingCap \in Nat /\ MaxPends < RingCap /\ Len(ring) \in Nat
  BY <1>1, Fit, LenProperties DEF Well, Leeway
<1>4. ecuTx.st = "single"
  BY <1>3, PatienceKnown DEF Unsent
<1>5. TxSent(ecuTx).st = "done" /\ Single(f, Patience)
  BY <1>1, <1>4, SendsSingle
<1>6. /\ Deposit(f) /\ ecuTx' = TxNone
      /\ UNCHANGED <<pc, op, rx, left, pends, result, toEcu, ecuRx, owed, todo, ncalls,
                     npends, nfaults>>
  BY <1>5 DEF EcuSend, hostVars
<1> HIDE DEF f
<1>7. /\ Quiets /\ todo = ncalls /\ Announces(ring, Len(ring))
      /\ pends + Len(ring) < npends
  BY <1>4 DEF Ponders
<1>8. ring' = Append(ring, f)
  BY <1>1, <1>2, <1>3, <1>6, <1>7, Stored
<1>9. /\ Announces(Append(ring, f), Len(ring) + 1) /\ Len(Append(ring, f)) = Len(ring) + 1
  BY <1>1, <1>2, <1>5, <1>7, AnnouncesMore
<1>10. Replies' = Replies /\ Patience' = Patience
  BY <1>6, SameCall
<1>11. Announces(ring, Len(ring))'
  BY <1>8, <1>9, <1>10 DEF Announces
<1>12. pends' + Len(ring') <= npends'
  BY <1>3, <1>6, <1>7, <1>8, <1>9
<1>13. Quiets'
  BY <1>6, <1>7 DEF Quiets, Listens, HostRx
<1>14. Ponders'
  BY <1>1, <1>6, <1>7, <1>11, <1>12, <1>13 DEF Ponders
<1>15. AsConfigured'
  BY <1>1, <1>6 DEF Well, AsConfigured
<1>16. PromptCallsSucceed'
  BY <1>6, SameResult DEF Well
<1> QED BY <1>14, <1>15, <1>16 DEF Well, Phase

LEMMA AnswerOpens ==
  ASSUME Leeway, TypedAndSound, nfaults = 0, Well, EcuSend, NEW P \in Replies,
         AnswerUnsent(P)
  PROVE  Well'
<1> DEFINE f == TxFrame(ecuTx)
           m == TxSent(ecuTx)
<1>1. /\ ecuTx \in TxMachines /\ TxSound(ecuTx) /\ TxReady(ecuTx) /\ ring \in Seq(Frames)
      /\ TxNone.st = "done" /\ ~TxNone.checked
  BY Parts, TxNoneTyped, MachineAssumption DEF EcuSend, TxNone, TxNew
<1>2. f \in Frames
  BY <1>1, TxFrameTyped, IsoTpAssumption, MachineAssumption
<1>3. pends \in Nat /\ npends \in Nat /\ npends <= MaxPends /\ ncalls \in Nat
      /\ MaxPends \in Nat /\ RingCap \in Nat /\ MaxPends < RingCap /\ Len(ring) \in Nat
  BY <1>1, Fit, LenProperties DEF Well, Leeway
<1>4. /\ Quiets /\ todo = 0 /\ Announces(ring, Len(ring))
      /\ pends + Len(ring) <= npends /\ Unsent(ecuTx, P)
  BY DEF AnswerUnsent
<1>5. /\ Deposit(f) /\ ecuTx' = (IF m.st = "done" THEN TxNone ELSE m)
      /\ UNCHANGED <<pc, op, rx, left, pends, result, toEcu, ecuRx, owed, todo, ncalls,
                     npends, nfaults>>
  BY DEF EcuSend, hostVars
<1>6. m.checked = ecuTx.checked
  BY <1>1, StepsDown
<1>7. m.st \in {"done", "await"} /\ (m.st = "done" => Single(f, P) /\ Numbered(P))
      /\ (m.st = "await" => Opened(m, f, P))
  <2>1. CASE ecuTx.st = "single"
    BY <1>1, <1>4, <2>1, SendsSingle
  <2>2. CASE ecuTx.st = "first"
    BY <1>1, <1>4, <2>2, SendsFirst
  <2> QED BY <1>4, <2>1, <2>2 DEF Unsent
<1> HIDE DEF f, m
<1>8. Opened(ecuTx', f, P) /\ ~ecuTx'.checked
  <2>1. ~ecuTx.checked
    BY DEF Well, AsConfigured
  <2>2. CASE m.st = "done"
    BY <1>1, <1>5, <1>7, <2>2 DEF Opened
  <2>3. CASE m.st = "await"
    BY <1>5, <1>6, <1>7, <2>1, <2>3
  <2> QED BY <1>7, <2>2, <2>3
<1>9. ring' = Append(ring, f)
  BY <1>1, <1>2, <1>3, <1>4, <1>5, Stored
<1>10. /\ Announces(Append(ring, f), Len(ring)) /\ Len(Append(ring, f)) = Len(ring) + 1
       /\ Append(ring, f)[Len(ring) + 1] = f /\ Append(ring, f) # << >>
  BY <1>1, <1>2, <1>4, AnnouncesMore
<1>11. Replies' = Replies /\ Patience' = Patience
  BY <1>5, SameCall
<1>12. Len(ring') - 1 = Len(ring) /\ ring'[Len(ring')] = f
  BY <1>3, <1>9, <1>10
<1>13. Announces(ring, Len(ring) - 1)'
  BY <1>9, <1>10, <1>11, <1>12 DEF Announces
<1>14. pends' + (Len(ring') - 1) <= npends'
  BY <1>4, <1>5, <1>12
<1>15. Quiets'
  BY <1>4, <1>5 DEF Quiets, Listens, HostRx
<1>16. Opened(ecuTx, ring[Len(ring)], P)'
  BY <1>8, <1>12 DEF Opened
<1>17. AnswerOpened(P)'
  BY <1>4, <1>5, <1>9, <1>10, <1>13, <1>14, <1>15, <1>16 DEF AnswerOpened
<1>18. AsConfigured'
  BY <1>5, <1>8 DEF Well, AsConfigured
<1>19. PromptCallsSucceed'
  BY <1>5, SameResult DEF Well
<1> QED BY <1>11, <1>17, <1>18, <1>19 DEF Well, Phase

\* One STmin more for one frame more.
LEMMA OneMorePause ==
  ASSUME NEW F \in Nat, NEW s \in Nat, NEW a \in Nat, NEW o \in Nat, F * a <= o * s
  PROVE  /\ F * (a + s) <= (o + F) * s
         /\ \A p \in Nat : p >= o => F * a <= p * s
<1>1. F * (a + s) = F * a + F * s /\ (o + F) * s = o * s + F * s
      /\ F * a \in Nat /\ F * s \in Nat /\ o * s \in Nat
  OBVIOUS
<1>2. F * (a + s) <= (o + F) * s
  BY <1>1
<1>3. ASSUME NEW p \in Nat, p >= o PROVE F * a <= p * s
  <2>0. p - o \in Nat /\ p = o + (p - o)
    BY <1>3
  <2>1. PICK d \in Nat : p = o + d
    BY <2>0
  <2>2. p * s = o * s + d * s /\ d * s \in Nat
    BY <2>1
  <2> QED BY <1>1, <2>2
<1> QED BY <1>2, <1>3

\* A sender in step takes one STmin for a frame.
LEMMA UnderwayPaces ==
  ASSUME NEW t \in TxMachines, TxSound(t), TxReady(t), NEW q \in Seq(Frames),
         NEW r \in RxMachines, r.bs < CounterMod, t.checked => r.bs # 0,
         NEW P, NEW g, Underway(t, q, r, P, g)
  PROVE  LET m == TxSent(t)
         IN  /\ t.st = "cons" /\ t.timer = 0 /\ t.offset \in Nat /\ Len(P) \in Nat
             /\ t.offset < Len(P)
             /\ m.st \in {"cons", "await", "done"}
             /\ m.st # "done" => m.stmin = t.stmin /\ m.offset = t.offset + FrameData
             /\ m.st = "cons" => m.timer = t.stmin
<1> DEFINE m == TxSent(t)
<1>1. PICK k \in Nat \ {0} : Stage(t, q, r, P, k)
  BY DEF Underway
<1> DEFINE j == k + Len(q)
<1>2. Numbered(P) /\ j \in Nat \ {0} /\ Len(P) \in Nat /\ t.offset \in Nat
  BY LenProperties, TxFields DEF Underway, Numbered
<1> HIDE DEF j, m
<1>3. Streams(t, q, r, P, j) /\ t.st = "cons" /\ t.timer = 0
  BY <1>1 DEF Stage, TxReady, Streams, Pauses, Finished, j
<1>4. Sending(t, P, j) /\ t.bs = r.bs /\ (r.bs # 0 => t.cfs < r.bs)
  BY <1>3 DEF Streams
<1>5. GoesOn(m, t, P, j)
  BY <1>2, <1>3, <1>4, SendsOn DEF m
<1>6. t.offset = Offset(j) /\ t.offset < Len(P)
  BY <1>4 DEF Sending
<1>7. CASE Offset(j + 1) >= Len(P)
  BY <1>2, <1>3, <1>5, <1>6, <1>7 DEF GoesOn, m
<1>8. CASE ~(Offset(j + 1) >= Len(P))
  <2>1. /\ Sending(m, P, j + 1) /\ m.stmin = t.stmin /\ m.st \in {"cons", "await"}
        /\ m.st = "cons" => m.timer = m.stmin
    BY <1>5, <1>8 DEF GoesOn
  <2>2. m.offset = t.offset + FrameData
    BY <1>2, <1>6, <2>1, OffsetNext DEF Sending
  <2> QED BY <1>2, <1>3, <1>6, <2>1, <2>2 DEF m
<1> QED BY <1>7, <1>8

LEMMA AnswerSends ==
  ASSUME Leeway, TypedAndSound, nfaults = 0, Well, EcuSend, NEW P \in Replies,
         AnswerUnderway(P)
  PROVE  Well'
<1> DEFINE f == TxFrame(ecuTx)
           m == TxSent(ecuTx)
<1>1. /\ ecuTx \in TxMachines /\ TxSound(ecuTx) /\ TxReady(ecuTx) /\ ring \in Seq(Frames)
      /\ rx \in RxMachines /\ TxNone.st = "done" /\ ~TxNone.checked
  BY Parts, TxNoneTyped, MachineAssumption DEF EcuSend, TxNone, TxNew
<1>2. f \in Frames /\ m.checked = ecuTx.checked
  BY <1>1, TxFrameTyped, StepsDown, IsoTpAssumption, MachineAssumption
<1>3. /\ rx.bs < CounterMod /\ (ecuTx.checked => rx.bs # 0) /\ rx.bs = HostBs
      /\ RingCap \in Nat /\ left \in Nat /\ left <= RecvTimeout /\ RecvTimeout \in Nat
      /\ ncalls \in Nat /\ ~ecuTx.checked
  BY Fit DEF Well, AsConfigured
<1>4. /\ Listens /\ ecuRx.st = "idle" /\ todo = 0 /\ Paced(P)
      /\ Underway(ecuTx, ring, rx, P, toEcu # << >>)
  BY DEF AnswerUnderway
<1>5. toEcu = << >> /\ Underway(ecuTx, ring, rx, P, FALSE)
  <2>1. (toEcu # << >>) = (ecuTx.st = "await" /\ ring = << >>)
    BY <1>1, <1>4, UnderwayStates
  <2>2. (toEcu # << >>) = FALSE
    BY <1>1, <2>1 DEF TxReady
  <2> QED BY <1>4, <2>2
<1>6. HostBs \in 1..RingCap \/ Len(P) < (RingCap + 1) * FrameData
  BY <1>3, ReplyKnown
<1>7. Len(ring) < RingCap
  BY <1>1, <1>3, <1>5, <1>6, UnderwayFits
<1>8. /\ Deposit(f) /\ ecuTx' = (IF m.st = "done" THEN TxNone ELSE m)
      /\ UNCHANGED <<pc, op, rx, left, pends, result, toEcu, ecuRx, owed, todo, ncalls,
                     npends, nfaults>>
  BY DEF EcuSend, hostVars
<1>9. /\ ecuTx.st = "cons" /\ ecuTx.timer = 0 /\ ecuTx.offset \in Nat /\ Len(P) \in Nat
      /\ ecuTx.offset < Len(P) /\ m.st \in {"cons", "await", "done"}
      /\ m.st # "done" => m.stmin = ecuTx.stmin /\ m.offset = ecuTx.offset + FrameData
      /\ m.st = "cons" => m.timer = ecuTx.stmin
  BY <1>1, <1>3, <1>5, UnderwayPaces
<1>10. PICK u : u = IF m.st = "done" THEN TxNone ELSE m
  OBVIOUS
<1>11. Underway(u, Append(ring, f), rx, P, FALSE)
  <2>1. u = m \/ (m.st = "done" /\ u.st = "done")
    BY <1>1, <1>10
  <2> QED BY <1>1, <1>3, <1>5, <2>1, UnderwaySends
<1> HIDE DEF f, m
<1>12. ring' = Append(ring, f) /\ ecuTx' = u
  BY <1>1, <1>2, <1>7, <1>8, <1>10, Stored
<1>13. ~ecuTx'.checked
  BY <1>1, <1>2, <1>3, <1>8
<1>14. Paced(P)'
  <2> DEFINE F == FrameData
             s == decode_stmin(HostStMin)
             a == RecvTimeout - left
             o == ecuTx.offset
  <2>1. F \in Nat /\ s \in Nat /\ a \in Nat /\ o \in Nat
    BY <1>3, <1>9, GrantFields, Constants, MachineAssumption
  <2>2. F * a <= o * s /\ ecuTx.stmin = s
    <3>1. Pause = 0 /\ SentBytes(P) = o
      BY <1>9 DEF Pause, SentBytes
    <3>2. RecvTimeout - left + 0 = a
      BY <1>3
    <3> QED BY <1>4, <1>9, <3>1, <3>2 DEF Paced
  <2>3. (RecvTimeout - left)' = a
    BY <1>8
  <2> HIDE DEF F, s, a, o
  <2>4. /\ F * (a + s) <= (o + F) * s
        /\ \A p \in Nat : p >= o => F * a <= p * s
    BY <2>1, <2>2, OneMorePause
  <2>5. CASE m.st = "done"
    <3>1. ecuTx'.st = "done"
      BY <1>1, <1>8, <2>5
    <3>2. Pause' = 0 /\ SentBytes(P)' = Len(P)
      BY <3>1 DEF Pause, SentBytes
    <3>3. F * a <= Len(P) * s
      BY <1>9, <2>1, <2>4 DEF o
    <3>4. (RecvTimeout - left)' + Pause' = a
      BY <2>1, <2>3, <3>2
    <3> QED BY <3>1, <3>2, <3>3, <3>4 DEF Paced, F, s
  <2>6. CASE m.st # "done"
    <3>1. /\ ecuTx' = m /\ m.stmin = s /\ m.offset = o + F /\ m.st \in {"cons", "await"}
          /\ m.st = "cons" => m.timer = s
      BY <1>8, <1>9, <2>2, <2>6 DEF o, F
    <3>2. SentBytes(P)' = o + F
      BY <2>6, <3>1 DEF SentBytes
    <3>3. CASE m.st = "cons"
      <4>1. Pause' = s
        BY <3>1, <3>3 DEF Pause
      <4>2. (RecvTimeout - left)' + Pause' = a + s
        BY <2>3, <4>1
      <4> QED BY <2>4, <3>1, <3>2, <4>2 DEF Paced, F, s
    <3>4. CASE m.st = "await"
      <4>1. Pause' = 0
        BY <3>1, <3>4 DEF Pause
      <4>2. (RecvTimeout - left)' + Pause' = a
        BY <2>1, <2>3, <4>1
      <4>3. F * a <= (o + F) * s
        BY <2>1, <2>4
      <4>4. ecuTx'.st # "cons"
        BY <3>1, <3>4
      <4> QED BY <3>2, <4>2, <4>3, <4>4 DEF Paced, F, s
    <3> QED BY <3>1, <3>3, <3>4
  <2> QED BY <2>5, <2>6
<1>15. AnswerUnderway(P)'
  <2>1. (toEcu # << >>)' = FALSE
    BY <1>5, <1>8
  <2>2. Listens'
    BY <1>4, <1>8 DEF Listens
  <2> QED BY <1>4, <1>5, <1>8, <1>11, <1>12, <1>14, <2>1, <2>2 DEF AnswerUnderway
<1>16. P \in Replies'
  BY <1>8, SameCall
<1>17. AsConfigured'
  BY <1>8, <1>13 DEF Well, AsConfigured
<1>18. PromptCallsSucceed'
  BY <1>8, SameResult DEF Well
<1> QED BY <1>15, <1>16, <1>17, <1>18 DEF Well, Phase

LEMMA EcuSendSucceeds ==
  ASSUME Leeway, TypedAndSound, nfaults = 0, Well, EcuSend
  PROVE  Well'
<1>1. TxReady(ecuTx)
  BY DEF EcuSend
<1> QED BY <1>1, SendsPhase, PendSends, AnswerOpens, AnswerSends DEF Well

LEMMA BeginSucceeds ==
  ASSUME Leeway, Init
  PROVE  Well
<1>1. /\ pc = "idle" /\ rx = HostRx /\ pends = 0 /\ toEcu = << >> /\ ring = << >>
      /\ ecuTx = TxNone /\ ecuRx = EcuIdle /\ owed = FALSE /\ todo = 0 /\ nfaults = 0
      /\ result = NoResult /\ ncalls = 0
  BY DEF Init
<1>2. ecuTx.st = "done" /\ ~ecuTx.checked
  BY <1>1 DEF TxNone, TxNew
<1>3. ecuRx.st = "idle" /\ ecuRx.bs = EcuBs /\ ~ecuRx.checked
  BY <1>1 DEF EcuIdle, RxNew
<1>4. rx.bs = HostBs /\ (rx.checked => HostBs # 0)
  BY <1>1, HostRxFields DEF Leeway
<1>5. AsConfigured
  BY <1>2, <1>3, <1>4 DEF AsConfigured
<1>6. Rests
  BY <1>1, <1>2, <1>3 DEF Rests, AtRest
<1>7. PromptCallsSucceed
  BY <1>1 DEF PromptCallsSucceed, NoResult
<1> QED BY <1>5, <1>6, <1>7 DEF Well, Phase

LEMMA StandsSucceeds ==
  ASSUME Well, UNCHANGED vars
  PROVE  Well'
<1>1. UNCHANGED <<pc, op, tx, rx, left, pends, result, toEcu, ring, ecuTx, ecuRx, owed, todo,
                  ncalls, npends, nfaults>>
  BY DEF vars, hostVars, ecuVars
<1>2. Questions' = Questions /\ Replies' = Replies /\ Patience' = Patience
  BY <1>1, SameCall
<1>3. AsConfigured' /\ PromptCallsSucceed'
  BY <1>1, SameResult DEF Well, AsConfigured
<1>4. \A n : Announces(ring, n) => Announces(ring, n)'
  BY <1>1, <1>2 DEF Announces
<1>5. Listens => Listens'
  BY <1>1 DEF Listens
<1>6. Quiets => Quiets'
  BY <1>1, <1>5 DEF Quiets, HostRx
<1>7. Rests => Rests'
  BY <1>1 DEF Rests, AtRest
<1>8. Ponders => Ponders'
  BY <1>1, <1>2, <1>4, <1>6 DEF Ponders
<1>9. ASSUME NEW P, AskUnsent(P) \/ AskOpened(P) PROVE AskUnsent(P)' \/ AskOpened(P)'
  BY <1>1, <1>9 DEF AskUnsent, AskOpened, Asks, Alone
<1>10. ASSUME NEW P, AskUnderway(P) PROVE AskUnderway(P)'
  BY <1>1, <1>10 DEF AskUnderway, Asks, EcuGrant
<1>11. ASSUME NEW P, Hears(P) PROVE Hears(P)'
  BY <1>1, <1>5, <1>11 DEF Hears, HostRx, Alone
<1>12. ASSUME NEW P, AnswerUnsent(P) PROVE AnswerUnsent(P)'
  BY <1>1, <1>2, <1>4, <1>6, <1>12 DEF AnswerUnsent
<1>13. ASSUME NEW P, AnswerOpened(P) PROVE AnswerOpened(P)'
  BY <1>1, <1>2, <1>4, <1>6, <1>13 DEF AnswerOpened
<1>14. ASSUME NEW P, AnswerUnderway(P) PROVE AnswerUnderway(P)'
  <2>1. Paced(P)'
    BY <1>1, <1>14 DEF AnswerUnderway, Paced, Pause, SentBytes
  <2> QED BY <1>1, <1>5, <1>14, <2>1 DEF AnswerUnderway, HostGrant
<1>15. Phase'
  BY <1>2, <1>7, <1>8, <1>9, <1>10, <1>11, <1>12, <1>13, <1>14, Zenon DEF Phase, Well
<1> QED BY <1>3, <1>15 DEF Well

\* What goes wrong is counted.
LEMMA FaultCounts ==
  ASSUME TypedAndSound,
         \/ SendFails \/ PollFails \/ FlowFails \/ EcuIgnores \/ Lose \/ Repeat \/ Noise
  PROVE  nfaults' # 0
<1>1. nfaults \in Nat
  BY CallConstants, IsoTpAssumption DEF TypedAndSound, CountType
<1>2. nfaults' = nfaults + 1
  BY DEF SendFails, PollFails, FlowFails, EcuIgnores, Lose, Repeat, Noise, Fault
<1> QED BY <1>1, <1>2

LEMMA FaultsStay ==
  ASSUME TypedAndSound, [Next]_vars
  PROVE  nfaults' = 0 => nfaults = 0
<1>1. nfaults \in Nat
  BY CallConstants, IsoTpAssumption DEF TypedAndSound, CountType
<1>2. CASE nfaults' = nfaults
  BY <1>2
<1>3. CASE nfaults' # nfaults
  <2>1. \/ SendFails \/ PollFails \/ FlowFails \/ EcuIgnores \/ Lose \/ Repeat \/ Noise
    BY <1>3 DEF Next, vars, Call, SendFrame, AwaitFlow, FlowPolled, RecvLoop, RecvPolled,
                PollEmpty, EcuReceive, EcuFlow, EcuAnswer, EcuSend, EcuExpires, Tick
  <2> QED BY <2>1, FaultCounts
<1> QED BY <1>2, <1>3

LEMMA StepSucceeds ==
  ASSUME Leeway, TypedAndSound, InvSucceed, [Next]_vars
  PROVE  InvSucceed'
<1> SUFFICES ASSUME nfaults' = 0 PROVE Well'
  BY DEF InvSucceed
<1>1. nfaults = 0 /\ Well
  BY FaultsStay DEF InvSucceed
<1>2. CASE UNCHANGED vars
  BY <1>1, <1>2, StandsSucceeds
<1>3. CASE Call \/ SendFrame \/ FlowPolled \/ RecvPolled
  BY <1>1, <1>3, CallSucceeds, SendSucceeds, GrantSucceeds, RecvSucceeds
<1>4. CASE AwaitFlow \/ RecvLoop \/ PollEmpty
  BY <1>1, <1>4, HostLooks
<1>5. CASE EcuReceive \/ EcuFlow \/ EcuAnswer \/ EcuSend
  BY <1>1, <1>5, ReceiveSucceeds, FlowSucceeds, AnswerSucceeds, EcuSendSucceeds
<1>6. CASE EcuExpires
  BY <1>1, <1>6, NoneExpires
<1>7. CASE Tick
  BY <1>1, <1>7, TickSucceeds
<1>8. CASE \/ SendFails \/ PollFails \/ FlowFails \/ EcuIgnores \/ Lose \/ Repeat \/ Noise
  BY <1>8, FaultCounts
<1> QED BY <1>2, <1>3, <1>4, <1>5, <1>6, <1>7, <1>8 DEF Next

\* A request made of a prompt ECU succeeds with the final answer to itself when
\* nothing is lost, for any lengths, block sizes and STmin the constants leave
\* room for (mod.rs:49-61 and 310).
THEOREM PromptCallsSucceedAlways ==
  ASSUME Leeway
  PROVE  Spec => []PromptCallsSucceed
<1>1. Init => TypedAndSound /\ InvSucceed
  BY InitTyped, BeginSucceeds DEF InvSucceed
<1>2. TypedAndSound /\ InvSucceed /\ [Next]_vars => TypedAndSound' /\ InvSucceed'
  BY StepTyped, StepSucceeds
<1>3. InvSucceed => PromptCallsSucceed
  BY DEF InvSucceed, Well, PromptCallsSucceed
<1> QED BY <1>1, <1>2, <1>3, PTL DEF Spec
=============================================================================
