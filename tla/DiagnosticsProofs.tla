-------------------------- MODULE DiagnosticsProofs --------------------------
(***************************************************************************)
(* Theorems about Diagnostics, for any ECUs, identifiers, limits, faults   *)
(* and answers, in any order and at any time.                              *)
(***************************************************************************)
EXTENDS Diagnostics, SequenceTheorems, WellFoundedInduction, TLAPS

-----------------------------------------------------------------------------
(* Whose answer a call takes.                                              *)

\* A call in progress has the channel of the ECU it is to.
ChannelFits == pc \in {"sending", "waiting"} => key = call.ecu

\* What a call that waits would return is of the ECU whose channel it has.
Fits(c, r) ==
  (r.st = "Ok" /\ r.msg.kind # "none") =>
    /\ r.msg.from = c.ecu
    /\ c.op # "request" => r.msg.kind = "positive" /\ r.msg.sid = Service[c.op]
    /\ c.op = "read" => r.msg.id = c.id

Inv == ChannelFits /\ Fits(call, result)

LEMMA EmptyFits == \A c, st : Fits(c, Empty(st))
BY DEF Fits, Empty, Outcome, Nothing, Message

LEMMA ListFits == \A c, list : Fits(c, Outcome("Ok", Nothing, list))
BY DEF Fits, Outcome, Nothing, Message

LEMMA NegativeFits == \A c, m : Fits(c, Outcome("Negative", m, << >>))
BY DEF Fits, Outcome

\* An answer that the checks of a service let through is one to it.
LEMMA AnsweredFits ==
  ASSUME NEW c, NEW m, m.from = c.ecu
  PROVE  Fits(c, Answered(c, m))
<1>1. Fits(c, ParsePositive(c, m)) \/ c.op = "read"
  BY DEF Fits, ParsePositive, Outcome
<1>2. c.op = "read" => Fits(c, StripEcho(c, m))
  BY DEF Fits, StripEcho, ParsePositive, Outcome
<1>3. CASE c.op = "request"
  BY <1>3 DEF Fits, Answered, Outcome
<1>4. CASE c.op = "read"
  BY <1>2, <1>4 DEF Answered
<1>5. CASE c.op \notin {"read", "request"}
  BY <1>1, <1>5 DEF Answered
<1> QED BY <1>3, <1>4, <1>5

LEMMA InitFits == Init => Inv
BY EmptyFits DEF Init, Inv, ChannelFits

LEMMA ReceiveFits == Inv /\ Receive => Inv'
<1> SUFFICES ASSUME Inv, Receive PROVE Inv'
  OBVIOUS
<1> DEFINE m == Head(ring)
<1>1. UNCHANGED <<call, key>> /\ pc = "waiting" /\ key = call.ecu
  BY DEF Receive, Inv, ChannelFits
<1>2. ChannelFits'
  BY <1>1 DEF ChannelFits, Inv
<1>3. CASE result' = result
  BY <1>1, <1>2, <1>3 DEF Inv, Fits
<1>4. CASE Passes(m) /\ result' = Answered(call, m)
  BY <1>1, <1>2, <1>4, AnsweredFits DEF Inv, Fits, Passes
<1>5. CASE result' = Outcome("Negative", m, << >>)
  BY <1>1, <1>2, <1>5, NegativeFits DEF Inv, Fits
<1> QED BY <1>3, <1>4, <1>5 DEF Receive, Skip, Return

LEMMA StepFits == Inv /\ [Next]_vars => Inv'
<1> SUFFICES ASSUME Inv, [Next]_vars PROVE Inv'
  OBVIOUS
<1>1. CASE UNCHANGED vars
  BY <1>1 DEF vars, hostVars, Inv, ChannelFits, Fits
<1>2. CASE Open \/ Close \/ \E e \in Ecus : Speak(e)
  BY <1>2 DEF Open, Close, Speak, hostVars, Inv, ChannelFits, Fits
<1>3. CASE \E e \in Ecus : SetEndpoints(e)
  BY <1>3 DEF SetEndpoints, Inv, ChannelFits, Fits
<1>4. CASE Ask
  <2>1. result' \in {Empty("None"), Empty("Port")}
    BY <1>4 DEF Ask, Begin, Return
  <2>2. ChannelFits'
    BY <1>4 DEF Ask, Begin, Return, Channel, NoChannel, ChannelFits
  <2> QED BY <2>1, <2>2, EmptyFits DEF Inv, Fits
<1>5. CASE Send
  <2>1. UNCHANGED <<call, key>> /\ pc = "sending"
    BY <1>5 DEF Send
  <2>2. result' \in {result, Empty("Ok"), Empty("Port")}
    BY <1>5 DEF Send, Return
  <2> QED BY <2>1, <2>2, EmptyFits DEF Inv, Fits, ChannelFits
<1>6. CASE Receive
  BY <1>6, ReceiveFits
<1>7. CASE TimesOut
  <2>1. UNCHANGED <<call, key>> /\ pc' = "idle"
    BY <1>7 DEF TimesOut, Return
  <2>2. \/ \E st : result' = Empty(st)
        \/ result' = Outcome("Ok", Nothing, pids)
    BY <1>7 DEF TimesOut, Return
  <2> QED BY <2>1, <2>2, EmptyFits, ListFits DEF Inv, Fits, ChannelFits
<1>8. CASE PortFails
  BY <1>8, EmptyFits DEF PortFails, Return, Inv, Fits, ChannelFits
<1> QED BY <1>1, <1>2, <1>3, <1>4, <1>5, <1>6, <1>7, <1>8 DEF Next

\* However late answers come and wherever the filter was left, a call that
\* succeeds was answered by the ECU it asked, for the service and the identifier
\* it asked for (isotp/mod.rs:297-299, common.rs:11-37).
THEOREM AnswersAlwaysFit == Spec => []AnswersFit
<1>1. Inv => AnswersFit
  BY DEF Inv, Fits, AnswersFit
<1> QED BY <1>1, InitFits, StepFits, PTL DEF Spec

-----------------------------------------------------------------------------
(* Induction.                                                              *)

\* Induction, for a set of naturals.
LEMMA Upwards ==
  ASSUME NEW S, 0 \in S, \A n \in Nat : n \in S => n + 1 \in S
  PROVE  \A n \in Nat : n \in S
<1> SUFFICES ASSUME Nat \ S # {} PROVE FALSE
  OBVIOUS
<1>1. PICK x \in Nat \ S : \A y \in Nat \ S : <<y, x>> \notin OpToRel(<, Nat)
  <2>1. Nat \ S \subseteq Nat
    OBVIOUS
  <2> QED BY <2>1, WFMin, NatLessThanWellFounded, Zenon
<1>2. x \in Nat /\ x - 1 \in Nat /\ x - 1 < x
  <2>1. x \in Nat /\ x # 0
    BY Zenon
  <2> QED BY <2>1
<1>3. x - 1 \in S
  <2> SUFFICES ASSUME x - 1 \notin S PROVE FALSE
    OBVIOUS
  <2>1. <<x - 1, x>> \in OpToRel(<, Nat)
    BY <1>2, Zenon DEF OpToRel
  <2> QED BY <1>1, <1>2, <2>1
<1>4. x - 1 + 1 = x
  BY <1>2
<1> QED BY <1>1, <1>2, <1>3, <1>4

-----------------------------------------------------------------------------
(* The bytes of an enumeration and what is read from them.                 *)

ListEntry == [id : Nat, width : Nat, support : Seq(Nat)]

End(tlv, i) == i + 1 + tlv[i + 1]

\* Whether a whole entry begins at i, that entry, and where the next begins.
Whole(tlv, i) == i + 1 <= Len(tlv) /\ End(tlv, i) <= Len(tlv)
EntryAt(tlv, i) ==
  [id |-> tlv[i], width |-> tlv[i + 1], support |-> SubSeq(tlv, i + 2, End(tlv, i))]

\* The list from i on, when f has the lists behind.
From(tlv, f, i) == IF Whole(tlv, i) THEN <<EntryAt(tlv, i)>> \o f[End(tlv, i) + 1] ELSE << >>

Parse(tlv) == CHOOSE f : f = [i \in 1..Len(tlv) + 1 |-> From(tlv, f, i)]

LEMMA ParsePidsIs ==
  ASSUME NEW tlv \in Seq(Nat)
  PROVE  ParsePids(tlv) = Parse(tlv)[1]
<1> DEFINE G(f, i) == IF i + 1 > Len(tlv) THEN << >>
                      ELSE IF i + 1 + tlv[i + 1] > Len(tlv) THEN << >>
                      ELSE <<[id |-> tlv[i], width |-> tlv[i + 1],
                              support |-> SubSeq(tlv, i + 2, i + 1 + tlv[i + 1])]>>
                           \o f[i + 1 + tlv[i + 1] + 1]
<1>1. ParsePids(tlv) = (CHOOSE f : f = [i \in 1..Len(tlv) + 1 |-> G(f, i)])[1]
  BY Zenon DEF ParsePids
<1>2. ASSUME NEW f, NEW i \in 1..Len(tlv) + 1 PROVE G(f, i) = From(tlv, f, i)
  <2>1. i + 1 <= Len(tlv) <=> ~(i + 1 > Len(tlv))
    BY LenProperties
  <2>2. i + 1 <= Len(tlv) => (i + 1 + tlv[i + 1] <= Len(tlv) <=> ~(i + 1 + tlv[i + 1] > Len(tlv)))
    <3> SUFFICES ASSUME i + 1 <= Len(tlv)
                 PROVE  i + 1 + tlv[i + 1] <= Len(tlv) <=> ~(i + 1 + tlv[i + 1] > Len(tlv))
      OBVIOUS
    <3>1. tlv[i + 1] \in Nat /\ Len(tlv) \in Nat
      BY LenProperties, ElementOfSeq
    <3> QED BY <3>1
  <2> QED BY <2>1, <2>2, Zenon DEF From, Whole, EntryAt, End
<1>3. ASSUME NEW f
      PROVE  [i \in 1..Len(tlv) + 1 |-> G(f, i)] = [i \in 1..Len(tlv) + 1 |-> From(tlv, f, i)]
  BY <1>2, Zenon
<1>4. (CHOOSE f : f = [i \in 1..Len(tlv) + 1 |-> G(f, i)]) = Parse(tlv)
  <2> HIDE DEF G
  <2> QED BY <1>3, Zenon DEF Parse
<1> QED BY <1>1, <1>4, Zenon

LEMMA EntryTyped ==
  ASSUME NEW tlv \in Seq(Nat), NEW i \in 1..Len(tlv) + 1, Whole(tlv, i)
  PROVE  /\ EntryAt(tlv, i) \in ListEntry
         /\ End(tlv, i) + 1 \in i + 1..Len(tlv) + 1
<1>1. Len(tlv) \in Nat /\ i \in 1..Len(tlv) /\ i + 1 \in 1..Len(tlv)
  BY LenProperties DEF Whole
<1>2. tlv[i] \in Nat /\ tlv[i + 1] \in Nat
  BY <1>1, ElementOfSeq
<1>3. End(tlv, i) \in i + 1..Len(tlv)
  BY <1>1, <1>2 DEF Whole, End
<1>4. SubSeq(tlv, i + 2, End(tlv, i)) \in Seq(Nat)
  <2>1. i + 2 \in Int /\ End(tlv, i) \in Int /\ \A k \in i + 2..End(tlv, i) : k \in 1..Len(tlv)
    BY <1>1, <1>3
  <2>2. \A k \in i + 2..End(tlv, i) : tlv[k] \in Nat
    BY <2>1, ElementOfSeq
  <2> QED BY <2>1, <2>2, SubSeqProperties
<1>5. EntryAt(tlv, i) \in ListEntry
  BY <1>2, <1>4 DEF EntryAt, ListEntry
<1>6. End(tlv, i) + 1 \in i + 1..Len(tlv) + 1
  BY <1>1, <1>3
<1> QED BY <1>5, <1>6

LEMMA FromTyped ==
  ASSUME NEW tlv \in Seq(Nat), NEW i \in 1..Len(tlv) + 1, NEW f,
         \A k \in i + 1..Len(tlv) + 1 : f[k] \in Seq(ListEntry)
  PROVE  From(tlv, f, i) \in Seq(ListEntry)
<1>1. CASE Whole(tlv, i)
  <2>1. EntryAt(tlv, i) \in ListEntry /\ f[End(tlv, i) + 1] \in Seq(ListEntry)
    BY <1>1, EntryTyped
  <2>2. <<EntryAt(tlv, i)>> \in Seq(ListEntry)
    BY <2>1
  <2> QED BY <1>1, <2>1, <2>2, ConcatProperties DEF From
<1>2. CASE ~Whole(tlv, i)
  BY <1>2 DEF From
<1> QED BY <1>1, <1>2

\* From looks only behind i.
LEMMA Associates ==
  ASSUME NEW S, NEW a \in Seq(S), NEW b \in Seq(S), NEW c \in Seq(S)
  PROVE  a \o (b \o c) = (a \o b) \o c
BY ConcatAssociative, SMTT(60)

\* The same as a fact about S, a, b and c that the provers need not see through.
Regroups(S, a, b, c) == (a \o b) \o c = a \o (b \o c)

LEMMA RegroupsAlways ==
  ASSUME NEW S, NEW a \in Seq(S), NEW b \in Seq(S), NEW c \in Seq(S)
  PROVE  Regroups(S, a, b, c)
BY ConcatAssociative, SMTT(60) DEF Regroups

LEMMA Within ==
  ASSUME NEW w \in Nat, NEW b, NEW m \in Nat, NEW n, b = w + 2, n = b + m
  PROVE  1 + 1 = 2 /\ 2 <= n /\ b <= n /\ 2 + w = b
OBVIOUS

LEMMA FromThird ==
  ASSUME NEW w \in Nat, NEW b, b = w + 2
  PROVE  b \in Int /\ 3 \in Int /\ b - 3 + 1 = w /\ (3 <= b \/ w = 0)
OBVIOUS

LEMMA TwoBeyond ==
  ASSUME NEW w \in Nat, NEW n, n = w + 2
  PROVE  1 \in 1..n /\ 2 \in 1..n /\ \A k \in 1..w : k + 2 \in 1..n
OBVIOUS

LEMMA FurtherOn ==
  ASSUME NEW n \in Nat, NEW k \in 1..n
  PROVE  \A i \in k + 1..n : i \in 1..n
OBVIOUS

LEMMA FromLooksBehind ==
  ASSUME NEW tlv \in Seq(Nat), NEW i \in 1..Len(tlv) + 1, NEW f, NEW g,
         \A k \in i + 1..Len(tlv) + 1 : f[k] = g[k]
  PROVE  From(tlv, f, i) = From(tlv, g, i)
BY EntryTyped DEF From

LEMMA ParseExists ==
  ASSUME NEW tlv \in Seq(Nat)
  PROVE  \E f : f = [i \in 1..Len(tlv) + 1 |-> From(tlv, f, i)]
<1> DEFINE N == Len(tlv) + 1
           D == 1..N
           Good(n) == \E f \in [D -> Seq(ListEntry)] : \A i \in D : i + n > N => f[i] = From(tlv, f, i)
           S == {n \in Nat : Good(n)}
<1>0. N \in Nat
  BY LenProperties
<1>1. 0 \in S
  <2>1. [i \in D |-> << >>] \in [D -> Seq(ListEntry)]
    OBVIOUS
  <2>2. \A i \in D : ~(i + 0 > N)
    BY <1>0
  <2> QED BY <2>1, <2>2
<1>2. ASSUME NEW n \in Nat, n \in S PROVE n + 1 \in S
  <2>1. PICK f \in [D -> Seq(ListEntry)] : \A i \in D : i + n > N => f[i] = From(tlv, f, i)
    BY <1>2
  <2>2. CASE n >= N
    <3>1. \A i \in D : i + n > N
      BY <1>0, <2>2
    <3> QED BY <2>1, <3>1
  <2>3. CASE n < N
    <3> DEFINE k == N - n
               g == [f EXCEPT ![k] = From(tlv, f, k)]
    <3>1. k \in D /\ n + 1 \in Nat /\ \A i \in D : i + (n + 1) > N <=> i >= k
      BY <1>0, <2>3
    <3>2. From(tlv, f, k) \in Seq(ListEntry)
      <4>1. \A i \in k + 1..N : f[i] \in Seq(ListEntry)
        <5>1. \A i \in k + 1..N : i \in D
          <6> HIDE DEF N, k
          <6> QED BY <1>0, <3>1, FurtherOn, Zenon
        <5> HIDE DEF N, D, k
        <5> QED BY <5>1
      <4> QED BY <3>1, <4>1, FromTyped
    <3>3. g \in [D -> Seq(ListEntry)]
      BY <3>1, <3>2
    <3>4. ASSUME NEW i \in D, i >= k PROVE g[i] = From(tlv, g, i)
      <4>1. \A j \in i + 1..N : f[j] = g[j]
        BY <1>0, <3>1, <3>4
      <4>2. From(tlv, f, i) = From(tlv, g, i)
        BY <4>1, FromLooksBehind
      <4>3. CASE i = k
        BY <3>1, <4>2, <4>3
      <4>4. CASE i # k
        <5>1. i + n > N
          <6>1. i \in Nat /\ i >= N - n /\ i # N - n
            BY <1>0, <3>4, <4>4
          <6> HIDE DEF N
          <6> QED BY <1>0, <6>1
        <5>2. g[i] = f[i]
          BY <4>4
        <5> QED BY <2>1, <4>2, <5>1, <5>2
      <4> QED BY <4>3, <4>4
    <3> QED BY <3>1, <3>3, <3>4
  <2> QED BY <2>2, <2>3, <1>0
<1>3. N \in S
  <2> HIDE DEF S
  <2> QED BY <1>0, <1>1, <1>2, Upwards
<1>4. PICK f \in [D -> Seq(ListEntry)] : \A i \in D : i + N > N => f[i] = From(tlv, f, i)
  BY <1>3
<1>5. \A i \in D : f[i] = From(tlv, f, i)
  BY <1>0, <1>4
<1>6. f = [i \in D |-> From(tlv, f, i)]
  <2>1. f = [i \in D |-> f[i]]
    BY <1>4, Zenon
  <2> QED BY <1>5, <2>1, Zenon
<1> QED BY <1>6, Zenon

\* The function that ParsePids unfolds, and what it returns.
LEMMA ParseUnfolds ==
  ASSUME NEW tlv \in Seq(Nat)
  PROVE  \A i \in 1..Len(tlv) + 1 :
           Parse(tlv)[i] = From(tlv, Parse(tlv), i) /\ Parse(tlv)[i] \in Seq(ListEntry)
<1> DEFINE N == Len(tlv) + 1
           p == Parse(tlv)
           S == {n \in Nat : \A i \in 1..N : i + n > N => p[i] \in Seq(ListEntry)}
<1>0. N \in Nat
  BY LenProperties
<1>1. p = [i \in 1..N |-> From(tlv, p, i)]
  BY ParseExists, Zenon DEF Parse
<1> HIDE DEF p
<1>2. \A i \in 1..N : p[i] = From(tlv, p, i)
  BY <1>1, Zenon
<1>3. 0 \in S
  BY <1>0
<1>4. ASSUME NEW n \in Nat, n \in S PROVE n + 1 \in S
  <2>1. ASSUME NEW i \in 1..N, i + (n + 1) > N PROVE p[i] \in Seq(ListEntry)
    <3>1. \A k \in i + 1..N : k \in 1..N /\ k + n > N
      BY <1>0, <2>1
    <3>2. \A k \in i + 1..N : p[k] \in Seq(ListEntry)
      BY <1>4, <3>1
    <3>3. From(tlv, p, i) \in Seq(ListEntry)
      BY <3>2, FromTyped
    <3> QED BY <1>2, <3>3
  <2> QED BY <2>1
<1>5. N \in S
  <2> HIDE DEF S
  <2> QED BY <1>0, <1>3, <1>4, Upwards
<1>6. \A i \in 1..N : p[i] \in Seq(ListEntry)
  BY <1>0, <1>5
<1> QED BY <1>2, <1>6 DEF p

LEMMA ParsePidsTyped ==
  ASSUME NEW tlv \in Seq(Nat)
  PROVE  ParsePids(tlv) \in Seq(ListEntry)
<1>1. 1 \in 1..Len(tlv) + 1
  BY LenProperties
<1> QED BY <1>1, ParsePidsIs, ParseUnfolds

-----------------------------------------------------------------------------
(* Lists of lists, laid end to end.                                        *)

Step(ss, f, i) == IF i = 1 THEN ss[i] ELSE f[i - 1] \o ss[i]

Laid(ss) == CHOOSE f : f = [i \in 1..Len(ss) |-> Step(ss, f, i)]

LEMMA FlattenIs ==
  ASSUME NEW ss
  PROVE  /\ Len(ss) = 0 => FlattenSeq(ss) = ss
         /\ Len(ss) # 0 => FlattenSeq(ss) = Laid(ss)[Len(ss)]
BY Zenon DEF FlattenSeq, Laid, Step

LEMMA LaidExists ==
  ASSUME NEW T, NEW ss \in Seq(Seq(T))
  PROVE  \E f : f = [i \in 1..Len(ss) |-> Step(ss, f, i)]
<1> DEFINE D == 1..Len(ss)
           Good(n) == \E f \in [D -> Seq(T)] : \A i \in D : i <= n => f[i] = Step(ss, f, i)
           S == {n \in Nat : Good(n)}
<1>0. Len(ss) \in Nat /\ \A i \in D : ss[i] \in Seq(T)
  BY LenProperties, ElementOfSeq
<1>1. 0 \in S
  <2>1. ss \in [D -> Seq(T)] /\ \A i \in D : ~(i <= 0)
    BY <1>0, LenProperties
  <2> QED BY <2>1
<1>2. ASSUME NEW n \in Nat, n \in S PROVE n + 1 \in S
  <2>1. PICK f \in [D -> Seq(T)] : \A i \in D : i <= n => f[i] = Step(ss, f, i)
    BY <1>2
  <2> DEFINE k == n + 1
             g == [f EXCEPT ![k] = Step(ss, f, k)]
  <2>2. CASE k \in D
    <3>1. Step(ss, f, k) \in Seq(T)
      <4>1. CASE k = 1
        BY <1>0, <2>2, <4>1 DEF Step
      <4>2. CASE k # 1
        <5>1. k - 1 \in D
          BY <1>0, <2>2, <4>2
        <5>2. f[k - 1] \in Seq(T) /\ ss[k] \in Seq(T)
          BY <1>0, <2>2, <5>1
        <5> QED BY <4>2, <5>2, ConcatProperties DEF Step
      <4> QED BY <4>1, <4>2
    <3>2. g \in [D -> Seq(T)]
      BY <2>2, <3>1
    <3>3. ASSUME NEW i \in D, i <= k PROVE g[i] = Step(ss, g, i)
      <4>1. Step(ss, g, i) = Step(ss, f, i)
        <5>1. i # 1 => i - 1 \in D /\ i - 1 # k
          BY <1>0, <3>3
        <5>2. i # 1 => g[i - 1] = f[i - 1]
          BY <5>1
        <5> HIDE DEF g
        <5> QED BY <5>2, Zenon DEF Step
      <4>2. CASE i = k
        BY <2>2, <4>1, <4>2
      <4>3. CASE i # k
        <5>1. i <= n /\ g[i] = f[i]
          BY <1>0, <3>3, <4>3
        <5> QED BY <2>1, <4>1, <5>1
      <4> QED BY <4>2, <4>3
    <3>4. Good(n + 1)
      <4> HIDE DEF g
      <4> QED BY <3>2, <3>3
    <3> QED BY <3>4
  <2>3. CASE k \notin D
    <3>1. \A i \in D : i <= k => i <= n
      BY <1>0, <2>3
    <3> QED BY <2>1, <3>1
  <2> QED BY <2>2, <2>3
<1>3. Len(ss) \in S
  <2> HIDE DEF S
  <2> QED BY <1>0, <1>1, <1>2, Upwards
<1>4. PICK f \in [D -> Seq(T)] : \A i \in D : i <= Len(ss) => f[i] = Step(ss, f, i)
  BY <1>3
<1>5. \A i \in D : f[i] = Step(ss, f, i)
  BY <1>0, <1>4
<1>6. f = [i \in D |-> Step(ss, f, i)]
  <2>1. f = [i \in D |-> f[i]]
    BY <1>4, Zenon
  <2> QED BY <1>5, <2>1, Zenon
<1> QED BY <1>6, Zenon

LEMMA LaidUnfolds ==
  ASSUME NEW T, NEW ss \in Seq(Seq(T))
  PROVE  \A i \in 1..Len(ss) :
           /\ Laid(ss)[i] = IF i = 1 THEN ss[1] ELSE Laid(ss)[i - 1] \o ss[i]
           /\ Laid(ss)[i] \in Seq(T)
<1> DEFINE D == 1..Len(ss)
           p == Laid(ss)
           S == {n \in Nat : \A i \in D : i <= n => p[i] \in Seq(T)}
<1>0. Len(ss) \in Nat /\ \A i \in D : ss[i] \in Seq(T)
  BY LenProperties, ElementOfSeq
<1>1. p = [i \in D |-> Step(ss, p, i)]
  BY LaidExists, Zenon DEF Laid
<1> HIDE DEF p
<1>2. \A i \in D : p[i] = IF i = 1 THEN ss[1] ELSE p[i - 1] \o ss[i]
  BY <1>1, Zenon DEF Step
<1>3. 0 \in S
  BY <1>0
<1>4. ASSUME NEW n \in Nat, n \in S PROVE n + 1 \in S
  <2>1. ASSUME NEW i \in D, i <= n + 1 PROVE p[i] \in Seq(T)
    <3>1. CASE i = 1
      BY <1>0, <1>2, <3>1
    <3>2. CASE i # 1
      <4>1. i - 1 \in D /\ i - 1 <= n
        BY <1>0, <2>1, <3>2
      <4>2. p[i - 1] \in Seq(T) /\ ss[i] \in Seq(T)
        BY <1>0, <1>4, <4>1
      <4>3. p[i - 1] \o ss[i] \in Seq(T)
        BY <4>2, ConcatProperties
      <4> QED BY <1>2, <3>2, <4>3
    <3> QED BY <3>1, <3>2
  <2> QED BY <2>1
<1>5. Len(ss) \in S
  <2> HIDE DEF S
  <2> QED BY <1>0, <1>3, <1>4, Upwards
<1>6. \A i \in D : p[i] \in Seq(T)
  BY <1>0, <1>5
<1> QED BY <1>2, <1>6 DEF p

LEMMA FlattenTyped ==
  ASSUME NEW T, NEW ss \in Seq(Seq(T))
  PROVE  FlattenSeq(ss) \in Seq(T)
<1>1. CASE Len(ss) = 0
  <2>1. ss = << >>
    BY <1>1, EmptySeq
  <2>2. FlattenSeq(ss) = ss
    BY <1>1, FlattenIs, Zenon
  <2>3. << >> \in Seq(T)
    OBVIOUS
  <2> QED BY <2>1, <2>2, <2>3, Zenon
<1>2. CASE Len(ss) # 0
  <2>1. Len(ss) \in 1..Len(ss)
    BY <1>2, LenProperties
  <2>2. FlattenSeq(ss) = Laid(ss)[Len(ss)]
    BY <1>2, FlattenIs, Zenon
  <2>3. Laid(ss)[Len(ss)] \in Seq(T)
    BY <2>1, LaidUnfolds, Zenon
  <2> QED BY <2>2, <2>3, Zenon
<1> QED BY <1>1, <1>2

\* Each list stands behind those before it.
LEMMA LaidNext ==
  ASSUME NEW T, NEW ss \in Seq(Seq(T)), NEW i \in Nat \ {0}, i + 1 <= Len(ss)
  PROVE  Laid(ss)[i + 1] = Laid(ss)[i] \o ss[i + 1]
<1>1. PICK j \in 1..Len(ss) : j = i + 1 /\ j # 1 /\ j - 1 = i
  BY LenProperties
<1>2. Laid(ss)[j] = IF j = 1 THEN ss[1] ELSE Laid(ss)[j - 1] \o ss[j]
  BY LaidUnfolds, Zenon
<1>3. Laid(ss)[j] = Laid(ss)[i] \o ss[j]
  BY <1>1, <1>2, Zenon
<1> QED BY <1>1, <1>3, Zenon

LEMMA FirstOfAll ==
  ASSUME NEW n, n = 0, NEW m \in Nat, n + 1 \in 1..m
  PROVE  n + 1 = 1 /\ m # 0
OBVIOUS

\* The first list, then the others laid end to end.
LEMMA FlattenFirst ==
  ASSUME NEW T, NEW ss \in Seq(Seq(T)), ss # << >>
  PROVE  FlattenSeq(ss) = Head(ss) \o FlattenSeq(Tail(ss))
<1> DEFINE t == Tail(ss)
           Behind(k) == Laid(ss)[k + 1] = ss[1] \o Laid(t)[k]
           S == {n \in Nat : \A k \in 1..Len(t) : k <= n => Behind(k)}
<1>1. /\ Len(ss) \in Nat \ {0} /\ t \in Seq(Seq(T)) /\ Len(t) = Len(ss) - 1 /\ Head(ss) = ss[1]
      /\ \A i \in 1..Len(t) : t[i] = ss[i + 1]
  BY EmptySeq, HeadTailProperties
<1>2. \A i \in 1..Len(ss) : ss[i] \in Seq(T)
  BY ElementOfSeq
<1>3. /\ \A i \in 1..Len(ss) : Laid(ss)[i] \in Seq(T)
      /\ \A i \in 1..Len(t) : Laid(t)[i] \in Seq(T)
  BY <1>1, LaidUnfolds
<1>4. Laid(ss)[1] = ss[1] /\ (Len(t) # 0 => Laid(t)[1] = t[1])
  <2>1. 1 \in 1..Len(ss) /\ (Len(t) # 0 => 1 \in 1..Len(t))
    BY <1>1
  <2> QED BY <1>1, <2>1, LaidUnfolds
<1> HIDE DEF t
<1>5. 0 \in S
  <2>1. \A k \in 1..Len(t) : ~(k <= 0)
    BY <1>1
  <2> HIDE DEF Behind
  <2> QED BY <2>1
<1>6. ASSUME NEW n \in Nat, n \in S PROVE n + 1 \in S
  <2> SUFFICES ASSUME n + 1 \in 1..Len(t) PROVE Behind(n + 1)
    <3>1. \A k \in 1..Len(t) : k <= n + 1 => k <= n \/ k = n + 1
      BY <1>1
    <3> HIDE DEF Behind
    <3>2. \A k \in 1..Len(t) : k <= n => Behind(k)
      BY <1>6
    <3>3. ASSUME NEW k \in 1..Len(t), k <= n + 1 PROVE Behind(k)
      BY <3>1, <3>2, <3>3
    <3> QED BY <3>3
  <2>1. n + 1 \in Nat \ {0} /\ n + 1 + 1 <= Len(ss) /\ t[n + 1] = ss[n + 1 + 1]
    BY <1>1
  <2>2. Laid(ss)[n + 1 + 1] = Laid(ss)[n + 1] \o t[n + 1]
    BY <2>1, LaidNext
  <2>3. CASE n = 0
    <3>1. n + 1 = 1 /\ Len(t) # 0
      <4>1. Len(t) \in Nat
        BY <1>1, LenProperties, Zenon
      <4> QED BY <2>3, <4>1, FirstOfAll, Zenon
    <3>2. Laid(ss)[1] = ss[1] /\ Laid(t)[1] = t[1]
      BY <1>4, <3>1, Zenon
    <3>3. Laid(ss)[n + 1] = ss[1] /\ Laid(t)[n + 1] = t[n + 1]
      BY <3>1, <3>2, Zenon
    <3> QED BY <2>2, <3>3
  <2>4. CASE n # 0
    <3>1. n \in Nat \ {0} /\ n + 1 <= Len(t) /\ n \in 1..Len(t) /\ 1 \in 1..Len(ss)
      BY <1>1, <2>4
    <3>2. Laid(t)[n + 1] = Laid(t)[n] \o t[n + 1]
      BY <1>1, <3>1, LaidNext
    <3>3. Laid(ss)[n + 1] = ss[1] \o Laid(t)[n]
      <4>1. \A k \in 1..Len(t) : k <= n => Behind(k)
        <5> HIDE DEF Behind
        <5> QED BY <1>6
      <4>2. n <= n
        OBVIOUS
      <4> QED BY <3>1, <4>1, <4>2, Zenon
    <3>4. ss[1] \in Seq(T) /\ Laid(t)[n] \in Seq(T) /\ t[n + 1] \in Seq(T)
      BY <1>1, <1>2, <1>3, <3>1, ElementOfSeq
    <3>5. (ss[1] \o Laid(t)[n]) \o t[n + 1] = ss[1] \o (Laid(t)[n] \o t[n + 1])
      <4>1. Regroups(T, ss[1], Laid(t)[n], t[n + 1])
        BY <3>4, RegroupsAlways, Zenon
      <4> QED BY <4>1, Zenon DEF Regroups
    <3> QED BY <2>2, <3>2, <3>3, <3>5
  <2> QED BY <2>3, <2>4
<1>7. CASE Len(t) = 0
  <2>1. t = << >> /\ Len(ss) = 1 /\ 1 \in 1..Len(ss)
    BY <1>1, <1>7, EmptySeq
  <2>2. FlattenSeq(ss) = Laid(ss)[1] /\ FlattenSeq(t) = << >>
    <3>1. Len(ss) # 0
      BY <2>1
    <3>2. FlattenSeq(ss) = Laid(ss)[Len(ss)]
      BY <3>1, FlattenIs, Zenon
    <3>3. FlattenSeq(t) = t
      BY <1>7, FlattenIs, Zenon
    <3> QED BY <2>1, <3>2, <3>3, Zenon
  <2>3. ss[1] \o << >> = ss[1]
    BY <1>2, <2>1, ConcatEmptySeq
  <2> QED BY <1>1, <1>4, <2>2, <2>3 DEF t
<1>8. CASE Len(t) # 0
  <2>1. Len(t) \in Nat /\ Len(t) \in 1..Len(t) /\ Len(ss) = Len(t) + 1 /\ Len(ss) # 0
    BY <1>1, <1>8
  <2>2. Len(t) \in S
    <3> HIDE DEF S
    <3> QED BY <1>5, <1>6, <2>1, Upwards
  <2>3. Laid(ss)[Len(ss)] = ss[1] \o Laid(t)[Len(t)]
    <3>1. \A k \in 1..Len(t) : k <= Len(t) => Behind(k)
      <4> HIDE DEF Behind
      <4> QED BY <2>2
    <3>2. Len(t) <= Len(t)
      BY <2>1
    <3> QED BY <2>1, <3>1, <3>2, Zenon
  <2>4. FlattenSeq(ss) = Laid(ss)[Len(ss)] /\ FlattenSeq(t) = Laid(t)[Len(t)]
    BY <1>8, <2>1, FlattenIs, Zenon
  <2> QED BY <1>1, <2>3, <2>4 DEF t
<1> QED BY <1>7, <1>8

-----------------------------------------------------------------------------
(* What is read is what was written.                                       *)

\* Two sequences joined.
LEMMA Joined ==
  ASSUME NEW S, NEW a \in Seq(S), NEW b \in Seq(S)
  PROVE  /\ a \o b \in Seq(S) /\ Len(a \o b) = Len(a) + Len(b)
         /\ Len(a) \in Nat /\ Len(b) \in Nat
         /\ \A i \in 1..Len(a) : (a \o b)[i] = a[i]
         /\ \A i \in 1..Len(b) : (a \o b)[Len(a) + i] = b[i]
<1>1. Len(a) \in Nat /\ Len(b) \in Nat
  BY LenProperties
<1>2. /\ a \o b \in Seq(S) /\ Len(a \o b) = Len(a) + Len(b)
      /\ \A i \in 1..Len(a) + Len(b) : (a \o b)[i] = IF i <= Len(a) THEN a[i] ELSE b[i - Len(a)]
  BY ConcatProperties
<1>3. ASSUME NEW i \in 1..Len(a) PROVE (a \o b)[i] = a[i]
  <2>1. i \in 1..Len(a) + Len(b) /\ i <= Len(a)
    BY <1>1
  <2> QED BY <1>2, <2>1
<1>4. ASSUME NEW i \in 1..Len(b) PROVE (a \o b)[Len(a) + i] = b[i]
  <2>1. PICK j \in 1..Len(a) + Len(b) : j = Len(a) + i /\ ~(j <= Len(a)) /\ j - Len(a) = i
    BY <1>1
  <2>2. (a \o b)[j] = b[j - Len(a)]
    BY <1>2, <2>1
  <2> QED BY <2>1, <2>2
<1> QED BY <1>1, <1>2, <1>3, <1>4

Masks(n) == [b \in 1..n |-> Mask]
Block(e) == <<e.id, e.width>> \o Masks(e.width)
Masked(e) == [id |-> e.id, width |-> e.width, support |-> Masks(e.width)]

LEMMA BlockIs ==
  ASSUME NEW e \in Entry
  PROVE  /\ Block(e) \in Seq(Nat) /\ Len(Block(e)) = e.width + 2
         /\ Block(e)[1] = e.id /\ Block(e)[2] = e.width
         /\ \A b \in 1..e.width : Block(e)[b + 2] = Mask
         /\ Masks(e.width) \in Seq(Nat) /\ Len(Masks(e.width)) = e.width
         /\ e.id \in Nat /\ e.width \in Nat /\ Masked(e) \in ListEntry
<1>1. e.id \in Nat /\ e.width \in Nat
  BY DEF Entry
<1>2. Masks(e.width) \in Seq(Nat) /\ Len(Masks(e.width)) = e.width
  BY <1>1 DEF Masks, Mask
<1>3. \A b \in 1..e.width : Masks(e.width)[b] = Mask
  BY DEF Masks
<1>4. /\ <<e.id, e.width>> \in Seq(Nat) /\ Len(<<e.id, e.width>>) = 2
      /\ <<e.id, e.width>>[1] = e.id /\ <<e.id, e.width>>[2] = e.width
  BY <1>1
<1>5. PICK m \in Seq(Nat) : m = Masks(e.width)
  BY <1>2
<1>6. PICK h \in Seq(Nat) : h = <<e.id, e.width>>
  BY <1>4
<1>7. Block(e) = h \o m
  BY <1>5, <1>6 DEF Block
<1>8. /\ h \o m \in Seq(Nat) /\ Len(h \o m) = e.width + 2
      /\ (h \o m)[1] = h[1] /\ (h \o m)[2] = h[2]
      /\ \A b \in 1..e.width : (h \o m)[b + 2] = m[b]
  <2>1. Len(h) = 2 /\ Len(m) = e.width
    BY <1>2, <1>4, <1>5, <1>6
  <2>2. /\ h \o m \in Seq(Nat) /\ Len(h \o m) = Len(h) + Len(m)
        /\ \A i \in 1..Len(h) : (h \o m)[i] = h[i]
        /\ \A i \in 1..Len(m) : (h \o m)[Len(h) + i] = m[i]
    BY Joined
  <2>3. 1 \in 1..Len(h) /\ 2 \in 1..Len(h) /\ Len(h) + Len(m) = e.width + 2
    BY <1>1, <2>1
  <2>4. ASSUME NEW b \in 1..e.width PROVE (h \o m)[b + 2] = m[b]
    <3>1. b \in 1..Len(m) /\ Len(h) + b = b + 2
      BY <1>1, <2>1
    <3> QED BY <2>2, <3>1
  <2> QED BY <2>2, <2>3, <2>4
<1>9. Masked(e) \in ListEntry
  BY <1>1, <1>2 DEF Masked, ListEntry
<1> QED BY <1>1, <1>2, <1>3, <1>4, <1>5, <1>6, <1>7, <1>8, <1>9

\* r stands in s behind d bytes, and so do the lists of g in f, from i on.
Stands(s, r, d) == Len(s) = d + Len(r) /\ \A k \in 1..Len(r) : s[d + k] = r[k]
ListsStand(f, g, d, i, n) == \A k \in i..n : f[d + k] = g[k]

\* A list read behind d other bytes.
LEMMA FromShifts ==
  ASSUME NEW s \in Seq(Nat), NEW r \in Seq(Nat), NEW d \in Nat, NEW f, NEW g,
         Stands(s, r, d), NEW i \in 1..Len(r) + 1, ListsStand(f, g, d, i + 1, Len(r) + 1)
  PROVE  From(s, f, d + i) = From(r, g, i)
<1>1. /\ Len(s) \in Nat /\ Len(r) \in Nat /\ i \in Nat /\ d + i \in 1..Len(s) + 1
      /\ Len(s) = d + Len(r)
  BY LenProperties DEF Stands
<1>2. CASE i + 1 <= Len(r)
  <2>1. s[d + i] = r[i] /\ s[d + i + 1] = r[i + 1] /\ r[i + 1] \in Nat /\ r[i] \in Nat
    <3>1. i \in 1..Len(r) /\ i + 1 \in 1..Len(r) /\ d + i + 1 = d + (i + 1)
      BY <1>1, <1>2
    <3>2. r[i + 1] \in Nat /\ r[i] \in Nat
      BY <3>1, ElementOfSeq
    <3> QED BY <3>1, <3>2 DEF Stands
  <2>2. End(s, d + i) = d + End(r, i) /\ End(r, i) \in Nat /\ End(r, i) >= i + 1
    <3>1. PICK x \in Nat : x = r[i + 1] /\ s[d + i + 1] = x
      BY <2>1
    <3>2. PICK u, v : /\ u = d + i + 1 + x /\ v = i + 1 + x
                      /\ End(s, d + i) = u /\ End(r, i) = v
      BY <3>1, Zenon DEF End
    <3>3. u = d + v /\ v \in Nat /\ v >= i + 1
      BY <1>1, <3>2
    <3> QED BY <3>2, <3>3, Zenon
  <2>3. Whole(s, d + i) <=> Whole(r, i)
    <3>1. PICK y \in Nat : y = End(r, i) /\ End(s, d + i) = d + y
      BY <2>2
    <3>2. Whole(s, d + i) <=> d + i + 1 <= Len(s) /\ d + y <= Len(s)
      BY <3>1, Zenon DEF Whole
    <3>3. Whole(r, i) <=> i + 1 <= Len(r) /\ y <= Len(r)
      BY <3>1, Zenon DEF Whole
    <3> QED BY <1>1, <3>2, <3>3
  <2>4. CASE Whole(r, i)
    <3>1. End(r, i) <= Len(r)
      BY <2>4 DEF Whole
    <3>2. SubSeq(s, d + i + 2, End(s, d + i)) = SubSeq(r, i + 2, End(r, i))
      <4> DEFINE m == End(r, i)
                 a == SubSeq(s, d + i + 2, d + m)
                 b == SubSeq(r, i + 2, m)
      <4>1. m \in Nat /\ m >= i + 1 /\ m <= Len(r)
        BY <2>2, <3>1
      <4> HIDE DEF m
      <4>2. \A k \in i + 2..m : k \in 1..Len(r) /\ d + k \in 1..Len(s)
        BY <1>1, <4>1
      <4>3. (\A k \in i + 2..m : r[k] \in Nat) /\ \A k \in d + i + 2..d + m : s[k] \in Nat
        <5>1. \A k \in d + i + 2..d + m : k \in 1..Len(s)
          BY <1>1, <4>1
        <5> QED BY <4>2, <5>1, ElementOfSeq
      <4>4. /\ b \in Seq(Nat) /\ Len(b) = m - (i + 2) + 1
            /\ \A k \in 1..m - (i + 2) + 1 : b[k] = r[i + 2 + k - 1]
        <5>1. i + 2 \in Int /\ m \in Int /\ (i + 2 <= m \/ m - (i + 2) + 1 = 0)
          BY <1>1, <4>1
        <5> QED BY <4>3, <5>1, SubSeqProperties
      <4>5. /\ a \in Seq(Nat) /\ Len(a) = m - (i + 2) + 1
            /\ \A k \in 1..m - (i + 2) + 1 : a[k] = s[d + i + 2 + k - 1]
        <5>1. /\ d + i + 2 \in Int /\ d + m \in Int
              /\ (d + m) - (d + i + 2) + 1 = m - (i + 2) + 1
              /\ d + i + 2 <= d + m \/ m - (i + 2) + 1 = 0
          BY <1>1, <4>1
        <5>2. PICK lo \in Int, hi \in Int : lo = d + i + 2 /\ hi = d + m
          BY <5>1
        <5>3. hi - lo + 1 = m - (i + 2) + 1 /\ (lo <= hi \/ m - (i + 2) + 1 = 0)
          BY <5>1, <5>2, Zenon
        <5>33. \A k \in lo..hi : s[k] \in Nat
          BY <4>3, <5>2, Zenon
        <5>4. /\ SubSeq(s, lo, hi) \in Seq(Nat)
              /\ Len(SubSeq(s, lo, hi)) = IF lo <= hi THEN hi - lo + 1 ELSE 0
              /\ \A k \in 1..hi - lo + 1 : SubSeq(s, lo, hi)[k] = s[lo + k - 1]
          BY <5>33, SubSeqProperties
        <5>5. a = SubSeq(s, lo, hi)
          BY <5>2, Zenon
        <5>6. \A k : lo + k - 1 = d + i + 2 + k - 1
          BY <5>2, Zenon
        <5>7. Len(a) = m - (i + 2) + 1
          <6>1. Len(a) = IF lo <= hi THEN hi - lo + 1 ELSE 0
            BY <5>4, <5>5, Zenon
          <6>2. lo <= hi \/ (hi - lo + 1 = 0 /\ ~(lo <= hi))
            BY <5>2, <5>3
          <6> QED BY <5>3, <6>1, <6>2, Zenon
        <5> HIDE DEF a
        <5> QED BY <5>3, <5>4, <5>5, <5>6, <5>7, Zenon
      <4>6. \A k \in 1..m - (i + 2) + 1 : s[d + i + 2 + k - 1] = r[i + 2 + k - 1]
        <5> TAKE k \in 1..m - (i + 2) + 1
        <5>1. PICK j \in 1..Len(r) : j = i + 2 + k - 1 /\ d + i + 2 + k - 1 = d + j
          BY <1>1, <4>1
        <5>2. s[d + j] = r[j]
          BY DEF Stands
        <5> QED BY <5>1, <5>2, Zenon
      <4>7. a = b
        <5>1. Len(a) \in Nat /\ Len(a) = Len(b) /\ \A k \in 1..Len(a) : a[k] = b[k]
          <6> HIDE DEF a, b
          <6> QED BY <4>4, <4>5, <4>6, LenProperties
        <5> HIDE DEF a, b
        <5> QED BY <4>4, <4>5, <5>1, SeqEqual
      <4> QED BY <2>2, <4>7 DEF m
    <3>3. EntryAt(s, d + i) = EntryAt(r, i)
      BY <2>1, <3>2 DEF EntryAt
    <3>4. f[End(s, d + i) + 1] = g[End(r, i) + 1]
      <4>1. End(r, i) + 1 \in i + 1..Len(r) + 1 /\ End(s, d + i) + 1 = d + (End(r, i) + 1)
        <5>1. PICK y \in Nat : /\ y = End(r, i) /\ End(s, d + i) = d + y
                               /\ y >= i + 1 /\ y <= Len(r)
          BY <2>2, <3>1
        <5>2. y + 1 \in i + 1..Len(r) + 1
          <6>1. \A x, j, n \in Nat : x >= j + 1 /\ x <= n => x + 1 \in j + 1..n + 1
            OBVIOUS
          <6> QED BY <1>1, <5>1, <6>1, Zenon
        <5>3. d + y + 1 = d + (y + 1)
          OBVIOUS
        <5> QED BY <5>1, <5>2, <5>3, Zenon
      <4> QED BY <4>1 DEF ListsStand
    <3> QED BY <2>3, <2>4, <3>3, <3>4 DEF From
  <2> QED BY <2>3, <2>4 DEF From
<1>3. CASE ~(i + 1 <= Len(r))
  <2>1. ~Whole(s, d + i) /\ ~Whole(r, i)
    BY <1>1, <1>3 DEF Whole
  <2> QED BY <2>1 DEF From
<1> QED BY <1>2, <1>3

LEMMA ParseShifts ==
  ASSUME NEW s \in Seq(Nat), NEW r \in Seq(Nat), NEW d \in Nat,
         Stands(s, r, d)
  PROVE  Parse(s)[d + 1] = Parse(r)[1]
<1> DEFINE N == Len(r) + 1
           p == Parse(s)
           q == Parse(r)
           Same(i) == p[d + i] = q[i]
           S == {n \in Nat : \A i \in 1..N : i + n > N => Same(i)}
<1>0. N \in Nat /\ 1 \in 1..N /\ Len(r) \in Nat /\ Len(s) \in Nat
  BY LenProperties
<1>1. (\A i \in 1..N : q[i] = From(r, q, i)) /\ \A i \in 1..N : p[d + i] = From(s, p, d + i)
  <2>1. \A i \in 1..N : d + i \in 1..Len(s) + 1
    BY <1>0 DEF Stands
  <2> QED BY <2>1, ParseUnfolds
<1> HIDE DEF p, q
<1>2. 0 \in S
  <2>1. \A i \in 1..N : ~(i + 0 > N)
    BY <1>0
  <2> HIDE DEF Same
  <2> QED BY <2>1
<1>3. ASSUME NEW n \in Nat, n \in S PROVE n + 1 \in S
  <2>1. ASSUME NEW i \in 1..N, i + (n + 1) > N PROVE Same(i)
    <3>1. \A k \in i + 1..N : k \in 1..N /\ k + n > N
      BY <1>0, <2>1
    <3>2. \A k \in i + 1..N : Same(k)
      <4> HIDE DEF Same
      <4> QED BY <1>3, <3>1
    <3>3. From(s, p, d + i) = From(r, q, i)
      <4>1. ListsStand(p, q, d, i + 1, Len(r) + 1)
        BY <3>2 DEF ListsStand
      <4> QED BY <4>1, FromShifts
    <3> QED BY <1>1, <3>3
  <2> HIDE DEF Same
  <2> QED BY <2>1
<1>4. N \in S
  <2> HIDE DEF S
  <2> QED BY <1>0, <1>2, <1>3, Upwards
<1>5. Same(1)
  <2>1. 1 + N > N
    BY <1>0
  <2> HIDE DEF Same
  <2> QED BY <1>0, <1>4, <2>1
<1> QED BY <1>5 DEF p, q

\* One entry more at the front.
LEMMA ParsesOneMore ==
  ASSUME NEW e \in Entry, NEW r \in Seq(Nat)
  PROVE  ParsePids(Block(e) \o r) = <<Masked(e)>> \o ParsePids(r)
<1>1. PICK b \in Seq(Nat) : b = Block(e)
  BY BlockIs
<1>2. /\ Len(b) = e.width + 2 /\ b[1] = e.id /\ b[2] = e.width /\ e.width \in Nat
      /\ \A k \in 1..e.width : b[k + 2] = Mask
      /\ Masks(e.width) \in Seq(Nat) /\ Len(Masks(e.width)) = e.width
  BY <1>1, BlockIs
<1>3. PICK s \in Seq(Nat) : s = b \o r
  BY ConcatProperties
<1>4. /\ Len(s) = Len(b) + Len(r) /\ Len(r) \in Nat /\ Len(s) \in Nat
      /\ \A k \in 1..Len(b) : s[k] = b[k]
      /\ \A k \in 1..Len(r) : s[Len(b) + k] = r[k]
  <2>1. Len(s) \in Nat
    BY LenProperties
  <2> QED BY <1>3, <2>1, Joined
<1>5. Parse(s)[Len(b) + 1] = Parse(r)[1]
  <2>1. Len(b) \in Nat
    BY LenProperties
  <2>2. Stands(s, r, Len(b))
    BY <1>4 DEF Stands
  <2> QED BY <2>1, <2>2, ParseShifts
<1>6. /\ 1 \in 1..Len(b) /\ 2 \in 1..Len(b) /\ s[1] = e.id /\ s[2] = e.width
      /\ \A k \in 1..e.width : s[k + 2] = Mask
  <2>1. 1 \in 1..Len(b) /\ 2 \in 1..Len(b) /\ \A k \in 1..e.width : k + 2 \in 1..Len(b)
    BY <1>2, TwoBeyond, Zenon
  <2> QED BY <1>2, <1>4, <2>1
<1>7. End(s, 1) = Len(b) /\ Whole(s, 1)
  <2>1. 1 + 1 = 2 /\ 2 <= Len(s) /\ Len(b) <= Len(s) /\ 2 + e.width = Len(b)
    BY <1>2, <1>4, Within, Zenon
  <2>2. End(s, 1) = Len(b)
    BY <1>6, <2>1 DEF End
  <2> QED BY <2>1, <2>2 DEF Whole
<1>8. SubSeq(s, 3, Len(b)) = Masks(e.width)
  <2> DEFINE a == SubSeq(s, 3, Len(b))
  <2>1. \A k \in 3..Len(b) : s[k] \in Nat
    <3>1. \A k \in 3..Len(b) : k \in 1..Len(s)
      BY <1>2, <1>4
    <3> QED BY <3>1, ElementOfSeq
  <2>2. /\ a \in Seq(Nat) /\ Len(a) = e.width
        /\ \A k \in 1..e.width : a[k] = s[3 + k - 1]
    <3>1. Len(b) \in Int /\ 3 \in Int /\ Len(b) - 3 + 1 = e.width /\ (3 <= Len(b) \/ e.width = 0)
      BY <1>2, FromThird, Zenon
    <3> QED BY <2>1, <3>1, SubSeqProperties
  <2>3. \A k \in 1..e.width : a[k] = Masks(e.width)[k]
    <3> TAKE k \in 1..e.width
    <3>1. 3 + k - 1 = k + 2
      BY <1>2
    <3>2. Masks(e.width)[k] = Mask
      BY DEF Masks
    <3> QED BY <1>6, <2>2, <3>1, <3>2
  <2> QED BY <1>2, <2>2, <2>3, SeqEqual
<1>9. EntryAt(s, 1) = Masked(e)
  <2>1. 1 + 1 = 2 /\ 1 + 2 = 3
    OBVIOUS
  <2> QED BY <1>6, <1>7, <1>8, <2>1, Zenon DEF EntryAt, Masked
<1>10. Parse(s)[1] = <<Masked(e)>> \o Parse(r)[1]
  <2>1. 1 \in 1..Len(s) + 1
    BY <1>4
  <2>2. Parse(s)[1] = From(s, Parse(s), 1)
    BY <2>1, ParseUnfolds
  <2> QED BY <1>5, <1>7, <1>9, <2>2 DEF From
<1>11. ParsePids(s) = Parse(s)[1] /\ ParsePids(r) = Parse(r)[1]
  BY ParsePidsIs
<1> QED BY <1>1, <1>3, <1>10, <1>11

LEMMA ParsesNone == ParsePids(<< >>) = << >>
<1>1. << >> \in Seq(Nat) /\ Len(<< >>) = 0 /\ 1 \in 1..0 + 1
  OBVIOUS
<1>2. ParsePids(<< >>) = Parse(<< >>)[1]
  BY <1>1, ParsePidsIs
<1>3. Parse(<< >>)[1] = From(<< >>, Parse(<< >>), 1)
  BY <1>1, ParseUnfolds
<1> QED BY <1>1, <1>2, <1>3 DEF From, Whole

Blocks(es) == [i \in DOMAIN es |-> Block(es[i])]

LEMMA EncodeIs == \A es : Encode(es) = FlattenSeq(Blocks(es))
BY Zenon DEF Encode, Blocks, Block, Masks

LEMMA BlocksIs ==
  ASSUME NEW es \in Seq(Entry)
  PROVE  /\ Blocks(es) \in Seq(Seq(Nat)) /\ Len(Blocks(es)) = Len(es)
         /\ \A i \in 1..Len(es) : Blocks(es)[i] = Block(es[i])
<1>1. Len(es) \in Nat /\ DOMAIN es = 1..Len(es)
  BY LenProperties
<1>2. \A i \in 1..Len(es) : Block(es[i]) \in Seq(Nat)
  BY ElementOfSeq, BlockIs
<1>3. Blocks(es) = [i \in 1..Len(es) |-> Block(es[i])]
  BY <1>1, Zenon DEF Blocks
<1>4. [i \in 1..Len(es) |-> Block(es[i])] \in [1..Len(es) -> Seq(Nat)]
  BY <1>2, Zenon
<1>5. Blocks(es) \in Seq(Seq(Nat)) /\ Len(Blocks(es)) = Len(es)
  BY <1>1, <1>3, <1>4
<1> QED BY <1>3, <1>5

LEMMA EncodeTyped ==
  ASSUME NEW es \in Seq(Entry)
  PROVE  Encode(es) \in Seq(Nat)
BY EncodeIs, BlocksIs, FlattenTyped

LEMMA EncodeNone == Encode(<< >>) = << >>
<1>1. << >> \in Seq(Entry) /\ Len(<< >>) = 0
  OBVIOUS
<1>2. Blocks(<< >>) \in Seq(Seq(Nat)) /\ Len(Blocks(<< >>)) = 0
  BY <1>1, BlocksIs
<1>3. Blocks(<< >>) = << >>
  BY <1>2, EmptySeq
<1>4. FlattenSeq(Blocks(<< >>)) = Blocks(<< >>)
  BY <1>2, FlattenIs, Zenon
<1> QED BY <1>3, <1>4, EncodeIs

\* The first entry, then the others.
LEMMA EncodeFirst ==
  ASSUME NEW es \in Seq(Entry), es # << >>
  PROVE  Encode(es) = Block(Head(es)) \o Encode(Tail(es))
<1>1. /\ Len(es) \in Nat \ {0} /\ Tail(es) \in Seq(Entry) /\ Len(Tail(es)) = Len(es) - 1
      /\ Head(es) = es[1] /\ \A i \in 1..Len(Tail(es)) : Tail(es)[i] = es[i + 1]
  BY EmptySeq, HeadTailProperties
<1>2. PICK bs \in Seq(Seq(Nat)) : /\ bs = Blocks(es) /\ Len(bs) = Len(es)
                                  /\ \A i \in 1..Len(es) : bs[i] = Block(es[i])
  BY BlocksIs
<1>3. PICK ts \in Seq(Seq(Nat)) : /\ ts = Blocks(Tail(es)) /\ Len(ts) = Len(Tail(es))
                                  /\ \A i \in 1..Len(Tail(es)) : ts[i] = Block(Tail(es)[i])
  BY <1>1, BlocksIs
<1>4. bs # << >> /\ Head(bs) = Block(Head(es))
  <2>1. 1 \in 1..Len(es) /\ Len(bs) # 0
    BY <1>1, <1>2
  <2> QED BY <1>1, <1>2, <2>1, EmptySeq
<1>5. Tail(bs) = ts
  <2>1. /\ Tail(bs) \in Seq(Seq(Nat)) /\ Len(Tail(bs)) = Len(bs) - 1
        /\ \A i \in 1..Len(Tail(bs)) : Tail(bs)[i] = bs[i + 1]
    BY <1>4, HeadTailProperties
  <2>2. Len(Tail(bs)) = Len(ts)
    BY <1>1, <1>2, <1>3, <2>1
  <2>3. ASSUME NEW i \in 1..Len(Tail(bs)) PROVE Tail(bs)[i] = ts[i]
    <3>1. i \in 1..Len(Tail(es)) /\ i + 1 \in 1..Len(es)
      BY <1>1, <1>2, <2>1
    <3> QED BY <1>1, <1>2, <1>3, <2>1, <3>1
  <2> QED BY <2>1, <2>2, <2>3, SeqEqual
<1>6. FlattenSeq(bs) = Head(bs) \o FlattenSeq(Tail(bs))
  BY <1>4, FlattenFirst
<1> QED BY <1>2, <1>3, <1>4, <1>5, <1>6, EncodeIs, Zenon

-----------------------------------------------------------------------------
(* The lists.                                                              *)

LEMMA ListedIs ==
  ASSUME NEW es \in Seq(Entry)
  PROVE  /\ Listed(es) \in Seq(ListEntry) /\ Len(Listed(es)) = Len(es)
         /\ \A i \in 1..Len(es) : Listed(es)[i] = Masked(es[i])
<1>1. Len(es) \in Nat /\ DOMAIN es = 1..Len(es)
  BY LenProperties
<1>2. \A i \in 1..Len(es) : Masked(es[i]) \in ListEntry
  BY ElementOfSeq, BlockIs
<1>3. Listed(es) = [i \in 1..Len(es) |-> Masked(es[i])]
  BY <1>1, Zenon DEF Listed, Masked, Masks
<1>4. [i \in 1..Len(es) |-> Masked(es[i])] \in [1..Len(es) -> ListEntry]
  BY <1>2, Zenon
<1>5. Listed(es) \in Seq(ListEntry) /\ Len(Listed(es)) = Len(es)
  BY <1>1, <1>3, <1>4
<1> QED BY <1>3, <1>5

LEMMA ListedJoins ==
  ASSUME NEW a \in Seq(Entry), NEW b \in Seq(Entry)
  PROVE  Listed(a \o b) = Listed(a) \o Listed(b)
<1>1. PICK c \in Seq(Entry) : c = a \o b
  BY Joined
<1>2. /\ Len(c) = Len(a) + Len(b) /\ Len(a) \in Nat /\ Len(b) \in Nat
      /\ \A i \in 1..Len(a) : c[i] = a[i]
      /\ \A i \in 1..Len(b) : c[Len(a) + i] = b[i]
  BY <1>1, Joined
<1>3. PICK x \in Seq(ListEntry) : /\ x = Listed(a) /\ Len(x) = Len(a)
                                  /\ \A i \in 1..Len(a) : x[i] = Masked(a[i])
  BY ListedIs
<1>4. PICK y \in Seq(ListEntry) : /\ y = Listed(b) /\ Len(y) = Len(b)
                                  /\ \A i \in 1..Len(b) : y[i] = Masked(b[i])
  BY ListedIs
<1>5. PICK z \in Seq(ListEntry) : /\ z = Listed(c) /\ Len(z) = Len(c)
                                  /\ \A i \in 1..Len(c) : z[i] = Masked(c[i])
  BY ListedIs
<1>6. /\ x \o y \in Seq(ListEntry) /\ Len(x \o y) = Len(x) + Len(y)
      /\ \A i \in 1..Len(x) : (x \o y)[i] = x[i]
      /\ \A i \in 1..Len(y) : (x \o y)[Len(x) + i] = y[i]
  BY Joined
<1>7. Len(z) = Len(x \o y)
  BY <1>2, <1>3, <1>4, <1>5, <1>6
<1>8. ASSUME NEW i \in 1..Len(z) PROVE z[i] = (x \o y)[i]
  <2>1. z[i] = Masked(c[i])
    BY <1>5
  <2>2. CASE i <= Len(a)
    <3>1. i \in 1..Len(a)
      BY <1>2, <2>2
    <3>2. (x \o y)[i] = x[i] /\ c[i] = a[i] /\ x[i] = Masked(a[i])
      BY <1>2, <1>3, <1>6, <3>1
    <3> QED BY <2>1, <3>2
  <2>3. CASE ~(i <= Len(a))
    <3>1. PICK j \in 1..Len(b) : i = Len(a) + j
      <4>1. i - Len(a) \in 1..Len(b) /\ i = Len(a) + (i - Len(a))
        BY <1>2, <1>5, <2>3
      <4> QED BY <4>1
    <3>2. (x \o y)[i] = y[j] /\ c[i] = b[j] /\ y[j] = Masked(b[j])
      BY <1>2, <1>3, <1>4, <1>6, <3>1
    <3> QED BY <2>1, <3>2
  <2> QED BY <2>2, <2>3
<1>9. z = x \o y
  BY <1>6, <1>7, <1>8, SeqEqual
<1> QED BY <1>1, <1>3, <1>4, <1>5, <1>9, Zenon

\* Of every enumeration, whatever its entries and however wide their masks,
\* parse_pid_tlv reads back the list it was made of (toyota_can.rs:184-198).
THEOREM RoundTrip == \A es \in Seq(Entry) : ParsePids(Encode(es)) = Listed(es)
<1> DEFINE Back(es) == ParsePids(Encode(es)) = Listed(es)
           S == {n \in Nat : \A es \in Seq(Entry) : Len(es) = n => Back(es)}
<1>1. 0 \in S
  <2>1. ASSUME NEW es \in Seq(Entry), Len(es) = 0 PROVE Back(es)
    <3>1. es = << >>
      BY <2>1, EmptySeq
    <3>2. ParsePids(Encode(es)) = << >>
      BY <3>1, EncodeNone, ParsesNone, Zenon
    <3>3. Listed(es) = << >>
      BY <2>1, ListedIs, EmptySeq
    <3> QED BY <3>2, <3>3
  <2> HIDE DEF Back
  <2> QED BY <2>1
<1>2. ASSUME NEW n \in Nat, n \in S PROVE n + 1 \in S
  <2>1. ASSUME NEW es \in Seq(Entry), Len(es) = n + 1 PROVE Back(es)
    <3>1. es # << >>
      BY <2>1, EmptySeq
    <3>2. /\ Head(es) \in Entry /\ Tail(es) \in Seq(Entry) /\ Len(Tail(es)) = n
          /\ \A i \in 1..Len(Tail(es)) : Tail(es)[i] = es[i + 1]
      BY <2>1, <3>1, HeadTailProperties
    <3>3. Back(Tail(es))
      <4> HIDE DEF Back
      <4> QED BY <1>2, <3>2
    <3>4. Encode(Tail(es)) \in Seq(Nat)
      BY <3>2, EncodeTyped
    <3>5. ParsePids(Encode(es)) = <<Masked(Head(es))>> \o ParsePids(Encode(Tail(es)))
      <4>1. Encode(es) = Block(Head(es)) \o Encode(Tail(es))
        BY <3>1, EncodeFirst
      <4> QED BY <3>2, <3>4, <4>1, ParsesOneMore
    <3>6. Listed(es) = <<Masked(Head(es))>> \o Listed(Tail(es))
      <4>1. PICK h \in Entry : h = Head(es)
        BY <3>2
      <4>2. <<h>> \in Seq(Entry) /\ es = <<h>> \o Tail(es)
        BY <3>1, <4>1
      <4>3. Listed(<<h>>) = <<Masked(h)>>
        <5>1. PICK g \in Seq(Entry) : g = <<h>> /\ Len(g) = 1 /\ g[1] = h
          BY <4>2
        <5>2. 1 \in 1..Len(g)
          BY <5>1
        <5>3. Listed(g) \in Seq(ListEntry) /\ Len(Listed(g)) = 1 /\ Listed(g)[1] = Masked(h)
          BY <5>1, <5>2, ListedIs
        <5>4. Listed(g) = <<Masked(h)>>
          BY <5>3
        <5> QED BY <5>1, <5>4
      <4>4. Listed(<<h>> \o Tail(es)) = Listed(<<h>>) \o Listed(Tail(es))
        BY <3>2, <4>2, ListedJoins
      <4> QED BY <4>1, <4>2, <4>3, <4>4
    <3> QED BY <3>3, <3>5, <3>6
  <2> HIDE DEF Back
  <2> QED BY <2>1
<1>3. \A n \in Nat : n \in S
  <2> HIDE DEF S
  <2> QED BY <1>1, <1>2, Upwards
<1>4. ASSUME NEW es \in Seq(Entry) PROVE Back(es)
  <2>1. Len(es) \in Nat
    BY LenProperties
  <2>2. Len(es) \in S
    <3> HIDE DEF S
    <3> QED BY <1>3, <2>1
  <2> HIDE DEF Back
  <2> QED BY <2>2
<1> QED BY <1>4

-----------------------------------------------------------------------------
(* Types.                                                                  *)

Calls == [n : 0..MaxCalls, op : DOMAIN Service, id : Ids \cup {0}, ecu : Ecus \cup {NoEcu}]
Sids == {Service[op] : op \in DOMAIN Service}
Heard == [says : Seq(Messages), storm : BOOLEAN]

\* A call in progress is to an ECU.
Typed == TypeOK /\ (pc \in {"sending", "waiting"} => call.ecu \in Ecus)

LEMMA MessageTyped ==
  ASSUME NEW c \in Calls, NEW k \in Kinds, NEW b \in Seq(Nat)
  PROVE  Message(k, c, b) \in Messages
<1>1. c.n \in 0..MaxCalls /\ c.op \in DOMAIN Service /\ c.id \in Ids \cup {0} /\ c.ecu \in Ecus \cup {NoEcu}
  BY DEF Calls
<1>2. Service[c.op] \in Sids
  BY <1>1 DEF Sids
<1> QED BY <1>1, <1>2 DEF Message, Messages, Sids

LEMMA NoCallTyped == NoCall \in Calls /\ Nothing \in Messages
<1>1. NoCall \in Calls
  BY DiagAssumption DEF NoCall, Calls, Service, DiagAssumption
<1>2. "none" \in Kinds /\ << >> \in Seq(Nat)
  BY DEF Kinds
<1> QED BY <1>1, <1>2, MessageTyped DEF Nothing

Stats == {"None", "Ok", "Negative", "Unexpected", "Timeout", "NoFilter", "Port"}

LEMMA ListsAre == Lists = Seq(ListEntry) /\ << >> \in Lists
BY DEF Lists, ListEntry

LEMMA OutcomeTyped ==
  ASSUME NEW st \in Stats, NEW m \in Messages, NEW list \in Lists
  PROVE  Outcome(st, m, list) \in Outcomes
BY DEF Outcome, Outcomes, Stats, Messages, Replies

LEMMA EmptyTyped ==
  ASSUME NEW st \in Stats
  PROVE  Empty(st) \in Outcomes
BY NoCallTyped, OutcomeTyped, ListsAre DEF Empty

LEMMA AnsweredTyped ==
  ASSUME NEW c \in Calls, NEW m \in Messages
  PROVE  Answered(c, m) \in Outcomes
<1>1. \A st \in {"Ok", "Negative", "Unexpected"} : Outcome(st, m, << >>) \in Outcomes
  BY OutcomeTyped, ListsAre DEF Stats
<1>2. ParsePositive(c, m) \in {Outcome(st, m, << >>) : st \in {"Ok", "Negative", "Unexpected"}}
  BY DEF ParsePositive
<1>3. Answered(c, m) \in {Outcome(st, m, << >>) : st \in {"Ok", "Negative", "Unexpected"}}
  BY <1>2 DEF Answered, StripEcho
<1> QED BY <1>1, <1>3

Wait(c) == Message("pending", c, << >>)
Yes(c) == Message("positive", c, << >>)
No(c) == Message("negative", c, << >>)
Handed(c, m) == Outcome(IF c.op = "request" THEN "Ok" ELSE "Negative", m, << >>)
Chunks(c, page) == [i \in DOMAIN page |-> Message("positive", c, Encode(page[i]))]
Waits(c, n) == [i \in 1..n |-> Wait(c)]

LEMMA Tabulated ==
  ASSUME NEW S, NEW n \in Nat, NEW f \in [1..n -> S]
  PROVE  f \in Seq(S) /\ Len(f) = n
OBVIOUS

LEMMA ChunksTyped ==
  ASSUME NEW c \in Calls, NEW page \in Seq(Seq(Entry))
  PROVE  /\ Chunks(c, page) \in Seq(Messages) /\ Len(Chunks(c, page)) = Len(page)
         /\ \A i \in 1..Len(page) : Chunks(c, page)[i] = Message("positive", c, Encode(page[i]))
<1>1. Len(page) \in Nat /\ DOMAIN page = 1..Len(page)
  BY LenProperties
<1>2. ASSUME NEW i \in 1..Len(page) PROVE Message("positive", c, Encode(page[i])) \in Messages
  <2>1. page[i] \in Seq(Entry) /\ "positive" \in Kinds
    BY ElementOfSeq DEF Kinds
  <2>2. Encode(page[i]) \in Seq(Nat)
    BY <2>1, EncodeTyped
  <2> QED BY <2>1, <2>2, MessageTyped
<1>3. Chunks(c, page) = [i \in 1..Len(page) |-> Message("positive", c, Encode(page[i]))]
  BY <1>1, Zenon DEF Chunks
<1>4. [i \in 1..Len(page) |-> Message("positive", c, Encode(page[i]))] \in [1..Len(page) -> Messages]
  BY <1>2, Zenon
<1>5. Chunks(c, page) \in Seq(Messages) /\ Len(Chunks(c, page)) = Len(page)
  <2>1. PICK f \in [1..Len(page) -> Messages] : f = Chunks(c, page)
    BY <1>3, <1>4, Zenon
  <2>2. f \in Seq(Messages) /\ Len(f) = Len(page)
    BY <1>1, Tabulated
  <2> QED BY <2>1, <2>2, Zenon
<1> QED BY <1>3, <1>5

LEMMA ListedTyped ==
  ASSUME NEW page \in Seq(Seq(Entry))
  PROVE  FlattenSeq(page) \in Seq(Entry) /\ Listed(FlattenSeq(page)) \in Lists
BY FlattenTyped, ListedIs, ListsAre

LEMMA WaitsTyped ==
  ASSUME NEW c \in Calls, NEW n \in Nat
  PROVE  /\ Waits(c, n) \in Seq(Messages) /\ Len(Waits(c, n)) = n
         /\ \A i \in 1..n : Waits(c, n)[i] = Wait(c)
         /\ Wait(c) \in Messages
<1>1. Wait(c) \in Messages
  <2>1. "pending" \in Kinds /\ << >> \in Seq(Nat)
    BY DEF Kinds
  <2> QED BY <2>1, MessageTyped DEF Wait
<1>2. [i \in 1..n |-> Wait(c)] \in [1..n -> Messages]
  BY <1>1, Zenon
<1>3. Waits(c, n) \in Seq(Messages) /\ Len(Waits(c, n)) = n
  BY <1>2 DEF Waits
<1> QED BY <1>1, <1>3 DEF Waits

LEMMA WordsTyped ==
  ASSUME NEW c \in Calls
  PROVE  Yes(c) \in Messages /\ No(c) \in Messages /\ Handed(c, No(c)) \in Outcomes
         /\ Handed(c, Wait(c)) \in Outcomes /\ Outcome("Ok", Yes(c), << >>) \in Outcomes
<1>1. "positive" \in Kinds /\ "negative" \in Kinds /\ << >> \in Seq(Nat)
  BY DEF Kinds
<1>2. Yes(c) \in Messages /\ No(c) \in Messages
  BY <1>1, MessageTyped DEF Yes, No
<1>3. Wait(c) \in Messages
  <2>1. 0 \in Nat
    OBVIOUS
  <2> QED BY <2>1, WaitsTyped
<1>4. (IF c.op = "request" THEN "Ok" ELSE "Negative") \in Stats /\ "Ok" \in Stats
  BY DEF Stats
<1>5. Handed(c, No(c)) \in Outcomes /\ Handed(c, Wait(c)) \in Outcomes
  BY <1>2, <1>3, <1>4, ListsAre, OutcomeTyped, Zenon DEF Handed
<1>6. Outcome("Ok", Yes(c), << >>) \in Outcomes
  BY <1>2, <1>4, ListsAre, OutcomeTyped, Zenon
<1> QED BY <1>2, <1>5, <1>6

\* What an ECU may say, spelt out.
LEMMA AnswersAre ==
  ASSUME NEW c, NEW a \in Answers(c)
  PROVE  \/ c.op = "teardown" /\ a = [says |-> << >>, means |-> Empty("Ok")]
         \/ c.op \in {"quiet", "enumerate"} /\ a = [says |-> << >>, means |-> Empty("Ok")]
         \/ c.op \notin {"teardown", "quiet", "enumerate"} /\ a = [says |-> << >>, means |-> Empty("Timeout")]
         \/ c.op # "teardown" /\ a = [says |-> <<No(c)>>, means |-> Handed(c, No(c))]
         \/ /\ c.op \notin {"teardown", "quiet", "enumerate"}
            /\ a = [says |-> <<Yes(c)>>, means |-> Outcome("Ok", Yes(c), << >>)]
         \/ /\ c.op = "enumerate"
            /\ \E page \in Pages :
                 a = [says |-> Chunks(c, page), means |-> Outcome("Ok", Nothing, Listed(FlattenSeq(page)))]
<1>1. CASE c.op = "teardown"
  BY <1>1 DEF Answers
<1>2. CASE c.op = "quiet"
  BY <1>2 DEF Answers, No, Handed
<1>3. CASE c.op = "enumerate"
  <2>1. \/ a = [says |-> << >>, means |-> Empty("Ok")]
        \/ a = [says |-> <<No(c)>>, means |-> Handed(c, No(c))]
        \/ \E page \in Pages :
             a = [says |-> Chunks(c, page), means |-> Outcome("Ok", Nothing, Listed(FlattenSeq(page)))]
    BY <1>3 DEF Answers, No, Handed, Chunks
  <2> QED BY <1>3, <2>1
<1>4. CASE c.op \notin {"teardown", "quiet", "enumerate"}
  BY <1>4 DEF Answers, No, Yes, Handed
<1> QED BY <1>1, <1>2, <1>3, <1>4

LEMMA AnswersTyped ==
  ASSUME NEW c \in Calls, NEW a \in Answers(c)
  PROVE  a.says \in Seq(Messages) /\ a.means \in Outcomes
<1>1. << >> \in Seq(Messages) /\ Empty("Ok") \in Outcomes /\ Empty("Timeout") \in Outcomes
  BY EmptyTyped DEF Stats
<1>2. <<No(c)>> \in Seq(Messages) /\ <<Yes(c)>> \in Seq(Messages)
  BY WordsTyped
<1>3. ASSUME NEW page \in Pages
      PROVE  Chunks(c, page) \in Seq(Messages) /\ Outcome("Ok", Nothing, Listed(FlattenSeq(page))) \in Outcomes
  <2>1. page \in Seq(Seq(Entry)) /\ "Ok" \in Stats
    BY DiagAssumption DEF DiagAssumption, Stats
  <2> QED BY <2>1, ChunksTyped, ListedTyped, OutcomeTyped, NoCallTyped
<1>4. \E x \in Seq(Messages), y \in Outcomes : a = [says |-> x, means |-> y]
  <2>1. Handed(c, No(c)) \in Outcomes /\ Outcome("Ok", Yes(c), << >>) \in Outcomes
    BY WordsTyped
  <2> QED BY <1>1, <1>2, <1>3, <2>1, AnswersAre, Zenon
<1> QED BY <1>4

LEMMA AnnouncedIs ==
  ASSUME NEW c \in Calls, NEW a \in Answers(c), NEW k \in Nat
  PROVE  /\ Announced(c, a, k).says = Waits(c, k) \o a.says
         /\ Announced(c, a, k).means = IF k > MaxPending THEN Handed(c, Wait(c)) ELSE a.means
         /\ Announced(c, a, k).says \in Seq(Messages) /\ Announced(c, a, k).means \in Outcomes
<1>1. /\ Announced(c, a, k).says = Waits(c, k) \o a.says
      /\ Announced(c, a, k).means = IF k > MaxPending THEN Handed(c, Wait(c)) ELSE a.means
  BY Zenon DEF Announced, Waits, Wait, Handed
<1>2. Waits(c, k) \o a.says \in Seq(Messages)
  BY WaitsTyped, AnswersTyped, Joined
<1> QED BY <1>1, <1>2, AnswersTyped, WordsTyped

CallTyped == pc \in {"closed", "idle", "sending", "waiting"} /\ call \in Calls
PlaceTyped == key \in Ecus \cup {NoEcu} /\ filter \in Ecus \cup {NoEcu} /\ counted \in BOOLEAN
CountTyped == pending \in 0..MaxPending /\ pids \in Lists
ResultTyped == result \in Outcomes /\ truth \in Outcomes
RingTyped == ring \in Seq(Messages) /\ Len(ring) <= RingCap
CarTyped == ecu \in [Ecus -> Heard]
FaultTyped == trouble \in BOOLEAN /\ nfaults \in 0..MaxFaults
CallPlaced == pc \in {"sending", "waiting"} => key = call.ecu /\ call.ecu \in Ecus

LEMMA TypedIs ==
  Typed <=> /\ CallTyped /\ PlaceTyped /\ CountTyped /\ ResultTyped /\ RingTyped
            /\ CarTyped /\ FaultTyped /\ CallPlaced
BY DEF Typed, TypeOK, CallTyped, PlaceTyped, CountTyped, ResultTyped, RingTyped, CarTyped,
       FaultTyped, CallPlaced, Calls, Heard

Parts == CallTyped /\ PlaceTyped /\ CountTyped /\ ResultTyped /\ RingTyped /\ CarTyped /\ FaultTyped /\ CallPlaced

LEMMA InitTyped == Init => Typed
<1> SUFFICES ASSUME Init PROVE Parts
  BY TypedIs, Zenon DEF Parts
<1>1. CallTyped /\ PlaceTyped /\ CallPlaced
  BY NoCallTyped DEF Init, CallTyped, PlaceTyped, CallPlaced
<1>2. CountTyped /\ FaultTyped
  <2>1. 0 \in 0..MaxPending /\ 0 \in 0..MaxFaults
    BY DiagAssumption DEF DiagAssumption
  <2> QED BY <2>1, ListsAre DEF Init, CountTyped, FaultTyped
<1>3. ResultTyped
  BY EmptyTyped DEF Init, ResultTyped, Stats
<1>4. RingTyped
  <2>1. << >> \in Seq(Messages) /\ Len(<< >>) = 0
    OBVIOUS
  <2> QED BY <2>1, DiagAssumption DEF DiagAssumption, Init, RingTyped
<1>5. CarTyped
  <2>1. << >> \in Seq(Messages)
    OBVIOUS
  <2>2. [says |-> << >>, storm |-> FALSE] \in Heard
    BY <2>1 DEF Heard
  <2> QED BY <2>2 DEF Init, CarTyped
<1> QED BY <1>1, <1>2, <1>3, <1>4, <1>5 DEF Parts

LEMMA FaultKeepsType == FaultTyped /\ Fault => FaultTyped'
BY DiagAssumption DEF FaultTyped, Fault, DiagAssumption

LEMMA ReturnKeepsType ==
  ASSUME Parts, NEW r \in Outcomes, Return(r), call' \in Calls
  PROVE  CallTyped' /\ CountTyped' /\ CallPlaced' /\ result' \in Outcomes
BY DiagAssumption, ListsAre DEF DiagAssumption, Return, CallTyped, CountTyped, CallPlaced

LEMMA EmptyRing == << >> \in Seq(Messages) /\ Len(<< >>) <= RingCap
<1>1. << >> \in Seq(Messages) /\ Len(<< >>) = 0
  OBVIOUS
<1> QED BY <1>1, DiagAssumption DEF DiagAssumption

\* An ECU hears a call with owed still to say, and chooses what to make of it.
Says(b, owed, storm) == IF storm THEN <<Head(b.says)>> ELSE owed \o b.says
Spoken(c, a, k, storm) == Announced(c, a, IF storm THEN MaxPending + 1 ELSE k)
Hears(c, owed, a, k, storm) ==
  /\ a.says = << >> => k = 0 /\ ~storm
  /\ ecu' = [ecu EXCEPT ![c.ecu] = [says |-> Says(Spoken(c, a, k, storm), owed, storm), storm |-> storm]]
  /\ truth' = Spoken(c, a, k, storm).means

LEMMA HearIs ==
  ASSUME NEW c, Hear(c)
  PROVE  \E owed \in {<< >>, IF ecu[c.ecu].storm THEN << >> ELSE ecu[c.ecu].says} :
           \E a \in Answers(c), k \in Pendings, storm \in {FALSE, Storms} :
             Hears(c, owed, a, k, storm)
BY Zenon DEF Hear, Hears, Says, Spoken

LEMMA HearTyped ==
  ASSUME Parts, call.ecu \in Ecus, Hear(call)
  PROVE  CarTyped' /\ truth' \in Outcomes
<1>0. call \in Calls /\ ecu \in [Ecus -> Heard] /\ ecu[call.ecu] \in Heard
  BY DEF Parts, CallTyped, CarTyped
<1>1. PICK owed \in {<< >>, IF ecu[call.ecu].storm THEN << >> ELSE ecu[call.ecu].says},
           a \in Answers(call), k \in Pendings, storm \in {FALSE, Storms} :
        Hears(call, owed, a, k, storm)
  BY HearIs, Zenon
<1> DEFINE n == IF storm THEN MaxPending + 1 ELSE k
<1>10. PICK b : b = Spoken(call, a, k, storm)
  OBVIOUS
<1>11. b = Announced(call, a, n)
  BY <1>10 DEF Spoken
<1>2. n \in Nat /\ storm \in BOOLEAN
  <2>1. k \in Nat /\ MaxPending + 1 \in Nat /\ Storms \in BOOLEAN
    BY DiagAssumption DEF DiagAssumption
  <2>2. storm \in BOOLEAN
    BY <2>1
  <2> QED BY <2>1, <2>2
<1>3. b.says \in Seq(Messages) /\ b.means \in Outcomes
  BY <1>0, <1>2, <1>11, AnnouncedIs
<1>4. owed \in Seq(Messages)
  <2>1. << >> \in Seq(Messages)
    OBVIOUS
  <2> QED BY <1>0, <2>1 DEF Heard
<1>5. storm => Head(b.says) \in Messages
  <2> SUFFICES ASSUME storm PROVE b.says # << >>
    BY <1>3, HeadTailProperties
  <2>1. n = MaxPending + 1 /\ n > 0
    BY DiagAssumption DEF DiagAssumption
  <2>2. /\ b.says = Waits(call, n) \o a.says /\ Waits(call, n) \in Seq(Messages)
        /\ Len(Waits(call, n)) = n /\ a.says \in Seq(Messages)
    BY <1>0, <1>2, <1>11, AnnouncedIs, WaitsTyped, AnswersTyped
  <2>3. PICK w \in Seq(Messages), x \in Seq(Messages) : w = Waits(call, n) /\ x = a.says
    BY <2>2
  <2>4. b.says = w \o x /\ Len(w) = n
    BY <2>2, <2>3, Zenon
  <2>5. Len(w \o x) = Len(w) + Len(x) /\ Len(x) \in Nat
    BY Joined
  <2> HIDE DEF n
  <2>6. Len(b.says) > 0
    BY <2>1, <2>4, <2>5, <1>2
  <2> QED BY <2>6
<1>6. Says(b, owed, storm) \in Seq(Messages)
  <2>1. storm => <<Head(b.says)>> \in Seq(Messages)
    BY <1>5
  <2>2. owed \o b.says \in Seq(Messages)
    BY <1>3, <1>4, Joined
  <2> QED BY <2>1, <2>2, Zenon DEF Says
<1>7. truth' = b.means /\ ecu' = [ecu EXCEPT ![call.ecu] = [says |-> Says(b, owed, storm), storm |-> storm]]
  BY <1>1, <1>10, Zenon DEF Hears
<1> DEFINE h == [says |-> Says(b, owed, storm), storm |-> storm]
<1>8. h \in Heard
  BY <1>2, <1>6 DEF Heard
<1> HIDE DEF h
<1>9. ecu' = [ecu EXCEPT ![call.ecu] = h]
  BY <1>7, Zenon DEF h
<1> QED BY <1>0, <1>3, <1>7, <1>8, <1>9, Zenon DEF CarTyped

LEMMA SpeakTyped ==
  ASSUME Parts, NEW e \in Ecus, Speak(e)
  PROVE  Parts'
<1>0. ecu[e] \in Heard /\ ecu \in [Ecus -> Heard] /\ ring \in Seq(Messages) /\ trouble \in BOOLEAN
  BY DEF Parts, CarTyped, RingTyped, FaultTyped
<1>1. /\ ecu[e].says \in Seq(Messages) /\ ecu[e].says # << >>
      /\ ecu' = [ecu EXCEPT ![e].says = IF ecu[e].storm THEN ecu[e].says ELSE Tail(ecu[e].says)]
      /\ \/ ring' = Append(ring, Head(ecu[e].says)) /\ Len(ring) < RingCap
         \/ ring' = ring
      /\ trouble' \in BOOLEAN
      /\ UNCHANGED <<hostVars, filter, truth, nfaults>>
  BY <1>0 DEF Speak, Heard
<1>2. Head(ecu[e].says) \in Messages /\ Tail(ecu[e].says) \in Seq(Messages)
  BY <1>1, HeadTailProperties
<1>3. RingTyped'
  <2>1. CASE ring' = ring
    BY <2>1 DEF Parts, RingTyped
  <2>2. CASE ring' = Append(ring, Head(ecu[e].says)) /\ Len(ring) < RingCap
    <3>1. ring' \in Seq(Messages) /\ Len(ring') = Len(ring) + 1 /\ Len(ring) \in Nat
      BY <1>0, <1>2, <2>2, AppendProperties, LenProperties
    <3> QED BY <2>2, <3>1, DiagAssumption DEF RingTyped, DiagAssumption
  <2> QED BY <1>1, <2>1, <2>2
<1>4. CarTyped'
  BY <1>0, <1>1, <1>2 DEF CarTyped, Heard
<1> QED BY <1>1, <1>3, <1>4 DEF Parts, CallTyped, PlaceTyped, CountTyped, ResultTyped, FaultTyped,
       CallPlaced, hostVars

LEMMA AskTyped ==
  ASSUME Parts, Ask
  PROVE  Parts'
<1>1. PICK op \in Ops, id \in Ids \cup {0}, e \in Ecus :
        /\ call' = [n |-> call.n + 1, op |-> op, id |-> id, ecu |-> e]
        /\ \/ /\ key = e /\ NoFault /\ Begin
              /\ UNCHANGED <<key, counted, filter, ring>>
           \/ /\ key # e /\ ring' = << >>
              /\ \/ Channel(e, TRUE, e) /\ NoFault /\ Begin
                 \/ Fault /\ NoChannel /\ Return(Empty("Port"))
  BY Zenon DEF Ask
<1>2. call.n < MaxCalls /\ pc = "idle" /\ truth' = Empty("None") /\ UNCHANGED ecu
  BY DEF Ask
<1>3. call' \in Calls /\ call'.ecu = e
  <2>1. call.n + 1 \in 0..MaxCalls
    BY <1>2, DiagAssumption DEF Parts, CallTyped, Calls, DiagAssumption
  <2>2. op \in DOMAIN Service
    BY DiagAssumption DEF DiagAssumption, Service
  <2> QED BY <1>1, <2>1, <2>2 DEF Calls
<1>4. truth' \in Outcomes /\ Empty("None") \in Outcomes /\ Empty("Port") \in Outcomes
  BY <1>2, EmptyTyped DEF Stats
<1>5. CarTyped'
  BY <1>2 DEF Parts, CarTyped
<1>6. CASE Begin /\ NoFault /\ (\/ key = e /\ UNCHANGED <<key, counted, filter, ring>>
                                \/ Channel(e, TRUE, e) /\ ring' = << >>)
  <2>1. CallTyped' /\ CountTyped' /\ FaultTyped' /\ ResultTyped'
    BY <1>3, <1>4, <1>6 DEF Begin, NoFault, Parts, CallTyped, CountTyped, FaultTyped, ResultTyped
  <2>2. PlaceTyped' /\ key' = e
    BY <1>6 DEF Channel, Parts, PlaceTyped
  <2>3. RingTyped'
    BY <1>6, EmptyRing DEF Parts, RingTyped
  <2>4. CallPlaced'
    BY <1>3, <2>2 DEF CallPlaced
  <2> QED BY <1>5, <2>1, <2>2, <2>3, <2>4 DEF Parts
<1>7. CASE Fault /\ NoChannel /\ Return(Empty("Port")) /\ ring' = << >>
  <2>1. CallTyped' /\ CountTyped' /\ CallPlaced' /\ result' \in Outcomes
    BY <1>3, <1>4, <1>7, ReturnKeepsType
  <2>2. PlaceTyped'
    BY <1>7 DEF NoChannel, Channel, PlaceTyped
  <2>3. RingTyped'
    BY <1>7, EmptyRing DEF RingTyped
  <2>4. FaultTyped'
    BY <1>7, FaultKeepsType DEF Parts
  <2> QED BY <1>4, <1>5, <2>1, <2>2, <2>3, <2>4 DEF Parts, ResultTyped
<1> QED BY <1>1, <1>6, <1>7

LEMMA SendTyped ==
  ASSUME Parts, Send
  PROVE  Parts'
<1>1. /\ pc = "sending" /\ call.ecu \in Ecus /\ key = call.ecu
      /\ UNCHANGED <<call, key, counted, filter, ring>> /\ call \in Calls
  BY DEF Send, Parts, CallPlaced, CallTyped
<1>2. CarTyped' /\ truth' \in Outcomes
  <2>1. CASE Hear(call)
    BY <1>1, <2>1, HearTyped
  <2>2. CASE UNCHANGED carVars
    BY <2>2 DEF Parts, carVars, CarTyped, ResultTyped
  <2> QED BY <2>1, <2>2 DEF Send
<1>3. PlaceTyped' /\ RingTyped'
  BY <1>1 DEF Parts, PlaceTyped, RingTyped
<1>4. FaultTyped'
  <2>1. CASE Fault
    BY <2>1, FaultKeepsType DEF Parts
  <2>2. CASE trouble' = ~Settled /\ UNCHANGED nfaults
    BY <2>2 DEF Parts, FaultTyped
  <2> QED BY <2>1, <2>2 DEF Send
<1>5. CallTyped' /\ CountTyped' /\ CallPlaced' /\ result' \in Outcomes
  <2>1. Empty("Ok") \in Outcomes /\ Empty("Port") \in Outcomes
    BY EmptyTyped DEF Stats
  <2>2. CASE Return(Empty("Ok")) \/ Return(Empty("Port"))
    BY <1>1, <2>1, <2>2, ReturnKeepsType
  <2>3. CASE pc' = "waiting" /\ UNCHANGED <<pending, pids, result>>
    BY <1>1, <2>3 DEF Parts, CallTyped, CountTyped, CallPlaced, ResultTyped
  <2> QED BY <2>2, <2>3 DEF Send
<1> QED BY <1>2, <1>3, <1>4, <1>5 DEF Parts, ResultTyped

LEMMA ReceiveTyped ==
  ASSUME Parts, Receive
  PROVE  Parts'
<1> DEFINE m == Head(ring)
<1>1. /\ pc = "waiting" /\ ring # << >> /\ ring' = Tail(ring) /\ ring \in Seq(Messages)
      /\ UNCHANGED <<call, key, counted, filter, carVars, trouble, nfaults>>
      /\ call \in Calls /\ Len(ring) <= RingCap
  BY DEF Receive, Parts, RingTyped, CallTyped
<1>2. m \in Messages /\ ring' \in Seq(Messages) /\ Len(ring') = Len(ring) - 1
  BY <1>1, HeadTailProperties
<1>3. RingTyped'
  <2>1. Len(ring) \in Nat
    BY <1>1, LenProperties
  <2> QED BY <1>1, <1>2, <2>1, DiagAssumption DEF RingTyped, DiagAssumption
<1>4. PlaceTyped' /\ CarTyped' /\ FaultTyped' /\ truth' \in Outcomes
  BY <1>1 DEF Parts, PlaceTyped, CarTyped, FaultTyped, ResultTyped, carVars
<1>5. Answered(call, m) \in Outcomes /\ Outcome("Negative", m, << >>) \in Outcomes
  BY <1>1, <1>2, AnsweredTyped, OutcomeTyped, ListsAre DEF Stats
<1>6. CallTyped' /\ CountTyped' /\ CallPlaced' /\ result' \in Outcomes
  <2>1. CASE Skip
    BY <1>1, <2>1 DEF Skip, Parts, CallTyped, CountTyped, CallPlaced, ResultTyped
  <2>2. CASE Swallow(m) /\ pending' = OneMore /\ UNCHANGED <<pc, pids, result>>
    BY <1>1, <2>2, DiagAssumption DEF Swallow, OneMore, DiagAssumption, Parts, CallTyped,
       CountTyped, CallPlaced, ResultTyped
  <2>3. CASE Return(Answered(call, m)) \/ Return(Outcome("Negative", m, << >>))
    BY <1>1, <1>5, <2>3, ReturnKeepsType
  <2>4. CASE pids' = pids \o ParsePids(m.body) /\ UNCHANGED <<pc, pending, result>>
    <3>1. m.body \in Seq(Nat) /\ pids \in Seq(ListEntry)
      BY <1>2, ListsAre DEF Messages, Parts, CountTyped
    <3>2. ParsePids(m.body) \in Seq(ListEntry)
      BY <3>1, ParsePidsTyped
    <3>3. pids' \in Lists
      BY <2>4, <3>1, <3>2, ListsAre, Joined
    <3> QED BY <1>1, <2>4, <3>3 DEF Parts, CallTyped, CountTyped, CallPlaced, ResultTyped
  <2> QED BY <2>1, <2>2, <2>3, <2>4 DEF Receive
<1> QED BY <1>3, <1>4, <1>6 DEF Parts, ResultTyped

LEMMA StepTyped == Typed /\ [Next]_vars => Typed'
<1> SUFFICES ASSUME Parts, [Next]_vars PROVE Parts'
  BY DEF Typed, TypeOK, Parts, CallTyped, PlaceTyped, CountTyped, ResultTyped, RingTyped,
     CarTyped, FaultTyped, CallPlaced, Calls, Heard
<1>1. CASE UNCHANGED vars
  BY <1>1 DEF vars, hostVars, carVars, Parts, CallTyped, PlaceTyped, CountTyped, ResultTyped,
     RingTyped, CarTyped, FaultTyped, CallPlaced
<1>2. CASE Open
  <2>1. FaultTyped'
    BY <1>2, FaultKeepsType DEF Open, NoFault, Parts, FaultTyped
  <2> QED BY <1>2, <2>1 DEF Open, carVars, Parts, CallTyped, PlaceTyped, CountTyped, ResultTyped,
     RingTyped, CarTyped, CallPlaced
<1>3. CASE Close
  BY <1>3, EmptyRing DEF Close, NoChannel, Channel, carVars, Parts, CallTyped, PlaceTyped, CountTyped,
     ResultTyped, RingTyped, CarTyped, FaultTyped, CallPlaced
<1>4. CASE \E e \in Ecus : Speak(e)
  BY <1>4, SpeakTyped
<1>5. CASE \E e \in Ecus : SetEndpoints(e)
  <2>1. PICK e \in Ecus : SetEndpoints(e)
    BY <1>5
  <2>2. FaultTyped'
    BY <2>1, FaultKeepsType DEF SetEndpoints, NoFault, Parts, FaultTyped
  <2>3. PlaceTyped'
    BY <2>1 DEF SetEndpoints, Channel, Parts, PlaceTyped
  <2> QED BY <2>1, <2>2, <2>3 DEF SetEndpoints, carVars, Parts, CallTyped, CountTyped, ResultTyped,
     RingTyped, CarTyped, CallPlaced
<1>6. CASE Ask
  BY <1>6, AskTyped
<1>7. CASE Send
  BY <1>7, SendTyped
<1>8. CASE Receive
  BY <1>8, ReceiveTyped
<1>9. CASE TimesOut
  <2>1. /\ UNCHANGED <<call, key, counted, filter, ring, carVars, nfaults>> /\ call' \in Calls
        /\ trouble' = (trouble \/ \E e \in Ecus : ecu[e].says # << >>)
    BY <1>9 DEF TimesOut, Parts, CallTyped
  <2>2. \A st \in Stats : Empty(st) \in Outcomes /\ Outcome("Ok", Nothing, pids) \in Outcomes
    BY EmptyTyped, OutcomeTyped, NoCallTyped DEF Stats, Parts, CountTyped
  <2>3. \E r \in Outcomes : Return(r)
    BY <1>9, <2>2 DEF TimesOut, Stats
  <2>4. CallTyped' /\ CountTyped' /\ CallPlaced' /\ result' \in Outcomes
    BY <2>1, <2>3, ReturnKeepsType
  <2>5. FaultTyped'
    BY <2>1 DEF Parts, FaultTyped
  <2> QED BY <2>1, <2>4, <2>5 DEF carVars, Parts, PlaceTyped, ResultTyped, RingTyped, CarTyped
<1>10. CASE PortFails
  <2>1. /\ UNCHANGED <<call, key, counted, filter, ring, carVars>> /\ call' \in Calls
        /\ Return(Empty("Port")) /\ Fault
    BY <1>10 DEF PortFails, Parts, CallTyped
  <2>2. Empty("Port") \in Outcomes
    BY EmptyTyped DEF Stats
  <2>3. CallTyped' /\ CountTyped' /\ CallPlaced' /\ result' \in Outcomes
    BY <2>1, <2>2, ReturnKeepsType
  <2>4. FaultTyped'
    BY <2>1, FaultKeepsType DEF Parts
  <2> QED BY <2>1, <2>3, <2>4 DEF carVars, Parts, PlaceTyped, ResultTyped, RingTyped, CarTyped
<1> QED BY <1>1, <1>2, <1>3, <1>4, <1>5, <1>6, <1>7, <1>8, <1>9, <1>10 DEF Next

\* Every state the calls, the ECUs and the adapter reach is one that TypeOK
\* describes: no call swallows more announcements than the limit, the adapter
\* holds no more than its ring, and a call in progress has the channel of the
\* ECU it is to.
THEOREM TypeCorrect == Spec => []TypeOK
<1>1. Typed => TypeOK
  BY DEF Typed
<1> QED BY <1>1, InitTyped, StepTyped, PTL DEF Spec

-----------------------------------------------------------------------------
(* What is still to come of an answer.                                     *)

Silence(c, list) == CASE c.op = "enumerate" -> Outcome("Ok", Nothing, list)
                      [] c.op = "quiet" -> Empty("Ok")
                      [] OTHER -> Empty("Timeout")

\* An ECU that will say no more than "says" lets call c, which has the entries of
\* list, return "means".
Remains(c, list, says, means) ==
  \/ says = << >> /\ means = Silence(c, list)
  \/ says = <<No(c)>> /\ means = Handed(c, No(c))
  \/ /\ c.op \notin {"teardown", "quiet", "enumerate"}
     /\ says = <<Yes(c)>> /\ means = Outcome("Ok", Yes(c), << >>)
  \/ /\ c.op = "enumerate"
     /\ \E page \in Seq(Seq(Entry)) :
          says = Chunks(c, page) /\ means = Outcome("Ok", Nothing, list \o Listed(FlattenSeq(page)))

\* The messages q, the first of them announcements, are all that is to come for
\* call c, which has swallowed k, and let it return t.
Due(c, k, list, t, q) ==
  \E n \in Nat, says \in Seq(Messages), means \in Outcomes :
    /\ Remains(c, list, says, means)
    /\ q = Waits(c, n) \o says
    /\ t = IF k + n > MaxPending THEN Handed(c, Wait(c)) ELSE means

LEMMA ChunksNone ==
  ASSUME NEW c \in Calls, NEW page \in Seq(Seq(Entry)), NEW list \in Lists, page = << >>
  PROVE  list \o Listed(FlattenSeq(page)) = list
<1>1. Len(page) = 0
  BY DEF Chunks
<1>2. FlattenSeq(page) = page
  BY <1>1, FlattenIs, Zenon
<1>3. << >> \in Seq(Entry) /\ Len(<< >>) = 0
  OBVIOUS
<1>4. Listed(<< >>) = << >>
  BY <1>3, ListedIs, EmptySeq
<1>5. list \o << >> = list
  BY ListsAre, ConcatEmptySeq
<1> QED BY <1>2, <1>4, <1>5

\* One chunk taken off the front.
LEMMA ChunksNext ==
  ASSUME NEW c \in Calls, NEW page \in Seq(Seq(Entry)), NEW list \in Lists, page # << >>
  PROVE  /\ Head(page) \in Seq(Entry) /\ Tail(page) \in Seq(Seq(Entry))
         /\ Chunks(c, page) # << >>
         /\ Head(Chunks(c, page)) = Message("positive", c, Encode(Head(page)))
         /\ Tail(Chunks(c, page)) = Chunks(c, Tail(page))
         /\ list \o Listed(Head(page)) \in Lists
         /\ list \o Listed(FlattenSeq(page)) = (list \o Listed(Head(page))) \o Listed(FlattenSeq(Tail(page)))
<1>1. /\ Head(page) \in Seq(Entry) /\ Tail(page) \in Seq(Seq(Entry)) /\ Head(page) = page[1]
      /\ Len(page) \in Nat \ {0} /\ Len(Tail(page)) = Len(page) - 1
      /\ \A i \in 1..Len(Tail(page)) : Tail(page)[i] = page[i + 1]
  BY EmptySeq, HeadTailProperties
<1>2. PICK x \in Seq(Messages) : /\ x = Chunks(c, page) /\ Len(x) = Len(page)
                                 /\ \A i \in 1..Len(page) : x[i] = Message("positive", c, Encode(page[i]))
  BY ChunksTyped
<1>3. PICK y \in Seq(Messages) :
        /\ y = Chunks(c, Tail(page)) /\ Len(y) = Len(Tail(page))
        /\ \A i \in 1..Len(Tail(page)) : y[i] = Message("positive", c, Encode(Tail(page)[i]))
  BY <1>1, ChunksTyped
<1>4. x # << >> /\ Head(x) = Message("positive", c, Encode(Head(page)))
  <2>1. 1 \in 1..Len(page) /\ Len(x) # 0
    BY <1>1, <1>2
  <2>2. x[1] = Message("positive", c, Encode(Head(page)))
    BY <1>1, <1>2, <2>1
  <2>3. x # << >> /\ Head(x) = x[1]
    BY <2>1
  <2> QED BY <2>2, <2>3
<1>5. Tail(x) = y
  <2>1. /\ Tail(x) \in Seq(Messages) /\ Len(Tail(x)) = Len(x) - 1
        /\ \A i \in 1..Len(Tail(x)) : Tail(x)[i] = x[i + 1]
    BY <1>4, HeadTailProperties
  <2>2. Len(Tail(x)) = Len(y)
    BY <1>1, <1>2, <1>3, <2>1
  <2>3. ASSUME NEW i \in 1..Len(Tail(x)) PROVE Tail(x)[i] = y[i]
    <3>1. i \in 1..Len(Tail(page)) /\ i + 1 \in 1..Len(page)
      BY <1>1, <1>2, <2>1
    <3>2. x[i + 1] = Message("positive", c, Encode(page[i + 1]))
      BY <1>2, <3>1
    <3>3. y[i] = Message("positive", c, Encode(page[i + 1]))
      BY <1>1, <1>3, <3>1
    <3> QED BY <2>1, <3>2, <3>3
  <2> QED BY <2>1, <2>2, <2>3, SeqEqual
<1>6. PICK a \in Seq(Entry), b \in Seq(Entry) : a = Head(page) /\ b = FlattenSeq(Tail(page))
  BY <1>1, ListedTyped
<1>7. FlattenSeq(page) = a \o b
  BY <1>6, FlattenFirst
<1>8. Listed(FlattenSeq(page)) = Listed(a) \o Listed(b)
  BY <1>7, ListedJoins
<1>9. PICK u \in Seq(ListEntry), v \in Seq(ListEntry), l \in Seq(ListEntry) :
        u = Listed(a) /\ v = Listed(b) /\ l = list
  BY ListedIs, ListsAre
<1>10. l \o u \in Seq(ListEntry)
  BY Joined
<1>11. l \o (u \o v) = (l \o u) \o v
  BY Associates, SMTT(60)
<1> QED BY <1>1, <1>2, <1>3, <1>4, <1>5, <1>6, <1>8, <1>9, <1>10, <1>11, ListsAre, Zenon

LEMMA WaitsNext ==
  ASSUME NEW c \in Calls, NEW n \in Nat, NEW says \in Seq(Messages)
  PROVE  /\ n = 0 => Waits(c, n) \o says = says
         /\ n # 0 => /\ Waits(c, n) \o says # << >>
                     /\ Head(Waits(c, n) \o says) = Wait(c)
                     /\ Tail(Waits(c, n) \o says) = Waits(c, n - 1) \o says
<1>1. PICK w \in Seq(Messages) : /\ w = Waits(c, n) /\ Len(w) = n
                                 /\ \A i \in 1..n : w[i] = Wait(c)
  BY WaitsTyped
<1>2. n = 0 => w \o says = says
  BY <1>1, EmptySeq, ConcatEmptySeq
<1>3. ASSUME n # 0
      PROVE  /\ w \o says # << >> /\ Head(w \o says) = Wait(c)
             /\ Tail(w \o says) = Waits(c, n - 1) \o says
  <2>1. n - 1 \in Nat /\ 1 \in 1..n
    BY <1>3
  <2>2. PICK z \in Seq(Messages) : /\ z = Waits(c, n - 1) /\ Len(z) = n - 1
                                   /\ \A i \in 1..n - 1 : z[i] = Wait(c)
    BY <2>1, WaitsTyped
  <2>3. PICK q \in Seq(Messages) : q = w \o says
    BY Joined
  <2>4. /\ Len(q) = n + Len(says) /\ Len(says) \in Nat
        /\ \A i \in 1..n : q[i] = Wait(c)
        /\ \A i \in 1..Len(says) : q[n + i] = says[i]
    BY <1>1, <2>3, Joined
  <2>5. q # << >> /\ Head(q) = Wait(c)
    <3>1. Len(q) # 0 /\ q[1] = Wait(c)
      BY <2>1, <2>4
    <3>2. q # << >>
      BY <3>1
    <3> QED BY <3>1, <3>2
  <2>6. /\ Tail(q) \in Seq(Messages) /\ Len(Tail(q)) = Len(q) - 1
        /\ \A i \in 1..Len(Tail(q)) : Tail(q)[i] = q[i + 1]
    BY <2>5, HeadTailProperties
  <2>7. /\ z \o says \in Seq(Messages) /\ Len(z \o says) = n - 1 + Len(says)
        /\ \A i \in 1..n - 1 : (z \o says)[i] = z[i]
        /\ \A i \in 1..Len(says) : (z \o says)[n - 1 + i] = says[i]
    <3>1. /\ z \o says \in Seq(Messages) /\ Len(z \o says) = Len(z) + Len(says)
          /\ \A i \in 1..Len(z) : (z \o says)[i] = z[i]
          /\ \A i \in 1..Len(says) : (z \o says)[Len(z) + i] = says[i]
      BY Joined
    <3> QED BY <2>2, <3>1, Zenon
  <2>8. Len(Tail(q)) = Len(z \o says)
    BY <2>4, <2>6, <2>7
  <2>9. ASSUME NEW i \in 1..Len(Tail(q)) PROVE Tail(q)[i] = (z \o says)[i]
    <3>1. CASE i <= n - 1
      <4>1. i \in 1..n - 1 /\ i + 1 \in 1..n
        BY <2>1, <3>1
      <4> QED BY <2>2, <2>4, <2>6, <2>7, <4>1
    <3>2. CASE ~(i <= n - 1)
      <4>1. PICK j \in 1..Len(says) : i = n - 1 + j /\ i + 1 = n + j
        <5>1. i - (n - 1) \in 1..Len(says) /\ i = n - 1 + (i - (n - 1))
          BY <2>1, <2>4, <2>6, <3>2
        <5>2. i + 1 = n + (i - (n - 1))
          BY <2>1
        <5> QED BY <5>1, <5>2
      <4>2. q[n + j] = says[j] /\ (z \o says)[n - 1 + j] = says[j]
        BY <2>4, <2>7
      <4> QED BY <2>6, <4>1, <4>2
    <3> QED BY <3>1, <3>2
  <2>10. Tail(q) = z \o says
    BY <2>6, <2>7, <2>8, <2>9, SeqEqual
  <2> QED BY <2>2, <2>3, <2>5, <2>10
<1> QED BY <1>1, <1>2, <1>3

\* When nothing is to come, it is the silence that counts.
LEMMA DueEnd ==
  ASSUME NEW c \in Calls, NEW k \in 0..MaxPending, NEW list \in Lists, NEW t,
         Due(c, k, list, t, << >>)
  PROVE  t = Silence(c, list)
<1>1. PICK n \in Nat, says \in Seq(Messages), means \in Outcomes :
        /\ Remains(c, list, says, means)
        /\ << >> = Waits(c, n) \o says
        /\ t = IF k + n > MaxPending THEN Handed(c, Wait(c)) ELSE means
  BY Zenon DEF Due
<1>2. n = 0 /\ says = << >>
  BY <1>1, WaitsNext
<1>3. t = means
  <2>1. ~(k + n > MaxPending)
    BY <1>2, DiagAssumption DEF DiagAssumption
  <2> QED BY <1>1, <2>1, Zenon
<1>4. <<No(c)>> # << >> /\ <<Yes(c)>> # << >>
  OBVIOUS
<1>5. CASE means = Silence(c, list)
  BY <1>3, <1>5
<1>6. CASE c.op = "enumerate" /\ \E page \in Seq(Seq(Entry)) :
             says = Chunks(c, page) /\ means = Outcome("Ok", Nothing, list \o Listed(FlattenSeq(page)))
  <2>1. PICK page \in Seq(Seq(Entry)) :
          says = Chunks(c, page) /\ means = Outcome("Ok", Nothing, list \o Listed(FlattenSeq(page)))
    BY <1>6
  <2>2. page = << >>
    BY <1>2, <2>1, ChunksNext
  <2>3. means = Outcome("Ok", Nothing, list)
    BY <2>1, <2>2, ChunksNone
  <2> QED BY <1>3, <1>6, <2>3 DEF Silence
<1> QED BY <1>1, <1>2, <1>4, <1>5, <1>6, Zenon DEF Remains

\* What the next message is, and what is to come behind it.
LEMMA DueNext ==
  ASSUME NEW c \in Calls, NEW k \in 0..MaxPending, NEW list \in Lists, NEW t,
         NEW q \in Seq(Messages), q # << >>, Due(c, k, list, t, q)
  PROVE  \/ Head(q) = Wait(c) /\ k < MaxPending /\ Due(c, k + 1, list, t, Tail(q))
         \/ Head(q) = Wait(c) /\ k = MaxPending /\ t = Handed(c, Wait(c))
         \/ Head(q) = No(c) /\ t = Handed(c, No(c))
         \/ /\ c.op \notin {"teardown", "quiet", "enumerate"}
            /\ Head(q) = Yes(c) /\ t = Outcome("Ok", Yes(c), << >>)
         \/ /\ c.op = "enumerate"
            /\ \E es \in Seq(Entry) :
                 /\ Head(q) = Message("positive", c, Encode(es)) /\ list \o Listed(es) \in Lists
                 /\ Due(c, k, list \o Listed(es), t, Tail(q))
<1>1. PICK n \in Nat, says \in Seq(Messages), means \in Outcomes :
        /\ Remains(c, list, says, means)
        /\ q = Waits(c, n) \o says
        /\ t = IF k + n > MaxPending THEN Handed(c, Wait(c)) ELSE means
  BY Zenon DEF Due
<1>2. CASE n # 0
  <2>1. Head(q) = Wait(c) /\ Tail(q) = Waits(c, n - 1) \o says /\ n - 1 \in Nat
    <3>1. n - 1 \in Nat
      BY <1>2
    <3>2. /\ Head(Waits(c, n) \o says) = Wait(c)
          /\ Tail(Waits(c, n) \o says) = Waits(c, n - 1) \o says
      BY <1>2, WaitsNext, Zenon
    <3> QED BY <1>1, <3>1, <3>2, Zenon
  <2>2. CASE k < MaxPending
    <3>1. k + 1 + (n - 1) = k + n
      BY DiagAssumption DEF DiagAssumption
    <3>2. Due(c, k + 1, list, t, Tail(q))
      BY <1>1, <2>1, <3>1, Zenon DEF Due
    <3> QED BY <2>1, <2>2, <3>2
  <2>3. CASE ~(k < MaxPending)
    <3>1. k = MaxPending /\ k + n > MaxPending
      BY <1>2, <2>3, DiagAssumption DEF DiagAssumption
    <3> QED BY <1>1, <2>1, <3>1
  <2> QED BY <2>2, <2>3
<1>3. CASE n = 0
  <2>1. q = says /\ t = means
    <3>1. ~(k + n > MaxPending)
      BY <1>3, DiagAssumption DEF DiagAssumption
    <3>2. q = says
      BY <1>1, <1>3, WaitsNext
    <3> QED BY <1>1, <3>1, <3>2, Zenon
  <2>2. Head(<<No(c)>>) = No(c) /\ Head(<<Yes(c)>>) = Yes(c)
    OBVIOUS
  <2>3. CASE c.op = "enumerate" /\ \E page \in Seq(Seq(Entry)) :
               says = Chunks(c, page) /\ means = Outcome("Ok", Nothing, list \o Listed(FlattenSeq(page)))
    <3>1. PICK page \in Seq(Seq(Entry)) :
            says = Chunks(c, page) /\ means = Outcome("Ok", Nothing, list \o Listed(FlattenSeq(page)))
      BY <2>3
    <3>2. page # << >>
      <4>1. page = << >> => Chunks(c, page) = << >>
        BY ChunksTyped, EmptySeq
      <4> QED BY <2>1, <3>1, <4>1
    <3> DEFINE es == Head(page)
               next == list \o Listed(es)
    <3>3. /\ es \in Seq(Entry) /\ Tail(page) \in Seq(Seq(Entry)) /\ next \in Lists
          /\ Head(q) = Message("positive", c, Encode(es)) /\ Tail(q) = Chunks(c, Tail(page))
          /\ t = Outcome("Ok", Nothing, next \o Listed(FlattenSeq(Tail(page))))
      BY <2>1, <3>1, <3>2, ChunksNext
    <3>4. Remains(c, next, Tail(q), t)
      BY <2>3, <3>3, Zenon DEF Remains
    <3>5. Due(c, k, next, t, Tail(q))
      <4>1. Tail(q) \in Seq(Messages) /\ 0 \in Nat /\ t \in Outcomes
        BY <2>1, HeadTailProperties
      <4>2. Waits(c, 0) \o Tail(q) = Tail(q)
        BY <4>1, WaitsNext
      <4>3. ~(k + 0 > MaxPending)
        BY DiagAssumption DEF DiagAssumption
      <4> QED BY <3>4, <4>1, <4>2, <4>3, Zenon DEF Due
    <3> QED BY <2>3, <3>3, <3>5, Zenon
  <2> QED BY <1>1, <2>1, <2>2, <2>3, Zenon DEF Remains
<1> QED BY <1>2, <1>3

\* What an ECU has to say to a call that waits for it.
LEMMA DueStart ==
  ASSUME NEW c \in Calls, NEW a \in Answers(c), NEW k \in Nat, c.op # "teardown"
  PROVE  Due(c, 0, << >>, Announced(c, a, k).means, Announced(c, a, k).says)
<1>1. PICK b : b = Announced(c, a, k)
  OBVIOUS
<1>2. /\ b.says = Waits(c, k) \o a.says
      /\ b.means = IF k > MaxPending THEN Handed(c, Wait(c)) ELSE a.means
      /\ a.says \in Seq(Messages) /\ a.means \in Outcomes
  BY <1>1, AnnouncedIs, AnswersTyped
<1>3. 0 + k = k
  OBVIOUS
<1>4. Remains(c, << >>, a.says, a.means)
  <2>1. CASE c.op \in {"quiet", "enumerate"} /\ a = [says |-> << >>, means |-> Empty("Ok")]
    <3>1. a.says = << >> /\ a.means = Empty("Ok")
      BY <2>1
    <3>2. Silence(c, << >>) = Empty("Ok")
      BY <2>1 DEF Silence, Empty
    <3> QED BY <3>1, <3>2 DEF Remains
  <2>2. CASE /\ c.op \notin {"teardown", "quiet", "enumerate"}
             /\ a = [says |-> << >>, means |-> Empty("Timeout")]
    BY <2>2 DEF Remains, Silence
  <2>3. CASE a = [says |-> <<No(c)>>, means |-> Handed(c, No(c))]
    BY <2>3 DEF Remains
  <2>4. CASE /\ c.op \notin {"teardown", "quiet", "enumerate"}
             /\ a = [says |-> <<Yes(c)>>, means |-> Outcome("Ok", Yes(c), << >>)]
    BY <2>4 DEF Remains
  <2>5. CASE /\ c.op = "enumerate"
             /\ \E page \in Pages :
                  a = [says |-> Chunks(c, page), means |-> Outcome("Ok", Nothing, Listed(FlattenSeq(page)))]
    <3>1. PICK page \in Pages :
            a = [says |-> Chunks(c, page), means |-> Outcome("Ok", Nothing, Listed(FlattenSeq(page)))]
      BY <2>5
    <3>2. page \in Seq(Seq(Entry))
      BY DiagAssumption DEF DiagAssumption
    <3>3. << >> \o Listed(FlattenSeq(page)) = Listed(FlattenSeq(page))
      BY <3>2, ListedTyped, ListsAre, ConcatEmptySeq
    <3>4. a.says = Chunks(c, page) /\ a.means = Outcome("Ok", Nothing, Listed(FlattenSeq(page)))
      BY <3>1
    <3> QED BY <2>5, <3>2, <3>3, <3>4, Zenon DEF Remains
  <2> QED BY <2>1, <2>2, <2>3, <2>4, <2>5, AnswersAre, Zenon
<1> QED BY <1>1, <1>2, <1>3, <1>4, Zenon DEF Due

-----------------------------------------------------------------------------
(* What a punctual ECU says is returned.                                   *)

\* The ECU that is asked announces its answer for ever.
Storming ==
  /\ ecu[call.ecu].storm /\ ecu[call.ecu].says = <<Wait(call)>>
  /\ truth = Handed(call, Wait(call)) /\ \A i \in 1..Len(ring) : ring[i] = Wait(call)

\* What it has still to say, behind what the adapter holds of it, makes the call
\* return the truth.
Promised == ~ecu[call.ecu].storm /\ Due(call, pending, pids, truth, ring \o ecu[call.ecu].says)

OnTime ==
  /\ counted /\ filter = key /\ (\A e \in Ecus : e # call.ecu => ecu[e].says = << >>)
  /\ Storming \/ Promised

Fresh == pc # "waiting" => pending = 0 /\ pids = << >>
Expects == pc = "waiting" => call.op # "teardown"
Settles == (pc \in {"idle", "closed"} /\ ~trouble /\ call.n > 0) => result = truth
WaitsOnTime == (pc = "waiting" /\ ~trouble) => OnTime

Punctual == Typed /\ Fresh /\ Expects /\ Settles /\ WaitsOnTime

LEMMA TypedHost ==
  ASSUME Typed
  PROVE  /\ call \in Calls /\ pending \in 0..MaxPending /\ pids \in Lists /\ ring \in Seq(Messages)
         /\ ecu \in [Ecus -> Heard] /\ trouble \in BOOLEAN /\ call.n \in Nat
         /\ pc \in {"sending", "waiting"} => key = call.ecu /\ call.ecu \in Ecus
<1>1. Parts
  BY TypedIs DEF Parts
<1>2. \A c \in Calls : c.n \in Nat
  BY DiagAssumption DEF Calls, DiagAssumption
<1> QED BY <1>1, <1>2 DEF Parts, CallTyped, CountTyped, RingTyped, CarTyped, FaultTyped, CallPlaced

LEMMA SpeakOnTime ==
  ASSUME Punctual, NEW e \in Ecus, Speak(e)
  PROVE  Fresh' /\ Expects' /\ Settles' /\ WaitsOnTime'
<1>0. /\ UNCHANGED <<pc, call, key, counted, pending, pids, result, filter, truth>>
      /\ Fresh /\ Expects /\ Settles /\ WaitsOnTime /\ Typed
  BY DEF Speak, hostVars, Punctual
<1>1. Fresh' /\ Expects'
  BY <1>0 DEF Fresh, Expects
<1>2. ~trouble' => ~trouble /\ (filter = e => Len(ring) < RingCap)
  BY <1>0, TypedHost DEF Speak
<1>3. Settles'
  BY <1>0, <1>2 DEF Settles
<1>4. ASSUME pc = "waiting", ~trouble' PROVE OnTime'
  <2>1. /\ counted /\ filter = key /\ (\A d \in Ecus : d # call.ecu => ecu[d].says = << >>)
        /\ Storming \/ Promised
    BY <1>0, <1>2, <1>4 DEF WaitsOnTime, OnTime
  <2>2. e = call.ecu /\ key = call.ecu /\ ecu[e] \in Heard /\ ecu \in [Ecus -> Heard]
    BY <1>0, <1>4, <2>1, TypedHost DEF Speak
  <2>3. /\ ecu[e].says # << >> /\ ring' = Append(ring, Head(ecu[e].says))
        /\ ecu' = [ecu EXCEPT ![e].says = IF ecu[e].storm THEN ecu[e].says ELSE Tail(ecu[e].says)]
    BY <1>2, <1>4, <2>1, <2>2 DEF Speak
  <2>4. PICK s \in Seq(Messages), r \in Seq(Messages) : s = ecu[e].says /\ r = ring /\ s # << >>
    BY <1>0, <2>2, <2>3, TypedHost DEF Heard
  <2>5. /\ Head(s) \in Messages /\ Tail(s) \in Seq(Messages) /\ Len(s) \in Nat \ {0}
        /\ Len(Tail(s)) = Len(s) - 1 /\ \A i \in 1..Len(Tail(s)) : Tail(s)[i] = s[i + 1]
    BY <2>4, HeadTailProperties, EmptySeq
  <2>6. /\ \A d \in Ecus : d # e => ecu'[d] = ecu[d]
        /\ ecu'[e].storm = ecu[e].storm
        /\ ecu'[e].says = IF ecu[e].storm THEN s ELSE Tail(s)
    BY <2>2, <2>3, <2>4 DEF Heard
  <2>7. counted' /\ filter' = key' /\ \A d \in Ecus : d # call'.ecu => ecu'[d].says = << >>
    BY <1>0, <2>1, <2>2, <2>6
  <2>8. CASE Storming
    <3>1. s = <<Wait(call)>> /\ ecu[e].storm /\ Head(s) = Wait(call)
      BY <2>2, <2>4, <2>8 DEF Storming
    <3>2. \A i \in 1..Len(ring') : ring'[i] = Wait(call)
      <4>1. /\ Len(ring') = Len(r) + 1 /\ Len(r) \in Nat /\ ring'[Len(r) + 1] = Wait(call)
            /\ \A i \in 1..Len(r) : ring'[i] = r[i]
        BY <2>3, <2>4, <2>5, <3>1, AppendProperties, LenProperties
      <4>2. \A i \in 1..Len(r) : r[i] = Wait(call)
        BY <2>4, <2>8 DEF Storming
      <4>3. ASSUME NEW i \in 1..Len(ring') PROVE ring'[i] = Wait(call)
        <5>1. i \in 1..Len(r) \/ i = Len(r) + 1
          BY <4>1
        <5> QED BY <4>1, <4>2, <5>1
      <4> QED BY <4>3
    <3>3. Storming'
      BY <1>0, <2>2, <2>6, <2>8, <3>1, <3>2 DEF Storming
    <3> QED BY <2>7, <3>3 DEF OnTime
  <2>9. CASE Promised
    <3>1. ~ecu[e].storm /\ Due(call, pending, pids, truth, r \o s)
      BY <2>2, <2>4, <2>9, Zenon DEF Promised
    <3>2. Append(r, Head(s)) \o Tail(s) = r \o s
      <4>1. <<Head(s)>> \in Seq(Messages) /\ Append(r, Head(s)) = r \o <<Head(s)>>
        BY <2>5, AppendIsConcat
      <4>2. (r \o <<Head(s)>>) \o Tail(s) = r \o (<<Head(s)>> \o Tail(s))
        BY <2>5, <4>1, ConcatAssociative
      <4>3. <<Head(s)>> \o Tail(s) = s
        BY <2>4, <2>5
      <4> QED BY <4>1, <4>2, <4>3
    <3>3. ~ecu'[call'.ecu].storm /\ ring' = Append(r, Head(s)) /\ ecu'[call'.ecu].says = Tail(s)
      BY <1>0, <2>2, <2>3, <2>4, <2>6, <3>1
    <3>4. Promised'
      BY <1>0, <3>1, <3>2, <3>3, Zenon DEF Promised
    <3> QED BY <2>7, <3>4 DEF OnTime
  <2> QED BY <2>1, <2>8, <2>9
<1>5. WaitsOnTime'
  BY <1>0, <1>4 DEF WaitsOnTime
<1> QED BY <1>1, <1>3, <1>5

LEMMA SendOnTime ==
  ASSUME Punctual, Send
  PROVE  Fresh' /\ Expects' /\ Settles' /\ WaitsOnTime'
<1>0. /\ pc = "sending" /\ UNCHANGED <<call, key, counted, filter, ring>>
      /\ Fresh /\ Typed /\ pending = 0 /\ pids = << >>
  BY DEF Send, Punctual, Fresh
<1>1. key = call.ecu /\ call.ecu \in Ecus /\ call \in Calls /\ ecu \in [Ecus -> Heard] /\ ecu[call.ecu] \in Heard
  BY <1>0, TypedHost
<1>2. CASE Fault /\ Return(Empty("Port"))
  BY <1>2 DEF Fault, Return, Fresh, Expects, Settles, WaitsOnTime
<1>3. ASSUME Hear(call), trouble' = ~Settled,
             \/ call.op = "teardown" /\ Return(Empty("Ok"))
             \/ call.op # "teardown" /\ pc' = "waiting" /\ UNCHANGED <<pending, pids, result>>
      PROVE  Fresh' /\ Expects' /\ Settles' /\ WaitsOnTime'
  <2>1. PICK owed \in {<< >>, IF ecu[call.ecu].storm THEN << >> ELSE ecu[call.ecu].says},
             a \in Answers(call), k \in Pendings, storm \in {FALSE, Storms} :
          Hears(call, owed, a, k, storm)
    BY <1>3, HearIs, Zenon
  <2>2. PICK b : b = Spoken(call, a, k, storm)
    OBVIOUS
  <2>3. /\ a.says = << >> => k = 0 /\ ~storm
        /\ ecu' = [ecu EXCEPT ![call.ecu] = [says |-> Says(b, owed, storm), storm |-> storm]]
        /\ truth' = b.means
    BY <2>1, <2>2, Zenon DEF Hears
  <2>4. k \in Nat /\ storm \in BOOLEAN /\ MaxPending \in Nat
    <3>1. k \in Nat /\ Storms \in BOOLEAN /\ MaxPending \in Nat
      BY DiagAssumption DEF DiagAssumption
    <3>2. storm \in BOOLEAN
      BY <3>1
    <3> QED BY <3>1, <3>2
  <2>5. CASE call.op = "teardown"
    <3>1. Return(Empty("Ok"))
      BY <1>3, <2>5
    <3>2. a.says = << >> /\ a.means = Empty("Ok")
      <4>1. a = [says |-> << >>, means |-> Empty("Ok")]
        BY <2>5, AnswersAre
      <4> QED BY <4>1
    <3>3. k = 0 /\ ~storm
      BY <2>3, <3>2
    <3>4. b = Announced(call, a, 0) /\ 0 \in Nat
      BY <2>2, <3>3 DEF Spoken
    <3>5. b.means = IF 0 > MaxPending THEN Handed(call, Wait(call)) ELSE a.means
      BY <1>1, <3>4, AnnouncedIs
    <3>6. ~(0 > MaxPending)
      BY <2>4
    <3>7. truth' = Empty("Ok")
      BY <2>3, <3>2, <3>5, <3>6
    <3> QED BY <3>1, <3>7 DEF Return, Fresh, Expects, Settles, WaitsOnTime
  <2>6. CASE call.op # "teardown"
    <3>1. pc' = "waiting" /\ UNCHANGED <<pending, pids, result>>
      BY <1>3, <2>6
    <3>2. Fresh' /\ Expects' /\ Settles'
      BY <1>0, <2>6, <3>1 DEF Fresh, Expects, Settles
    <3>3. ASSUME ~trouble' PROVE OnTime'
      <4>1. ring = << >> /\ counted /\ filter = key /\ \A e \in Ecus : ecu[e].says = << >>
        BY <1>3, <3>3 DEF Settled
      <4>2. owed = << >>
        BY <1>1, <4>1
      <4>3. /\ \A e \in Ecus : e # call.ecu => ecu'[e] = ecu[e]
            /\ ecu'[call.ecu] = [says |-> Says(b, owed, storm), storm |-> storm]
        BY <1>1, <2>3
      <4>4. counted' /\ filter' = key' /\ \A e \in Ecus : e # call'.ecu => ecu'[e].says = << >>
        BY <1>0, <4>1, <4>3
      <4>5. CASE storm
        <5>1. b = Announced(call, a, MaxPending + 1) /\ MaxPending + 1 \in Nat /\ MaxPending + 1 # 0
          BY <2>2, <2>4, <4>5 DEF Spoken
        <5>2. /\ b.says = Waits(call, MaxPending + 1) \o a.says /\ a.says \in Seq(Messages)
              /\ b.means = IF MaxPending + 1 > MaxPending THEN Handed(call, Wait(call)) ELSE a.means
          BY <1>1, <5>1, AnnouncedIs, AnswersTyped
        <5>3. Head(b.says) = Wait(call)
          BY <1>1, <5>1, <5>2, WaitsNext
        <5>4. b.means = Handed(call, Wait(call))
          <6>1. MaxPending + 1 > MaxPending
            BY <2>4
          <6> QED BY <5>2, <6>1, Zenon
        <5>5. ecu'[call.ecu].storm /\ ecu'[call.ecu].says = <<Wait(call)>>
          BY <4>3, <4>5, <5>3 DEF Says
        <5>6. \A i \in 1..Len(ring') : ring'[i] = Wait(call)
          BY <1>0, <4>1
        <5>7. Storming'
          BY <1>0, <2>3, <5>4, <5>5, <5>6, Zenon DEF Storming
        <5> QED BY <4>4, <5>7 DEF OnTime
      <4>6. CASE ~storm
        <5>1. b = Announced(call, a, k)
          BY <2>2, <4>6 DEF Spoken
        <5>2. b.says \in Seq(Messages)
          BY <1>1, <2>4, <5>1, AnnouncedIs
        <5>3. Says(b, owed, storm) = b.says /\ << >> \o b.says = b.says
          BY <4>2, <4>6, <5>2, ConcatEmptySeq DEF Says
        <5>4. Due(call, 0, << >>, b.means, b.says)
          BY <1>1, <2>4, <2>6, <5>1, DueStart
        <5>5. ~ecu'[call.ecu].storm /\ ecu'[call.ecu].says = b.says
          BY <4>3, <4>6, <5>3
        <5>6. pending' = 0 /\ pids' = << >> /\ ring' = << >> /\ truth' = b.means /\ call' = call
          BY <1>0, <2>3, <3>1, <4>1
        <5>7. Promised'
          BY <5>3, <5>4, <5>5, <5>6, Zenon DEF Promised
        <5> QED BY <4>4, <5>7 DEF OnTime
      <4> QED BY <2>4, <4>5, <4>6
    <3> QED BY <3>2, <3>3 DEF WaitsOnTime
  <2> QED BY <2>5, <2>6
<1> QED BY <1>2, <1>3 DEF Send

LEMMA WordsAre ==
  ASSUME NEW c \in Calls
  PROVE  /\ Wait(c).kind = "pending" /\ No(c).kind = "negative" /\ Yes(c).kind = "positive"
         /\ Wait(c).from = c.ecu /\ No(c).from = c.ecu /\ Yes(c).from = c.ecu
         /\ Yes(c).sid = Service[c.op] /\ Yes(c).id = c.id
BY DEF Wait, No, Yes, Message

\* A message that is no positive response is handed over, or the call refused.
LEMMA HandedOver ==
  ASSUME NEW c, NEW m, m.kind # "positive"
  PROVE  /\ c.op # "enumerate" => Answered(c, m) = Handed(c, m)
         /\ c.op = "enumerate" => Outcome("Negative", m, << >>) = Handed(c, m)
<1>1. ParsePositive(c, m) = Outcome("Negative", m, << >>) /\ StripEcho(c, m) = ParsePositive(c, m)
  BY DEF ParsePositive, StripEcho
<1>2. c.op = "request" => Answered(c, m) = Outcome("Ok", m, << >>)
  BY DEF Answered
<1>3. c.op # "request" => Answered(c, m) = Outcome("Negative", m, << >>)
  BY <1>1 DEF Answered
<1> QED BY <1>2, <1>3 DEF Handed

LEMMA TakenOver ==
  ASSUME NEW c \in Calls, c.op \notin {"teardown", "quiet", "enumerate"}
  PROVE  Answered(c, Yes(c)) = Outcome("Ok", Yes(c), << >>)
<1>1. ParsePositive(c, Yes(c)) = Outcome("Ok", Yes(c), << >>)
  BY WordsAre DEF ParsePositive
<1>2. StripEcho(c, Yes(c)) = ParsePositive(c, Yes(c))
  BY WordsAre DEF StripEcho
<1> QED BY <1>1, <1>2 DEF Answered

LEMMA ReceiveOnTime ==
  ASSUME Punctual, Receive
  PROVE  Fresh' /\ Expects' /\ Settles' /\ WaitsOnTime'
<1> DEFINE m == Head(ring)
           chunk == m.kind = "positive" /\ m.sid = "enumerate" /\ m.id = call.id
<1>0. /\ pc = "waiting" /\ ring # << >> /\ ring' = Tail(ring)
      /\ UNCHANGED <<call, key, counted, filter, ecu, truth, trouble>>
      /\ Typed /\ Expects /\ WaitsOnTime
  BY DEF Receive, carVars, Punctual
<1>1. \/ ~Passes(m) /\ Skip
      \/ Passes(m) /\ Swallow(m) /\ pending' = OneMore /\ UNCHANGED <<pc, pids, result>>
      \/ Passes(m) /\ ~Swallow(m) /\
           \/ call.op # "enumerate" /\ Return(Answered(call, m))
           \/ call.op = "enumerate" /\ m.kind # "positive" /\ Return(Outcome("Negative", m, << >>))
           \/ call.op = "enumerate" /\ chunk /\ pids' = pids \o ParsePids(m.body)
              /\ UNCHANGED <<pc, pending, result>>
           \/ call.op = "enumerate" /\ m.kind = "positive" /\ ~chunk /\ Skip
  BY DEF Receive
<1> HIDE DEF m, chunk
<1>2. /\ call \in Calls /\ pending \in 0..MaxPending /\ pids \in Lists /\ ring \in Seq(Messages)
      /\ key = call.ecu /\ call.ecu \in Ecus /\ ecu[call.ecu] \in Heard
  BY <1>0, TypedHost
<1>3. CASE pc' = "idle"
  <2>1. Fresh' /\ Expects'
    BY <1>1, <1>0, <1>3 DEF Return, Skip, Fresh, Expects
  <2>2. WaitsOnTime'
    BY <1>3 DEF WaitsOnTime
  <2> SUFFICES ASSUME ~trouble' PROVE result' = truth'
    BY <2>1, <2>2 DEF Settles
  <2>3. OnTime /\ truth' = truth
    BY <1>0 DEF WaitsOnTime
  <2>4. /\ Passes(m) /\ ~Swallow(m)
        /\ \/ call.op # "enumerate" /\ result' = Answered(call, m)
           \/ call.op = "enumerate" /\ m.kind # "positive" /\ result' = Outcome("Negative", m, << >>)
    BY <1>0, <1>1, <1>3 DEF Skip, Return
  <2>5. m.kind # "positive" => result' = Handed(call, m)
    BY <2>4, HandedOver
  <2>6. CASE Storming
    <3>1. m = Wait(call)
      <4>1. 1 \in 1..Len(ring) /\ m = ring[1]
        BY <1>0, <1>2, EmptySeq DEF m
      <4> QED BY <2>6, <4>1 DEF Storming
    <3> QED BY <1>2, <2>3, <2>5, <2>6, <3>1, WordsAre DEF Storming
  <2>7. CASE Promised
    <3>1. PICK q \in Seq(Messages) : /\ q = ring \o ecu[call.ecu].says
                                     /\ q # << >> /\ Head(q) = m
      <4>1. PICK r \in Seq(Messages), s \in Seq(Messages) :
              r = ring /\ s = ecu[call.ecu].says /\ r # << >> /\ Head(r) = m
        BY <1>0, <1>2 DEF Heard, m
      <4>2. r \o s \in Seq(Messages) /\ r \o s # << >> /\ Head(r \o s) = Head(r)
        <5>1. Len(r) \in Nat \ {0} /\ 1 \in 1..Len(r)
          BY <4>1, EmptySeq
        <5>2. /\ r \o s \in Seq(Messages) /\ Len(r \o s) = Len(r) + Len(s) /\ Len(s) \in Nat
              /\ (r \o s)[1] = r[1]
          BY <5>1, Joined
        <5>3. Len(r \o s) # 0
          BY <5>1, <5>2
        <5>4. PICK z \in Seq(Messages) : z = r \o s /\ z # << >>
          <6>1. PICK z \in Seq(Messages) : z = r \o s
            BY <5>2
          <6>2. z # << >>
            BY <5>3, <6>1
          <6> QED BY <6>1, <6>2
        <5>5. Head(z) = z[1] /\ Head(r) = r[1]
          OBVIOUS
        <5> QED BY <5>2, <5>4, <5>5
      <4> QED BY <4>1, <4>2
    <3>2. Due(call, pending, pids, truth, q)
      BY <2>7, <3>1 DEF Promised
    <3>3. CASE m = Wait(call) /\ pending < MaxPending
      <4>1. Swallow(m)
        BY <1>2, <3>3, WordsAre DEF Swallow
      <4> QED BY <2>4, <4>1
    <3>4. CASE m = Wait(call) /\ truth = Handed(call, Wait(call))
      BY <1>2, <2>3, <2>5, <3>4, WordsAre
    <3>5. CASE m = No(call) /\ truth = Handed(call, No(call))
      BY <1>2, <2>3, <2>5, <3>5, WordsAre
    <3>6. CASE /\ call.op \notin {"teardown", "quiet", "enumerate"}
               /\ m = Yes(call) /\ truth = Outcome("Ok", Yes(call), << >>)
      BY <1>2, <2>3, <2>4, <3>6, TakenOver
    <3>7. CASE call.op = "enumerate" /\ \E es \in Seq(Entry) : m = Message("positive", call, Encode(es))
      <4>1. m.kind = "positive"
        BY <3>7 DEF Message
      <4> QED BY <2>4, <3>7, <4>1
    <3>8. \/ m = Wait(call) /\ pending < MaxPending
          \/ m = Wait(call) /\ truth = Handed(call, Wait(call))
          \/ m = No(call) /\ truth = Handed(call, No(call))
          \/ /\ call.op \notin {"teardown", "quiet", "enumerate"}
             /\ m = Yes(call) /\ truth = Outcome("Ok", Yes(call), << >>)
          \/ call.op = "enumerate" /\ \E es \in Seq(Entry) : m = Message("positive", call, Encode(es))
      <4>1. \/ Head(q) = Wait(call) /\ pending < MaxPending /\ Due(call, pending + 1, pids, truth, Tail(q))
            \/ Head(q) = Wait(call) /\ pending = MaxPending /\ truth = Handed(call, Wait(call))
            \/ Head(q) = No(call) /\ truth = Handed(call, No(call))
            \/ /\ call.op \notin {"teardown", "quiet", "enumerate"}
               /\ Head(q) = Yes(call) /\ truth = Outcome("Ok", Yes(call), << >>)
            \/ /\ call.op = "enumerate"
               /\ \E es \in Seq(Entry) :
                    /\ Head(q) = Message("positive", call, Encode(es)) /\ pids \o Listed(es) \in Lists
                    /\ Due(call, pending, pids \o Listed(es), truth, Tail(q))
        BY <1>2, <3>1, <3>2, DueNext, Zenon
      <4> QED BY <3>1, <4>1
    <3> QED BY <3>3, <3>4, <3>5, <3>6, <3>7, <3>8, Zenon
  <2> QED BY <2>3, <2>6, <2>7 DEF OnTime
<1>4. CASE pc' = "waiting"
  <2>1. Fresh' /\ Expects' /\ Settles'
    BY <1>0, <1>4 DEF Fresh, Expects, Settles
  <2> SUFFICES ASSUME ~trouble' PROVE OnTime'
    BY <2>1 DEF WaitsOnTime
  <2>3. OnTime
    BY <1>0 DEF WaitsOnTime
  <2>4. counted' /\ filter' = key' /\ \A e \in Ecus : e # call'.ecu => ecu'[e].says = << >>
    BY <1>0, <2>3 DEF OnTime
  <2>5. PICK r \in Seq(Messages), s \in Seq(Messages) :
          r = ring /\ s = ecu[call.ecu].says /\ r # << >> /\ Head(r) = m /\ ring' = Tail(r)
    BY <1>0, <1>2 DEF Heard, m
  <2>6. /\ Len(r) \in Nat \ {0} /\ 1 \in 1..Len(r) /\ Head(r) = r[1] /\ Tail(r) \in Seq(Messages)
        /\ Len(Tail(r)) = Len(r) - 1 /\ \A i \in 1..Len(Tail(r)) : Tail(r)[i] = r[i + 1]
    BY <2>5, EmptySeq, HeadTailProperties
  <2>7. CASE Storming
    <3>1. \A i \in 1..Len(ring') : ring'[i] = Wait(call)
      <4>1. \A i \in 1..Len(Tail(r)) : i + 1 \in 1..Len(r)
        BY <2>6
      <4>2. \A i \in 1..Len(r) : r[i] = Wait(call)
        BY <2>5, <2>7 DEF Storming
      <4> QED BY <2>5, <2>6, <4>1, <4>2
    <3>2. Storming'
      BY <1>0, <2>7, <3>1 DEF Storming
    <3> QED BY <2>4, <3>2 DEF OnTime
  <2>8. CASE Promised
    <3>1. PICK q \in Seq(Messages) : q = r \o s /\ q # << >> /\ Head(q) = m /\ Tail(q) = Tail(r) \o s
      <4>1. <<m>> \in Seq(Messages) /\ r = <<m>> \o Tail(r)
        BY <2>5, <2>6
      <4>2. PICK z \in Seq(Messages) : z = Tail(r) \o s
        BY <2>6, Joined
      <4>3. r \o s = <<m>> \o z
        <5>1. PICK x \in Seq(Messages), y \in Seq(Messages) : x = <<m>> /\ y = Tail(r)
          BY <2>6, <4>1
        <5>2. (x \o y) \o s = x \o (y \o s)
          BY ConcatAssociative
        <5> QED BY <4>1, <4>2, <5>1, <5>2, Zenon
      <4>4. <<m>> \o z \in Seq(Messages) /\ <<m>> \o z # << >> /\ Head(<<m>> \o z) = m /\ Tail(<<m>> \o z) = z
        BY <4>1
      <4> QED BY <4>2, <4>3, <4>4, Zenon
    <3>2. Due(call, pending, pids, truth, q)
      BY <2>5, <2>8, <3>1 DEF Promised
    <3>22. ~ecu'[call'.ecu].storm /\ call' = call /\ truth' = truth /\ ring' \o ecu'[call'.ecu].says = Tail(q)
      BY <1>0, <2>5, <2>8, <3>1 DEF Promised
    <3>3. CASE m = Wait(call) /\ pending < MaxPending /\ Due(call, pending + 1, pids, truth, Tail(q))
      <4>1. Swallow(m) /\ Passes(m)
        BY <1>2, <3>3, WordsAre DEF Swallow, Passes
      <4>2. pending' = pending + 1 /\ pids' = pids
        BY <1>1, <4>1 DEF OneMore
      <4>3. Promised'
        BY <3>3, <3>22, <4>2, Zenon DEF Promised
      <4> QED BY <2>4, <4>3 DEF OnTime
    <3>4. m \in {Wait(call), No(call)} => Passes(m) /\ m.kind # "positive"
      BY <1>2, WordsAre DEF Passes
    <3>5. CASE m = Wait(call) /\ pending = MaxPending
      <4>1. ~Swallow(m)
        BY <1>2, <3>5, DiagAssumption DEF Swallow, DiagAssumption
      <4>2. pc' = "idle"
        BY <1>1, <3>4, <3>5, <4>1 DEF Return, chunk
      <4> QED BY <1>4, <4>2
    <3>6. CASE m = No(call)
      <4>1. ~Swallow(m)
        BY <1>2, <3>6, WordsAre DEF Swallow
      <4>2. pc' = "idle"
        BY <1>1, <3>4, <3>6, <4>1 DEF Return, chunk
      <4> QED BY <1>4, <4>2
    <3>7. CASE call.op \notin {"teardown", "quiet", "enumerate"} /\ m = Yes(call)
      <4>1. ~Swallow(m) /\ Passes(m)
        BY <1>2, <3>7, WordsAre DEF Swallow, Passes
      <4>2. pc' = "idle"
        BY <1>1, <3>7, <4>1 DEF Return
      <4> QED BY <1>4, <4>2
    <3>8. CASE /\ call.op = "enumerate"
               /\ \E es \in Seq(Entry) :
                    /\ m = Message("positive", call, Encode(es)) /\ pids \o Listed(es) \in Lists
                    /\ Due(call, pending, pids \o Listed(es), truth, Tail(q))
      <4>1. PICK es \in Seq(Entry) :
              /\ m = Message("positive", call, Encode(es))
              /\ Due(call, pending, pids \o Listed(es), truth, Tail(q))
        BY <3>8
      <4>2. /\ m.kind = "positive" /\ m.sid = "enumerate" /\ m.id = call.id /\ m.from = call.ecu
            /\ m.body = Encode(es)
        BY <3>8, <4>1 DEF Message, Service
      <4>3. chunk /\ Passes(m) /\ ~Swallow(m)
        BY <1>2, <4>2 DEF chunk, Passes, Swallow
      <4>4. pids' = pids \o Listed(es) /\ pending' = pending
        BY <1>1, <3>8, <4>2, <4>3, RoundTrip
      <4>5. Promised'
        BY <3>22, <4>1, <4>4, Zenon DEF Promised
      <4> QED BY <2>4, <4>5 DEF OnTime
    <3> QED BY <1>2, <3>1, <3>2, <3>3, <3>5, <3>6, <3>7, <3>8, DueNext, Zenon
  <2> QED BY <2>3, <2>7, <2>8 DEF OnTime
<1>5. pc' \in {"idle", "waiting"}
  BY <1>0, <1>1 DEF Return, Skip
<1> QED BY <1>3, <1>4, <1>5

LEMMA TimesOutOnTime ==
  ASSUME Punctual, TimesOut
  PROVE  Fresh' /\ Expects' /\ Settles' /\ WaitsOnTime'
<1>0. /\ pc = "waiting" /\ ring = << >> /\ UNCHANGED <<call, truth>> /\ Typed /\ Expects /\ WaitsOnTime
      /\ pc' = "idle" /\ pending' = 0 /\ pids' = << >>
      /\ trouble' = (trouble \/ \E e \in Ecus : ecu[e].says # << >>)
  BY DEF TimesOut, Punctual, carVars, Return
<1>1. Fresh' /\ Expects' /\ WaitsOnTime'
  BY <1>0 DEF Fresh, Expects, WaitsOnTime
<1> SUFFICES ASSUME ~trouble' PROVE result' = truth
  BY <1>0, <1>1 DEF Settles
<1>2. ~trouble /\ \A e \in Ecus : ecu[e].says = << >>
  BY <1>0, TypedHost
<1>3. /\ call \in Calls /\ pending \in 0..MaxPending /\ pids \in Lists /\ call.ecu \in Ecus
      /\ call.op # "teardown"
  BY <1>0, TypedHost DEF Expects
<1>4. counted /\ (Storming \/ Promised)
  BY <1>0, <1>2 DEF WaitsOnTime, OnTime
<1>5. ~Storming
  <2>1. <<Wait(call)>> # << >>
    OBVIOUS
  <2> QED BY <1>2, <1>3, <2>1 DEF Storming
<1>6. Due(call, pending, pids, truth, << >>)
  <2>1. ring \o ecu[call.ecu].says = << >>
    BY <1>0, <1>2, <1>3
  <2> QED BY <1>4, <1>5, <2>1 DEF Promised
<1>7. truth = Silence(call, pids)
  BY <1>3, <1>6, DueEnd
<1>8. result' = Silence(call, pids)
  BY <1>4 DEF TimesOut, Return, Silence
<1> QED BY <1>7, <1>8

LEMMA InitPunctual == Init => Punctual
<1> SUFFICES ASSUME Init PROVE Punctual
  OBVIOUS
<1>1. Fresh /\ Expects /\ Settles /\ WaitsOnTime
  BY DEF Init, Fresh, Expects, Settles, WaitsOnTime, NoCall
<1> QED BY <1>1, InitTyped DEF Punctual

LEMMA StepPunctual == Punctual /\ [Next]_vars => Punctual'
<1> SUFFICES ASSUME Punctual, [Next]_vars PROVE Fresh' /\ Expects' /\ Settles' /\ WaitsOnTime'
  BY StepTyped DEF Punctual
<1>0. Fresh /\ Expects /\ Settles /\ WaitsOnTime /\ Typed
  BY DEF Punctual
<1>1. CASE UNCHANGED vars
  BY <1>0, <1>1 DEF vars, hostVars, carVars, Fresh, Expects, Settles, WaitsOnTime, OnTime, Storming, Promised
<1>2. CASE Open
  BY <1>0, <1>2 DEF Open, NoFault, Fault, carVars, Fresh, Expects, Settles, WaitsOnTime
<1>3. CASE Close
  BY <1>0, <1>3 DEF Close, carVars, Fresh, Expects, Settles, WaitsOnTime
<1>4. CASE \E e \in Ecus : Speak(e)
  BY <1>4, SpeakOnTime
<1>5. CASE \E e \in Ecus : SetEndpoints(e)
  <2>1. PICK e \in Ecus : SetEndpoints(e)
    BY <1>5
  <2>2. /\ pc = "idle" /\ UNCHANGED <<pc, call, pending, pids, result, truth>>
        /\ trouble' \in {trouble, TRUE}
    BY <2>1 DEF SetEndpoints, NoFault, Fault, carVars
  <2> QED BY <1>0, <2>2 DEF Fresh, Expects, Settles, WaitsOnTime
<1>6. CASE Ask
  BY <1>0, <1>6 DEF Ask, Begin, Return, Fault, Fresh, Expects, Settles, WaitsOnTime
<1>7. CASE Send
  BY <1>7, SendOnTime
<1>8. CASE Receive
  BY <1>8, ReceiveOnTime
<1>9. CASE TimesOut
  BY <1>9, TimesOutOnTime
<1>10. CASE PortFails
  BY <1>10 DEF PortFails, Fault, Return, Fresh, Expects, Settles, WaitsOnTime
<1> QED BY <1>1, <1>2, <1>3, <1>4, <1>5, <1>6, <1>7, <1>8, <1>9, <1>10 DEF Next

\* A call that begins when all is quiet and whose ECU answers in time returns
\* what the ECU has to say, be it an answer behind announcements, a refusal,
\* silence, announcements for ever or a list in any number of messages
\* (isotp/mod.rs:39-62, toyota_can.rs:107-152).
THEOREM PunctualAnswersAlways == Spec => []PunctualAnswers
<1>1. Punctual => PunctualAnswers
  BY DEF Punctual, Settles, PunctualAnswers
<1> QED BY <1>1, InitPunctual, StepPunctual, PTL DEF Spec
=============================================================================
