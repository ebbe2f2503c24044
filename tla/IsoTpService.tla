---------------------------- MODULE IsoTpService ----------------------------
(***************************************************************************)
(* What the receiving side of IsoTp promises its caller over a bus that    *)
(* loses frames: a call returns with an error or with one whole message of *)
(* the ECU, each message at most once, and messages in the order in which  *)
(* the ECU began them.                                                     *)
(***************************************************************************)
EXTENDS Naturals, Sequences

VARIABLES
  busy,     \* a call is in progress
  said,     \* messages the ECU began that are not passed yet
  result    \* what the last call returned

vars == <<busy, said, result>>

Init == busy = FALSE /\ said = << >> /\ result = [err |-> "none", data |-> << >>]

\* The ECU begins a message.
Say ==
  /\ Len(said') = Len(said) + 1
  /\ SubSeq(said', 1, Len(said)) = said
  /\ UNCHANGED <<busy, result>>

Call == ~busy /\ busy' = TRUE /\ UNCHANGED <<said, result>>

\* A call fails, or never begins.
Fail ==
  /\ busy' = FALSE
  /\ result'.err \notin {"none", "ok"} /\ result'.data = << >>
  /\ UNCHANGED said

\* A send returns, with nothing to hand over.
Sent ==
  /\ busy /\ busy' = FALSE
  /\ result' = [err |-> "ok", data |-> << >>]
  /\ UNCHANGED said

\* A message is handed over; those begun before it never will be.
Deliver ==
  /\ busy /\ busy' = FALSE
  /\ \E i \in DOMAIN said :
       /\ result' = [err |-> "ok", data |-> said[i]]
       /\ said' = SubSeq(said, i + 1, Len(said))

Next == Say \/ Call \/ Fail \/ Sent \/ Deliver

Spec == Init /\ [][Next]_vars
=============================================================================
