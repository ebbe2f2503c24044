--------------------------- MODULE DeviceService ---------------------------
(***************************************************************************)
(* What a Device promises the threads that share it, with no actor, wire   *)
(* or adapter in sight: calls are answered one at a time, in the order     *)
(* they were made and exactly once, none is answered "session closed", and *)
(* the session closes when everybody has left.                             *)
(***************************************************************************)
EXTENDS Naturals, Sequences

CONSTANTS Callers, Outcomes

VARIABLES phase,    \* "opening", "open" or "closed"
          live,     \* the callers that hold a handle
          line,     \* the callers waiting, in the order of their calls
          result    \* what each caller's last call returned, or "pending"

vars == <<phase, live, line, result>>

Init ==
  /\ phase = "opening" /\ live = {} /\ line = <<>>
  /\ result = [c \in Callers |-> "Ok"]

\* Device::open returns a handle, which is cloned, or an error.
Open ==
  /\ phase = "opening"
  /\ \/ phase' = "open" /\ live' = Callers
     \/ phase' = "closed" /\ UNCHANGED live
  /\ UNCHANGED <<line, result>>

Call(c) ==
  /\ c \in live /\ result[c] # "pending"
  /\ result' = [result EXCEPT ![c] = "pending"]
  /\ line' = Append(line, c)
  /\ UNCHANGED <<phase, live>>

Answer ==
  /\ line # <<>>
  /\ \E o \in Outcomes : result' = [result EXCEPT ![Head(line)] = o]
  /\ line' = Tail(line)
  /\ UNCHANGED <<phase, live>>

Leave(c) ==
  /\ c \in live /\ result[c] # "pending"
  /\ live' = live \ {c}
  /\ UNCHANGED <<phase, line, result>>

Close ==
  /\ phase = "open" /\ live = {} /\ line = <<>>
  /\ phase' = "closed"
  /\ UNCHANGED <<live, line, result>>

Next == Open \/ Answer \/ Close \/ \E c \in Callers : Call(c) \/ Leave(c)

Spec == Init /\ [][Next]_vars

\* The service itself never stops; when a caller calls or leaves is its own
\* business.
FairSpec == Spec /\ WF_vars(Open) /\ WF_vars(Answer) /\ WF_vars(Close)

=============================================================================
