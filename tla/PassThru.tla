------------------------------ MODULE PassThru ------------------------------
(***************************************************************************)
(* What the PassThru exports promise an application with several threads:  *)
(* every call takes effect at one instant between its start and its        *)
(* return, on a table that says of each device slot whether it is free,    *)
(* open, or open with a channel, and its code tells what the table held.   *)
(***************************************************************************)
EXTENDS Naturals

CONSTANTS Threads, Slots

VARIABLES
  table,    \* [Slots -> {"free", "open", "raw", "host"}]
  asked,    \* each thread's call: its operation, its slot and, for a message
            \* call, whether the channel of that slot changed since it began
  code      \* what its last call returned

vars == <<table, asked, code>>

DeviceOps  == {"Close", "Connect", "Command"}
MessageOps == {"StartFilter", "StopFilter", "Write", "Read"}
ChannelOps == MessageOps \cup {"Disconnect", "Ioctl", "StartPeriodic"}

\* The channels an operation works on: host channels know only messages.
Serves(op) == IF op \in MessageOps \cup {"Disconnect"} THEN {"raw", "host"} ELSE {"raw"}

NoCall == [op |-> "None", slot |-> 0, moved |-> FALSE]

Init ==
  /\ table = [s \in Slots |-> "free"]
  /\ asked = [t \in Threads |-> NoCall]
  /\ code = [t \in Threads |-> "Ok"]

Ask(t) ==
  /\ asked[t] = NoCall
  /\ asked'[t].op \in DeviceOps \cup ChannelOps \cup {"Open"}
  /\ asked'[t].slot \in Slots
  /\ asked' = [asked EXCEPT ![t] = [op |-> asked'[t].op, slot |-> asked'[t].slot,
                                    moved |-> FALSE]]
  /\ code' = [code EXCEPT ![t] = "Pending"]
  /\ UNCHANGED table

\* The call of t ends, and with it what the slots held that it changed.
Return(t, c, changed) ==
  /\ code' = [code EXCEPT ![t] = c]
  /\ asked' = [u \in Threads |->
       IF u = t THEN NoCall
       ELSE [asked[u] EXCEPT !.moved =
               @ \/ (asked[u].op \in MessageOps /\ asked[u].slot \in changed)]]

\* An answer that changes nothing.
Answer(t) ==
  LET op  == asked[t].op
      has == table[asked[t].slot]
      c   == code'[t]
  IN
  /\ \/ c \in {"Param", "Failed"}
     \/ c = "InvalidDevice" /\ op \in DeviceOps /\ has = "free"
     \/ /\ c = "InvalidChannel" /\ op \in ChannelOps
        /\ has \notin Serves(op) \/ asked[t].moved
     \/ c = "Error" /\ op = "Open"
     \/ /\ c \in {"Ok", "Error", "Empty", "EmptyNoFilter", "InvalidFilter"}
        /\ \/ op = "Command" /\ has # "free"
           \/ op \in ChannelOps \ {"Disconnect"} /\ has \in Serves(op)
  /\ Return(t, c, {})
  /\ UNCHANGED table

Opened(t) ==
  /\ asked[t].op = "Open"
  /\ \E s \in Slots :
       /\ table[s] = "free" /\ \A r \in Slots : r < s => table[r] # "free"
       /\ table' = [table EXCEPT ![s] = "open"]
  /\ Return(t, "Ok", {})

Closed(t) ==
  LET s == asked[t].slot IN
  /\ asked[t].op = "Close" /\ table[s] # "free"
  /\ table' = [table EXCEPT ![s] = "free"]
  /\ Return(t, "Ok", {s})

Disconnected(t) ==
  LET s == asked[t].slot IN
  /\ asked[t].op = "Disconnect" /\ table[s] \in {"raw", "host"}
  /\ table' = [table EXCEPT ![s] = "open"]
  /\ Return(t, "Ok", {s})

\* The channel there was is gone, whether or not a new one takes its place.
Connected(t) ==
  LET s == asked[t].slot IN
  /\ asked[t].op = "Connect" /\ table[s] # "free"
  /\ \/ /\ table'[s] \in {"raw", "host"}
        /\ table' = [table EXCEPT ![s] = table'[s]]
        /\ Return(t, "Ok", {s})
     \/ table' = [table EXCEPT ![s] = "open"] /\ Return(t, "Error", {s})

Next ==
  \E t \in Threads :
    \/ Ask(t)
    \/ asked[t] # NoCall /\ (Answer(t) \/ Opened(t) \/ Closed(t)
                             \/ Disconnected(t) \/ Connected(t))

Spec == Init /\ [][Next]_vars
=============================================================================
