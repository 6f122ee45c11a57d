------------------------------ MODULE Outcome -------------------------------
(***************************************************************************)
(* What the dispatch path promises the sender of a message, without the    *)
(* broker, the rows, the processes and their calls: the channels of a      *)
(* message are tried in their order, each only after all before it were    *)
(* refused or skipped; a message is taken no more often than there were    *)
(* lives of a process; and the sender is told "sent" or "failed" only of   *)
(* what happened.  Module Dispatch implements it.                          *)
(***************************************************************************)
EXTENDS Integers

CONSTANTS Traces,       \* the messages
          NumChannels,  \* channels of a message
          Registered,   \* positions whose channel can take a message
          Expiring,     \* messages that may be given up for their age
          Processes     \* number of server processes

VARIABLES refused,   \* refused[t]: positions refused or skipped
          sends,     \* sends[t]: how often t was taken
          told,      \* told[t]: what the sender was told of t's end
          restarts

Channels == 0 .. NumChannels - 1
Ends     == {"sent", "failed"}

Init ==
  /\ refused = [t \in Traces |-> {}]
  /\ sends = [t \in Traces |-> 0]
  /\ told = [t \in Traces |-> {}]
  /\ restarts = 0

\* All channels before p have had their turn.
Reached(t, p) == \A q \in Channels : q < p => q \in refused[t]

Refuse(t, p) ==
  /\ Reached(t, p)
  /\ refused' = [refused EXCEPT ![t] = @ \cup {p}]
  /\ UNCHANGED <<sends, told, restarts>>

Take(t, p) ==
  /\ p \in Registered
  /\ Reached(t, p)
  /\ sends[t] < Processes + restarts
  /\ sends' = [sends EXCEPT ![t] = @ + 1]
  /\ UNCHANGED <<refused, told, restarts>>

\* A channel that cannot take messages counts as success once it is reached.
MaySay(t, end) ==
  \/ /\ end = "sent"
     /\ sends[t] > 0 \/ \E p \in Channels \ Registered : Reached(t, p)
  \/ /\ end = "failed"
     /\ t \in Expiring \/ refused[t] = Channels

Tell(t, end) ==
  /\ MaySay(t, end)
  /\ told' = [told EXCEPT ![t] = @ \cup {end}]
  /\ UNCHANGED <<refused, sends, restarts>>

Restart ==
  /\ restarts' = restarts + 1
  /\ UNCHANGED <<refused, sends, told>>

Next ==
  \/ \E t \in Traces, p \in Channels : Refuse(t, p) \/ Take(t, p)
  \/ \E t \in Traces, end \in Ends : Tell(t, end)
  \/ Restart

Spec == Init /\ [][Next]_<<refused, sends, told, restarts>>
=============================================================================
