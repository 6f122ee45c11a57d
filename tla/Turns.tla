------------------------------- MODULE Turns -------------------------------
(***************************************************************************)
(* What the inbound path of one chat promises its AI agent, without        *)
(* replicas, Redis, timers or locks: every message of the customer goes     *)
(* through the stages below at most once and never backwards.  Messages     *)
(* are held and handed over together, as one coalesced turn, or lost.       *)
(* Module Inbound implements it.                                            *)
(***************************************************************************)
CONSTANT Messages

VARIABLE fate

Fates == {"new", "open", "held", "turned", "lost"}

(* Some messages go from one of the stages in From to another one, all at
   once; the others stay where they are.                                    *)
Moves(From, to) ==
  /\ fate' \in [Messages -> Fates]
  /\ \A m \in Messages : fate'[m] # fate[m] => fate[m] \in From /\ fate'[m] = to

Init == fate = [m \in Messages |-> "new"]

Next ==
  \/ Moves({"new"}, "open")           \* part of the conversation
  \/ Moves({"open"}, "held")          \* waits for a pause in the customer's typing
  \/ Moves({"held"}, "turned")        \* handed to the agent as one turn
  \/ Moves({"open", "held"}, "lost")  \* a person has the chat, or a fault

Spec == Init /\ [][Next]_fate
=============================================================================
