----------------------------- MODULE AtLeastOnce -----------------------------
(***************************************************************************)
(* What a topic with `ack_required` promises a consumer group, apart from  *)
(* how the work is shared between the group's members: messages get the    *)
(* next offset, a message is settled for a group only after the group has  *)
(* handled it, and neither is ever undone.                                 *)
(***************************************************************************)
EXTENDS Naturals

CONSTANT Group    \* consumer groups

VARIABLES
  top,            \* the highest offset; offsets start at 1 and have no gaps
  handled,        \* per group, the offsets some member has handled
  settled         \* per group, the offsets no member will be given again

logvars == <<top, handled, settled>>

LogInit ==
  /\ top = 0
  /\ handled = [g \in Group |-> {}]
  /\ settled = [g \in Group |-> {}]

Publish ==
  /\ top' = top + 1
  /\ UNCHANGED <<handled, settled>>

\* A message may be handled again, even once it is settled.
Handle(g) ==
  /\ \E o \in 1 .. top : handled' = [handled EXCEPT ![g] = @ \cup {o}]
  /\ UNCHANGED <<top, settled>>

Settle(g) ==
  /\ \E o \in handled[g] : settled' = [settled EXCEPT ![g] = @ \cup {o}]
  /\ UNCHANGED <<top, handled>>

LogNext == Publish \/ \E g \in Group : Handle(g) \/ Settle(g)

LogSpec == LogInit /\ [][LogNext]_logvars
==============================================================================
