------------------------------ MODULE Delivery ------------------------------
(***************************************************************************)
(* What the receive side promises the application: the messages that the   *)
(* peer posted, in the order in which it posted them, each with its bytes  *)
(* and its descriptors and neither lost, repeated nor mixed with others.   *)
(* The application may be handed fewer than were posted, never others.     *)
(***************************************************************************)
EXTENDS Naturals, Sequences

CONSTANTS Conn, Outcome

VARIABLES posted,    \* posted[c]: the messages the peer of c posted
          handed     \* handed[c]: what became of the first of them

vars == <<posted, handed>>

Init == /\ posted = [c \in Conn |-> <<>>]
        /\ handed = [c \in Conn |-> <<>>]

\* The peer posts one message after those it posted before.
Post(c) ==
  /\ Len(posted'[c]) = Len(posted[c]) + 1
  /\ posted' = [posted EXCEPT ![c] = Append(@, posted'[c][Len(@) + 1])]
  /\ UNCHANGED handed

\* The oldest message that was not handed over is.
Hand(c, outcome) ==
  /\ Len(handed[c]) < Len(posted[c])
  /\ handed' = [handed EXCEPT ![c] =
       Append(@, [message |-> posted[c][Len(@) + 1], outcome |-> outcome])]
  /\ UNCHANGED posted

Next == \E c \in Conn : Post(c) \/ \E o \in Outcome : Hand(c, o)

Spec == Init /\ [][Next]_vars

=============================================================================
