------------------------------ MODULE MCReceive -----------------------------
(* The instance of Receive for TLC: every peer sends as much.              *)
EXTENDS Receive

CONSTANTS BytesEach, FdsEach     \* what each peer sends

Traffic == [c \in Conn |-> BytesEach]
Files == [c \in Conn |-> FdsEach]

=============================================================================
