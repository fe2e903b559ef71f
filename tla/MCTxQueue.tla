------------------------------ MODULE MCTxQueue ------------------------------
(* The instance of TxQueue for TLC: one busy connection and one that says   *)
(* little.                                                                  *)
EXTENDS TxQueue

CONSTANTS busy, quiet

Connections == {busy, quiet}
Traffic == [q \in Connections |-> IF q = busy THEN 6 ELSE 1]

TxSymmetry == Permutations(Block) \cup Permutations(Fd)

=============================================================================
