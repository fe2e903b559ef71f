----------------------------- MODULE MCConnection -----------------------------
(* Instance of Connection for TLC: the slots are interchangeable.          *)
EXTENDS Connection, TLC

SlotSymmetry == Permutations(Slot)

=============================================================================
