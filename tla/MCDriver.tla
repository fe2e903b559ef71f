------------------------------- MODULE MCDriver -------------------------------
(* Instances of Driver for TLC: the slots are interchangeable.             *)
EXTENDS Driver, TLC

SlotSymmetry == Permutations(Slot)

=============================================================================
