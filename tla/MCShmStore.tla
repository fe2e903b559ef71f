----------------------------- MODULE MCShmStore -------------------------------
(* An instance of ShmStore for TLC.                                        *)
EXTENDS ShmStore, TLC

ShmSymmetry == Permutations(Pool) \union Permutations(Buffer)
                 \union Permutations(Pin) \union Permutations(Scope)

=============================================================================
