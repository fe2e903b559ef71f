------------------------------ MODULE MCRegistry ------------------------------
(* The instance of Registry for TLC.                                       *)
EXTENDS Registry

\* Every peer sees every global, except the first that does not see the
\* first.
MostVisible == (Peer \X Global) \ {<<0, 1>>}

=============================================================================
