--------------------------- MODULE MCSessionLedger ---------------------------
(* Small instances of the session ledger for TLC. *)
EXTENDS SessionLedger, TLC

\* Fills are interchangeable.
FillSymmetry == Permutations(Fills)

=============================================================================
