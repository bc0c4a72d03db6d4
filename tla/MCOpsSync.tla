----------------------------- MODULE MCOpsSync ------------------------------
(* Small instances of the shared operations ledger for TLC. *)
EXTENDS OpsSync, TLC

\* Web instances are interchangeable.
FleetSymmetry == Permutations(Instances)

=============================================================================
