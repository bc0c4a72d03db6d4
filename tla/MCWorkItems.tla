----------------------------- MODULE MCWorkItems -----------------------------
(* A small instance of the work queue for TLC. *)
EXTENDS WorkItems, TLC

=============================================================================
