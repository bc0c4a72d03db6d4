---------------------------- MODULE MCDeskReads -----------------------------
(* Small instances of the desk's reads for TLC. *)
EXTENDS DeskReads

=============================================================================
