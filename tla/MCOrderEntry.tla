---------------------------- MODULE MCOrderEntry ----------------------------
(* Small instances of the web order path for TLC. *)
EXTENDS OrderEntry

=============================================================================
