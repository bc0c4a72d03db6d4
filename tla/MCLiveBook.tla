----------------------------- MODULE MCLiveBook -----------------------------
(* Small instances of a live venue for TLC. *)
EXTENDS LiveBook

=============================================================================
