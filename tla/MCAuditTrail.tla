---------------------------- MODULE MCAuditTrail ----------------------------
(* Small instances of the audit trail for TLC. *)
EXTENDS AuditTrail, TLC

\* Order ids and request handlers are interchangeable.
TrailSymmetry == Permutations(Orders) \cup Permutations(Requests)

=============================================================================
