---------------------------- MODULE MCRiskGateway ----------------------------
(* Small instances of the risk gateway for TLC. *)
EXTENDS RiskGateway, TLC

\* Order ids and symbols are interchangeable.
DeskSymmetry == Permutations(Orders) \cup Permutations(Symbols)

=============================================================================
