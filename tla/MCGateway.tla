------------------------------ MODULE MCGateway ------------------------------
(* Small instances of Gateway for TLC. *)
EXTENDS GatewayProperties, TLC

Symmetry == Permutations(Runs) \cup Permutations(Jobs) \cup Permutations(Users)
=============================================================================
