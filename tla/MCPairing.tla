----------------------------- MODULE MCPairing -----------------------------
(* Small instances of Pairing and Setup for TLC. *)
EXTENDS Setup, TLC

Symmetry == Permutations(Clients \ {Wizard}) \cup Permutations(Users) \cup Permutations(Texts)
=============================================================================
