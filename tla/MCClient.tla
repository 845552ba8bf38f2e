----------------------------- MODULE MCClient -----------------------------
(* Instances of Client for TLC. *)
EXTENDS Client, TLC

CONSTANTS a, b

ServerSymmetry == Permutations(Server)

=============================================================================
