--------------------------- MODULE MCCasework ---------------------------
(* Instances of Casework for TLC. *)
EXTENDS Casework, TLC

Symmetry == Permutations(Client) \cup Permutations(Case) \cup Permutations(IdempotencyKey)
=============================================================================
