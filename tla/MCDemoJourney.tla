--------------------------- MODULE MCDemoJourney ---------------------------
(* Instances of DemoJourney for TLC. *)
EXTENDS DemoJourney, TLC

Symmetry == Permutations(Run) \cup Permutations(Session)

=============================================================================
