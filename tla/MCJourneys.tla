------------------------------ MODULE MCJourneys ------------------------------
(* Instances of Journeys for TLC. *)
EXTENDS Journeys, TLC

Symmetry == Permutations(Characters) \cup Permutations(Peers)
=============================================================================
