----------------------------- MODULE MCWorldEntry -----------------------------
(* Instances of WorldEntry for TLC. *)
EXTENDS WorldEntry, TLC

CONSTANTS hero, alt, ann, ben

OneAccount == hero :> ann @@ alt :> ann

Symmetry == Permutations(Peers) \cup Permutations(Characters)
=============================================================================
