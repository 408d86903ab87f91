------------------------------ MODULE MCFrontier ------------------------------
(* Instances of Frontier for TLC. *)
EXTENDS Frontier, TLC

CONSTANTS p1, p2, north, south

\* the template around the south side can not be entered there
NorthFallback == north :> {north} @@ south :> {}

\* two players who each get one presentation, or one who gets several
TwoOrOne ==
  {[traces |-> p1 :> 1 @@ p2 :> 1, faults |-> 1], [traces |-> p1 :> 2 @@ p2 :> 0, faults |-> 2]}
=============================================================================
