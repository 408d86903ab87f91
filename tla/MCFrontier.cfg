\* One sector entered from two sides, two players with one presentation each or one with
\* several, one mutation, and one thing that goes wrong.
SPECIFICATION Spec
CONSTANTS
  p1 = p1
  p2 = p2
  Peers = {p1, p2}
  Characters = {ann, ben}
  north = north
  south = south
  Sides = {north, south}
  Fallback <- NorthFallback
  Budgets <- TwoOrOne
  Followed = p1
  MaxRevision = 1
  None = None
INVARIANT CanonStands
PROPERTIES ReadinessIsEarned FrontierOpens
CHECK_DEADLOCK FALSE
