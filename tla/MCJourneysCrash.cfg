\* A process that ends while a returned player is connected.
SPECIFICATION StaySpec
CONSTANTS
  None = None
  Characters = {ann, ben}
  Peers = {p1, p2}
  Places = {gate, field}
  Spawn = gate
  Window = 1
  MaxTime = 4
  MaxJourneys = 3
  MaxFailures = 0
SYMMETRY Symmetry
INVARIANT CrashedPlayersReturn
