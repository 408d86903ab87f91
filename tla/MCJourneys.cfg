\* Two characters, two peers, three journeys, a window of one second, and one call
\* with failing writes.
SPECIFICATION StaySpec
CONSTANTS
  None = None
  Characters = {ann, ben}
  Peers = {p1, p2}
  Places = {gate, field}
  Spawn = gate
  Window = 1
  MaxTime = 3
  MaxJourneys = 3
  MaxFailures = 1
SYMMETRY Symmetry
INVARIANTS HolderKeepsJourney ReturnsWithinWindow TableMirrorsMemory
PROPERTY LateReturnsStartAnew
