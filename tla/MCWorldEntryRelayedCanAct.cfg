\* A world entry with the relay.
SPECIFICATION Spec
CONSTANTS
  None = None
  hero = hero
  alt = alt
  ann = ann
  ben = ben
  Characters = {hero, alt}
  Accounts = {ann}
  OwnerOf <- OneAccount
  Peers = {p1, p2}
  Places = {gate}
  Spawn = gate
  Window = 1
  MaxTime = 2
  MaxJourneys = 2
  MaxFailures = 0
  RelayStarts = TRUE
  MaxEpoch = 3
SYMMETRY Symmetry
INVARIANT RelayedCanAct
