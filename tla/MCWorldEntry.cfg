\* An account with two characters and one with none, two peers, and the relay.
SPECIFICATION Spec
CONSTANTS
  None = None
  hero = hero
  alt = alt
  ann = ann
  ben = ben
  Characters = {hero, alt}
  Accounts = {ann, ben}
  OwnerOf <- OneAccount
  Peers = {p1, p2}
  Places = {gate}
  Spawn = gate
  Window = 0
  MaxTime = 2
  MaxJourneys = 2
  MaxFailures = 0
  RelayStarts = TRUE
  MaxEpoch = 2
SYMMETRY Symmetry
INVARIANTS OneActorPerCharacter AuthorityIsOwned WelcomeDecides
