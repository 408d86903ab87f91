\* One sector, two entities, three event ids: unlocking and destroying in every
\* order with current and stale revisions, reused sequence numbers, restarts.
SPECIFICATION Spec
CONSTANTS
  gate = gate
  hut = hut
  plain = plain
  burnt = burnt
  pick = pick
  other = other
  None = None
  Sectors = {town}
  Blueprints = {plain, burnt}
  Targets = {gate, hut}
  TargetsOf <- BlueprintTargets
  Gates = {gate}
  Actors = {ann}
  q1 = q1
  q2 = q2
  q3 = q3
  Seqs = {q1, q2, q3}
  Kinds = {"destroy_structure", "unlock_gate"}
  Destroy = "destroy_structure"
  Unlock = "unlock_gate"
  Payloads = {pick, other}
  Unlocking = {pick}
  Verbs = {pick}
  MaxTick = 1
  Sent <- ManySent
  Tried <- ManyTried
  RevisionReadFails = FALSE
INVARIANTS HistoriesInspectClean AcceptedIsLogged OpenGatesAreUnlocked
PROPERTY WorldOnlyWears
SYMMETRY Symmetry
