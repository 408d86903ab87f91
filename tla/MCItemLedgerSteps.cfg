\* One item at one address, three operation keys, every
\* statement failing in every way, crashes anywhere.
SPECIFICATION Spec
CONSTANTS
  slotted = slotted
  loose = loose
  hero = hero
  slot = slot
  None = None
  CanonTables = {}
  Actors = {alice}
  Operations = {op1, op2, op3}
  Items = {sword}
  Definitions = {def1}
  Contents = {slotted, loose}
  Owners = {hero}
  Addresses = {slot}
  OwnerOf <- OneOwner
  Fits <- SlottedFits
  Profiles = {profile}
  Authored = {recipeA, recipeB}
  Inputs = {input1}
  Reasons = {consumed}
  Ticks = {0}
  MaxRevision = 2
  Sent <- StepsSent
SYMMETRY OperationsSymmetry
INVARIANT AcknowledgedIsDurable
PROPERTY ImplementsLedger
