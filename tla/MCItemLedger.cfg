\* Lives of two items over two addresses of one owner, created plainly or pinned to an
\* authored profile with two candidate contents: four operation keys, retries at another
\* tick, and revisions up to 3, where the overflow guard bites.
SPECIFICATION Spec
CONSTANTS
  slotted = slotted
  loose = loose
  hero = hero
  slot = slot
  shelf = shelf
  None = None
  Actors = {alice}
  Operations = {op1, op2, op3, op4}
  Items = {sword, ring}
  Definitions = {def1}
  Contents = {slotted, loose}
  Owners = {hero}
  Addresses = {slot, shelf}
  OwnerOf <- OneOwner
  Fits <- SlottedFits
  Profiles = {profile}
  Authored = {recipeA, recipeB}
  Inputs = {input1}
  Reasons = {consumed}
  Ticks = {0, 1}
  MaxRevision = 3
  Sent <- Mixed
SYMMETRY OperationsSymmetry
INVARIANTS OneItemPerAddress LedgerSerial AddressAlternates RowsMatchReceipts RetriesReplay
PROPERTY LedgerAppendOnly
