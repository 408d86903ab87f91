\* One plot, three characters, one party: chains of stewards and transfers up
\* to revision 4, five operations in all; and a handle held meanwhile, where less
\* happens.
SPECIFICATION Spec
CONSTANTS
  None = None
  Plots = {plot}
  Characters = {ann, ben, cyd}
  Groups = {band}
  Parties = {band}
  Rights = {build, administer}
  Administer = administer
  Operations = {op1, op2}
  Handles = {handle}
  MaxRevision = 4
  MaxInteractions = 1
  MaxReceipts = 5
CONSTRAINT Explored
SYMMETRY Symmetry
INVARIANTS AuditIsSerial RightsTraceToOwner OnlyOwnersTransfer
PROPERTY CommitsAreUninterrupted
