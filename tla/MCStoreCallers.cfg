\* Three calls of at most three statements over one counted table and one other.
SPECIFICATION SpecCallers
CONSTANTS
  CanonTables = {"canon_sectors"}
  OtherTable = "other"
  MaxCalls = 3
  MaxStatements = 3
  StopsAtError = TRUE
INVARIANTS NoPartialRecord CountersBalance IdleViewIsDurable
