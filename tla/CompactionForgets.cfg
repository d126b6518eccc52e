SPECIFICATION BranchSpec
CONSTANTS
  MaxEntries = 7
  MaxKeep = 3
INVARIANTS AllIsRemembered
