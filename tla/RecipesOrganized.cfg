SPECIFICATION Spec
CONSTANTS
  MaxRuns = 2
  GhidraVersions = 2
  MaxChildren = 1
  MaxEntries = 2
  MaxLines = 7
  MaxSplits = 1
  Addresses = {0, 1, 2}
  Names = {"", "C::m"}
  SoftCap = 4
  RecordCap = 3
INVARIANTS
  OrganizedIsOfWhole
CHECK_DEADLOCK FALSE
