\* One recording saved once and one deletion that begins meanwhile.
SPECIFICATION CaseStoreSpec
CONSTANTS
  MaxRecorded = 1
  MaxSaves = 1
  MaxCases = 1
  MaxLosses = 0
INVARIANT SavedCaseIsWhole
CHECK_DEADLOCK FALSE
