CONSTANTS
  Words <- MCWords
  Values <- MCValues
  Files <- MCFiles
  Faults = {"read", "write", "crash"}
SPECIFICATION Spec
CHECK_DEADLOCK FALSE
INVARIANT TypeOK
INVARIANT SummaryTruthful
