CONSTANTS
  Words <- MCWords
  Values <- MCValues
  Files <- MCFiles
  Faults = {}
SPECIFICATION Spec
INVARIANT LockTestIsTrue
CHECK_DEADLOCK FALSE
