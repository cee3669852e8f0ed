CONSTANTS
  Words <- MCWords
  Values <- MCValues
  Files <- MCFiles
  Faults = {"read", "write", "crash"}
SPECIFICATION Spec
INVARIANT LifecycleMeansFilled
INVARIANT PassMeansFinished
PROPERTY SealedKeysMatch
PROPERTY BurnedStays
CHECK_DEADLOCK FALSE
