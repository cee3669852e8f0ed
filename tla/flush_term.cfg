SPECIFICATION Spec
CONSTANTS
  MaxLine = 2
  NFiles = 1
  MaxWrite = 2
  MaxClock = 2
  Faults = {"term_in_flush"}
CHECK_DEADLOCK FALSE
INVARIANT TeardownAuthoritative
