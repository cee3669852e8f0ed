SPECIFICATION Spec
CONSTANTS
  MaxClock = 1
  Faults = {"same_second"}
INVARIANT AnnouncedStays
