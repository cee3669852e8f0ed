SPECIFICATION Spec
CONSTANTS
  MaxClock = 2
  Faults = {"signal", "second_signal", "kill", "command_fails"}
CHECK_DEADLOCK FALSE
INVARIANT TypeOK
INVARIANT AnnouncedStays
