SPECIFICATION FairSpec
CONSTANTS
  MaxClock = 2
  Faults = {"signal", "second_signal", "kill", "command_fails"}
CHECK_DEADLOCK FALSE
INVARIANT CaptureRestored
INVARIANT PausedCopyIsQuiet
INVARIANT NoHalfSnapshot
PROPERTY PauseEnds
