SPECIFICATION FairSpec
CONSTANTS
  MaxLine = 2
  NFiles = 2
  MaxWrite = 2
  MaxClock = 2
  Faults = {"cp_fails"}
CHECK_DEADLOCK FALSE
INVARIANT IncrementalIsPrefix
INVARIANT OffsetMatchesAsc
INVARIANT MirrorLagsOneSecond
PROPERTY MidCaptureUsable
