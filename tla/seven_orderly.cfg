SPECIFICATION FairSpec
CONSTANTS
  MaxSession = 3
  MaxPoll = 1
  rotate_secs = 1800
  Streams = {"dmesg", "thermal"}
  Faults = {}
INVARIANT StampedSessionComplete
INVARIANT EarlierSessionsFinal
INVARIANT ScreenLogsIntoLiveSession
PROPERTY StopFinalizes
PROPERTY RotationBoundsSession
