SPECIFICATION Spec
CONSTANTS
  MaxSession = 2
  MaxPoll = 1
  rotate_secs = 1800
  Streams = {"dmesg"}
  Faults = {"stop_in_teardown"}
INVARIANT StampedSessionComplete
