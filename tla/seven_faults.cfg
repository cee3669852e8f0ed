SPECIFICATION FairSpec
CONSTANTS
  MaxSession = 2
  MaxPoll = 1
  rotate_secs = 1800
  Streams = {"flush"}
  Faults = {"stop_in_teardown", "late_tcpdump", "candump_dies", "straggler", "oom", "power", "timeout"}
PROPERTY PromiseKept
PROPERTY StopTerminates
