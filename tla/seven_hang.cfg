SPECIFICATION FairSpec
CONSTANTS
  MaxSession = 1
  MaxPoll = 1
  rotate_secs = 1800
  Streams = {"dmesg"}
  Faults = {"late_tcpdump"}
PROPERTY StopFinalizes
