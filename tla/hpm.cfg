SPECIFICATION FairSpec
CONSTANTS
  MaxKill = 2
  Faults = {"signal", "second_signal", "kill", "hang", "refusal"}
INVARIANT QuietMeansNormalBoot
INVARIANT DoneUnlessDisturbed
PROPERTY HpmComesBack
