SPECIFICATION Spec
CONSTANTS
  MaxKill = 2
  Faults = {"signal", "second_signal", "kill", "hang", "refusal"}
INVARIANT TypeOK
