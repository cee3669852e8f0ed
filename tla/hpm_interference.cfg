SPECIFICATION Spec
CONSTANTS
  MaxKill = 0
  Faults = {}
INVARIANT DoneMeansFlashed
