CONSTANTS
  Lines <- MCLines
  Started = 3
  Ended = 5
  MaxLines = 3
  MaxRuns = 2
SPECIFICATION DimSpec
INVARIANT SummaryTruthful
INVARIANT EveryLineTold
CHECK_DEADLOCK FALSE
