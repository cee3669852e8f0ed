CONSTANTS
  Devices = {1, 2}
  Endpoints = {1, 129}
  Urbs = {"u", "v"}
  Channels = {0, 1}
  EchoIds = {7}
  Records <- MCRecords
  Steps = {0, 2}
  MaxRecords = 4
  interval = 3
SPECIFICATION Spec
CHECK_DEADLOCK FALSE
INVARIANT TypeOK
INVARIANT OutstandingIsReal
INVARIANT GapIsReal
INVARIANT FramesAgree
INVARIANT FramesTold
