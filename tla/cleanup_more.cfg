SPECIFICATION Spec
CONSTANTS
  Passes = {service, operator}
  Service = service
  Retention = 1
  MaxTotal = 2
  MaxSession = 3
  MaxSize = 2
  MaxClock = 3
  Faults = {"interrupt", "disk_full"}
CHECK_DEADLOCK FALSE
INVARIANT TypeOK
INVARIANT FreshAfterSweep
