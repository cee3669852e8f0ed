SPECIFICATION Spec
CONSTANTS
  Passes = {service, operator}
  Service = service
  Retention = 1
  MaxTotal = 2
  MaxSession = 3
  MaxSize = 2
  MaxClock = 3
  Faults = {}
CHECK_DEADLOCK FALSE
PROPERTY NewestNeverRemoved
