CONSTANTS
  FLASH_SECTOR_SIZE = 4
  XPI0_START = 16
  Option <- MCOption
  UART_DATA_MAX = 3
  Files <- MCFiles
  Images <- MCImages
  Packets = 2
  Attempts = 2
  Faults = {"nak", "status", "reset", "lost", "late"}
SPECIFICATION FairSpec
INVARIANT FileIsWhole
INVARIANT FlashHoldsFiles
INVARIANT ConfigIsImages
PROPERTY Reliable
PROPERTY RunEnds
CHECK_DEADLOCK FALSE
