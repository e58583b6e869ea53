CONSTANTS
  Driver = {"wp2450"}
  Byte0 = {0, 4, 15, 64, 80, 95, 128, 132, 143, 192, 196, 207}
  Byte1 = {0, 1, 4, 127, 128, 129, 132, 255}
SPECIFICATION FdcSpec
INVARIANT FailureSeen
