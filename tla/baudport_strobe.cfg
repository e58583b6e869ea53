CONSTANTS
  MotorTime = 9
  ReadyCounts = 2
  SeekTime = 2
SPECIFICATION PortSpec
PROPERTY StrobeBelongsToPrinter
