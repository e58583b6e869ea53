CONSTANTS
  UserStack = {0, 1, 2, 3}
  Disk = {0, 1}
  Key = {0, 1, 9, 16, 36}
  MotorTime = 9
  ReadyCounts = 2
  SeekTime = 2
  Track = {3, 4, 5}
  Slot = {0, 1}
  Data = {d0, d1}
  Blank = d0
  NoData = NoData
  Nowhere = Nowhere
  Machine = {"pn8800", "pn8510"}
  ReadsFail = TRUE
  WritesFail = {"pn8800"}
  Driver = {"nc200", "pn8800", "pn8510"}
  Byte0 = {0, 4, 15, 64, 80, 95, 128, 132, 143, 192, 196, 207}
  Byte1 = {0, 1, 4, 127, 128, 129, 132, 255}
SPECIFICATION Spec
INVARIANTS DriversTypeOK InterruptsSafe CodeMapped NoStuckModifier
INVARIANTS MotorRunsDuringTransfer PortMatchesShadow VerdictRight
PROPERTIES GateTransparent CharacterPerPress MotorStops ImplementsRecordStore
