CONSTANTS
  Base = {"A", "B", "C", "D"}
  Blank = "blank"
  Drives = {1, 2}
  MappedDrive = 1
  NumFiles = 3
  Fcb = {1, 2, 3, 4, 5}
  FcbBase <- MCFcbBase
  FcbDrive <- MCFcbDrive
  Mark <- MCMark
  Patterns <- MCPatterns
  Hosts <- MCHosts
  ExtentRecords = 2
  Extents = 2
  Programs <- MCPrograms
  RandomRecords = {0, 3}
  MaxCalls = 6
SPECIFICATION EmSpec
INVARIANTS EmListSound EmStaleOnlyWhenLoose EmSearchComplete
PROPERTIES EmCallsHonest
