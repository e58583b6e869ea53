CONSTANTS
  SbLetters = {"a"}
  SbDigits = {"0", "1", "2"}
  SbParams <- MCSbParams
  SbLine = 3
  SbWrap = 8
  SbMaxBytes = 5
  CpDrives = {"A", "B"}
  CpUsers = {0, 1}
  CpNames = {"x", "y", "?"}
  CpContents <- MCCpContents
  CpDisks <- MCCpDisks
  CpCommands <- MCCpCommands
  CpBuffer = 2
  StNames = {"x", "y", "z"}
  StDirectories <- MCStDirectories
  StItems <- MCStItems
  StCount = 3
  AsPrograms <- MCAsPrograms
  AsLabels = {"a", "b"}
  AsRecord = 2
  AxWidth = 2
  AxNumbers = {1, 3}
  AxTokens = {"+", "-", "*", "NOT", "AND", "OR", "(", ")", "end"}
  AxDepth = 3
  AxMaxTokens = 6
  Bytes = 16
  SOH = 1
  EOT = 4
  ACK = 6
  NAK = 5
  CAN = 8
  DataLen = 2
  NakLimit = 3
  SentFiles <- MCFiles
  Troubles <- MCTroubles
  Garbage = {0, 2}
  UartDepth = 2
  LineDepth = 14
  MaxFaults = 1
  Addr = {0, 1, 65535}
  Free = 65535
  DbData = {0}
  DbByte = {0, 1}
  DbSlots = 2
SPECIFICATION Spec
INVARIANTS ProgramsTypeOK SbScriptOrNothing CpCopiesOnly StDoesAsTold
INVARIANTS AsOutputRight AxEvaluates BlocksRight
PROPERTIES DbEntersInTime BothEnd
