CONSTANTS
  Cap = 3
  Alnum = {"x"}
  SP = "_"
  NL = "n"
  Texts <- MCTexts
  Digits = {2}
  MaxCount = 12
  Faults = {"none", "make", "full", "error", "close", "delete", "rename"}
SPECIFICATION QeSpec
INVARIANTS QeBufferSound QeCleanIsSaved
PROPERTIES QeSavesSafely QeEditsExact
