CONSTANTS
  CpmAddress <- MCAddress
  Data = {d0, d1}
  Blank = d0
  NoData = NoData
  Environment = {{"mode 2"}}
SPECIFICATION Spec
INVARIANT GetblockReturnsItsBlock
