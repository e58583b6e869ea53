CONSTANTS
  CpmAddress <- MCAddress
  Data = {d0, d1}
  Blank = d0
  NoData = NoData
  Environment <- MCEnvironment
SPECIFICATION Spec
INVARIANTS TypeOK BufferHoldsTheBlock
PROPERTIES AcknowledgedDataKept ImplementsRecordStore
