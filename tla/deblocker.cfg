CONSTANTS
  NumSectors = 2
  NumTracks = 1
  RecordsPerSector = 4
  CpmSector <- MCCpmSector
  CpmTrack <- MCCpmTrack
  Data = {d0, d1}
  Blank = d0
  ReadsFail = TRUE
  Nowhere = Nowhere
  NoData = NoData
SPECIFICATION Spec
INVARIANTS TypeOK CleanBufferMatchesDisk
PROPERTIES DirtyDataReachesDisk ImplementsRecordStore
