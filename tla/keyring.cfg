CONSTANTS
  Size = 8
  Key = {k1, k2}
  NoKey = NoKey
SPECIFICATION FairSpec
INVARIANT TypeOK
PROPERTIES ImplementsKeyQueue WaitingReaderGetsTheKey
