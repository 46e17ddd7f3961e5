SPECIFICATION FairSpec
CONSTANTS
  SndBuf = 2
  RecvSize = 1
  DgmSizes = {0, 1, 2}
  MaxDgms = 2
  MaxDgm = 1
  MaxHdr = 2
  LongDgm = 1
INVARIANTS TypeOK NoAbort
PROPERTIES ImplementsChannel DatagramsArrive FinArrives
