SPECIFICATION FairSpec
CONSTANTS
  SndBuf = 2
  RecvSize = 1
  DgmSizes = {1}
  MaxDgms = 1
  MaxDgm = 1
  MaxHdr = 2
  LongDgm = 1
PROPERTIES FinSentIsSignalled
