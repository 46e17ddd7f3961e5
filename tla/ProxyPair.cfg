SPECIFICATION FairSpec
CONSTANTS
  RcvBuf = 1
  SndBuf = 1
  MaxOctets <- OneEach
  RecvSize = 1
  MaxDgm = 1
  MaxHdr = 2
  LongDgm = 2
  SpuriousAgain = FALSE
  ErrorEvents = FALSE
  Fallible = {"A", "B"}
INVARIANTS EndToEnd
PROPERTIES EverythingArrives ShutdownFollows EndSpreads
