SPECIFICATION Spec
CONSTANTS
  RcvBuf = 3
  SndBuf = 1
  MaxOctets <- TwoEach
  RecvSize = 2
  MaxDgm = 2
  MaxHdr = 2
  LongDgm = 2
  SpuriousAgain = TRUE
  ErrorEvents = TRUE
INVARIANTS TypeOK NoAbort StreamIntact FramesAreWhole NothingStranded
PROPERTIES ImplementsStreams
