SPECIFICATION FairSpec
CONSTANTS
  RcvBuf = 2
  SndBuf = 1
  MaxOctets <- ThreeAndOne
  RecvSize <- TwoEach
  SpuriousAgain = FALSE
  ErrorEvents = FALSE
  SigPipeIgnored = FALSE
INVARIANTS TypeOK NoAbort StreamIntact FinIsLast ReportIsTrue NoLostWakeup NoStaleEvent IndInv
PROPERTIES BackPressure QuietAfterShutdown ImplementsStreams EverythingArrives FinArrives ShutdownFollows FailureIsNoticed
