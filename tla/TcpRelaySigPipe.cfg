SPECIFICATION Spec
CONSTANTS
  RcvBuf = 2
  SndBuf = 1
  MaxOctets <- ThreeAndOne
  RecvSize <- TwoEach
  SpuriousAgain = TRUE
  ErrorEvents = FALSE
  SigPipeIgnored = FALSE
INVARIANTS SendFailureReturns

