\* the timeout of the XFER_COMPL loop is never taken
SPECIFICATION Spec
CONSTANTS
  Words = 4
  FifoWords = 2
  FifoTimeout = 10
  XferTimeout = 6
  Modulus = 16
INVARIANT TimeoutIsReported
