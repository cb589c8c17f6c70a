\* one block of four words; both kinds of controller of PioWrite and all three
\* of PioRead; every outcome of every command and data phase of OrigMsdc
SPECIFICATION Spec
CONSTANTS
  Words = 4
  FifoWords = 2
  ThdWords = 1
  FifoTimeout = 10
  XferTimeout = 6
  Timeout = 6
  Modulus = 16
INVARIANT TypeOK
INVARIANT WriteTells
INVARIANT ReadTells
INVARIANT NoSilentDamage
INVARIANT ReadIsOwnBlock
PROPERTY TransfersEnd
