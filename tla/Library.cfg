\* words of six bits for the division; what was called returns
SPECIFICATION MCSpec
CONSTANTS
  Modulus = 64
  Blocks = {"a", "b", "pattern"}
  Pattern = "pattern"
CHECK_DEADLOCK FALSE
INVARIANT DivisionIsRight
INVARIANT DigestIsOfMessage
INVARIANT OutputConforms
INVARIANT FindsRoutines
INVARIANT MemoryIsRight
INVARIANT FramesAreRight
INVARIANT RoundtripRestores
INVARIANT SetUpFits
PROPERTY Ends
