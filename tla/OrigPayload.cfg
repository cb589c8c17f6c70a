SPECIFICATION FairSpec
CONSTANTS
  Data = {"zeros", "a"}
  Zeros = "zeros"
  MaxCounter = 2
INVARIANT TypeOK
INVARIANT BlocksAreRight
INVARIANT WriteOnce
INVARIANT AnswersAreTrue
PROPERTY CommandEnds
