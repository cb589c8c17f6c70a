\* the result of an RPMB write is printed only
SPECIFICATION Spec
CONSTANTS
  Data = {"zeros", "a"}
  Zeros = "zeros"
  MaxCounter = 2
INVARIANT ResultIsChecked
