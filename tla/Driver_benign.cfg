\* Driver_benign
SPECIFICATION Spec
CONSTANTS
  s1 = s1
  s2 = s2
  User = User
  Boot0 = Boot0
  NoPart = NoPart
  BadRegion = BadRegion
  Zero = Zero
  ExtCsd = d1
  Regions = {User, Boot0}
  Sectors = {s1, s2}
  Data = {Zero, d1}
  VerifySectors <- MCVerifySectors2
  Faults <- BenignFaults
INVARIANT RightRegion
INVARIANT ReadIsCurrent
INVARIANT AckedIsStored
PROPERTY ImplementsBlockStore
