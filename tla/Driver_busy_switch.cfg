\* the wait after CMD6 may be used up
SPECIFICATION Spec
CONSTANTS
  s1 = s1
  s2 = s2
  User = User
  Boot0 = Boot0
  NoPart = NoPart
  BadRegion = BadRegion
  Zero = Zero
  ExtCsd = d1
  Regions = {User, Boot0}
  Sectors = {s1}
  Data = {Zero, d1}
  VerifySectors <- MCVerifySectors1
  Faults <- BusySwitch
INVARIANT RightRegion
