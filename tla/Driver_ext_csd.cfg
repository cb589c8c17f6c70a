\* CMD8 may fail
SPECIFICATION Spec
CONSTANTS
  s1 = s1
  s2 = s2
  User = User
  Boot0 = Boot0
  NoPart = NoPart
  BadRegion = BadRegion
  Zero = Zero
  ExtCsd = ecsd
  Regions = {User, Boot0}
  Sectors = {s1}
  Data = {Zero, ecsd, d1}
  VerifySectors <- MCVerifySectors1
  Faults <- LostExtCsd
INVARIANT ExtCsdOrZeros
