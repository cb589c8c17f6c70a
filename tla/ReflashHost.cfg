\* the tool is run once; it stops when the user is done with it
SPECIFICATION FairSpec
CONSTANTS
  a = a
  b = b
  short = short
  User = User
  Boot1 = Boot1
  NoGpt = NoGpt
  Userdata = User
  Regions <- MCRegions
  Size <- MCSize
  Data <- MCData
  Chunks <- MCChunks
  Padded <- MCPadded
  Pattern <- MCPattern
  Labels <- MCLabels
  Lower <- MCLower
  Misreads <- MCMisreads
  Header <- MCHeader
  Entries <- MCEntries
  Unused = Unused
  SectorUnits = 4
  EntryUnits = 2
  Operations <- MCOperations
  Files <- MCFiles
  Stores <- MCStores
  MaxRuns = 1
CHECK_DEADLOCK FALSE
INVARIANT TypeOK
INVARIANT StaysInside
INVARIANT WrittenPrefix
INVARIANT ReadIsCopy
INVARIANT TestRestores
INVARIANT FindsTheFirst
PROPERTY ToolEnds
