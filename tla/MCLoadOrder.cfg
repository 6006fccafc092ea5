SPECIFICATION Spec
CONSTANTS
  None = None
  Malformed = Malformed
  Entry <- MCEntry
  Addon <- MCAddon
  Parsed <- MCParsed
  Directories <- MCDirectories
  Launches <- MCLaunches
  Profiles <- MCProfiles
  MaxLaunches = 2
  MaxEdits = 1
INVARIANTS
  TypeOK
  AskedForAreLoaded
  OrderRespected
  CallbacksNest
CHECK_DEADLOCK FALSE
