SPECIFICATION Spec
CONSTANTS
  core = core
  extra = extra
  Mod <- MCMod
  LoadOrder <- MCLoadOrder
  File <- MCShortFile
  Cell <- MCCell
  Original <- MCOriginal
  ModuleBase = 10
  DetourLength = 3
  MinOverwrite = 2
  Lists <- MCNoLists
  MaxReloads = 2
  MaxFailures = 1
  MaxMakes = 0
INVARIANTS
  NoOverlap
CHECK_DEADLOCK FALSE
