SPECIFICATION Spec
CONSTANTS
  core = core
  extra = extra
  Mod <- MCMod
  LoadOrder <- MCLoadOrder
  File <- MCFile
  Cell <- MCCell
  Original <- MCOriginal
  ModuleBase = 10
  DetourLength = 3
  MinOverwrite = 2
  Lists <- MCLists
  MaxReloads = 2
  MaxFailures = 1
  MaxMakes = 1
INVARIANTS
  TypeOK
  ModsDisjoint
  AllOwned
  GameRestored
  AddonsInForce
CHECK_DEADLOCK FALSE
