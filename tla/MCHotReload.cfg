SPECIFICATION Spec
CONSTANTS
  File <- MCFile
  PatchFile = "patch"
  MainFile = "main"
  CacheFile = "cache"
  ScriptFile = {"main", "lib"}
  AssetFile = {"asset"}
  Contents <- MCContents
  Saved <- MCSaved
  SavesDuringStart = TRUE
  MaxSaves = 3
INVARIANTS
  TypeOK
  SettledIsCurrent
  ReloadsJustified
  RunningFilesWatched
PROPERTY
  ComesToRest
CHECK_DEADLOCK FALSE
