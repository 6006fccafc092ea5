CONSTANTS
  Cell <- MCCell
  Byte <- MCByte
  Original <- MCOriginal
  ModuleBase = 10
  Request <- MCRequest
  HandleIndexes <- MCIndexes
  HandleGenerations <- MCGenerations
  MaxSlots = 3
  MaxGeneration = 2
  MaxMakes = 4

SPECIFICATION Spec

INVARIANTS
  TypeOK
  FreeListExact
  MemoryShowsNewest

PROPERTY ImplementsRegistry

\* The process may end in std::terminate.
CHECK_DEADLOCK FALSE
