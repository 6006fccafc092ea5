SPECIFICATION Spec
CONSTANTS
  library = library
  game = game
  gravity = gravity
  unset = unset
  Unset = unset
  Caller <- MCCaller
  Name <- MCName
  Request <- MCRequest
  Duty <- MCDuty
  MaxCalls = 2
INVARIANTS
  TypeOK
  ServedAsAccepted
  AnswerIsForThisCall
  VariablesCurrent
PROPERTIES
  ImplementsLifecycle
  EveryoneReleased
CHECK_DEADLOCK FALSE
