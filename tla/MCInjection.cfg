CONSTANTS
    Launchers <- MCLaunchers
    CommandLines <- MCCommandLines
SPECIFICATION Spec
INVARIANTS TypeOK OutcomeAsReported BufferOutlivesReader OwnConfiguration
PROPERTY LaunchReturns
CHECK_DEADLOCK FALSE
