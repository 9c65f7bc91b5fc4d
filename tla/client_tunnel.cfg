SPECIFICATION Spec
CONSTANTS
    MaxTunnels = 3
    MaxRestarts = 2
    MaxLate = 2
    MaxThreads = 2
INVARIANTS
    TypeOK
    KeepsInput
    OneOfEach
    NothingStale
PROPERTIES
    TunnelReturns
    ShutdownEnds
CHECK_DEADLOCK FALSE
