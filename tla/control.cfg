SPECIFICATION Spec
CONSTANTS
    DeviceKeys = {"d1", "d2"}
    SessionKeys = {"s1"}
    LongKeys = {"d2"}
    Window = 2
    MaxRequests = 2
    Penalty = 2
    Capacity = 1
    MaxTime = 5
    MaxTable = 3
    Devices = {"a", "b"}
    Silent = "c"
    MaxPending = 2
    MaxChanges = 2
    MaxLapses = 1
INVARIANTS
    TypeOK
    LimitHolds
PROPERTIES
    PenaltyNotExtended
    FlagGoesToItsDevice
    
CHECK_DEADLOCK FALSE
