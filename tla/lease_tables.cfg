CONSTANTS
    d1 = d1
    d2 = d2
    s1 = s1
    s2 = s2
    s3 = s3
    Devices = {d1, d2}
    Sessions = {s1, s2, s3}
    Pairs = {6000, 6002}
    NoDevice = NoDevice
    NoSession = NoSession
SYMMETRY Symmetry
SPECIFICATION TablesSpec
INVARIANTS OneSessionPerDevice PairRowsAgree OrderlyTables
PROPERTY EndedStaysEnded
CHECK_DEADLOCK FALSE
