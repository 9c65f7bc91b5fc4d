SPECIFICATION Spec
CONSTANTS
    MaxFixed = 2
    MaxOpened = 4
INVARIANTS
    ServedOnce
    TablesOutliveRequests
PROPERTY StopEnds
CHECK_DEADLOCK FALSE
