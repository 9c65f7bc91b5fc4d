SPECIFICATION Spec
CONSTANTS
    Handlers = {1, 2}
    MaxUnits = 2
    MaxStarts = 1
    Width = 4
    MaxTraffic = 2
    MaxRequests = 3
    MaxTokens = 2
INVARIANTS
    TypeOK
    NeverOvercounts
    TotalsExplained
PROPERTY SavedSurvives
CHECK_DEADLOCK FALSE
