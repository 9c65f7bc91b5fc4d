CONSTANTS
    MaxFailures = 2
    MaxTokens = 3
    MaxThreads = 2
SPECIFICATION FairSpec
PROPERTY AlwaysReregisters
CHECK_DEADLOCK FALSE
