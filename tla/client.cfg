CONSTANTS
    MaxFailures = 2
    MaxTokens = 3
    MaxThreads = 2
SPECIFICATION FairSpec
INVARIANT TokensAgree
PROPERTIES DropsOnlyItsOwnSession Reregisters SyncServed
CHECK_DEADLOCK FALSE
