SPECIFICATION FairSpec
CONSTANTS
    a = a
    b = b
    mainRef = mainRef
    pullRef = pullRef
    Shas <- MCShas
    Sources <- MCSources
    NoSha = NoSha
    NoEntry = NoEntry
    NoRun = NoRun
    Scanner = Scanner
    MaxIndexes = 1
    MaxAttempts = 2
    RetryAfter = 1
    Retention = 1
    Listings <- StableListings
    MaxTries = 4
    Faults = {}
    MaxFaults = 0
    MaxResets = 0
    MaxReruns = 0
    MaxListings = 0
    MaxTime = 1
PROPERTIES EligibleIsReserved AttemptsSettle
CHECK_DEADLOCK FALSE
