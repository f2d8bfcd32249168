SPECIFICATION Spec
CONSTANTS
    a = a
    b = b
    mainRef = mainRef
    pullRef = pullRef
    Shas <- MCShas
    Sources <- MCSources
    NoSha = NoSha
    NoEntry = NoEntry
    NoRun = NoRun
    Scanner = Scanner
    MaxIndexes = 1
    MaxAttempts = 2
    RetryAfter = 1
    Retention = 9
    Listings <- PullClosed
    MaxTries = 2
    Faults = {}
    MaxFaults = 0
    MaxResets = 0
    MaxReruns = 0
    MaxListings = 2
    MaxTime = 1
INVARIANTS NewerSuccessWins
CHECK_DEADLOCK FALSE
