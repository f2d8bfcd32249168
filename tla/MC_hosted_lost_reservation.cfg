SPECIFICATION Spec
CONSTANTS
    a = a
    b = b
    mainRef = mainRef
    pullRef = pullRef
    Shas <- MCShas
    Sources <- MCSources
    NoSha = NoSha
    NoEntry = NoEntry
    NoRun = NoRun
    Scanner = Scanner
    MaxIndexes = 1
    MaxAttempts = 2
    RetryAfter = 1
    Retention = 9
    Listings <- StableListings
    MaxTries = 3
    Faults = {"write"}
    MaxFaults = 1
    MaxResets = 0
    MaxReruns = 0
    MaxListings = 0
    MaxTime = 1
PROPERTIES ReservationsReturned
CHECK_DEADLOCK FALSE
