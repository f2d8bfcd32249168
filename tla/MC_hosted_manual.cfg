SPECIFICATION Spec
CONSTANTS
    a = a
    b = b
    mainRef = mainRef
    pullRef = pullRef
    Shas <- MCOneSha
    Sources <- MCSources
    NoSha = NoSha
    NoEntry = NoEntry
    NoRun = NoRun
    Scanner = Scanner
    MaxIndexes = 1
    MaxAttempts = 1
    RetryAfter = 1
    Retention = 9
    Listings <- SourceChanges
    MaxTries = 3
    Faults = {"read", "write", "dispatch", "crash"}
    MaxFaults = 2
    MaxResets = 1
    MaxReruns = 1
    MaxListings = 1
    MaxTime = 1
INVARIANTS TypeOK NoSecondDispatch NewerSuccessWins AttemptsBounded OnlyReservedWork
PROPERTIES ReservationConfirmed SuccessKept ImplementsLedger
CONSTRAINT ThreeEvents
CHECK_DEADLOCK FALSE
