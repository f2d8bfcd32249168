SPECIFICATION Spec
CONSTANTS
    docA = docA
    docB = docB
    docC = docC
    symS = symS
    symT = symT
    Docs <- MCDocs
    Positions <- MCPositions
    Symbols <- MCSymbols
    NoToken = NoToken
    NoSymbol = NoSymbol
    Contents <- TwoContents
    Absent = Absent
    Kinds <- OneKind
    InvalidUtf8 <- None
    ProviderDocs <- None
    OutsideSolution <- None
    RazorDocs <- None
    UnsupportedDocs <- None
    Unanswerable <- None
    Providers <- Never
    Concurrency = 2
    MaxCrawls = 3
    MaxCrashes = 0
    MaxFaults = 0
    MaxEdits = 0
    MaxLiveEdits = 1
INVARIANTS FinishedTrue
CHECK_DEADLOCK FALSE
