SPECIFICATION Spec
CONSTANTS
    docA = docA
    docB = docB
    docC = docC
    symS = symS
    symT = symT
    Docs <- MCDocs
    Positions <- MCPositions
    Symbols <- MCSymbols
    NoToken = NoToken
    NoSymbol = NoSymbol
    Contents <- TwoContents
    Absent = Absent
    Kinds <- AllButHover
    InvalidUtf8 <- None
    ProviderDocs <- None
    OutsideSolution <- None
    RazorDocs <- SecondDoc
    UnsupportedDocs <- SecondDoc
    Unanswerable <- Declaration
    Providers <- Never
    Concurrency = 2
    MaxCrawls = 2
    MaxCrashes = 1
    MaxFaults = 1
    MaxEdits = 1
    MaxLiveEdits = 0
INVARIANTS AnswersTrue ServesNothingFalse
PROPERTIES AnswersKept
CHECK_DEADLOCK FALSE
