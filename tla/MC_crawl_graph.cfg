SPECIFICATION FairSpec
CONSTANTS
    docA = docA
    docB = docB
    docC = docC
    symS = symS
    symT = symT
    Docs <- ThreeDocs
    Positions <- OnePosition
    Symbols <- MCSymbols
    NoToken = NoToken
    NoSymbol = NoSymbol
    Contents <- ShortContents
    Absent = Absent
    Kinds <- GraphKinds
    InvalidUtf8 <- LastDoc
    ProviderDocs <- LastTwoDocs
    OutsideSolution <- LastDoc
    RazorDocs <- None
    UnsupportedDocs <- None
    Unanswerable <- None
    Providers <- Sometimes
    Concurrency = 2
    MaxCrawls = 2
    MaxCrashes = 1
    MaxFaults = 1
    MaxEdits = 1
    MaxLiveEdits = 0
INVARIANTS GraphTrue FinishedComplete CleanCrawlSucceeds ServesAll
PROPERTIES CrawlEnds
CHECK_DEADLOCK FALSE
