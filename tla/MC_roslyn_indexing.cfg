SPECIFICATION FairSpec
CONSTANTS
    oldCommit = oldCommit
    newCommit = newCommit
    core = core
    tests = tests
    Commits = {oldCommit, newCommit}
    Docs <- MCDocs
    Lengths <- MCLengths
    Projects = {core, tests}
    ProjectsOf <- MCProjectsOf
    Tokens = {loading}
    Settle = 2
    LoadTimeout = 3
    LongestPause = 1
    MaxDocuments = 2
    MaxBytes = 3
    LoadAttempts = 2
    MaxFaults = 1
    MaxRuns = 2
    MaxCrashes = 1
INVARIANTS ManifestsDescribe SuccessCovers
PROPERTIES ImplementsProvider RunEnds
CHECK_DEADLOCK FALSE
