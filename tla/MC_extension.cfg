SPECIFICATION Spec
CONSTANTS
    left = left
    right = right
    parent = parent
    child = child
    Windows <- MCWindows
    Commits <- MCCommits
    History <- MCHistory
    CheckedOut <- MCCheckedOut
    Published <- MCPublished
    Settings <- MCSettings
    Artifacts <- MCArtifacts
    Absent = Absent
    Damaged = Damaged
    Automatic = Automatic
    LocalIndex = LocalIndex
    NoClient = NoClient
    Unread = Unread
    MaxCommands = 3
    MaxNotices = 3
    MaxFaults = 1
CONSTRAINT FewWithDocuments
SYMMETRY Symmetry
CHECK_DEADLOCK FALSE
INVARIANTS ServesVerified RepairedWhenAlone SoleServer TokensMatch
