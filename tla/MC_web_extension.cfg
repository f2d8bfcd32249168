SPECIFICATION Spec
CONSTANTS
    parent = parent
    child = child
    Commits <- MCCommits
    History <- MCHistory
    Workspaces <- MCWorkspaces
    Settings <- MCSettings
    Automatic = Automatic
    NoCommit = NoCommit
    NoIndex = NoIndex
    ConfiguredIndex = ConfiguredIndex
    WorkspaceIndex = WorkspaceIndex
    NoClient = NoClient
    MaxCommands = 3
    MaxMoves = 1
    MaxFaults = 2
CONSTRAINT TwoWhenOverlapping
CHECK_DEADLOCK FALSE
INVARIANTS SoleWorker ServesWorkspace
PROPERTIES StartEnds
