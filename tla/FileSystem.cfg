SPECIFICATION FairSpec
CONSTANTS
    Dirs = {"w", "s", "x", "t"}
    Parent <- TreeParent
    Names = {"f"}
    Aliases = {"working", "sub", "other", "tmp"}
    Working = "working"
    Path <- TreePath
    Under <- TreeUnder
    Tokens = {"read", "scan", "write"}
    Scenarios <- MixedScenarios
    None = None
INVARIANTS
    TablesAgree
    WatchesConverge
PROPERTIES
    ContentReported
    DestructReturns
CHECK_DEADLOCK FALSE
