SPECIFICATION Spec
CONSTANTS
    Buttons = {"KEY"}
    Axes = {"AXIS"}
    Levels = {0, 1}
    INVALID = "INVALID"
    Nodes = {"event0", "event1"}
    ModelOf <- NodeModel
    TypeOf <- NodeType
    Keycodes = {1}
    NameOf <- CodeName
    Callers = {"console", "main"}
    Limits <- FewOf
    MaxQueue = 1
    Handles = {"h1", "h2"}
    HandleType <- TypeOfHandle
    ScanCodes = {1, 2}
    ScanName <- ScanButton
    VirtualName = "KEY"
    max_player = 5
    MaxChanges32 = 2
    MaxSwitches32 = 2
    MaxQueue32 = 1
    UiDevices = {0, 1}
    UiWired = {0}
    UiPaths = {"p"}
    UiContexts = {"c1", "c2"}
    UiStates = {"s1", "s2"}
    UiMappings = {"m1", "m2", "m3"}
    UiCodes <- MappingCodes
    UiUser <- MappingUser
    UiKind <- CodeKind
    UiStartups <- Startups
    NoContext = "none"
    MaxPosts = 2
    MaxReports = 3
    MaxWaiting = 1
    Commands = {"toggle", "set"}
    Observed <- ObserverTypes
    Lines <- SomeLines
    Unspaced <- NoSpace
    MaxLines = 2
    NULL = NULL
INVARIANTS
    U32DevicesMatch
    UiFiltersMatch
PROPERTIES
    X11Serves
    AppEndsClean
CHECK_DEADLOCK FALSE
