SPECIFICATION EngineSpec
CONSTANTS
    DiskDirs = {"w", "s"}
    DiskBelow <- TreeBelow
    DiskFiles <- TreeFiles
    DiskRoot = "w"
    TempDir = "t"
    CallScripts <- SomeCalls
    MaxDiskChanges = 2
    MaxEvents = 2
    LibraryNames = {"A", "B"}
    LibraryFiles = {"a.txt", "a.png", "a"}
    StemOf <- FileStems
    LibraryDisks <- SomeDisks
    LibraryListings <- SomeListings
    LibraryChanges <- SomeChanges
    LoadNames = {"a"}
    LibraryWatch = TRUE
    MaxRegistrations = 2
    MaxLibraryChanges = 1
    MaxLoads = 1
    MixerScripts <- SomeMixes
    MaxFrames = 5
    PhysicsScripts <- SomePhysics
    CameraCells = 2
    Unbounded = 10
    Writers = {w1, w2}
    MaxPushes = 4
    SplitBits = FALSE
    SyncThreads = {t1, t2, t3}
    ThreadObjects = {o1, o2, o3}
    MaxSyncCalls = 4
    ManyWaiters = FALSE
    Second = 2
    SharedPtrs = {"s1", "s2"}
    WeakPtrs = {"w1"}
    UniquePtrs = {"u1"}
    MaxBlocks = 2
    MaxPointerCalls = 5
    Kinds <- SomeKinds
    StaticCapacity = 3
    MaxCells = 4
    MaxCalls = 5
    HolderKinds = {"variant", "optional", "any"}
    MaxHolderCalls = 5
    JsonShapes <- SomeJsonShapes
    IniShapes <- SomeIniShapes
    TextRooms = {5, 12, 15, 18, 21, 24, 40, 80}
    Tokens = {0, 1, 2, 3, 4, 5, 6, 7}
    HashRange <- HashTokens
    FactoryRanges <- SomeRanges
    Factories = {"f1", "f2", "f3"}
    TableMax = 3
    HashStrings <- SomeStrings
    MaxTableCalls = 5
    OverflowBits = 4
    GuiData <- OneWindow
    ItemData <- OneItem
    GuiMessages <- SomeMessages
    GuiWidth = 1024
    MaxGuiPosts = 4
    MaxGuiQueue = 2
INVARIANTS
    Kernel32Watches
    LibrariesKnown
    MixerPlays
    CamerasInBounds
    GuiDrawsTree
    LatestPolled
    SyncKeeps
    PointersHold
    ElementsLive
    HoldersOwn
    TextFaithful
    TokensNamed
    OverflowReported
CHECK_DEADLOCK FALSE
