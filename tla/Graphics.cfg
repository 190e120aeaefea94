SPECIFICATION Spec
CONSTANTS
    CollectionKeys = {1, 3, 4}
    CollectionTypes = {1, 2}
    CollectionStorages = {"static", "heap"}
    MaxBuckets = 4
    MaxComponents <- RoomIn
    MeshCells = 3
    ObjectCells = 3
    RendererPosters = {"game", "loader"}
    RendererScripts <- SomeScripts
    ViewerScripts <- SomeViews
    Dimensions <- SomeDimensions
    RootFrame = "root"
    MaxUnread = 1
INVARIANTS
    CollectionIsMap
    RendererDrawsScene
    ViewerShows
PROPERTY
    RendererStops
CHECK_DEADLOCK FALSE
