SPECIFICATION FairSpec
CONSTANTS
    Posters = {p1, p2}
    Worker = worker
    MaxWorks = 4
    MaxLives = 2
    Terminate = Terminate
INVARIANTS
    NoLostWakeup
    DrainedBeforeDestroy
PROPERTIES
    DueWorkRuns
    DestructReturns
CHECK_DEADLOCK FALSE
