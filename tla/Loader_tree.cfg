SPECIFICATION FairSpec
CONSTANTS
    Files = {"root", "a", "b"}
    Radicals = {"r"}
    Underlying <- TreeUnderlying
    Content <- TreeContent
    Tags = {t1, t2}
    Global = Global
    None = None
    Manners <- CalmManners
INVARIANTS
    ReadyAfterDependencies
    AssertsHold
    NothingLeft
PROPERTIES
    EventuallySettled
CHECK_DEADLOCK FALSE
