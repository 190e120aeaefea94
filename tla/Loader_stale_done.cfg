SPECIFICATION Spec
CONSTANTS
    Files = {"a"}
    Radicals = {}
    Underlying <- SoleUnderlying
    Content <- SoleContent
    Tags = {t1, t2}
    Global = Global
    None = None
    Manners <- SoleManners
INVARIANTS
    ReadyHasContent
CHECK_DEADLOCK FALSE
