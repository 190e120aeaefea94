SPECIFICATION Spec
CONSTANTS
    Files = {"a", "b", "c"}
    Radicals = {}
    Underlying <- SwitchUnderlying
    Content <- SwitchContent
    Tags = {t1}
    Global = Global
    None = None
    Manners <- SwitchManners
INVARIANTS
    OwnerKnown
CHECK_DEADLOCK FALSE
