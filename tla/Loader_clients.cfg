SPECIFICATION Spec
CONSTANTS
    Files = {"root", "a", "b"}
    Radicals = {"r"}
    Underlying <- LeafUnderlying
    Content <- TreeContent
    Tags = {t1, t2}
    Global = Global
    None = None
    Manners <- RoughManners
INVARIANTS
    RemainingIsRequired
    OwnersMatchAttachments
    CallbacksBalanced
CHECK_DEADLOCK FALSE
