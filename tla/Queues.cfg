SPECIFICATION QueuesSpec
CONSTANTS
    Producers = {p1, p2}
    Capacity = 4
    MaxItems = 5
    Nil = Nil
    PageProducers = {p1, p2}
    First = 0
    MaxPageItems = 3
    MaxPages = 5
    NoPage = NoPage
INVARIANTS
    SlotExclusive
    PagesKept
PROPERTIES
    ImplementsFifo
    QueuesServe
CHECK_DEADLOCK FALSE
