SPECIFICATION Spec
CONSTANTS
    Producers = {p1, p2}
    Capacity = 2
    MaxItems = 3
    Nil = Nil
INVARIANT WithinCapacity
CHECK_DEADLOCK FALSE
