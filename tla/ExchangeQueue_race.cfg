SPECIFICATION ExchangeSpec
CONSTANTS
    Writers = {"window"}
    MaxPushes = 3
    SplitBits = TRUE
INVARIANT
    PollsLatest
CHECK_DEADLOCK FALSE
