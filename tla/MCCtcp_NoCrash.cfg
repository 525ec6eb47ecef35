CONSTANTS
    Input <- MCInput
    MaxSegData = 1
    SendWindow = 2
    RecvWindow = 2
    MaxTries = 2
    OutSpace = {2}
    MaxQueued = 2
    Closers = {"A"}
SPECIFICATION Spec
CHECK_DEADLOCK FALSE
INVARIANT NoCrash
