CONSTANTS
    Input <- MCInput
    MaxSegData = 1
    SendWindow = 2
    RecvWindow = 1
    MaxTries = 2
    OutSpace = {2}
    MaxQueued = 2
    Closers = {"A"}
SPECIFICATION FairSpec
CHECK_DEADLOCK FALSE
PROPERTY Delivered
