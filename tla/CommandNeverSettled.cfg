SPECIFICATION FairSpec
CONSTANTS
    Callers = {c1}
    Devices = {d1}
    Keys = {k1, k2}
    RetryInputs <- MCRetryInputs
    MaxCommands = 2
    BatchLimit = 1
    PollLimit = 1
    Drivers = {"memory"}
    NoCommand = NoCommand
PROPERTY EventuallySettled
