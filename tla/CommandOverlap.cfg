SPECIFICATION FairSpec
CONSTANTS
    Callers = {c1, c2}
    Devices = {d1}
    Keys = {k1}
    RetryInputs <- MCRetryInputs
    MaxCommands = 2
    BatchLimit = 1
    PollLimit = 1
    Drivers = {"memory", "postgres"}
    NoCommand = NoCommand
INVARIANTS AnsweredKeyFound AuditIsLegal DeliveriesBounded TimeoutIsEarned PollFindsPending OneAnswerPerKey
PROPERTIES SettledStaysSettled PendingEnds RegistryImplemented
