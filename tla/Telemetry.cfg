SPECIFICATION FairSpec
CONSTANTS
    temperature = temperature
    mode = mode
    Blank = Blank
    None = None
    Handlers = {h1}
    Workers = {w1, w2}
    Properties = {temperature, mode}
    Contents <- MCContents
    Topics <- MCTopics
    Stamps <- MCStamps
    QueueSize = 1
    MaxBatchSize = 2
    MaxClockSkew = 1
    FutureLimit = 1
    MaxTime = 1
    MaxMessages = 3
INVARIANTS EveryMessageInOnePlace AcceptedIsStorable
PROPERTY QueueDrains
