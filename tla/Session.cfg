SPECIFICATION FairSpec
CONSTANTS
    QueueSize = 1
    PingEvery = 2
    PongWait = 3
    MaxMessages = 4
INVARIANTS AnswersInOrder OneWriterUnlessInvalid AnsweringClientStays
PROPERTIES EndTogether SilentSessionEnds
