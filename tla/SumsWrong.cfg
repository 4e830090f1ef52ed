SPECIFICATION SeriesSpec
CONSTANTS
    Readings <- MCReadings
    Data = {}
    SeriesLimit = 3
    FutureLimit = 1
    Day = 2
    MaxLimit = 2
    DefaultLimit = 1
    Minute = 1
    MaxBatch = 2
    MaxTime = 2
    MaxWrites = 2
    None = None
INVARIANT SumsAnswer
