SPECIFICATION DataSpec
CONSTANTS
    Writers = {w1, w2}
    Devices = {d1}
    Props = {p1}
    Values = {v1, v2}
    Unset = Unset
    NoDoc = NoDoc
    Driver = "postgres"
    MaxVersion = 3
    Readings <- MCReadings
    Data <- MCData
    SeriesLimit = 3
    FutureLimit = 1
    Day = 2
    MaxLimit = 2
    DefaultLimit = 1
    Minute = 1
    MaxBatch = 2
    MaxTime = 3
    MaxWrites = 3
    None = None
    one = one
    Null = Null
    Absent = Absent
    Keys <- MCKeys
    Atoms <- MCAtoms
    Patches <- MCPatches
    MaxDepth = 3
    MaxLevels = 4
    Rows <- MCRows
    Limits <- MCLimits
    DefaultPage = 1
    MaxPage = 2
    MaxExecutions = 3
    ListingTime = 1
    NoRow = NoRow
INVARIANT DesiredProvenance
PROPERTY FreshSavesAreExact
INVARIANTS NewestKept QueryAnswers GapsAnswer AggregatesAnswer
INVARIANTS MergeIsOverlay DeviceCatchesUp DesiredDepthBounded
INVARIANTS WalkFindsAll NothingTwice
