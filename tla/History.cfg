\* Three points, an event and its attempt; pages and batches of one row.
SPECIFICATION FairSpec
CONSTANTS
    Base = 2
    Keep <- Retentions
    Batch = 1
    MaxAge = 3
    MaxSkew = 1
    Granularity = 2
    Limit = 1
    MaxRows <- FewRows
    MaxFaults = 1
    Instants <- SomeInstants
    Queries <- SomeQueries
INVARIANTS
    TypeOK
    WindowOffBySecond
    MissedPerPurge
    RepeatedPerLate
    AttemptsHaveEvents
    PointsAggregated
PROPERTIES
    RetentionSparesTheYoung
    BacklogDrains
\* rows and time are bounded
CHECK_DEADLOCK FALSE
