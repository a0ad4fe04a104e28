\* Violated: the evaluation of its own second does not see a point stamped at
\* a whole second.
SPECIFICATION Spec
CONSTANTS
    Base = 2
    Keep <- Retentions
    Batch = 1
    MaxAge = 3
    MaxSkew = 1
    Granularity = 2
    Limit = 1
    MaxRows <- FewRows
    MaxFaults = 0
    Instants <- EarlierInstants
    Queries <- SomeQueries
INVARIANTS
    WrittenIsSeen
CHECK_DEADLOCK FALSE
