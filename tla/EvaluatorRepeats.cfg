\* Violated: a second reading below the threshold emits "recovered" again.
SPECIFICATION Spec
CONSTANTS
    NoSample = NoSample
    None = None
    d1 = d1
    m1 = m1
    Sweeper = sweeper
    Rules = {r1}
    Devices = {d1}
    Metrics = {m1}
    Values <- OneValue
    Definitions <- OneDefinition
    Workers = {}
    Requests = {q1}
    QueueCap = 1
    MaxTime = 4
    MaxFaults = 0
    MaxEdits = 1
PROPERTIES
    EventsRecordTransitions
\* the run stops at MaxTime with nothing left to evaluate
CHECK_DEADLOCK FALSE
