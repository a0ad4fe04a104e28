\* The sweep alone on one rule: the spacing of alarms when no other
\* goroutine interferes.
SPECIFICATION Spec
CONSTANTS
    NoSample = NoSample
    None = None
    d1 = d1
    m1 = m1
    Sweeper = sweeper
    Rules = {r1}
    Devices = {d1}
    Metrics = {m1}
    Values <- TwoValues
    Definitions <- OneDefinition
    Workers = {}
    Requests = {q1}
    QueueCap = 1
    MaxTime = 6
    MaxFaults = 0
    MaxEdits = 1
PROPERTIES
    SpacedByCooldown
    TriggersAreSeparated
\* the run stops at MaxTime with nothing left to evaluate
CHECK_DEADLOCK FALSE
