\* A worker and the sweep evaluate one rule on one device at once, with one
\* failure, for rules with an unknown channel too; under fairness dropped and
\* failed evaluations are made up for.
SPECIFICATION FairSpec
CONSTANTS
    NoSample = NoSample
    None = None
    d1 = d1
    m1 = m1
    Sweeper = sweeper
    Rules = {r1}
    Devices = {d1}
    Metrics = {m1}
    Values <- OneValue
    Definitions <- SomeChannels
    Workers = {w1}
    Requests = {q1}
    QueueCap = 1
    MaxTime = 2
    MaxFaults = 1
    MaxEdits = 1
INVARIANTS
    EventBeforeState
    UnheardPerFault
PROPERTIES
    BreachIsAlarmed
\* the run stops at MaxTime with nothing left to evaluate
CHECK_DEADLOCK FALSE
