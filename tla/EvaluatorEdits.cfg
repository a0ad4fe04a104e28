\* The rule is edited, disabled and deleted under a running sweep, with
\* one failed statement or crash.
SPECIFICATION Spec
CONSTANTS
    NoSample = NoSample
    None = None
    d1 = d1
    m1 = m1
    Sweeper = sweeper
    Rules = {r1}
    Devices = {d1}
    Metrics = {m1}
    Values <- OneValue
    Definitions <- TwoDefinitions
    Workers = {}
    Requests = {q1}
    QueueCap = 1
    MaxTime = 2
    MaxFaults = 1
    MaxEdits = 3
INVARIANTS
    TypeOK
    TriggerNeedsHeldBreach
    DeletedRuleLeavesNoState
\* the run stops at MaxTime with nothing left to evaluate
CHECK_DEADLOCK FALSE
