\* One device: bursts, refusals and refills, the window beginning anywhere.
SPECIFICATION Spec
CONSTANTS
    None = None
    Keys = {k1}
    Rate = 2
    Capacity = 3
    MaxBatch = 4
    MaxTime = 4
INVARIANTS
    TypeOK
    WindowBound
PROPERTIES
    RefusalIsEarned
\* Mark may always repeat; time stops at MaxTime
CHECK_DEADLOCK FALSE
