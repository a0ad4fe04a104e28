\* A tenant no larger than the page the device service grants.
SPECIFICATION Spec
CONSTANTS
    None = None
    Devices = {d1, d2}
    Rules = {r1}
    Tags = {t1}
    Workers = {w1}
    Requests = {q1}
    PageSize = 4
    ServiceMax = 3
    ServiceDefault = 2
    MaxEdits = 5
    MaxFaults = 1
SYMMETRY Symmetry
INVARIANTS
    TypeOK
    SweepReaches
    OnlyDeletionWidens
\* the edits are bounded: with no rule there is nothing to do
CHECK_DEADLOCK FALSE
