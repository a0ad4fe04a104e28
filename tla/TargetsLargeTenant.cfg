\* Violated: the sweep asks for a page the device service does not grant,
\* takes the short answer for the last page, and misses the oldest device.
SPECIFICATION Spec
CONSTANTS
    None = None
    Devices = {d1, d2}
    Rules = {r1}
    Tags = {t1}
    Workers = {}
    Requests = {q1}
    PageSize = 3
    ServiceMax = 2
    ServiceDefault = 1
    MaxEdits = 4
    MaxFaults = 0
SYMMETRY Symmetry
INVARIANTS
    SweepReaches
\* the edits are bounded: with no rule there is nothing to do
CHECK_DEADLOCK FALSE
