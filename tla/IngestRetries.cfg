\* Two requests that may carry the same points, one sample with a key and one
\* with a blank key, retries, retention as long as the age points may have, and
\* one failure.
SPECIFICATION Spec
CONSTANTS
    s1 = s1
    s2 = s2
    k1 = k1
    blank = blank
    d1 = d1
    NoKey = NoKey
    BlankKeys = {blank}
    Samples = {s1, s2}
    SampleKey <- OneKey
    DeviceOf <- OneDevice
    Requests = {q1, q2}
    MaxBatch = 2
    MaxPointAge = 2
    MaxSkew = 1
    RawRetention = 2
    MaxRequest = 1
    Second = 2
    MaxTime = 4
    MaxSends = 3
    MaxFaults = 1
SYMMETRY RequestSymmetry
INVARIANTS
    TypeOK
    ConfirmedIsCounted
PROPERTIES
    RecountNeedsPurge
\* requests and time are bounded
CHECK_DEADLOCK FALSE
