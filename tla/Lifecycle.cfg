\* From the settings to the orderly shutdown, with one failure of the server,
\* of the shutdown or of closing.
SPECIFICATION FairSpec
CONSTANTS
    None = None
    Settings <- SomeSettings
    Counts <- SomeCounts
    DefaultWorkers = 2
    QueueCap = 1
    MaxHandlers = 1
    Unit = 3
    Half = 8
    MaxFaults = 1
INVARIANTS
    TypeOK
    CloseIsLast
    ReadyMeansStaffed
    LeftOpenNeedsFault
    PanicNeedsBadSetting
PROPERTIES
    LateWorkIsStored
    StopReturns
\* the process may end
CHECK_DEADLOCK FALSE
