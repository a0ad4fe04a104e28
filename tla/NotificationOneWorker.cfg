\* One worker: the send budget, finality, and under fairness an end.
SPECIFICATION FairSpec
CONSTANTS
    NoId = NoId
    Ids = {n1, n2}
    Workers = {w1}
    QueueCap = 1
    Limits = {1, 2}
    InitialBackoff = 0
    MaxBackoff = 2
    RetryBatch = 1
    MaxFaults = 1
INVARIANTS
    TypeOK
    SendBudget
    FailureIsEarned
    SucceededWasDelivered
    WaitIsEarned
PROPERTIES
    SettledIsFinal
    ImplementsContract
    DeliveriesSettle
\* every row may be settled or gone and nothing left to do
CHECK_DEADLOCK FALSE
