\* One job of two recipients, two workers, an operator, two faults, one retry.
SPECIFICATION Spec
CONSTANTS
    Jobs = {j1}
    LegacyJobs = {}
    Departing = {j1}
    Workers = {w1, w2}
    Operators = {o1}
    NumRecipients = 2
    MaxAttempts = 3
    StartTicks = 0
    HandlerTicks = 1
    LeaseTicks = 1
    RetryTicks = 1
    MaxFaults = 2
    MaxRequeues = 1
SYMMETRY WorkerSymmetry
INVARIANTS
    TypeOK
    AtMostOneCopy
    SentIsDelivered
    MarkerMatchesLedger
PROPERTIES
    LiveClaimIsFenced
    KeepsPromise
