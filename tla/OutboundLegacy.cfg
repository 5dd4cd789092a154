\* A job held by migration 00014: two operators reconcile it at once, it is
\* retried and two workers send what is left.
SPECIFICATION FairSpec
CONSTANTS
    Jobs = {j1}
    LegacyJobs = {j1}
    Departing = {j1}
    Workers = {w1, w2}
    Operators = {o1, o2}
    NumRecipients = 2
    MaxAttempts = 4
    StartTicks = 0
    HandlerTicks = 1
    LeaseTicks = 1
    RetryTicks = 1
    MaxFaults = 1
    MaxRequeues = 1
INVARIANTS
    LedgerIsTrue
PROPERTIES
    HoldNeedsEvidence
    QueuedJobsSettle
