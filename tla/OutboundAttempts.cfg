\* How many attempts a job gets: one worker, one recipient, no faults.
SPECIFICATION FairSpec
CONSTANTS
    Jobs = {j1}
    LegacyJobs = {}
    Departing = {}
    Workers = {w1}
    Operators = {}
    NumRecipients = 1
    MaxAttempts = 3
    StartTicks = 1
    HandlerTicks = 1
    LeaseTicks = 2
    RetryTicks = 1
    MaxFaults = 0
    MaxRequeues = 0
PROPERTIES
    DeadWhenExhausted
