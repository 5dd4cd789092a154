\* Whether every hold of migration 00014 can be reconciled.
SPECIFICATION Spec
CONSTANTS
    Jobs = {j1}
    LegacyJobs = {j1}
    Departing = {}
    Workers = {w1}
    Operators = {o1}
    NumRecipients = 2
    MaxAttempts = 3
    StartTicks = 1
    HandlerTicks = 1
    LeaseTicks = 2
    RetryTicks = 1
    MaxFaults = 0
    MaxRequeues = 1
INVARIANTS
    HoldCanBeReconciled
