\* Two runners, two stoppers, two generations, batches of two jobs.
SPECIFICATION LifecycleFairSpec
CONSTANTS
    Runners = {r1, r2}
    Stoppers = {s1, s2}
    Bounded = {s2}
    BatchSize = 2
    MaxGenerations = 2
INVARIANTS
    JoinMeansQuiet
    CancelReachesAll
    GenerationsDoNotOverlap
PROPERTIES
    GracefulStopDrains
    StopReturns
