SPECIFICATION Spec
CONSTANTS
    N = 3
    Resumed = {3}
    MaxConcurrency = 2
    LaunchLimit = 2
    LaunchInterval = 1
    RetryBase = 1
    ShrinkInterval = 1
    RecoveryInterval = 2
    MaxRateLimits = 2
INVARIANTS
    OnePlace
    EndsExactlyOnce
PROPERTIES
    SuspendedIsRetried
    BatchEnds
