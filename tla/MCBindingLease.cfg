SPECIFICATION Spec
CONSTANTS
    LeaseSeconds = 6
    RenewInterval = 2
    FailureGrace = 2
    MinRemaining = 2
    AbsoluteTtl = 20
    ExecuteMax = 12
    StartTimeout = 2
    RequestTimeout = 1
    RetryDelay = 1
    PermitLifetime = 2
    Limits = {4, 9, 20}
    MaxPermits = 2
    MaxTime = 30
INVARIANTS
    TypeOK
    RunningBounded
    HealthyAdmits
    PermitsWithinLease
\* The clock has a bound, and the Bridge may have ended.
CHECK_DEADLOCK FALSE
