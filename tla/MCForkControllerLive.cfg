\* One manager, with resync, one Fork overdue once the clock ticks: the
\* Mappings converge to the Forks and the overdue Fork is deleted.
CONSTANTS
    m1 = m1
    m2 = m2
    Managers = {m1}
    MgrNs <- MCMgrNs
    MgrName <- MCMgrName
    Upstreams <- MCUpstreams
    HeaderKey <- MCHeaderKey
    ForkSpecs <- MCForkSpecsOne
    InitForks <- MCInitForksOne
    InitMappings <- MCInitMappings
    Malformed = Malformed
    NoOwner = NoOwner
    None = None
    FwdHost = "x-forwarded-host"
    Authority <- MCAuthority
    Resyncs = TRUE
    MaxFailures = 1
    MaxForkChanges = 1
    MaxTime = 1
    MaxCrashes = 0
SPECIFICATION Spec
PROPERTY Converges
PROPERTY OverdueForksDeleted
