\* Without resync, the watcher alone must bring an overdue Fork to the
\* reconcile; the event it sends may carry the name of the Fork listed after.
CONSTANTS
    m1 = m1
    m2 = m2
    Managers = {m1}
    MgrNs <- MCMgrNs
    MgrName <- MCMgrName
    Upstreams <- MCUpstreams
    HeaderKey <- MCHeaderKey
    ForkSpecs <- MCForkSpecsAlias
    InitForks <- MCInitForksAlias
    InitMappings <- MCInitMappings
    Malformed = Malformed
    NoOwner = NoOwner
    None = None
    FwdHost = "x-forwarded-host"
    Authority <- MCAuthority
    Resyncs = FALSE
    MaxFailures = 0
    MaxForkChanges = 0
    MaxTime = 1
    MaxCrashes = 0
SPECIFICATION Spec
PROPERTY OverdueForksDeleted
