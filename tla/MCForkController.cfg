\* Two managers in one namespace sharing an upstream host, four kinds of Fork,
\* a stale and an unowned Mapping, two Fork writes and one API failure.
CONSTANTS
    m1 = m1
    m2 = m2
    Managers = {m1, m2}
    MgrNs <- MCMgrNsShared
    MgrName <- MCMgrName
    Upstreams <- MCUpstreams
    HeaderKey <- MCHeaderKey
    ForkSpecs <- MCForkSpecs
    InitForks <- MCInitForks
    InitMappings <- MCInitMappings
    Malformed = Malformed
    NoOwner = NoOwner
    None = None
    FwdHost = "x-forwarded-host"
    Authority <- MCAuthority
    Resyncs = FALSE
    MaxFailures = 1
    MaxForkChanges = 2
    MaxTime = 0
    MaxCrashes = 1
SPECIFICATION Spec
INVARIANT TypeOK
INVARIANT MappingsReflectForks
