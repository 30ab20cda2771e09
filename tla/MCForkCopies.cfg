\* Two Forks, a Service whose selector moves, a ForkManager whose header
\* key changes, a Fork that may come to name no ForkManager, three user writes
\* and one API failure, with the resync: the copies of every Fork converge.
CONSTANTS
    ForkNames = {"f", "g"}
    IdOf <- MCIdOf
    ForkVersions <- MCForkVersions
    InitForks <- MCInitForks
    ServiceVersions <- MCServiceVersions
    InitServices <- MCInitServices
    Deployments <- MCDeployments
    SvcNames = {"a", "b"}
    DeployNames = {"x", "y"}
    UserKeys = {"app"}
    UserValues = {"1", "2"}
    SvcSelectors <- MCSvcSelectors
    Manager = "ns/fm"
    HeaderKeys = {"x-fork", "x-env"}
    InitHeaderKey = "x-fork"
    IdKey = "fork-id"
    RoutedPrefix = "routed-from-"
    Templates = {None}
    None = None
    NoMeta = NoMeta
    Resyncs = TRUE
    MaxChanges = 3
    MaxFailures = 1
SPECIFICATION Spec
PROPERTY CopiesConverge
