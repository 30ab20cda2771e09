SPECIFICATION LiveSpec
CONSTANTS
    ConfigNames = {1, 2}
    Hosts = {11, 12}
    HeaderNames = {"x"}
    HeaderValues = {"", "v"}
    Targets = {21, 22}
    Empty = ""
    InitConfigs <- MCInitConfigs
    AtRest = FALSE
    ConfigVersions <- MCConfigVersions
    Resyncs = TRUE
    MaxChanges = 1
    MaxFailures = 1
    MaxCrashes = 1
    None = None
INVARIANT TypeOK
PROPERTY Converges
