\* DeploymentCopies: identity by name, desired name longer than 63 characters.
CONSTANTS
    p1 = p1
    p2 = p2
    w1 = w1
    w2 = w2
    Parents = {p1}
    Workers = {w1}
    NoOwner = NoOwner
    None = None
    Vals = {"v1", "v2"}
    Keys <- MCKeys
    ParentName <- MCParentName
    DesiredLists <- MCDesiredCopies
    InitStore <- MCInitStore
    IntentWatchers = {w1}
    IdentityByName = TRUE
    Resyncs = TRUE
    MaxNameLen = 3
    NameMargin = 3
    MaxFailures = 1
    MaxIntentChanges = 0
SPECIFICATION Spec
INVARIANT IdempotentRefresh
