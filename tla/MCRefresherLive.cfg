\* One parent refreshed by two controllers, with an intent change, a store
\* failure and the manager's periodic resync: every solo successful Refresh
\* leaves exactly the list, a repeated one writes nothing, and the children
\* converge.
CONSTANTS
    p1 = p1
    p2 = p2
    w1 = w1
    w2 = w2
    Parents = {p1}
    Workers = {w1, w2}
    NoOwner = NoOwner
    None = None
    Vals = {"v1", "v2"}
    Keys <- MCKeys
    ParentName <- MCParentName
    DesiredLists <- MCDesiredLists
    InitStore <- MCInitStore
    IntentWatchers = {w1}
    IdentityByName = FALSE
    Resyncs = TRUE
    MaxNameLen = 3
    NameMargin = 3
    MaxFailures = 1
    MaxIntentChanges = 1
SPECIFICATION Spec
INVARIANT TypeOK
INVARIANT RefreshPostcondition
INVARIANT IdempotentRefresh
PROPERTY Converges
