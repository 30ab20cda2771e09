\* Two parents and two workers, with an unowned object under the name p2's
\* child is given: the first Create-or-update of that child takes the
\* object over, which spec.md's "Live child resource" forbids.  No resync:
\* once the queues are empty the controllers wait for events.
CONSTANTS
    p1 = p1
    p2 = p2
    w1 = w1
    w2 = w2
    Parents = {p1, p2}
    Workers = {w1, w2}
    NoOwner = NoOwner
    None = None
    Vals = {"v1", "v2"}
    Keys <- MCKeys
    ParentName <- MCParentName
    DesiredLists <- MCDesiredLists
    InitStore <- MCInitStoreClash
    IntentWatchers = {w1}
    IdentityByName = FALSE
    Resyncs = FALSE
    MaxNameLen = 3
    NameMargin = 3
    MaxFailures = 1
    MaxIntentChanges = 1
SPECIFICATION Spec
CHECK_DEADLOCK FALSE
PROPERTY RefinesChildStore
