\* Services may have no selector (Kubernetes: the Service selects no pod;
\* labels.Set{}.AsSelector(): every Deployment is routable from it).
CONSTANTS
    SvcNames = {"a", "b"}
    DeployNames = {"x", "y"}
    UserKeys = {"app"}
    UserValues = {"1", "2"}
    SvcSelectors <- MCSvcSelectorsAll
    ForkName = "f"
    Identifier = "id"
    HeaderKey = "x-fork"
    IdKey = "fork-id"
    RoutedPrefix = "routed-from-"
    Templates <- MCTemplates
    None = None
    NoMeta = NoMeta
    CliArgs <- MCNoCliArgs
    Containers <- MCContainers
SPECIFICATION Spec
INVARIANT CopiesMirrorRouting
