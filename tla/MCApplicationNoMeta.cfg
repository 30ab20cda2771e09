\* A Fork whose deployment template has a spec and no metadata: building
\* its DeploymentCopies reads the labels through a nil pointer.
CONSTANTS
    SvcNames = {"a", "b"}
    DeployNames = {"x", "y"}
    UserKeys = {"app"}
    UserValues = {"1", "2"}
    SvcSelectors <- MCSvcSelectors
    ForkName = "f"
    Identifier = "id"
    HeaderKey = "x-fork"
    IdKey = "fork-id"
    RoutedPrefix = "routed-from-"
    Templates <- MCTemplatesNoMeta
    None = None
    NoMeta = NoMeta
    CliArgs <- MCNoCliArgs
    Containers <- MCContainers
SPECIFICATION Spec
INVARIANT BuildTotal
