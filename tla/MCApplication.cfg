\* Every namespace of up to two Services and two Deployments over one label
\* key, with Services that have a selector, and every Fork: the copies
\* route among themselves as the originals do.
CONSTANTS
    SvcNames = {"a", "b"}
    DeployNames = {"x", "y"}
    UserKeys = {"app"}
    UserValues = {"1", "2"}
    SvcSelectors <- MCSvcSelectors
    ForkName = "f"
    Identifier = "id"
    HeaderKey = "x-fork"
    IdKey = "fork-id"
    RoutedPrefix = "routed-from-"
    Templates <- MCTemplates
    None = None
    NoMeta = NoMeta
    CliArgs <- MCCliArgs
    Containers <- MCContainers
SPECIFICATION Spec
INVARIANT TypeOK
INVARIANT CopiesMirrorRouting
INVARIANT SelectorsFollowOptions
INVARIANT ManifestSwitchesImage
