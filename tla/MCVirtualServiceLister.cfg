\* Every namespace of up to three VSConfigs: the desired VirtualService of
\* each Service follows spec 4.5 for every List order.
CONSTANTS
    ConfigNames <- MCConfigNames
    Hosts = {"s1", "s2"}
    HeaderNames = {"x-fork"}
    HeaderValues = {"", "v"}
    Targets = {"s1-f", "s2-f"}
    Empty = ""
SPECIFICATION Spec
INVARIANT RoutesFollowSpec
