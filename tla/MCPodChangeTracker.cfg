SPECIFICATION Spec
CONSTANTS
    p1 = p1
    p2 = p2
    c1 = c1
    c2 = c2
    c3 = c3
    net1 = net1
    net2 = net2
    Pod = {p1, p2}
    Container = {c1, c2, c3}
    Interfaces = {net1, net2}
    PodObject <- MCPodObject
    NoContainer = NoContainer
    NoInterfaces = NoInterfaces
    ExitedPath = ExitedPath
    NoPath = NoPath
    NoPod = NoPod
    NoInfo = NoInfo
    NoChange = NoChange
INVARIANTS
    TypeOK
    PathFollowsContainer
PROPERTIES
    ImplementsView
