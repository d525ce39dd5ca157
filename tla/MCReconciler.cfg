SPECIFICATION Spec
CONSTANTS
    a1 = a1
    a2 = a2
    a3 = a3
    ports1 = ports1
    ready = ready
    unready = unready
    Address = {a1, a2, a3}
    Condition = {ready, unready}
    PortMap = {ports1, none}
    EmptyPorts = none
    SliceName = {slice1, slice2, slice3}
    MaxMishaps = 1
    MaxEndpoints = 2
    PodState <- MCPodState
    NoPod = NoPod
    NoSlice = NoSlice
SYMMETRY MCSymmetry
INVARIANTS
    TypeOK
    Capacity
    Exact
    MetricsExact
    Stable
PROPERTIES
    NeverLost
