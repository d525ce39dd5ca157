SPECIFICATION Spec
CONSTANTS
    http = http
    nilName = nilName
    a = a
    six = six
    Service = {web, db}
    SliceName = {slice1, slice2}
    PortName = {http}
    PortNumber = {0, 80, 81}
    Address = {a, six}
    IPv4 = {a}
    PortList <- MCPortList
    EndpointList <- MCEndpointList
    NoSlice = NoSlice
    NoInfo = NoInfo
INVARIANTS
    TypeOK
    PendingLeadsToSlices
    MapShowsApplied
PROPERTIES
    ImplementsView
