SPECIFICATION Spec
CONSTANTS
    Service = {web, db}
    Port = {http, dns}
    ClusterIP = {ip1, ip2}
    Network = {net1}
    NoNetwork = NoNetwork
    NoService = NoService
    NilMap = NilMap
    NoChange = NoChange
INVARIANTS
    TypeOK
    NothingLost
PROPERTIES
    ImplementsView
