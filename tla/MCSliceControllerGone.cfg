SPECIFICATION Spec
CONSTANTS
    Service = {web}
    Worker = {w1}
    MaxVersion = 1
    MaxIncarnation = 1
    MaxSlices = 3
    maxRetries = 1
    MaxMishaps <- MCLost
    NoSlice = NoSlice
PROPERTIES
    SyncPublishes
