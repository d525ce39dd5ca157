SPECIFICATION Spec
CONSTANTS
    Service = {web}
    Worker = {w1}
    MaxVersion = 1
    MaxIncarnation = 1
    MaxSlices = 2
    maxRetries = 1
    MaxMishaps <- MCRemoved
    NoSlice = NoSlice
PROPERTIES
    StaleOnlyIfBehind
