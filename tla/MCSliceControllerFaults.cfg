SPECIFICATION FairSpec
CONSTANTS
    Service = {web}
    Worker = {w1}
    MaxVersion = 2
    MaxIncarnation = 1
    MaxSlices = 5
    maxRetries = 1
    MaxMishaps <- MCLostOrFailover
    NoSlice = NoSlice
PROPERTIES
    Converges
    StaleOnlyIfBehind
    NeverBack
