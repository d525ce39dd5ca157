SPECIFICATION Spec
CONSTANTS
    Service = {web}
    Worker = {w1, w2}
    MaxVersion = 3
    MaxIncarnation = 2
    MaxSlices = 3
    maxRetries = 0
    MaxMishaps <- MCFailedOrRemoved
    NoSlice = NoSlice
SYMMETRY MCSymmetry
INVARIANTS
    TypeOK
    OneWorkerPerService
    NoDuplicates
PROPERTIES
    NeverBack
    ReliablyPublished
