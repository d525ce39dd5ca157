SPECIFICATION FairSpec
CONSTANTS
    p1 = p1
    p2 = p2
    s1 = s1
    e1 = e1
    Pod = {p1}
    Service = {s1}
    Slice = {e1}
    ServiceOf <- MCServiceOf
    Unreachable = {}
    NoThread = NoThread
    MaxChanges = 1
    MaxMishaps = 1
    Later = {s1}
    Changing = {s1}
INVARIANTS
    TypeOK
    StopsClean
PROPERTIES
    GapOnlyAtStart
    RulesFollow
