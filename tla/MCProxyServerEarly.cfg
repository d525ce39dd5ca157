SPECIFICATION FairSpec
CONSTANTS
    p1 = p1
    p2 = p2
    s1 = s1
    e1 = e1
    Pod = {p1, p2}
    Service = {s1}
    Slice = {e1}
    ServiceOf <- MCServiceOf
    Unreachable = {p2}
    NoThread = NoThread
    MaxChanges = 0
    MaxMishaps = 0
    Later = {}
    Changing = {}
PROPERTIES
    NoGap
