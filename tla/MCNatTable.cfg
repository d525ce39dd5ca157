SPECIFICATION FairSpec
CONSTANTS
    s1 = s1
    s2 = s2
    p1 = p1
    p2 = p2
    p3 = p3
    Service = {s1, s2}
    Port = {p1, p2, p3}
    ServiceOf <- MCServiceOf
    Headless = Headless
    Nothing = Nothing
    Endpoint = {e1}
    Address = {a1, a2}
    Link = {l1}
    MaxChanges = 4
    MaxFailures = 1
INVARIANTS TypeOK JumpsResolve RulesExact RoutesFollow StopsClean
PROPERTIES NeverInterrupted RulesSettle
