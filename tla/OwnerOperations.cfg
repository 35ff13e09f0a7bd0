SPECIFICATION Spec
CONSTANTS
    Requests <- GovernedRequests
    Ids = {i1, i2, i3, i4}
    Agents = {}
    Tasks = {t1, t2}
    Sessions = {s1}
    Continuations = {c1}
    Resources = {r1}
    Owners = {o1, o2}
    Daemons = {d1}
    Workers = {w1, w2}
    DaemonOf <- TwoThreads
    EnforceModes = {TRUE, FALSE}
    QuarantineAfter = 3
    MaxDepth = 2
    MaxClock = 1
    MaxTtl = 2
    MaxAudit = 4
    None = None
    i1 = i1
    i2 = i2
    i3 = i3
    i4 = i4
    a1 = a1
    t1 = t1
    t2 = t2
    s1 = s1
    c1 = c1
    c2 = c2
    r1 = r1
    o1 = o1
    o2 = o2
    d1 = d1
    d2 = d2
    w1 = w1
    w2 = w2
    w3 = w3
CONSTRAINT OneConcern
INVARIANTS GrantBinding DelegationAttenuates ChainsAreBounded AuditTellsTheState ContinuationDeliveredOnce
PROPERTIES FencesOnlyGrow
