SPECIFICATION FairSpec
CONSTANTS
    Requests <- CoreRequests
    Ids = {i1, i2, i3}
    Agents = {a1}
    Tasks = {}
    Sessions = {}
    Continuations = {}
    Resources = {}
    Owners = {}
    Daemons = {d1, d2}
    Workers = {w1, w2, w3}
    DaemonOf <- TwoDaemons
    EnforceModes = {FALSE}
    QuarantineAfter = 2
    MaxDepth = 2
    MaxClock = 0
    MaxTtl = 1
    MaxAudit = 2
    None = None
    i1 = i1
    i2 = i2
    i3 = i3
    i4 = i4
    a1 = a1
    t1 = t1
    t2 = t2
    s1 = s1
    c1 = c1
    c2 = c2
    r1 = r1
    o1 = o1
    o2 = o2
    d1 = d1
    d2 = d2
    w1 = w1
    w2 = w2
    w3 = w3
INVARIANTS TypeOK AtMostOnceDispatch AnswersAgree RetriesFollowFailure FullCountQuarantines
PROPERTIES OutcomesAreFinal ImplementsLedger QuarantineNeedsOwner OrphansAreSettled
