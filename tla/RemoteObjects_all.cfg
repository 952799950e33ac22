SPECIFICATION FairSpec
CHECK_DEADLOCK FALSE
CONSTANTS
    b1 = b1
    b2 = b2
    u1 = u1
    l1 = l1
    l2 = l2
    o1 = o1
    r1 = r1
    r2 = r2
    m = m
    n = n
    p = p
    s = s
    Buses = {b1, b2}
    NoBus = NoBus
    Users = {u1}
    LoopOf <- Loop
    NoThread = NoThread
    Objects = {o1}
    NoObject = NoObject
    Layout <- OfEachKind
    KindOf <- KindsOf
    Wishes <- Asked
    ServiceOf <- Services
    Requests = {r1, r2}
    NoRequest = NoRequest
    MaxExposures = 2
INVARIANTS
    RemoteTypeOK
    RequestReachesMember
    EndsAreEarned
    SharedOnlyUnlocked
PROPERTIES
    RequestsAreAnswered
    ServesInTurn
