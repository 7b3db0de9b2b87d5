\* Every endpoint once, and a few of them on two threads.
SPECIFICATION Spec
CONSTANTS
    w1 = w1
    w2 = w2
    u1 = u1
    u2 = u2
    a1 = a1
    a2 = a2
    k1 = k1
    k2 = k2
    Worker = {w1, w2}
    User = {u1, u2}
    NoUser = nobody
    Auth = {a1, a2}
    NoAuth = noauth
    Token = {k1, k2}
    NoToken = nocookie
    Ip = ip
    MaxAllowed = 2
    Period = 2
    Precision = 0
    CleanupEvery = 2
    Scenes <- MCScenes
INVARIANTS
    ServedAsAsked
    
    IdentityVouchedFor
    OneAccountPerIdentity
    ThrottlingRespected
PROPERTIES
    EveryRequestAnswered
    LastSeenByOwnRequests
CHECK_DEADLOCK FALSE
