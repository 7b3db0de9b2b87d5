\* Three accounts, of which the first is the administrator, and an empty forum.
SPECIFICATION Spec
CONSTANTS
    u1 = u1
    u2 = u2
    u3 = u3
    t1 = t1
    t2 = t2
    m1 = m1
    m2 = m2
    g1 = g1
    g2 = g2
    c1 = c1
    c2 = c2
    User = {u1, u2, u3}
    Anonymous = anonymous
    NoUser = nobody
    Thread = {t1, t2}
    Message = {m1, m2}
    Tag = {g1, g2}
    Category = {c1, c2}
    Forum = forum
    Unset = unset
    Top = 3
    Limit = 4
    MaxClock = 2
    MaxCommands = 3
    Policies <- MCPolicies
INVARIANTS
    FirstUserKeepsTheForum
    RecordedGrantsAreAccepted
    BatchAgreesWithSingle
CHECK_DEADLOCK FALSE
