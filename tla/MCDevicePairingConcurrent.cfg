SPECIFICATION Spec
CONSTANTS
    Null = Null
    Undef = Undef
    e1 = e1
    e2 = e2
    u1 = u1
    w1 = w1
    w2 = w2
    Workers = {w1, w2}
    Employees = {e1, e2}
    UserCodes = {u1}
    Volatile = {}
    Ttl = 1
    PollInterval = 1
    MaxInterval = 2
    MaxTime = 2
    MaxCodes = 2
    MaxSessions = 1
    MaxFailures = 0
SYMMETRY Sym
INVARIANTS
    TypeOK
    UserCodesUnique
