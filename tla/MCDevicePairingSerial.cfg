SPECIFICATION Spec
CONSTANTS
    Null = Null
    Undef = Undef
    e1 = e1
    e2 = e2
    u1 = u1
    w1 = w1
    w2 = w2
    Workers = {w1}
    Employees = {e1, e2}
    UserCodes = {u1}
    Volatile = {e1}
    Ttl = 2
    PollInterval = 1
    MaxInterval = 2
    MaxTime = 3
    MaxCodes = 1
    MaxSessions = 2
    MaxFailures = 1
INVARIANTS
    OneOwner
    NewestTokenAccepted
PROPERTIES
    ConfirmationStands
    PollsSpaced
    OverdueCodesClose
    ImplementsLifecycle
