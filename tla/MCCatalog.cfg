SPECIFICATION Spec
CONSTANTS
    Null = Null
    Undef = Undef
    w1 = w1
    w2 = w2
    a = a
    b = b
    Workers = {w1, w2}
    Names = {a, b}
    Details = {a, b}
    Seed <- MCSeed
    Users = {3, 4}
    RoleOf <- MCRole
    Requests <- MCRequests
    Contending <- MCContending
    MaxRows = 7
    MaxFailures = 1
INVARIANTS
    TypeOK
    ActiveNamesUnique
    DeletionsAttributed
PROPERTIES
    DeletionsFinal
    EditsWhatItNames
    DeletionReachesChildren
    ManagersStayHome
