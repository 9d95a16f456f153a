SPECIFICATION Spec
CONSTANTS
    Null = Null
    Undef = Undef
    e1 = e1
    w1 = w1
    browser = browser
    app = app
    Workers = {w1}
    Employees = {e1}
    Clients = {browser, app}
    Apps = {app}
    Roles = {"EMPLOYEE", "HR"}
    Passwords = {1, 2}
    Endpoints <- MCEndpoints
    Signatures = {1, 2}
    AccessTtl = 1
    RefreshTtl = 2
    MaxSessions = 1
INVARIANTS
    TypeOK
    CutOff
PROPERTY RoleCatchesUp
