SPECIFICATION Spec
CONSTANTS
    Null = Null
    Undef = Undef
    e1 = e1
    e2 = e2
    hr = hr
    t1 = t1
    t2 = t2
    noTask = noTask
    l1 = l1
    l2 = l2
    m1 = m1
    m2 = m2
    w1 = w1
    w2 = w2
    Workers = {w1, w2}
    Employees = {e1, e2, hr}
    Tasks = {t1, t2}
    EmployeeIds = {e1, e2, hr}
    TaskIds = {t1, t2, noTask}
    LocalIds = {l1, l2}
    ManualIds = {m1, m2}
    Editors = {hr}
    SyncRequests <- Batches
    ManualDtos <- OneManual
    UpdateDtos <- OneChange
    Archivable = {}
    DayLength = 4
    MaxEdits = 2
    MaxFailures = 1
SYMMETRY Sym
INVARIANTS
    EntryIdsUnique
    EditTrail
PROPERTY OwnEntriesOnly
