SPECIFICATION Spec
CONSTANTS
    Null = Null
    NoEnd = NoEnd
    e1 = e1
    e2 = e2
    t1 = t1
    t2 = t2
    d1 = d1
    d2 = d2
    DayLength = 4
    Zone = 0
    Employees = {e1, e2}
    Tasks = {t1, t2}
    Departments = {d1, d2}
    DepartmentOf <- MCDepartmentOf
    Inputs <- MCInputs
    Queries <- MCQueries
    Volatile = {e1, t1, d1}
    HalvesUp <- MCHalvesUp
    MaxEntries = 4
INVARIANTS
    TypeOK
    PeopleCovered
    TablesAddUp
    HoursComplete
