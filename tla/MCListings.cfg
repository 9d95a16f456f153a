SPECIFICATION Spec
CONSTANTS
    Null = Null
    NoEnd = NoEnd
    hr = hr
    admin = admin
    DayLength = 2
    Zone = 0
    Tables <- MCTables
    Users = {hr, admin}
    Seeds <- MCSeeds
    Start = 2
    Views <- MCViews
    MaxRows = 5
    MaxTime = 3
    MaxWrites = 2
INVARIANTS
    TypeOK
    NothingSkipped
    NothingRepeated
    PagesFill
