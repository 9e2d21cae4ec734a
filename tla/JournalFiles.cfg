SPECIFICATION MCSpec
CONSTANTS
    Clients = {p1, p2}
    None = None
    Pages <- TwoPages
    Touches <- TwoWrites
    Imported <- Third
    MaxOpens = 3
    MaxWrites = 2
    MaxAdmin = 3
    MaxCrashes = 1
    Processes = {q1, q2}
    Latest = 5
    Marks <- SomeMarks
    Again <- SomeAgain
    Forecasts = {f1, f2}
    NoProcess = NoProcess
    MaxCommits = 4
SYMMETRY MCSymmetry
CHECK_DEADLOCK FALSE
INVARIANTS
    JournalIsTruth SchemaIsVersion
PROPERTIES
    SignalsAreTimely
