SPECIFICATION MCSpec
CONSTANTS
    Clients = {p1, p2}
    None = None
    Pages <- TwoPages
    Touches <- TwoWrites
    Imported <- Third
    MaxOpens = 1
    MaxWrites = 2
    MaxAdmin = 1
    MaxCrashes = 0
    Processes = {q1}
    Latest = 5
    Marks <- SomeMarks
    Again <- SomeAgain
    Forecasts = {f1}
    NoProcess = NoProcess
    MaxCommits = 0
CHECK_DEADLOCK FALSE
INVARIANTS
    BackupIsWhole
