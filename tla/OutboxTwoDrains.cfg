SPECIFICATION MCSpec
CONSTANTS
    Drains = {d1, d2}
    None = None
    NumEvents = 2
    Unreadable = {}
    AttemptCap = 1
    MaxFaults = 0
    MaxCrashes = 0
    Importers = {u1, u2}
    Commits <- MCCommits
    Fills <- MCFills
    JsonlFiles <- MCJsonlFiles
    CsvFiles <- MCCsvFiles
    SegmentOf <- MCSegmentOf
    Numbers = {"1", "2"}
    Nothing = Nothing
    FirstRows <- MCFirstRows
    OtherLines <- MCOtherLines
    MaxImports = 2
    MaxOthers = 1
SYMMETRY JsonlSymmetry
CHECK_DEADLOCK FALSE
INVARIANTS
    WholeWhenQuiet ImportIsWhole
