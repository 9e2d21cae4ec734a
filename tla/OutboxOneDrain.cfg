SPECIFICATION FairSpec
CONSTANTS
    Drains = {d1}
    None = None
    NumEvents = 3
    Unreadable = {2}
    AttemptCap = 2
    MaxFaults = 2
    MaxCrashes = 2
PROPERTIES
    AtomicPerEvent Drained
