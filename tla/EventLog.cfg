SPECIFICATION MCSpec
CONSTANTS
    Writers = {w1, w2}
    None = None
    Types = {"forecast.created", "source.attached"}
    Derivable = {"forecast.created"}
    CascadeTypes = {"forecast.created"}
    Actors = {a1}
    Shapes = {s1, s2, s3}
    CallerKeys = {k1}
    a1 = a1
    k1 = k1
    s1 = s1
    s2 = s2
    s3 = s3
    Calls <- MCCalls
    MaxSends = 3
    MaxCrashes = 1
INVARIANTS
    KeyUnique OkIsDurable WholeUnits
PROPERTIES
    ExactlyOnce OutboxFollowsLog LockReleased
