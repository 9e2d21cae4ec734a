SPECIFICATION MCSpec
CONSTANTS
    Agents = {a1, a2}
    Markets = {"event", "other"}
    Calls <- MCCalls
    History <- MCHistory
    Series <- MCSeries
    Ttl <- MCTtl
    MaxClock = 2
    MaxSnapshots = 3
    NoValue = NoValue
    Promoters = {p1, p2}
    Bundles <- MCBundles
    MaxAttempts = 3
    None = None
    Reviewers = {r1}
    Histories <- MCHistories
    Requests <- MCRequests
    MaxRecords = 2
    ReceiptCap = 1
    MaxTime = 3
    MaxExports = 2
    Nil = Nil
    Planners = {q1, q2}
    Orders <- MCOrders
    Market <- MCMarket
    MaxRelated = 3
    MaxDeaths = 1
SYMMETRY Symmetry
CHECK_DEADLOCK FALSE
INVARIANTS
    OneOutcomePerMarket RowIsLogged BundleIsWhole RepeatableAsOf ScoresHaveOutcomes PlanEndsComplete
