SPECIFICATION MCSpec
CHECK_DEADLOCK FALSE
CONSTANTS
    m1 = m1
    Markets = {m1}
    DecisionKinds <- Kinds
    Prices = {30, 70}
    None = None
    StaleAfter = 1
    MaxDay = 2
    MaxDecisions = 2
    MaxSnapshots = 2
    MaxNotes = 1
    ForecastKinds <- MCForecastKinds
    LiveUntil <- MCLiveUntil
    Budgets <- MCBudgets
    PageSize = 1
    MaxForecasts = 2
    MaxCalls = 1
INVARIANTS
    ExposureFollowsEntries PnlSurfacesAgree WalkShowsWhatStays PacketIsOneMoment
PROPERTIES
    NeverReopens
