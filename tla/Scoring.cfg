SPECIFICATION Spec
CONSTANTS
    Markets = {m1, m2}
    m1 = m1
    m2 = m2
    Vocabularies = {"yesno", "truefalse"}
    BinaryVocabularies = {"yesno", "truefalse"}
    ForecastKinds <- OverdueForecasts
    OutcomeKinds <- AnyOutcome
    MaxForecasts = 2
    MaxOutcomes = 2
    MaxSnapshots = 1
    MaxLinks = 1
CHECK_DEADLOCK FALSE
SYMMETRY MarketSymmetry
INVARIANTS
    SettledForecastsScored
    ReadersAgree
PROPERTIES
    ScoreGuard
    FollowsLifecycle
