SPECIFICATION Spec
CONSTANTS
    Markets = {m1}
    m1 = m1
    Vocabularies = {"yesno", "truefalse"}
    BinaryVocabularies = {"yesno", "truefalse"}
    ForecastKinds <- OverdueForecasts
    OutcomeKinds <- TwoFinals
    MaxForecasts = 1
    MaxOutcomes = 2
    MaxSnapshots = 0
    MaxLinks = 0
CHECK_DEADLOCK FALSE
PROPERTIES
    ScoredStands
