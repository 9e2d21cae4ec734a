SPECIFICATION MCSpec
CONSTANTS
    MaxRisk = 2
    RiskNull = RiskNull
    Policies <- MCPolicies
    Checks <- MCChecks
    Claims <- MCClaims
    Calls <- MCCalls
    Ledger = {"market"}
    grouped = FALSE
    MaxRecords = 4
    MaxRuns = 2
    SourceAdds <- MCSourceAdds
    SourceAttaches <- MCAttaches
    SourceLinks <- MCSourceLinks
    Captures <- MCCaptures
    Entered <- MCEntered
    GivenInline <- MCGiven
    NoKey = NoKey
    MaxSources = 2
    MaxEdgesBySource = 3
    Readers = {g1}
    Histories <- MCHistoriesOfEvidence
    Bars <- MCBars
    OldSnapshot = 1
    OldSource = 7
    Span = 3
    MaxWindows = 2
    Zones <- MCZones
    MaxReports = 1
    Nil = Nil
CHECK_DEADLOCK FALSE
INVARIANTS
    ReportSeesOnce CaptureIsWhole VerdictsFailClosed OkMeansStored CriticalFindingsStay ReadyIsEarned ScoresCountOnce
