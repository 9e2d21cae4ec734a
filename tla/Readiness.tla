----------------------------- MODULE Readiness -----------------------------
(***************************************************************************)
(* The reports that say how far the journal's evidence can be trusted:       *)
(* report.autonomy_readiness, which composes report.phase_gate_readiness     *)
(* and through it report.audit_readiness and the anchored calibration, and   *)
(* report.forecast_diagnostics.                                              *)
(*                                                                          *)
(* The readiness reports run query after query, each at a moment of its own, *)
(* beside agents that write; the diagnostics read one snapshot.  Every table *)
(* only grows: what is replaced stays, named by a row of "supersedes".        *)
(* Probabilities are in tenths, so a Brier score is in hundredths.  When an    *)
(* outcome resolved is an instant: a second (UTC) and a fraction of it, which  *)
(* the trend prints and compares in the local time of its process.  Other      *)
(* times and ages are numbers.  Left out: filters, sample ids, texts, log      *)
(* scores and calibration bins, and the expectancy series, whose closed        *)
(* positions no tool writes.                                                  *)
(***************************************************************************)
EXTENDS Integers, Sequences, FiniteSets, FiniteSetsExt, Functions

CONSTANTS
    Readers,    \* processes that ask for a report
    Histories,  \* what the agents write: sequences of rows, each with its table
    Bars,       \* thresholds that owners set
    OldSnapshot, OldSource, \* thresholds of staleness
    Span, MaxWindows,       \* width (in seconds) and number of the windows of the trend
    Zones,      \* local times of the processes that report
    MaxReports, \* bound on the reports
    Nil         \* None

Tables == {"forecasts", "scores", "supersedes", "decisions", "edges", "criteria", "records", "intents", "fills"}
Blocking == {"rule", "snapshot", "contradiction", "weak"}

\* The queries of report.autonomy_readiness, in their order: those of the audit
\* come after the two of the calibration.
Queries == <<"anchored", "resolved", "rule", "snapshot", "stale_snapshot", "microstructure", "stale_source", "contradiction",
             "weak", "retrieval", "agent", "sample", "critical", "total", "filled", "trend">>
Criteria == {"resolved_n", "brier", "skill_vs_market", "reconciliation_cleanliness", "audit_readiness", "paper_fill_coverage"}

\* A score is of a forecast that is on record.
ForecastsUpTo(h, k) == Cardinality({i \in 1..k : h[i].table = "forecasts"})
Instant == [second: Nat, fraction: Nat]
ScoreRow(row, forecasts) == row.forecast \in 1..forecasts /\ row.at \in Instant

\* A zone is some seconds ahead of UTC, and saving more in summer: the seconds of UTC
\* between a day on which its clock is put forward and one on which it is put back.
Zone == [standard: Int, saving: Nat, summer: SUBSET Int]

ASSUME ReadinessAssumption ==
    /\ Nil \notin Nat
    /\ {OldSnapshot, OldSource, MaxReports} \subseteq Nat /\ {Span, MaxWindows} \subseteq Nat \ {0}
    /\ \A h \in Histories : Len(h) \in Nat /\ h = [i \in 1..Len(h) |-> h[i]]
         /\ \A i \in DOMAIN h : /\ h[i].table \in Tables
                                /\ h[i].table = "scores" => ScoreRow(h[i].row, ForecastsUpTo(h, i))
    /\ Zones \subseteq Zone /\ \A z \in Zones : z.saving < Span
    /\ \A bar \in Bars : DOMAIN bar \subseteq Criteria /\ ("audit_readiness" \in DOMAIN bar => bar["audit_readiness"] \in BOOLEAN)

VARIABLES
    evidence,  \* the rows of each table
    writing,   \* what the agents are yet to write
    report,    \* what each reader has read
    given      \* the readiness reports handed out

readinessVars == <<evidence, writing, report, given>>

ReadinessInit ==
    /\ evidence = [t \in Tables |-> << >>] /\ writing \in Histories
    /\ report = [r \in Readers |-> Nil] /\ given = {}

-----------------------------------------------------------------------------
(* The track record *)

RowsOf(t) == {evidence[t][i] : i \in DOMAIN evidence[t]}
Replaced(kind, id) == [kind |-> kind, old |-> id] \in RowsOf("supersedes")
ForecastOf(s) == evidence["forecasts"][evidence["scores"][s].forecast]

\* The scores of binary forecasts, neither forecast nor outcome superseded.
TrackRecord ==
    {s \in DOMAIN evidence["scores"] :
        /\ ForecastOf(s).binary
        /\ ~Replaced("forecast", evidence["scores"][s].forecast)
        /\ ~Replaced("outcome", evidence["scores"][s].outcome)}
InTime(S) == {s \in S : ~evidence["scores"][s].late}
Anchored == {s \in InTime(TrackRecord) : ForecastOf(s).anchor # Nil}

Loss(p, y) == (p - y) * (p - y)
Total(S, Of(_)) == MapThenSumSet(Of, S)

\* Sums of squared errors, of the forecasts and of the market they were anchored to.
AnchoredMetrics ==
    LET Ours(s) == Loss(ForecastOf(s).p, evidence["scores"][s].y)
        Market(s) == Loss(ForecastOf(s).anchor, evidence["scores"][s].y)
    IN [n |-> Cardinality(Anchored), ours |-> Total(Anchored, Ours), market |-> Total(Anchored, Market)]

-----------------------------------------------------------------------------
(* report.audit_readiness *)

\* Entries positions in prediction or event markets.
Entries == {d \in DOMAIN evidence["decisions"] : evidence["decisions"][d].entered /\ evidence["decisions"][d].market}
Decision(d) == evidence["decisions"][d]

\* A forecast of before the convention is set apart; one whose market has got
\* its criteria since is not found any more.
MissingRule ==
    {f \in DOMAIN evidence["forecasts"] :
        LET row == evidence["forecasts"][f]
        IN row.market /\ ~row.legacy /\ (~row.rule \/ evidence["criteria"] = << >>)}
MissingSnapshot == {d \in Entries : Decision(d).snapshot = Nil}
StaleSnapshot == {d \in Entries : Decision(d).snapshot # Nil /\ Decision(d).at - Decision(d).snapshot.at > OldSnapshot}
MissingMicrostructure == {d \in Entries : Decision(d).snapshot # Nil /\ ~Decision(d).snapshot.book}

\* Source edges to the decision, or to the thesis it stands on.
Backing(d) == {e \in RowsOf("edges") : e.to = [kind |-> "decision", id |-> d] \/ e.to = [kind |-> "thesis", id |-> Decision(d).thesis]}
StaleSource == {<<y[1].source.id, y[2]>> : y \in
                  {x \in RowsOf("edges") \X Entries :
                     /\ x[1] \in Backing(x[2])
                     /\ x[1].source.fresh # Nil /\ Decision(x[2]).at - x[1].source.fresh > OldSource}}

\* For each pair of sources of one kind, on a thesis in a prediction or event market.
Contradiction ==
    {x \in RowsOf("edges") \X RowsOf("edges") :
        /\ x[1].to.kind = "thesis" /\ x[1].market /\ x[1].to = x[2].to /\ x[1].source.kind = x[2].source.kind
        /\ x[1].type = "supports" /\ x[2].type = "contradicts"}
WeakProvenance ==
    {d \in Entries : ~Decision(d).reason /\ ~\E e \in RowsOf("edges") : e.to = [kind |-> "decision", id |-> d]}
MissingRetrieval == UNION {{e.source.id : e \in {b \in Backing(d) : ~b.source.stamped}} : d \in Entries}
MissingAgent == {d \in Entries : ~Decision(d).agent}

Findings(check) ==
    CASE check = "rule" -> MissingRule
      [] check = "snapshot" -> MissingSnapshot
      [] check = "stale_snapshot" -> StaleSnapshot
      [] check = "microstructure" -> MissingMicrostructure
      [] check = "stale_source" -> StaleSource
      [] check = "contradiction" -> Contradiction
      [] check = "weak" -> WeakProvenance
      [] check = "retrieval" -> MissingRetrieval
      [] check = "agent" -> MissingAgent

-----------------------------------------------------------------------------
(* report.phase_gate_readiness *)

CriticalCodes == {"POLICY_WAIVER_BREACH", "DUPLICATE_FILL", "REJECTED_APPROVED_INTENT"}

\* Mutant: the severity that was stated is believed.
StatedCritical == {r \in DOMAIN evidence["records"] :
    evidence["records"][r].unresolved /\ evidence["records"][r].severity = "critical"}

\* Critical by its severity, or by a code that was derived or flagged by hand.
OpenCritical ==
    {r \in DOMAIN evidence["records"] :
        LET row == evidence["records"][r]
        IN row.unresolved /\ (row.severity = "critical" \/ (row.codes \cup row.flagged) \cap CriticalCodes # {})}

\* astimezone().isoformat(): the clock on the wall to the second, then a fraction,
\* if there is one, then the offset.  "+" sorts before "-", "." and "Z", in this order.
Offset(zone, second) == zone.standard + IF second \in zone.summer THEN zone.saving ELSE 0
Sign(offset) == IF offset > 0 THEN 0 ELSE IF offset < 0 THEN 1 ELSE 3
Printed(zone, t) ==
    LET offset == Offset(zone, t.second)
    IN <<t.second + offset, IF t.fraction = 0 THEN Sign(offset) ELSE 2, t.fraction,
         Sign(offset), IF offset < 0 THEN -offset ELSE offset>>

\* Strings are compared from the left.
SortsBefore(x, y) == \E i \in 1..5 : x[i] < y[i] /\ \A j \in 1..5 : j < i => x[j] = y[j]

Earlier(t, u) == t.second < u.second \/ (t.second = u.second /\ t.fraction < u.fraction)
Newest(times) == CHOOSE t \in times : \A u \in times : ~Earlier(t, u)
Oldest(times) == CHOOSE t \in times : \A u \in times : ~Earlier(u, t)
Shifted(t, seconds) == [t EXCEPT !.second = @ + seconds]

\* The windows are laid from just after the newest resolution backwards.
\* Mutant: the newest resolution is where the first window ends.
EndsAtNewest(times) == Newest(times)

End(times) == Shifted(Newest(times), 1)

\* The k-th edge: the windows end at one and begin at the next.
Edge(times, k) == Shifted(End(times), -(k * Span))

Windows(times) ==
    LET enough == {k \in 0..(MaxWindows + 1) : k > MaxWindows \/ ~Earlier(Oldest(times), Edge(times, k))}
    IN IF times = {} THEN [panes |-> << >>, truncated |-> FALSE]
       ELSE [panes |-> [k \in 1..Min({MaxWindows, Min(enough)}) |-> [from |-> Edge(times, k), to |-> Edge(times, k - 1)]],
             truncated |-> Min(enough) > MaxWindows]
InPane(zone, pane, t) ==
    /\ ~SortsBefore(Printed(zone, t), Printed(zone, pane.from))
    /\ SortsBefore(Printed(zone, t), Printed(zone, pane.to))

\* _calibration_trend: the scores that are not late, by the time their outcome resolved.
Trend(zone) ==
    LET rows == InTime(TrackRecord)
        at == [s \in rows |-> evidence["scores"][s].at]
        windows == Windows(Range(at))
    IN [rows |-> at, truncated |-> windows.truncated, panes |-> windows.panes,
        windows |-> [k \in DOMAIN windows.panes |-> {s \in rows : InPane(zone, windows.panes[k], at[s])}]]

Answer(query, zone) ==
    CASE query = "anchored" -> AnchoredMetrics
      [] query = "resolved" -> Cardinality(TrackRecord)
      [] query = "sample" -> Cardinality(Entries)
      [] query = "critical" -> Cardinality(OpenCritical)
      [] query = "total" -> Len(evidence["intents"])
      [] query = "filled" -> Cardinality(RowsOf("fills"))
      [] query = "trend" -> Trend(zone)
      [] OTHER -> Cardinality(Findings(query))

-----------------------------------------------------------------------------
(* The verdict *)

AuditReady(a) == a["sample"] > 0 /\ \A check \in Blocking : a[check] = 0

\* _passes: Nil without a measurement.  Skill has none without a loss of the market's.
Passes(a, criterion, bar) ==
    LET m == a["anchored"] IN
    CASE criterion = "resolved_n" -> a["resolved"] >= bar
      [] criterion = "brier" -> IF m.n = 0 THEN Nil ELSE m.ours <= bar * m.n
      [] criterion = "skill_vs_market" -> IF m.market = 0 THEN Nil ELSE (m.market - m.ours) * 100 >= bar * m.market
      [] criterion = "reconciliation_cleanliness" -> a["critical"] <= bar
      [] criterion = "audit_readiness" -> AuditReady(a) = bar
      [] criterion = "paper_fill_coverage" ->
            IF a["total"] = 0 THEN 0 >= bar ELSE a["filled"] * 100 >= bar * a["total"]

\* Owners must have set every bar, and there must be a record to judge.
Status(a, bars) ==
    IF DOMAIN bars # Criteria THEN "owner_thresholds_unset"
    ELSE IF a["resolved"] = 0 THEN "insufficient_data"
    ELSE IF \A c \in Criteria : Passes(a, c, bars[c]) = TRUE THEN "ready"
    ELSE "not_ready"

-----------------------------------------------------------------------------
(* report.forecast_diagnostics *)

\* The LEFT JOINs give a row for each decision on the forecast and each score of
\* it, superseded or not; without one, that side is Nil.
Joined ==
    LET Or(S) == IF S = {} THEN {Nil} ELSE S
        On1(f) == {d \in DOMAIN evidence["decisions"] : Decision(d).forecast = f}
        Of(f) == {s \in DOMAIN evidence["scores"] : evidence["scores"][s].forecast = f}
    IN UNION {{[forecast |-> f, decision |-> d, score |-> s] : d \in Or(On1(f)), s \in Or(Of(f))} :
                f \in DOMAIN evidence["forecasts"]}
Usable(j) == evidence["forecasts"][j.forecast].binary
IsLate(j) == j.score # Nil /\ evidence["scores"][j.score].late

\* _dedupe_scored_rows.
CountScored(rows) == Cardinality({<<j.forecast, j.score>> : j \in {i \in rows : i.score # Nil}})

Diagnosis ==
    LET included == {j \in Joined : Usable(j) /\ ~IsLate(j)}
    IN [sample |-> CountScored(included),
        included |-> {j.forecast : j \in included},
        excluded |-> {j.forecast : j \in {i \in Joined : ~Usable(i)}},
        late |-> Cardinality({j \in Joined : Usable(j) /\ IsLate(j)})]

-----------------------------------------------------------------------------
(* Steps *)

\* Some agent's call commits a row.
WriteRow ==
    /\ writing # << >> /\ writing' = Tail(writing)
    /\ evidence' = [evidence EXCEPT ![Head(writing).table] = Append(@, Head(writing).row)]
    /\ UNCHANGED <<report, given>>

\* What no later row can put right.
Standing == {"no_rule", "snapshot", "contradiction", "critical"}
Stands(defect) ==
    CASE defect = "no_rule" -> \E f \in MissingRule : ~evidence["forecasts"][f].rule
      [] defect = "critical" -> \E r \in RowsOf("records") :
            r.unresolved /\ (r.severity = "critical" \/ \E code \in CriticalCodes : code \in r.codes \/ code \in r.flagged)
      [] OTHER -> Findings(defect) # {}

Ask(r, bars, zone) ==
    /\ report[r] = Nil /\ Cardinality(given) < MaxReports
    /\ report' = [report EXCEPT ![r] = [bars |-> bars, zone |-> zone, answers |-> << >>, since |-> {d \in Standing : Stands(d)}]]
    /\ UNCHANGED <<evidence, writing, given>>

Query(r) ==
    /\ report[r] # Nil /\ Len(report[r].answers) < Len(Queries)
    /\ report' = [report EXCEPT ![r].answers = Append(@, Answer(Queries[Len(@) + 1], report[r].zone))]
    /\ UNCHANGED <<evidence, writing, given>>

HandIn(r) ==
    /\ report[r] # Nil /\ Len(report[r].answers) = Len(Queries)
    /\ LET a == [q \in Range(Queries) |-> report[r].answers[CHOOSE i \in DOMAIN Queries : Queries[i] = q]]
       IN given' = given \cup {[status |-> Status(a, report[r].bars), bars |-> report[r].bars,
                                zone |-> report[r].zone, trend |-> a["trend"], since |-> report[r].since]}
    /\ report' = [report EXCEPT ![r] = Nil]
    /\ UNCHANGED <<evidence, writing>>

ReadinessNext ==
    \/ WriteRow
    \/ \E r \in Readers : (\E bars \in Bars, zone \in Zones : Ask(r, bars, zone)) \/ Query(r) \/ HandIn(r)
ReadinessSpec == ReadinessInit /\ [][ReadinessNext]_readinessVars

-----------------------------------------------------------------------------
(* Properties *)

\* Autonomy is never granted on a bar the owner left out, nor over a defect that
\* stood when the report was asked for and that nothing can mend: a forecast
\* without its rule, an entry without a price, sources of one kind that
\* contradict each other on a thesis, an open critical reconciliation however it
\* became critical, though each is looked for at another moment.  Only an owner
\* who wants the audit unready, or allows open records, has it otherwise.
ReadyIsEarned ==
    \A g \in given : g.status = "ready" =>
        /\ DOMAIN g.bars = Criteria
        /\ g.bars["audit_readiness"] => g.since \subseteq {"critical"}
        /\ g.bars["reconciliation_cleanliness"] = 0 => "critical" \notin g.since

\* Which scores the windows of a trend may miss.  A cut that is said drops what is
\* older than the oldest window.  And since times are compared as they are printed,
\* two things at the outer edges are lost and not said: what resolved so near to one
\* that the clock was put back in between, and, where local time is UTC, a fraction
\* of the very second in which the oldest window begins.
MayMiss(zone, trend, t) ==
    LET newest == trend.panes[1].to
        oldest == trend.panes[Len(trend.panes)].from
        PutBack(from, to) == /\ from.second < to.second
                             /\ to.second - from.second <= zone.saving
                             /\ Offset(zone, from.second) > Offset(zone, to.second)
    IN /\ trend.panes # << >>
       /\ \/ trend.truncated /\ Earlier(t, oldest)
          \/ PutBack(oldest, t) \/ PutBack(t, newest)
          \/ /\ Offset(zone, t.second) = 0
             /\ t.second = oldest.second /\ oldest.fraction = 0 /\ t.fraction > 0

\* A score counts once wherever it is counted.  In the trend it is in one window and
\* no other, whatever the zone of the process, its summer time and the fractions, but
\* for those the windows may miss, which are in none or one (_window_buckets: windows
\* that share their edges, laid from the newest resolution backwards, in UTC; compared
\* as strings of local time).  The diagnostics, whenever they are made, in their one
\* snapshot, count a score once however many decisions stand on its forecast, and
\* account for each forecast on one side only: included (perhaps through no score,
\* or none that is in time) or excluded with its reason.
ScoresCountOnce ==
    LET scores == {s \in DOMAIN evidence["scores"] : ForecastOf(s).binary}
    IN /\ \A g \in given : \A s \in DOMAIN g.trend.rows :
            LET holders == {k \in DOMAIN g.trend.windows : s \in g.trend.windows[k]}
            IN \/ Cardinality(holders) = 1
               \/ holders = {} /\ MayMiss(g.zone, g.trend, g.trend.rows[s])
       /\ Diagnosis.sample = Cardinality(InTime(scores))
       /\ Diagnosis.included \cap Diagnosis.excluded = {}
       /\ Diagnosis.late = 0 => Diagnosis.included \cup Diagnosis.excluded = DOMAIN evidence["forecasts"]
=============================================================================
