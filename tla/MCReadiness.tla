----------------------------- MODULE MCReadiness -----------------------------
(* An instance of Readiness: histories that would earn autonomy but for one row. *)
EXTENDS Readiness

W(table, row) == [table |-> table, row |-> row]
F(rule, anchor) == [market |-> TRUE, binary |-> TRUE, legacy |-> FALSE, rule |-> rule, p |-> 9, anchor |-> anchor]
S(forecast, outcome, second) ==
    [forecast |-> forecast, outcome |-> outcome, at |-> [second |-> second, fraction |-> 0], y |-> 10, late |-> FALSE]
Half(score) == [score EXCEPT !.at.fraction = 1]
D(forecast, snapshot, reason) ==
    [entered |-> TRUE, market |-> TRUE, at |-> 9, snapshot |-> snapshot, reason |-> reason, agent |-> reason,
     thesis |-> 1, forecast |-> forecast]
Priced == [at |-> 8, book |-> TRUE]
E(id, kind, type, fresh) ==
    [source |-> [id |-> id, kind |-> kind, fresh |-> fresh, stamped |-> fresh # Nil], to |-> [kind |-> "thesis", id |-> 1], type |-> type,
     market |-> TRUE]
OnDecision(e) == [e EXCEPT !.to = [kind |-> "decision", id |-> 1]]
C(severity, codes, flagged) == [unresolved |-> TRUE, severity |-> severity, codes |-> codes, flagged |-> flagged]

Good == <<W("forecasts", F(TRUE, 6)), W("decisions", D(1, Priced, TRUE)), W("criteria", "text"), W("intents", 1), W("fills", 1),
          W("scores", S(1, 1, 4))>>
But(i, row) == [Good EXCEPT ![i].row = row]

\* Resolutions half a second after another, at an edge of the windows, and around the
\* second 6, in which the clock is put back where there is summer time.
Fractions == {
    Good \o <<W("forecasts", F(TRUE, 6)), W("scores", S(2, 2, 6)), W("scores", Half(S(2, 3, 1))), W("scores", Half(S(2, 4, 5)))>>,
    Good \o <<W("forecasts", F(TRUE, 6)), W("scores", Half(S(2, 2, 6))), W("scores", S(2, 3, 5)), W("scores", S(2, 4, 1))>>,
    Good \o <<W("forecasts", F(TRUE, 6)), W("scores", Half(S(2, 2, 10))), W("scores", S(2, 3, 6)), W("scores", S(2, 4, 3))>>}

MCHistoriesOfEvidence == Fractions \cup {
    Good \o <<W("forecasts", F(FALSE, Nil)), W("scores", S(2, 2, 1)), W("supersedes", [kind |-> "outcome", old |-> 1])>>,
    But(1, F(FALSE, 6)),
    But(1, [F(FALSE, 6) EXCEPT !.legacy = TRUE]) \o <<W("decisions", D(1, Priced, TRUE)), W("forecasts", [F(TRUE, Nil) EXCEPT !.binary = FALSE])>>,
    But(2, D(1, Nil, TRUE)) \o <<W("intents", 2), W("fills", 2)>>,
    <<W("edges", E("a", "news", "supports", 1)), W("edges", E("b", "news", "contradicts", Nil))>> \o Good,
    <<W("edges", [E("a", "news", "supports", 1) EXCEPT !.market = FALSE]),
      W("edges", [E("b", "news", "contradicts", Nil) EXCEPT !.market = FALSE])>> \o Good,
    But(2, D(1, [at |-> 2, book |-> FALSE], FALSE)) \o <<W("edges", OnDecision(E("a", "news", "about", 1)))>>,
    <<W("records", C("none", {"POLICY_WAIVER_BREACH"}, {}))>> \o Good,
    Good \o <<W("records", C("warning", {"PRICE_MISMATCH"}, {"DUPLICATE_FILL"})), W("records", C("critical", {}, {}))>>,
    Good \o <<W("forecasts", F(TRUE, 6)), W("scores", S(2, 2, 6)), W("scores", [S(2, 3, 9) EXCEPT !.late = TRUE]), W("scores", S(2, 4, 1))>>}

UTC == [standard |-> 0, saving |-> 0, summer |-> {}]
MCZones == {UTC, [standard |-> 1, saving |-> 2, summer |-> 0..5], [standard |-> -4, saving |-> 1, summer |-> 3..5]}

Bar(mismatches) ==
    [resolved_n |-> 1, brier |-> 25, skill_vs_market |-> 10, reconciliation_cleanliness |-> mismatches,
     audit_readiness |-> TRUE, paper_fill_coverage |-> 90]
MCBars == {Bar(0), Bar(1), [c \in Criteria \ {"brier"} |-> Bar(0)[c]]}

\* A report is asked for when at most three rows are still to come; where local time
\* is not UTC, only of histories with fractions.
HasFractions ==
    \/ \E s \in DOMAIN evidence["scores"] : evidence["scores"][s].at.fraction > 0
    \/ \E i \in DOMAIN writing : writing[i].table = "scores" /\ writing[i].row.at.fraction > 0
MCReadinessNext ==
    /\ ReadinessNext
    /\ \A r \in Readers : report'[r] # Nil =>
          /\ Len(writing) <= 3
          /\ report'[r].zone = UTC \/ HasFractions
=============================================================================
