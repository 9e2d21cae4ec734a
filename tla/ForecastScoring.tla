--------------------------- MODULE ForecastScoring ---------------------------
(***************************************************************************)
(* Forecasts, outcomes and the scores between them: forecast.add,          *)
(* forecast.supersede, resolution.add, forecast.commit_blind and           *)
(* .reveal_snapshot, forecast.anchor_to_snapshot, and the supersedes edges *)
(* that memory.link writes.  Every handler runs in one UnitOfWork under    *)
(* SQLite's writer lock (module EventLog), so each is one step here; what  *)
(* is hard is the order in which agents call them: an outcome before or    *)
(* after a forecast, a correction before or after its edge, a forecast in  *)
(* between, a blind commitment around either.                              *)
(*                                                                         *)
(* Nothing is ever updated or deleted: tables grow, and the state of a     *)
(* forecast is derived from them when it is read.  A call under a used key *)
(* writes nothing (EventLog), and is left out.                             *)
(***************************************************************************)
EXTENDS Integers, Sequences, FiniteSets, SequencesExt

CONSTANTS
    Markets,        \* instruments
    Vocabularies,   \* ways to name the two sides: yes/no, true/false, other names
    BinaryVocabularies,  \* _BINARY_RESOLUTION_LABELS
    ForecastKinds,  \* the forecasts agents make: [vocab, due]
    OutcomeKinds,   \* the outcomes they record: [status, sure, vocab, resolvedAt]
    MaxForecasts, MaxOutcomes, MaxSnapshots, MaxLinks   \* bounds

Statuses == {"resolved_final", "disputed"}
\* resolution_at: none given, before the forecast was made, or after it.
Dues == {"unset", "passed", "coming"}
ForecastKind == [vocab: Vocabularies, due: Dues]
OutcomeKind == [status: Statuses, sure: BOOLEAN, vocab: Vocabularies, resolvedAt: Nat]

ASSUME ScoringAssumption ==
    /\ BinaryVocabularies \subseteq Vocabularies
    /\ ForecastKinds \subseteq ForecastKind
    /\ OutcomeKinds \subseteq OutcomeKind
    /\ {MaxForecasts, MaxOutcomes, MaxSnapshots, MaxLinks} \subseteq Nat

VARIABLES
    forecasts,   \* rows, in the order of their creation
    outcomes,    \* rows, in the order of their creation
    scores,      \* forecast_scores rows
    fEdges,      \* supersedes edges <<newer, older>> between forecasts
    oEdges,      \* supersedes edges between outcomes
    snapshots,   \* for each market snapshot, how many forecasts preceded it
    anchors,     \* [forecast -> snapshot], a partial function
    blind,       \* forecasts with a blind_committed event
    locks,       \* [forecast -> snapshot]: forecast_independence_locks
    links        \* how many memory.link calls there were

vars == <<forecasts, outcomes, scores, fEdges, oEdges, snapshots, anchors,
          blind, locks, links>>
independence == <<snapshots, anchors, blind, locks>>

Init ==
    /\ forecasts = << >> /\ outcomes = << >> /\ scores = {}
    /\ fEdges = {} /\ oEdges = {}
    /\ snapshots = << >> /\ anchors = << >> /\ blind = {} /\ locks = << >>
    /\ links = 0

-----------------------------------------------------------------------------
(* What the queries of _scoring.py select. *)

FSuperseded(f) == \E e \in fEdges : e[2] = f
OSuperseded(o) == \E e \in oEdges : e[2] = o

\* is_auto_scoreable_final: final, confidence >= 0.9, a label that maps.
IsAutoScoreableFinal(k) ==
    k.status = "resolved_final" /\ k.sure /\ k.vocab \in BinaryVocabularies

LiveFinals(m) ==
    {o \in DOMAIN outcomes : /\ outcomes[o].market = m
                             /\ IsAutoScoreableFinal(outcomes[o])
                             /\ ~OSuperseded(o)}

\* _current_resolved_final_outcome: ORDER BY resolved_at DESC, created_at DESC.
Later(o, p) == \/ outcomes[o].resolvedAt > outcomes[p].resolvedAt
               \/ outcomes[o].resolvedAt = outcomes[p].resolvedAt /\ o >= p
Heads(m) == {o \in LiveFinals(m) : \A p \in LiveFinals(m) : Later(o, p)}

BlindPending(f) == f \in blind /\ f \notin DOMAIN locks

Scored(f, o) == \E s \in scores : s.forecast = f /\ s.outcome = o

\* derive_scoring_state
LiveScores(f) == {s \in scores : s.forecast = f /\ ~OSuperseded(s.outcome)}
ScoringState(f) ==
    IF FSuperseded(f) THEN "superseded"
    ELSE IF LiveScores(f) = {} THEN "pending"
    ELSE LET latest == CHOOSE s \in LiveScores(f) : \A t \in LiveScores(f) : s.at >= t.at
         IN IF latest.ok THEN "scored" ELSE "failed"

\* _load_scored_rows: what report.calibration averages over.
Counted(f) == {s \in LiveScores(f) : s.ok /\ ~FSuperseded(f)}

\* _resolve_pending, at a time when every resolution_at has passed; its limit (100
\* unless the caller says otherwise, at most 1000) is taken to be MaxForecasts or more.
ResolvePending ==
    {f \in DOMAIN forecasts :
        /\ forecasts[f].due # "unset"
        /\ \A s \in LiveScores(f) : ~s.ok
        /\ LiveFinals(forecasts[f].market) = {}}

-----------------------------------------------------------------------------
(* forecast.list, whose SQL and paging are its own *)

SupersededIds == {e[2] : e \in fEdges}
LatestScore(f) ==
    {s \in scores : /\ s.forecast = f /\ ~OSuperseded(s.outcome)
                    /\ \A t \in scores : t.forecast = f /\ ~OSuperseded(t.outcome) => s.at >= t.at}
StateFromMaps(f) ==
    IF f \in SupersededIds THEN "superseded"
    ELSE IF LatestScore(f) = {} THEN "pending"
    ELSE IF \E s \in LatestScore(f) : s.ok THEN "scored" ELSE "failed"

\* The rows of a state, and those after the cursor; 0 is no cursor.
Items(state) == {f \in DOMAIN forecasts : StateFromMaps(f) = state}
AfterCursor(items, cursor) == {f \in items : cursor = 0 \/ f < cursor}

\* A page: the newest of the rows, in the order of the ORDER BY.
Page(rest, limit) == {f \in rest : Cardinality({g \in rest : g > f}) < limit}
NewestFirst(page) ==
    CHOOSE s \in [1..Cardinality(page) -> page] :
        \A i, j \in 1..Cardinality(page) : i < j => s[i] > s[j]

\* Mutant: the cursor names the first row that was not shown.
FirstNotShown(rest, limit) ==
    IF Page(rest, limit) = rest THEN 0 ELSE Max(rest \ Page(rest, limit))

\* The last row that was shown.
NextCursor(rest, limit) == IF Page(rest, limit) = rest THEN 0 ELSE Min(Page(rest, limit))

\* An agent follows next_cursor until there is none.
Turn(items, limit, walk) ==
    LET rest == AfterCursor(items, walk.cursor)
        next == NextCursor(rest, limit)
    IN IF walk.done THEN walk
       ELSE [seen |-> walk.seen \o NewestFirst(Page(rest, limit)),
             cursor |-> next, done |-> next = 0]
ListWalk(state, limit) ==
    FoldLeft(LAMBDA walk, n : Turn(Items(state), limit, walk),
             [seen |-> << >>, cursor |-> 0, done |-> FALSE], forecasts)

-----------------------------------------------------------------------------
(* Writes *)

\* The time of a write, in rows written before it.
Now == Len(forecasts) + Len(outcomes) + 1

\* _score_one_forecast: the score is NULL when the resolved label is none of the
\* forecast's own.  late: _late_recorded_calc.
ScoreRow(f, fk, o, ok, late) ==
    [forecast |-> f, outcome |-> o, ok |-> fk.vocab = ok.vocab,
     late |-> late \/ fk.due = "passed", at |-> Now]

-----------------------------------------------------------------------------
(* forecast.add, forecast.supersede, resolution.add *)

\* The forecast row.
InsertForecast(m, k) ==
    /\ Len(forecasts) < MaxForecasts
    /\ forecasts' = Append(forecasts,
         [market |-> m, vocab |-> k.vocab, due |-> k.due, known |-> Len(outcomes)])

\* Mutant: the lag is computed from the score's own time.
LateScoresUnflagged(f, m, k) == {ScoreRow(f, k, o, outcomes[o], FALSE) : o \in Heads(m)}

\* The late trigger scores the new forecast against the head outcome.
LateScores(f, m, k) == {ScoreRow(f, k, o, outcomes[o], TRUE) : o \in Heads(m)}

\* It may anchor the forecast in the same transaction, to a snapshot that is
\* named or to the latest.
AnchorAtOnce(f, anchor) ==
    anchors' = [g \in DOMAIN anchors \cup {f : s \in anchor} |->
                  IF g = f THEN CHOOSE s \in anchor : TRUE ELSE anchors[g]]

\* forecast.add, with a thesis or folded with one.
ForecastAdd(m, k, anchor) ==
    /\ InsertForecast(m, k)
    /\ scores' = scores \cup LateScores(Len(forecasts) + 1, m, k)
    /\ AnchorAtOnce(Len(forecasts) + 1, anchor)
    /\ UNCHANGED <<outcomes, fEdges, oEdges, snapshots, blind, locks, links>>

\* Mutants: no late trigger (trade-trace-ld6l); the edge points the wrong way.
SupersedeUnscored(prior, k) ==
    /\ InsertForecast(forecasts[prior].market, k)
    /\ fEdges' = fEdges \cup {<<Len(forecasts) + 1, prior>>}
    /\ UNCHANGED <<outcomes, scores, oEdges, independence, links>>

SupersedeReversed(prior, k) ==
    /\ InsertForecast(forecasts[prior].market, k)
    /\ scores' = scores \cup
         LateScores(Len(forecasts) + 1, forecasts[prior].market, k)
    /\ fEdges' = fEdges \cup {<<prior, Len(forecasts) + 1>>}
    /\ UNCHANGED <<outcomes, oEdges, independence, links>>

\* forecast.supersede: a row, an edge to the prior forecast whatever became of
\* that one, and the late trigger; the row itself is never flagged as late.
Supersede(prior, k) ==
    /\ InsertForecast(forecasts[prior].market, k)
    /\ scores' = scores \cup
         LateScores(Len(forecasts) + 1, forecasts[prior].market, k)
    /\ fEdges' = fEdges \cup {<<Len(forecasts) + 1, prior>>}
    /\ UNCHANGED <<outcomes, oEdges, independence, links>>

\* Mutant: the auto-scorer scores superseded forecasts too (trade-trace-6g7v).
AutoscoredAndSuperseded(m) ==
    {f \in DOMAIN forecasts : forecasts[f].market = m /\ ~BlindPending(f)}

\* _autoscore_pending_forecasts: the forecasts it selects.
Autoscored(m) ==
    {f \in DOMAIN forecasts :
        forecasts[f].market = m /\ ~FSuperseded(f) /\ ~BlindPending(f)}

\* resolution.add
OutcomeAdd(m, k) ==
    LET o == Len(outcomes) + 1 IN
    /\ o <= MaxOutcomes
    /\ outcomes' = Append(outcomes,
         [market |-> m, status |-> k.status, sure |-> k.sure,
          vocab |-> k.vocab, resolvedAt |-> k.resolvedAt])
    /\ scores' = scores \cup
         {ScoreRow(f, forecasts[f], o, k, FALSE) :
            f \in IF IsAutoScoreableFinal(k) THEN Autoscored(m) ELSE {}}
    /\ UNCHANGED <<forecasts, fEdges, oEdges, independence, links>>

-----------------------------------------------------------------------------
(* memory.link with edge_type 'supersedes': any two rows that exist, and no
   scorer runs. *)

LinkForecasts(a, b) ==
    /\ links < MaxLinks
    /\ links' = links + 1
    /\ fEdges' = fEdges \cup {<<a, b>>}
    /\ UNCHANGED <<forecasts, outcomes, scores, oEdges, independence>>

LinkOutcomes(a, b) ==
    /\ links < MaxLinks
    /\ links' = links + 1
    /\ oEdges' = oEdges \cup {<<a, b>>}
    /\ UNCHANGED <<forecasts, outcomes, scores, fEdges, independence>>

-----------------------------------------------------------------------------
(* Independence of the market: snapshot.add, forecast.anchor_to_snapshot,
   forecast.commit_blind, forecast.reveal_snapshot *)

SnapshotAdd ==
    /\ Len(snapshots) < MaxSnapshots
    /\ snapshots' = Append(snapshots, Len(forecasts))
    /\ UNCHANGED <<forecasts, outcomes, scores, fEdges, oEdges, anchors, blind,
                   locks, links>>

\* An anchored forecast keeps its snapshot: the same one replays, another one is
\* an INVARIANT_VIOLATION.
Anchor(f, s) ==
    /\ f \notin DOMAIN anchors
    /\ anchors' = [g \in DOMAIN anchors \cup {f} |-> IF g = f THEN s ELSE anchors[g]]
    /\ UNCHANGED <<forecasts, outcomes, scores, fEdges, oEdges, snapshots, blind,
                   locks, links>>

CommitBlind(f) ==
    /\ f \notin DOMAIN anchors
    /\ f \notin blind
    /\ blind' = blind \cup {f}
    /\ UNCHANGED <<forecasts, outcomes, scores, fEdges, oEdges, snapshots, anchors,
                   locks, links>>

\* The first snapshot that is revealed stays; revealing runs no scorer.
RevealSnapshot(f, s) ==
    /\ f \in blind
    /\ f \notin DOMAIN locks
    /\ locks' = [g \in DOMAIN locks \cup {f} |-> IF g = f THEN s ELSE locks[g]]
    /\ UNCHANGED <<forecasts, outcomes, scores, fEdges, oEdges, snapshots, anchors,
                   blind, links>>

Next ==
    \/ \E m \in Markets :
         \/ \E k \in ForecastKinds, anchor \in {{}} \cup {{s} : s \in DOMAIN snapshots} :
              ForecastAdd(m, k, anchor)
         \/ \E k \in OutcomeKinds : OutcomeAdd(m, k)
    \/ \E prior \in DOMAIN forecasts, k \in ForecastKinds : Supersede(prior, k)
    \/ \E a, b \in DOMAIN forecasts : LinkForecasts(a, b)
    \/ \E a, b \in DOMAIN outcomes : LinkOutcomes(a, b)
    \/ SnapshotAdd
    \/ \E f \in DOMAIN forecasts :
         \/ CommitBlind(f)
         \/ \E s \in DOMAIN snapshots : Anchor(f, s) \/ RevealSnapshot(f, s)

Spec == Init /\ [][Next]_vars

-----------------------------------------------------------------------------
(* Properties *)

\* No path of the scorer skips anyone: while its market has a live final outcome,
\* every forecast that is in force and was never blind has been scored.
SettledForecastsScored ==
    \A f \in DOMAIN forecasts :
        LiveFinals(forecasts[f].market) # {} /\ ~FSuperseded(f) /\ f \notin blind
        => \E s \in scores : s.forecast = f

\* A score appears only for a forecast that is neither superseded nor blind and
\* unrevealed, against a live final outcome of its own market (scoring.md 5: "bad
\* resolution handling poisons calibration").  One that is given against an outcome
\* which was on record before the forecast is marked as late, on every path
\* that writes one (dogfood-protocol.md 2.1).
ScoreGuard ==
    [][\A f \in 1..MaxForecasts, o \in 1..MaxOutcomes :
         Scored(f, o)' /\ ~Scored(f, o) =>
            /\ ~FSuperseded(f)' /\ ~BlindPending(f)
            /\ (o \in LiveFinals(forecasts[f].market))'
            /\ o <= forecasts'[f].known =>
                 \A s \in scores' : s.forecast = f /\ s.outcome = o => s.late]_vars

\* No pending forecast falls out of the queue: one that has a resolution_at, was never
\* blind and is pending is in the answer of resolve.pending, which leaves out the
\* forecasts of a market with a live final outcome.  This is true of the scorer's own
\* triggers; once memory.link has made an older outcome the head it is not.
PendingAreQueued ==
    links = 0 =>
        \A f \in DOMAIN forecasts \ blind :
            ScoringState(f) = "pending" /\ forecasts[f].due # "unset" => f \in ResolvePending

\* Calibration counts a forecast at most once for each live final outcome, also when
\* both scoring triggers could have fired for the pair.
CountedOnce ==
    \A f \in DOMAIN forecasts :
        Cardinality(Counted(f)) <= Cardinality(LiveFinals(forecasts[f].market))

\* Who walks forecast.list, whatever the page, gets each forecast of the state it asks
\* for once and newest first, by the state that the others derive (forecast.py: "Python
\* port of `_scoring.derive_scoring_state`").
WalksAgree ==
    \A state \in {"pending", "scored", "failed", "superseded"}, limit \in 1..MaxForecasts :
        LET seen == ListWalk(state, limit).seen
        IN /\ ToSet(seen) = {f \in DOMAIN forecasts : ScoringState(f) = state}
           /\ \A i, j \in DOMAIN seen : i < j => seen[i] > seen[j]

\* The readers that each derive the state on their own agree.
ReadersAgree == PendingAreQueued /\ CountedOnce /\ WalksAgree

\* The derived states follow the lifecycle, with its two additions to the table of
\* scoring.md 4.4: nothing leaves "superseded", what is settled is pending again only
\* after an edge by hand, and no such edge settles anything.
Lifecycle == INSTANCE ScoringLifecycle WITH
    Forecasts <- 1..MaxForecasts,
    corrections <- links,
    state <- [f \in 1..MaxForecasts |->
                IF f \in DOMAIN forecasts THEN ScoringState(f) ELSE "none"]
FollowsLifecycle == Lifecycle!Spec

\* scoring.md 4.4: "`scored -> failed` does not exist - once a `forecast_scores` row with
\* a non-NULL score is committed, the score stands."  As long as no edge was written by
\* hand, a scored forecast stays scored or is superseded.  The code does not keep this:
\* it derives the state from the latest score, whatever the ones before it.
ScoredStands ==
    [][\A f \in DOMAIN forecasts :
         links' = 0 /\ ScoringState(f) = "scored"
         => ScoringState(f)' \in {"scored", "superseded"}]_vars

=============================================================================
