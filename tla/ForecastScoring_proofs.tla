---------------------- MODULE ForecastScoring_proofs -----------------------
(***************************************************************************)
(* What the scorer and its readers guarantee for any markets, vocabularies,  *)
(* kinds of rows and numbers of them: its guards hold on every path that     *)
(* writes a score, what a live final outcome settles is scored, a forecast   *)
(* counts once for each such outcome, a walk over forecast.list is complete, *)
(* the states refine the lifecycle, and, until there is a supersedes edge by *)
(* hand, nothing pending leaves the queue.                                   *)
(***************************************************************************)
EXTENDS ForecastScoring, FiniteSetTheorems, WellFoundedInduction, TLAPS

-----------------------------------------------------------------------------
(* The inductive invariant. *)

ForecastRow == [market: Markets, vocab: Vocabularies, due: Dues, known: Nat]
OutcomeRow  == [market: Markets, status: Statuses, sure: BOOLEAN,
                vocab: Vocabularies, resolvedAt: Nat]

RowTypes ==
    /\ forecasts \in Seq(ForecastRow)
    /\ outcomes \in Seq(OutcomeRow)

\* What speaks of a row speaks of one that exists: no edge, blind commitment or
\* score waits for a row that is yet to come.
NothingAwaits ==
    /\ \A e \in fEdges : e[2] \in DOMAIN forecasts
    /\ \A e \in oEdges : e[2] \in DOMAIN outcomes
    /\ blind \subseteq DOMAIN forecasts
    /\ \A s \in scores : s.forecast \in DOMAIN forecasts /\ s.outcome \in DOMAIN outcomes
    /\ \A f \in DOMAIN forecasts : forecasts[f].known <= Len(outcomes)

ScoreInv == RowTypes /\ NothingAwaits

-----------------------------------------------------------------------------
(* Lemmas. *)

LEMMA InitScoreInv == Init => ScoreInv
BY DEF Init, ScoreInv, RowTypes, NothingAwaits

LEMMA RowFacts ==
    ASSUME ScoreInv
    PROVE  /\ DOMAIN forecasts = 1..Len(forecasts) /\ Len(forecasts) \in Nat
           /\ DOMAIN outcomes = 1..Len(outcomes) /\ Len(outcomes) \in Nat
           /\ \A f \in DOMAIN forecasts :
                /\ forecasts[f] \in ForecastRow
                /\ forecasts[f].market \in Markets
                /\ forecasts[f].known \in Nat /\ forecasts[f].known <= Len(outcomes)
<1>1. forecasts \in Seq(ForecastRow) /\ outcomes \in Seq(OutcomeRow)
  BY DEF ScoreInv, RowTypes
<1>2. \A f \in DOMAIN forecasts : forecasts[f] \in ForecastRow
  BY <1>1
<1> QED
  BY <1>1, <1>2 DEF ScoreInv, NothingAwaits, ForecastRow

\* A head is a live final outcome, which is a row of the market.
LEMMA HeadFacts ==
    ASSUME NEW m, NEW o \in Heads(m)
    PROVE  o \in LiveFinals(m) /\ o \in DOMAIN outcomes
BY DEF Heads, LiveFinals

\* Induction over the naturals, with a set where the theorems of
\* NaturalsInduction have an operator.
LEMMA LeastNatural ==
    ASSUME NEW T, T \subseteq Nat, T # {}
    PROVE  \E n \in T : \A m \in T : n <= m
<1> DEFINE R == {p \in Nat \X Nat : p[1] < p[2]}
<1>1. R = OpToRel(<, Nat)
  BY DEF OpToRel
<1>2. IsWellFoundedOn(R, Nat)
  BY <1>1, NatLessThanWellFounded
<1>3. \E n \in T : \A m \in T : <<m, n>> \notin R
  BY <1>2, WFMin
<1>4. \A n \in T, m \in T : <<m, n>> \notin R => n <= m
  OBVIOUS
<1> QED
  BY <1>3, <1>4

\* Later orders the outcomes totally.
LEMMA LaterIsTotal ==
    ASSUME ScoreInv
    PROVE  /\ \A o, p \in DOMAIN outcomes : Later(o, p) \/ Later(p, o)
           /\ \A o, p, q \in DOMAIN outcomes :
                Later(o, p) /\ Later(p, q) => Later(o, q)
<1>1. outcomes \in Seq(OutcomeRow)
  BY DEF ScoreInv, RowTypes
<1>2. \A o \in DOMAIN outcomes : o \in Nat /\ outcomes[o] \in OutcomeRow
  BY <1>1
<1>3. \A o \in DOMAIN outcomes : o \in Nat /\ outcomes[o].resolvedAt \in Nat
  BY <1>2 DEF OutcomeRow
<1> QED
  BY <1>3 DEF Later

\* The query for the head outcome finds one as soon as there is a live final.
LEMMA HeadExists ==
    ASSUME ScoreInv, NEW m, LiveFinals(m) # {}
    PROVE  Heads(m) # {}
<1> DEFINE L(n) == LiveFinals(m) \cap (1..n)
           HasHead(n) == \E o \in L(n) : \A p \in L(n) : Later(o, p)
           Failing == {n \in 0..Len(outcomes) : L(n) # {} /\ ~HasHead(n)}
<1>1. /\ Len(outcomes) \in Nat /\ DOMAIN outcomes = 1..Len(outcomes)
      /\ LiveFinals(m) \subseteq DOMAIN outcomes
  BY RowFacts DEF LiveFinals
<1>2. /\ L(0) = {}
      /\ \A n \in Nat \ {0} : L(n) \subseteq L(n - 1) \cup {n} /\ L(n - 1) \subseteq L(n)
      /\ \A n \in Nat : L(n) \subseteq DOMAIN outcomes
      /\ L(Len(outcomes)) = LiveFinals(m)
  <2>1. \A n \in Nat \ {0} : 1..n = (1..(n - 1)) \cup {n}
    OBVIOUS
  <2> QED
    BY <1>1, <2>1
<1> HIDE DEF L
<1>3. Failing = {}
  <2> SUFFICES ASSUME Failing # {} PROVE FALSE
    OBVIOUS
  <2>1. Failing \subseteq Nat
    BY <1>1
  <2>2. PICK n \in Failing : \A k \in Failing : n <= k
    BY <2>1, LeastNatural
  <2>3. n \in Nat \ {0} /\ n \in 1..Len(outcomes) /\ n - 1 \in 0..Len(outcomes)
    <3>1. n \in 0..Len(outcomes) /\ n # 0
      BY <1>2, <2>2
    <3> QED
      BY <1>1, <3>1
  <2>4. n - 1 \notin Failing
    <3> HIDE DEF Failing
    <3> QED
      BY <2>2, <2>3
  <2>5. L(n - 1) = {} \/ HasHead(n - 1)
    BY <2>3, <2>4
  <2>6. L(n) \subseteq L(n - 1) \cup {n} /\ L(n - 1) \subseteq L(n)
    BY <1>2, <2>3
  <2>7. n \in L(n)
    <3>1. CASE n \notin L(n)
      <4>1. L(n) = L(n - 1)
        BY <2>6, <3>1
      <4> QED
        BY <2>2, <2>5, <4>1
    <3> QED
      BY <3>1
  <2>8. n \in DOMAIN outcomes /\ Later(n, n) /\ L(n - 1) \subseteq DOMAIN outcomes
    BY <1>1, <1>2, <2>3, LaterIsTotal
  <2>9. HasHead(n)
    <3>1. CASE L(n - 1) = {}
      BY <2>6, <2>7, <2>8, <3>1
    <3>2. ASSUME NEW o \in L(n - 1), \A p \in L(n - 1) : Later(o, p)
          PROVE  HasHead(n)
      <4>1. CASE Later(o, n)
        BY <2>6, <3>2, <4>1
      <4>2. CASE Later(n, o)
        <5>1. \A p \in L(n) : Later(n, p)
          BY <2>6, <2>8, <3>2, <4>2, LaterIsTotal
        <5> QED
          BY <2>7, <5>1
      <4> QED
        BY <2>8, <3>2, <4>1, <4>2, LaterIsTotal
    <3> QED
      BY <2>5, <3>1, <3>2
  <2> QED
    BY <2>2, <2>9
<1>4. Len(outcomes) \notin Failing
  <2> HIDE DEF Failing
  <2> QED
    BY <1>3
<1>5. HasHead(Len(outcomes))
  BY <1>1, <1>2, <1>4
<1> QED
  BY <1>2, <1>5 DEF Heads

\* What InsertForecast leaves, with a supersedes edge to an older row or none.
LEMMA InsertForecastFacts ==
    ASSUME ScoreInv, NEW m \in Markets, NEW k \in ForecastKinds, InsertForecast(m, k)
    PROVE  /\ Len(forecasts) + 1 \in DOMAIN forecasts' 
           /\ Len(forecasts) + 1 \notin DOMAIN forecasts
           /\ \A f \in DOMAIN forecasts :
                f \in DOMAIN forecasts' /\ forecasts'[f] = forecasts[f]
           /\ forecasts'[Len(forecasts) + 1].market = m
           /\ forecasts'[Len(forecasts) + 1].known = Len(outcomes)
           /\ forecasts' \in Seq(ForecastRow)
           /\ DOMAIN forecasts' = DOMAIN forecasts \cup {Len(forecasts) + 1}
<1> DEFINE r == [market |-> m, vocab |-> k.vocab, due |-> k.due,
                 known |-> Len(outcomes)]
<1>1. r \in ForecastRow
  <2>1. k \in ForecastKind
    BY ScoringAssumption
  <2>2. Len(outcomes) \in Nat
    BY DEF ScoreInv, RowTypes
  <2> QED
    BY <2>1, <2>2 DEF ForecastKind, ForecastRow
<1>2. forecasts' = Append(forecasts, r) /\ forecasts \in Seq(ForecastRow)
  BY DEF InsertForecast, ScoreInv, RowTypes
<1>3. r.market = m /\ r.known = Len(outcomes)
  OBVIOUS
<1> HIDE DEF r
<1> QED
  BY <1>1, <1>2, <1>3

\* What the late trigger writes.
LEMMA LateScoresFacts ==
    ASSUME NEW f, NEW m, NEW k, NEW s \in LateScores(f, m, k)
    PROVE  s.forecast = f /\ s.outcome \in Heads(m) /\ s.late
<1>1. PICK o \in Heads(m) : s = ScoreRow(f, k, o, outcomes[o], TRUE)
  BY DEF LateScores
<1> QED
  BY <1>1 DEF ScoreRow

\* The guard of ScoreGuard, for one pair.
Guarded(f, o) ==
    Scored(f, o)' /\ ~Scored(f, o) =>
        /\ ~FSuperseded(f)' /\ ~BlindPending(f)
        /\ (o \in LiveFinals(forecasts[f].market))'
        /\ o <= forecasts'[f].known =>
             \A s \in scores' : s.forecast = f /\ s.outcome = o => s.late

-----------------------------------------------------------------------------
(* Each write keeps the invariant, and scores only what it may. *)

\* A new forecast, with the late trigger and at most an edge to an older one.
LEMMA NewForecast ==
    ASSUME ScoreInv, NEW m \in Markets, NEW k \in ForecastKinds, InsertForecast(m, k),
           scores' = scores \cup LateScores(Len(forecasts) + 1, m, k),
           NEW older \in SUBSET DOMAIN forecasts,
           fEdges' = fEdges \cup {<<Len(forecasts) + 1, g>> : g \in older},
           UNCHANGED <<outcomes, oEdges, blind>>
    PROVE  ScoreInv' /\ \A f, o : Guarded(f, o)
<1> DEFINE new == Len(forecasts) + 1
<1>1. /\ new \in DOMAIN forecasts' /\ new \notin DOMAIN forecasts
      /\ \A f \in DOMAIN forecasts :
           f \in DOMAIN forecasts' /\ forecasts'[f] = forecasts[f]
      /\ forecasts'[new].market = m /\ forecasts'[new].known = Len(outcomes)
      /\ forecasts' \in Seq(ForecastRow)
      /\ DOMAIN forecasts' = DOMAIN forecasts \cup {new}
  BY InsertForecastFacts
<1>2. \A s \in LateScores(new, m, k) :
         s.forecast = new /\ s.outcome \in Heads(m) /\ s.late
  BY LateScoresFacts
<1>3. Len(outcomes) \in Nat
  BY DEF ScoreInv, RowTypes
<1> HIDE DEF new
<1>4. fEdges' = fEdges \cup {<<new, g>> : g \in older}
  BY DEF new
<1>5. scores' = scores \cup LateScores(new, m, k)
  BY DEF new
<1>6. ScoreInv'
  <2>1. RowTypes'
    BY <1>1 DEF ScoreInv, RowTypes
  <2>2. \A e \in fEdges' : e[2] \in DOMAIN forecasts'
    BY <1>1, <1>4 DEF ScoreInv, NothingAwaits
  <2>3. \A s \in scores' : s.forecast \in DOMAIN forecasts' /\ s.outcome \in DOMAIN outcomes
    BY <1>1, <1>2, <1>5, HeadFacts DEF ScoreInv, NothingAwaits
  <2>4. \A f \in DOMAIN forecasts' : forecasts'[f].known <= Len(outcomes)
    BY <1>1, <1>3 DEF ScoreInv, NothingAwaits
  <2> QED
    BY <1>1, <2>1, <2>2, <2>3, <2>4 DEF ScoreInv, NothingAwaits
<1>7. ASSUME NEW f, NEW o PROVE Guarded(f, o)
  <2> SUFFICES ASSUME Scored(f, o)', ~Scored(f, o)
               PROVE  /\ ~FSuperseded(f)' /\ ~BlindPending(f)
                      /\ (o \in LiveFinals(forecasts[f].market))'
                      /\ \A s \in scores' : s.forecast = f /\ s.outcome = o => s.late
    BY DEF Guarded
  <2>1. f = new /\ o \in Heads(m)
    BY <1>2, <1>5 DEF Scored
  <2>2. ~FSuperseded(f)'
    <3>1. \A e \in fEdges' : e[2] \in DOMAIN forecasts
      BY <1>4 DEF ScoreInv, NothingAwaits
    <3> QED
      BY <1>1, <2>1, <3>1 DEF FSuperseded
  <2>3. ~BlindPending(f)
    BY <1>1, <2>1 DEF BlindPending, ScoreInv, NothingAwaits
  <2>4. (o \in LiveFinals(forecasts[f].market))'
    BY <1>1, <2>1, HeadFacts DEF LiveFinals, OSuperseded
  <2>5. \A s \in scores' : s.forecast = f /\ s.outcome = o => s.late
    BY <1>1, <1>2, <1>5, <2>1 DEF ScoreInv, NothingAwaits
  <2> QED
    BY <2>2, <2>3, <2>4, <2>5
<1> QED
  BY <1>6, <1>7

LEMMA ForecastAddStep ==
    ASSUME ScoreInv, NEW m \in Markets, NEW k \in ForecastKinds, NEW anchor,
           ForecastAdd(m, k, anchor)
    PROVE  ScoreInv' /\ \A f, o : Guarded(f, o)
<1>1. fEdges' = fEdges \cup {<<Len(forecasts) + 1, g>> : g \in {}}
  BY DEF ForecastAdd
<1> QED
  BY <1>1, NewForecast DEF ForecastAdd

LEMMA SupersedeStep ==
    ASSUME ScoreInv, NEW prior \in DOMAIN forecasts, NEW k \in ForecastKinds,
           Supersede(prior, k)
    PROVE  ScoreInv' /\ \A f, o : Guarded(f, o)
<1> DEFINE m == forecasts[prior].market
<1>1. m \in Markets
  BY RowFacts
<1>2. fEdges' = fEdges \cup {<<Len(forecasts) + 1, g>> : g \in {prior}}
  BY DEF Supersede
<1>3. /\ InsertForecast(m, k)
      /\ scores' = scores \cup LateScores(Len(forecasts) + 1, m, k)
      /\ UNCHANGED <<outcomes, oEdges, blind>>
  BY DEF Supersede, independence
<1> HIDE DEF m
<1> QED
  BY <1>1, <1>2, <1>3, NewForecast

\* A new outcome scores the forecasts that are in force and not blind.
LEMMA OutcomeAddStep ==
    ASSUME ScoreInv, NEW m \in Markets, NEW k \in OutcomeKinds, OutcomeAdd(m, k)
    PROVE  ScoreInv' /\ \A f, o : Guarded(f, o)
<1> DEFINE new == Len(outcomes) + 1
           r == [market |-> m, status |-> k.status, sure |-> k.sure,
                 vocab |-> k.vocab, resolvedAt |-> k.resolvedAt]
           due == IF IsAutoScoreableFinal(k) THEN Autoscored(m) ELSE {}
           row(f) == ScoreRow(f, forecasts[f], new, k, FALSE)
<1>1. k \in OutcomeKind
  BY ScoringAssumption
<1>2. r \in OutcomeRow /\ r.market = m
      /\ (IsAutoScoreableFinal(r) <=> IsAutoScoreableFinal(k))
  BY <1>1 DEF OutcomeKind, OutcomeRow, IsAutoScoreableFinal
<1>3. /\ outcomes' = Append(outcomes, r) /\ outcomes \in Seq(OutcomeRow)
      /\ scores' = scores \cup {row(f) : f \in due}
      /\ UNCHANGED <<forecasts, fEdges, oEdges, blind, locks>>
  BY DEF OutcomeAdd, independence, ScoreInv, RowTypes
<1>4. \A f \in due : row(f).forecast = f /\ row(f).outcome = new
  BY DEF ScoreRow
<1> HIDE DEF r, row
<1>5. /\ new \in Nat /\ DOMAIN outcomes = 1..(new - 1) /\ DOMAIN outcomes' = 1..new
      /\ Len(outcomes') = new /\ outcomes' \in Seq(OutcomeRow)
      /\ outcomes'[new] = r /\ new \in 1..new /\ new \notin 1..(new - 1)
      /\ 1..(new - 1) \subseteq 1..new
  BY <1>2, <1>3
<1>6. due \subseteq DOMAIN forecasts
  BY DEF Autoscored
<1>7. ScoreInv'
  <2>1. RowTypes'
    BY <1>3, <1>5 DEF ScoreInv, RowTypes
  <2>2. \A e \in oEdges' : e[2] \in DOMAIN outcomes'
    BY <1>3, <1>5 DEF ScoreInv, NothingAwaits
  <2>3. \A s \in scores' : s.forecast \in DOMAIN forecasts /\ s.outcome \in DOMAIN outcomes'
    BY <1>3, <1>4, <1>5, <1>6 DEF ScoreInv, NothingAwaits
  <2>4. \A f \in DOMAIN forecasts : forecasts[f].known <= Len(outcomes')
    BY <1>5, RowFacts DEF new
  <2> QED
    BY <1>3, <2>1, <2>2, <2>3, <2>4 DEF ScoreInv, NothingAwaits
<1>8. ASSUME NEW f, NEW o PROVE Guarded(f, o)
  <2> SUFFICES ASSUME Scored(f, o)', ~Scored(f, o)
               PROVE  /\ ~FSuperseded(f)' /\ ~BlindPending(f)
                      /\ (o \in LiveFinals(forecasts[f].market))'
                      /\ ~(o <= forecasts'[f].known)
    BY DEF Guarded
  <2>1. f \in due /\ o = new
    BY <1>3, <1>4 DEF Scored
  <2>2. /\ IsAutoScoreableFinal(k) /\ f \in DOMAIN forecasts
        /\ forecasts[f].market = m /\ ~FSuperseded(f) /\ ~BlindPending(f)
    BY <2>1 DEF Autoscored
  <2>3. ~FSuperseded(f)'
    BY <1>3, <2>2 DEF FSuperseded
  <2>4. \A e \in oEdges' : e[2] # new
    BY <1>3, <1>5 DEF ScoreInv, NothingAwaits
  <2>5. (o \in LiveFinals(forecasts[f].market))'
    BY <1>2, <1>3, <1>5, <2>1, <2>2, <2>4
       DEF LiveFinals, OSuperseded, IsAutoScoreableFinal
  <2>6. ~(o <= forecasts'[f].known)
    <3>1. forecasts[f].known \in Nat /\ forecasts[f].known <= Len(outcomes)
      BY <2>2, RowFacts
    <3>2. Len(outcomes) \in Nat
      BY <1>3
    <3> QED
      BY <1>3, <2>1, <3>1, <3>2
  <2> QED
    BY <2>2, <2>3, <2>5, <2>6
<1> QED
  BY <1>7, <1>8

\* Every other call writes no score.
LEMMA QuietStep ==
    ASSUME ScoreInv, UNCHANGED <<forecasts, outcomes, scores>>,
           \A e \in fEdges' : e[2] \in DOMAIN forecasts,
           \A e \in oEdges' : e[2] \in DOMAIN outcomes,
           blind' \subseteq DOMAIN forecasts
    PROVE  ScoreInv' /\ \A f, o : Guarded(f, o)
<1>1. ScoreInv'
  BY DEF ScoreInv, RowTypes, NothingAwaits
<1>2. \A f, o : Scored(f, o)' <=> Scored(f, o)
  BY DEF Scored
<1> QED
  BY <1>1, <1>2 DEF Guarded

LEMMA NextScore == ScoreInv /\ [Next]_vars => ScoreInv' /\ \A f, o : Guarded(f, o)
<1> SUFFICES ASSUME ScoreInv, [Next]_vars
             PROVE  ScoreInv' /\ \A f, o : Guarded(f, o)
  OBVIOUS
<1>0. /\ \A e \in fEdges : e[2] \in DOMAIN forecasts
      /\ \A e \in oEdges : e[2] \in DOMAIN outcomes
      /\ blind \subseteq DOMAIN forecasts
  BY DEF ScoreInv, NothingAwaits
<1>1. ASSUME NEW m \in Markets, NEW k \in ForecastKinds, NEW anchor,
             ForecastAdd(m, k, anchor)
      PROVE  ScoreInv' /\ \A f, o : Guarded(f, o)
  BY <1>1, ForecastAddStep
<1>2. ASSUME NEW m \in Markets, NEW k \in OutcomeKinds, OutcomeAdd(m, k)
      PROVE  ScoreInv' /\ \A f, o : Guarded(f, o)
  BY <1>2, OutcomeAddStep
<1>3. ASSUME NEW prior \in DOMAIN forecasts, NEW k \in ForecastKinds, Supersede(prior, k)
      PROVE  ScoreInv' /\ \A f, o : Guarded(f, o)
  BY <1>3, SupersedeStep
<1>4. ASSUME NEW a \in DOMAIN forecasts, NEW b \in DOMAIN forecasts, LinkForecasts(a, b)
      PROVE  ScoreInv' /\ \A f, o : Guarded(f, o)
  <2>1. /\ UNCHANGED <<forecasts, outcomes, scores, oEdges, blind>>
        /\ fEdges' = fEdges \cup {<<a, b>>}
    BY <1>4 DEF LinkForecasts, independence
  <2>2. \A e \in fEdges' : e[2] \in DOMAIN forecasts
    BY <1>0, <2>1
  <2> QED
    BY <1>0, <2>1, <2>2, QuietStep
<1>5. ASSUME NEW a \in DOMAIN outcomes, NEW b \in DOMAIN outcomes, LinkOutcomes(a, b)
      PROVE  ScoreInv' /\ \A f, o : Guarded(f, o)
  <2>1. /\ UNCHANGED <<forecasts, outcomes, scores, fEdges, blind>>
        /\ oEdges' = oEdges \cup {<<a, b>>}
    BY <1>5 DEF LinkOutcomes, independence
  <2>2. \A e \in oEdges' : e[2] \in DOMAIN outcomes
    BY <1>0, <2>1
  <2> QED
    BY <1>0, <2>1, <2>2, QuietStep
<1>6. ASSUME NEW f \in DOMAIN forecasts, CommitBlind(f)
      PROVE  ScoreInv' /\ \A g, o : Guarded(g, o)
  BY <1>0, <1>6, QuietStep DEF CommitBlind
<1>7. ASSUME NEW f \in DOMAIN forecasts, NEW s \in DOMAIN snapshots,
             Anchor(f, s) \/ RevealSnapshot(f, s)
      PROVE  ScoreInv' /\ \A g, o : Guarded(g, o)
  BY <1>0, <1>7, QuietStep DEF Anchor, RevealSnapshot
<1>8. CASE SnapshotAdd
  BY <1>0, <1>8, QuietStep DEF SnapshotAdd
<1>9. CASE UNCHANGED vars
  BY <1>0, <1>9, QuietStep DEF vars
<1> QED
  BY <1>1, <1>2, <1>3, <1>4, <1>5, <1>6, <1>7, <1>8, <1>9 DEF Next

-----------------------------------------------------------------------------
(* What a reader should know. *)

\* No edge supersedes a row that does not exist, no blind commitment or score is of
\* one, and a forecast knows no outcome that is not on record: what the scorer's guards read
\* about a new row is true of it from the start.
THEOREM ScoringInvariance == Spec => []ScoreInv
BY InitScoreInv, NextScore, PTL DEF Spec

\* On no path does a superseded or blind forecast get a score, or one against an
\* outcome that is not a live final of its market; and a score against an outcome
\* that was already on record is marked late.
THEOREM ScoresAreGuarded == Spec => ScoreGuard
<1>1. ScoreInv /\ [Next]_vars =>
        [\A f \in 1..MaxForecasts, o \in 1..MaxOutcomes :
           Scored(f, o)' /\ ~Scored(f, o) =>
              /\ ~FSuperseded(f)' /\ ~BlindPending(f)
              /\ (o \in LiveFinals(forecasts[f].market))'
              /\ o <= forecasts'[f].known =>
                   \A s \in scores' : s.forecast = f /\ s.outcome = o => s.late]_vars
  BY NextScore DEF Guarded
<1> QED
  BY <1>1, ScoringInvariance, PTL DEF Spec, ScoreGuard
-----------------------------------------------------------------------------
(* No path of the scorer skips anyone. *)

\* The forecasts SettledForecastsScored speaks of, without their market's outcome.
InForce(f) == ~FSuperseded(f) /\ f \notin blind

HasScore(f) == \E s \in scores : s.forecast = f

\* A forecast that no step touches stays scored: scores and edges are only added,
\* and a live final that is there now was there, or came with a score.
LEMMA OldForecastsStayScored ==
    ASSUME SettledForecastsScored, scores \subseteq scores',
           fEdges \subseteq fEdges', blind \subseteq blind',
           NEW f \in DOMAIN forecasts, forecasts'[f] = forecasts[f],
           LiveFinals(forecasts[f].market)' \subseteq LiveFinals(forecasts[f].market)
    PROVE  (LiveFinals(forecasts[f].market) # {} /\ InForce(f) => HasScore(f))'
<1>1. InForce(f)' => InForce(f)
  BY DEF InForce, FSuperseded
<1>2. HasScore(f) => HasScore(f)'
  BY DEF HasScore
<1>3. LiveFinals(forecasts[f].market) # {} /\ InForce(f) => HasScore(f)
  BY DEF SettledForecastsScored, InForce, HasScore
<1>4. (LiveFinals(forecasts[f].market) # {})' => LiveFinals(forecasts[f].market) # {}
  OBVIOUS
<1> QED
  BY <1>1, <1>2, <1>3, <1>4

\* The late trigger reaches the new forecast if its market has a live final.
LEMMA NewForecastSettled ==
    ASSUME ScoreInv, SettledForecastsScored,
           NEW m \in Markets, NEW k \in ForecastKinds, InsertForecast(m, k),
           scores' = scores \cup LateScores(Len(forecasts) + 1, m, k),
           fEdges \subseteq fEdges', UNCHANGED <<outcomes, oEdges, blind>>
    PROVE  SettledForecastsScored'
<1> DEFINE new == Len(forecasts) + 1
<1>1. /\ \A f \in DOMAIN forecasts :
           f \in DOMAIN forecasts' /\ forecasts'[f] = forecasts[f]
      /\ forecasts'[new].market = m
      /\ DOMAIN forecasts' = DOMAIN forecasts \cup {new}
  BY InsertForecastFacts
<1>2. \A n : LiveFinals(n)' = LiveFinals(n)
  BY DEF LiveFinals, OSuperseded
<1>3. LiveFinals(m) # {} => \E s \in scores' : s.forecast = new
  <2>1. SUFFICES ASSUME LiveFinals(m) # {}
                PROVE  \E s \in scores' : s.forecast = new
    OBVIOUS
  <2>2. PICK o \in Heads(m) : TRUE
    BY <2>1, HeadExists
  <2>3. ScoreRow(new, k, o, outcomes[o], TRUE) \in scores'
    BY <2>2 DEF LateScores
  <2>4. ScoreRow(new, k, o, outcomes[o], TRUE).forecast = new
    BY DEF ScoreRow
  <2> QED
    BY <2>3, <2>4
<1> HIDE DEF new
<1>4. ASSUME NEW f \in DOMAIN forecasts'
      PROVE  (LiveFinals(forecasts[f].market) # {} /\ InForce(f) => HasScore(f))'
  <2>1. CASE f = new
    BY <1>1, <1>2, <1>3, <2>1 DEF HasScore
  <2>2. CASE f \in DOMAIN forecasts
    <3>1. LiveFinals(forecasts[f].market)' \subseteq LiveFinals(forecasts[f].market)
      BY <1>1, <1>2, <2>2
    <3>2. scores \subseteq scores' /\ forecasts'[f] = forecasts[f]
      BY <1>1, <2>2
    <3> QED
      BY <2>2, <3>1, <3>2, OldForecastsStayScored
  <2> QED
    BY <1>1, <2>1, <2>2
<1> QED
  BY <1>4 DEF SettledForecastsScored, InForce, HasScore

\* resolution.add reaches every forecast of its market that is in force.
LEMMA OutcomeAddSettled ==
    ASSUME ScoreInv, SettledForecastsScored,
           NEW m \in Markets, NEW k \in OutcomeKinds, OutcomeAdd(m, k)
    PROVE  SettledForecastsScored'
<1> DEFINE new == Len(outcomes) + 1
           r == [market |-> m, status |-> k.status, sure |-> k.sure,
                 vocab |-> k.vocab, resolvedAt |-> k.resolvedAt]
           due == IF IsAutoScoreableFinal(k) THEN Autoscored(m) ELSE {}
           row(f) == ScoreRow(f, forecasts[f], new, k, FALSE)
<1>1. k \in OutcomeKind /\ outcomes \in Seq(OutcomeRow)
  BY ScoringAssumption DEF ScoreInv, RowTypes
<1>2. r \in OutcomeRow /\ r.market = m
      /\ (IsAutoScoreableFinal(r) <=> IsAutoScoreableFinal(k))
  BY <1>1 DEF OutcomeKind, OutcomeRow, IsAutoScoreableFinal
<1>3. /\ outcomes' = Append(outcomes, r)
      /\ scores' = scores \cup {row(f) : f \in due}
      /\ UNCHANGED <<forecasts, fEdges, oEdges, blind, locks>>
  BY DEF OutcomeAdd, independence
<1>4. \A f \in due : row(f).forecast = f
  BY DEF ScoreRow
<1> HIDE DEF r, row
<1>5. /\ DOMAIN outcomes' = DOMAIN outcomes \cup {new} /\ outcomes'[new] = r
      /\ \A o \in DOMAIN outcomes : outcomes'[o] = outcomes[o]
  BY <1>1, <1>2, <1>3
<1>6. \A n : LiveFinals(n)' \subseteq LiveFinals(n) \cup {new}
  <2>1. \A o : OSuperseded(o)' <=> OSuperseded(o)
    BY <1>3 DEF OSuperseded
  <2> HIDE DEF new
  <2> QED
    BY <1>5, <2>1 DEF LiveFinals
<1>7. \A n : new \in LiveFinals(n)' => n = m /\ IsAutoScoreableFinal(k)
  <2> HIDE DEF new
  <2> QED
    BY <1>2, <1>5 DEF LiveFinals
<1> HIDE DEF new
<1>8. ASSUME NEW f \in DOMAIN forecasts
      PROVE  (LiveFinals(forecasts[f].market) # {} /\ InForce(f) => HasScore(f))'
  <2>0. scores \subseteq scores' /\ forecasts' = forecasts
    BY <1>3
  <2>1. CASE new \notin LiveFinals(forecasts[f].market)'
    <3>1. LiveFinals(forecasts[f].market)' \subseteq LiveFinals(forecasts[f].market)
      BY <1>6, <2>0, <2>1
    <3> QED
      BY <1>3, <2>0, <3>1, OldForecastsStayScored
  <2>2. CASE new \in LiveFinals(forecasts[f].market)'
    <3>1. forecasts[f].market = m /\ IsAutoScoreableFinal(k)
      BY <1>7, <2>0, <2>2
    <3>2. InForce(f)' => f \in due
      BY <1>3, <3>1 DEF InForce, Autoscored, FSuperseded, BlindPending
    <3>3. f \in due => HasScore(f)'
      BY <1>3, <1>4 DEF HasScore
    <3> QED
      BY <3>2, <3>3
  <2> QED
    BY <2>1, <2>2
<1> QED
  BY <1>3, <1>8 DEF SettledForecastsScored, InForce, HasScore

\* Every other call leaves the rows, and takes no live final away but by an edge.
LEMMA QuietSettled ==
    ASSUME SettledForecastsScored, UNCHANGED <<forecasts, outcomes, scores>>,
           fEdges \subseteq fEdges', oEdges \subseteq oEdges', blind \subseteq blind'
    PROVE  SettledForecastsScored'
<1>1. \A n : LiveFinals(n)' \subseteq LiveFinals(n)
  BY DEF LiveFinals, OSuperseded
<1>2. \A f \in DOMAIN forecasts :
        LiveFinals(forecasts[f].market)' \subseteq LiveFinals(forecasts[f].market)
  BY <1>1
<1>3. \A f \in DOMAIN forecasts :
        (LiveFinals(forecasts[f].market) # {} /\ InForce(f) => HasScore(f))'
  BY <1>2, OldForecastsStayScored
<1> QED
  BY <1>3 DEF SettledForecastsScored, InForce, HasScore

LEMMA NextSettled == ScoreInv /\ SettledForecastsScored /\ [Next]_vars => SettledForecastsScored'
<1> SUFFICES ASSUME ScoreInv, SettledForecastsScored, [Next]_vars
             PROVE  SettledForecastsScored'
  OBVIOUS
<1>1. ASSUME NEW m \in Markets, NEW k \in ForecastKinds, NEW anchor,
             ForecastAdd(m, k, anchor)
      PROVE  SettledForecastsScored'
  BY <1>1, NewForecastSettled DEF ForecastAdd
<1>2. ASSUME NEW m \in Markets, NEW k \in OutcomeKinds, OutcomeAdd(m, k)
      PROVE  SettledForecastsScored'
  BY <1>2, OutcomeAddSettled
<1>3. ASSUME NEW prior \in DOMAIN forecasts, NEW k \in ForecastKinds, Supersede(prior, k)
      PROVE  SettledForecastsScored'
  <2>1. forecasts[prior].market \in Markets
    BY RowFacts
  <2> QED
    BY <1>3, <2>1, NewForecastSettled DEF Supersede, independence
<1>4. ASSUME NEW a, NEW b, LinkForecasts(a, b) \/ LinkOutcomes(a, b)
      PROVE  SettledForecastsScored'
  BY <1>4, QuietSettled DEF LinkForecasts, LinkOutcomes, independence
<1>5. ASSUME NEW f, CommitBlind(f)
      PROVE  SettledForecastsScored'
  BY <1>5, QuietSettled DEF CommitBlind
<1>6. ASSUME NEW f, NEW s, Anchor(f, s) \/ RevealSnapshot(f, s)
      PROVE  SettledForecastsScored'
  BY <1>6, QuietSettled DEF Anchor, RevealSnapshot
<1>7. CASE SnapshotAdd \/ UNCHANGED vars
  BY <1>7, QuietSettled DEF SnapshotAdd, vars
<1> QED
  BY <1>1, <1>2, <1>3, <1>4, <1>5, <1>6, <1>7 DEF Next

\* Whatever the order of forecasts, outcomes, corrections and blind commitments, and
\* however the edges point: while its market has a live final outcome, a forecast that
\* is in force and was never blind has been scored.
THEOREM SettledAreScored == Spec => []SettledForecastsScored
<1>1. Init => SettledForecastsScored
  BY DEF Init, SettledForecastsScored
<1> QED
  BY <1>1, NextSettled, ScoringInvariance, PTL DEF Spec
-----------------------------------------------------------------------------
(* Without edges by hand, no outcome is superseded. *)

NoCorrections == links \in Nat /\ (links = 0 => oEdges = {})

LEMMA NextUncorrected == NoCorrections /\ [Next]_vars => NoCorrections'
<1> SUFFICES ASSUME NoCorrections, [Next]_vars PROVE NoCorrections'
  OBVIOUS
<1>1. ASSUME NEW a, NEW b, LinkForecasts(a, b) \/ LinkOutcomes(a, b)
      PROVE  NoCorrections'
  BY <1>1 DEF LinkForecasts, LinkOutcomes, NoCorrections
<1> QED
  BY <1>1 DEF Next, NoCorrections, ForecastAdd, OutcomeAdd, Supersede, SnapshotAdd,
     CommitBlind, Anchor, RevealSnapshot, vars

LEMMA Uncorrected == Spec => []NoCorrections
<1>1. Init => NoCorrections
  BY DEF Init, NoCorrections
<1> QED
  BY <1>1, NextUncorrected, PTL DEF Spec

\* What any step may do to what a forecast's state is derived from: rows, edges and
\* scores are only added, and the forecast an edge supersedes was there before.
TablesOnlyGrow ==
    /\ DOMAIN forecasts \subseteq DOMAIN forecasts'
    /\ fEdges \subseteq fEdges' /\ scores \subseteq scores'
    /\ \A e \in fEdges' : e[2] \in DOMAIN forecasts

LEMMA TablesGrow ==
    ASSUME ScoreInv, [Next]_vars
    PROVE  TablesOnlyGrow
<1>1. \A e \in fEdges : e[2] \in DOMAIN forecasts
  BY DEF ScoreInv, NothingAwaits
<1>2. ASSUME NEW m \in Markets, NEW k \in ForecastKinds, NEW anchor,
             ForecastAdd(m, k, anchor)
      PROVE  TablesOnlyGrow
  BY <1>1, <1>2, InsertForecastFacts DEF ForecastAdd, TablesOnlyGrow
<1>3. ASSUME NEW prior \in DOMAIN forecasts, NEW k \in ForecastKinds, Supersede(prior, k)
      PROVE  TablesOnlyGrow
  <2>1. forecasts[prior].market \in Markets
    BY RowFacts
  <2>2. DOMAIN forecasts \subseteq DOMAIN forecasts'
    BY <1>3, <2>1, InsertForecastFacts DEF Supersede
  <2> QED
    BY <1>1, <1>3, <2>2 DEF Supersede, TablesOnlyGrow
<1>4. ASSUME NEW a, NEW b \in DOMAIN forecasts, LinkForecasts(a, b)
      PROVE  TablesOnlyGrow
  BY <1>1, <1>4 DEF LinkForecasts, TablesOnlyGrow
<1>5. ASSUME NEW m, NEW k, OutcomeAdd(m, k)
      PROVE  TablesOnlyGrow
  BY <1>1, <1>5 DEF OutcomeAdd, TablesOnlyGrow
<1>6. ASSUME UNCHANGED <<forecasts, fEdges, scores>>
      PROVE  TablesOnlyGrow
  BY <1>1, <1>6 DEF TablesOnlyGrow
<1>7. ASSUME NEW a, NEW b, LinkOutcomes(a, b)
      PROVE  TablesOnlyGrow
  BY <1>6, <1>7 DEF LinkOutcomes
<1>8. ASSUME NEW f, CommitBlind(f)
      PROVE  TablesOnlyGrow
  BY <1>6, <1>8 DEF CommitBlind
<1>9. ASSUME NEW f, NEW s, Anchor(f, s) \/ RevealSnapshot(f, s)
      PROVE  TablesOnlyGrow
  BY <1>6, <1>9 DEF Anchor, RevealSnapshot
<1>10. CASE SnapshotAdd
  BY <1>6, <1>10 DEF SnapshotAdd
<1>11. CASE UNCHANGED vars
  BY <1>6, <1>11 DEF vars
<1> QED
  BY <1>2, <1>3, <1>4, <1>5, <1>7, <1>8, <1>9, <1>10, <1>11 DEF Next

\* The four states a derivation can give, and what each is given for.
LEMMA ScoringStates ==
    ASSUME NEW f
    PROVE  /\ ScoringState(f) \in {"pending", "scored", "failed", "superseded"}
           /\ ScoringState(f) = "superseded" <=> FSuperseded(f)
           /\ ScoringState(f) = "pending" <=> ~FSuperseded(f) /\ LiveScores(f) = {}
BY DEF ScoringState

\* A forecast that exists goes on by the lifecycle in a step that writes no edge.
LEMMA ScoreStep ==
    ASSUME TablesOnlyGrow, UNCHANGED <<links, oEdges>>, NEW f \in DOMAIN forecasts
    PROVE  \/ Lifecycle!Table(ScoringState(f), ScoringState(f)')
           \/ Lifecycle!ScoredAgain(ScoringState(f), ScoringState(f)')
<1>1. FSuperseded(f) => FSuperseded(f)'
  BY DEF FSuperseded, TablesOnlyGrow
<1>2. LiveScores(f) \subseteq LiveScores(f)'
  BY DEF LiveScores, OSuperseded, TablesOnlyGrow
<1>3. /\ ScoringState(f)' \in {"pending", "scored", "failed", "superseded"}
      /\ ScoringState(f)' = "superseded" <=> FSuperseded(f)'
      /\ ScoringState(f)' = "pending" <=> ~FSuperseded(f)' /\ LiveScores(f)' = {}
  BY DEF ScoringState
<1> QED
  BY <1>1, <1>2, <1>3, ScoringStates
     DEF Lifecycle!Table, Lifecycle!ScoredAgain, Lifecycle!Settled

\* An edge by hand scores nothing.
LEMMA CorrectStep ==
    ASSUME TablesOnlyGrow, UNCHANGED <<forecasts, scores>>, oEdges \subseteq oEdges',
           NEW f \in DOMAIN forecasts
    PROVE  \/ ScoringState(f)' = ScoringState(f)
           \/ ScoringState(f)' = "superseded"
           \/ /\ ScoringState(f) \in Lifecycle!Settled
              /\ ScoringState(f)' \in Lifecycle!Settled \cup {"pending"}
<1>1. FSuperseded(f) => FSuperseded(f)'
  BY DEF FSuperseded, TablesOnlyGrow
<1>2. LiveScores(f)' \subseteq LiveScores(f)
  BY DEF LiveScores, OSuperseded
<1>3. /\ ScoringState(f)' \in {"pending", "scored", "failed", "superseded"}
      /\ ScoringState(f)' = "superseded" <=> FSuperseded(f)'
      /\ ScoringState(f)' = "pending" <=> ~FSuperseded(f)' /\ LiveScores(f)' = {}
  BY DEF ScoringState
<1> QED
  BY <1>1, <1>2, <1>3, ScoringStates DEF Lifecycle!Settled

\* Either kind of step, with what it leaves alone.
LEMMA StepKinds ==
    ASSUME [Next]_vars
    PROVE  \/ UNCHANGED <<links, oEdges>>
           \/ /\ links' = links + 1 /\ oEdges \subseteq oEdges'
              /\ UNCHANGED <<forecasts, scores>>
<1>1. ASSUME NEW m, NEW k, NEW anchor, ForecastAdd(m, k, anchor) \/ OutcomeAdd(m, k)
      PROVE  UNCHANGED <<links, oEdges>>
  BY <1>1 DEF ForecastAdd, OutcomeAdd
<1>2. ASSUME NEW a, NEW b, LinkForecasts(a, b) \/ LinkOutcomes(a, b)
      PROVE  /\ links' = links + 1 /\ oEdges \subseteq oEdges'
             /\ UNCHANGED <<forecasts, scores>>
  BY <1>2 DEF LinkForecasts, LinkOutcomes
<1> QED
  BY <1>1, <1>2 DEF Next, Supersede, SnapshotAdd, CommitBlind, Anchor, RevealSnapshot, vars

Derived(f) == IF f \in DOMAIN forecasts THEN ScoringState(f) ELSE "none"

LEMMA LifecycleStep ==
    ASSUME ScoreInv, [Next]_vars
    PROVE  Lifecycle!Next
<1>1. TablesOnlyGrow
  BY TablesGrow
<1>2. \A f : Derived(f)' \in Lifecycle!States
  BY DEF Derived, ScoringState, Lifecycle!States, Lifecycle!Settled
<1>3. ASSUME UNCHANGED <<links, oEdges>>, NEW f
      PROVE  \/ Lifecycle!Table(Derived(f), Derived(f)')
             \/ Lifecycle!BornSettled(Derived(f), Derived(f)')
             \/ Lifecycle!ScoredAgain(Derived(f), Derived(f)')
  <2>1. CASE f \in DOMAIN forecasts
    <3>1. f \in DOMAIN forecasts'
      BY <1>1, <2>1 DEF TablesOnlyGrow
    <3> QED
      BY <1>1, <1>3, <2>1, <3>1, ScoreStep DEF Derived
  <2>2. CASE f \notin DOMAIN forecasts
    <3>1. Derived(f) = "none" /\ ~FSuperseded(f)'
      BY <1>1, <2>2 DEF TablesOnlyGrow, FSuperseded, Derived
    <3>2. Derived(f)' \in {"none", "pending", "scored", "failed"}
      BY <3>1 DEF Derived, ScoringState
    <3> QED
      BY <3>1, <3>2 DEF Lifecycle!Table, Lifecycle!BornSettled, Lifecycle!Settled
  <2> QED
    BY <2>1, <2>2
<1>4. ASSUME UNCHANGED <<forecasts, scores>>, oEdges \subseteq oEdges', NEW f
      PROVE  \/ Derived(f)' = Derived(f)
             \/ Derived(f) # "none" /\ Derived(f)' = "superseded"
             \/ /\ Derived(f) \in Lifecycle!Settled
                /\ Derived(f)' \in Lifecycle!Settled \cup {"pending"}
  <2>1. CASE f \in DOMAIN forecasts
    BY <1>1, <1>4, <2>1, CorrectStep, ScoringStates DEF Derived
  <2>2. CASE f \notin DOMAIN forecasts
    BY <1>4, <2>2 DEF Derived
  <2> QED
    BY <2>1, <2>2
<1>5. CASE UNCHANGED <<links, oEdges>>
  <2>1. Lifecycle!Score
    BY <1>2, <1>3, <1>5 DEF Lifecycle!Score, Derived
  <2> QED
    BY <2>1 DEF Lifecycle!Next
<1>6. CASE /\ links' = links + 1 /\ oEdges \subseteq oEdges'
           /\ UNCHANGED <<forecasts, scores>>
  <2>1. Lifecycle!Correct
    BY <1>2, <1>4, <1>6 DEF Lifecycle!Correct, Derived
  <2> QED
    BY <2>1 DEF Lifecycle!Next
<1> QED
  BY <1>5, <1>6, StepKinds

\* The derived states refine the lifecycle, whatever edges agents write by hand: only
\* those take a settled forecast back, they settle none, and what is superseded stays so.
THEOREM StatesFollowLifecycle == Spec => FollowsLifecycle
<1>1. Init => Lifecycle!Init
  BY DEF Init, Lifecycle!Init
<1> QED
  BY <1>1, LifecycleStep, ScoringInvariance, PTL
     DEF Spec, FollowsLifecycle, Lifecycle!Spec
-----------------------------------------------------------------------------
(* What the readers count. *)

\* A score is against a final outcome of its forecast's market, and a forecast has
\* one for an outcome.
ScoresFit ==
    /\ \A s \in scores :
         /\ outcomes[s.outcome].market = forecasts[s.forecast].market
         /\ IsAutoScoreableFinal(outcomes[s.outcome])
    /\ \A s, t \in scores : s.forecast = t.forecast /\ s.outcome = t.outcome => s = t

LEMMA NewForecastFits ==
    ASSUME ScoreInv, ScoresFit,
           NEW m \in Markets, NEW k \in ForecastKinds, InsertForecast(m, k),
           scores' = scores \cup LateScores(Len(forecasts) + 1, m, k),
           UNCHANGED outcomes
    PROVE  ScoresFit'
<1> DEFINE new == Len(forecasts) + 1
<1>1. /\ new \notin DOMAIN forecasts /\ forecasts'[new].market = m
      /\ \A f \in DOMAIN forecasts : forecasts'[f] = forecasts[f]
  BY InsertForecastFacts
<1>2. \A s \in LateScores(new, m, k) :
         /\ s.forecast = new /\ s.outcome \in Heads(m)
         /\ outcomes[s.outcome].market = m /\ IsAutoScoreableFinal(outcomes[s.outcome])
  BY LateScoresFacts, HeadFacts DEF LiveFinals
<1>3. \A s, t \in LateScores(new, m, k) : s.outcome = t.outcome => s = t
  <2> SUFFICES ASSUME NEW s \in LateScores(new, m, k), NEW t \in LateScores(new, m, k),
                      s.outcome = t.outcome
               PROVE  s = t
    OBVIOUS
  <2>1. PICK o \in Heads(m) : s = ScoreRow(new, k, o, outcomes[o], TRUE)
    BY DEF LateScores
  <2>2. PICK p \in Heads(m) : t = ScoreRow(new, k, p, outcomes[p], TRUE)
    BY DEF LateScores
  <2>3. s.outcome = o /\ t.outcome = p
    BY <2>1, <2>2 DEF ScoreRow
  <2> QED
    BY <2>1, <2>2, <2>3
<1>4. \A s \in scores : s.forecast \in DOMAIN forecasts
  BY DEF ScoreInv, NothingAwaits
<1>5. scores' = scores \cup LateScores(new, m, k)
  OBVIOUS
<1> HIDE DEF new
<1>6. ASSUME NEW s \in scores'
      PROVE  /\ outcomes'[s.outcome].market = forecasts'[s.forecast].market
             /\ IsAutoScoreableFinal(outcomes'[s.outcome])
  <2>1. CASE s \in scores
    BY <1>1, <1>4, <2>1 DEF ScoresFit
  <2>2. CASE s \in LateScores(new, m, k)
    BY <1>1, <1>2, <2>2
  <2> QED
    BY <1>5, <2>1, <2>2
<1>7. ASSUME NEW s \in scores', NEW t \in scores',
             s.forecast = t.forecast, s.outcome = t.outcome
      PROVE  s = t
  BY <1>1, <1>2, <1>3, <1>4, <1>5, <1>7 DEF ScoresFit
<1> QED
  BY <1>6, <1>7 DEF ScoresFit

LEMMA OutcomeAddFits ==
    ASSUME ScoreInv, ScoresFit,
           NEW m \in Markets, NEW k \in OutcomeKinds, OutcomeAdd(m, k)
    PROVE  ScoresFit'
<1> DEFINE new == Len(outcomes) + 1
           r == [market |-> m, status |-> k.status, sure |-> k.sure,
                 vocab |-> k.vocab, resolvedAt |-> k.resolvedAt]
           due == IF IsAutoScoreableFinal(k) THEN Autoscored(m) ELSE {}
           row(f) == ScoreRow(f, forecasts[f], new, k, FALSE)
<1>1. k \in OutcomeKind /\ outcomes \in Seq(OutcomeRow)
  BY ScoringAssumption DEF ScoreInv, RowTypes
<1>2. r \in OutcomeRow /\ r.market = m
      /\ (IsAutoScoreableFinal(r) <=> IsAutoScoreableFinal(k))
  BY <1>1 DEF OutcomeKind, OutcomeRow, IsAutoScoreableFinal
<1>3. /\ outcomes' = Append(outcomes, r)
      /\ scores' = scores \cup {row(f) : f \in due}
      /\ UNCHANGED forecasts
  BY DEF OutcomeAdd
<1>4. \A f \in due : row(f).forecast = f /\ row(f).outcome = new
  BY DEF ScoreRow
<1>5. \A f \in due : IsAutoScoreableFinal(k) /\ forecasts[f].market = m
  BY DEF Autoscored
<1> HIDE DEF r, row, due
<1>6. /\ new \notin DOMAIN outcomes /\ outcomes'[new] = r
      /\ \A o \in DOMAIN outcomes : outcomes'[o] = outcomes[o]
  BY <1>1, <1>2, <1>3
<1>7. \A s \in scores : s.outcome \in DOMAIN outcomes
  BY DEF ScoreInv, NothingAwaits
<1> HIDE DEF new
<1>8. ASSUME NEW s \in scores'
      PROVE  /\ outcomes'[s.outcome].market = forecasts'[s.forecast].market
             /\ IsAutoScoreableFinal(outcomes'[s.outcome])
  <2>1. CASE s \in scores
    BY <1>3, <1>6, <1>7, <2>1 DEF ScoresFit
  <2>2. ASSUME NEW f \in due, s = row(f)
        PROVE  /\ outcomes'[s.outcome].market = forecasts'[s.forecast].market
               /\ IsAutoScoreableFinal(outcomes'[s.outcome])
    BY <1>2, <1>3, <1>4, <1>5, <1>6, <2>2
  <2> QED
    BY <1>3, <2>1, <2>2
<1>9. ASSUME NEW s \in scores', NEW t \in scores',
             s.forecast = t.forecast, s.outcome = t.outcome
      PROVE  s = t
  BY <1>3, <1>4, <1>6, <1>7, <1>9 DEF ScoresFit
<1> QED
  BY <1>8, <1>9 DEF ScoresFit

LEMMA NextFits == ScoreInv /\ ScoresFit /\ [Next]_vars => ScoresFit'
<1> SUFFICES ASSUME ScoreInv, ScoresFit, [Next]_vars PROVE ScoresFit'
  OBVIOUS
<1>1. ASSUME NEW m \in Markets, NEW k \in ForecastKinds, NEW anchor,
             ForecastAdd(m, k, anchor)
      PROVE  ScoresFit'
  BY <1>1, NewForecastFits DEF ForecastAdd
<1>2. ASSUME NEW m \in Markets, NEW k \in OutcomeKinds, OutcomeAdd(m, k)
      PROVE  ScoresFit'
  BY <1>2, OutcomeAddFits
<1>3. ASSUME NEW prior \in DOMAIN forecasts, NEW k \in ForecastKinds, Supersede(prior, k)
      PROVE  ScoresFit'
  <2>1. forecasts[prior].market \in Markets
    BY RowFacts
  <2> QED
    BY <1>3, <2>1, NewForecastFits DEF Supersede
<1>4. ASSUME UNCHANGED <<forecasts, outcomes, scores>>
      PROVE  ScoresFit'
  BY <1>4 DEF ScoresFit
<1>5. ASSUME NEW a, NEW b, LinkForecasts(a, b) \/ LinkOutcomes(a, b)
      PROVE  ScoresFit'
  BY <1>4, <1>5 DEF LinkForecasts, LinkOutcomes
<1>6. ASSUME NEW f, CommitBlind(f)
      PROVE  ScoresFit'
  BY <1>4, <1>6 DEF CommitBlind
<1>7. ASSUME NEW f, NEW s, Anchor(f, s) \/ RevealSnapshot(f, s)
      PROVE  ScoresFit'
  BY <1>4, <1>7 DEF Anchor, RevealSnapshot
<1>8. CASE SnapshotAdd \/ UNCHANGED vars
  BY <1>4, <1>8 DEF SnapshotAdd, vars
<1> QED
  BY <1>1, <1>2, <1>3, <1>5, <1>6, <1>7, <1>8 DEF Next

LEMMA FitsInvariance == Spec => []ScoresFit
<1>1. Init => ScoresFit
  BY DEF Init, ScoresFit
<1> QED
  BY <1>1, NextFits, ScoringInvariance, PTL DEF Spec

\* The counted scores of a forecast go one to one to live finals of its market.
LEMMA CountedAreLive == ScoreInv /\ ScoresFit => CountedOnce
<1> SUFFICES ASSUME ScoreInv, ScoresFit, NEW f \in DOMAIN forecasts
             PROVE  Cardinality(Counted(f)) <= Cardinality(LiveFinals(forecasts[f].market))
  BY DEF CountedOnce
<1> DEFINE L == LiveFinals(forecasts[f].market)
           of == [s \in Counted(f) |-> s.outcome]
<1>1. Counted(f) \subseteq scores /\ \A s \in Counted(f) : s.forecast = f /\ ~OSuperseded(s.outcome)
  BY DEF Counted, LiveScores
<1>2. \A s \in Counted(f) : s.outcome \in L
  BY <1>1 DEF LiveFinals, ScoreInv, NothingAwaits, ScoresFit
<1>3. of \in Injection(Counted(f), L)
  <2>1. of \in [Counted(f) -> L]
    BY <1>2
  <2>2. \A s, t \in Counted(f) : of[s] = of[t] => s = t
    BY <1>1 DEF ScoresFit
  <2> QED
    BY <2>1, <2>2 DEF Injection, IsInjective
<1>4. IsFiniteSet(L)
  <2>1. L \in SUBSET (1..Len(outcomes)) /\ Len(outcomes) \in Nat
    BY RowFacts DEF LiveFinals
  <2>2. IsFiniteSet(1..Len(outcomes))
    BY <2>1, FS_Interval
  <2> QED
    BY <2>1, <2>2, FS_Subset
<1> HIDE DEF of
<1> QED
  BY <1>3, <1>4, FS_Injection

\* Calibration counts a forecast at most once for each live final outcome of its
\* market, whichever trigger wrote the score and however the edges point.
THEOREM ForecastsCountOnce == Spec => []CountedOnce
BY CountedAreLive, ScoringInvariance, FitsInvariance, PTL

\* Until memory.link is used, a pending forecast with a resolution_at that was never
\* blind is in the answer of resolve.pending: a market with a live final outcome, which
\* that report leaves out, has no pending forecast.
THEOREM PendingStayQueued == Spec => []PendingAreQueued
<1>1. SettledForecastsScored /\ NoCorrections => PendingAreQueued
  <2> SUFFICES ASSUME SettledForecastsScored, oEdges = {},
                      NEW f \in DOMAIN forecasts, f \notin blind,
                      ScoringState(f) = "pending", forecasts[f].due # "unset"
               PROVE  f \in ResolvePending
    BY DEF PendingAreQueued, NoCorrections
  <2>1. ~FSuperseded(f) /\ LiveScores(f) = {}
    BY ScoringStates
  <2>2. \A s \in scores : s.forecast # f
    BY <2>1 DEF LiveScores, OSuperseded
  <2>3. LiveFinals(forecasts[f].market) = {}
    BY <2>1, <2>2 DEF SettledForecastsScored
  <2> QED
    BY <2>1, <2>3 DEF ResolvePending
<1> QED
  BY <1>1, SettledAreScored, Uncorrected, PTL
-----------------------------------------------------------------------------
(* forecast.list: the walk over its pages *)

LEMMA MaxIs ==
    ASSUME NEW n \in Nat, NEW s, s \subseteq 1..n, s # {}
    PROVE  Max(s) \in s /\ \A j \in s : Max(s) >= j
<1> DEFINE below == {k \in Nat : n - k \in s}
<1>1. below \subseteq Nat /\ below # {}
  <2>1. PICK i \in s : i \in 1..n
    OBVIOUS
  <2>2. n - (n - i) = i /\ n - i \in Nat
    BY <2>1
  <2> QED
    BY <2>1, <2>2
<1>2. PICK k \in below : \A j \in below : k <= j
  BY <1>1, LeastNatural
<1>3. n - k \in s /\ k \in Nat
  BY <1>2
<1>4. \A j \in s : n - k >= j
  <2> TAKE j \in s
  <2>1. j \in 1..n /\ n - (n - j) = j /\ n - j \in Nat
    OBVIOUS
  <2>2. k <= n - j
    BY <1>2, <2>1
  <2> QED
    BY <1>3, <2>1, <2>2
<1> QED
  BY <1>3, <1>4 DEF Max

LEMMA TopIs ==
    ASSUME NEW m \in Nat, NEW s, s \subseteq 1..(m + 1), m + 1 \in s
    PROVE  Max(s) = m + 1 /\ s \ {m + 1} \subseteq 1..m
<1>1. Max(s) \in s /\ Max(s) >= m + 1
  <2>1. m + 1 \in Nat /\ s # {}
    OBVIOUS
  <2> QED
    BY <2>1, MaxIs
<1>2. Max(s) \in 1..(m + 1)
  BY <1>1
<1> QED
  BY <1>1, <1>2

LEMMA LowIs ==
    ASSUME NEW m \in Nat, NEW s, s \subseteq 1..(m + 1), m + 1 \notin s, s # {}
    PROVE  s \subseteq 1..m /\ Max(s) \in 1..m /\ s \ {Max(s)} \subseteq 1..m
<1>1. s \subseteq 1..m
  OBVIOUS
<1> QED
  BY <1>1, MaxIs

\* A row that lists a set once, each member before those it precedes.
ListsBy(s, S, L) ==
    /\ s \in [1..Cardinality(S) -> S]
    /\ \A i, j \in 1..Cardinality(S) : i < j => <<s[i], s[j]>> \in L
Ranks(S, L) ==
    /\ \A a \in S : <<a, a>> \notin L
    /\ \A a, b \in S : a # b => <<a, b>> \in L \/ <<b, a>> \in L
    /\ \A a, b, c \in S : <<a, b>> \in L /\ <<b, c>> \in L => <<a, c>> \in L

LEMMA OrderExists ==
    ASSUME NEW S, IsFiniteSet(S), NEW L, Ranks(S, L)
    PROVE  \E s : ListsBy(s, S, L)
<1> DEFINE n == Cardinality(S)
           Upto(a) == {b \in S : b = a \/ <<b, a>> \in L}
           place == [a \in S |-> Cardinality(Upto(a))]
<1>1. n \in Nat
  BY FS_CardinalityType
<1>2. ASSUME NEW a \in S PROVE IsFiniteSet(Upto(a)) /\ Cardinality(Upto(a)) \in 1..n
  <2>1. Upto(a) \in SUBSET S /\ a \in Upto(a)
    OBVIOUS
  <2> HIDE DEF Upto
  <2>2. IsFiniteSet(Upto(a)) /\ Cardinality(Upto(a)) <= n
    BY <2>1, FS_Subset
  <2>3. Cardinality(Upto(a)) \in Nat /\ Cardinality(Upto(a)) # 0
    BY <2>1, <2>2, FS_CardinalityType, FS_EmptySet
  <2> QED
    BY <1>1, <2>2, <2>3
<1>3. ASSUME NEW a \in S, NEW b \in S, <<a, b>> \in L
      PROVE  Cardinality(Upto(a)) < Cardinality(Upto(b))
  <2>1. Upto(a) \subseteq Upto(b)
    BY <1>3 DEF Ranks
  <2>2. b \in Upto(b) /\ b \notin Upto(a)
    BY <1>3 DEF Ranks
  <2> HIDE DEF Upto
  <2>3. Cardinality(Upto(a)) <= Cardinality(Upto(b)) /\ Cardinality(Upto(a)) # Cardinality(Upto(b))
    BY <1>2, <2>1, <2>2, FS_Subset
  <2> QED
    BY <1>2, <2>3
<1>4. place \in Injection(S, 1..n)
  <2>1. place \in [S -> 1..n]
    BY <1>2
  <2>2. \A a, b \in S : place[a] = place[b] => a = b
    <3> SUFFICES ASSUME NEW a \in S, NEW b \in S, place[a] = place[b], a # b PROVE FALSE
      OBVIOUS
    <3>1. <<a, b>> \in L \/ <<b, a>> \in L
      BY DEF Ranks
    <3>2. place[a] < place[b] \/ place[b] < place[a]
      BY <1>3, <3>1
    <3>3. place[a] \in Nat /\ place[b] \in Nat
      BY <2>1, <1>1
    <3> QED
      BY <3>2, <3>3
  <2> HIDE DEF place
  <2> QED
    BY <2>1, <2>2 DEF Injection, IsInjective
<1>5. place \in Surjection(S, 1..n)
  <2>1. IsFiniteSet(1..n) /\ Cardinality(1..n) = n
    BY <1>1, FS_Interval
  <2> HIDE DEF place
  <2> QED
    BY <1>4, <2>1, FS_Injection DEF n
<1>6. \A i \in 1..n : \E a \in S : place[a] = i
  BY <1>5 DEF Surjection
<1>7. \A a, b \in S : place[a] < place[b] => <<a, b>> \in L
  <2> SUFFICES ASSUME NEW a \in S, NEW b \in S, place[a] < place[b] PROVE <<a, b>> \in L
    OBVIOUS
  <2>1. place[a] \in Nat /\ place[b] \in Nat
    BY <1>1, <1>2
  <2>2. a # b /\ ~(place[b] < place[a])
    <3> HIDE DEF place
    <3> QED
      BY <2>1
  <2>3. <<b, a>> \notin L
    <3> SUFFICES ASSUME <<b, a>> \in L PROVE FALSE
      OBVIOUS
    <3>1. place[b] < place[a]
      BY <1>3
    <3> QED
      BY <2>2, <3>1
  <2> QED
    BY <2>2, <2>3 DEF Ranks
<1> HIDE DEF place
<1> DEFINE s == [i \in 1..n |-> CHOOSE a \in S : place[a] = i]
<1>8. \A i \in 1..n : s[i] \in S /\ place[s[i]] = i
  BY <1>6
<1>9. s \in [1..n -> S]
  BY <1>8
<1> HIDE DEF s
<1> QED
  BY <1>7, <1>8, <1>9 DEF ListsBy

LEMMA ListsAll ==
    ASSUME NEW S, IsFiniteSet(S), NEW L, Ranks(S, L), NEW s, ListsBy(s, S, L)
    PROVE  Cardinality(S) \in Nat /\ \A a \in S : \E i \in 1..Cardinality(S) : s[i] = a
<1> DEFINE n == Cardinality(S)
<1>1. n \in Nat
  BY FS_CardinalityType
<1>2. s \in [1..n -> S] /\ \A i, j \in 1..n : i < j => <<s[i], s[j]>> \in L
  BY DEF ListsBy
<1>3. s \in Injection(1..n, S)
  <2>1. \A i, j \in 1..n : s[i] = s[j] => i = j
    <3> SUFFICES ASSUME NEW i \in 1..n, NEW j \in 1..n, s[i] = s[j], i # j PROVE FALSE
      OBVIOUS
    <3>1. i < j \/ j < i
      BY <1>1
    <3>2. s[i] \in S
      BY <1>2
    <3> QED
      BY <1>2, <3>1, <3>2 DEF Ranks
  <2> QED
    BY <1>2, <2>1 DEF Injection, IsInjective
<1>4. Cardinality(1..n) = n
  BY <1>1, FS_Interval
<1>5. s \in Surjection(1..n, S)
  BY <1>3, <1>4, FS_Injection
<1> QED
  BY <1>1, <1>5 DEF Surjection

\* The least of a set, and the order of a page.
LEMMA MinIs ==
    ASSUME NEW P, P \subseteq Nat, P # {}
    PROVE  Min(P) \in P /\ \A g \in P : Min(P) <= g
<1>1. \E f \in P : \A g \in P : f <= g
  BY LeastNatural
<1> QED
  BY <1>1 DEF Min

LEMMA NewestFirstIs ==
    ASSUME NEW P, P \subseteq Nat, IsFiniteSet(P)
    PROVE  LET s == NewestFirst(P) IN
           /\ s \in Seq(P) /\ ToSet(s) = P
           /\ \A i, j \in DOMAIN s : i < j => s[i] > s[j]
<1> DEFINE L == {p \in P \X P : p[1] > p[2]}
           s == NewestFirst(P)
           n == Cardinality(P)
<1>1. \A f, g \in P : <<f, g>> \in L <=> f > g
  OBVIOUS
<1>2. Ranks(P, L)
  <2> HIDE DEF L
  <2> QED
    BY <1>1 DEF Ranks
<1>3. \E t : ListsBy(t, P, L)
  <2> HIDE DEF L
  <2> QED
    BY <1>2, OrderExists
<1>4. \A t : ListsBy(t, P, L) <=> /\ t \in [1..n -> P]
                                  /\ \A i, j \in 1..n : i < j => t[i] > t[j]
  <2> HIDE DEF L
  <2> QED
    BY <1>1 DEF ListsBy
<1>5. s \in [1..n -> P] /\ \A i, j \in 1..n : i < j => s[i] > s[j]
  <2> HIDE DEF L
  <2> QED
    BY <1>3, <1>4 DEF NewestFirst
<1>6. n \in Nat /\ \A f \in P : \E i \in 1..n : s[i] = f
  <2>1. ListsBy(s, P, L)
    <3> HIDE DEF L
    <3> QED
      BY <1>4, <1>5
  <2> HIDE DEF L, s
  <2> QED
    BY <1>2, <2>1, ListsAll
<1> HIDE DEF s
<1>7. DOMAIN s = 1..n /\ s \in Seq(P)
  BY <1>5, <1>6
<1> QED
  BY <1>5, <1>6, <1>7 DEF ToSet, s

\* A page of at least one row has one as soon as there is one, and takes no row and
\* leaves a newer one.
LEMMA PageIs ==
    ASSUME NEW N \in Nat, NEW rest, rest \subseteq 1..N, NEW limit \in Nat \ {0}
    PROVE  /\ Page(rest, limit) \subseteq rest
           /\ rest # {} => Page(rest, limit) # {}
           /\ \A f \in Page(rest, limit), g \in rest : g > f => g \in Page(rest, limit)
<1> DEFINE newer(f) == {g \in rest : g > f}
<1>5. /\ \A f \in rest : f \in Nat
      /\ \A f, g \in Nat : f >= g => ~(g > f)
      /\ \A f, g, h \in Nat : g > f /\ h > g => h > f
  OBVIOUS
<1>0. IsFiniteSet(rest)
  <2>1. IsFiniteSet(1..N)
    BY FS_Interval
  <2> QED
    BY <2>1, FS_Subset
<1>1. Page(rest, limit) = {f \in rest : Cardinality(newer(f)) < limit}
  BY DEF Page
<1>2. ASSUME rest # {} PROVE \E f \in rest : Cardinality(newer(f)) < limit
  <2>1. Max(rest) \in rest /\ \A g \in rest : Max(rest) >= g
    BY <1>2, MaxIs
  <2>2. newer(Max(rest)) = {}
    BY <1>5, <2>1
  <2>3. Cardinality(newer(Max(rest))) = 0
    BY <2>2, FS_EmptySet
  <2>4. 0 < limit
    OBVIOUS
  <2> HIDE DEF newer
  <2> QED
    BY <2>1, <2>3, <2>4
<1>3. ASSUME NEW f \in rest, NEW g \in rest, g > f
      PROVE  Cardinality(newer(g)) <= Cardinality(newer(f)) /\ Cardinality(newer(f)) \in Nat
                /\ Cardinality(newer(g)) \in Nat
  <2>1. newer(g) \subseteq newer(f) /\ newer(f) \subseteq rest
    BY <1>5, <1>3
  <2> HIDE DEF newer
  <2>2. IsFiniteSet(newer(f))
    BY <1>0, <2>1, FS_Subset
  <2>3. IsFiniteSet(newer(g)) /\ Cardinality(newer(g)) <= Cardinality(newer(f))
    BY <2>1, <2>2, FS_Subset
  <2> QED
    BY <2>2, <2>3, FS_CardinalityType
<1> HIDE DEF newer
<1>4. ASSUME NEW f \in Page(rest, limit), NEW g \in rest, g > f
      PROVE  g \in Page(rest, limit)
  <2>1. f \in rest /\ Cardinality(newer(f)) < limit
    BY <1>1
  <2>2. Cardinality(newer(g)) < limit
    BY <1>3, <1>4, <2>1
  <2> QED
    BY <1>1, <2>2
<1> QED
  BY <1>1, <1>2, <1>4

\* Where a walk is after n turns: at its start, past a cursor with rows still to come, or
\* at its end.
Descending(s) == \A i, j \in DOMAIN s : i < j => s[i] > s[j]
Walked(S, N, walk, n) ==
    /\ walk.seen \in Seq(S) /\ Descending(walk.seen) /\ walk.done \in BOOLEAN
    /\ walk.done => ToSet(walk.seen) = S
    /\ ~walk.done /\ walk.cursor = 0 => n = 0 /\ walk.seen = << >>
    /\ ~walk.done /\ walk.cursor # 0 =>
         /\ walk.cursor \in S /\ walk.cursor + n <= N + 1
         /\ ToSet(walk.seen) = {f \in S : f >= walk.cursor}
         /\ \E f \in S : f < walk.cursor

LEMMA WiderIs ==
    ASSUME NEW S, NEW T, S \subseteq T, NEW s \in Seq(S)
    PROVE  s \in Seq(T)
<1>1. s \in [1..Len(s) -> S] /\ Len(s) \in Nat
  OBVIOUS
<1>2. s \in [1..Len(s) -> T]
  BY <1>1
<1> QED
  BY <1>1, <1>2

LEMMA JoinIs ==
    ASSUME NEW S, S \subseteq Nat, NEW s \in Seq(S), NEW t \in Seq(S)
    PROVE  /\ s \o t \in Seq(S) /\ ToSet(s \o t) = ToSet(s) \cup ToSet(t)
           /\ Descending(s) /\ Descending(t) /\ (\A f \in ToSet(s), g \in ToSet(t) : f > g)
                => Descending(s \o t)
<1> DEFINE u == s \o t
<1>1. /\ u \in Seq(S) /\ Len(u) = Len(s) + Len(t) /\ Len(s) \in Nat /\ Len(t) \in Nat
      /\ DOMAIN u = 1..(Len(s) + Len(t)) /\ DOMAIN s = 1..Len(s) /\ DOMAIN t = 1..Len(t)
      /\ \A i \in 1..Len(s) : u[i] = s[i]
      /\ \A i \in 1..Len(t) : u[Len(s) + i] = t[i]
  OBVIOUS
<1>2. \A i \in DOMAIN u : i \in 1..Len(s) \/ (i - Len(s) \in 1..Len(t) /\ u[i] = t[i - Len(s)])
  BY <1>1
<1> HIDE DEF u
<1>3. ToSet(u) = ToSet(s) \cup ToSet(t)
  <2>1. \A i \in 1..Len(s) : i \in DOMAIN u
    BY <1>1
  <2>2. \A i \in 1..Len(t) : Len(s) + i \in DOMAIN u
    BY <1>1
  <2> QED
    BY <1>1, <1>2, <2>1, <2>2 DEF ToSet
<1>4. ASSUME Descending(s), Descending(t), \A f \in ToSet(s), g \in ToSet(t) : f > g,
             NEW i \in DOMAIN u, NEW j \in DOMAIN u, i < j
      PROVE  u[i] > u[j]
  <2>1. CASE j \in 1..Len(s)
    <3>1. i \in 1..Len(s)
      BY <1>1, <1>4, <2>1
    <3> QED
      BY <1>1, <1>4, <2>1, <3>1 DEF Descending
  <2>2. CASE i \in 1..Len(s) /\ j \notin 1..Len(s)
    <3>1. u[i] = s[i] /\ s[i] \in ToSet(s) /\ u[j] = t[j - Len(s)] /\ t[j - Len(s)] \in ToSet(t)
      BY <1>1, <1>2, <2>2 DEF ToSet
    <3> QED
      BY <1>4, <3>1
  <2>3. CASE i \notin 1..Len(s) /\ j \notin 1..Len(s)
    <3>1. /\ u[i] = t[i - Len(s)] /\ u[j] = t[j - Len(s)]
          /\ i - Len(s) \in DOMAIN t /\ j - Len(s) \in DOMAIN t
      BY <1>1, <1>2, <2>3
    <3>2. i - Len(s) < j - Len(s)
      BY <1>1, <1>4
    <3> QED
      BY <1>4, <3>1, <3>2 DEF Descending
  <2> QED
    BY <2>1, <2>2, <2>3
<1> QED
  BY <1>1, <1>3, <1>4 DEF Descending, u

\* A turn goes on from there.
LEMMA TurnIs ==
    ASSUME NEW N \in Nat, NEW S, S \subseteq 1..N, NEW limit \in Nat \ {0},
           NEW n \in Nat, NEW walk, Walked(S, N, walk, n)
    PROVE  Walked(S, N, Turn(S, limit, walk), n + 1)
<1> DEFINE rest == AfterCursor(S, walk.cursor)
           page == Page(rest, limit)
           next == NextCursor(rest, limit)
           part == NewestFirst(page)
           after == Turn(S, limit, walk)
<1>1. CASE walk.done
  BY <1>1 DEF Turn, Walked
<1>2. CASE ~walk.done
  <2>1. after = [seen |-> walk.seen \o part, cursor |-> next, done |-> next = 0]
    BY <1>2 DEF Turn
  <2>2. rest = {f \in S : walk.cursor = 0 \/ f < walk.cursor} /\ rest \subseteq 1..N /\ rest \subseteq S
    BY DEF AfterCursor
  <2>3. next = IF page = rest THEN 0 ELSE Min(page)
    BY DEF NextCursor
  <2> HIDE DEF rest, next
  <2>4. /\ page \subseteq rest /\ (rest # {} => page # {})
        /\ \A f \in page, g \in rest : g > f => g \in page
    BY <2>2, PageIs
  <2> HIDE DEF page
  <2>5. IsFiniteSet(page)
    <3>1. IsFiniteSet(1..N) /\ page \subseteq 1..N
      BY <2>2, <2>4, FS_Interval
    <3> QED
      BY <3>1, FS_Subset
  <2>6. part \in Seq(page) /\ ToSet(part) = page /\ Descending(part)
    <3>1. page \subseteq Nat
      BY <2>2, <2>4
    <3> QED
      BY <2>5, <3>1, NewestFirstIs DEF Descending
  <2> HIDE DEF part, after
  <2>7. part \in Seq(S) /\ walk.seen \in Seq(S) /\ S \subseteq Nat
    <3>1. page \subseteq S
      BY <2>2, <2>4
    <3>2. part \in Seq(S)
      BY <2>6, <3>1, WiderIs
    <3>3. S \subseteq Nat
      OBVIOUS
    <3> QED
      BY <2>6, <3>2, <3>3 DEF Walked
  <2>8. \A f \in ToSet(walk.seen), g \in page : f > g
    <3>1. CASE walk.cursor = 0
      BY <1>2, <3>1 DEF Walked, ToSet
    <3>2. CASE walk.cursor # 0
      <4>1. ToSet(walk.seen) = {f \in S : f >= walk.cursor} /\ walk.cursor \in S
        BY <1>2, <3>2 DEF Walked
      <4>2. \A g \in page : g < walk.cursor /\ g \in S
        BY <2>2, <2>4, <3>2
      <4>3. \A c, f, g \in Nat : f >= c /\ g < c => f > g
        OBVIOUS
      <4>4. \A f \in S : f \in Nat
        BY <2>7
      <4> QED
        BY <4>1, <4>2, <4>3, <4>4
    <3> QED
      BY <3>1, <3>2
  <2>9. /\ walk.seen \o part \in Seq(S) /\ Descending(walk.seen \o part)
        /\ ToSet(walk.seen \o part) = ToSet(walk.seen) \cup page
    <3>1. Descending(walk.seen)
      BY DEF Walked
    <3> QED
      BY <2>6, <2>7, <2>8, <3>1, JoinIs
  <2>10. ToSet(walk.seen) \cup rest = S
    <3>1. CASE walk.cursor = 0
      BY <1>2, <2>2, <3>1 DEF Walked, ToSet
    <3>2. CASE walk.cursor # 0
      <4>1. ToSet(walk.seen) = {f \in S : f >= walk.cursor} /\ walk.cursor \in S
        BY <1>2, <3>2 DEF Walked
      <4>2. \A c \in Nat, f \in Nat : f >= c \/ f < c
        OBVIOUS
      <4>3. \A f \in S : f >= walk.cursor \/ f < walk.cursor
        BY <2>7, <4>1, <4>2
      <4> QED
        BY <2>2, <3>2, <4>1, <4>3
    <3> QED
      BY <3>1, <3>2
  <2>11. CASE page = rest
    <3>1. next = 0 /\ after.done = TRUE /\ after.seen = walk.seen \o part
      BY <2>1, <2>3, <2>11
    <3> QED
      BY <2>9, <2>10, <2>11, <3>1 DEF Walked, after
  <2>12. CASE page # rest
    <3>1. page # {} /\ page \subseteq Nat
      BY <2>2, <2>4, <2>12
    <3>2. next \in page /\ \A g \in page : next <= g
      BY <2>3, <2>12, <3>1, MinIs
    <3>3. next \in S /\ next \in 1..N /\ next # 0
      BY <2>2, <2>4, <3>2
    <3>4. next + (n + 1) <= N + 1
      <4>1. CASE walk.cursor = 0
        BY <1>2, <3>3, <4>1 DEF Walked
      <4>2. CASE walk.cursor # 0
        <5>1. walk.cursor \in S /\ walk.cursor + n <= N + 1
          BY <1>2, <4>2 DEF Walked
        <5>2. next < walk.cursor
          BY <2>2, <2>4, <3>2, <4>2
        <5>3. walk.cursor \in Nat /\ next \in Nat
          BY <2>7, <3>3, <5>1
        <5> QED
          BY <5>1, <5>2, <5>3
      <4> QED
        BY <4>1, <4>2
    <3>5. page = {f \in rest : f >= next}
      <4>1. \A f \in rest : f \in Nat
        BY <2>2
      <4>2. \A f \in rest : f >= next => f = next \/ f > next
        BY <3>3, <4>1
      <4> QED
        BY <2>4, <3>2, <4>2
    <3>6. ToSet(walk.seen) \cup page = {f \in S : f >= next}
      <4>1. \A f \in ToSet(walk.seen) : f \in S /\ f > next
        BY <2>8, <2>10, <3>2
      <4>2. \A f \in S : f \in Nat
        BY <2>7
      <4>3. \A f \in ToSet(walk.seen) : f >= next
        <5>1. \A c \in Nat, f \in Nat : f > c => f >= c
          OBVIOUS
        <5> QED
          BY <3>3, <4>1, <4>2, <5>1
      <4>4. page \subseteq S
        BY <2>2, <2>4
      <4> QED
        BY <2>10, <3>5, <4>1, <4>3, <4>4
    <3>7. \E f \in S : f < next
      <4>1. PICK f \in rest : f \notin page
        BY <2>4, <2>12
      <4>2. f \in Nat /\ f \in S /\ ~(f >= next)
        BY <2>2, <3>5, <4>1
      <4> QED
        BY <3>3, <4>2
    <3>8. /\ after.seen = walk.seen \o part /\ after.cursor = next /\ after.done = (next = 0)
      BY <2>1
    <3>9. after.done = FALSE
      BY <3>3, <3>8
    <3> QED
      BY <2>9, <3>3, <3>4, <3>6, <3>7, <3>8, <3>9 DEF Walked, after
  <2> QED
    BY <2>11, <2>12 DEF after
<1> QED
  BY <1>1, <1>2

\* The turns of a walk, one after the other.
Start == [seen |-> << >>, cursor |-> 0, done |-> FALSE]
IsWalk(it, S, limit, m) ==
    it = [s \in SUBSET (1..m) |-> IF s = {} THEN Start ELSE Turn(S, limit, it[s \ {Max(s)}])]

LEMMA WalkExists ==
    ASSUME NEW S, NEW limit, NEW N \in Nat
    PROVE  \E it : IsWalk(it, S, limit, N)
<1> DEFINE Bad == {m \in Nat : ~ \E it : IsWalk(it, S, limit, m)}
<1>1. SUFFICES ASSUME Bad # {} PROVE FALSE
  OBVIOUS
<1>2. PICK b \in Bad : \A m \in Bad : b <= m
  BY <1>1, LeastNatural
<1>3. b # 0
  <2> DEFINE it == [s \in SUBSET (1..0) |-> Start]
  <2>1. \A s \in SUBSET (1..0) : s = {}
    OBVIOUS
  <2>2. IsWalk(it, S, limit, 0)
    BY <2>1 DEF IsWalk
  <2> HIDE DEF it
  <2> QED
    BY <2>2
<1> DEFINE m == b - 1
<1>4. m \in Nat /\ b = m + 1 /\ m \notin Bad
  BY <1>2, <1>3
<1>5. PICK g : IsWalk(g, S, limit, m)
  BY <1>4
<1> HIDE DEF m
<1> DEFINE h == [s \in SUBSET (1..(m + 1)) |->
                   IF m + 1 \in s THEN Turn(S, limit, g[s \ {m + 1}]) ELSE g[s]]
<1>6. ASSUME NEW s \in SUBSET (1..(m + 1))
      PROVE  h[s] = IF s = {} THEN Start ELSE Turn(S, limit, h[s \ {Max(s)}])
  <2>1. \A t \in SUBSET (1..m) :
          /\ h[t] = g[t]
          /\ g[t] = IF t = {} THEN Start ELSE Turn(S, limit, g[t \ {Max(t)}])
    <3> TAKE t \in SUBSET (1..m)
    <3>1. t \in SUBSET (1..(m + 1)) /\ m + 1 \notin t
      BY <1>4
    <3>2. g[t] = IF t = {} THEN Start ELSE Turn(S, limit, g[t \ {Max(t)}])
      BY <1>5 DEF IsWalk
    <3> QED
      BY <3>1, <3>2
  <2>2. CASE m + 1 \in s
    <3>1. h[s] = Turn(S, limit, g[s \ {m + 1}])
      BY <2>2
    <3> HIDE DEF h
    <3>2. Max(s) = m + 1 /\ s \ {m + 1} \in SUBSET (1..m)
      BY <1>4, <2>2, TopIs
    <3> QED
      BY <2>1, <2>2, <3>1, <3>2
  <2>3. CASE m + 1 \notin s /\ s # {}
    <3> HIDE DEF h
    <3>1. s \in SUBSET (1..m) /\ s \ {Max(s)} \in SUBSET (1..m)
      BY <1>4, <2>3, LowIs
    <3> QED
      BY <2>1, <2>3, <3>1
  <2>4. CASE s = {}
    <3>1. s \in SUBSET (1..m)
      BY <2>4
    <3> HIDE DEF h
    <3> QED
      BY <2>1, <2>4, <3>1
  <2> QED
    BY <2>2, <2>3, <2>4
<1>7. h = [s \in SUBSET (1..(m + 1)) |-> h[s]]
  OBVIOUS
<1> HIDE DEF h
<1>8. IsWalk(h, S, limit, m + 1)
  BY <1>6, <1>7 DEF IsWalk
<1> QED
  BY <1>4, <1>8

\* As many turns as there are forecasts bring a walk to its end.
LEMMA WalkEnds ==
    ASSUME NEW N \in Nat, DOMAIN forecasts = 1..N, NEW state, NEW limit \in Nat \ {0}
    PROVE  LET seen == ListWalk(state, limit).seen IN
           seen \in Seq(Items(state)) /\ ToSet(seen) = Items(state) /\ Descending(seen)
<1> DEFINE S == Items(state)
           it == CHOOSE it : IsWalk(it, S, limit, N)
<1>1. ListWalk(state, limit) = it[1..N]
  BY DEF ListWalk, FoldLeft, MapThenFoldSet, IsWalk, Start
<1>2. IsWalk(it, S, limit, N)
  BY WalkExists
<1>3. S \subseteq 1..N
  BY DEF Items
<1> HIDE DEF it, S
<1> DEFINE Bad == {i \in 0..N : ~Walked(S, N, it[1..i], i)}
<1>4. Walked(S, N, it[1..0], 0)
  <2>1. 1..0 = {} /\ {} \in SUBSET (1..N)
    OBVIOUS
  <2>2. it[1..0] = Start
    BY <1>2, <2>1 DEF IsWalk
  <2>3. << >> \in Seq(S) /\ DOMAIN << >> = {}
    OBVIOUS
  <2> QED
    BY <2>2, <2>3 DEF Walked, Start, Descending
<1>5. ASSUME NEW n \in Nat, n + 1 <= N, Walked(S, N, it[1..n], n)
      PROVE  Walked(S, N, it[1..(n + 1)], n + 1)
  <2>1. 1..(n + 1) \in SUBSET (1..N) /\ n + 1 \in 1..(n + 1) /\ n + 1 \notin 1..n
    BY <1>5
  <2>2. Max(1..(n + 1)) = n + 1 /\ (1..(n + 1)) \ {n + 1} = 1..n
    BY <2>1, TopIs
  <2>3. it[1..(n + 1)] = Turn(S, limit, it[1..n])
    BY <1>2, <2>1, <2>2 DEF IsWalk
  <2> QED
    BY <1>3, <1>5, <2>3, TurnIs
<1>6. Bad = {}
  <2>1. SUFFICES ASSUME Bad # {} PROVE FALSE
    OBVIOUS
  <2>2. PICK b \in Bad : \A i \in Bad : b <= i
    <3>1. Bad \subseteq Nat
      OBVIOUS
    <3> HIDE DEF Bad
    <3> QED
      BY <2>1, <3>1, LeastNatural
  <2>3. b \in 0..N /\ b # 0
    BY <1>4
  <2> DEFINE n == b - 1
  <2>4. n \in Nat /\ n + 1 = b /\ n + 1 <= N /\ n \in 0..N /\ ~(b <= n)
    BY <2>3
  <2> HIDE DEF n
  <2>5. Walked(S, N, it[1..n], n)
    BY <2>2, <2>4
  <2>6. Walked(S, N, it[1..(n + 1)], n + 1)
    BY <1>5, <2>4, <2>5
  <2> QED
    BY <2>2, <2>4, <2>6
<1>7. Walked(S, N, ListWalk(state, limit), N)
  <2>1. N \in 0..N
    OBVIOUS
  <2> QED
    BY <1>1, <1>6, <2>1
<1> DEFINE walk == ListWalk(state, limit)
<1> HIDE DEF walk
<1>8. Walked(S, N, walk, N)
  BY <1>7 DEF walk
<1>9. CASE ~walk.done /\ walk.cursor = 0
  <2>1. N = 0 /\ walk.seen = << >>
    BY <1>8, <1>9 DEF Walked
  <2>2. S = {} /\ ToSet(walk.seen) = {}
    BY <1>3, <2>1 DEF ToSet
  <2> QED
    BY <1>8, <2>2 DEF Walked, S, walk
<1>10. walk.done \/ walk.cursor = 0
  <2>1. SUFFICES ASSUME ~walk.done, walk.cursor # 0 PROVE FALSE
    OBVIOUS
  <2>2. walk.cursor \in 1..N /\ walk.cursor + N <= N + 1
    BY <1>3, <1>8, <2>1 DEF Walked
  <2>3. PICK f \in 1..N : f < walk.cursor
    BY <1>3, <1>8, <2>1 DEF Walked
  <2> QED
    BY <2>2, <2>3
<1>11. CASE walk.done
  BY <1>8, <1>11 DEF Walked, S, walk
<1> QED
  BY <1>9, <1>10, <1>11

-----------------------------------------------------------------------------
(* forecast.list: the state it derives *)

\* Scores are given at times in the past, and a forecast gets one at a time: there is at
\* most one head outcome.
TimesFit ==
    /\ \A s \in scores : s.at \in Nat /\ s.at < Now
    /\ \A s, t \in scores : s.forecast = t.forecast /\ s.at = t.at => s = t

LEMMA OneHead ==
    ASSUME ScoreInv, NEW m, NEW o \in Heads(m), NEW p \in Heads(m)
    PROVE  o = p
<1>1. o \in DOMAIN outcomes /\ p \in DOMAIN outcomes /\ Later(o, p) /\ Later(p, o)
  BY HeadFacts DEF Heads
<1>2. outcomes \in Seq(OutcomeRow)
  BY DEF ScoreInv, RowTypes
<1>3. \A q \in DOMAIN outcomes : q \in Nat /\ outcomes[q] \in OutcomeRow
  BY <1>2
<1>4. \A q \in DOMAIN outcomes : q \in Nat /\ outcomes[q].resolvedAt \in Nat
  BY <1>3 DEF OutcomeRow
<1> QED
  BY <1>1, <1>4 DEF Later

LEMMA NewForecastTimes ==
    ASSUME ScoreInv, TimesFit,
           NEW m \in Markets, NEW k \in ForecastKinds, InsertForecast(m, k),
           scores' = scores \cup LateScores(Len(forecasts) + 1, m, k),
           UNCHANGED outcomes
    PROVE  TimesFit'
<1> DEFINE new == Len(forecasts) + 1
           fresh == LateScores(new, m, k)
<1>1. Now \in Nat /\ Now' = Now + 1
  <2>1. forecasts \in Seq(ForecastRow) /\ outcomes \in Seq(OutcomeRow)
    BY DEF ScoreInv, RowTypes
  <2>2. Len(forecasts') = Len(forecasts) + 1
    BY <2>1 DEF InsertForecast
  <2>3. Len(forecasts) \in Nat /\ Len(outcomes) \in Nat
    BY <2>1
  <2> QED
    BY <2>2, <2>3 DEF Now
<1>2. new \notin DOMAIN forecasts
  BY InsertForecastFacts
<1>3. \A s \in fresh : \E o \in Heads(m) : s = ScoreRow(new, k, o, outcomes[o], TRUE)
  BY DEF LateScores
<1>4. \A s \in scores : s.forecast \in DOMAIN forecasts
  BY DEF ScoreInv, NothingAwaits
<1>5. scores' = scores \cup fresh
  OBVIOUS
<1> HIDE DEF new, fresh
<1>6. \A s \in fresh : s.forecast = new /\ s.at = Now
  BY <1>3 DEF ScoreRow
<1>7. \A s, t \in fresh : s = t
  <2>1. \A o, p \in Heads(m) : o = p
    BY OneHead
  <2> QED
    BY <1>3, <2>1
<1>8. \A s \in scores' : s.at \in Nat /\ s.at < Now'
  <2>1. \A s \in scores : s.at \in Nat /\ s.at < Now
    BY DEF TimesFit
  <2> HIDE DEF Now
  <2>2. \A i \in Nat : i < Now => i < Now + 1
    BY <1>1
  <2>3. Now < Now + 1
    BY <1>1
  <2> QED
    BY <1>1, <1>5, <1>6, <2>1, <2>2, <2>3
<1>9. ASSUME NEW s \in scores', NEW t \in scores', s.forecast = t.forecast, s.at = t.at
      PROVE  s = t
  BY <1>2, <1>4, <1>5, <1>6, <1>7, <1>9 DEF TimesFit
<1> QED
  BY <1>8, <1>9 DEF TimesFit

LEMMA OutcomeAddTimes ==
    ASSUME ScoreInv, TimesFit,
           NEW m \in Markets, NEW k \in OutcomeKinds, OutcomeAdd(m, k)
    PROVE  TimesFit'
<1> DEFINE due == IF IsAutoScoreableFinal(k) THEN Autoscored(m) ELSE {}
           row(f) == ScoreRow(f, forecasts[f], Len(outcomes) + 1, k, FALSE)
<1>1. Now \in Nat /\ Now' = Now + 1
  <2>1. forecasts \in Seq(ForecastRow) /\ outcomes \in Seq(OutcomeRow)
    BY DEF ScoreInv, RowTypes
  <2>2. Len(outcomes') = Len(outcomes) + 1 /\ forecasts' = forecasts
    BY <2>1 DEF OutcomeAdd
  <2>3. Len(forecasts) \in Nat /\ Len(outcomes) \in Nat
    BY <2>1
  <2> QED
    BY <2>2, <2>3 DEF Now
<1>2. scores' = scores \cup {row(f) : f \in due}
  BY DEF OutcomeAdd
<1>3. \A f \in due : row(f).forecast = f /\ row(f).at = Now
  BY DEF ScoreRow
<1> HIDE DEF due, row, Now
<1>4. \A s \in scores' : s.at \in Nat /\ s.at < Now'
  <2>1. \A s \in scores : s.at \in Nat /\ s.at < Now
    BY DEF TimesFit
  <2>2. \A i \in Nat : i < Now => i < Now + 1
    BY <1>1
  <2>3. Now < Now + 1
    BY <1>1
  <2> QED
    BY <1>1, <1>2, <1>3, <2>1, <2>2, <2>3
<1>5. ASSUME NEW s \in scores', NEW t \in scores', s.forecast = t.forecast, s.at = t.at
      PROVE  s = t
  <2>1. \A u \in scores : u.at # Now
    BY <1>1 DEF TimesFit
  <2> QED
    BY <1>2, <1>3, <1>5, <2>1 DEF TimesFit
<1> QED
  BY <1>4, <1>5 DEF TimesFit

LEMMA NextTimes == ScoreInv /\ TimesFit /\ [Next]_vars => TimesFit'
<1> SUFFICES ASSUME ScoreInv, TimesFit, [Next]_vars PROVE TimesFit'
  OBVIOUS
<1>1. ASSUME NEW m \in Markets, NEW k \in ForecastKinds, NEW anchor,
             ForecastAdd(m, k, anchor)
      PROVE  TimesFit'
  BY <1>1, NewForecastTimes DEF ForecastAdd
<1>2. ASSUME NEW m \in Markets, NEW k \in OutcomeKinds, OutcomeAdd(m, k)
      PROVE  TimesFit'
  BY <1>2, OutcomeAddTimes
<1>3. ASSUME NEW prior \in DOMAIN forecasts, NEW k \in ForecastKinds, Supersede(prior, k)
      PROVE  TimesFit'
  <2>1. forecasts[prior].market \in Markets
    BY RowFacts
  <2> QED
    BY <1>3, <2>1, NewForecastTimes DEF Supersede
<1>4. ASSUME UNCHANGED <<forecasts, outcomes, scores>>
      PROVE  TimesFit'
  BY <1>4 DEF TimesFit, Now
<1>5. ASSUME NEW a, NEW b, LinkForecasts(a, b) \/ LinkOutcomes(a, b)
      PROVE  TimesFit'
  BY <1>4, <1>5 DEF LinkForecasts, LinkOutcomes
<1>6. ASSUME NEW f, CommitBlind(f)
      PROVE  TimesFit'
  BY <1>4, <1>6 DEF CommitBlind
<1>7. ASSUME NEW f, NEW s, Anchor(f, s) \/ RevealSnapshot(f, s)
      PROVE  TimesFit'
  BY <1>4, <1>7 DEF Anchor, RevealSnapshot
<1>8. CASE SnapshotAdd \/ UNCHANGED vars
  BY <1>4, <1>8 DEF SnapshotAdd, vars
<1> QED
  BY <1>1, <1>2, <1>3, <1>5, <1>6, <1>7, <1>8 DEF Next

LEMMA TimesInvariance == Spec => []TimesFit
<1>1. Init => TimesFit
  BY DEF Init, TimesFit
<1> QED
  BY <1>1, NextTimes, ScoringInvariance, PTL DEF Spec

\* The list's maps give the state that derive_scoring_state gives.
LEMMA MapsAgree ==
    ASSUME ScoreInv, TimesFit, NEW f
    PROVE  StateFromMaps(f) = ScoringState(f)
<1> DEFINE L == LiveScores(f)
           Latest(s) == \A t \in L : s.at >= t.at
<1>1. f \in SupersededIds <=> FSuperseded(f)
  BY DEF SupersededIds, FSuperseded
<1>2. LatestScore(f) = {s \in L : Latest(s)}
  BY DEF LatestScore, LiveScores
<1>3. L \subseteq scores /\ \A s \in L : s.forecast = f
  BY DEF LiveScores
<1>4. CASE L = {}
  BY <1>1, <1>2, <1>4 DEF StateFromMaps, ScoringState
<1>5. CASE L # {}
  <2> HIDE DEF L
  <2> DEFINE T == {Now - s.at : s \in L}
  <2>1. Now \in Nat
    <3>1. Len(forecasts) \in Nat /\ Len(outcomes) \in Nat
      BY RowFacts
    <3> QED
      BY <3>1 DEF Now
  <2>2. \A s \in L : s.at \in Nat /\ s.at < Now
    BY <1>3 DEF TimesFit
  <2> HIDE DEF Now
  <2>3. T \subseteq Nat /\ T # {}
    BY <1>5, <2>1, <2>2
  <2>4. PICK n \in T : \A m \in T : n <= m
    BY <2>3, LeastNatural
  <2>5. PICK l \in L : n = Now - l.at
    BY <2>4
  <2>6. Latest(l)
    <3> SUFFICES ASSUME NEW t \in L PROVE l.at >= t.at
      OBVIOUS
    <3>1. Now - l.at <= Now - t.at
      BY <2>4, <2>5
    <3>2. l.at \in Nat /\ t.at \in Nat
      BY <2>2
    <3> QED
      BY <2>1, <3>1, <3>2
  <2>7. ASSUME NEW s \in L, Latest(s) PROVE s = l
    <3>1. s.at >= l.at /\ l.at >= s.at /\ l.at \in Nat /\ s.at \in Nat
      BY <2>2, <2>6, <2>7
    <3>2. s.at = l.at
      BY <3>1
    <3> QED
      BY <1>3, <3>2 DEF TimesFit
  <2>8. LatestScore(f) = {l} /\ (CHOOSE s \in L : Latest(s)) = l
    <3> HIDE DEF Latest
    <3> QED
      BY <1>2, <2>6, <2>7
  <2> QED
    BY <1>1, <1>5, <2>8 DEF StateFromMaps, ScoringState, L
<1> QED
  BY <1>4, <1>5

\* Who follows next_cursor through forecast.list to its end gets each forecast of the state
\* once, newest first, whatever the page, and with the state the scorer derives; for
\* any corrections too.
THEOREM WalksAreComplete == Spec => []WalksAgree
<1>1. ScoreInv /\ TimesFit => WalksAgree
  <2> SUFFICES ASSUME ScoreInv, TimesFit, NEW state, NEW limit \in 1..MaxForecasts
               PROVE  LET seen == ListWalk(state, limit).seen
                      IN /\ ToSet(seen) = {f \in DOMAIN forecasts : ScoringState(f) = state}
                         /\ \A i, j \in DOMAIN seen : i < j => seen[i] > seen[j]
    BY DEF WalksAgree
  <2>1. Items(state) = {f \in DOMAIN forecasts : ScoringState(f) = state}
    BY MapsAgree DEF Items
  <2>2. DOMAIN forecasts = 1..Len(forecasts) /\ Len(forecasts) \in Nat
    BY RowFacts
  <2>3. limit \in Nat \ {0}
    BY ScoringAssumption
  <2> QED
    BY <2>1, <2>2, <2>3, WalkEnds DEF Descending
<1> QED
  BY <1>1, ScoringInvariance, TimesInvariance, PTL

\* So the readers agree.
THEOREM ReadersAlwaysAgree == Spec => []ReadersAgree
<1>1. PendingAreQueued /\ CountedOnce /\ WalksAgree => ReadersAgree
  BY DEF ReadersAgree
<1> QED
  BY <1>1, PendingStayQueued, ForecastsCountOnce, WalksAreComplete, PTL
=============================================================================
