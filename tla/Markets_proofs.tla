--------------------------- MODULE Markets_proofs ---------------------------
(***************************************************************************)
(* Proofs about the market tools, for any processes, calls, keys, markets  *)
(* and histories of the venue: one outcome per market, and no market row   *)
(* that the log does not account for.                                      *)
(*                                                                         *)
(* The second part is about Review, for any histories that agents may      *)
(* write, any requests and number of reviewers.  What is committed names    *)
(* nothing that is still to come (OrderInv), so a row names the same rows    *)
(* for ever; on this rest the package whose tables are read one by one, and  *)
(* the case bundle of a past moment.                                        *)
(*                                                                         *)
(* The third part is about Promotion, for any bundles, number of processes    *)
(* and attempts: steps of one plan have keys of their own, the ids a process *)
(* has filed are those of its bundle's rows (Filed), and each step behind it *)
(* has landed (PromotionInv), so a bundle answered ok is whole.              *)
(*                                                                         *)
(* The last part is about Arcs, for any agents, orders that fit (PlansFit),   *)
(* rows that are there before and number of deaths: rows under the key of a  *)
(* plan are what the key says, and each planner is on its plan (ArcsInv).    *)
(* Three rounds of the walk are enough: two find the decision of the arc,    *)
(* the third the rest of it.                                                 *)
(***************************************************************************)
EXTENDS Markets, Review, Promotion, Arcs, FiniteSetTheorems, WellFoundedInduction, TLAPS

-----------------------------------------------------------------------------
(* The inductive invariant. *)

IsSequence(s) == \E S : s \in Seq(S)

\* No two outcomes are of one market.
Apart == \A i, j \in DOMAIN outcomes : outcomes[i].market = outcomes[j].market => i = j

MarketsInv ==
    /\ IsSequence(events) /\ IsSequence(outcomes)
    /\ DOMAIN row = Markets
    /\ Apart
    /\ RowIsLogged

-----------------------------------------------------------------------------
(* Lemmas. *)

\* A log that is appended to keeps its entries.
LEMMA AppendedKeeps ==
    ASSUME NEW s, IsSequence(s), NEW x
    PROVE  /\ IsSequence(Append(s, x))
           /\ DOMAIN s = 1..Len(s) /\ Len(s) \in Nat
           /\ DOMAIN Append(s, x) = 1..(Len(s) + 1)
           /\ \A i \in DOMAIN s : Append(s, x)[i] = s[i]
           /\ Append(s, x)[Len(s) + 1] = x
<1>1. PICK S : s \in Seq(S)
  BY DEF IsSequence
<1>2. s \in Seq(S \cup {x})
  BY <1>1
<1>3. Append(s, x) \in Seq(S \cup {x})
  BY <1>2
<1> QED
  BY <1>2, <1>3 DEF IsSequence

LEMMA ConcatKeeps ==
    ASSUME NEW s, NEW t, IsSequence(s), IsSequence(t)
    PROVE  /\ IsSequence(s \o t)
           /\ \A i \in DOMAIN s : i \in DOMAIN (s \o t) /\ (s \o t)[i] = s[i]
           /\ \A i \in DOMAIN t : \E k \in DOMAIN (s \o t) : (s \o t)[k] = t[i]
<1>1. PICK S : s \in Seq(S)
  BY DEF IsSequence
<1>2. PICK T : t \in Seq(T)
  BY DEF IsSequence
<1>3. s \in Seq(S \cup T) /\ t \in Seq(S \cup T)
  BY <1>1, <1>2
<1>4. s \o t \in Seq(S \cup T)
  BY <1>3
<1>5. /\ DOMAIN s = 1..Len(s) /\ DOMAIN t = 1..Len(t)
      /\ Len(s) \in Nat /\ Len(t) \in Nat
      /\ DOMAIN (s \o t) = 1..(Len(s) + Len(t))
      /\ \A i \in 1..(Len(s) + Len(t)) :
           (s \o t)[i] = IF i <= Len(s) THEN s[i] ELSE t[i - Len(s)]
  BY <1>3
<1>6. ASSUME NEW i \in DOMAIN t PROVE (s \o t)[i + Len(s)] = t[i] /\ i + Len(s) \in DOMAIN (s \o t)
  BY <1>5
<1>7. \A i \in DOMAIN s : i \in DOMAIN (s \o t) /\ (s \o t)[i] = s[i]
  BY <1>5
<1>8. \A i \in DOMAIN t : \E k \in DOMAIN (s \o t) : (s \o t)[k] = t[i]
  BY <1>6
<1>9. IsSequence(s \o t)
  BY <1>4 DEF IsSequence
<1> QED
  BY <1>7, <1>8, <1>9

LEMMA ShortSequences ==
    /\ IsSequence(<< >>)
    /\ \A x : IsSequence(<<x>>) /\ 1 \in DOMAIN <<x>> /\ <<x>>[1] = x
<1>1. << >> \in Seq({})
  OBVIOUS
<1>2. ASSUME NEW x PROVE IsSequence(<<x>>) /\ 1 \in DOMAIN <<x>> /\ <<x>>[1] = x
  <2>1. <<x>> \in Seq({x})
    OBVIOUS
  <2>2. 1 \in DOMAIN <<x>> /\ <<x>>[1] = x
    OBVIOUS
  <2>3. IsSequence(<<x>>)
    BY <2>1 DEF IsSequence
  <2> QED
    BY <2>2, <2>3
<1>3. IsSequence(<< >>)
  BY <1>1 DEF IsSequence
<1> QED
  BY <1>2, <1>3

\* The log s continues the events, entry by entry.
Prolongs(s) ==
    /\ IsSequence(s)
    /\ \A i \in DOMAIN events : i \in DOMAIN s /\ s[i] = events[i]

\* An emitted event is in the log, whether it is added or found there.
LEMMA EmittedFacts ==
    ASSUME IsSequence(events), NEW created, IsSequence(created), NEW e
    PROVE  /\ Prolongs(Emitted(created, e))
           /\ ~Conflicts(e) => \E k \in DOMAIN Emitted(created, e) : Emitted(created, e)[k] = e
<1> DEFINE before == events \o created
<1>1. IsSequence(before) /\ \A i \in DOMAIN events : i \in DOMAIN before /\ before[i] = events[i]
  BY ConcatKeeps
<1>2. IsSequence(<<e>>) /\ 1 \in DOMAIN <<e>> /\ <<e>>[1] = e
  BY ShortSequences
<1> HIDE DEF before
<1>3. CASE Held(e) = {}
  <2>1. Emitted(created, e) = before \o <<e>>
    BY <1>3 DEF Emitted, before
  <2>2. /\ IsSequence(before \o <<e>>)
        /\ \A i \in DOMAIN before : i \in DOMAIN (before \o <<e>>) /\ (before \o <<e>>)[i] = before[i]
        /\ \E k \in DOMAIN (before \o <<e>>) : (before \o <<e>>)[k] = e
    <3>1. \A i \in DOMAIN <<e>> : \E k \in DOMAIN (before \o <<e>>) : (before \o <<e>>)[k] = <<e>>[i]
      BY <1>1, <1>2, ConcatKeeps
    <3> QED
      BY <1>1, <1>2, <3>1, ConcatKeeps
  <2> QED
    BY <1>1, <2>1, <2>2 DEF Prolongs
<1>4. CASE Held(e) # {}
  <2>1. Emitted(created, e) = before
    BY <1>4 DEF Emitted, before
  <2>2. ~Conflicts(e) => \E i \in DOMAIN events : events[i] = e
    BY <1>4 DEF Conflicts, Held
  <2> QED
    BY <1>1, <2>1, <2>2 DEF Prolongs
<1> QED
  BY <1>3, <1>4

LEMMA InitMarketsInv == MarketsInit => MarketsInv
<1> SUFFICES ASSUME MarketsInit PROVE MarketsInv
  OBVIOUS
<1>1. << >> \in Seq({}) /\ DOMAIN << >> = {}
  OBVIOUS
<1>2. IsSequence(events) /\ IsSequence(outcomes) /\ Apart
  BY <1>1 DEF MarketsInit, IsSequence, Apart
<1> QED
  BY <1>2 DEF MarketsInit, MarketsInv, RowIsLogged

-----------------------------------------------------------------------------
(* The steps. *)

\* A step that leaves rows and outcomes alone, whatever it logs.
LEMMA LoggingStep ==
    ASSUME MarketsInv, UNCHANGED <<row, outcomes>>, Prolongs(events')
    PROVE  MarketsInv'
<1>1. RowIsLogged'
  BY DEF MarketsInv, RowIsLogged, Prolongs, Shape
<1> QED
  BY <1>1 DEF MarketsInv, Apart, Prolongs

\* A step that writes the row of market x, and logs what it wrote.
LEMMA RowStep ==
    ASSUME MarketsInv, NEW x, NEW new, row' = [row EXCEPT ![x] = new],
           UNCHANGED outcomes, Prolongs(events'),
           \E k \in DOMAIN events' :
               /\ events'[k].type \in {"market.bound", "market.refreshed"}
               /\ events'[k].shape = Shape(x, new)
    PROVE  MarketsInv'
<1>1. DOMAIN row' = Markets
  BY DEF MarketsInv
<1>2. ASSUME NEW m \in Markets, row'[m] # NoValue
      PROVE  \E i \in DOMAIN events' :
               /\ events'[i].type \in {"market.bound", "market.refreshed"}
               /\ events'[i].shape = Shape(m, row'[m])
  <2>1. CASE m = x
    BY <2>1 DEF MarketsInv
  <2>2. CASE m # x
    <3>1. row'[m] = row[m]
      BY <2>2 DEF MarketsInv
    <3> QED
      BY <1>2, <3>1 DEF MarketsInv, RowIsLogged, Prolongs
  <2> QED
    BY <2>1, <2>2
<1>3. RowIsLogged'
  BY <1>2 DEF RowIsLogged, Shape
<1> QED
  BY <1>1, <1>3 DEF MarketsInv, Apart, Prolongs

\* What ends a live call without writing.
LEMMA IdleStep ==
    ASSUME MarketsInv, UNCHANGED tables
    PROVE  MarketsInv'
<1>1. Prolongs(events') /\ UNCHANGED <<row, outcomes>>
  BY DEF tables, Prolongs, MarketsInv
<1> QED
  BY <1>1, LoggingStep

\* The events that the prerequisites of a bind add.
LEMMA PrerequisitesLog ==
    ASSUME MarketsInv, NEW m, NEW rule, NEW e, EnsureMarketBindPrerequisites(m, rule, e)
    PROVE  Prolongs(events') /\ (~Conflicts(e) => \E k \in DOMAIN events' : events'[k] = e)
<1> DEFINE venue == IF "manual" \in venues THEN << >> ELSE <<Event("venue.created", "", <<m>>)>>
           more == Append(venue, Event("instrument.created", "", <<m>>))
           created == IF instrument[m] # NoValue THEN venue ELSE more
<1>1. IsSequence(venue)
  BY ShortSequences
<1> HIDE DEF venue
<1>2. IsSequence(more)
  BY <1>1, AppendedKeeps
<1> HIDE DEF more
<1>3. IsSequence(created)
  BY <1>1, <1>2
<1>4. events' = Emitted(created, e)
  BY DEF EnsureMarketBindPrerequisites, venue, more
<1> HIDE DEF created
<1> QED
  BY <1>3, <1>4, EmittedFacts DEF MarketsInv

\* A manual bind.
LEMMA BindStep ==
    ASSUME MarketsInv, NEW c \in Calls,
           MarketBindReplayed(c) \/ MarketBindExisting(c) \/ MarketBindNew(c)
    PROVE  MarketsInv'
<1>1. CASE MarketBindReplayed(c)
  BY <1>1, PrerequisitesLog, LoggingStep DEF MarketBindReplayed
<1>2. CASE MarketBindExisting(c)
  BY <1>2, PrerequisitesLog, LoggingStep DEF MarketBindExisting
<1>3. CASE MarketBindNew(c)
  <2> DEFINE new == [state |-> c.state, raw |-> NoValue, rule |-> c.rule,
                     via |-> "manual", cachedAt |-> clock]
             e == Event("market.bound", c.key, Shape(c.market, new))
  <2>1. /\ row' = [row EXCEPT ![c.market] = new] /\ UNCHANGED outcomes
        /\ EnsureMarketBindPrerequisites(c.market, c.rule, e)
        /\ Held(Bound(c)) = {}
    BY <1>3 DEF MarketBindNew
  <2>2. ~Conflicts(e)
    BY <2>1 DEF Conflicts, Held, Bound, Event
  <2>3. e.type = "market.bound" /\ e.shape = Shape(c.market, new)
    BY DEF Event
  <2> HIDE DEF new, e
  <2>4. Prolongs(events') /\ \E k \in DOMAIN events' : events'[k] = e
    BY <2>1, <2>2, PrerequisitesLog
  <2> QED
    BY <2>1, <2>3, <2>4, RowStep
<1> QED
  BY <1>1, <1>2, <1>3

\* A live bind or refresh: what it writes it logs, or finds logged.
LEMMA UpsertMarketStep ==
    ASSUME MarketsInv, NEW a \in Agents, UpsertMarket(a)
    PROVE  MarketsInv'
<1> DEFINE c == job[a].call
           raw == job[a].raw
           rule == IF raw.rule = "" /\ c.op = "bind" THEN c.rule ELSE raw.rule
           new == [state |-> StateOf(raw), raw |-> raw, rule |-> rule,
                   via |-> "adapter", cachedAt |-> clock]
           type == IF c.op = "bind" THEN "market.bound" ELSE "market.refreshed"
           e == Event(type, c.key, Shape(c.market, new))
<1>1. CASE UNCHANGED tables
  BY <1>1, IdleStep
<1>2. CASE /\ ~Conflicts(e) /\ row' = [row EXCEPT ![c.market] = new]
           /\ events' = Emitted(<< >>, e) /\ UNCHANGED outcomes
  <2>1. e.type \in {"market.bound", "market.refreshed"} /\ e.shape = Shape(c.market, new)
    BY DEF Event
  <2> HIDE DEF e
  <2>2. Prolongs(events') /\ \E k \in DOMAIN events' : events'[k] = e
    BY <1>2, ShortSequences, EmittedFacts DEF MarketsInv
  <2> HIDE DEF new
  <2> QED
    BY <1>2, <2>1, <2>2, RowStep
<1> QED
  BY <1>1, <1>2 DEF UpsertMarket

LEMMA SnapshotStep ==
    ASSUME MarketsInv, NEW a \in Agents, SnapshotFetch(a) \/ SnapshotFetchSeries(a)
    PROVE  MarketsInv'
<1>1. CASE UNCHANGED tables
  BY <1>1, IdleStep
<1>2. ASSUME NEW m, NEW key, NEW at, NEW quote, InsertSnapshot(m, key, at, quote)
      PROVE  MarketsInv'
  <2>1. Prolongs(events') /\ UNCHANGED <<row, outcomes>>
    BY <1>2, ShortSequences, EmittedFacts DEF InsertSnapshot, MarketsInv
  <2> QED
    BY <2>1, LoggingStep
<1> QED
  BY <1>1, <1>2, Zenon DEF SnapshotFetch, SnapshotFetchSeries

\* outcome.fetch looks again inside its transaction.
LEMMA OutcomeFetchStep ==
    ASSUME MarketsInv, NEW a \in Agents, OutcomeFetch(a)
    PROVE  MarketsInv'
<1> DEFINE c == job[a].call
           raw == job[a].raw
           e == Event("outcome.recorded", c.key,
                      <<c.market, OutcomeStatus(raw), OutcomeLabel(raw)>>)
           new == [market |-> c.market, status |-> OutcomeStatus(raw),
                   label |-> OutcomeLabel(raw)]
<1>1. CASE UNCHANGED tables
  BY <1>1, IdleStep
<1>2. CASE /\ NoneYet(c.market) /\ outcomes' = Append(outcomes, new)
           /\ events' = Emitted(<< >>, e) /\ UNCHANGED row
  <2>1. Prolongs(events')
    BY <1>2, ShortSequences, EmittedFacts DEF MarketsInv
  <2>2. new.market = c.market
    OBVIOUS
  <2>3. \A i \in DOMAIN outcomes : outcomes[i].market # c.market
    BY <1>2 DEF NoneYet, OutcomesOf
  <2> HIDE DEF new, c
  <2>4. /\ IsSequence(outcomes') /\ Len(outcomes) \in Nat
        /\ DOMAIN outcomes = 1..Len(outcomes)
        /\ DOMAIN outcomes' = 1..(Len(outcomes) + 1)
        /\ \A i \in DOMAIN outcomes : outcomes'[i] = outcomes[i]
        /\ outcomes'[Len(outcomes) + 1] = new
    BY <1>2, AppendedKeeps DEF MarketsInv
  <2>5. \A i \in DOMAIN outcomes' : i \in DOMAIN outcomes \/ i = Len(outcomes) + 1
    BY <2>4
  <2>6. Apart'
    BY <2>2, <2>3, <2>4, <2>5 DEF MarketsInv, Apart
  <2>7. RowIsLogged'
    BY <1>2, <2>1 DEF MarketsInv, RowIsLogged, Prolongs, Shape
  <2> QED
    BY <1>2, <2>1, <2>4, <2>6, <2>7 DEF MarketsInv, Prolongs
<1> QED
  BY <1>1, <1>2 DEF OutcomeFetch

LEMMA NextMarketsInv == MarketsInv /\ [MarketsNext]_marketsVars => MarketsInv'
<1> SUFFICES ASSUME MarketsInv, [MarketsNext]_marketsVars PROVE MarketsInv'
  OBVIOUS
<1>1. CASE Tick \/ VenueMoves \/ UNCHANGED marketsVars
  BY <1>1, IdleStep DEF Tick, VenueMoves, marketsVars, tables
<1>2. ASSUME NEW c \in Calls,
             MarketBindReplayed(c) \/ MarketBindExisting(c) \/ MarketBindNew(c)
      PROVE  MarketsInv'
  BY <1>2, BindStep
<1>3. ASSUME NEW c \in Calls,
             \/ NotFound(c) \/ AnswerFromCache(c) \/ OutcomeFetchExisting(c)
             \/ \E a \in Agents : BeginFetch(a, c)
      PROVE  MarketsInv'
  BY <1>3, IdleStep DEF NotFound, AnswerFromCache, OutcomeFetchExisting, BeginFetch
<1>4. ASSUME NEW a \in Agents, Fetch(a) \/ FetchFails(a) \/ Die(a)
      PROVE  MarketsInv'
  BY <1>4, IdleStep DEF Fetch, FetchFails, Die
<1>5. ASSUME NEW a \in Agents,
             \/ UpsertMarket(a) \/ SnapshotFetch(a)
             \/ SnapshotFetchSeries(a) \/ OutcomeFetch(a)
      PROVE  MarketsInv'
  BY <1>5, UpsertMarketStep, SnapshotStep, OutcomeFetchStep
<1> QED
  BY <1>1, <1>2, <1>3, <1>4, <1>5 DEF MarketsNext

-----------------------------------------------------------------------------
(* What a reader should know. *)

\* No two outcomes are on record for one market, and each row of the markets table
\* says what an event said, in every reachable state of the venue's tools.
THEOREM MarketsInvariance == MarketsSpec => []MarketsInv
BY InitMarketsInv, NextMarketsInv, PTL DEF MarketsSpec

\* However many processes fetch the outcome of a market, under whatever keys, the
\* look inside the transaction leaves it with at most one.
THEOREM OneOutcomeAlways == MarketsSpec => []OneOutcomePerMarket
<1>1. MarketsInv => OneOutcomePerMarket
  <2> SUFFICES ASSUME MarketsInv, NEW m \in Markets
               PROVE  Cardinality(OutcomesOf(m)) <= 1
    BY DEF OneOutcomePerMarket
  <2>1. \A i, j \in OutcomesOf(m) : i = j
    BY DEF MarketsInv, Apart, OutcomesOf
  <2>2. CASE OutcomesOf(m) = {}
    BY <2>2, FS_EmptySet
  <2>3. CASE OutcomesOf(m) # {}
    <3>1. PICK i : OutcomesOf(m) = {i}
      BY <2>1, <2>3
    <3> QED
      BY <3>1, FS_Singleton
  <2> QED
    BY <2>2, <2>3
<1> QED
  BY <1>1, MarketsInvariance, PTL

\* Whatever is refused, replayed or dies in between, a market's row says what some
\* event said of that market.
THEOREM RowIsLoggedAlways == MarketsSpec => []RowIsLogged
<1>1. MarketsInv => RowIsLogged
  BY DEF MarketsInv
<1> QED
  BY <1>1, MarketsInvariance, PTL
-----------------------------------------------------------------------------
(* Review.  The order in which rows become visible: what is committed names    *)
(* nothing that is still to come, and no two rows have one name.               *)

OpenRow(o, k) == o[k].row

\* The rows of a transaction that is open, or to come.
Within ==
    /\ \A o \in open : IsSequence(o) /\ \A i, k \in DOMAIN o : i # k => ~SameName(OpenRow(o, i), OpenRow(o, k))
    /\ \A c \in DOMAIN toCome : IsSequence(toCome[c])
    /\ \A c \in DOMAIN toCome : \A i, k \in DOMAIN toCome[c] : i # k => ~SameName(toCome[c][i], toCome[c][k])
\* The committed rows, and what comes after them.
Before ==
    /\ \A x, y \in DOMAIN ledger : x # y => ~SameName(RowAt(x), RowAt(y))
    /\ \A o \in open : \A x \in DOMAIN ledger, k \in DOMAIN o : MayPrecede(RowAt(x), OpenRow(o, k))
    /\ \A c \in DOMAIN toCome : \A x \in DOMAIN ledger, k \in DOMAIN toCome[c] : MayPrecede(RowAt(x), toCome[c][k])
\* The open transactions, of which one at most is not of recalls, and what comes after them.
Between ==
    /\ \A o \in open : \A c \in DOMAIN toCome : \A i \in DOMAIN o, k \in DOMAIN toCome[c] :
         MayPrecede(OpenRow(o, i), toCome[c][k])
    /\ \A o, p \in open : o # p =>
         /\ IsRecall(o) \/ IsRecall(p)
         /\ \A i \in DOMAIN o, k \in DOMAIN p : ~SameName(OpenRow(o, i), OpenRow(p, k))
    /\ \A c, d \in DOMAIN toCome : c < d =>
         \A i \in DOMAIN toCome[c], k \in DOMAIN toCome[d] : MayPrecede(toCome[c][i], toCome[d][k])
OrderInv == IsSequence(ledger) /\ IsSequence(toCome) /\ time \in Nat /\ Within /\ Before /\ Between

LEMMA OrderInit == ASSUME ReviewInit, ReviewAssumption PROVE OrderInv
<1>1. toCome \in Seq(Seq(Row)) /\ toCome \in Histories
  BY DEF ReviewInit, ReviewAssumption
<1>2. ledger = << >> /\ open = {} /\ time = 0 /\ DOMAIN ledger = {}
  BY DEF ReviewInit
<1>3. IsSequence(toCome) /\ IsSequence(ledger) /\ \A c \in DOMAIN toCome : IsSequence(toCome[c])
  BY <1>1, <1>2, ShortSequences DEF IsSequence
<1>4. \A c, d \in DOMAIN toCome : \A i \in DOMAIN toCome[c], k \in DOMAIN toCome[d] :
         /\ c < d => MayPrecede(toCome[c][i], toCome[d][k])
         /\ c = d /\ i # k => ~SameName(toCome[c][i], toCome[d][k])
  BY <1>1 DEF ReviewAssumption
<1> QED
  BY <1>2, <1>3, <1>4 DEF OrderInv, Within, Before, Between

LEMMA StampOrder == ASSUME OrderInv, StampRows PROVE OrderInv'
<1> DEFINE head == toCome[1]
           new == [i \in DOMAIN head |-> [row |-> head[i], at |-> time]]
<1>1. PICK S : toCome \in Seq(S)
  BY DEF OrderInv, IsSequence
<1>2. toCome # << >> /\ 1 \in DOMAIN toCome /\ Head(toCome) = head
  BY <1>1 DEF StampRows
<1>3. /\ toCome' = Tail(toCome) /\ open' = open \cup {new} /\ UNCHANGED <<time, ledger>>
      /\ IsRecall(new) \/ \A other \in open : IsRecall(other)
  BY <1>2 DEF StampRows
<1>4. /\ IsSequence(toCome')
      /\ \A c \in DOMAIN toCome' : c + 1 \in DOMAIN toCome /\ toCome'[c] = toCome[c + 1] /\ c \in Nat /\ 1 < c + 1
  <2>1. toCome' \in Seq(S) /\ \A c \in DOMAIN toCome' : c + 1 \in DOMAIN toCome /\ toCome'[c] = toCome[c + 1] /\ c \in Nat /\ c >= 1
    BY <1>1, <1>2, <1>3
  <2> QED
    BY <2>1 DEF IsSequence
<1>5. DOMAIN new = DOMAIN head /\ \A i \in DOMAIN new : OpenRow(new, i) = head[i]
  BY DEF OpenRow
<1>6. IsSequence(new)
  <2>1. PICK T : head \in Seq(T)
    BY <1>2 DEF OrderInv, Within, IsSequence
  <2>2. DOMAIN head = 1..Len(head) /\ Len(head) \in Nat
    BY <2>1
  <2>3. new \in Seq({new[i] : i \in DOMAIN head})
    BY <2>2
  <2> HIDE DEF new
  <2> QED
    BY <2>3 DEF IsSequence
<1> HIDE DEF new, head
<1>7. \A o \in open' : o \in open \/ o = new
  BY <1>3
<1>8. Within'
  <2>1. \A i, k \in DOMAIN new : i # k => ~SameName(OpenRow(new, i), OpenRow(new, k))
    BY <1>2, <1>5 DEF OrderInv, Within, head
  <2> QED
    BY <1>4, <1>6, <1>7, <2>1 DEF OrderInv, Within
<1>9. Before'
  <2>1. \A x \in DOMAIN ledger, k \in DOMAIN new : MayPrecede(RowAt(x), OpenRow(new, k))
    BY <1>2, <1>5 DEF OrderInv, Before, head
  <2>2. \A x \in DOMAIN ledger : RowAt(x)' = RowAt(x)
    BY <1>3 DEF RowAt
  <2> QED
    BY <1>3, <1>4, <1>7, <2>1, <2>2 DEF OrderInv, Before
<1>10. Between'
  <2>1. ASSUME NEW c \in DOMAIN toCome', NEW i \in DOMAIN new, NEW k \in DOMAIN toCome'[c]
        PROVE  MayPrecede(OpenRow(new, i), toCome'[c][k])
    BY <1>2, <1>4, <1>5, <2>1 DEF OrderInv, Between, head
  <2>2. ASSUME NEW o \in open, NEW i \in DOMAIN o, NEW k \in DOMAIN new
        PROVE  ~SameName(OpenRow(o, i), OpenRow(new, k)) /\ ~SameName(OpenRow(new, k), OpenRow(o, i))
    BY <1>2, <1>5 DEF OrderInv, Between, MayPrecede, SameName, head
  <2>3. \A c, d \in DOMAIN toCome' : c < d =>
          \A i \in DOMAIN toCome'[c], k \in DOMAIN toCome'[d] : MayPrecede(toCome'[c][i], toCome'[d][k])
    <3> SUFFICES ASSUME NEW c \in DOMAIN toCome', NEW d \in DOMAIN toCome', c < d
                 PROVE  \A i \in DOMAIN toCome'[c], k \in DOMAIN toCome'[d] : MayPrecede(toCome'[c][i], toCome'[d][k])
      OBVIOUS
    <3>1. c + 1 < d + 1
      BY <1>4
    <3> QED
      BY <1>4, <3>1 DEF OrderInv, Between
  <2>4. \A o, p \in open' : o # p =>
          /\ IsRecall(o) \/ IsRecall(p)
          /\ \A i \in DOMAIN o, k \in DOMAIN p : ~SameName(OpenRow(o, i), OpenRow(p, k))
    BY <1>3, <1>7, <2>2 DEF OrderInv, Between
  <2>5. \A o \in open' : \A c \in DOMAIN toCome' : \A i \in DOMAIN o, k \in DOMAIN toCome'[c] :
          MayPrecede(OpenRow(o, i), toCome'[c][k])
    BY <1>4, <1>7, <2>1 DEF OrderInv, Between
  <2> QED
    BY <2>3, <2>4, <2>5 DEF Between
<1> QED
  BY <1>3, <1>4, <1>8, <1>9, <1>10 DEF OrderInv

\* What a commit adds, after all the rows there were.
LEMMA Committed ==
    ASSUME OrderInv, NEW o \in open, ledger' = ledger \o o
    PROVE  /\ IsSequence(ledger')
           /\ \A x \in DOMAIN ledger : x \in DOMAIN ledger' /\ ledger'[x] = ledger[x]
           /\ \A x \in DOMAIN ledger' \ DOMAIN ledger : x - Len(ledger) \in DOMAIN o /\ ledger'[x] = o[x - Len(ledger)]
<1>1. IsSequence(ledger) /\ IsSequence(o)
  BY DEF OrderInv, Within
<1>2. PICK S : ledger \in Seq(S)
  BY <1>1 DEF IsSequence
<1>3. PICK T : o \in Seq(T)
  BY <1>1 DEF IsSequence
<1>4. ledger \in Seq(S \cup T) /\ o \in Seq(S \cup T)
  BY <1>2, <1>3
<1>5. /\ DOMAIN ledger = 1..Len(ledger) /\ DOMAIN o = 1..Len(o) /\ Len(ledger) \in Nat /\ Len(o) \in Nat
      /\ DOMAIN (ledger \o o) = 1..(Len(ledger) + Len(o))
      /\ \A i \in 1..(Len(ledger) + Len(o)) : (ledger \o o)[i] = IF i <= Len(ledger) THEN ledger[i] ELSE o[i - Len(ledger)]
  BY <1>4
<1>6. \A x \in DOMAIN ledger' \ DOMAIN ledger : x - Len(ledger) \in DOMAIN o /\ ledger'[x] = o[x - Len(ledger)]
  BY <1>5
<1>7. \A x \in DOMAIN ledger : x \in DOMAIN ledger' /\ ledger'[x] = ledger[x]
  BY <1>5
<1> QED
  BY <1>1, <1>6, <1>7, ConcatKeeps

LEMMA CommitOrder == ASSUME OrderInv, CommitRows PROVE OrderInv'
<1>1. PICK o \in open : ledger' = ledger \o o /\ open' = open \ {o} /\ UNCHANGED <<time, toCome>>
  BY DEF CommitRows
<1>2. /\ IsSequence(ledger')
      /\ \A x \in DOMAIN ledger : x \in DOMAIN ledger' /\ RowAt(x)' = RowAt(x)
      /\ \A x \in DOMAIN ledger' \ DOMAIN ledger : x - Len(ledger) \in DOMAIN o /\ RowAt(x)' = OpenRow(o, x - Len(ledger))
  BY <1>1, Committed DEF RowAt, OpenRow
<1>3. \A x \in DOMAIN ledger' : x \in DOMAIN ledger \/ x \in DOMAIN ledger' \ DOMAIN ledger
  OBVIOUS
<1>4. Within'
  BY <1>1 DEF OrderInv, Within
<1>5. ASSUME NEW x \in DOMAIN ledger', NEW y \in DOMAIN ledger', x # y PROVE ~SameName(RowAt(x)', RowAt(y)')
  <2>1. CASE x \in DOMAIN ledger /\ y \in DOMAIN ledger
    BY <1>2, <1>5, <2>1 DEF OrderInv, Before
  <2>2. CASE x \in DOMAIN ledger /\ y \notin DOMAIN ledger
    BY <1>1, <1>2, <2>2 DEF OrderInv, Before, MayPrecede
  <2>3. CASE x \notin DOMAIN ledger /\ y \in DOMAIN ledger
    BY <1>1, <1>2, <2>3 DEF OrderInv, Before, MayPrecede, SameName
  <2>4. CASE x \notin DOMAIN ledger /\ y \notin DOMAIN ledger
    <3>1. x - Len(ledger) \in DOMAIN o /\ y - Len(ledger) \in DOMAIN o
      BY <1>2, <2>4
    <3>2. x - Len(ledger) # y - Len(ledger)
      <4>1. x \in Int /\ y \in Int /\ Len(ledger) \in Int
        BY <1>2 DEF OrderInv, IsSequence
      <4> QED
        BY <1>5, <4>1
    <3> QED
      BY <1>2, <2>4, <3>1, <3>2 DEF OrderInv, Within
  <2> QED
    BY <2>1, <2>2, <2>3, <2>4
<1>6. ASSUME NEW p \in open', NEW x \in DOMAIN ledger', NEW k \in DOMAIN p PROVE MayPrecede(RowAt(x)', OpenRow(p, k))
  <2>1. p \in open /\ p # o
    BY <1>1
  <2>2. CASE x \in DOMAIN ledger
    BY <1>2, <2>1, <2>2 DEF OrderInv, Before
  <2>3. CASE x \notin DOMAIN ledger
    <3>1. x - Len(ledger) \in DOMAIN o /\ RowAt(x)' = OpenRow(o, x - Len(ledger))
      BY <1>2, <2>3
    <3>2. ~SameName(RowAt(x)', OpenRow(p, k)) /\ (IsRecall(o) \/ IsRecall(p))
      BY <2>1, <3>1 DEF OrderInv, Between
    <3>3. RowAt(x)'.kind = "recall" \/ OpenRow(p, k).kind = "recall"
      BY <3>1, <3>2 DEF IsRecall, OpenRow
    <3> QED
      BY <3>2, <3>3 DEF MayPrecede
  <2> QED
    BY <2>2, <2>3
<1>7. ASSUME NEW c \in DOMAIN toCome, NEW x \in DOMAIN ledger', NEW k \in DOMAIN toCome[c]
      PROVE  MayPrecede(RowAt(x)', toCome[c][k])
  <2>1. CASE x \in DOMAIN ledger
    BY <1>2, <2>1 DEF OrderInv, Before
  <2>2. CASE x \notin DOMAIN ledger
    BY <1>2, <2>2 DEF OrderInv, Between
  <2> QED
    BY <2>1, <2>2
<1>8. Before'
  BY <1>1, <1>5, <1>6, <1>7 DEF Before
<1>9. Between'
  BY <1>1 DEF OrderInv, Between
<1> QED
  BY <1>1, <1>2, <1>4, <1>8, <1>9 DEF OrderInv

LEMMA OrderStep == ASSUME OrderInv, [ReviewNext]_reviewVars PROVE OrderInv'
<1>1. CASE UNCHANGED <<toCome, open, ledger>> /\ time' \in Nat
  BY <1>1 DEF OrderInv, Within, Before, Between, RowAt
<1>2. CASE Passes
  <2>1. time' \in Nat /\ UNCHANGED <<toCome, open, ledger>>
    BY <1>2 DEF Passes, OrderInv
  <2> QED
    BY <1>1, <2>1
<1>3. CASE UNCHANGED <<time, toCome, open, ledger>>
  BY <1>1, <1>3 DEF OrderInv
<1> QED
  BY <1>2, <1>3, StampOrder, CommitOrder DEF ReviewNext, BeginExport, HandOut, BeginPackage, ReadTable, Assemble, reviewVars
-----------------------------------------------------------------------------
(* What a step leaves of the journal: the rows that were there, and nothing new *)
(* that they name.                                                              *)

Grown ==
    /\ \A x \in DOMAIN ledger : x \in DOMAIN ledger' /\ ledger'[x] = ledger[x]
    /\ \A x \in DOMAIN ledger, y \in DOMAIN ledger' \ DOMAIN ledger :
         "recall" \notin {RowAt(x).kind, RowAt(y)'.kind} => RowAt(y)'.id \notin RowAt(x).refs

LEMMA StepGrows == ASSUME OrderInv, [ReviewNext]_reviewVars PROVE Grown
<1>1. CASE UNCHANGED ledger
  BY <1>1 DEF Grown
<1>2. CASE CommitRows
  <2>1. PICK o \in open : ledger' = ledger \o o
    BY <1>2 DEF CommitRows
  <2>2. /\ \A x \in DOMAIN ledger : x \in DOMAIN ledger' /\ ledger'[x] = ledger[x]
        /\ \A y \in DOMAIN ledger' \ DOMAIN ledger : y - Len(ledger) \in DOMAIN o /\ RowAt(y)' = OpenRow(o, y - Len(ledger))
    BY <2>1, Committed DEF RowAt, OpenRow
  <2>3. \A x \in DOMAIN ledger, k \in DOMAIN o : MayPrecede(RowAt(x), OpenRow(o, k))
    BY DEF OrderInv, Before
  <2> QED
    BY <2>2, <2>3 DEF Grown, MayPrecede
<1> QED
  BY <1>1, <1>2 DEF ReviewNext, reviewVars, Passes, StampRows, BeginExport, HandOut, BeginPackage, ReadTable, Assemble

\* What a row names is all there when the row is.
LEMMA NamedStays ==
    ASSUME Grown, NEW x \in DOMAIN ledger, RowAt(x).kind # "recall", NEW kind, kind # "recall"
    PROVE  Named(x, kind)' = Named(x, kind) /\ RowAt(x)' = RowAt(x)
<1>1. RowAt(x)' = RowAt(x)
  BY DEF Grown, RowAt
<1>2. \A j \in DOMAIN ledger : RowAt(j)' = RowAt(j) /\ j \in DOMAIN ledger'
  BY DEF Grown, RowAt
<1>3. \A j \in Named(x, kind) : j \in Named(x, kind)'
  BY <1>1, <1>2 DEF Named, OfKind
<1>4. ASSUME NEW j \in Named(x, kind)' PROVE j \in Named(x, kind)
  <2>1. j \in DOMAIN ledger' /\ RowAt(j)'.kind = kind /\ RowAt(j)'.id \in RowAt(x).refs
    BY <1>1 DEF Named, OfKind
  <2>2. j \in DOMAIN ledger
    BY <2>1 DEF Grown
  <2> QED
    BY <1>2, <2>1, <2>2 DEF Named, OfKind
<1> QED
  BY <1>1, <1>3, <1>4

-----------------------------------------------------------------------------
(* review.bundle *)

LEMMA StagesAre ==
    /\ Stages[1] = "decision" /\ Stages[2] = "thesis" /\ Stages[3] = "forecast" /\ Stages[4] = "score" /\ Stages[5] = "outcome"
    /\ Len(Stages) = 16 /\ \A k \in 6..16 : Stages[k] \notin {"decision", "forecast", "score", "outcome"}
<1>1. \A k \in 6..16 : \/ k = 6 \/ k = 7 \/ k = 8 \/ k = 9 \/ k = 10 \/ k = 11 \/ k = 12 \/ k = 13 \/ k = 14 \/ k = 15 \/ k = 16
  OBVIOUS
<1>2. /\ Stages[6] = "edge" /\ Stages[7] = "source" /\ Stages[8] = "recall" /\ Stages[9] = "intent" /\ Stages[10] = "risk"
      /\ Stages[11] = "approval" /\ Stages[12] = "external" /\ Stages[13] = "account" /\ Stages[14] = "fill"
      /\ Stages[15] = "reconciliation" /\ Stages[16] = "incident"
  BY DEF Stages
<1>3. \A k \in 6..16 : Stages[k] \notin {"decision", "forecast", "score", "outcome"}
  BY <1>1, <1>2
<1> QED
  BY <1>3 DEF Stages

\* What a package has read: the outcomes owed to its scores come after them.
Owed(got, s) == {o \in Named(s, "outcome") : RowAt(o).on \in Instruments(got)}
Packed(v) ==
    /\ v.done \in 0..16
    /\ v.done >= 1 => "decision" \in DOMAIN v.got /\ v.got["decision"] \subseteq OfKind("decision")
    /\ v.done >= 3 => "forecast" \in DOMAIN v.got
    /\ v.done >= 4 => "score" \in DOMAIN v.got /\ v.got["score"] \subseteq OfKind("score")
    /\ v.done >= 5 => "outcome" \in DOMAIN v.got /\ \A s \in v.got["score"] : Owed(v.got, s) \subseteq v.got["outcome"]
PackInv ==
    /\ DOMAIN review = Reviewers
    /\ \A r \in Reviewers : review[r] # Nil /\ review[r].tool = "review" => Packed(review[r])
    /\ \A p \in packages : p.done = 16 /\ Packed(p)

LEMMA PackedStays == ASSUME Grown, NEW v, Packed(v) PROVE Packed(v)'
<1>1. \A i \in DOMAIN ledger : i \in DOMAIN ledger' /\ RowAt(i)' = RowAt(i)
  BY DEF Grown, RowAt
<1>2. \A kind : OfKind(kind) \subseteq OfKind(kind)'
  BY <1>1 DEF OfKind
<1>3. \A s \in OfKind("score") : Named(s, "outcome")' = Named(s, "outcome")
  <2> TAKE s \in OfKind("score")
  <2>1. s \in DOMAIN ledger /\ RowAt(s).kind = "score"
    BY DEF OfKind
  <2> QED
    BY <2>1, NamedStays
<1>4. \A s \in OfKind("score") : \A o \in Named(s, "outcome") : RowAt(o)' = RowAt(o)
  BY <1>1 DEF Named, OfKind
<1>5. v.done >= 1 => Instruments(v.got)' = Instruments(v.got)
  <2>1. v.done >= 1 => \A d \in v.got["decision"] : RowAt(d)' = RowAt(d)
    BY <1>1 DEF Packed, OfKind
  <2> QED
    BY <2>1 DEF Instruments
<1>6. v.done >= 1 => \A s \in OfKind("score") : Owed(v.got, s)' = Owed(v.got, s)
  BY <1>3, <1>4, <1>5 DEF Owed
<1>7. v.done >= 5 => v.done >= 4 /\ v.done >= 1
  BY DEF Packed
<1> QED
  BY <1>2, <1>6, <1>7 DEF Packed

LEMMA ReadPacks ==
    ASSUME PackInv, OrderInv, NEW r \in Reviewers, ReadTable(r)
    PROVE  Packed(review'[r])
<1> DEFINE old == review[r]
           kind == Stages[old.done + 1]
           got == [k \in DOMAIN old.got \cup {kind} |-> IF k = kind THEN Found(kind, old.got) ELSE old.got[k]]
           cut == IF kind = "recall" THEN RecallReceipts(old.got["decision"]).truncated ELSE old.truncated
           new == [tool |-> "review", done |-> old.done + 1, truncated |-> cut, got |-> got]
<1>1. Packed(old) /\ old.done < 16
  BY StagesAre DEF PackInv, ReadTable
<1>2. review'[r] = new /\ ledger' = ledger
  <2>1. review' = [review EXCEPT ![r] = new] /\ ledger' = ledger
    BY DEF ReadTable
  <2> HIDE DEF new
  <2> QED
    BY <2>1 DEF PackInv
<1>3. /\ new.tool = "review" /\ new.done = old.done + 1 /\ new.got = got
  OBVIOUS
<1>4. /\ kind \in DOMAIN got /\ got[kind] = Found(kind, old.got)
      /\ \A k \in DOMAIN old.got : k \in DOMAIN got /\ (k # kind => got[k] = old.got[k])
  OBVIOUS
<1> HIDE DEF new, got, kind, cut
<1>5. old.done \in 0..15
  BY <1>1 DEF Packed
<1>6. /\ \A k : OfKind(k)' = OfKind(k)
      /\ \A g, s : Owed(g, s)' = Owed(g, s)
  BY <1>2 DEF OfKind, RowAt, Owed, Named, Instruments
<1>7. CASE old.done = 0
  <2>1. kind = "decision"
    BY <1>7, StagesAre DEF kind
  <2>2. Found("decision", old.got) = Chosen /\ Chosen \subseteq OfKind("decision")
    BY DEF Found, Chosen, First
  <2> QED
    BY <1>2, <1>3, <1>4, <1>6, <1>7, <2>1, <2>2 DEF Packed
<1>8. CASE old.done = 1
  <2>1. kind = "thesis"
    BY <1>8, StagesAre DEF kind
  <2> QED
    BY <1>1, <1>2, <1>3, <1>4, <1>6, <1>8, <2>1 DEF Packed
<1>9. CASE old.done = 2
  <2>1. kind = "forecast"
    BY <1>9, StagesAre DEF kind
  <2> QED
    BY <1>1, <1>2, <1>3, <1>4, <1>6, <1>9, <2>1 DEF Packed
<1>10. CASE old.done = 3
  <2>1. kind = "score"
    BY <1>10, StagesAre DEF kind
  <2>2. Found("score", old.got) \subseteq OfKind("score")
    BY DEF Found, Naming
  <2> QED
    BY <1>1, <1>2, <1>3, <1>4, <1>6, <1>10, <2>1, <2>2 DEF Packed
<1>11. CASE old.done = 4
  <2>1. kind = "outcome"
    BY <1>11, StagesAre DEF kind
  <2>2. /\ {"decision", "forecast", "score"} \subseteq DOMAIN old.got
        /\ old.got["decision"] \subseteq OfKind("decision") /\ old.got["score"] \subseteq OfKind("score")
    BY <1>1, <1>11 DEF Packed
  <2>3. Found("outcome", old.got) = OnInstruments(old.got, "outcome")
    BY DEF Found
  <2>4. \A s : Owed(old.got, s) \subseteq OnInstruments(old.got, "outcome")
    BY DEF Owed, Named, OnInstruments
  <2>5. got["decision"] = old.got["decision"] /\ got["score"] = old.got["score"] /\ got["outcome"] = Found("outcome", old.got)
    BY <1>4, <2>1, <2>2
  <2>6. \A s : Owed(got, s) = Owed(old.got, s)
    BY <2>5 DEF Owed, Instruments
  <2>7. \A s \in got["score"] : Owed(got, s) \subseteq got["outcome"]
    BY <2>3, <2>4, <2>5, <2>6
  <2> QED
    BY <1>2, <1>3, <1>4, <1>6, <1>11, <2>1, <2>2, <2>5, <2>7 DEF Packed
<1>12. CASE old.done \in 5..15
  <2>1. kind \notin {"decision", "forecast", "score", "outcome"}
    <3>1. old.done + 1 \in 6..16
      BY <1>12
    <3> QED
      BY <3>1, StagesAre DEF kind
  <2>2. /\ {"decision", "forecast", "score", "outcome"} \subseteq DOMAIN old.got
        /\ old.got["decision"] \subseteq OfKind("decision") /\ old.got["score"] \subseteq OfKind("score")
        /\ \A s \in old.got["score"] : Owed(old.got, s) \subseteq old.got["outcome"]
    BY <1>1, <1>12 DEF Packed
  <2>3. /\ got["decision"] = old.got["decision"] /\ got["score"] = old.got["score"] /\ got["outcome"] = old.got["outcome"]
        /\ {"decision", "forecast", "score", "outcome"} \subseteq DOMAIN got
    BY <1>4, <2>1, <2>2
  <2>4. \A s : Owed(got, s) = Owed(old.got, s)
    BY <2>3 DEF Owed, Instruments
  <2> QED
    BY <1>2, <1>3, <1>6, <1>12, <2>2, <2>3, <2>4 DEF Packed
<1> QED
  BY <1>5, <1>7, <1>8, <1>9, <1>10, <1>11, <1>12
LEMMA PackInvStep == ASSUME PackInv, OrderInv, [ReviewNext]_reviewVars PROVE PackInv'
<1>1. Grown
  BY StepGrows
<1>2. \A v : Packed(v) => Packed(v)'
  BY <1>1, PackedStays
<1>3. DOMAIN review = Reviewers
  BY DEF PackInv
<1>4. CASE UNCHANGED <<review, packages>>
  BY <1>2, <1>3, <1>4 DEF PackInv
<1>5. ASSUME NEW r \in Reviewers, NEW v, review' = [review EXCEPT ![r] = v], packages' = packages,
             v # Nil /\ v.tool = "review" => Packed(v)'
      PROVE  PackInv'
  BY <1>2, <1>3, <1>5 DEF PackInv
<1>6. ASSUME NEW r \in Reviewers, NEW q, BeginExport(r, q) PROVE PackInv'
  <2>1. \E v : review' = [review EXCEPT ![r] = v] /\ v.tool = "cases"
    <3>1. PICK named : review' = [review EXCEPT ![r] =
            [tool |-> "cases", q |-> q, named |-> named, settled |-> Settled(q.asOf),
             refused |-> Refused(q, named), selected |-> IF Refused(q, named) THEN {} ELSE Selected(q, named)]]
      BY <1>6 DEF BeginExport
    <3> DEFINE v == [tool |-> "cases", q |-> q, named |-> named, settled |-> Settled(q.asOf),
                     refused |-> Refused(q, named), selected |-> IF Refused(q, named) THEN {} ELSE Selected(q, named)]
    <3>2. v.tool = "cases" /\ review' = [review EXCEPT ![r] = v]
      BY <3>1
    <3> HIDE DEF v
    <3> QED
      BY <3>2
  <2> QED
    BY <1>5, <1>6, <2>1 DEF BeginExport
<1>7. ASSUME NEW r \in Reviewers, HandOut(r) PROVE PackInv'
  BY <1>5, <1>7 DEF HandOut
<1>8. ASSUME NEW r \in Reviewers, BeginPackage(r) PROVE PackInv'
  <2> DEFINE v == [tool |-> "review", done |-> 0, truncated |-> FALSE, got |-> [k \in {} |-> {}]]
  <2>1. v.done = 0
    OBVIOUS
  <2>2. review' = [review EXCEPT ![r] = v] /\ packages' = packages
    BY <1>8 DEF BeginPackage
  <2>3. Packed(v)'
    BY <2>1 DEF Packed
  <2> HIDE DEF v
  <2> QED
    BY <1>5, <2>2, <2>3
<1>9. ASSUME NEW r \in Reviewers, ReadTable(r) PROVE PackInv'
  <2>1. Packed(review'[r])
    BY <1>9, ReadPacks
  <2>2. ledger' = ledger /\ packages' = packages
    BY <1>9 DEF ReadTable
  <2>3. PICK v : review' = [review EXCEPT ![r] = v]
    BY <1>9 DEF ReadTable
  <2>4. Packed(v)'
    BY <2>1, <2>2, <2>3, <1>3 DEF Packed, OfKind, Named, RowAt, Owed, Instruments
  <2> QED
    BY <1>5, <2>2, <2>3, <2>4
<1>10. ASSUME NEW r \in Reviewers, Assemble(r) PROVE PackInv'
  <2>1. packages' = packages \cup {review[r]} /\ review' = [review EXCEPT ![r] = Nil]
    BY <1>10 DEF Assemble
  <2>2. review[r].done = 16
    BY <1>10, StagesAre DEF Assemble
  <2>3. \A p \in packages' : p.done = 16 /\ Packed(p)'
    BY <1>2, <1>10, <2>1, <2>2 DEF Assemble, PackInv
  <2>4. \A s \in Reviewers : \A v : v = review'[s] /\ v # Nil /\ v.tool = "review" => Packed(v)'
    <3> TAKE s \in Reviewers
    <3>1. s # r /\ review'[s] # Nil => review'[s] = review[s]
      BY <1>3, <2>1
    <3>2. review'[r] = Nil
      BY <1>3, <2>1
    <3>3. \A v : v = review[s] /\ v # Nil /\ v.tool = "review" => Packed(v)'
      BY <1>2 DEF PackInv
    <3> QED
      BY <3>1, <3>2, <3>3
  <2> QED
    BY <1>3, <2>1, <2>3, <2>4 DEF PackInv
<1> QED
  <2>1. CASE Passes \/ StampRows \/ CommitRows \/ UNCHANGED reviewVars
    BY <1>4, <2>1 DEF Passes, StampRows, CommitRows, reviewVars
  <2> QED
    BY <1>6, <1>7, <1>8, <1>9, <1>10, <2>1 DEF ReviewNext

\* A package read query by query while agents write still has every outcome that its
\* scores name and that is on an instrument of its decisions: each table is read after
\* those it depends on.
THEOREM ScoresHaveOutcomesAlways == ReviewSpec => []ScoresHaveOutcomes
<1>1. ReviewInit => OrderInv /\ PackInv
  <2>1. ASSUME ReviewInit PROVE PackInv
    BY <2>1 DEF ReviewInit, PackInv
  <2> QED
    BY <2>1, OrderInit, ReviewAssumption
<1>2. OrderInv /\ PackInv /\ [ReviewNext]_reviewVars => (OrderInv /\ PackInv)'
  BY OrderStep, PackInvStep
<1>3. OrderInv /\ PackInv => ScoresHaveOutcomes
  BY DEF PackInv, Packed, Owed, ScoresHaveOutcomes
<1> QED
  BY <1>1, <1>2, <1>3, PTL DEF ReviewSpec
-----------------------------------------------------------------------------
(* replay.case_bundle: the first n of a set *)

LEMMA LeastNatural ==
    ASSUME NEW T, T \subseteq Nat, T # {}
    PROVE  \E n \in T : \A m \in T : n <= m
<1> DEFINE R == {p \in Nat \X Nat : p[1] < p[2]}
<1>1. R = OpToRel(<, Nat)
  BY DEF OpToRel
<1>2. IsWellFoundedOn(R, Nat)
  BY <1>1, NatLessThanWellFounded
<1>3. \E n \in T : \A m \in T : <<m, n>> \notin R
  BY <1>2, WFMin
<1>4. \A n \in T, m \in T : <<m, n>> \notin R => n <= m
  OBVIOUS
<1> QED
  BY <1>3, <1>4

LEMMA LastOf ==
    ASSUME NEW n \in Nat, NEW S, S \subseteq 1..n, S # {}
    PROVE  \E k \in S : \A j \in S : j <= k
<1> DEFINE left == {k \in Nat : n - k \in S}
<1>1. left \subseteq Nat /\ left # {}
  <2>1. PICK x \in S : TRUE
    OBVIOUS
  <2>2. n - x \in left
    BY <2>1
  <2> QED
    BY <2>2
<1>2. PICK l \in left : \A j \in left : l <= j
  BY <1>1, LeastNatural
<1>3. n - l \in S
  BY <1>2
<1>4. ASSUME NEW j \in S PROVE j <= n - l
  <2>1. j \in 1..n /\ n - (n - j) = j /\ n - j \in Nat
    BY <1>4
  <2>2. l <= n - j
    BY <1>2, <1>4, <2>1
  <2> QED
    BY <1>2, <2>1, <2>2
<1> QED
  BY <1>3, <1>4

LEMMA FirstHas ==
    ASSUME NEW N \in Nat, NEW S, S \subseteq 1..N, NEW n \in Nat
    PROVE  /\ First(n, S) \subseteq S /\ IsFiniteSet(First(n, S))
           /\ Cardinality(First(n, S)) \in Nat /\ Cardinality(First(n, S)) <= n
<1> DEFINE F == First(n, S)
<1>1. IsFiniteSet(S)
  <2>1. IsFiniteSet(1..N)
    BY FS_Interval
  <2> QED
    BY <2>1, FS_Subset
<1>2. F \subseteq S
  BY DEF First
<1>3. IsFiniteSet(F) /\ Cardinality(F) \in Nat
  BY <1>1, <1>2, FS_Subset, FS_CardinalityType
<1>4. CASE F = {}
  BY <1>2, <1>3, <1>4, FS_EmptySet
<1>5. CASE F # {}
  <2> HIDE DEF F
  <2>1. PICK k \in F : \A j \in F : j <= k
    BY <1>2, <1>5, LastOf
  <2>2. F \ {k} \subseteq {j \in S : j < k}
    BY <1>2, <2>1
  <2>3. IsFiniteSet({j \in S : j < k}) /\ Cardinality({j \in S : j < k}) \in Nat
    BY <1>1, FS_Subset, FS_CardinalityType
  <2>4. Cardinality(F \ {k}) <= Cardinality({j \in S : j < k})
    BY <2>2, <2>3, FS_Subset
  <2>5. Cardinality({j \in S : j < k}) < n
    BY <2>1 DEF F, First
  <2>6. Cardinality(F \ {k}) = Cardinality(F) - 1
    BY <1>3, <2>1, FS_RemoveElement
  <2> QED
    BY <1>2, <1>3, <2>3, <2>4, <2>5, <2>6 DEF F
<1> QED
  BY <1>4, <1>5

LEMMA FirstIsAll ==
    ASSUME NEW S, IsFiniteSet(S), S \subseteq Nat, NEW n \in Nat, Cardinality(S) <= n
    PROVE  First(n, S) = S
<1>1. ASSUME NEW i \in S PROVE Cardinality({j \in S : j < i}) < n
  <2>1. {j \in S : j < i} \in SUBSET (S \ {i})
    OBVIOUS
  <2>2. IsFiniteSet(S \ {i}) /\ Cardinality(S \ {i}) = Cardinality(S) - 1
    BY FS_RemoveElement
  <2>3. IsFiniteSet({j \in S : j < i}) /\ Cardinality({j \in S : j < i}) <= Cardinality(S \ {i})
    BY <2>1, <2>2, FS_Subset
  <2> QED
    BY <2>2, <2>3, FS_CardinalityType
<1> QED
  BY <1>1 DEF First

-----------------------------------------------------------------------------
(* A settled moment is past: what is recorded now is not known then.  Every      *)
(* operator of a case bundle reads the same of that moment before and after.     *)

PastStays(t) == Grown /\ \A y \in DOMAIN ledger' \ DOMAIN ledger : ~Known(y, t)'

\* Stamps are moments.
Stamped == time \in Nat /\ \A o \in open : \A i \in DOMAIN o : o[i].at \in Nat

LEMMA StampedStep == ASSUME Stamped, [ReviewNext]_reviewVars PROVE Stamped'
<1>1. CASE StampRows
  <2>1. PICK made : /\ open' = open \cup {made} /\ time' = time
                    /\ made = [i \in DOMAIN Head(toCome) |-> [row |-> Head(toCome)[i], at |-> time]]
    BY <1>1 DEF StampRows
  <2>2. \A i \in DOMAIN made : made[i].at = time
    BY <2>1
  <2> QED
    BY <2>1, <2>2 DEF Stamped
<1>2. CASE CommitRows
  BY <1>2 DEF CommitRows, Stamped
<1>3. CASE Passes
  BY <1>3 DEF Passes, Stamped
<1>4. CASE UNCHANGED <<time, open>>
  BY <1>4 DEF Stamped
<1> QED
  BY <1>1, <1>2, <1>3, <1>4 DEF ReviewNext, reviewVars, BeginExport, HandOut, BeginPackage, ReadTable, Assemble

LEMMA SettledStays ==
    ASSUME OrderInv, Stamped, [ReviewNext]_reviewVars, NEW t \in Nat, Settled(t)
    PROVE  Settled(t)' /\ PastStays(t)
<1>1. Grown
  BY StepGrows
<1>2. CASE UNCHANGED <<time, open, ledger>>
  BY <1>1, <1>2 DEF Settled, PastStays
<1>3. CASE Passes
  BY <1>1, <1>3 DEF Passes, Settled, PastStays, OrderInv
<1>4. CASE StampRows
  <2>1. PICK made : /\ open' = open \cup {made}
                    /\ made = [i \in DOMAIN Head(toCome) |-> [row |-> Head(toCome)[i], at |-> time]]
    BY <1>4 DEF StampRows
  <2>2. \A i \in DOMAIN made : made[i].at = time
    BY <2>1
  <2>3. time' = time /\ ledger' = ledger
    BY <1>4 DEF StampRows
  <2>4. time > t /\ \A o \in open : \A i \in DOMAIN o : o[i].at > t
    BY DEF Settled
  <2> QED
    BY <1>1, <2>1, <2>2, <2>3, <2>4 DEF Settled, PastStays
<1>5. CASE CommitRows
  <2>1. PICK o \in open : ledger' = ledger \o o /\ open' = open \ {o} /\ time' = time
    BY <1>5 DEF CommitRows
  <2>2. \A x \in DOMAIN ledger' \ DOMAIN ledger : x - Len(ledger) \in DOMAIN o /\ ledger'[x] = o[x - Len(ledger)]
    BY <2>1, Committed
  <2>3. \A i \in DOMAIN o : o[i].at > t
    BY DEF Settled
  <2>4. \A i \in DOMAIN o : ~(o[i].at <= t)
    <3>1. \A i \in DOMAIN o : o[i].at \in Nat
      BY DEF Stamped
    <3> QED
      BY <2>3, <3>1
  <2>5. \A y \in DOMAIN ledger' \ DOMAIN ledger : ~Known(y, t)'
    BY <2>2, <2>4 DEF Known
  <2> QED
    BY <1>1, <2>1, <2>5 DEF Settled, PastStays
<1> QED
  BY <1>2, <1>3, <1>4, <1>5 DEF ReviewNext, reviewVars, BeginExport, HandOut, BeginPackage, ReadTable, Assemble
\* The rows of a past moment, and the cases.
LEMMA RowsStay ==
    ASSUME NEW t, PastStays(t)
    PROVE  /\ \A i \in DOMAIN ledger : i \in DOMAIN ledger' /\ RowAt(i)' = RowAt(i) /\ NameOf(i)' = NameOf(i)
                                     /\ (Known(i, t)' <=> Known(i, t)) /\ (ValidAt(i, t)' <=> ValidAt(i, t))
           /\ \A i \in DOMAIN ledger' : Known(i, t)' => i \in DOMAIN ledger
           /\ \A kind : \A i \in OfKind(kind)' : Known(i, t)' => i \in OfKind(kind)
           /\ \A kind : OfKind(kind) \subseteq OfKind(kind)'
<1>1. \A i \in DOMAIN ledger : i \in DOMAIN ledger' /\ ledger'[i] = ledger[i]
  BY DEF PastStays, Grown
<1>2. \A i \in DOMAIN ledger' : Known(i, t)' => i \in DOMAIN ledger
  BY DEF PastStays
<1>3. \A i \in DOMAIN ledger : /\ RowAt(i)' = RowAt(i) /\ NameOf(i)' = NameOf(i)
                             /\ (Known(i, t)' <=> Known(i, t)) /\ (ValidAt(i, t)' <=> ValidAt(i, t))
  BY <1>1 DEF RowAt, NameOf, Known, ValidAt
<1> QED
  BY <1>1, <1>2, <1>3 DEF OfKind

LEMMA CasesStay ==
    ASSUME NEW t, PastStays(t)
    PROVE  /\ \A i \in DOMAIN ledger : IsCase(i, t)' <=> IsCase(i, t)
           /\ \A i \in DOMAIN ledger' : IsCase(i, t)' => i \in DOMAIN ledger
<1>1. ASSUME NEW i \in DOMAIN ledger' PROVE IsCase(i, t)' => i \in DOMAIN ledger
  BY <1>1, RowsStay DEF IsCase, ValidAt
<1>2. ASSUME NEW i \in DOMAIN ledger PROVE IsCase(i, t)' <=> IsCase(i, t)
  <2>1. RowAt(i)' = RowAt(i) /\ (Known(i, t)' <=> Known(i, t)) /\ (ValidAt(i, t)' <=> ValidAt(i, t))
    BY <1>2, RowsStay
  <2>2. CASE RowAt(i).kind = "forecast"
    <3>1. Named(i, "thesis")' = Named(i, "thesis")
      BY <1>2, <2>2, NamedStays DEF PastStays
    <3>2. \A j \in Named(i, "thesis") : ValidAt(j, t)' <=> ValidAt(j, t)
      BY RowsStay DEF Named, OfKind
    <3> QED
      BY <2>1, <2>2, <3>1, <3>2 DEF IsCase
  <2> QED
    BY <2>1, <2>2 DEF IsCase
<1> QED
  BY <1>1, <1>2

LEMMA SelectionStays ==
    ASSUME NEW q, NEW named, PastStays(q.asOf)
    PROVE  Selected(q, named)' = Selected(q, named) /\ (Refused(q, named)' <=> Refused(q, named))
<1> DEFINE t == q.asOf
<1>1. \A i \in OfKind("decision") : Named(i, "forecast")' = Named(i, "forecast")
  <2> TAKE i \in OfKind("decision")
  <2>1. i \in DOMAIN ledger /\ RowAt(i).kind # "recall"
    BY DEF OfKind
  <2> QED
    BY <2>1, NamedStays DEF PastStays
<1>2. \A kind : \A i \in DOMAIN ledger' : i \in OfKind(kind)' /\ IsCase(i, t)' <=> i \in OfKind(kind) /\ IsCase(i, t)
  <2> TAKE kind
  <2> TAKE i \in DOMAIN ledger'
  <2>1. CASE i \in DOMAIN ledger
    BY <2>1, RowsStay, CasesStay DEF OfKind
  <2>2. CASE i \notin DOMAIN ledger
    BY <2>2, CasesStay DEF OfKind
  <2> QED
    BY <2>1, <2>2
<1>3. \A kind : OfKind(kind)' \subseteq DOMAIN ledger' /\ OfKind(kind) \subseteq OfKind(kind)'
  BY RowsStay DEF OfKind
<1>4. Filtered(q)' = Filtered(q)
  <2> DEFINE wanted == {i \in OfKind("decision") : IsCase(i, t) /\ q.withForecast \in {Nil, Named(i, "forecast") # {}}}
             wanted2 == {i \in OfKind("decision")' : IsCase(i, t)' /\ q.withForecast \in {Nil, Named(i, "forecast")' # {}}}
             D == First(q.max, wanted)
             theirs == UNION {Named(i, "forecast") : i \in D}
             theirs2 == UNION {Named(i, "forecast")' : i \in D}
             F == {i \in OfKind("forecast") : IsCase(i, t) /\ (q.withForecast # Nil => i \in theirs)}
             F2 == {i \in OfKind("forecast")' : IsCase(i, t)' /\ (q.withForecast # Nil => i \in theirs)}
  <2>1. wanted2 = wanted
    BY <1>1, <1>2, <1>3
  <2>2. D \subseteq OfKind("decision")
    BY DEF First
  <2>3. theirs2 = theirs
    BY <1>1, <2>2
  <2>4. F2 = F
    BY <1>2, <1>3
  <2>5. Filtered(q) = D \cup First(q.max - Cardinality(D), F)
    BY DEF Filtered
  <2>6. Filtered(q)' = First(q.max, wanted2) \cup First(q.max - Cardinality(First(q.max, wanted2)),
          {i \in OfKind("forecast")' : IsCase(i, t)' /\ (q.withForecast # Nil =>
               i \in UNION {Named(k, "forecast")' : k \in First(q.max, wanted2)})})
    BY DEF Filtered, First
  <2> HIDE DEF wanted, wanted2
  <2>7. Filtered(q)' = D \cup First(q.max - Cardinality(D), {i \in OfKind("forecast")' : IsCase(i, t)' /\ (q.withForecast # Nil => i \in theirs2)})
    BY <2>1, <2>6
  <2> QED
    BY <2>3, <2>4, <2>5, <2>7
<1>5. {i \in DOMAIN ledger' : NameOf(i)' \in named /\ IsCase(i, t)'} = {i \in DOMAIN ledger : NameOf(i) \in named /\ IsCase(i, t)}
  BY RowsStay, CasesStay
<1>6. Selected(q, named)' = Selected(q, named)
  BY <1>4, <1>5 DEF Selected, First
<1>7. Refused(q, named)' <=> Refused(q, named)
  BY RowsStay DEF Refused
<1> QED
  BY <1>6, <1>7

LEMMA ContextStays ==
    ASSUME NEW q, NEW i \in DOMAIN ledger, PastStays(q.asOf)
    PROVE  Context(i, q)' = Context(i, q)
<1> DEFINE t == q.asOf
<1>1. RowAt(i)' = RowAt(i)
  BY RowsStay
<1>2. CASE RowAt(i).kind = "recall"
  BY <1>1, <1>2 DEF Context
<1>3. CASE RowAt(i).kind # "recall"
  <2>1. \A kind : kind # "recall" => Named(i, kind)' = Named(i, kind)
    BY <1>3, NamedStays DEF PastStays
  <2>2. \A kind : kind # "recall" => Named(i, kind) \subseteq DOMAIN ledger
    BY DEF Named, OfKind
  <2>3. ForecastsOf(i)' = ForecastsOf(i) /\ ForecastsOf(i) \subseteq DOMAIN ledger /\ \A f \in ForecastsOf(i) : RowAt(f).kind = "forecast"
    BY <1>1, <2>1 DEF ForecastsOf, Named, OfKind
  <2>4. \A f \in ForecastsOf(i) : Named(f, "thesis")' = Named(f, "thesis") /\ Named(f, "thesis") \subseteq DOMAIN ledger
    BY <2>3, NamedStays DEF PastStays, Named, OfKind
  <2> DEFINE ofF == {f \in ForecastsOf(i) : ValidAt(f, t) /\ \A j \in Named(f, "thesis") : Known(j, t) => ValidAt(j, t)}
             ofF2 == {f \in ForecastsOf(i)' : ValidAt(f, t)' /\ \A j \in Named(f, "thesis")' : Known(j, t)' => ValidAt(j, t)'}
             near == {i} \cup ForecastsOf(i) \cup Named(i, "thesis")
             src == {s \in OfKind("source") : RowAt(s).status # "sensitive" /\ \E j \in near : Attached(j, s, t)}
             src2 == {s \in OfKind("source")' : RowAt(s)'.status # "sensitive" /\ \E j \in near : Attached(j, s, t)'}
  <2>5. ofF2 = ofF
    BY <2>3, <2>4, RowsStay
  <2>6. {s \in Named(i, "snapshot")' : Known(s, t)'} = {s \in Named(i, "snapshot") : Known(s, t)}
    BY <2>1, <2>2, RowsStay
  <2>7. {j \in Named(i, "thesis")' : ValidAt(j, t)'} = {j \in Named(i, "thesis") : ValidAt(j, t)}
    BY <2>1, <2>2, RowsStay
  <2>8. near \subseteq DOMAIN ledger
    BY <2>2, <2>3
  <2>9. \A j \in DOMAIN ledger, s \in DOMAIN ledger : Attached(j, s, t)' <=> Attached(j, s, t)
    <3> TAKE j \in DOMAIN ledger, s \in DOMAIN ledger
    <3>1. RowAt(j)' = RowAt(j) /\ RowAt(s)' = RowAt(s) /\ (Known(s, t)' <=> Known(s, t))
      BY RowsStay
    <3>2. \A x \in OfKind("edge") : x \in OfKind("edge")' /\ RowAt(x)' = RowAt(x) /\ (Known(x, t)' <=> Known(x, t))
      BY RowsStay DEF OfKind
    <3>3. \A x \in OfKind("edge")' : Known(x, t)' => x \in OfKind("edge")
      BY RowsStay
    <3> QED
      BY <3>1, <3>2, <3>3 DEF Attached
  <2>10. src2 = src
    <3>1. \A s \in src2 : s \in OfKind("source")
      BY RowsStay DEF Attached
    <3>2. \A s \in OfKind("source") : s \in DOMAIN ledger /\ s \in OfKind("source")' /\ RowAt(s)' = RowAt(s)
      BY RowsStay DEF OfKind
    <3> HIDE DEF near
    <3> QED
      BY <2>8, <2>9, <3>1, <3>2
  <2>11. ({i} \cup ForecastsOf(i) \cup Named(i, "thesis"))' = near
    BY <2>1, <2>3
  <2>12. Context(i, q) = {s \in Named(i, "snapshot") : Known(s, t)} \cup {j \in Named(i, "thesis") : ValidAt(j, t)}
               \cup (IF RowAt(i).kind = "forecast" /\ q.mode = "forecast_only" THEN {} ELSE ofF) \cup src
    BY <1>3 DEF Context
  <2>13. Context(i, q)' = {s \in Named(i, "snapshot")' : Known(s, t)'} \cup {j \in Named(i, "thesis")' : ValidAt(j, t)'}
               \cup (IF RowAt(i).kind = "forecast" /\ q.mode = "forecast_only" THEN {} ELSE ofF2) \cup src2
    BY <1>1, <1>3, <2>11 DEF Context
  <2> HIDE DEF ofF, ofF2, src, src2
  <2> QED
    BY <2>5, <2>6, <2>7, <2>10, <2>12, <2>13
<1> QED
  BY <1>2, <1>3
\* A case bundle of a settled moment, and one in the making, are what the
\* journal of now says of that moment.
Picked(q, named) == IF Refused(q, named) THEN {} ELSE Selected(q, named)
Export(e) ==
    /\ e.q \in Requests /\ (e.named = e.q.named \/ e.named # {})
    /\ e.settled => /\ Settled(e.q.asOf) /\ e.refused = Refused(e.q, e.named)
                    /\ e.cases = [i \in Picked(e.q, e.named) |-> Context(i, e.q)]
InTheMaking(v) ==
    /\ v.q \in Requests /\ (v.named = v.q.named \/ v.named # {})
    /\ v.settled => /\ Settled(v.q.asOf) /\ v.refused = Refused(v.q, v.named)
                    /\ v.selected = Picked(v.q, v.named)
ExportsInv ==
    /\ DOMAIN review = Reviewers
    /\ \A r \in Reviewers : review[r] # Nil /\ review[r].tool = "cases" => InTheMaking(review[r])
    /\ \A e \in exports : Export(e)

LEMMA RequestIs ==
    ASSUME NEW q \in Requests
    PROVE  q.asOf \in Nat /\ q.max \in Nat \ {0}
BY ReviewAssumption DEF Request

LEMMA SelectedAreRows == ASSUME NEW q, NEW named PROVE Selected(q, named) \subseteq DOMAIN ledger
BY DEF Selected, Filtered, First, OfKind

LEMMA BundleStays ==
    ASSUME OrderInv, Stamped, [ReviewNext]_reviewVars, NEW v
    PROVE  (Export(v) => Export(v)') /\ (InTheMaking(v) => InTheMaking(v)')
<1>1. ASSUME v.q \in Requests, v.settled, Settled(v.q.asOf)
      PROVE  /\ Settled(v.q.asOf)' /\ Refused(v.q, v.named)' = Refused(v.q, v.named)
             /\ Picked(v.q, v.named)' = Picked(v.q, v.named)
             /\ \A i \in Picked(v.q, v.named) : Context(i, v.q)' = Context(i, v.q)
  <2>1. Settled(v.q.asOf)' /\ PastStays(v.q.asOf)
    BY <1>1, RequestIs, SettledStays
  <2>2. Selected(v.q, v.named)' = Selected(v.q, v.named) /\ (Refused(v.q, v.named)' <=> Refused(v.q, v.named))
    BY <2>1, SelectionStays
  <2>3. Refused(v.q, v.named)' = Refused(v.q, v.named)
    BY <2>2, Zenon DEF Refused
  <2>4. Picked(v.q, v.named)' = Picked(v.q, v.named)
    BY <2>2 DEF Picked
  <2>5. Picked(v.q, v.named) \subseteq DOMAIN ledger
    BY SelectedAreRows DEF Picked
  <2> QED
    BY <2>1, <2>3, <2>4, <2>5, ContextStays
<1>2. ASSUME Export(v) PROVE Export(v)'
  BY <1>1, <1>2 DEF Export
<1>3. ASSUME InTheMaking(v) PROVE InTheMaking(v)'
  BY <1>1, <1>3 DEF InTheMaking
<1> QED
  BY <1>2, <1>3

LEMMA ExportsStep == ASSUME ExportsInv, OrderInv, Stamped, [ReviewNext]_reviewVars PROVE ExportsInv'
<1>1. \A v : (Export(v) => Export(v)') /\ (InTheMaking(v) => InTheMaking(v)')
  BY BundleStays
<1>2. DOMAIN review = Reviewers
  BY DEF ExportsInv
<1>3. CASE UNCHANGED <<review, exports>>
  BY <1>1, <1>2, <1>3 DEF ExportsInv
<1>4. ASSUME NEW r \in Reviewers, NEW v, review' = [review EXCEPT ![r] = v],
             v # Nil /\ v.tool = "cases" => InTheMaking(v)', \A e \in exports' : Export(e)'
      PROVE  ExportsInv'
  BY <1>1, <1>2, <1>4 DEF ExportsInv
<1>5. \A e \in exports : Export(e)'
  BY <1>1 DEF ExportsInv
<1>6. ASSUME NEW r \in Reviewers, NEW q \in Requests, BeginExport(r, q) PROVE ExportsInv'
  <2>1. PICK named \in {q.named} \cup {CaseIds(e) : e \in {x \in exports : x.q.asOf = q.asOf /\ x.q.mode = q.mode /\ CaseIds(x) # {}}} :
          review' = [review EXCEPT ![r] =
            [tool |-> "cases", q |-> q, named |-> named, settled |-> Settled(q.asOf),
             refused |-> Refused(q, named), selected |-> IF Refused(q, named) THEN {} ELSE Selected(q, named)]]
    BY <1>6 DEF BeginExport
  <2> DEFINE v == [tool |-> "cases", q |-> q, named |-> named, settled |-> Settled(q.asOf),
                   refused |-> Refused(q, named), selected |-> IF Refused(q, named) THEN {} ELSE Selected(q, named)]
  <2>2. \E w : w = v /\ InTheMaking(w)
    <3>1. named = q.named \/ named # {}
      BY <2>1
    <3>2. /\ v.q = q /\ v.named = named /\ v.settled = Settled(q.asOf) /\ v.refused = Refused(q, named)
          /\ v.selected = Picked(q, named)
      BY DEF Picked
    <3> HIDE DEF v
    <3>3. v.settled => Settled(v.q.asOf)
      BY <3>2
    <3>4. InTheMaking(v)
      BY <3>1, <3>2, <3>3 DEF InTheMaking
    <3> QED
      BY <3>4
  <2>3. review' = [review EXCEPT ![r] = v] /\ exports' = exports
    BY <1>6, <2>1 DEF BeginExport
  <2> HIDE DEF v
  <2>4. PICK w : w = v /\ InTheMaking(w)
    BY <2>2
  <2>5. InTheMaking(w)'
    BY <1>1, <2>4
  <2> QED
    BY <1>4, <1>5, <2>3, <2>4, <2>5
<1>7. ASSUME NEW r \in Reviewers, HandOut(r) PROVE ExportsInv'
  <2>1. PICK now : now = review[r]
    OBVIOUS
  <2>2. InTheMaking(now)
    BY <1>7, <2>1 DEF HandOut, ExportsInv
  <2> DEFINE e == [q |-> now.q, named |-> now.named, settled |-> now.settled, refused |-> now.refused,
                   cases |-> [i \in now.selected |-> Context(i, now.q)], labels |-> [i \in now.selected |-> Labels(i, now.q)]]
  <2>3. exports' = exports \cup {e} /\ review' = [review EXCEPT ![r] = Nil]
    BY <1>7, <2>1 DEF HandOut
  <2>4. /\ e.q = now.q /\ e.named = now.named /\ e.settled = now.settled /\ e.refused = now.refused
        /\ e.cases = [i \in now.selected |-> Context(i, now.q)]
    OBVIOUS
  <2> HIDE DEF e
  <2>5. Export(e)
    BY <2>2, <2>4 DEF InTheMaking, Export
  <2>6. PICK x : x = e
    OBVIOUS
  <2>7. Export(x)'
    BY <1>1, <2>5, <2>6
  <2>8. \A y \in exports' : Export(y)'
    BY <1>5, <2>3, <2>6, <2>7
  <2> QED
    BY <1>4, <2>3, <2>8
<1>8. ASSUME NEW r \in Reviewers, BeginPackage(r) PROVE ExportsInv'
  <2> DEFINE v == [tool |-> "review", done |-> 0, truncated |-> FALSE, got |-> [k \in {} |-> {}]]
  <2>1. v.tool # "cases" /\ review' = [review EXCEPT ![r] = v] /\ exports' = exports
    BY <1>8 DEF BeginPackage
  <2> HIDE DEF v
  <2> QED
    BY <1>4, <1>5, <2>1
<1>9. ASSUME NEW r \in Reviewers, ReadTable(r) PROVE ExportsInv'
  <2>1. \E v : review' = [review EXCEPT ![r] = v] /\ v.tool # "cases"
    <3> DEFINE kind == Stages[review[r].done + 1]
               got == review[r].got
               v == [tool |-> "review", done |-> review[r].done + 1,
                     truncated |-> IF kind = "recall" THEN RecallReceipts(got["decision"]).truncated ELSE review[r].truncated,
                     got |-> [k \in DOMAIN got \cup {kind} |-> IF k = kind THEN Found(kind, got) ELSE got[k]]]
    <3>1. v.tool # "cases" /\ review' = [review EXCEPT ![r] = v]
      BY <1>9 DEF ReadTable
    <3> HIDE DEF v
    <3> QED
      BY <3>1
  <2>2. exports' = exports
    BY <1>9 DEF ReadTable
  <2> QED
    BY <1>4, <1>5, <2>1, <2>2
<1>10. ASSUME NEW r \in Reviewers, Assemble(r) PROVE ExportsInv'
  BY <1>4, <1>5, <1>10 DEF Assemble
<1> QED
  <2>1. CASE Passes \/ StampRows \/ CommitRows \/ UNCHANGED reviewVars
    BY <1>3, <2>1 DEF Passes, StampRows, CommitRows, reviewVars
  <2> QED
    BY <1>6, <1>7, <1>8, <1>9, <1>10, <2>1 DEF ReviewNext

\* A bundle asked for by the case ids of another has the same cases: no two
\* rows have one name, and a bundle has no more cases than its request allows.
LEMMA SelectedFew ==
    ASSUME OrderInv, NEW q \in Requests, NEW named
    PROVE  /\ IsFiniteSet(Selected(q, named)) /\ Cardinality(Selected(q, named)) <= q.max
           /\ \A i \in Selected(q, named) : IsCase(i, q.asOf)
<1>1. q.max \in Nat
  BY RequestIs
<1>2. Len(ledger) \in Nat /\ DOMAIN ledger = 1..Len(ledger)
  BY DEF OrderInv, IsSequence
<1>3. CASE named # {}
  <2> DEFINE S == {i \in DOMAIN ledger : NameOf(i) \in named /\ IsCase(i, q.asOf)}
  <2>1. S \subseteq 1..Len(ledger) /\ Selected(q, named) = First(q.max, S) /\ \A i \in S : IsCase(i, q.asOf)
    BY <1>2, <1>3 DEF Selected
  <2> HIDE DEF S
  <2>2. First(q.max, S) \subseteq S /\ IsFiniteSet(First(q.max, S)) /\ Cardinality(First(q.max, S)) <= q.max
    BY <1>1, <1>2, <2>1, FirstHas
  <2> QED
    BY <2>1, <2>2
<1>4. CASE named = {}
  <2> DEFINE wanted == {i \in OfKind("decision") : IsCase(i, q.asOf) /\ q.withForecast \in {Nil, Named(i, "forecast") # {}}}
             D == First(q.max, wanted)
             theirs == UNION {Named(i, "forecast") : i \in D}
             F == {i \in OfKind("forecast") : IsCase(i, q.asOf) /\ (q.withForecast # Nil => i \in theirs)}
             E == First(q.max - Cardinality(D), F)
  <2>1. wanted \subseteq 1..Len(ledger) /\ F \subseteq 1..Len(ledger)
    BY <1>2 DEF OfKind
  <2>2. \A i \in wanted \cup F : IsCase(i, q.asOf)
    OBVIOUS
  <2>3. Selected(q, named) = D \cup E
    BY <1>4 DEF Selected, Filtered
  <2> HIDE DEF wanted, F
  <2>4. D \subseteq wanted /\ IsFiniteSet(D) /\ Cardinality(D) \in Nat /\ Cardinality(D) <= q.max
    BY <1>1, <1>2, <2>1, FirstHas
  <2> HIDE DEF D
  <2>5. q.max - Cardinality(D) \in Nat
    BY <1>1, <2>4
  <2>6. E \subseteq F /\ IsFiniteSet(E) /\ Cardinality(E) \in Nat /\ Cardinality(E) <= q.max - Cardinality(D)
    BY <1>2, <2>1, <2>5, FirstHas
  <2> HIDE DEF E
  <2>7. IsFiniteSet(D \cup E) /\ Cardinality(D \cup E) = Cardinality(D) + Cardinality(E) - Cardinality(D \cap E)
    BY <2>4, <2>6, FS_Union
  <2>8. Cardinality(D \cap E) \in Nat
    BY <2>4, FS_Subset, FS_CardinalityType
  <2>9. Cardinality(D \cup E) <= q.max
    BY <1>1, <2>4, <2>6, <2>7, <2>8
  <2> QED
    BY <2>2, <2>3, <2>4, <2>6, <2>7, <2>9
<1> QED
  BY <1>3, <1>4

LEMMA ByTheirIds ==
    ASSUME OrderInv, NEW q \in Requests, NEW named, Picked(q, named) # {}
    PROVE  LET ids == {NameOf(i) : i \in Picked(q, named)}
           IN ~Refused(q, named) /\ ~Refused(q, ids) /\ Selected(q, ids) = Selected(q, named)
<1> DEFINE P == Selected(q, named)
           ids == {NameOf(i) : i \in Picked(q, named)}
           S == {i \in DOMAIN ledger : NameOf(i) \in ids /\ IsCase(i, q.asOf)}
<1>1. ~Refused(q, named) /\ Picked(q, named) = P /\ P # {}
  BY DEF Picked
<1>2. P \subseteq DOMAIN ledger /\ \A i \in P : IsCase(i, q.asOf)
  BY SelectedAreRows, SelectedFew
<1>3. ids # {} /\ ids = {NameOf(i) : i \in P}
  BY <1>1
<1>4. \A i, k \in DOMAIN ledger : NameOf(i) = NameOf(k) => i = k
  <2>1. ASSUME NEW i \in DOMAIN ledger, NEW k \in DOMAIN ledger, NameOf(i) = NameOf(k) PROVE SameName(RowAt(i), RowAt(k))
    BY <2>1 DEF NameOf, SameName
  <2> QED
    BY <2>1 DEF OrderInv, Before
<1> HIDE DEF P
<1>5. S = P
  BY <1>2, <1>3, <1>4
<1>6. Selected(q, ids) = First(q.max, S)
  BY <1>3 DEF Selected
<1>7. P \subseteq Nat
  BY <1>2 DEF OrderInv, IsSequence
<1>8. IsFiniteSet(P) /\ Cardinality(P) <= q.max /\ q.max \in Nat
  BY SelectedFew, RequestIs DEF P
<1>9. First(q.max, P) = P
  BY <1>7, <1>8, FirstIsAll
<1>10. ~Refused(q, ids)
  <2>1. SUFFICES ASSUME NEW n \in ids, n.kind = "recall", ~\E i \in DOMAIN ledger : NameOf(i) = n /\ Known(i, q.asOf) PROVE FALSE
    BY DEF Refused
  <2>2. PICK i \in P : n = NameOf(i)
    BY <1>3
  <2>3. RowAt(i).kind = "recall"
    BY <2>1, <2>2 DEF NameOf
  <2>4. Known(i, q.asOf)
    BY <1>2, <2>2, <2>3 DEF IsCase
  <2> QED
    BY <1>2, <2>1, <2>2, <2>4
<1> HIDE DEF S, ids
<1> QED
  BY <1>1, <1>5, <1>6, <1>9, <1>10 DEF P, ids

LEMMA BundlesRepeat == ASSUME ExportsInv, OrderInv PROVE RepeatableAsOf
<1>1. SUFFICES ASSUME NEW a \in exports, NEW b \in exports, a.settled, b.settled, a.q = b.q,
                      a.named = b.named \/ (a.named = a.q.named /\ CaseIds(a) = b.named)
               PROVE  a.refused = b.refused /\ a.cases = b.cases
  BY DEF RepeatableAsOf
<1>2. /\ a.q \in Requests /\ a.refused = Refused(a.q, a.named) /\ a.cases = [i \in Picked(a.q, a.named) |-> Context(i, a.q)]
      /\ b.refused = Refused(b.q, b.named) /\ b.cases = [i \in Picked(b.q, b.named) |-> Context(i, b.q)]
      /\ b.named = b.q.named \/ b.named # {}
  BY <1>1 DEF ExportsInv, Export
<1>3. CASE a.named = b.named
  BY <1>1, <1>2, <1>3
<1>4. CASE a.named = a.q.named /\ CaseIds(a) = b.named
  <2>1. b.named = {NameOf(i) : i \in Picked(a.q, a.named)}
    BY <1>2, <1>4 DEF CaseIds
  <2>2. CASE Picked(a.q, a.named) = {}
    BY <1>1, <1>2, <1>3, <1>4, <2>1, <2>2
  <2>3. CASE Picked(a.q, a.named) # {}
    <3>1. ~Refused(a.q, a.named) /\ ~Refused(a.q, b.named) /\ Selected(a.q, b.named) = Selected(a.q, a.named)
      BY <1>2, <2>1, <2>3, ByTheirIds
    <3>2. Refused(a.q, a.named) = FALSE /\ Refused(a.q, b.named) = FALSE
      BY <3>1 DEF Refused
    <3>3. Picked(a.q, b.named) = Picked(a.q, a.named)
      BY <3>1 DEF Picked
    <3>4. a.refused = b.refused
      BY <1>1, <1>2, <3>2
    <3>5. a.cases = b.cases
      BY <1>1, <1>2, <3>3
    <3> QED
      BY <3>4, <3>5
  <2> QED
    BY <2>2, <2>3
<1> QED
  BY <1>1, <1>3, <1>4

\* The case bundle of a settled moment is the same whenever it is asked for, by
\* the same request or by the case ids of an earlier bundle.
THEOREM RepeatableAlways == ReviewSpec => []RepeatableAsOf
<1>1. ReviewInit => OrderInv /\ Stamped /\ ExportsInv
  <2>1. ASSUME ReviewInit PROVE ExportsInv /\ Stamped
    BY <2>1 DEF ReviewInit, ExportsInv, Stamped
  <2> QED
    BY <2>1, OrderInit, ReviewAssumption
<1>2. OrderInv /\ Stamped /\ ExportsInv /\ [ReviewNext]_reviewVars => (OrderInv /\ Stamped /\ ExportsInv)'
  BY OrderStep, StampedStep, ExportsStep
<1>3. OrderInv /\ ExportsInv => RepeatableAsOf
  BY BundlesRepeat
<1> QED
  BY <1>1, <1>2, <1>3, PTL DEF ReviewSpec

-----------------------------------------------------------------------------
(* Promotion *)

\* The numbers of sources, and the names of their ids, differ from each other and from
\* the names of the parts.
PartKinds == Parts \cup {"decision"}
LEMMA IndicesAre ==
    /\ \A i \in 1..MaxSources : Index(i) # "source"
    /\ \A i, j \in 1..MaxSources : Index(i) = Index(j) => i = j
<1>1. \A i \in 1..10 : \/ i = 1 \/ i = 2 \/ i = 3 \/ i = 4 \/ i = 5
                       \/ i = 6 \/ i = 7 \/ i = 8 \/ i = 9 \/ i = 10
  OBVIOUS
<1>2. /\ Index(1) = "0" /\ Index(2) = "1" /\ Index(3) = "2" /\ Index(4) = "3" /\ Index(5) = "4"
      /\ Index(6) = "5" /\ Index(7) = "6" /\ Index(8) = "7" /\ Index(9) = "8" /\ Index(10) = "9"
  BY DEF Index
<1> QED
  BY <1>1, <1>2 DEF MaxSources

LEMMA SourcesAre ==
    /\ \A i \in 1..MaxSources : Source(i) \notin PartKinds \cup {"source", "memory_node"}
    /\ \A i, j \in 1..MaxSources : Source(i) = Source(j) => i = j
<1>1. \A i \in 1..10 : \/ i = 1 \/ i = 2 \/ i = 3 \/ i = 4 \/ i = 5
                       \/ i = 6 \/ i = 7 \/ i = 8 \/ i = 9 \/ i = 10
  OBVIOUS
<1>2. /\ Source(1) = "source:0" /\ Source(2) = "source:1" /\ Source(3) = "source:2"
      /\ Source(4) = "source:3" /\ Source(5) = "source:4" /\ Source(6) = "source:5"
      /\ Source(7) = "source:6" /\ Source(8) = "source:7" /\ Source(9) = "source:8"
      /\ Source(10) = "source:9"
  BY DEF Source
<1> QED
  BY <1>1, <1>2 DEF MaxSources, PartKinds, Parts

LEMMA BundleIs ==
    ASSUME NEW b \in Bundles
    PROVE  /\ b.parent \in Seq(STRING) /\ b.parts \subseteq Parts /\ b.sources \in Seq(STRING)
           /\ DOMAIN b.sources \subseteq 1..MaxSources /\ b.attach \subseteq Targets
           /\ b.given \subseteq Parts \cup {Source(i) : i \in 1..MaxSources}
<1>1. b \in Bundle /\ Len(b.sources) <= MaxSources
  BY PromotionAssumption
<1>2. /\ b.parent \in Seq(STRING) /\ b.parts \subseteq Parts /\ b.sources \in Seq(STRING)
      /\ b.attach \subseteq Targets
      /\ b.given \subseteq Parts \cup {Source(i) : i \in 1..MaxSources}
  BY <1>1 DEF Bundle
<1>3. DOMAIN b.sources = 1..Len(b.sources) /\ Len(b.sources) \in Nat
  BY <1>2
<1>4. DOMAIN b.sources \subseteq 1..MaxSources
  BY <1>1, <1>3 DEF MaxSources
<1> QED
  BY <1>2, <1>4

\* A list of lists, one after the other.
LEMMA FlattenIs ==
    ASSUME NEW T, NEW s, s \in Seq(Seq(T))
    PROVE  FlattenSeq(s) \in Seq(T)
<1> DEFINE Flat(f, m) == f = [i \in 1..m |-> IF i = 1 THEN s[i] ELSE f[i - 1] \o s[i]]
           Bad == {m \in 1..Len(s) : ~ \E f : Flat(f, m)}
<1>1. Len(s) \in Nat /\ \A i \in 1..Len(s) : s[i] \in Seq(T)
  OBVIOUS
<1>2. CASE Len(s) = 0
  <2>1. FlattenSeq(s) = s
    BY <1>2 DEF FlattenSeq
  <2> QED
    BY <1>2, <2>1
<1>3. CASE Len(s) # 0
  <2>1. Bad = {}
    <3>1. SUFFICES ASSUME Bad # {} PROVE FALSE
      OBVIOUS
    <3>2. PICK b \in Bad : \A i \in Bad : b <= i
      <4> HIDE DEF Flat
      <4>1. Bad \subseteq Nat
        OBVIOUS
      <4> HIDE DEF Bad
      <4> QED
        BY <3>1, <4>1, LeastNatural
    <3>3. b \in 1..Len(s)
      OBVIOUS
    <3>4. CASE b = 1
      <4> DEFINE f == [i \in 1..1 |-> s[i]]
      <4>1. Flat(f, 1)
        OBVIOUS
      <4> HIDE DEF f, Flat
      <4> QED
        BY <3>4, <4>1
    <3>5. CASE b # 1
      <4> DEFINE m == b - 1
      <4>1. m \in 1..Len(s) /\ b = m + 1 /\ ~(b <= m) /\ m \in Nat
        BY <3>3, <3>5, <1>1
      <4> HIDE DEF m
      <4>2. PICK g : Flat(g, m)
        <5>1. m \notin Bad
          <6> HIDE DEF Bad
          <6> QED
            BY <3>2, <4>1
        <5> HIDE DEF Flat
        <5> QED
          BY <4>1, <5>1
      <4> DEFINE h == [i \in 1..(m + 1) |-> IF i = m + 1 THEN g[m] \o s[i] ELSE g[i]]
      <4>3. /\ h[m + 1] = g[m] \o s[m + 1] /\ \A i \in 1..m : h[i] = g[i]
            /\ h = [i \in 1..(m + 1) |-> h[i]]
        <5>1. m + 1 \in 1..(m + 1) /\ \A i \in 1..m : i \in 1..(m + 1) /\ i # m + 1
          BY <4>1
        <5> QED
          BY <5>1
      <4>4. \A i \in 1..m : g[i] = IF i = 1 THEN s[i] ELSE g[i - 1] \o s[i]
        BY <4>2
      <4> HIDE DEF h
      <4>5. \A i \in 1..(m + 1) : h[i] = IF i = 1 THEN s[i] ELSE h[i - 1] \o s[i]
        <5> TAKE i \in 1..(m + 1)
        <5>1. CASE i = m + 1
          <6>1. i - 1 = m /\ m \in 1..m /\ i # 1
            BY <4>1, <5>1
          <6> QED
            BY <4>3, <5>1, <6>1
        <5>2. CASE i \in 1..m
          <6>1. i # 1 => i - 1 \in 1..m
            BY <4>1, <5>2
          <6> QED
            BY <4>3, <4>4, <5>2, <6>1
        <5> QED
          BY <4>1, <5>1, <5>2
      <4>6. Flat(h, m + 1)
        BY <4>3, <4>5
      <4> HIDE DEF Flat
      <4> QED
        BY <4>1, <4>5, <4>6
    <3> QED
      BY <3>4, <3>5
  <2> DEFINE flatten == CHOOSE f : Flat(f, Len(s))
  <2>2. Len(s) \in 1..Len(s)
    BY <1>1, <1>3
  <2>3. \E f : Flat(f, Len(s))
    <3> HIDE DEF Flat
    <3> QED
      BY <2>1, <2>2
  <2>4. FlattenSeq(s) = flatten[Len(s)]
    BY <1>3 DEF FlattenSeq
  <2>5. Flat(flatten, Len(s))
    <3> HIDE DEF Flat
    <3> QED
      BY <2>3
  <2>6. \A i \in 1..Len(s) : flatten[i] \in Seq(T)
    <3> HIDE DEF flatten
    <3> DEFINE Odd == {i \in 1..Len(s) : flatten[i] \notin Seq(T)}
    <3>1. Odd = {}
      <4>1. SUFFICES ASSUME Odd # {} PROVE FALSE
        OBVIOUS
      <4>2. PICK b \in Odd : \A i \in Odd : b <= i
        <5>1. Odd \subseteq Nat
          OBVIOUS
        <5> HIDE DEF Odd
        <5> QED
          BY <4>1, <5>1, LeastNatural
      <4>3. flatten[b] = IF b = 1 THEN s[b] ELSE flatten[b - 1] \o s[b]
        BY <2>5
      <4>4. b # 1
        BY <1>1, <4>3
      <4>5. b - 1 \in 1..Len(s) /\ ~(b <= b - 1)
        BY <1>1, <4>4
      <4>6. flatten[b - 1] \in Seq(T) /\ s[b] \in Seq(T)
        BY <1>1, <4>2, <4>5
      <4>7. flatten[b - 1] \o s[b] \in Seq(T)
        BY <4>6
      <4> QED
        BY <4>3, <4>4, <4>7
    <3> QED
      BY <3>1
  <2> HIDE DEF flatten
  <2> QED
    BY <2>2, <2>4, <2>6
<1> QED
  BY <1>2, <1>3

\* The steps a plan may hold.
Making(b) == {Step(kind, b.parent \o <<kind>>, Needs(b, kind)) : kind \in b.parts \ b.given}
Adding(b) == {Step("source", b.parent \o <<"source", Index(i)>>, {}) : i \in {j \in DOMAIN b.sources : Source(j) \notin b.given}}
TargetsOf(b) == b.attach \cap (b.parts \cup {"decision"})
Attaching(b) == {Step("edge", AttachKey(b, p[1], p[2]), {"source", p[2]}) : p \in (DOMAIN b.sources) \X TargetsOf(b)}
Ending(b) == {Step("decision", b.parent \o <<"decision", b.action>>, Needs(b, "decision")),
              Step("memory_node", b.parent \o <<"reflection">>, {"decision"})}
Steps(b) == Making(b) \cup Adding(b) \cup Attaching(b) \cup Ending(b)

Has(s, e) == \E n \in DOMAIN s : s[n] = e

LEMMA JoinedHas ==
    ASSUME NEW T, NEW s \in Seq(T), NEW t \in Seq(T)
    PROVE  s \o t \in Seq(T) /\ \A e : Has(s, e) \/ Has(t, e) => Has(s \o t, e)
<1> DEFINE u == s \o t
<1>1. /\ u \in Seq(T) /\ Len(s) \in Nat /\ Len(t) \in Nat
      /\ DOMAIN u = 1..(Len(s) + Len(t)) /\ DOMAIN s = 1..Len(s) /\ DOMAIN t = 1..Len(t)
      /\ \A i \in 1..Len(s) : u[i] = s[i]
      /\ \A i \in 1..Len(t) : u[Len(s) + i] = t[i]
  OBVIOUS
<1>2. (\A i \in 1..Len(s) : i \in DOMAIN u) /\ (\A i \in 1..Len(t) : Len(s) + i \in DOMAIN u)
  BY <1>1
<1> HIDE DEF u
<1>3. \A e : Has(s, e) \/ Has(t, e) => Has(u, e)
  BY <1>1, <1>2 DEF Has
<1> QED
  BY <1>1, <1>3 DEF u

LEMMA PlanIs ==
    ASSUME NEW b \in Bundles
    PROVE  /\ Plan(b) \in Seq(Steps(b))
           /\ \A i \in DOMAIN b.sources, target \in TargetsOf(b) :
                Has(Plan(b), Step("edge", AttachKey(b, i, target), {"source", target}))
<1> DEFINE Make(kind) == IF kind \in b.parts \ b.given THEN <<Step(kind, b.parent \o <<kind>>, Needs(b, kind))>> ELSE << >>
           Add(i) == IF Source(i) \in b.given THEN << >> ELSE <<Step("source", b.parent \o <<"source", Index(i)>>, {})>>
           Sourced == FlattenSeq([i \in DOMAIN b.sources |-> Add(i)])
           Attach(target) ==
             IF target \notin b.attach \/ target \notin b.parts \cup {"decision"} THEN << >>
             ELSE [i \in DOMAIN b.sources |-> Step("edge", AttachKey(b, i, target), {"source", target})]
           Decide == <<Step("decision", b.parent \o <<"decision", b.action>>, Needs(b, "decision"))>>
           Reflect == IF b.reflects THEN <<Step("memory_node", b.parent \o <<"reflection">>, {"decision"})>> ELSE << >>
           T == Steps(b)
<1>1. \A kind : Make(kind) \in Seq(T)
  <2> TAKE kind
  <2> DEFINE e == Step(kind, b.parent \o <<kind>>, Needs(b, kind))
  <2>1. kind \in b.parts \ b.given => e \in T
    BY DEF Steps, Making
  <2> HIDE DEF T, e
  <2>2. << >> \in Seq(T) /\ (e \in T => <<e>> \in Seq(T))
    OBVIOUS
  <2> QED
    BY <2>1, <2>2 DEF e
<1>2. DOMAIN b.sources = 1..Len(b.sources) /\ Len(b.sources) \in Nat
  BY BundleIs
<1>3. Sourced \in Seq(T)
  <2> DEFINE all == [i \in DOMAIN b.sources |-> Add(i)]
  <2>1. \A i \in DOMAIN b.sources : Add(i) \in Seq(T)
    <3> TAKE i \in DOMAIN b.sources
    <3> DEFINE e == Step("source", b.parent \o <<"source", Index(i)>>, {})
    <3>1. Source(i) \notin b.given => e \in T
      BY DEF Steps, Adding
    <3> HIDE DEF T, e
    <3>2. << >> \in Seq(T) /\ (e \in T => <<e>> \in Seq(T))
      OBVIOUS
    <3> QED
      BY <3>1, <3>2 DEF e
  <2> HIDE DEF T, Add
  <2>2. all \in Seq(Seq(T))
    <3> DEFINE U == Seq(T)
    <3>1. \A i \in DOMAIN b.sources : Add(i) \in U
      BY <2>1
    <3> HIDE DEF U
    <3>2. all \in [1..Len(b.sources) -> U]
      BY <1>2, <3>1
    <3>3. all \in Seq(U)
      BY <1>2, <3>2
    <3> QED
      BY <3>3 DEF U
  <2> QED
    BY <2>2, FlattenIs
<1>4. \A target : Attach(target) \in Seq(T)
  <2> TAKE target
  <2> DEFINE s == [i \in DOMAIN b.sources |-> Step("edge", AttachKey(b, i, target), {"source", target})]
  <2>1. target \in b.attach /\ target \in b.parts \cup {"decision"} =>
           \A i \in DOMAIN b.sources : s[i] \in T
    <3> SUFFICES ASSUME target \in TargetsOf(b), NEW i \in DOMAIN b.sources
                 PROVE  Step("edge", AttachKey(b, i, target), {"source", target}) \in T
      BY DEF TargetsOf
    <3> DEFINE p == <<i, target>>
    <3>1. p \in (DOMAIN b.sources) \X TargetsOf(b) /\ p[1] = i /\ p[2] = target
      OBVIOUS
    <3> HIDE DEF p
    <3>2. Step("edge", AttachKey(b, p[1], p[2]), {"source", p[2]}) \in Attaching(b)
      BY <3>1 DEF Attaching
    <3> QED
      BY <3>1, <3>2 DEF Steps
  <2>2. DOMAIN s = 1..Len(b.sources)
    BY <1>2
  <2> HIDE DEF T
  <2>3. << >> \in Seq(T) /\ ((\A i \in DOMAIN b.sources : s[i] \in T) => s \in Seq(T))
    <3>1. ASSUME \A i \in DOMAIN b.sources : s[i] \in T PROVE s \in Seq(T)
      <4>1. s = [i \in 1..Len(b.sources) |-> s[i]]
        BY <1>2
      <4> HIDE DEF s
      <4>2. s \in [1..Len(b.sources) -> T]
        BY <1>2, <3>1, <4>1
      <4> QED
        BY <1>2, <4>2
    <3>2. << >> \in Seq(T)
      OBVIOUS
    <3> HIDE DEF s
    <3> QED
      BY <3>1, <3>2
  <2> QED
    BY <2>1, <2>3
<1>5. Decide \in Seq(T) /\ Reflect \in Seq(T)
  <2> DEFINE d == Step("decision", b.parent \o <<"decision", b.action>>, Needs(b, "decision"))
             r == Step("memory_node", b.parent \o <<"reflection">>, {"decision"})
  <2>1. d \in T /\ r \in T
    BY DEF Steps, Ending
  <2> HIDE DEF T, d, r
  <2>2. <<d>> \in Seq(T) /\ <<r>> \in Seq(T) /\ << >> \in Seq(T)
    BY <2>1
  <2> QED
    BY <2>2 DEF d, r
<1>6. Plan(b) = Make("venue") \o Make("instrument") \o Make("snapshot") \o Sourced
               \o Make("thesis") \o Attach("thesis") \o Make("forecast") \o Attach("forecast") \o Decide \o Attach("decision") \o Reflect
  BY DEF Plan
<1>7. ASSUME NEW i \in DOMAIN b.sources, NEW target \in TargetsOf(b)
      PROVE  Has(Attach(target), Step("edge", AttachKey(b, i, target), {"source", target}))
  <2>1. target \in b.attach /\ target \in b.parts \cup {"decision"}
    BY DEF TargetsOf
  <2> QED
    BY <2>1 DEF Has
<1>8. \A target \in TargetsOf(b) : target = "thesis" \/ target = "forecast" \/ target = "decision"
  BY BundleIs DEF TargetsOf, Targets
<1> HIDE DEF Make, Sourced, Attach, Decide, Reflect, T
<1> DEFINE p1 == Make("venue") \o Make("instrument")
           p2 == p1 \o Make("snapshot")
           p3 == p2 \o Sourced
           p4 == p3 \o Make("thesis")
           p5 == p4 \o Attach("thesis")
           p6 == p5 \o Make("forecast")
           p7 == p6 \o Attach("forecast")
           p8 == p7 \o Decide
           p9 == p8 \o Attach("decision")
           p10 == p9 \o Reflect
<1>9. Plan(b) = p10
  BY <1>6
<1>10. p1 \in Seq(T)
  BY <1>1, JoinedHas
<1> HIDE DEF p1
<1>11. p2 \in Seq(T)
  BY <1>1, <1>10, JoinedHas
<1> HIDE DEF p2
<1>12. p3 \in Seq(T)
  BY <1>3, <1>11, JoinedHas
<1> HIDE DEF p3
<1>13. p4 \in Seq(T)
  BY <1>1, <1>12, JoinedHas
<1> HIDE DEF p4
<1>14. p5 \in Seq(T) /\ \A e : Has(Attach("thesis"), e) => Has(p5, e)
  BY <1>4, <1>13, JoinedHas
<1> HIDE DEF p5
<1>15. p6 \in Seq(T) /\ \A e : Has(p5, e) => Has(p6, e)
  BY <1>1, <1>14, JoinedHas
<1> HIDE DEF p6
<1>16. p7 \in Seq(T) /\ \A e : Has(p6, e) \/ Has(Attach("forecast"), e) => Has(p7, e)
  BY <1>4, <1>15, JoinedHas
<1> HIDE DEF p7
<1>17. p8 \in Seq(T) /\ \A e : Has(p7, e) => Has(p8, e)
  BY <1>5, <1>16, JoinedHas
<1> HIDE DEF p8
<1>18. p9 \in Seq(T) /\ \A e : Has(p8, e) \/ Has(Attach("decision"), e) => Has(p9, e)
  BY <1>4, <1>17, JoinedHas
<1> HIDE DEF p9
<1>19. p10 \in Seq(T) /\ \A e : Has(p9, e) => Has(p10, e)
  BY <1>5, <1>18, JoinedHas
<1> HIDE DEF p10
<1>20. ASSUME NEW i \in DOMAIN b.sources, NEW target \in TargetsOf(b)
       PROVE  Has(Plan(b), Step("edge", AttachKey(b, i, target), {"source", target}))
  BY <1>7, <1>8, <1>9, <1>14, <1>15, <1>16, <1>17, <1>18, <1>19
<1> QED
  BY <1>9, <1>19, <1>20 DEF T

\* No key that a caller picks has a segment that says "source".
PlainParents == \A b \in Bundles : \A n \in DOMAIN b.parent : b.parent[n] # "source"

LEMMA LeastIs ==
    ASSUME NEW k \in Nat, NEW S, S \subseteq Nat, k \in S, \A n \in S : k <= n
    PROVE  Min(S) = k
<1>1. \E m \in S : \A n \in S : m <= n
  OBVIOUS
<1>2. Min(S) \in S /\ \A n \in S : Min(S) <= n
  BY <1>1 DEF Min
<1>3. Min(S) \in Nat /\ Min(S) <= k /\ k <= Min(S)
  BY <1>2
<1> QED
  BY <1>3

\* What the parent is followed by tells which source a key is of.
LEMMA IdxOfKey ==
    ASSUME NEW key, NEW k \in Nat, NEW n \in Nat, DOMAIN key = 1..n, Len(key) = n, k + 2 <= n,
           \A j \in 1..k : key[j] # "source", key[k + 1] = "source",
           NEW i \in 1..MaxSources, key[k + 2] = Index(i)
    PROVE  SourceIdx(key) = i
<1> DEFINE at == {m \in DOMAIN key : key[m] = "source"}
           said == {j \in 1..MaxSources : Min(at) < Len(key) /\ key[Min(at) + 1] = Index(j)}
<1>1. at \subseteq Nat /\ k + 1 \in at /\ \A m \in at : k + 1 <= m
  <2>1. \A m \in at : ~(m \in 1..k) /\ m \in 1..n
    OBVIOUS
  <2>2. k + 1 \in at
    OBVIOUS
  <2> HIDE DEF at
  <2> QED
    BY <2>1, <2>2
<1> HIDE DEF at
<1>2. Min(at) = k + 1
  BY <1>1, LeastIs
<1>3. said = {i}
  <2>1. Min(at) < Len(key) /\ key[Min(at) + 1] = Index(i)
    <3>1. Min(at) + 1 = k + 2 /\ k + 1 < n
      BY <1>2
    <3> QED
      BY <1>2, <3>1
  <2> QED
    BY <2>1, IndicesAre
<1> HIDE DEF said
<1>4. (CHOOSE j \in said : TRUE) = i
  BY <1>3
<1> QED
  BY <1>1, <1>3, <1>4 DEF SourceIdx, at, said

LEMMA KeysAre ==
    ASSUME PlainParents, NEW b \in Bundles, NEW i \in DOMAIN b.sources
    PROVE  /\ SourceIdx(b.parent \o <<"source", Index(i)>>) = i
           /\ \A target : SourceIdx(AttachKey(b, i, target)) = i
<1>1. i \in 1..MaxSources /\ b.parent \in Seq(STRING)
  BY BundleIs
<1> DEFINE k == Len(b.parent)
<1>2. k \in Nat /\ DOMAIN b.parent = 1..k
  BY <1>1
<1>3. \A j \in 1..k : b.parent[j] # "source"
  BY <1>2 DEF PlainParents
<1>4. SourceIdx(b.parent \o <<"source", Index(i)>>) = i
  <2> DEFINE key == b.parent \o <<"source", Index(i)>>
  <2>1. /\ DOMAIN key = 1..(k + 2) /\ Len(key) = k + 2
        /\ (\A j \in 1..k : key[j] = b.parent[j]) /\ key[k + 1] = "source" /\ key[k + 2] = Index(i)
    BY <1>1
  <2>2. k + 2 \in Nat
    BY <1>2
  <2> HIDE DEF key, k
  <2>3. SourceIdx(key) = i
    BY <1>1, <1>2, <1>3, <2>1, <2>2, IdxOfKey
  <2> QED
    BY <2>3 DEF key
<1>5. ASSUME NEW target PROVE SourceIdx(AttachKey(b, i, target)) = i
  <2> DEFINE key == AttachKey(b, i, target)
  <2>1. /\ DOMAIN key = 1..(k + 4) /\ Len(key) = k + 4
        /\ (\A j \in 1..k : key[j] = b.parent[j]) /\ key[k + 1] = "source" /\ key[k + 2] = Index(i)
    BY <1>1 DEF AttachKey
  <2>2. k + 4 \in Nat /\ k + 2 <= k + 4
    BY <1>2
  <2> HIDE DEF key, k
  <2>3. SourceIdx(key) = i
    BY <1>1, <1>2, <1>3, <2>1, <2>2, IdxOfKey
  <2> QED
    BY <2>3 DEF key
<1> QED
  BY <1>4, <1>5

\* The ids of a promotion are of the rows that its bundle means.
Filed(b, ids) ==
    /\ \A kind \in PartKinds \cap DOMAIN ids : ids[kind] = RowOf(b, kind)
    /\ \A i \in DOMAIN b.sources : Source(i) \in DOMAIN ids => ids[Source(i)] = SourceRow(b, i)

LEMMA GivenFiled == ASSUME NEW b \in Bundles PROVE Filed(b, GivenIds(b))
<1> DEFINE sources == {i \in DOMAIN b.sources : Source(i) \in b.given}
           named == [name \in b.given |-> Given(name)]
           ids == GivenIds(b)
<1>1. ids = named \/ \E id : ids = WithFirst(named, "source", id)
  BY DEF GivenIds
<1>2. \A name \in DOMAIN ids : name = "source" \/ (name \in b.given /\ ids[name] = Given(name))
  BY <1>1 DEF WithFirst, With
<1> HIDE DEF ids
<1>3. \A kind \in PartKinds \cap DOMAIN ids : ids[kind] = RowOf(b, kind)
  BY <1>2 DEF RowOf, PartKinds, Parts
<1>4. \A i \in DOMAIN b.sources : Source(i) \in DOMAIN ids => ids[Source(i)] = SourceRow(b, i)
  BY <1>2, SourcesAre, BundleIs DEF SourceRow
<1> QED
  BY <1>3, <1>4 DEF Filed, ids

\* What a step may be.
LEMMA StepIs ==
    ASSUME NEW b, NEW step \in Steps(b)
    PROVE  \/ /\ step.kind \in b.parts \ b.given /\ step.key = b.parent \o <<step.kind>>
              /\ step.needs = Needs(b, step.kind)
           \/ /\ step.kind = "source" /\ step.needs = {}
              /\ \E i \in DOMAIN b.sources : Source(i) \notin b.given /\ step.key = b.parent \o <<"source", Index(i)>>
           \/ /\ step.kind = "edge"
              /\ \E i \in DOMAIN b.sources, target \in TargetsOf(b) :
                   step.key = AttachKey(b, i, target) /\ step.needs = {"source", target}
           \/ /\ step.kind = "decision" /\ step.key = b.parent \o <<"decision", b.action>>
              /\ step.needs = Needs(b, "decision")
           \/ step.kind = "memory_node" /\ step.needs = {"decision"}
<1>1. CASE step \in Making(b)
  <2>1. PICK kind \in b.parts \ b.given : step = Step(kind, b.parent \o <<kind>>, Needs(b, kind))
    BY <1>1 DEF Making
  <2>2. step.kind = kind /\ step.key = b.parent \o <<kind>> /\ step.needs = Needs(b, kind)
    BY <2>1 DEF Step
  <2> QED
    BY <2>2
<1>2. CASE step \in Adding(b)
  <2>1. PICK i \in {j \in DOMAIN b.sources : Source(j) \notin b.given} :
          step = Step("source", b.parent \o <<"source", Index(i)>>, {})
    BY <1>2 DEF Adding
  <2>2. step.kind = "source" /\ step.key = b.parent \o <<"source", Index(i)>> /\ step.needs = {}
    BY <2>1 DEF Step
  <2> QED
    BY <2>2
<1>3. CASE step \in Attaching(b)
  <2>1. PICK p \in (DOMAIN b.sources) \X TargetsOf(b) :
          step = Step("edge", AttachKey(b, p[1], p[2]), {"source", p[2]})
    BY <1>3 DEF Attaching
  <2>2. p[1] \in DOMAIN b.sources /\ p[2] \in TargetsOf(b)
    OBVIOUS
  <2> QED
    BY <2>1, <2>2 DEF Step
<1>4. CASE step \in Ending(b)
  <2> DEFINE decides == Step("decision", b.parent \o <<"decision", b.action>>, Needs(b, "decision"))
             reflects == Step("memory_node", b.parent \o <<"reflection">>, {"decision"})
  <2>1. decides.kind = "decision" /\ decides.key = b.parent \o <<"decision", b.action>> /\ decides.needs = Needs(b, "decision")
    BY DEF Step
  <2>2. reflects.kind = "memory_node" /\ reflects.needs = {"decision"}
    BY DEF Step
  <2>3. step = decides \/ step = reflects
    BY <1>4 DEF Ending
  <2> HIDE DEF decides, reflects
  <2> QED
    BY <2>1, <2>2, <2>3
<1> QED
  BY <1>1, <1>2, <1>3, <1>4 DEF Steps

\* A child's answer is filed where the bundle means it.
LEMMA RecordFiled ==
    ASSUME PlainParents, NEW b \in Bundles, NEW ids, Filed(b, ids), NEW step \in Steps(b)
    PROVE  Filed(b, Record(ids, step, step.key))
<1>1. /\ b.parts \subseteq Parts /\ DOMAIN b.sources \subseteq 1..MaxSources
      /\ b.given \subseteq Parts \cup {Source(i) : i \in 1..MaxSources}
  BY BundleIs
<1>2. CASE step.kind \in (b.parts \ b.given) \cup {"decision", "memory_node"}
  <2>1. Record(ids, step, step.key) = With(ids, step.kind, step.key)
    BY <1>1, <1>2 DEF Record, Parts
  <2>2. step.kind \in PartKinds => step.key = RowOf(b, step.kind)
    <3>1. CASE step.kind \in b.parts \ b.given
      <4>1. step.key = b.parent \o <<step.kind>> /\ step.kind # "decision"
        BY <1>1, <3>1, StepIs DEF Parts
      <4> QED
        BY <3>1, <4>1 DEF RowOf
    <3>2. CASE step.kind = "decision"
      <4>1. "decision" \notin b.given
        BY <1>1, SourcesAre DEF PartKinds, Parts
      <4>2. step.key = b.parent \o <<"decision", b.action>>
        BY <1>1, <3>2, StepIs DEF Parts
      <4> QED
        BY <3>2, <4>1, <4>2 DEF RowOf
    <3>3. CASE step.kind = "memory_node"
      BY <3>3 DEF PartKinds, Parts
    <3> QED
      BY <1>2, <3>1, <3>2, <3>3
  <2>3. \A i \in DOMAIN b.sources : Source(i) # step.kind
    BY <1>1, <1>2, SourcesAre DEF PartKinds
  <2> QED
    BY <2>1, <2>2, <2>3 DEF Filed, With
<1>3. CASE step.kind = "source"
  <2>1. PICK i \in DOMAIN b.sources : Source(i) \notin b.given /\ step.key = b.parent \o <<"source", Index(i)>>
    BY <1>1, <1>3, StepIs DEF Parts
  <2>2. SourceIdx(step.key) = i /\ i # None
    BY <1>1, <2>1, KeysAre, PromotionAssumption
  <2>3. Record(ids, step, step.key) = WithFirst(With(ids, Source(i), step.key), "source", step.key)
    BY <1>3, <2>2 DEF Record
  <2>4. step.key = SourceRow(b, i)
    BY <2>1 DEF SourceRow
  <2>5. /\ \A j \in DOMAIN b.sources : Source(j) = Source(i) => j = i
        /\ \A j \in DOMAIN b.sources : Source(j) \notin PartKinds \cup {"source"}
        /\ "source" \notin PartKinds
    BY <1>1, SourcesAre DEF PartKinds, Parts
  <2> QED
    BY <2>3, <2>4, <2>5 DEF Filed, With, WithFirst
<1>4. CASE step.kind = "edge"
  BY <1>4 DEF Record
<1> QED
  BY <1>2, <1>3, <1>4, StepIs

\* What the row of a step refers to.
RefersWell(b, step, refs) ==
    /\ \A kind \in step.needs \ {"source"} : refs[kind] = RowOf(b, kind)
    /\ \A i \in DOMAIN b.sources, target \in TargetsOf(b) :
         step.kind = "edge" /\ step.key = AttachKey(b, i, target) => refs["source"] = SourceRow(b, i)

LEMMA NeedsAre == ASSUME NEW b \in Bundles, NEW step \in Steps(b) PROVE step.needs \ {"source"} \subseteq PartKinds
<1>1. b.parts \subseteq Parts /\ b.attach \subseteq Targets
  BY BundleIs
<1>2. \A kind : Needs(b, kind) \subseteq PartKinds
  BY <1>1 DEF Needs, PartKinds, Parts
<1>3. TargetsOf(b) \subseteq PartKinds
  BY <1>1 DEF TargetsOf, PartKinds
<1>4. \/ step.needs = {} \/ step.needs = {"decision"} \/ \E kind : step.needs = Needs(b, kind)
      \/ \E target \in TargetsOf(b) : step.needs = {"source", target}
  BY StepIs
<1> QED
  BY <1>2, <1>3, <1>4 DEF PartKinds

LEMMA RefersFiled ==
    ASSUME PlainParents, NEW b \in Bundles, NEW ids, Filed(b, ids), NEW step \in Steps(b),
           \A n \in step.needs : Refers(step, ids)[n] # None
    PROVE  RefersWell(b, step, Refers(step, ids))
<1> DEFINE refs == Refers(step, ids)
<1>1. step.needs \ {"source"} \subseteq PartKinds
  BY NeedsAre
<1>2. ASSUME NEW kind \in step.needs \ {"source"} PROVE refs[kind] = RowOf(b, kind)
  <2>1. refs[kind] = IdOf(ids, kind) /\ refs[kind] # None
    BY DEF Refers
  <2>2. kind \in DOMAIN ids
    BY <2>1 DEF IdOf
  <2> QED
    BY <1>1, <2>1, <2>2 DEF IdOf, Filed
<1>3. ASSUME NEW i \in DOMAIN b.sources, NEW target \in TargetsOf(b),
             step.kind = "edge", step.key = AttachKey(b, i, target)
      PROVE  refs["source"] = SourceRow(b, i)
  <2>1. "source" \in step.needs
    BY <1>3, BundleIs, StepIs DEF Parts
  <2>2. SourceIdx(step.key) = i
    <3>1. \A t : SourceIdx(AttachKey(b, i, t)) = i
      BY KeysAre
    <3> QED
      BY <1>3, <3>1
  <2>3. i # None
    BY BundleIs, PromotionAssumption
  <2>4. refs["source"] = IdOf(ids, Source(i)) /\ refs["source"] # None
    BY <2>1, <2>2, <2>3 DEF Refers
  <2>5. Source(i) \in DOMAIN ids
    BY <2>4 DEF IdOf
  <2> QED
    BY <2>4, <2>5 DEF IdOf, Filed
<1> HIDE DEF refs
<1>4. RefersWell(b, step, refs)
  BY <1>2, <1>3 DEF RefersWell
<1> QED
  BY <1>4 DEF refs

\* A step has its row, once, and a promotion has the rows of the steps behind it.
Landed(b, step) == \E r \in Holding(step) : RefersWell(b, step, rows[r].refs)
KeysAreUsedOnce ==
    \A i, j \in DOMAIN rows : rows[i].key = rows[j].key /\ rows[i].kind = rows[j].kind => i = j
OnItsWay(p) ==
    LET b == promoting[p].bundle IN
    /\ b \in Bundles /\ At(p) \in Nat \ {0} /\ Filed(b, promoting[p].ids)
    /\ \A n \in DOMAIN Plan(b) : n < At(p) => Landed(b, Plan(b)[n])

PromotionInv ==
    /\ IsSequence(rows) /\ KeysAreUsedOnce
    /\ DOMAIN promoting = Promoters
    /\ \A p \in Promoters : promoting[p] # None => OnItsWay(p)
    /\ \A b \in promoted : b \in Bundles /\ \A n \in DOMAIN Plan(b) : Landed(b, Plan(b)[n])

LEMMA InitPromotionInv == PromotionInit => PromotionInv
<1> SUFFICES ASSUME PromotionInit PROVE PromotionInv
  OBVIOUS
<1>1. rows = << >> /\ promoting = [p \in Promoters |-> None] /\ promoted = {}
  BY DEF PromotionInit
<1>2. DOMAIN << >> = {} /\ << >> \in Seq({})
  OBVIOUS
<1>3. IsSequence(rows)
  BY <1>1, <1>2 DEF IsSequence
<1>4. KeysAreUsedOnce
  BY <1>1, <1>2 DEF KeysAreUsedOnce
<1>5. DOMAIN promoting = Promoters /\ \A p \in Promoters : promoting[p] = None
  BY <1>1
<1> QED
  BY <1>1, <1>3, <1>4, <1>5 DEF PromotionInv

\* Rows are only added, so what has landed stays.
RowsGrow == \A i \in DOMAIN rows : i \in DOMAIN rows' /\ rows'[i] = rows[i]

LEMMA LandedStays ==
    ASSUME RowsGrow, NEW b, NEW step, Landed(b, step)
    PROVE  Landed(b, step)'
<1>1. PICK r \in Holding(step) : RefersWell(b, step, rows[r].refs)
  BY DEF Landed
<1>2. r \in Holding(step)' /\ rows'[r] = rows[r]
  BY <1>1 DEF Holding, RowsGrow
<1>3. RefersWell(b, step, rows'[r].refs)
  BY <1>1, <1>2
<1> QED
  BY <1>2, <1>3 DEF Landed

\* The invariant after a step of a process that leaves the rest alone.
LEMMA Elsewhere ==
    ASSUME PromotionInv, RowsGrow, NEW p \in Promoters, NEW q \in Promoters, q # p,
           promoting'[q] = promoting[q], promoting'[q] # None
    PROVE  OnItsWay(q)'
<1>1. OnItsWay(q)
  BY DEF PromotionInv
<1>2. At(q)' = At(q)
  BY DEF At
<1> QED
  BY <1>1, <1>2, LandedStays DEF OnItsWay

LEMMA StopStep ==
    ASSUME PromotionInv, NEW p \in Promoters, Stop(p), UNCHANGED rows,
           \A b \in promoted' : b \in Bundles /\ \A n \in DOMAIN Plan(b) : Landed(b, Plan(b)[n])
    PROVE  PromotionInv'
<1>1. DOMAIN promoting' = Promoters /\ promoting'[p] = None
      /\ \A q \in Promoters : q # p => promoting'[q] = promoting[q]
  BY DEF Stop, PromotionInv
<1>2. RowsGrow
  BY DEF RowsGrow
<1>3. \A q \in Promoters : promoting'[q] # None => OnItsWay(q)'
  BY <1>1, <1>2, Elsewhere
<1>4. IsSequence(rows)' /\ KeysAreUsedOnce'
  BY DEF PromotionInv, IsSequence, KeysAreUsedOnce
<1>5. \A b \in promoted' : b \in Bundles /\ \A n \in DOMAIN Plan(b) : Landed(b, Plan(b)[n])'
  BY <1>2, LandedStays
<1> QED
  BY <1>1, <1>3, <1>4, <1>5 DEF PromotionInv

LEMMA GoOnStep ==
    ASSUME PlainParents, PromotionInv, NEW p \in Promoters, HasStep(p),
           NEW b, b = promoting[p].bundle, NEW step, step = StepOf(p), GoOn(p, step.key),
           UNCHANGED promoted, RowsGrow, IsSequence(rows)', KeysAreUsedOnce', Landed(b, step)'
    PROVE  PromotionInv'
<1> DEFINE ids == Record(promoting[p].ids, step, step.key)
           after == [bundle |-> b, step |-> At(p) + 1, ids |-> ids]
<1>1. OnItsWay(p)
  BY DEF PromotionInv, HasStep
<1>2. b \in Bundles /\ At(p) \in Nat \ {0} /\ Filed(b, promoting[p].ids)
      /\ \A n \in DOMAIN Plan(b) : n < At(p) => Landed(b, Plan(b)[n])
  BY <1>1 DEF OnItsWay
<1>3. promoting' = [promoting EXCEPT ![p] = after] /\ DOMAIN promoting = Promoters
  BY DEF GoOn, PromotionInv
<1>4. after.bundle = b /\ after.step = At(p) + 1 /\ after.ids = ids
  OBVIOUS
<1> HIDE DEF after
<1>5. /\ DOMAIN promoting' = Promoters /\ promoting'[p] = after
      /\ \A q \in Promoters : q # p => promoting'[q] = promoting[q]
  BY <1>3
<1>6. Plan(b) \in Seq(Steps(b)) /\ DOMAIN Plan(b) = 1..Len(Plan(b)) /\ Len(Plan(b)) \in Nat
  BY <1>2, PlanIs
<1>7. At(p) \in DOMAIN Plan(b) /\ step = Plan(b)[At(p)] /\ step \in Steps(b)
  <2>1. At(p) \in DOMAIN Plan(b)
    BY <1>2, <1>6 DEF HasStep
  <2> QED
    BY <1>6, <2>1 DEF StepOf
<1>8. Filed(b, ids)
  BY <1>2, <1>7, RecordFiled
<1>9. \A n \in DOMAIN Plan(b) : n < At(p) + 1 => Landed(b, Plan(b)[n])'
  <2>1. \A n \in DOMAIN Plan(b) : n < At(p) + 1 => n < At(p) \/ n = At(p)
    BY <1>2, <1>6
  <2>2. \A n \in DOMAIN Plan(b) : n < At(p) => Landed(b, Plan(b)[n])'
    BY <1>2, LandedStays
  <2> QED
    BY <1>7, <2>1, <2>2
<1>10. OnItsWay(p)'
  <2>1. promoting'[p].bundle = b /\ At(p)' = At(p) + 1 /\ promoting'[p].ids = ids
    BY <1>4, <1>5 DEF At
  <2>2. At(p) + 1 \in Nat \ {0}
    BY <1>2
  <2> HIDE DEF ids
  <2> QED
    BY <1>2, <1>8, <1>9, <2>1, <2>2 DEF OnItsWay
<1>11. \A q \in Promoters : promoting'[q] # None => OnItsWay(q)'
  BY <1>5, <1>10, Elsewhere
<1>12. \A c \in promoted' : c \in Bundles /\ \A n \in DOMAIN Plan(c) : Landed(c, Plan(c)[n])'
  BY LandedStays DEF PromotionInv
<1> QED
  BY <1>5, <1>11, <1>12 DEF PromotionInv

LEMMA ChildStep ==
    ASSUME PlainParents, PromotionInv, NEW p \in Promoters, Child(p)
    PROVE  PromotionInv'
<1>0. PICK b, step, refs, made :
        /\ b = promoting[p].bundle /\ step = StepOf(p) /\ refs = Refers(step, promoting[p].ids)
        /\ made = [key |-> step.key, kind |-> step.kind, refs |-> refs]
  OBVIOUS
<1>1. HasStep(p) /\ promoted' = promoted
  BY DEF Child
<1>2. OnItsWay(p) /\ IsSequence(rows) /\ KeysAreUsedOnce
  BY <1>1 DEF PromotionInv, HasStep
<1>3. b \in Bundles /\ Filed(b, promoting[p].ids) /\ step \in Steps(b)
  <2>1. b \in Bundles /\ At(p) \in Nat \ {0} /\ Filed(b, promoting[p].ids)
    BY <1>0, <1>2 DEF OnItsWay
  <2>2. Plan(b) \in Seq(Steps(b)) /\ DOMAIN Plan(b) = 1..Len(Plan(b)) /\ Len(Plan(b)) \in Nat
    BY <2>1, PlanIs
  <2>3. At(p) \in DOMAIN Plan(b)
    BY <1>0, <1>1, <2>1, <2>2 DEF HasStep
  <2> QED
    BY <1>0, <2>1, <2>2, <2>3 DEF StepOf
<1>4. made.key = step.key /\ made.kind = step.kind /\ made.refs = refs
  BY <1>0
<1>5. (\A n \in step.needs : refs[n] # None) => RefersWell(b, step, refs)
  BY <1>0, <1>3, RefersFiled
<1>6. \/ Stop(p) /\ UNCHANGED rows
      \/ /\ \A n \in step.needs : refs[n] # None
         /\ Holding(step) = {} /\ rows' = Append(rows, made) /\ GoOn(p, step.key)
      \/ /\ \A n \in step.needs : refs[n] # None
         /\ \E i \in Holding(step) : rows[i] = made /\ GoOn(p, step.key)
         /\ UNCHANGED rows
  BY <1>0 DEF Child
<1>7. CASE Stop(p) /\ UNCHANGED rows
  BY <1>1, <1>7, StopStep DEF PromotionInv
<1>8. CASE /\ \A n \in step.needs : refs[n] # None
           /\ Holding(step) = {} /\ rows' = Append(rows, made) /\ GoOn(p, step.key)
  <2>1. PICK S : rows \in Seq(S)
    BY <1>2 DEF IsSequence
  <2>2. rows \in Seq(S \cup {made}) /\ made \in S \cup {made}
    BY <2>1
  <2> DEFINE T == S \cup {made}
             new == Len(rows) + 1
  <2> HIDE DEF T
  <2>3. /\ rows' \in Seq(T) /\ DOMAIN rows' = DOMAIN rows \cup {new} /\ rows'[new] = made
        /\ new \notin DOMAIN rows /\ \A i \in DOMAIN rows : rows'[i] = rows[i]
    BY <1>8, <2>2 DEF T
  <2> HIDE DEF new
  <2>4. RowsGrow /\ IsSequence(rows)'
    BY <2>3 DEF RowsGrow, IsSequence
  <2>5. KeysAreUsedOnce'
    <3>1. \A i \in DOMAIN rows : ~(rows[i].key = made.key /\ rows[i].kind = made.kind)
      BY <1>4, <1>8 DEF Holding
    <3> QED
      BY <1>2, <2>3, <3>1 DEF KeysAreUsedOnce
  <2>6. Landed(b, step)'
    <3>1. new \in Holding(step)' /\ rows'[new].refs = refs
      BY <1>4, <2>3 DEF Holding
    <3> QED
      BY <1>5, <1>8, <3>1 DEF Landed
  <2> QED
    BY <1>1, <1>0, <1>8, <2>4, <2>5, <2>6, GoOnStep
<1>9. CASE /\ \A n \in step.needs : refs[n] # None
           /\ \E i \in Holding(step) : rows[i] = made /\ GoOn(p, step.key)
           /\ UNCHANGED rows
  <2>1. PICK i \in Holding(step) : rows[i] = made /\ GoOn(p, step.key)
    BY <1>9
  <2>2. RowsGrow /\ IsSequence(rows)' /\ KeysAreUsedOnce'
    BY <1>2, <1>9 DEF RowsGrow, IsSequence, KeysAreUsedOnce
  <2>3. Landed(b, step)'
    <3>1. i \in Holding(step)' /\ rows'[i].refs = refs
      BY <1>4, <1>9, <2>1 DEF Holding
    <3> QED
      BY <1>5, <1>9, <3>1 DEF Landed
  <2> QED
    BY <1>1, <1>0, <2>1, <2>2, <2>3, GoOnStep
<1> QED
  BY <1>6, <1>7, <1>8, <1>9

LEMMA PromoteStep ==
    ASSUME PromotionInv, NEW p \in Promoters, NEW b \in Bundles, Promote(p, b)
    PROVE  PromotionInv'
<1> DEFINE begun == [bundle |-> b, step |-> 1, ids |-> GivenIds(b)]
<1>1. promoting' = [promoting EXCEPT ![p] = begun] /\ DOMAIN promoting = Promoters /\ UNCHANGED <<rows, promoted>>
  BY DEF Promote, PromotionInv
<1>2. begun.bundle = b /\ begun.step = 1 /\ begun.ids = GivenIds(b)
  OBVIOUS
<1> HIDE DEF begun
<1>3. /\ DOMAIN promoting' = Promoters /\ promoting'[p] = begun
      /\ \A q \in Promoters : q # p => promoting'[q] = promoting[q]
  BY <1>1
<1>4. RowsGrow
  BY <1>1 DEF RowsGrow
<1>5. OnItsWay(p)'
  <2>1. promoting'[p].bundle = b /\ At(p)' = 1 /\ promoting'[p].ids = GivenIds(b)
    BY <1>2, <1>3 DEF At
  <2>2. \A n \in DOMAIN Plan(b) : ~(n < 1)
    <3>1. DOMAIN Plan(b) = 1..Len(Plan(b)) /\ Len(Plan(b)) \in Nat
      BY PlanIs
    <3> QED
      BY <3>1
  <2> QED
    BY <2>1, <2>2, GivenFiled DEF OnItsWay
<1>6. \A q \in Promoters : promoting'[q] # None => OnItsWay(q)'
  BY <1>3, <1>4, <1>5, Elsewhere
<1>7. IsSequence(rows)' /\ KeysAreUsedOnce'
  BY <1>1 DEF PromotionInv, IsSequence, KeysAreUsedOnce
<1>8. \A c \in promoted' : c \in Bundles /\ \A n \in DOMAIN Plan(c) : Landed(c, Plan(c)[n])'
  BY <1>1, <1>4, LandedStays DEF PromotionInv
<1> QED
  BY <1>3, <1>6, <1>7, <1>8 DEF PromotionInv

LEMMA FinishedStep ==
    ASSUME PromotionInv, NEW p \in Promoters, Finished(p)
    PROVE  PromotionInv'
<1> DEFINE b == promoting[p].bundle
<1>1. promoting[p] # None /\ ~HasStep(p) /\ promoted' = promoted \cup {b} /\ Stop(p) /\ UNCHANGED rows
  BY DEF Finished
<1>2. b \in Bundles /\ At(p) \in Nat \ {0} /\ \A n \in DOMAIN Plan(b) : n < At(p) => Landed(b, Plan(b)[n])
  BY <1>1 DEF PromotionInv, OnItsWay
<1>3. \A n \in DOMAIN Plan(b) : n < At(p)
  <2>1. DOMAIN Plan(b) = 1..Len(Plan(b)) /\ Len(Plan(b)) \in Nat
    BY <1>2, PlanIs
  <2> QED
    BY <1>1, <1>2, <2>1 DEF HasStep
<1>4. \A c \in promoted' : c \in Bundles /\ \A n \in DOMAIN Plan(c) : Landed(c, Plan(c)[n])
  BY <1>1, <1>2, <1>3 DEF PromotionInv
<1> QED
  BY <1>1, <1>4, StopStep

LEMMA PromotionStep ==
    ASSUME PlainParents, PromotionInv, [PromotionNext]_promotionVars
    PROVE  PromotionInv'
<1>1. ASSUME NEW p \in Promoters, Interrupted(p) PROVE PromotionInv'
  BY <1>1, StopStep DEF Interrupted, PromotionInv
<1>2. ASSUME UNCHANGED promotionVars PROVE PromotionInv'
  BY <1>2 DEF promotionVars, PromotionInv, IsSequence, KeysAreUsedOnce, OnItsWay, At, Landed, Holding
<1>3. \A p \in Promoters : Child(p) => PromotionInv'
  BY ChildStep
<1>4. \A p \in Promoters : Finished(p) => PromotionInv'
  BY FinishedStep
<1>5. \A p \in Promoters, b \in Bundles : Promote(p, b) => PromotionInv'
  BY PromoteStep
<1> QED
  BY <1>1, <1>2, <1>3, <1>4, <1>5 DEF PromotionNext

\* However many processes promote a bundle, stop in between and promote it again: once it is
\* answered ok, each step of its plan has one row, which refers to the rows of this bundle, and
\* each attachment joins its own source to its own target.  The key that the caller picks
\* must not have a segment "source": _source_idx_from_key would read its number from there.
THEOREM BundlesAreWhole == PlainParents => (PromotionSpec => []BundleIsWhole)
<1> SUFFICES ASSUME PlainParents PROVE PromotionSpec => []BundleIsWhole
  OBVIOUS
<1>1. PromotionInv => BundleIsWhole
  <2> SUFFICES ASSUME PromotionInv, NEW b \in promoted
               PROVE  /\ \A n \in DOMAIN Plan(b) :
                          /\ Cardinality(Holding(Plan(b)[n])) = 1
                          /\ \A r \in Holding(Plan(b)[n]), kind \in Plan(b)[n].needs \ {"source"} :
                               rows[r].refs[kind] = RowOf(b, kind)
                      /\ \A i \in DOMAIN b.sources, target \in TargetsOf(b) :
                          \E r \in DOMAIN rows : rows[r].key = b.parent \o <<"source", Index(i), "attach", target>>
                                                 /\ rows[r].refs["source"] = SourceRow(b, i)
    BY DEF BundleIsWhole, TargetsOf
  <2>1. b \in Bundles /\ \A n \in DOMAIN Plan(b) : Landed(b, Plan(b)[n])
    BY DEF PromotionInv
  <2>2. ASSUME NEW n \in DOMAIN Plan(b)
        PROVE  /\ Cardinality(Holding(Plan(b)[n])) = 1
               /\ \A r \in Holding(Plan(b)[n]), kind \in Plan(b)[n].needs \ {"source"} :
                    rows[r].refs[kind] = RowOf(b, kind)
    <3>1. PICK r \in Holding(Plan(b)[n]) : RefersWell(b, Plan(b)[n], rows[r].refs)
      BY <2>1 DEF Landed
    <3>2. Holding(Plan(b)[n]) = {r}
      BY DEF Holding, PromotionInv, KeysAreUsedOnce
    <3>3. Cardinality({r}) = 1
      BY FS_Singleton
    <3> QED
      BY <3>1, <3>2, <3>3 DEF RefersWell
  <2>3. ASSUME NEW i \in DOMAIN b.sources, NEW target \in TargetsOf(b)
        PROVE  \E r \in DOMAIN rows : rows[r].key = b.parent \o <<"source", Index(i), "attach", target>>
                                      /\ rows[r].refs["source"] = SourceRow(b, i)
    <3> DEFINE step == Step("edge", AttachKey(b, i, target), {"source", target})
    <3>1. PICK n \in DOMAIN Plan(b) : Plan(b)[n] = step
      BY <2>1, PlanIs DEF Has
    <3>2. step.kind = "edge" /\ step.key = AttachKey(b, i, target)
      BY DEF Step
    <3> HIDE DEF step
    <3>3. PICK r \in Holding(step) : RefersWell(b, step, rows[r].refs)
      BY <2>1, <3>1 DEF Landed
    <3>4. r \in DOMAIN rows /\ rows[r].key = AttachKey(b, i, target)
      BY <3>2 DEF Holding
    <3>5. rows[r].refs["source"] = SourceRow(b, i)
      BY <3>2, <3>3 DEF RefersWell
    <3> QED
      BY <3>4, <3>5 DEF AttachKey
  <2> QED
    BY <2>2, <2>3
<1> QED
  BY <1>1, InitPromotionInv, PromotionStep, PTL DEF PromotionSpec

-----------------------------------------------------------------------------
(* Arcs.  The calls of a plan. *)

LEMMA FieldsAre ==
    \A kind, uses, name :
        /\ Adds(kind, uses).makes = kind /\ Adds(kind, uses).uses = uses /\ Adds(kind, uses).name = kind
        /\ Attaches(kind, name).makes = "edge" /\ Attaches(kind, name).uses = {"source", kind}
        /\ Attaches(kind, name).name = name
BY DEF Adds, Attaches

LEMMA TableIs ==
    /\ DOMAIN OrderedCalls = 1..11
    /\ OrderedCalls[1] = Adds("venue", {}) /\ OrderedCalls[2] = Adds("instrument", {"venue"})
    /\ OrderedCalls[3] = Adds("snapshot", {"instrument"}) /\ OrderedCalls[4] = Adds("source", {})
    /\ OrderedCalls[5] = Adds("thesis", {"instrument"}) /\ OrderedCalls[6] = Attaches("thesis", "source-thesis")
    /\ OrderedCalls[7] = Adds("forecast", {"thesis"}) /\ OrderedCalls[8] = Attaches("forecast", "source-forecast")
    /\ OrderedCalls[9] = Adds("decision", {"instrument", "thesis", "snapshot", "forecast"})
    /\ OrderedCalls[10] = Attaches("decision", "source-decision")
    /\ OrderedCalls[11] = Adds("memory_node", {"decision"})
BY DEF OrderedCalls

LEMMA MakesAre ==
    /\ OrderedCalls[1].makes = "venue" /\ OrderedCalls[2].makes = "instrument" /\ OrderedCalls[3].makes = "snapshot"
    /\ OrderedCalls[4].makes = "source" /\ OrderedCalls[5].makes = "thesis" /\ OrderedCalls[6].makes = "edge"
    /\ OrderedCalls[7].makes = "forecast" /\ OrderedCalls[8].makes = "edge" /\ OrderedCalls[9].makes = "decision"
    /\ OrderedCalls[10].makes = "edge" /\ OrderedCalls[11].makes = "memory_node"
BY TableIs, FieldsAre

LEMMA UsesAre ==
    /\ OrderedCalls[1].uses = {} /\ OrderedCalls[2].uses = {"venue"} /\ OrderedCalls[3].uses = {"instrument"}
    /\ OrderedCalls[4].uses = {} /\ OrderedCalls[5].uses = {"instrument"} /\ OrderedCalls[6].uses = {"source", "thesis"}
    /\ OrderedCalls[7].uses = {"thesis"} /\ OrderedCalls[8].uses = {"source", "forecast"}
    /\ OrderedCalls[9].uses = {"instrument", "thesis", "snapshot", "forecast"}
    /\ OrderedCalls[10].uses = {"source", "decision"} /\ OrderedCalls[11].uses = {"decision"}
BY TableIs, FieldsAre

LEMMA NamesAre ==
    /\ OrderedCalls[1].name = "venue" /\ OrderedCalls[2].name = "instrument" /\ OrderedCalls[3].name = "snapshot"
    /\ OrderedCalls[4].name = "source" /\ OrderedCalls[5].name = "thesis" /\ OrderedCalls[6].name = "source-thesis"
    /\ OrderedCalls[7].name = "forecast" /\ OrderedCalls[8].name = "source-forecast" /\ OrderedCalls[9].name = "decision"
    /\ OrderedCalls[10].name = "source-decision" /\ OrderedCalls[11].name = "memory_node"
BY TableIs, FieldsAre

LEMMA ElevenAre ==
    \A n \in 1..11 : \/ n = 1 \/ n = 2 \/ n = 3 \/ n = 4 \/ n = 5 \/ n = 6
                     \/ n = 7 \/ n = 8 \/ n = 9 \/ n = 10 \/ n = 11
OBVIOUS

\* A step uses what earlier ones make, and each has a name of its own.
LEMMA StepsAre ==
    /\ \A n \in DOMAIN OrderedCalls : n \in 1..11
    /\ \A n \in DOMAIN OrderedCalls : OrderedCalls[n].makes \in RowKinds \cup {"edge"} /\ OrderedCalls[n].uses \subseteq RowKinds
    /\ \A n \in DOMAIN OrderedCalls : \A u \in OrderedCalls[n].uses :
         \E m \in DOMAIN OrderedCalls : m < n /\ OrderedCalls[m].makes = u
    /\ \A n \in DOMAIN OrderedCalls : IF OrderedCalls[n].makes = "edge" THEN OrderedCalls[n].name \notin RowKinds
                                      ELSE OrderedCalls[n].name = OrderedCalls[n].makes
    /\ \A n, m \in DOMAIN OrderedCalls : OrderedCalls[n].name = OrderedCalls[m].name => n = m
    /\ \A k \in RowKinds : \E n \in DOMAIN OrderedCalls : OrderedCalls[n].makes = k
    /\ "edge" \notin RowKinds
<1>1. DOMAIN OrderedCalls = 1..11
  BY TableIs
<1>2. \A n \in 1..11 : OrderedCalls[n].makes \in RowKinds \cup {"edge"}
  BY ElevenAre, MakesAre DEF RowKinds
<1>3. \A n \in 1..11 : OrderedCalls[n].uses \subseteq RowKinds
  BY ElevenAre, UsesAre DEF RowKinds
<1>4. ASSUME NEW n \in 1..11, NEW u \in OrderedCalls[n].uses
      PROVE  \E m \in 1..11 : m < n /\ OrderedCalls[m].makes = u
  <2>1. CASE u = "venue"
    <3>1. 1 < n
      BY <2>1, ElevenAre, UsesAre
    <3> QED
      BY <2>1, <3>1, MakesAre
  <2>2. CASE u = "instrument"
    <3>1. 2 < n
      BY <2>2, ElevenAre, UsesAre
    <3> QED
      BY <2>2, <3>1, MakesAre
  <2>3. CASE u = "snapshot"
    <3>1. 3 < n
      BY <2>3, ElevenAre, UsesAre
    <3> QED
      BY <2>3, <3>1, MakesAre
  <2>4. CASE u = "source"
    <3>1. 4 < n
      BY <2>4, ElevenAre, UsesAre
    <3> QED
      BY <2>4, <3>1, MakesAre
  <2>5. CASE u = "thesis"
    <3>1. 5 < n
      BY <2>5, ElevenAre, UsesAre
    <3> QED
      BY <2>5, <3>1, MakesAre
  <2>6. CASE u = "forecast"
    <3>1. 7 < n
      BY <2>6, ElevenAre, UsesAre
    <3> QED
      BY <2>6, <3>1, MakesAre
  <2>7. CASE u = "decision"
    <3>1. 9 < n
      BY <2>7, ElevenAre, UsesAre
    <3> QED
      BY <2>7, <3>1, MakesAre
  <2> QED
    BY <2>1, <2>2, <2>3, <2>4, <2>5, <2>6, <2>7, ElevenAre, UsesAre
<1>5. \A n \in 1..11 : IF OrderedCalls[n].makes = "edge" THEN OrderedCalls[n].name \notin RowKinds
                       ELSE OrderedCalls[n].name = OrderedCalls[n].makes
  BY ElevenAre, MakesAre, NamesAre DEF RowKinds
<1>6. \A n, m \in 1..11 : OrderedCalls[n].name = OrderedCalls[m].name => n = m
  BY ElevenAre, NamesAre
<1>7. \A k \in RowKinds : \E n \in 1..11 : OrderedCalls[n].makes = k
  BY MakesAre DEF RowKinds
<1>8. "edge" \notin RowKinds
  BY DEF RowKinds
<1> QED
  BY <1>1, <1>2, <1>3, <1>4, <1>5, <1>6, <1>7, <1>8

-----------------------------------------------------------------------------
(* The inductive invariant of arcs. *)

\* Row i is what an order means by a kind: what was supplied, or the row under its key.
KnownAs(o, k, i) ==
    IF o.ids[k] # 0 THEN i = o.ids[k]
    ELSE i \in DOMAIN journal /\ journal[i].kind = k /\ journal[i].key = <<o.prefix, k>>

\* The row of a step of an order's plan, whoever makes it.
IsMade(o, n, entry) ==
    \E ids : /\ \A u \in OrderedCalls[n].uses : KnownAs(o, u, ids[u])
             /\ entry = Called([order |-> o, ids |-> ids], n)
IsReflection(o, entry) == entry.kind = "edge" /\ entry.key = <<o.prefix, "memory_node">>

RowsAre ==
    \A i \in DOMAIN journal :
        \/ i \in DOMAIN Market
        \/ \E o \in Orders : (\E n \in DOMAIN OrderedCalls : IsMade(o, n, journal[i])) \/ IsReflection(o, journal[i])
RowsOnce ==
    \A i, j \in DOMAIN journal :
        i \notin DOMAIN Market /\ journal[i].kind # "edge"
        /\ journal[i].kind = journal[j].kind /\ journal[i].key = journal[j].key => i = j
HasEdge(ends) == \E e \in DOMAIN journal : journal[e].kind = "edge" /\ journal[e].refs = ends
NotesAreLinked ==
    \A i \in DOMAIN journal \ DOMAIN Market :
        journal[i].kind = "memory_node" => HasEdge(journal[i].refs \cup {i})
JournalIs ==
    /\ IsSequence(journal)
    /\ \A i \in DOMAIN Market : i \in DOMAIN journal /\ journal[i] = Market[i]
    /\ \A i \in DOMAIN journal : journal[i].refs \subseteq DOMAIN journal
    /\ RowsAre /\ RowsOnce /\ NotesAreLinked

\* A step that a planner has behind it.
HasTaken(p, n) ==
    LET step == OrderedCalls[n]
    IN IF step.makes = "edge" THEN (\A u \in step.uses : p.ids[u] # 0) /\ HasEdge({p.ids[u] : u \in step.uses})
       ELSE p.ids[step.makes] # 0
KnowsRightly(p) ==
    \A k \in RowKinds : /\ p.order.ids[k] # 0 => p.ids[k] = p.order.ids[k]
                        /\ p.ids[k] # 0 => KnownAs(p.order, k, p.ids[k])
OnPlan(p) ==
    /\ p.order \in Orders /\ p.next \in Nat \ {0} /\ DOMAIN p.ids = RowKinds /\ ~p.refused
    /\ KnowsRightly(p)
    /\ \A n \in DOMAIN OrderedCalls : n < p.next => HasTaken(p, n)

ArcsInv ==
    /\ JournalIs
    /\ DOMAIN planner = Planners
    /\ \A a \in Planners : \A p : p = planner[a] => p = NoOne \/ OnPlan(p)

-----------------------------------------------------------------------------
(* What grows stays. *)

JournalGrows == \A i \in DOMAIN journal : i \in DOMAIN journal' /\ journal'[i] = journal[i]

LEMMA OrderIs ==
    ASSUME NEW o \in Orders
    PROVE  /\ DOMAIN o.ids = RowKinds
           /\ \A k \in RowKinds : o.ids[k] \in Nat
BY ArcsAssumption DEF Order

LEMMA KnownStays == ASSUME JournalGrows PROVE \A o, k, i : KnownAs(o, k, i) => KnownAs(o, k, i)'
BY DEF JournalGrows, KnownAs

LEMMA EdgesStay == ASSUME JournalGrows PROVE \A ends : HasEdge(ends) => HasEdge(ends)'
BY DEF JournalGrows, HasEdge

LEMMA PlanStays == ASSUME JournalGrows PROVE \A p : OnPlan(p) => OnPlan(p)'
<1> SUFFICES ASSUME NEW p, OnPlan(p) PROVE OnPlan(p)'
  OBVIOUS
<1>1. KnowsRightly(p)'
  BY KnownStays DEF OnPlan, KnowsRightly
<1>2. \A n : HasTaken(p, n) => HasTaken(p, n)'
  BY EdgesStay DEF HasTaken
<1> QED
  BY <1>1, <1>2 DEF OnPlan

LEMMA MadeStays ==
    ASSUME JournalGrows
    PROVE  \A o, n, entry : IsMade(o, n, entry) => IsMade(o, n, entry)'
<1> SUFFICES ASSUME NEW o, NEW n, NEW entry, IsMade(o, n, entry) PROVE IsMade(o, n, entry)'
  OBVIOUS
<1>1. PICK ids : /\ \A u \in OrderedCalls[n].uses : KnownAs(o, u, ids[u])
                 /\ entry = Called([order |-> o, ids |-> ids], n)
  BY DEF IsMade
<1>2. \A u \in OrderedCalls[n].uses : KnownAs(o, u, ids[u])'
  BY <1>1, KnownStays
<1> QED
  BY <1>1, <1>2 DEF IsMade

LEMMA RowIs ==
    ASSUME NEW p, NEW n
    PROVE  /\ Called(p, n).kind = OrderedCalls[n].makes
           /\ Called(p, n).key = <<p.order.prefix, OrderedCalls[n].name>>
           /\ Called(p, n).refs = {p.ids[u] : u \in OrderedCalls[n].uses}
           /\ \A q : q.order = p.order /\ (\A u \in OrderedCalls[n].uses : p.ids[u] = q.ids[u]) => Called(p, n) = Called(q, n)
<1>1. /\ Called(p, n).kind = OrderedCalls[n].makes
      /\ Called(p, n).key = <<p.order.prefix, OrderedCalls[n].name>>
      /\ Called(p, n).refs = {p.ids[u] : u \in OrderedCalls[n].uses}
  BY DEF Called, StepKey
<1>2. ASSUME NEW q, q.order = p.order, \A u \in OrderedCalls[n].uses : p.ids[u] = q.ids[u]
      PROVE  Called(p, n) = Called(q, n)
  <2>1. {p.ids[u] : u \in OrderedCalls[n].uses} = {q.ids[u] : u \in OrderedCalls[n].uses}
    BY <1>2
  <2> QED
    BY <1>2, <2>1 DEF Called
<1> QED
  BY <1>1, <1>2

LEMMA KeysDiffer ==
    ASSUME NEW a, NEW b, NEW c, NEW d, <<a, b>> = <<c, d>>
    PROVE  a = c /\ b = d
<1>1. <<a, b>>[1] = a /\ <<a, b>>[2] = b /\ <<c, d>>[1] = c /\ <<c, d>>[2] = d
  OBVIOUS
<1> QED
  BY <1>1

\* A row under a key of an order's plan is not of the market, and is what its key says.
LEMMA UnderKey ==
    ASSUME PlansFit, JournalIs, NEW o \in Orders, NEW n \in DOMAIN OrderedCalls, NEW i \in DOMAIN journal,
           journal[i].kind = OrderedCalls[n].makes, journal[i].key = <<o.prefix, OrderedCalls[n].name>>
    PROVE  i \notin DOMAIN Market /\ IsMade(o, n, journal[i])
<1>1. i \notin DOMAIN Market
  <2>1. journal[i].key[1] = o.prefix
    OBVIOUS
  <2> QED
    BY <2>1 DEF PlansFit, JournalIs
<1>2. PICK c \in Orders : (\E m \in DOMAIN OrderedCalls : IsMade(c, m, journal[i])) \/ IsReflection(c, journal[i])
  BY <1>1 DEF JournalIs, RowsAre
<1>3. ~IsReflection(c, journal[i])
  <2>1. SUFFICES ASSUME IsReflection(c, journal[i]) PROVE FALSE
    OBVIOUS
  <2>2. OrderedCalls[n].makes = "edge" /\ <<c.prefix, "memory_node">> = <<o.prefix, OrderedCalls[n].name>>
    BY <2>1 DEF IsReflection
  <2>3. OrderedCalls[n].name = "memory_node"
    BY <2>2, KeysDiffer
  <2> QED
    BY <2>2, <2>3, StepsAre DEF RowKinds
<1>4. PICK m \in DOMAIN OrderedCalls : IsMade(c, m, journal[i])
  BY <1>2, <1>3
<1>5. journal[i].key = <<c.prefix, OrderedCalls[m].name>>
  BY <1>4, RowIs DEF IsMade
<1>6. c.prefix = o.prefix /\ OrderedCalls[m].name = OrderedCalls[n].name
  BY <1>5, KeysDiffer
<1>7. c = o /\ m = n
  BY <1>6, StepsAre DEF PlansFit
<1> QED
  BY <1>1, <1>4, <1>7

\* An order knows one row of each kind.
LEMMA KnownOnce ==
    ASSUME PlansFit, JournalIs, NEW o \in Orders, NEW k \in RowKinds, NEW i, NEW j, KnownAs(o, k, i), KnownAs(o, k, j)
    PROVE  i = j
<1>1. CASE o.ids[k] # 0
  BY <1>1 DEF KnownAs
<1>2. CASE o.ids[k] = 0
  <2>1. i \in DOMAIN journal /\ j \in DOMAIN journal /\ journal[i].kind = k /\ journal[j].kind = k
        /\ journal[i].key = <<o.prefix, k>> /\ journal[j].key = <<o.prefix, k>>
    BY <1>2 DEF KnownAs
  <2>2. PICK n \in DOMAIN OrderedCalls : OrderedCalls[n].makes = k
    BY StepsAre
  <2>3. k # "edge" /\ OrderedCalls[n].name = k
    BY <2>2, StepsAre
  <2>4. i \notin DOMAIN Market
    BY <2>1, <2>2, <2>3, UnderKey
  <2> QED
    BY <2>1, <2>3, <2>4 DEF JournalIs, RowsOnce
<1> QED
  BY <1>1, <1>2

LEMMA KnownIs ==
    ASSUME PlansFit, JournalIs, NEW o \in Orders, NEW k \in RowKinds, NEW i, KnownAs(o, k, i)
    PROVE  i \in DOMAIN journal /\ journal[i].kind = k /\ i # 0
<1>1. i \in DOMAIN journal /\ journal[i].kind = k
  BY DEF KnownAs, PlansFit, JournalIs
<1>2. 0 \notin DOMAIN journal
  BY DEF JournalIs, IsSequence
<1> QED
  BY <1>1, <1>2

-----------------------------------------------------------------------------
(* Each step keeps the invariant. *)

LEMMA ArcsStart == PlansFit /\ ArcsInit => ArcsInv
<1> SUFFICES ASSUME PlansFit, ArcsInit PROVE ArcsInv
  OBVIOUS
<1>1. journal = Market /\ planner = [a \in Planners |-> NoOne]
  BY DEF ArcsInit
<1>2. IsSequence(journal)
  BY <1>1, ArcsAssumption DEF IsSequence
<1>3. \A i \in DOMAIN journal : journal[i].refs \subseteq DOMAIN journal
  BY <1>1 DEF PlansFit
<1>4. JournalIs
  BY <1>1, <1>2, <1>3 DEF JournalIs, RowsAre, RowsOnce, NotesAreLinked
<1> QED
  BY <1>1, <1>4 DEF ArcsInv

LEMMA PlannerMoves ==
    ASSUME ArcsInv, JournalIs', JournalGrows, NEW a \in Planners, NEW q, OnPlan(q)',
           planner' = [planner EXCEPT ![a] = q]
    PROVE  ArcsInv'
<1>1. \A b \in Planners : b # a => planner'[b] = planner[b]
  BY DEF ArcsInv
<1>2. planner'[a] = q /\ DOMAIN planner' = Planners
  BY DEF ArcsInv
<1>3. ASSUME NEW b \in Planners, NEW p, p = planner'[b] PROVE p = NoOne \/ OnPlan(p)'
  BY <1>1, <1>2, <1>3, PlanStays DEF ArcsInv
<1> QED
  BY <1>2, <1>3 DEF ArcsInv

LEMMA Standing ==
    ASSUME JournalIs, journal' = journal
    PROVE  JournalIs' /\ JournalGrows
<1>1. JournalGrows
  BY DEF JournalGrows
<1>2. RowsAre'
  BY <1>1, MadeStays DEF JournalIs, RowsAre
<1>3. RowsOnce' /\ NotesAreLinked' /\ IsSequence(journal)'
  BY <1>1, EdgesStay DEF JournalIs, RowsOnce, NotesAreLinked, IsSequence
<1> QED
  BY <1>1, <1>2, <1>3 DEF JournalIs

LEMMA FreshPlan ==
    ASSUME NEW o \in Orders, NEW q, q.order = o, q.ids = o.ids, q.next = 1, ~q.refused
    PROVE  OnPlan(q)
<1>1. KnowsRightly(q)
  BY DEF KnowsRightly, KnownAs
<1>2. \A n \in DOMAIN OrderedCalls : ~(n < 1)
  BY StepsAre
<1> QED
  BY <1>1, <1>2, OrderIs DEF OnPlan

LEMMA BeginStep ==
    ASSUME ArcsInv, NEW a \in Planners, NEW o \in Orders, Begin(a, o)
    PROVE  ArcsInv'
<1> DEFINE q == [order |-> o, ids |-> o.ids, next |-> 1, refused |-> FALSE]
<1>1. planner' = [planner EXCEPT ![a] = q] /\ journal' = journal
  BY DEF Begin
<1>2. q.order = o /\ q.ids = o.ids /\ q.next = 1 /\ ~q.refused
  OBVIOUS
<1> HIDE DEF q
<1>3. JournalIs' /\ JournalGrows
  BY <1>1, Standing DEF ArcsInv
<1>4. OnPlan(q)'
  BY <1>2, <1>3, FreshPlan, PlanStays
<1> QED
  BY <1>1, <1>3, <1>4, PlannerMoves

LEMMA RestartStep ==
    ASSUME ArcsInv, NEW a \in Planners, DieAndRestart(a)
    PROVE  ArcsInv'
<1> DEFINE q == [[planner[a] EXCEPT !.ids = planner[a].order.ids] EXCEPT !.next = 1]
<1>1. planner[a] # NoOne /\ OnPlan(planner[a])
  <2>1. planner[a].next > 1 /\ NoOne.next = 0
    BY DEF DieAndRestart, NoOne
  <2> QED
    BY <2>1 DEF ArcsInv
<1>2. planner' = [planner EXCEPT ![a] = q] /\ journal' = journal
  BY DEF DieAndRestart, ArcsInv
<1>3. PICK z : z = q
  OBVIOUS
<1>4. z.order = planner[a].order /\ z.ids = planner[a].order.ids /\ z.next = 1 /\ ~z.refused
  BY <1>1, <1>3 DEF OnPlan
<1>5. JournalIs' /\ JournalGrows
  BY <1>2, Standing DEF ArcsInv
<1>6. OnPlan(z)
  BY <1>1, <1>4, FreshPlan DEF OnPlan
<1>7. OnPlan(z)'
  BY <1>5, <1>6, PlanStays
<1> QED
  BY <1>2, <1>3, <1>5, <1>7, PlannerMoves

LEMMA LongerBy ==
    ASSUME NEW s, IsSequence(s), NEW x, NEW y
    PROVE  /\ IsSequence(s \o <<x>>) /\ IsSequence(s \o <<x, y>>) /\ Len(s) \in Nat /\ DOMAIN s = 1..Len(s)
           /\ DOMAIN (s \o <<x>>) = DOMAIN s \cup {Len(s) + 1}
           /\ DOMAIN (s \o <<x, y>>) = DOMAIN s \cup {Len(s) + 1, Len(s) + 2}
           /\ \A i \in DOMAIN s : (s \o <<x>>)[i] = s[i] /\ (s \o <<x, y>>)[i] = s[i]
           /\ (s \o <<x>>)[Len(s) + 1] = x
           /\ (s \o <<x, y>>)[Len(s) + 1] = x /\ (s \o <<x, y>>)[Len(s) + 2] = y
<1>1. PICK S : s \in Seq(S)
  BY DEF IsSequence
<1>2. PICK T : T = S \cup {x, y}
  OBVIOUS
<1>3. s \in Seq(T) /\ <<x>> \in Seq(T) /\ <<x, y>> \in Seq(T)
  BY <1>1, <1>2
<1>4. Len(s) \in Nat /\ DOMAIN s = 1..Len(s)
  BY <1>1
<1>5. s \o <<x>> \in Seq(T) /\ s \o <<x, y>> \in Seq(T)
  BY <1>3
<1>6. /\ DOMAIN (s \o <<x>>) = 1..(Len(s) + 1) /\ (s \o <<x>>)[Len(s) + 1] = x
      /\ \A i \in 1..Len(s) : (s \o <<x>>)[i] = s[i]
  BY <1>3
<1>7. /\ DOMAIN (s \o <<x, y>>) = 1..(Len(s) + 2)
      /\ (s \o <<x, y>>)[Len(s) + 1] = x /\ (s \o <<x, y>>)[Len(s) + 2] = y
      /\ \A i \in 1..Len(s) : (s \o <<x, y>>)[i] = s[i]
  BY <1>3
<1>8. 1..(Len(s) + 1) = 1..Len(s) \cup {Len(s) + 1} /\ 1..(Len(s) + 2) = 1..Len(s) \cup {Len(s) + 1, Len(s) + 2}
  BY <1>4
<1> QED
  BY <1>4, <1>5, <1>6, <1>7, <1>8 DEF IsSequence

\* The rows that a step adds when its key is new.
Added(entry, id) == IF entry.kind = "memory_node" THEN <<entry, Reflected(entry, id)>> ELSE <<entry>>

LEMMA AddedRows ==
    ASSUME PlansFit, JournalIs, NEW o \in Orders, NEW n \in DOMAIN OrderedCalls, NEW entry, IsMade(o, n, entry),
           Keyed(entry) = {}, NEW id, id = Len(journal) + 1, journal' = journal \o Added(entry, id)
    PROVE  JournalIs' /\ JournalGrows /\ id \in DOMAIN journal' /\ journal'[id] = entry
<1> DEFINE note == Reflected(entry, id)
<1>1. PICK ids : /\ \A u \in OrderedCalls[n].uses : KnownAs(o, u, ids[u])
                 /\ entry = Called([order |-> o, ids |-> ids], n)
  BY DEF IsMade
<1>2. /\ entry.kind = OrderedCalls[n].makes /\ entry.key = <<o.prefix, OrderedCalls[n].name>>
      /\ entry.refs = {ids[u] : u \in OrderedCalls[n].uses}
  BY <1>1, RowIs
<1>3. entry.refs \subseteq DOMAIN journal
  <2>1. ASSUME NEW u \in OrderedCalls[n].uses PROVE ids[u] \in DOMAIN journal
    <3>1. u \in RowKinds
      BY StepsAre
    <3> QED
      BY <1>1, <3>1, KnownIs
  <2> QED
    BY <1>2, <2>1
<1>4. note.kind = "edge" /\ note.key = entry.key /\ note.refs = entry.refs \cup {id}
  <2>1. entry = [kind |-> entry.kind, key |-> entry.key, refs |-> entry.refs, type |-> entry.type]
    BY <1>1 DEF Called
  <2> QED
    BY <2>1 DEF Reflected
<1>5. IsSequence(journal)
  BY DEF JournalIs
<1>6. Len(journal) \in Nat /\ DOMAIN journal = 1..Len(journal) /\ id \notin DOMAIN journal /\ id + 1 \notin DOMAIN journal
  <2>1. Len(journal) \in Nat /\ DOMAIN journal = 1..Len(journal)
    BY <1>5, LongerBy
  <2> QED
    BY <2>1
<1> HIDE DEF note
<1>7. /\ IsSequence(journal') /\ id \in DOMAIN journal' /\ journal'[id] = entry
      /\ \A i \in DOMAIN journal : i \in DOMAIN journal' /\ journal'[i] = journal[i]
      /\ \A i \in DOMAIN journal' : \/ i \in DOMAIN journal \/ i = id
                                    \/ entry.kind = "memory_node" /\ i = id + 1 /\ journal'[i] = note
      /\ entry.kind = "memory_node" => id + 1 \in DOMAIN journal' /\ journal'[id + 1] = note
  <2>1. CASE entry.kind = "memory_node"
    <3>1. journal' = journal \o <<entry, note>> /\ id + 1 = Len(journal) + 2
      BY <1>6, <2>1 DEF Added, note
    <3>2. IsSequence(journal \o <<entry, note>>)
      BY <1>5, LongerBy
    <3>3. DOMAIN (journal \o <<entry, note>>) = DOMAIN journal \cup {id, id + 1}
      BY <1>5, <3>1, LongerBy
    <3>4. \A i \in DOMAIN journal : (journal \o <<entry, note>>)[i] = journal[i]
      BY <1>5, LongerBy
    <3>5. (journal \o <<entry, note>>)[id] = entry /\ (journal \o <<entry, note>>)[id + 1] = note
      BY <1>5, <3>1, LongerBy
    <3>6. /\ IsSequence(journal') /\ DOMAIN journal' = DOMAIN journal \cup {id, id + 1}
          /\ \A i \in DOMAIN journal : journal'[i] = journal[i]
          /\ journal'[id] = entry /\ journal'[id + 1] = note
      BY <3>1, <3>2, <3>3, <3>4, <3>5, Zenon
    <3> QED
      BY <2>1, <3>6, Zenon
  <2>2. CASE entry.kind # "memory_node"
    <3>1. journal' = journal \o <<entry>>
      BY <2>2 DEF Added
    <3>2. IsSequence(journal \o <<entry>>)
      BY <1>5, LongerBy
    <3>3. DOMAIN (journal \o <<entry>>) = DOMAIN journal \cup {id}
      BY <1>5, LongerBy
    <3>4. \A i \in DOMAIN journal : (journal \o <<entry>>)[i] = journal[i]
      BY <1>5, LongerBy
    <3>5. (journal \o <<entry>>)[id] = entry
      BY <1>5, LongerBy
    <3>6. /\ IsSequence(journal') /\ DOMAIN journal' = DOMAIN journal \cup {id}
          /\ \A i \in DOMAIN journal : journal'[i] = journal[i]
          /\ journal'[id] = entry
      BY <3>1, <3>2, <3>3, <3>4, <3>5, Zenon
    <3> QED
      BY <2>2, <3>6, Zenon
  <2> QED
    BY <2>1, <2>2
<1>8. JournalGrows
  BY <1>7 DEF JournalGrows
<1>9. \A i \in DOMAIN Market : i \in DOMAIN journal' /\ journal'[i] = Market[i]
  BY <1>7 DEF JournalIs
<1>10. \A i \in DOMAIN journal' : journal'[i].refs \subseteq DOMAIN journal'
  BY <1>3, <1>4, <1>7 DEF JournalIs
<1>11. RowsAre'
  <2> SUFFICES ASSUME NEW i \in DOMAIN journal', i \notin DOMAIN Market, NEW r, r = journal'[i]
               PROVE  \E c \in Orders : (\E m \in DOMAIN OrderedCalls : IsMade(c, m, r)') \/ IsReflection(c, r)
    BY DEF RowsAre
  <2>1. CASE i \in DOMAIN journal
    <3>1. PICK c \in Orders : (\E m \in DOMAIN OrderedCalls : IsMade(c, m, r)) \/ IsReflection(c, r)
      BY <1>7, <2>1 DEF JournalIs, RowsAre
    <3> QED
      BY <1>8, <3>1, MadeStays
  <2>2. CASE i = id
    BY <1>7, <1>8, <2>2, MadeStays
  <2>3. CASE entry.kind = "memory_node" /\ r = note
    <3>1. OrderedCalls[n].name = "memory_node"
      BY <1>2, <2>3, StepsAre
    <3> QED
      BY <1>2, <1>4, <2>3, <3>1 DEF IsReflection
  <2> QED
    BY <1>7, <2>1, <2>2, <2>3
<1>12. RowsOnce'
  <2> SUFFICES ASSUME NEW i \in DOMAIN journal', NEW j \in DOMAIN journal', i \notin DOMAIN Market,
                      journal'[i].kind # "edge", journal'[i].kind = journal'[j].kind, journal'[i].key = journal'[j].key
               PROVE  i = j
    BY DEF RowsOnce
  <2>1. (i \in DOMAIN journal \/ i = id) /\ (j \in DOMAIN journal \/ j = id)
    BY <1>4, <1>7
  <2>2. \A k \in DOMAIN journal : ~(journal[k].kind = entry.kind /\ journal[k].key = entry.key)
    BY DEF Keyed
  <2> QED
    BY <1>7, <2>1, <2>2 DEF JournalIs, RowsOnce
<1>13. NotesAreLinked'
  <2> SUFFICES ASSUME NEW i \in DOMAIN journal' \ DOMAIN Market, journal'[i].kind = "memory_node",
                      NEW ends, ends = journal'[i].refs \cup {i}
               PROVE  HasEdge(ends)'
    BY DEF NotesAreLinked
  <2>1. CASE i \in DOMAIN journal
    <3>1. HasEdge(ends)
      BY <1>7, <2>1 DEF JournalIs, NotesAreLinked
    <3> QED
      BY <1>8, <3>1, EdgesStay
  <2>2. CASE i = id
    <3>1. journal'[id + 1].kind = "edge" /\ journal'[id + 1].refs = ends /\ id + 1 \in DOMAIN journal'
      BY <1>4, <1>7, <2>2
    <3> QED
      BY <3>1 DEF HasEdge
  <2>3. journal'[i] # note
    BY <1>4
  <2> QED
    BY <1>7, <2>1, <2>2, <2>3
<1> QED
  BY <1>7, <1>8, <1>9, <1>10, <1>11, <1>12, <1>13 DEF JournalIs

\* A planner at step n knows what the step uses, and goes on when it learns what it makes.
LEMMA Learns ==
    ASSUME PlansFit, JournalIs, NEW p, OnPlan(p), NEW n \in Due(p), \A m \in Due(p) : n <= m
    PROVE  /\ n \in DOMAIN OrderedCalls /\ IsMade(p.order, n, Called(p, n))
           /\ \A u \in OrderedCalls[n].uses : p.ids[u] # 0
           /\ \A m \in DOMAIN OrderedCalls : m < n => HasTaken(p, m)
           /\ OrderedCalls[n].makes # "edge" => p.ids[OrderedCalls[n].makes] = 0
<1>1. n \in DOMAIN OrderedCalls /\ p.next \in 1..n /\ ~Saved(p, n) /\ DOMAIN OrderedCalls \subseteq Nat
  BY StepsAre DEF Due
<1>2. ASSUME NEW m \in DOMAIN OrderedCalls, m < n PROVE HasTaken(p, m)
  <2>1. CASE m < p.next
    BY <2>1 DEF OnPlan
  <2>2. CASE ~(m < p.next)
    <3>1. p.next \in 1..m /\ m \notin Due(p)
      BY <1>1, <1>2, <2>2
    <3>2. Saved(p, m)
      BY <3>1 DEF Due
    <3> QED
      BY <3>2 DEF Saved, HasTaken
  <2> QED
    BY <2>1, <2>2
<1>3. ASSUME NEW u \in OrderedCalls[n].uses PROVE p.ids[u] # 0 /\ KnownAs(p.order, u, p.ids[u])
  <2>1. PICK m \in DOMAIN OrderedCalls : m < n /\ OrderedCalls[m].makes = u
    BY <1>1, StepsAre
  <2>2. u \in RowKinds /\ u # "edge"
    BY <1>1, StepsAre
  <2>3. p.ids[u] # 0
    BY <1>2, <2>1, <2>2 DEF HasTaken
  <2> QED
    BY <2>2, <2>3 DEF OnPlan, KnowsRightly
<1>4. IsMade(p.order, n, Called(p, n))
  <2>1. PICK q : q = [order |-> p.order, ids |-> p.ids]
    OBVIOUS
  <2>2. q.order = p.order /\ q.ids = p.ids
    BY <2>1
  <2>3. Called(p, n) = Called(q, n)
    BY <2>2, RowIs
  <2> QED
    BY <1>3, <2>1, <2>3 DEF IsMade
<1>5. OrderedCalls[n].makes # "edge" => p.ids[OrderedCalls[n].makes] = 0
  BY <1>1 DEF Saved
<1> QED
  BY <1>1, <1>2, <1>3, <1>4, <1>5

LEMMA GoesOn ==
    ASSUME PlansFit, JournalIs, NEW p, OnPlan(p), NEW n \in Due(p), \A m \in Due(p) : n <= m,
           JournalGrows, NEW id, id \in DOMAIN journal', id # 0, journal'[id] = Called(p, n),
           NEW q, q.order = p.order, q.next = n + 1, ~q.refused,
           IF OrderedCalls[n].makes = "edge" THEN q.ids = p.ids ELSE q.ids = [p.ids EXCEPT ![OrderedCalls[n].makes] = id]
    PROVE  OnPlan(q)'
<1> DEFINE k == OrderedCalls[n].makes
<1>1. /\ n \in DOMAIN OrderedCalls /\ n \in Nat \ {0} /\ DOMAIN OrderedCalls \subseteq Nat
      /\ \A u \in OrderedCalls[n].uses : p.ids[u] # 0
      /\ \A m \in DOMAIN OrderedCalls : m < n => HasTaken(p, m)
      /\ k # "edge" => p.ids[k] = 0
  BY Learns, StepsAre
<1>2. OnPlan(p) /\ KnowsRightly(p) /\ p.order \in Orders /\ DOMAIN p.ids = RowKinds
  BY DEF OnPlan
<1>3. /\ DOMAIN q.ids = RowKinds
      /\ \A c \in RowKinds : p.ids[c] # 0 => q.ids[c] = p.ids[c]
      /\ \A c \in RowKinds : q.ids[c] = p.ids[c] \/ (c = k /\ k # "edge" /\ q.ids[c] = id)
      /\ k # "edge" => k \in RowKinds /\ q.ids[k] = id
  <2>1. CASE k = "edge"
    BY <1>2, <2>1
  <2>2. CASE k # "edge"
    <3>1. k \in RowKinds
      BY <1>1, <2>2, StepsAre
    <3> QED
      BY <1>1, <1>2, <2>2, <3>1
  <2> QED
    BY <2>1, <2>2
<1>4. Called(p, n).kind = k /\ Called(p, n).key = <<p.order.prefix, OrderedCalls[n].name>>
      /\ Called(p, n).refs = {p.ids[u] : u \in OrderedCalls[n].uses}
  BY RowIs
<1> HIDE DEF k
<1>5. KnowsRightly(q)'
  <2> SUFFICES ASSUME NEW c \in RowKinds
               PROVE  /\ q.order.ids[c] # 0 => q.ids[c] = q.order.ids[c]
                      /\ q.ids[c] # 0 => KnownAs(q.order, c, q.ids[c])'
    BY DEF KnowsRightly
  <2>1. p.order.ids[c] # 0 => p.ids[c] = p.order.ids[c]
    BY <1>2 DEF KnowsRightly
  <2>2. CASE q.ids[c] = p.ids[c]
    <3>1. p.ids[c] # 0 => KnownAs(p.order, c, p.ids[c])
      BY <1>2 DEF KnowsRightly
    <3> QED
      BY <2>1, <2>2, <3>1, KnownStays
  <2>3. CASE c = k /\ k # "edge" /\ q.ids[c] = id
    <3>1. p.ids[c] = 0 /\ p.order.ids[c] = 0
      BY <1>1, <2>1, <2>3 DEF k
    <3>2. OrderedCalls[n].name = c
      BY <1>1, <2>3, StepsAre DEF k
    <3> QED
      BY <1>4, <2>3, <3>1, <3>2 DEF KnownAs
  <2> QED
    BY <1>3, <2>2, <2>3
<1>6. ASSUME NEW m \in DOMAIN OrderedCalls, m < q.next PROVE HasTaken(q, m)'
  <2>1. CASE m < n
    <3>1. HasTaken(p, m) /\ OrderedCalls[m].uses \subseteq RowKinds
          /\ (OrderedCalls[m].makes # "edge" => OrderedCalls[m].makes \in RowKinds)
      BY <1>1, <2>1, StepsAre
    <3>2. CASE OrderedCalls[m].makes = "edge"
      <4>1. \A u \in OrderedCalls[m].uses : p.ids[u] # 0 /\ q.ids[u] = p.ids[u]
        BY <1>3, <3>1, <3>2 DEF HasTaken
      <4>2. {q.ids[u] : u \in OrderedCalls[m].uses} = {p.ids[u] : u \in OrderedCalls[m].uses}
        BY <4>1
      <4>3. HasEdge({p.ids[u] : u \in OrderedCalls[m].uses})
        BY <3>1, <3>2 DEF HasTaken
      <4>4. PICK ends : ends = {p.ids[u] : u \in OrderedCalls[m].uses}
        OBVIOUS
      <4>5. HasEdge(ends)'
        BY <4>3, <4>4, EdgesStay
      <4> QED
        BY <3>2, <4>1, <4>2, <4>4, <4>5 DEF HasTaken
    <3>3. CASE OrderedCalls[m].makes # "edge"
      BY <1>3, <3>1, <3>3 DEF HasTaken
    <3> QED
      BY <3>2, <3>3
  <2>2. CASE m = n
    <3>1. CASE k = "edge"
      <4>1. \A u \in OrderedCalls[n].uses : q.ids[u] = p.ids[u] /\ p.ids[u] # 0
        BY <1>1, <3>1 DEF k
      <4>2. {q.ids[u] : u \in OrderedCalls[n].uses} = {p.ids[u] : u \in OrderedCalls[n].uses}
        BY <4>1
      <4> QED
        BY <1>4, <2>2, <3>1, <4>1, <4>2 DEF HasTaken, HasEdge, k
    <3>2. CASE k # "edge"
      BY <1>3, <2>2, <3>2 DEF HasTaken, k
    <3> QED
      BY <3>1, <3>2
  <2>3. m < n \/ m = n
    BY <1>1, <1>6
  <2> QED
    BY <2>1, <2>2, <2>3
<1> QED
  BY <1>1, <1>2, <1>3, <1>5, <1>6 DEF OnPlan

LEMMA CallKeeps ==
    ASSUME PlansFit, ArcsInv, NEW a \in Planners, CallStep(a)
    PROVE  ArcsInv'
<1>0. PICK n \in Due(planner[a]) :
        LET entry == Called(planner[a], n)
            id == Len(journal) + 1
            made == IF entry.kind = "memory_node" THEN <<entry, Reflected(entry, id)>> ELSE <<entry>>
        IN /\ ~planner[a].refused /\ \A m \in Due(planner[a]) : n <= m
           /\ \/ Keyed(entry) = {} /\ journal' = journal \o made /\ Knows(a, n, id)
              \/ /\ \E i \in Keyed(entry) :
                    IF journal[i] = entry THEN Knows(a, n, i) ELSE planner' = [planner EXCEPT ![a].refused = TRUE]
                 /\ UNCHANGED journal
  BY DEF CallStep
<1>b. PICK p, entry, id : p = planner[a] /\ entry = Called(p, n) /\ id = Len(journal) + 1
  OBVIOUS
<1>1. /\ p = planner[a] /\ entry = Called(p, n) /\ id = Len(journal) + 1
      /\ n \in Due(p) /\ ~p.refused /\ \A m \in Due(p) : n <= m
      /\ \/ Keyed(entry) = {} /\ journal' = journal \o Added(entry, id) /\ Knows(a, n, id)
         \/ /\ \E i \in Keyed(entry) :
                 IF journal[i] = entry THEN Knows(a, n, i) ELSE planner' = [planner EXCEPT ![a].refused = TRUE]
            /\ UNCHANGED journal
  BY <1>0, <1>b DEF Added
<1>2. JournalIs /\ OnPlan(p) /\ n \in Due(p)
  <2>1. n \in Due(p)
    BY <1>1
  <2>2. p # NoOne
    <3>1. p.next \in 1..n /\ n \in 1..11
      BY <2>1, StepsAre DEF Due
    <3> QED
      BY <3>1 DEF NoOne
  <2> QED
    BY <1>1, <2>1, <2>2 DEF ArcsInv
<1>3. n \in DOMAIN OrderedCalls /\ IsMade(p.order, n, entry) /\ p.order \in Orders
  BY <1>1, <1>2, Learns DEF OnPlan
<1>4. ASSUME NEW i, Knows(a, n, i), JournalGrows, JournalIs', i \in DOMAIN journal', i # 0, journal'[i] = entry
      PROVE  ArcsInv'
  <2>1. PICK q : q = [order |-> p.order, next |-> n + 1, refused |-> FALSE,
                      ids |-> IF OrderedCalls[n].makes = "edge" THEN p.ids ELSE [p.ids EXCEPT ![OrderedCalls[n].makes] = i]]
    OBVIOUS
  <2>2. planner' = [planner EXCEPT ![a] = q]
    BY <1>1, <1>4, <2>1 DEF Knows
  <2>3. q.order = p.order /\ q.next = n + 1 /\ ~q.refused
        /\ IF OrderedCalls[n].makes = "edge" THEN q.ids = p.ids ELSE q.ids = [p.ids EXCEPT ![OrderedCalls[n].makes] = i]
    BY <2>1
  <2>4. OnPlan(q)'
    BY <1>1, <1>2, <1>4, <2>3, GoesOn
  <2> QED
    BY <1>4, <2>2, <2>4, PlannerMoves
<1>5. CASE Keyed(entry) = {} /\ journal' = journal \o Added(entry, id) /\ Knows(a, n, id)
  <2>1. JournalIs' /\ JournalGrows /\ id \in DOMAIN journal' /\ journal'[id] = entry
    BY <1>1, <1>2, <1>3, <1>5, AddedRows
  <2>2. id # 0
    <3>1. Len(journal) \in Nat
      BY <1>2, LongerBy DEF JournalIs
    <3> QED
      BY <1>1, <3>1
  <2> QED
    BY <1>4, <1>5, <2>1, <2>2
<1>6. CASE /\ \E i \in Keyed(entry) :
                IF journal[i] = entry THEN Knows(a, n, i) ELSE planner' = [planner EXCEPT ![a].refused = TRUE]
           /\ UNCHANGED journal
  <2>1. PICK i \in Keyed(entry) : IF journal[i] = entry THEN Knows(a, n, i) ELSE planner' = [planner EXCEPT ![a].refused = TRUE]
    BY <1>6
  <2>2. i \in DOMAIN journal /\ journal[i].kind = OrderedCalls[n].makes
        /\ journal[i].key = <<p.order.prefix, OrderedCalls[n].name>>
    BY <1>1, RowIs DEF Keyed
  <2>3. journal[i] = entry
    <3>1. IsMade(p.order, n, journal[i])
      BY <1>2, <1>3, <2>2, UnderKey
    <3>2. PICK f : (\A u \in OrderedCalls[n].uses : KnownAs(p.order, u, f[u]))
                   /\ journal[i] = Called([order |-> p.order, ids |-> f], n)
      BY <3>1 DEF IsMade
    <3>3. PICK g : (\A u \in OrderedCalls[n].uses : KnownAs(p.order, u, g[u]))
                   /\ entry = Called([order |-> p.order, ids |-> g], n)
      BY <1>3 DEF IsMade
    <3>4. \A u \in OrderedCalls[n].uses : f[u] = g[u]
      BY <1>2, <1>3, <3>2, <3>3, KnownOnce, StepsAre
    <3>5. PICK x, y : x = [order |-> p.order, ids |-> f] /\ y = [order |-> p.order, ids |-> g]
      OBVIOUS
    <3>6. x.order = y.order /\ \A u \in OrderedCalls[n].uses : x.ids[u] = y.ids[u]
      BY <3>4, <3>5
    <3> QED
      BY <3>2, <3>3, <3>5, <3>6, RowIs
  <2>4. Knows(a, n, i)
    BY <2>1, <2>3
  <2>5. JournalIs' /\ JournalGrows
    BY <1>2, <1>6, Standing
  <2>6. i # 0
    <3>1. 0 \notin DOMAIN journal
      BY <1>2 DEF JournalIs, IsSequence
    <3> QED
      BY <2>2, <3>1
  <2> QED
    BY <1>4, <1>6, <2>2, <2>3, <2>4, <2>5, <2>6
<1> QED
  BY <1>1, <1>5, <1>6

LEMMA ArcsStep ==
    ASSUME PlansFit, ArcsInv, [ArcsNext]_arcsVars
    PROVE  ArcsInv'
<1>1. ASSUME NEW a \in Planners, NEW o \in Orders, Begin(a, o) PROVE ArcsInv'
  BY <1>1, BeginStep
<1>2. ASSUME NEW a \in Planners, CallStep(a) PROVE ArcsInv'
  BY <1>2, CallKeeps
<1>3. ASSUME NEW a \in Planners, DieAndRestart(a) PROVE ArcsInv'
  BY <1>3, RestartStep
<1>4. CASE UNCHANGED arcsVars
  <2>1. journal' = journal /\ planner' = planner
    BY <1>4 DEF arcsVars
  <2>2. JournalIs' /\ JournalGrows
    BY <2>1, Standing DEF ArcsInv
  <2> QED
    BY <2>1, <2>2, PlanStays DEF ArcsInv
<1> QED
  BY <1>1, <1>2, <1>3, <1>4 DEF ArcsNext

-----------------------------------------------------------------------------
(* The walk of the status: what one round adds. *)

LEMMA RoundIs ==
    ASSUME NEW S
    PROVE  \E A, L : /\ S \subseteq A /\ RefsOf(S, "decision") \subseteq A /\ A \subseteq L /\ L \subseteq Round(S)
                     /\ L = Listing(A) /\ Round(S) = Linking(L)
<1>1. PICK A : A = Arguing(Forecasting(Direct(S)))
  OBVIOUS
<1>2. \A B : B \subseteq Forecasting(B) /\ B \subseteq Arguing(B) /\ B \subseteq Listing(B) /\ B \subseteq Linking(B)
  BY DEF Forecasting, Arguing, Listing, Linking
<1>3. S \subseteq Direct(S) /\ RefsOf(S, "decision") \subseteq Direct(S)
  BY DEF Direct
<1>4. Direct(S) \subseteq A
  <2>1. Direct(S) \subseteq Forecasting(Direct(S)) /\ Forecasting(Direct(S)) \subseteq A
    BY <1>1, <1>2
  <2> QED
    BY <2>1
<1> QED
  BY <1>1, <1>2, <1>3, <1>4 DEF Round

LEMMA WalkKeeps == ASSUME NEW S PROVE S \subseteq Round(S)
BY RoundIs

LEMMA WalkFollowsEdges ==
    ASSUME NEW S, NEW x \in S, NEW y, HasEdge({x, y})
    PROVE  y \in Round(S)
<1>1. PICK e \in DOMAIN journal : journal[e].kind = "edge" /\ journal[e].refs = {x, y}
  BY DEF HasEdge
<1>2. PICK L : S \subseteq L /\ Round(S) = Linking(L)
  BY RoundIs
<1>3. e \in {c \in KindIn(DOMAIN journal, "edge") : journal[c].refs \cap L # {}}
  BY <1>1, <1>2 DEF KindIn
<1> QED
  BY <1>1, <1>2, <1>3 DEF Linking

LEMMA WalkFollowsDecisions ==
    ASSUME NEW S, NEW d \in S, journal[d].kind = "decision", NEW i \in journal[d].refs
    PROVE  /\ i \in Round(S)
           /\ journal[i].kind = "instrument" => journal[i].refs \subseteq Round(S)
<1>1. i \in RefsOf(S, "decision")
  BY DEF RefsOf, KindIn
<1>2. PICK A : i \in A /\ A \subseteq Round(S) /\ Listing(A) \subseteq Round(S)
  BY <1>1, RoundIs
<1>3. journal[i].kind = "instrument" => journal[i].refs \subseteq RefsOf(A, "instrument")
  BY <1>2 DEF RefsOf, KindIn
<1>4. RefsOf(A, "instrument") \subseteq Listing(A)
  BY DEF Listing
<1> QED
  BY <1>2, <1>3, <1>4

LEMMA WalkFindsDecision ==
    ASSUME NEW S, NEW i \in S, journal[i].kind = "instrument", NEW d \in Naming1(i, "decision")
    PROVE  d \in Round(S)
<1>1. PICK A : i \in A /\ Listing(A) \subseteq Round(S)
  BY RoundIs
<1>2. d \in NamingAny(KindIn(A, "instrument"), "decision")
  BY <1>1 DEF NamingAny, KindIn
<1>3. d \in Listing(A)
  BY <1>2 DEF Listing
<1> QED
  BY <1>1, <1>3

LEMMA WalkStaysInside ==
    ASSUME \A i \in DOMAIN journal : journal[i].refs \subseteq DOMAIN journal,
           NEW S, S \subseteq DOMAIN journal
    PROVE  Round(S) \subseteq DOMAIN journal
<1>1. \A A, k : A \subseteq DOMAIN journal => RefsOf(A, k) \subseteq DOMAIN journal
  BY DEF RefsOf, KindIn
<1>2. \A A, k : NamingAny(A, k) \subseteq DOMAIN journal
  BY DEF NamingAny, Naming1, KindIn
<1>3. \A A : UNION {journal[e].refs : e \in {x \in KindIn(DOMAIN journal, "edge") : journal[x].refs \cap A # {}}} \subseteq DOMAIN journal
  BY DEF KindIn
<1>4. \A A : UNION {NamingAny(KindIn(A, "instrument"), kind) : kind \in {"snapshot", "thesis", "decision"}} \subseteq DOMAIN journal
  BY <1>2
<1>5. \A A : A \subseteq DOMAIN journal => /\ Direct(A) \subseteq DOMAIN journal /\ Forecasting(A) \subseteq DOMAIN journal
                                           /\ Arguing(A) \subseteq DOMAIN journal
  BY <1>1, <1>2 DEF Direct, Forecasting, Arguing
<1>6. \A A : A \subseteq DOMAIN journal => Listing(A) \subseteq DOMAIN journal
  BY <1>1, <1>4 DEF Listing
<1>7. \A A : A \subseteq DOMAIN journal => Linking(A) \subseteq DOMAIN journal
  BY <1>3 DEF Linking
<1> QED
  BY <1>5, <1>6, <1>7 DEF Round

-----------------------------------------------------------------------------
(* A plan that is done. *)

\* What an order knows, once it knows all of a kind's uses, is tied as its step says.
LEMMA KnownRefs ==
    ASSUME PlansFit, JournalIs, NEW p, OnPlan(p), NEW n \in DOMAIN OrderedCalls, OrderedCalls[n].makes # "edge",
           p.order.ids[OrderedCalls[n].makes] = 0, \A k \in RowKinds : p.ids[k] # 0
    PROVE  /\ p.ids[OrderedCalls[n].makes] \notin DOMAIN Market
           /\ journal[p.ids[OrderedCalls[n].makes]].refs = {p.ids[u] : u \in OrderedCalls[n].uses}
<1>1. PICK k, i : k = OrderedCalls[n].makes /\ i = p.ids[k]
  OBVIOUS
<1>2. k \in RowKinds /\ OrderedCalls[n].name = k /\ OrderedCalls[n].uses \subseteq RowKinds /\ p.order \in Orders
  BY <1>1, StepsAre DEF OnPlan
<1>3. \A c \in RowKinds : KnownAs(p.order, c, p.ids[c])
  BY DEF OnPlan, KnowsRightly
<1>4. i \in DOMAIN journal /\ journal[i].kind = k /\ journal[i].key = <<p.order.prefix, k>>
  BY <1>1, <1>2, <1>3 DEF KnownAs
<1>5. i \notin DOMAIN Market /\ IsMade(p.order, n, journal[i])
  BY <1>1, <1>2, <1>4, UnderKey
<1>6. PICK f : (\A u \in OrderedCalls[n].uses : KnownAs(p.order, u, f[u]))
               /\ journal[i] = Called([order |-> p.order, ids |-> f], n)
  BY <1>5 DEF IsMade
<1>7. \A u \in OrderedCalls[n].uses : f[u] = p.ids[u]
  BY <1>2, <1>3, <1>6, KnownOnce
<1>8. journal[i].refs = {f[u] : u \in OrderedCalls[n].uses}
  BY <1>6, RowIs
<1> QED
  BY <1>1, <1>5, <1>7, <1>8

\* There are no more decisions than there were and than there are orders.
LEMMA FewDecisions ==
    ASSUME PlansFit, JournalIs, NEW i
    PROVE  Naming1(i, "decision") = {j \in KindIn(DOMAIN journal, "decision") : i \in journal[j].refs}
<1> DEFINE all == KindIn(DOMAIN journal, "decision")
           old == {j \in DOMAIN Market : Market[j].kind = "decision"}
           new == all \ DOMAIN Market
           Of(j) == CHOOSE o \in Orders : journal[j].key = <<o.prefix, "decision">>
           f == [j \in new |-> Of(j)]
<1>1. ASSUME NEW j \in new
      PROVE  \E o \in Orders : journal[j].key = <<o.prefix, "decision">>
  <2>1. j \in DOMAIN journal /\ journal[j].kind = "decision" /\ j \notin DOMAIN Market
    BY DEF KindIn
  <2>2. PICK o \in Orders : (\E n \in DOMAIN OrderedCalls : IsMade(o, n, journal[j])) \/ IsReflection(o, journal[j])
    BY <2>1 DEF JournalIs, RowsAre
  <2>3. PICK n \in DOMAIN OrderedCalls : IsMade(o, n, journal[j])
    BY <2>1, <2>2 DEF IsReflection
  <2>4. OrderedCalls[n].makes = "decision" /\ journal[j].key = <<o.prefix, OrderedCalls[n].name>>
    BY <2>1, <2>3, RowIs DEF IsMade
  <2>5. OrderedCalls[n].name = "decision"
    BY <2>4, StepsAre
  <2> QED
    BY <2>4, <2>5
<1>2. \A j \in new : f[j] \in Orders /\ journal[j].key = <<f[j].prefix, "decision">>
  BY <1>1
<1>3. \A j, k \in new : f[j] = f[k] => j = k
  <2> SUFFICES ASSUME NEW j \in new, NEW k \in new, f[j] = f[k] PROVE j = k
    OBVIOUS
  <2>1. journal[j].key = journal[k].key
    BY <1>2
  <2>2. j \in DOMAIN journal \ DOMAIN Market /\ k \in DOMAIN journal
        /\ journal[j].kind = "decision" /\ journal[k].kind = "decision"
    BY DEF KindIn
  <2> HIDE DEF new, f
  <2> QED
    BY <2>1, <2>2 DEF JournalIs, RowsOnce
<1>4. f \in Injection(new, Orders)
  BY <1>2, <1>3 DEF Injection, IsInjective
<1>5. IsFiniteSet(new) /\ Cardinality(new) <= Cardinality(Orders)
  <2> HIDE DEF new, f
  <2> QED
    BY <1>4, FS_Injection, ArcsAssumption
<1>6. IsFiniteSet(DOMAIN journal) /\ DOMAIN journal \subseteq Nat /\ IsFiniteSet(DOMAIN Market)
  <2>1. PICK S : journal \in Seq(S)
    BY DEF JournalIs, IsSequence
  <2>2. DOMAIN journal = 1..Len(journal) /\ Len(journal) \in Nat
    BY <2>1
  <2>3. IsFiniteSet(1..Len(journal))
    BY <2>2, FS_Interval
  <2>4. DOMAIN Market \subseteq DOMAIN journal
    BY DEF JournalIs
  <2> QED
    BY <2>2, <2>3, <2>4, FS_Subset
<1>7. all \subseteq old \cup new /\ all \subseteq DOMAIN journal /\ old \subseteq DOMAIN Market
  BY DEF KindIn, JournalIs
<1>8. IsFiniteSet(old) /\ IsFiniteSet(all)
  BY <1>6, <1>7, FS_Subset
<1>9. Cardinality(all) <= MaxRelated
  <2>1. IsFiniteSet(old \cup new) /\ Cardinality(all) <= Cardinality(old \cup new)
    BY <1>5, <1>7, <1>8, FS_Union, FS_Subset
  <2>2. Cardinality(old \cup new) <= Cardinality(old) + Cardinality(new)
    <3>1. Cardinality(old \cup new) = Cardinality(old) + Cardinality(new) - Cardinality(old \cap new)
      BY <1>5, <1>8, FS_Union
    <3>2. IsFiniteSet(old \cap new) /\ Cardinality(old \cap new) \in Nat
      BY <1>8, FS_Subset, FS_CardinalityType
    <3>3. Cardinality(old) \in Nat /\ Cardinality(new) \in Nat
      BY <1>5, <1>8, FS_CardinalityType
    <3> HIDE DEF old, new
    <3> QED
      BY <3>1, <3>2, <3>3
  <2>3. Cardinality(old) + Cardinality(Orders) <= MaxRelated
    BY DEF PlansFit
  <2>4. {Cardinality(all), Cardinality(old), Cardinality(new), Cardinality(Orders), Cardinality(old \cup new), MaxRelated} \subseteq Nat
    BY <1>5, <1>8, <2>1, FS_CardinalityType, ArcsAssumption
  <2> HIDE DEF all, old, new
  <2> QED
    BY <1>5, <2>1, <2>2, <2>3, <2>4
<1>10. ASSUME NEW named, named \subseteq all, NEW j \in named
       PROVE  Cardinality({k \in named : k < j}) < MaxRelated
  <2> DEFINE elder == {k \in named : k < j}
  <2>1. elder \subseteq all /\ elder # all
    <3>1. j \in Nat
      BY <1>6, <1>7, <1>10
    <3>2. j \notin elder
      BY <3>1
    <3> QED
      BY <1>10, <3>2
  <2>2. IsFiniteSet(elder) /\ Cardinality(elder) <= Cardinality(all) /\ Cardinality(elder) # Cardinality(all)
    BY <1>8, <2>1, FS_Subset
  <2>3. Cardinality(elder) \in Nat /\ Cardinality(all) \in Nat
    BY <1>8, <2>2, FS_CardinalityType
  <2> HIDE DEF elder, all
  <2>4. Cardinality(elder) < MaxRelated
    BY <1>9, <2>2, <2>3, ArcsAssumption
  <2> QED
    BY <2>4 DEF elder
<1> QED
  BY <1>10 DEF Naming1

LEMMA DoneIs ==
    ASSUME PlansFit, JournalIs, NEW p, OnPlan(p), Done(p)
    PROVE  /\ \A k \in RowKinds : p.ids[k] \in DOMAIN journal /\ journal[p.ids[k]].kind = k
           /\ \A k \in {"thesis", "forecast", "decision"} : HasEdge({p.ids["source"], p.ids[k]})
           /\ journal[p.ids["decision"]].refs = {p.ids[k] : k \in {"instrument", "thesis", "snapshot", "forecast"}}
           /\ \E v \in journal[p.ids["instrument"]].refs : journal[v].kind = "venue"
           /\ p.order.ids["memory_node"] = 0 => HasEdge({p.ids["decision"], p.ids["memory_node"]})
<1>1. p.order \in Orders /\ KnowsRightly(p) /\ p.next \in Nat \ {0}
  BY DEF OnPlan
<1>2. ASSUME NEW n \in DOMAIN OrderedCalls PROVE HasTaken(p, n)
  <2>1. CASE n < p.next
    BY <2>1 DEF OnPlan
  <2>2. CASE ~(n < p.next)
    <3>1. p.next \in 1..n
      BY <1>1, <2>2, StepsAre
    <3>2. Saved(p, n)
      BY <3>1 DEF Done, Due
    <3> QED
      BY <3>2 DEF Saved, HasTaken
  <2> QED
    BY <2>1, <2>2
<1>3. \A k \in RowKinds : p.ids[k] # 0 /\ KnownAs(p.order, k, p.ids[k])
  <2> SUFFICES ASSUME NEW k \in RowKinds PROVE p.ids[k] # 0
    BY <1>1 DEF KnowsRightly
  <2>1. PICK n \in DOMAIN OrderedCalls : OrderedCalls[n].makes = k
    BY StepsAre
  <2> QED
    BY <1>2, <2>1, StepsAre DEF HasTaken
<1>4. \A k \in RowKinds : p.ids[k] \in DOMAIN journal /\ journal[p.ids[k]].kind = k
  BY <1>1, <1>3, KnownIs
<1>5. \A k \in {"thesis", "forecast", "decision"} : HasEdge({p.ids["source"], p.ids[k]})
  <2>1. \A n \in {6, 8, 10} : n \in DOMAIN OrderedCalls /\ OrderedCalls[n].makes = "edge"
    BY TableIs, MakesAre
  <2>2. \A n \in {6, 8, 10} : HasEdge({p.ids[u] : u \in OrderedCalls[n].uses})
    BY <1>2, <2>1 DEF HasTaken
  <2>3. ASSUME NEW k, NEW n \in {6, 8, 10}, OrderedCalls[n].uses = {"source", k}
        PROVE  HasEdge({p.ids["source"], p.ids[k]})
    <3>1. {p.ids[u] : u \in {"source", k}} = {p.ids["source"], p.ids[k]}
      OBVIOUS
    <3> QED
      BY <2>2, <2>3, <3>1
  <2> QED
    BY <2>3, UsesAre
<1>6. /\ {"instrument", "decision", "memory_node"} \subseteq RowKinds
      /\ {2, 9, 11} \subseteq DOMAIN OrderedCalls
  BY TableIs DEF RowKinds
<1>7. journal[p.ids["decision"]].refs = {p.ids[k] : k \in {"instrument", "thesis", "snapshot", "forecast"}}
  <2>1. CASE p.order.ids["decision"] = 0
    <3>1. journal[p.ids["decision"]].refs = {p.ids[u] : u \in OrderedCalls[9].uses}
      BY <1>3, <1>6, <2>1, KnownRefs, MakesAre
    <3> QED
      BY <3>1, UsesAre
  <2>2. CASE p.order.ids["decision"] # 0
    <3>1. p.ids["decision"] = p.order.ids["decision"] /\ p.ids["decision"] \in DOMAIN Market
      BY <1>1, <1>6, <2>2 DEF KnowsRightly, PlansFit
    <3>2. journal[p.ids["decision"]] = Market[p.ids["decision"]]
      BY <3>1 DEF JournalIs
    <3>3. Market[p.ids["decision"]].refs = {p.order.ids[k] : k \in {"instrument", "thesis", "snapshot", "forecast"}}
      BY <1>1, <2>2, <3>1 DEF PlansFit
    <3>4. \A r \in Market[p.ids["decision"]].refs : r # 0
      <4>1. Market[p.ids["decision"]] \in ArcRow
        BY <3>1, ArcsAssumption
      <4> QED
        BY <4>1 DEF ArcRow
    <3>5. \A k \in {"instrument", "thesis", "snapshot", "forecast"} : p.ids[k] = p.order.ids[k]
      <4> SUFFICES ASSUME NEW k \in {"instrument", "thesis", "snapshot", "forecast"} PROVE p.ids[k] = p.order.ids[k]
        OBVIOUS
      <4>1. k \in RowKinds
        BY DEF RowKinds
      <4>2. p.order.ids[k] # 0
        BY <3>3, <3>4
      <4> QED
        BY <1>1, <4>1, <4>2 DEF KnowsRightly
    <3> QED
      BY <3>2, <3>3, <3>5
  <2> QED
    BY <2>1, <2>2
<1>8. \E v \in journal[p.ids["instrument"]].refs : journal[v].kind = "venue"
  <2>1. CASE p.ids["instrument"] \notin DOMAIN Market
    <3>1. p.order.ids["instrument"] = 0
      BY <1>1, <1>6, <2>1 DEF KnowsRightly, PlansFit
    <3>2. journal[p.ids["instrument"]].refs = {p.ids[u] : u \in OrderedCalls[2].uses}
      BY <1>3, <1>6, <3>1, KnownRefs, MakesAre
    <3>3. p.ids["venue"] \in journal[p.ids["instrument"]].refs
      BY <3>2, UsesAre
    <3> QED
      BY <1>4, <3>3 DEF RowKinds
  <2>2. CASE p.ids["instrument"] \in DOMAIN Market
    <3>1. PICK i : i = p.ids["instrument"]
      OBVIOUS
    <3>2. journal[i] = Market[i] /\ journal[i].kind = "instrument" /\ i \in DOMAIN Market
      BY <1>4, <1>6, <2>2, <3>1 DEF JournalIs
    <3>3. PICK v \in Market[i].refs : Market[v].kind = "venue" /\ v \in DOMAIN Market
      BY <3>2 DEF PlansFit
    <3>4. journal[v] = Market[v]
      BY <3>3 DEF JournalIs
    <3> QED
      BY <3>1, <3>2, <3>3, <3>4
  <2> QED
    BY <2>1, <2>2
<1>9. ASSUME p.order.ids["memory_node"] = 0 PROVE HasEdge({p.ids["decision"], p.ids["memory_node"]})
  <2>1. PICK m : m = p.ids["memory_node"]
    OBVIOUS
  <2>2. m \notin DOMAIN Market /\ journal[m].refs = {p.ids[u] : u \in OrderedCalls[11].uses}
    BY <1>3, <1>6, <1>9, <2>1, KnownRefs, MakesAre
  <2>3. m \in DOMAIN journal \ DOMAIN Market /\ journal[m].kind = "memory_node"
    BY <1>4, <1>6, <2>1, <2>2
  <2>4. HasEdge(journal[m].refs \cup {m})
    BY <2>3 DEF JournalIs, NotesAreLinked
  <2>5. journal[m].refs \cup {m} = {p.ids["decision"], m}
    BY <2>2, UsesAre
  <2> QED
    BY <2>1, <2>4, <2>5
<1> QED
  BY <1>4, <1>5, <1>7, <1>8, <1>9

\* Asked about any row of the arc, the status comes to its decision in two rounds.
LEMMA FindsDecision ==
    ASSUME PlansFit, JournalIs, NEW p, OnPlan(p), Done(p),
           NEW kind \in RowKinds \ {"venue", "snapshot"}, kind = "memory_node" => p.order.ids["memory_node"] = 0
    PROVE  p.ids["decision"] \in Round(Round({p.ids[kind]}))
<1> DEFINE d == p.ids["decision"]
           x == p.ids[kind]
           src == p.ids["source"]
<1>1. /\ \A k \in {"thesis", "forecast", "decision"} : HasEdge({src, p.ids[k]})
      /\ p.order.ids["memory_node"] = 0 => HasEdge({d, p.ids["memory_node"]})
      /\ journal[d].refs = {p.ids[k] : k \in {"instrument", "thesis", "snapshot", "forecast"}}
      /\ \A k \in RowKinds : p.ids[k] \in DOMAIN journal /\ journal[p.ids[k]].kind = k
  BY DoneIs
<1>2. x \in {x}
  OBVIOUS
<1>3. \A a, b : {a, b} = {b, a}
  OBVIOUS
<1> HIDE DEF d, x, src
<1>4. CASE kind = "decision"
  <2>1. d = x
    BY <1>4 DEF d, x
  <2> QED
    BY <1>2, <2>1, WalkKeeps DEF d, x
<1>5. CASE kind = "source"
  <2>1. HasEdge({x, d})
    BY <1>1, <1>5 DEF d, x, src
  <2>2. d \in Round({x})
    BY <1>2, <2>1, WalkFollowsEdges
  <2> QED
    BY <2>2, WalkKeeps DEF d, x
<1>6. CASE kind = "memory_node"
  <2>1. HasEdge({x, d})
    <3>1. HasEdge({d, x})
      BY <1>1, <1>6 DEF x
    <3> QED
      BY <1>3, <3>1
  <2>2. d \in Round({x})
    BY <1>2, <2>1, WalkFollowsEdges
  <2> QED
    BY <2>2, WalkKeeps DEF d, x
<1>7. CASE kind \in {"thesis", "forecast"}
  <2>1. HasEdge({x, src})
    <3>1. HasEdge({src, x})
      BY <1>1, <1>7 DEF x
    <3> QED
      BY <1>3, <3>1
  <2>2. src \in Round({x})
    BY <1>2, <2>1, WalkFollowsEdges
  <2>3. HasEdge({src, d})
    BY <1>1 DEF d
  <2>4. d \in Round(Round({x}))
    BY <2>2, <2>3, WalkFollowsEdges
  <2> QED
    BY <2>4 DEF d, x
<1>8. CASE kind = "instrument"
  <2>1. journal[x].kind = "instrument" /\ x \in journal[d].refs
    BY <1>1, <1>8 DEF x
  <2>2. d \in KindIn(DOMAIN journal, "decision")
    BY <1>1 DEF d, KindIn, RowKinds
  <2>3. d \in Naming1(x, "decision")
    BY <2>1, <2>2, FewDecisions
  <2>4. d \in Round({x})
    BY <1>2, <2>1, <2>3, WalkFindsDecision
  <2> QED
    BY <2>4, WalkKeeps DEF d, x
<1> QED
  BY <1>4, <1>5, <1>6, <1>7, <1>8 DEF RowKinds

\* From there it has all of the arc in the third.
LEMMA FindsAll ==
    ASSUME PlansFit, JournalIs, NEW p, OnPlan(p), Done(p), NEW S, p.ids["decision"] \in S, S \subseteq DOMAIN journal
    PROVE  MissingSteps(Round(S)) \subseteq
             IF p.order.ids["memory_node"] # 0 /\ ~PaperOnly(DOMAIN journal) THEN {"reflection"} ELSE {}
<1> DEFINE d == p.ids["decision"]
           all == Round(S)
<1>1. /\ \A k \in RowKinds : p.ids[k] \in DOMAIN journal /\ journal[p.ids[k]].kind = k
      /\ HasEdge({p.ids["source"], d})
      /\ journal[d].refs = {p.ids[k] : k \in {"instrument", "thesis", "snapshot", "forecast"}}
      /\ \E v \in journal[p.ids["instrument"]].refs : journal[v].kind = "venue"
      /\ p.order.ids["memory_node"] = 0 => HasEdge({d, p.ids["memory_node"]})
  BY DoneIs
<1>2. journal[d].kind = "decision" /\ journal[p.ids["instrument"]].kind = "instrument"
  BY <1>1 DEF RowKinds
<1>3. d \in all /\ all \subseteq DOMAIN journal
  BY WalkKeeps, WalkStaysInside DEF JournalIs
<1>4. p.ids["source"] \in all
  <2>1. HasEdge({d, p.ids["source"]})
    <3>1. {d, p.ids["source"]} = {p.ids["source"], d}
      OBVIOUS
    <3> QED
      BY <1>1, <3>1
  <2> QED
    BY <2>1, WalkFollowsEdges
<1>5. \A i \in journal[d].refs : i \in all /\ (journal[i].kind = "instrument" => journal[i].refs \subseteq all)
  BY <1>2, WalkFollowsDecisions
<1> HIDE DEF all
<1>6. \A k \in {"instrument", "thesis", "snapshot", "forecast"} : p.ids[k] \in all
  BY <1>1, <1>5
<1>7. PICK v \in all : journal[v].kind = "venue"
  <2>1. p.ids["instrument"] \in journal[d].refs
    BY <1>1
  <2> QED
    BY <1>1, <1>2, <1>5, <2>1
<1>8. \A k \in RowKinds \ {"memory_node"} : KindIn(all, k) # {}
  <2> SUFFICES ASSUME NEW k \in RowKinds \ {"memory_node"} PROVE \E i \in all : journal[i].kind = k
    BY DEF KindIn
  <2>1. CASE k = "venue"
    BY <1>7, <2>1
  <2>2. CASE k # "venue"
    <3>1. p.ids[k] \in all
      BY <1>3, <1>4, <1>6, <2>2 DEF RowKinds
    <3> QED
      BY <1>1, <3>1
  <2> QED
    BY <2>1, <2>2
<1>9. p.order.ids["memory_node"] = 0 => HasReflection(all)
  <2> SUFFICES ASSUME p.order.ids["memory_node"] = 0 PROVE HasReflection(all)
    OBVIOUS
  <2>1. PICK e \in DOMAIN journal : journal[e].kind = "edge" /\ journal[e].refs = {d, p.ids["memory_node"]}
    BY <1>1 DEF HasEdge
  <2>2. d \in KindIn(all, "decision") /\ p.ids["memory_node"] \in KindIn(DOMAIN journal, "memory_node")
    BY <1>1, <1>2, <1>3 DEF KindIn, RowKinds
  <2>3. e \in KindIn(DOMAIN journal, "edge")
    BY <2>1 DEF KindIn
  <2> QED
    BY <2>1, <2>2, <2>3 DEF HasReflection
<1>10. PaperOnly(DOMAIN journal) => PaperOnly(all)
  <2>1. KindIn(all, "decision") \subseteq KindIn(DOMAIN journal, "decision") /\ d \in KindIn(all, "decision")
    BY <1>2, <1>3 DEF KindIn
  <2> QED
    BY <2>1 DEF PaperOnly
<1>11. MissingSteps(all) \subseteq {"reflection"} /\ (HasReflection(all) \/ PaperOnly(all) => MissingSteps(all) = {})
  BY <1>8 DEF MissingSteps
<1> QED
  BY <1>9, <1>10, <1>11 DEF all

\* Any number of agents may follow any plans beside each other, die after any call and
\* start again: none of their calls is refused for a key, and of a plan that is done the status
\* asks nothing more, for any orders that fit (PlansFit), any market and number of deaths.
THEOREM PlansEndComplete == PlansFit => (ArcsSpec => []PlanEndsComplete)
<1> SUFFICES ASSUME PlansFit PROVE ArcsSpec => []PlanEndsComplete
  OBVIOUS
<1>1. ArcsInv => PlanEndsComplete
  <2> SUFFICES ASSUME ArcsInv, NEW a \in Planners, planner[a].next # 0, NEW p, p = planner[a]
               PROVE  /\ ~p.refused
                      /\ Done(p) =>
                           \A kind \in RowKinds \ ({"venue", "snapshot"} \cup IF p.order.ids["memory_node"] # 0 THEN {"memory_node"} ELSE {}) :
                             MissingSteps(WalkRelated(p.ids[kind])) \subseteq
                               IF p.order.ids["memory_node"] # 0 /\ ~PaperOnly(DOMAIN journal) THEN {"reflection"} ELSE {}
    BY DEF PlanEndsComplete
  <2>1. JournalIs /\ OnPlan(p)
    BY DEF ArcsInv, NoOne
  <2>2. ASSUME Done(p), NEW kind \in RowKinds \ {"venue", "snapshot"}, kind = "memory_node" => p.order.ids["memory_node"] = 0
        PROVE  MissingSteps(WalkRelated(p.ids[kind])) \subseteq
                 IF p.order.ids["memory_node"] # 0 /\ ~PaperOnly(DOMAIN journal) THEN {"reflection"} ELSE {}
    <3>1. PICK S : S = Round(Round({p.ids[kind]}))
      OBVIOUS
    <3>2. p.ids["decision"] \in S
      BY <2>1, <2>2, <3>1, FindsDecision
    <3>3. {p.ids[kind]} \subseteq DOMAIN journal
      <4>1. kind \in RowKinds
        BY <2>2
      <4>2. p.ids[kind] \in DOMAIN journal
        BY <2>1, <2>2, <4>1, DoneIs
      <4> QED
        BY <4>2
    <3>4. S \subseteq DOMAIN journal
      BY <2>1, <3>1, <3>3, WalkStaysInside DEF JournalIs
    <3> QED
      BY <2>1, <2>2, <3>1, <3>2, <3>4, FindsAll DEF WalkRelated
  <2> QED
    BY <2>1, <2>2 DEF OnPlan
<1> QED
  BY <1>1, ArcsStart, ArcsStep, PTL DEF ArcsSpec
=============================================================================
