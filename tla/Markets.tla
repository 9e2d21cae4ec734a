------------------------------ MODULE Markets ------------------------------
(***************************************************************************)
(* Prediction markets: market.bind, market.refresh, snapshot.fetch,         *)
(* snapshot.fetch_series and outcome.fetch.                                  *)
(*                                                                          *)
(* A live call reads the journal, asks the venue with no lock held, and then *)
(* writes in one transaction, so the journal, and the venue, may have moved  *)
(* in between.  The venue is external: History is what it will say of each   *)
(* market, one view after another.  A market's id is its external id, as     *)
(* UNIQUE (source, external_id) allows.  A retry is another call with the    *)
(* same key.                                                                 *)
(***************************************************************************)
EXTENDS Integers, Sequences, FiniteSets, TLC

CONSTANTS
    Agents,   \* processes that run tools
    Markets,  \* external ids
    Calls,    \* the calls made, each at most once
    History,  \* for each market, the views the venue will give of it
    Series,   \* for each market, the price points of its past
    Ttl,      \* MARKET_CACHE_TTL_SECONDS, in ticks; the states it does not name have none
    MaxClock, MaxSnapshots, \* bounds on the clock, and on the rows there are when a fetch of more begins
    NoValue   \* None

States == {"open", "closed_for_trading", "resolving", "resolved", "voided", "ambiguous"}
Ops == {"bind", "refresh", "snapshot", "series", "outcome"}

\* What Gamma says of a market.  rule: the text of its description.  Prices are
\* doubled, so that the middle of a book is a number.
Quote == [bid: Nat \cup {NoValue}, ask: Nat \cup {NoValue}, last: Nat \cup {NoValue}]
Raw == [voided: BOOLEAN, ambiguous: BOOLEAN, resolved: BOOLEAN, closed: BOOLEAN, binary: BOOLEAN,
        status: {"", "void", "ambiguous"}, winner: {"", "YES", "NO"}, rule: STRING, quote: Quote]
Point == [at: Int, quote: Quote]

\* manual: bound_via is "manual", or the adapter is off.  state, rule: the
\* caller's, for a bind.
Call == [id: Nat, op: Ops, market: Markets, key: STRING, manual: BOOLEAN, state: States, rule: STRING]

ASSUME MarketsAssumption ==
    /\ Calls \subseteq Call /\ {MaxClock, MaxSnapshots} \subseteq Nat
    /\ \A m \in Markets : History[m] \in Seq(Raw) \ {<< >>} /\ Series[m] \in Seq(Point)
    /\ DOMAIN Ttl = States \ {"closed_for_trading"} /\ \A s \in DOMAIN Ttl : Ttl[s] \in Nat

VARIABLES
    clock, venueAt,     \* the time; the view the venue now gives of each market
    row, instrument,    \* the markets and instruments tables
    venues,             \* the venues table: "manual", "adapter"
    snapshots, outcomes, \* the other rows these tools write, in order
    events,             \* the event log: type, key and structural fields
    job,                \* what each process is doing
    answers             \* the answers given

marketsVars == <<clock, venueAt, row, instrument, venues, snapshots, outcomes, events, job, answers>>
tables == <<row, instrument, venues, snapshots, outcomes, events>>

MarketsInit ==
    /\ clock = 0 /\ venueAt = [m \in Markets |-> 1]
    /\ row = [m \in Markets |-> NoValue] /\ instrument = row
    /\ venues = {} /\ snapshots = << >> /\ outcomes = << >> /\ events = << >>
    /\ job = [a \in Agents |-> NoValue] /\ answers = {}

-----------------------------------------------------------------------------
(* Readings *)

\* _market_payload: the first flag that is up decides.
StateOf(raw) ==
    IF raw.voided \/ raw.status = "void" THEN "voided"
    ELSE IF raw.ambiguous \/ raw.status = "ambiguous" THEN "ambiguous"
    ELSE IF raw.resolved \/ (raw.closed /\ raw.winner # "") THEN "resolved"
    ELSE IF raw.closed THEN "closed_for_trading" ELSE "open"

\* A state without a TTL is never asked for again.
CacheHit(r) == r.state \in DOMAIN Ttl => clock - r.cachedAt < Ttl[r.state]

\* _snapshot_from_raw: the middle of the book, or the last price; a bid or ask
\* of zero counts as none.
Book(q) == {q.bid, q.ask} \ {NoValue, 0}
Mark(q) == IF q.bid \in Book(q) /\ q.ask \in Book(q) THEN (q.bid + q.ask) \div 2 ELSE q.last

\* What outcome.fetch makes of the metadata stored when it began; the receipt
\* it asks the chain for is stored and not read.
OutcomeStatus(raw) ==
    IF raw = NoValue THEN "resolved_final"
    ELSE IF raw.status # "" THEN raw.status
    ELSE IF raw.voided THEN "void" ELSE "resolved_final"
OutcomeLabel(raw) == IF raw = NoValue \/ raw.winner = "" THEN "unknown" ELSE raw.winner

OutcomesOf(m) == {i \in DOMAIN outcomes : outcomes[i].market = m}

-----------------------------------------------------------------------------
(* Events, answers and the rows other rows need *)

Event(type, key, shape) == [type |-> type, key |-> key, shape |-> shape]
Held(e) == {i \in DOMAIN events : e.key # "" /\ events[i].type = e.type /\ events[i].key = e.key}

\* Mutant: a key that is known answers for any payload.
NeverConflicts(e) == FALSE

\* emit_event finds the key with another payload: the transaction rolls back.
Conflicts(e) == \E i \in Held(e) : events[i] # e

Emitted(created, e) == IF Held(e) = {} THEN events \o created \o <<e>> ELSE events \o created

Answered(c) == \E r \in answers : r.id = c.id
Answer(c, code, market) == answers' = answers \cup {[id |-> c.id, code |-> code, market |-> market]}
Criteria(rule) == IF rule = "" THEN "question" ELSE rule

\* _ensure_market_instrument: what is there already stays as it is.
EnsureMarketInstrument(m, rule) ==
    /\ venues' = venues \cup {"adapter"}
    /\ instrument' = IF instrument[m] # NoValue THEN instrument
                     ELSE [instrument EXCEPT ![m] = [venue |-> "adapter", criteria |-> Criteria(rule)]]

\* _ensure_market_bind_prerequisites, with the keyless events of what it creates.
EnsureMarketBindPrerequisites(m, rule, e) ==
    LET venue == IF "manual" \in venues THEN << >> ELSE <<Event("venue.created", "", <<m>>)>>
        created == IF instrument[m] # NoValue THEN venue ELSE Append(venue, Event("instrument.created", "", <<m>>))
    IN /\ venues' = venues \cup {"manual"}
       /\ instrument' = IF instrument[m] # NoValue THEN instrument
                        ELSE [instrument EXCEPT ![m] = [venue |-> "manual", criteria |-> Criteria(rule)]]
       /\ events' = Emitted(created, e)

Shape(m, r) == <<m, r.state, r.via>>

-----------------------------------------------------------------------------
(* market.bind without the adapter: one transaction *)

UnderWay(c) == \E a \in Agents : job[a] # NoValue /\ job[a].call = c
Idle(c) == ~Answered(c) /\ ~UnderWay(c)
BindsManually(c) == Idle(c) /\ c.op = "bind" /\ c.manual
Bound(c) == Event("market.bound", c.key, << >>)

\* The key decides, whatever market the call names.
MarketBindReplayed(c) ==
    /\ BindsManually(c)
    /\ \E i \in Held(Bound(c)) :
        /\ EnsureMarketBindPrerequisites(events[i].shape[1], c.rule, events[i])
        /\ Answer(c, "replay", events[i].shape[1])
    /\ UNCHANGED <<clock, venueAt, row, snapshots, outcomes, job>>

MarketBindExisting(c) ==
    /\ BindsManually(c) /\ Held(Bound(c)) = {} /\ row[c.market] # NoValue
    /\ EnsureMarketBindPrerequisites(c.market, c.rule, Event("market.bound", c.key, Shape(c.market, row[c.market])))
    /\ Answer(c, "ok", c.market)
    /\ UNCHANGED <<clock, venueAt, row, snapshots, outcomes, job>>

MarketBindNew(c) ==
    LET new == [state |-> c.state, raw |-> NoValue, rule |-> c.rule, via |-> "manual", cachedAt |-> clock]
    IN /\ BindsManually(c) /\ Held(Bound(c)) = {} /\ row[c.market] = NoValue
       /\ row' = [row EXCEPT ![c.market] = new]
       /\ EnsureMarketBindPrerequisites(c.market, c.rule, Event("market.bound", c.key, Shape(c.market, new)))
       /\ Answer(c, "ok", c.market)
       /\ UNCHANGED <<clock, venueAt, snapshots, outcomes, job>>

-----------------------------------------------------------------------------
(* Live calls: read, ask, write *)

Asks(c) == Idle(c) /\ (c.op # "bind" \/ ~c.manual)

NotFound(c) ==
    /\ Asks(c) /\ c.op # "bind" /\ row[c.market] = NoValue
    /\ Answer(c, "NOT_FOUND", c.market) /\ UNCHANGED <<clock, venueAt, tables, job>>

AnswerFromCache(c) ==
    /\ Asks(c) /\ c.op = "refresh" /\ row[c.market] # NoValue /\ CacheHit(row[c.market])
    /\ Answer(c, "cache", c.market) /\ UNCHANGED <<clock, venueAt, tables, job>>

\* outcome.fetch takes an outcome that is there as the answer.
OutcomeFetchExisting(c) ==
    /\ Asks(c) /\ c.op = "outcome" /\ row[c.market] # NoValue /\ OutcomesOf(c.market) # {}
    /\ Answer(c, "replay", c.market) /\ UNCHANGED <<clock, venueAt, tables, job>>

BeginFetch(a, c) ==
    /\ Asks(c) /\ job[a] = NoValue
    /\ c.op # "bind" => row[c.market] # NoValue
    /\ c.op = "refresh" => ~CacheHit(row[c.market])
    /\ c.op = "outcome" => OutcomesOf(c.market) = {}
    /\ c.op \in {"snapshot", "series"} => Len(snapshots) < MaxSnapshots
    /\ job' = [job EXCEPT ![a] = [call |-> c, stage |-> "ask", done |-> 0,
                                  raw |-> IF c.op = "outcome" THEN row[c.market].raw ELSE NoValue]]
    /\ UNCHANGED <<clock, venueAt, tables, answers>>

\* _request_json, its retries included, in the end has the venue's view ...
Fetch(a) ==
    /\ job[a] # NoValue /\ job[a].stage = "ask"
    /\ LET m == job[a].call.market
       IN job' = [job EXCEPT ![a].stage = "write",
                             ![a].raw = IF job[a].call.op = "outcome" THEN @ ELSE History[m][venueAt[m]]]
    /\ UNCHANGED <<clock, venueAt, tables, answers>>

\* ... or an error, which is the answer.
FetchFails(a) ==
    /\ job[a] # NoValue /\ job[a].stage = "ask"
    /\ Answer(job[a].call, "ADAPTER_ERROR", job[a].call.market)
    /\ job' = [job EXCEPT ![a] = NoValue]
    /\ UNCHANGED <<clock, venueAt, tables>>

\* The process dies: the call is not answered, and may be made again.
Die(a) == job[a] # NoValue /\ job' = [job EXCEPT ![a] = NoValue] /\ UNCHANGED <<clock, venueAt, tables, answers>>

Writes(a, op) == job[a] # NoValue /\ job[a].stage = "write" /\ job[a].call.op \in op
Finish(a, code) == Answer(job[a].call, code, job[a].call.market) /\ job' = [job EXCEPT ![a] = NoValue]

\* _upsert_market: the row as the venue described it, stamped with the time of
\* the write.  A bind keeps the caller's rule where the venue has none.
UpsertMarket(a) ==
    LET c == job[a].call
        raw == job[a].raw
        rule == IF raw.rule = "" /\ c.op = "bind" THEN c.rule ELSE raw.rule
        new == [state |-> StateOf(raw), raw |-> raw, rule |-> rule, via |-> "adapter", cachedAt |-> clock]
        e == Event(IF c.op = "bind" THEN "market.bound" ELSE "market.refreshed", c.key, Shape(c.market, new))
    IN /\ Writes(a, {"bind", "refresh"})
       /\ \/ ~raw.binary /\ Finish(a, "ADAPTER_ERROR") /\ UNCHANGED tables
          \/ raw.binary /\ Conflicts(e) /\ Finish(a, "IDEMPOTENCY_CONFLICT") /\ UNCHANGED tables
          \/ /\ raw.binary /\ ~Conflicts(e) /\ Finish(a, "ok")
             /\ row' = [row EXCEPT ![c.market] = new]
             /\ EnsureMarketInstrument(c.market, rule)
             /\ events' = Emitted(<< >>, e)
             /\ UNCHANGED <<snapshots, outcomes>>
       /\ UNCHANGED <<clock, venueAt>>

\* _insert_snapshot writes the row before it looks for the key, and logs its
\* time and not its prices.
InsertSnapshot(m, key, at, quote) ==
    LET e == Event("snapshot.added", key, <<m, at>>)
    IN /\ ~Conflicts(e)
       /\ EnsureMarketInstrument(m, row[m].rule)
       /\ snapshots' = Append(snapshots, [market |-> m, at |-> at, key |-> key, price |-> Mark(quote), event |-> Held(e) = {}])
       /\ events' = Emitted(<< >>, e)
       /\ UNCHANGED <<row, outcomes>>

SnapshotFetch(a) ==
    LET c == job[a].call
    IN /\ Writes(a, {"snapshot"})
       /\ \/ InsertSnapshot(c.market, c.key, clock, job[a].raw.quote) /\ Finish(a, "ok")
          \/ /\ Conflicts(Event("snapshot.added", c.key, <<c.market, clock>>))
             /\ Finish(a, "IDEMPOTENCY_CONFLICT") /\ UNCHANGED tables
       /\ UNCHANGED <<clock, venueAt>>

\* Point by point, each in a transaction and under a key of its own.
PointKey(c, n) == IF c.key = "" THEN "" ELSE c.key \o ":" \o ToString(n)
SnapshotFetchSeries(a) ==
    LET c == job[a].call
        n == job[a].done + 1
        point == Series[c.market][n]
    IN /\ Writes(a, {"series"})
       /\ \/ /\ n <= Len(Series[c.market])
             /\ InsertSnapshot(c.market, PointKey(c, n), point.at, point.quote)
             /\ job' = [job EXCEPT ![a].done = n] /\ UNCHANGED answers
          \/ n > Len(Series[c.market]) /\ Finish(a, "ok") /\ UNCHANGED tables
          \/ /\ n <= Len(Series[c.market])
             /\ Conflicts(Event("snapshot.added", PointKey(c, n), <<c.market, point.at>>))
             /\ Finish(a, "IDEMPOTENCY_CONFLICT") /\ UNCHANGED tables
       /\ UNCHANGED <<clock, venueAt>>

\* Mutant: the look before the RPC is trusted.
StillNone(m) == TRUE

\* The look that counts is the one inside the transaction.
NoneYet(m) == OutcomesOf(m) = {}

OutcomeFetch(a) ==
    LET c == job[a].call
        raw == job[a].raw
        e == Event("outcome.recorded", c.key, <<c.market, OutcomeStatus(raw), OutcomeLabel(raw)>>)
    IN /\ Writes(a, {"outcome"})
       /\ \/ ~NoneYet(c.market) /\ Finish(a, "replay") /\ UNCHANGED tables
          \/ NoneYet(c.market) /\ Conflicts(e) /\ Finish(a, "IDEMPOTENCY_CONFLICT") /\ UNCHANGED tables
          \/ /\ NoneYet(c.market) /\ ~Conflicts(e) /\ Finish(a, "ok")
             /\ EnsureMarketInstrument(c.market, row[c.market].rule)
             /\ outcomes' = Append(outcomes, [market |-> c.market, status |-> OutcomeStatus(raw), label |-> OutcomeLabel(raw)])
             /\ events' = Emitted(<< >>, e)
             /\ UNCHANGED <<row, snapshots>>
       /\ UNCHANGED <<clock, venueAt>>

-----------------------------------------------------------------------------
Tick == clock < MaxClock /\ clock' = clock + 1 /\ UNCHANGED <<venueAt, tables, job, answers>>
VenueMoves ==
    /\ \E m \in Markets : venueAt[m] < Len(History[m]) /\ venueAt' = [venueAt EXCEPT ![m] = @ + 1]
    /\ UNCHANGED <<clock, tables, job, answers>>

MarketsNext ==
    \/ Tick \/ VenueMoves
    \/ \E c \in Calls :
        \/ MarketBindReplayed(c) \/ MarketBindExisting(c) \/ MarketBindNew(c)
        \/ NotFound(c) \/ AnswerFromCache(c) \/ OutcomeFetchExisting(c)
        \/ \E a \in Agents : BeginFetch(a, c)
    \/ \E a \in Agents :
        \/ Fetch(a) \/ FetchFails(a) \/ Die(a)
        \/ UpsertMarket(a) \/ SnapshotFetch(a) \/ SnapshotFetchSeries(a) \/ OutcomeFetch(a)

MarketsSpec == MarketsInit /\ [][MarketsNext]_marketsVars

-----------------------------------------------------------------------------
(* Properties *)

\* A market has one outcome from the venue, however many processes fetch it and
\* whatever keys they use: the table has no constraint that says so, only the
\* second look of outcome.fetch, and signal.scan and the scorer read the table
\* as if it had one.
OneOutcomePerMarket == \A m \in Markets : Cardinality(OutcomesOf(m)) <= 1

\* What a market's row says is what some event said of it: a refresh that is
\* refused for its key leaves no trace of the view it fetched, and a replayed
\* one changes nothing the log did not say before.
RowIsLogged ==
    \A m \in Markets : row[m] # NoValue => \E i \in DOMAIN events :
        events[i].type \in {"market.bound", "market.refreshed"} /\ events[i].shape = Shape(m, row[m])
=============================================================================
