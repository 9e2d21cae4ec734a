------------------------------- MODULE Desk -------------------------------
(***************************************************************************)
(* The desk of a trading agent: its decisions, the positions that          *)
(* paper_enter opens, the snapshots that mark them, and what the agent     *)
(* still owes the journal.  Positions are a projection of position_events; *)
(* profit and loss and obligations are derived at every read, by several   *)
(* reports that do not share their queries.                                *)
(*                                                                         *)
(* Each handler is one transaction (module EventLog), so each is one step; *)
(* replayed calls write nothing and are EventLog's.  Reports are operators *)
(* evaluated in a state.  No tool writes a position event other than the   *)
(* 'open' of paper_enter (tt fixture seed does), so exits are left out.    *)
(***************************************************************************)
EXTENDS Integers, Sequences, FiniteSets, FiniteSetsExt

CONSTANTS
    Markets,
    DecisionKinds,  \* what agents send to decision.add
    Prices,         \* YES prices in cents
    None,           \* a NULL column
    StaleAfter,     \* stale_threshold_days
    MaxDay, MaxDecisions, MaxSnapshots, MaxNotes   \* bounds

Priced == {"paper_enter", "paper_exit", "actual_enter", "actual_exit", "add", "reduce"}
NonAction == {"watch", "skip", "hold", "invalidate_thesis", "update_thesis", "review"}
DecisionTypes == Priced \cup NonAction \cup {"resolved"}
PositionSides == {"long", "short", "yes", "no", "pairs_long_short"}
DecisionSides == PositionSides \cup {"flat_neutral", None}

\* scoped: the decision names a playbook version; marked: its metadata hold a
\* material_non_action marker.
DecisionKind == [market: Markets, type: DecisionTypes, side: DecisionSides,
                 quantity: Nat \cup {None}, price: 0..100 \cup {None},
                 reviewBy: Nat \cup {None}, scoped: BOOLEAN, marked: BOOLEAN]

ASSUME DeskAssumption ==
    /\ None \notin Nat
    /\ DecisionKinds \subseteq DecisionKind
    /\ Prices \subseteq 0..100
    /\ {StaleAfter, MaxDay, MaxDecisions, MaxSnapshots, MaxNotes} \subseteq Nat

VARIABLES
    day,        \* the clock
    decisions,  \* rows, in the order of their creation
    events,     \* position_events rows; an event's position is its index
    positions,  \* the projection: [position -> row]
    snapshots,  \* rows [market, captured, price]; one without price has a bid
    resolved,   \* markets with an outcomes row
    superseded, \* decisions with an incoming supersedes edge
    reflected,  \* decisions with a reflection about them
    adhered,    \* decisions with a decision_playbook_rules row
    notes       \* how many of these three were written

vars == <<day, decisions, events, positions, snapshots, resolved, superseded,
          reflected, adhered, notes>>
book == <<decisions, events, positions>>
about == <<superseded, reflected, adhered, notes>>

Init ==
    /\ day = 0 /\ decisions = << >> /\ events = << >> /\ positions = << >>
    /\ snapshots = {} /\ resolved = {}
    /\ superseded = {} /\ reflected = {} /\ adhered = {} /\ notes = 0

-----------------------------------------------------------------------------
(* The positions projection: projections.py *)

\* Mutant: the first row instead of the last.
EarliestPrice(m, quoted) ==
    LET Q == {s \in quoted : s.market = m /\ s.price # None}
    IN IF Q = {} THEN None
       ELSE (CHOOSE s \in Q : \A t \in Q : s.captured <= t.captured).price

\* _latest_snapshot_price: ORDER BY captured_at DESC among rows with a price.
LatestPrice(m, quoted) ==
    LET Q == {s \in quoted : s.market = m /\ s.price # None}
    IN IF Q = {} THEN None
       ELSE (CHOOSE s \in Q : \A t \in Q : s.captured >= t.captured).price

\* _unrealized_pnl: snapshots hold YES prices, entries the price of their side.
UnrealizedPnl(side, mark, avg, qty) ==
    IF side = "no" THEN (100 - mark - avg) * (IF qty < 0 THEN -qty ELSE qty)
    ELSE (mark - avg) * qty

\* _accumulate_position of a position with its opening event.
Accumulate(e, quoted) ==
    LET open == e.delta # 0
        mark == LatestPrice(e.market, quoted)
    IN [market |-> e.market, side |-> e.side, quantity |-> e.delta,
        status |-> IF open THEN "open" ELSE "closed",
        avg |-> IF open THEN e.price ELSE None,
        unrealized |-> IF open /\ mark # None
                       THEN UnrealizedPnl(e.side, mark, e.price, e.delta) ELSE None]

\* rebuild_positions: DELETE and replay.
Rebuilt(rows, quoted) == [p \in DOMAIN rows |-> Accumulate(rows[p], quoted)]

-----------------------------------------------------------------------------
(* decision.add and the tools around it *)

\* DECISION_MATRIX on the fields that the model keeps.
Allowed(k) ==
    /\ (k.type \in Priced) <=> (k.quantity # None)
    /\ (k.type \in Priced) <=> (k.price # None)
    /\ k.type \in Priced => k.side # None
    /\ k.type \in {"invalidate_thesis", "update_thesis", "resolved", "review"} => k.side = None
    /\ k.type = "review" => k.reviewBy # None
    /\ k.reviewBy # None => k.type \in {"review", "watch", "hold"}

\* validate_material_non_action: every category names only non-actions.
MarkerAllowed(k) == k.marked => k.type \in NonAction

\* _paper_enter_quantity_delta, and its mutant.
UnsignedDelta(k) == k.quantity
SignedDelta(k) == IF k.side \in {"no", "short"} THEN -k.quantity ELSE k.quantity

\* What decision.add inserts: the decision with its event, ...
RecordDecision(k) == decisions' = Append(decisions, [kind |-> k, created |-> day])

\* ... and for paper_enter the opening position event, after which the positions
\* are rebuilt.  decisions accepts the side flat_neutral and positions does not:
\* such an entry fails in the rebuild and nothing of the transaction stays.
OpenPosition(k) ==
    /\ k.side \in PositionSides
    /\ events' = Append(events, [market |-> k.market, side |-> k.side, price |-> k.price,
                                 delta |-> SignedDelta(k), decision |-> Len(decisions) + 1])
    /\ positions' = Rebuilt(events', snapshots)

DecisionAdd(k) ==
    /\ Len(decisions) < MaxDecisions
    /\ Allowed(k) /\ MarkerAllowed(k)
    /\ RecordDecision(k)
    /\ IF k.type = "paper_enter" THEN OpenPosition(k) ELSE UNCHANGED <<events, positions>>
    /\ UNCHANGED <<day, snapshots, resolved, about>>

\* snapshot.add: captured_at is the caller's; the projection is not rebuilt.
SnapshotAdd(m, t, p) ==
    /\ Cardinality(snapshots) < MaxSnapshots
    /\ \A s \in snapshots : s.market = m => s.captured # t
    /\ snapshots' = snapshots \cup {[market |-> m, captured |-> t, price |-> p]}
    /\ UNCHANGED <<day, book, resolved, about>>

\* journal.rebuild_projections
RebuildProjections ==
    /\ positions' = Rebuilt(events, snapshots)
    /\ UNCHANGED <<day, decisions, events, snapshots, resolved, about>>

\* resolution.add of any status; scores are ForecastScoring's.
OutcomeAdd(m) ==
    /\ resolved' = resolved \cup {m}
    /\ UNCHANGED <<day, book, snapshots, about>>

\* memory.link with a supersedes edge to d, memory.reflect about d, and
\* playbook.record_adherence for d: they check that d exists and nothing more.
Link(d) == superseded' = superseded \cup {d} /\ UNCHANGED <<reflected, adhered>>
Reflect(d) == reflected' = reflected \cup {d} /\ UNCHANGED <<superseded, adhered>>
RecordAdherence(d) == adhered' = adhered \cup {d} /\ UNCHANGED <<superseded, reflected>>

Note(d) ==
    /\ notes < MaxNotes
    /\ notes' = notes + 1
    /\ Link(d) \/ Reflect(d) \/ RecordAdherence(d)
    /\ UNCHANGED <<day, book, snapshots, resolved>>

Tick ==
    /\ day < MaxDay
    /\ day' = day + 1
    /\ UNCHANGED <<book, snapshots, resolved, about>>

Next ==
    \/ \E k \in DecisionKinds : DecisionAdd(k)
    \/ \E m \in Markets, t \in 1..MaxSnapshots, p \in Prices \cup {None} : SnapshotAdd(m, t, p)
    \/ RebuildProjections
    \/ \E m \in Markets : OutcomeAdd(m)
    \/ \E d \in DOMAIN decisions : Note(d)
    \/ Tick

Spec == Init /\ [][Next]_vars

-----------------------------------------------------------------------------
(* What the reports derive *)

\* remark_open_positions, as report.pnl and review.bundle apply it.
PnlMark(p) ==
    LET r == positions[p]
        mark == LatestPrice(r.market, snapshots)
    IN IF r.status = "open" /\ mark # None
       THEN UnrealizedPnl(r.side, mark, r.avg, r.quantity) ELSE r.unrealized

\* _latest_snapshot_mark_by_instrument takes the latest row with any quote, and
\* _position_row_payload re-marks from it only when that row has a price.
LatestQuotes(m) ==
    LET Q == {s \in snapshots : s.market = m}
    IN {s \in Q : \A t \in Q : s.captured >= t.captured}

ExposureMark(p) ==
    LET r == positions[p]
        prices == {s.price : s \in LatestQuotes(r.market)} \ {None}
    IN IF r.status = "open" /\ prices # {}
       THEN UnrealizedPnl(r.side, CHOOSE q \in prices : TRUE, r.avg, r.quantity)
       ELSE r.unrealized

\* _derive_decision_case: the first state that applies, and a mutant order.
\* "outcome_recorded" stands for "scored" too.
ClockFirst == <<"superseded", "reflected", "adherence_recorded", "adherence_due",
    "reflection_due", "pending_review", "stale", "outcome_recorded", "resolved",
    "closed", "open">>
LifecycleOrder == <<"superseded", "reflected", "adherence_recorded", "adherence_due",
    "reflection_due", "outcome_recorded", "resolved", "pending_review", "stale",
    "closed", "open">>

LaterResolved(d) ==
    \E e \in d + 1 .. Len(decisions) :
        /\ decisions[e].kind.type = "resolved"
        /\ decisions[e].kind.market = decisions[d].kind.market

Applies(state, d) ==
    LET k == decisions[d].kind
        outcome == k.market \in resolved
    IN CASE state = "superseded" -> d \in superseded
         [] state = "reflected" -> d \in reflected
         [] state = "adherence_recorded" -> k.scoped /\ d \in adhered
         [] state = "adherence_due" -> k.scoped
         [] state = "reflection_due" -> k.type = "review" /\ outcome
         [] state = "outcome_recorded" -> outcome
         [] state = "resolved" -> LaterResolved(d)
         [] state = "pending_review" -> k.reviewBy # None /\ k.reviewBy <= day
         [] state = "stale" -> /\ k.type \in {"watch", "hold", "review"}
                               /\ decisions[d].created < day - StaleAfter
         [] state = "closed" -> k.type \in {"skip", "invalidate_thesis"} /\ ~k.marked
         [] state = "open" -> TRUE

\* derive_lifecycle_cases: only non-actions are cases.
Cases == {d \in DOMAIN decisions : decisions[d].kind.type \in NonAction}

Lifecycle(d) ==
    LifecycleOrder[Min({i \in DOMAIN LifecycleOrder : Applies(LifecycleOrder[i], d)})]

-----------------------------------------------------------------------------
(* Properties *)

\* The open positions of a market add up to what the paper_enter decisions bought
\* on the long side less what they bought on the short side: no entry is lost by
\* the drop-and-rebuild, none counts twice, none is kept without its position
\* (decision.py: "exposure nets correctly"; persistence.md 7).
ExposureFollowsEntries ==
    \A m \in Markets :
        LET Entered(sides) == {d \in DOMAIN decisions :
                LET k == decisions[d].kind
                IN k.type = "paper_enter" /\ k.market = m /\ k.side \in sides}
            Bought(d) == decisions[d].kind.quantity
            Held(p) == positions[p].quantity
            Open == {p \in DOMAIN positions :
                        positions[p].market = m /\ positions[p].status = "open"}
        IN MapThenSumSet(Held, Open)
             = MapThenSumSet(Bought, Entered({"yes", "long", "pairs_long_short"}))
               - MapThenSumSet(Bought, Entered({"no", "short"}))

\* The profit-and-loss and the exposure reports show one number for a position
\* (remark_open_positions: "every PnL surface reports the same number"), whatever
\* was marked when.  True while the latest quote has a price; when it has only a
\* bid, the first falls back to an older price and the second to the stored mark.
\* And the number is right for a hedge: equal quantities of YES and NO are worth
\* what they cost and nothing else, whatever the snapshot says (side-native entry
\* prices against YES marks, negative quantities for NO).
PnlSurfacesAgree ==
    /\ \A p \in DOMAIN positions :
         (\A s \in LatestQuotes(positions[p].market) : s.price # None)
             => PnlMark(p) = ExposureMark(p)
    /\ \A p, q \in DOMAIN positions :
         LET a == positions[p]
             b == positions[q]
         IN ( /\ a.market = b.market /\ a.side = "yes" /\ b.side = "no"
              /\ a.status = "open" /\ a.quantity = -b.quantity
              /\ PnlMark(p) # None )
            => PnlMark(p) + PnlMark(q) = a.quantity * (100 - a.avg - b.avg)

\* An obligation that evidence or the agent has settled does not come back when a
\* deadline passes or the record grows old, whatever happens in between.
Settled == {"superseded", "reflected", "adherence_recorded", "reflection_due",
            "outcome_recorded", "resolved", "closed"}

NeverReopens ==
    [][\A d \in Cases : Lifecycle(d) \in Settled => Lifecycle(d)' \in Settled]_vars
=============================================================================
