----------------------------- MODULE WorkQueue ------------------------------
(***************************************************************************)
(* What an agent still owes its journal, as two tools tell it: the pages of *)
(* report.work_queue, which an agent walks with a cursor while others       *)
(* write, and the packet of report.bootstrap, which composes the queue and  *)
(* the lifecycle cases in one read snapshot and cuts them to a budget.      *)
(*                                                                         *)
(* Decisions, notes, outcomes and the clock are Desk's; forecasts are added *)
(* here as far as the reports read them.  Sizes in characters are           *)
(* abstracted to whether a section fits.                                    *)
(***************************************************************************)
EXTENDS Desk

CONSTANTS
    ForecastKinds,  \* what agents send to forecast.add
    LiveUntil,      \* [market -> close_at of its markets row while that is open, or None]
    Budgets,        \* what agents send to report.bootstrap
    PageSize, MaxForecasts, MaxCalls  \* MaxCalls bounds walks and packets

ForecastKind == [market: Markets, due: Nat \cup {None}]
\* items: rows of a list; fits: the sections that fit their characters; pruned:
\* how many of PruneOrder the whole packet has to give up.
Budget == [items: Nat, fits: SUBSET {"active_ideas", "obligations"}, pruned: 0..2]

ASSUME WorkQueueAssumption ==
    /\ ForecastKinds \subseteq ForecastKind /\ Budgets \subseteq Budget
    /\ LiveUntil \in [Markets -> Nat \cup {None}]
    /\ PageSize \in Nat \ {0} /\ {MaxForecasts, MaxCalls} \subseteq Nat

VARIABLES
    forecasts, \* rows, in the order of their creation
    finals,    \* markets whose outcome is final
    scored,    \* forecasts with a forecast_scores row
    retired,   \* forecasts with an incoming supersedes edge
    linked,    \* <<source, target>>: other edges between decisions
    walk,      \* a walk through the pages of the queue, or None
    packet,    \* a bootstrap packet in the making, or None
    calls      \* how many walks and packets there were

sources == <<forecasts, finals, scored, retired, linked>>
readers == <<walk, packet, calls>>
queueVars == <<vars, sources, readers>>

QueueInit ==
    /\ Init
    /\ forecasts = << >> /\ finals = {} /\ scored = {} /\ retired = {} /\ linked = {}
    /\ walk = None /\ packet = None /\ calls = 0

-----------------------------------------------------------------------------
(* lifecycle.py *)

DemonstrablyLive(m) == LiveUntil[m] # None /\ LiveUntil[m] > day

\* _derive_forecast_case.  Any outcome of the market will do, final or not.
ForecastLifecycle(f) ==
    LET k == forecasts[f] IN
    IF f \in retired THEN "superseded"
    ELSE IF f \in scored THEN "scored"
    ELSE IF k.market \in resolved THEN "outcome_recorded"
    ELSE IF IF k.due # None THEN k.due <= day ELSE ~DemonstrablyLive(k.market) THEN "pending_review"
    ELSE "open"

\* derive_lifecycle_cases, in the order of created_at and then case_id.
LifecycleCases ==
    {[id |-> <<"decision", d>>, state |-> Lifecycle(d), due |-> decisions[d].kind.reviewBy,
      order |-> <<decisions[d].created, 0, d>>] : d \in Cases}
    \cup {[id |-> <<"forecast", f>>, state |-> ForecastLifecycle(f), due |-> forecasts[f].due,
           order |-> <<forecasts[f].created, 1, f>>] : f \in DOMAIN forecasts}

-----------------------------------------------------------------------------
(* work_queue.py *)

Obliging == [pending_review |-> 0, reflection_due |-> 0, stale |-> 1, adherence_due |-> 2]

\* _item_from_case: the kind of an item, in the order of the kinds' names.
ItemKind(c) ==
    CASE c.state = "adherence_due" -> 0
      [] c.state = "reflection_due" -> 1
      [] c.state = "pending_review" /\ c.id[1] = "forecast" -> 2
      [] c.state = "pending_review" -> 3
      [] c.state = "stale" -> 4

\* _primary_ref: the first of the references of the case's own kind, which are
\* sorted; those of a decision include the decisions that link to it.
Primary(c) ==
    IF c.id[1] = "forecast" THEN c.id[2]
    ELSE Min({c.id[2]} \cup {e[1] : e \in {x \in linked : x[2] = c.id[2]}})

\* _item_sort_key: priority, due_at (none sorts first), item_id.
WorkItems ==
    {[id |-> c.id, state |-> c.state, order |-> c.order,
      key |-> <<Obliging[c.state], IF c.due = None THEN -1 ELSE c.due, ItemKind(c), Primary(c)>>]
        : c \in {x \in LifecycleCases : x.state \in DOMAIN Obliging}}

-----------------------------------------------------------------------------
(* Pages *)

Below(a, b) == \E n \in DOMAIN a : a[n] < b[n] /\ \A i \in 1..n - 1 : a[i] = b[i]

\* Rows with one key keep the order of the cases.
Before(r, s) == Below(r.key, s.key) \/ (r.key = s.key /\ Below(r.order, s.order))
Place(r, rows) == Cardinality({s \in rows : Before(s, r)})

\* Mutant: a page starts after as many rows as were shown.
RestByCount(rows, w) == {r \in rows : Place(r, rows) >= w.shown}

\* The rows after the cursor, which is a whole key.
Rest(rows, w) == {r \in rows : w.after = << >> \/ Below(w.after, r.key)}

\* A row stays while its key does and no other row has the same key.
Staying(rows) ==
    {<<r.id, r.key>> : r \in {x \in rows : \A y \in rows : y.key = x.key => y = x}}

BeginWalk ==
    /\ walk = None /\ calls < MaxCalls
    /\ walk' = [after |-> << >>, shown |-> 0, done |-> FALSE, seen |-> {}, stayed |-> Staying(WorkItems)]
    /\ calls' = calls + 1
    /\ UNCHANGED <<vars, sources, packet>>

\* The cursor is the key of the last row, if more rows follow.
NextPage ==
    /\ walk # None /\ ~walk.done
    /\ LET rest == Rest(WorkItems, walk)
           page == {r \in rest : Place(r, rest) < PageSize}
           last == CHOOSE r \in page : \A s \in page : ~Before(r, s)
       IN walk' = [walk EXCEPT
            !.seen = @ \cup {<<r.id, r.key>> : r \in page},
            !.shown = @ + Cardinality(page),
            !.after = IF page = {} THEN @ ELSE last.key,
            !.done = Cardinality(rest) <= PageSize]
    /\ UNCHANGED <<vars, sources, packet, calls>>

-----------------------------------------------------------------------------
(* bootstrap.py *)

\* _active_ideas: the cases that have a bucket.
Ideas(cases) ==
    {c \in cases : \/ c.id[1] = "forecast" /\ c.state \in {"open", "pending_review"}
                   \/ c.state \in {"pending_review", "stale", "adherence_due", "reflection_due"}}

\* read_snapshot pins the moment that both reports read, at one as_of.
BeginPacket ==
    /\ packet = None /\ calls < MaxCalls
    /\ packet' = [pinned |-> [queue |-> WorkItems, cases |-> LifecycleCases],
                  step |-> "work", obligations |-> {}, ideas |-> {},
                  sections |-> << >>, partial |-> FALSE]
    /\ calls' = calls + 1
    /\ UNCHANGED <<vars, sources, walk>>

PacketWork ==
    /\ packet # None /\ packet.step = "work"
    /\ packet' = [packet EXCEPT !.step = "lifecycle", !.obligations = packet.pinned.queue]
    /\ UNCHANGED <<vars, sources, walk, calls>>

\* Mutant: no snapshot, each report reads for itself.
PacketLifecycleLive ==
    /\ packet # None /\ packet.step = "lifecycle"
    /\ packet' = [packet EXCEPT !.step = "budget", !.ideas = Ideas(LifecycleCases)]
    /\ UNCHANGED <<vars, sources, walk, calls>>

PacketLifecycle ==
    /\ packet # None /\ packet.step = "lifecycle"
    /\ packet' = [packet EXCEPT !.step = "budget", !.ideas = Ideas(packet.pinned.cases)]
    /\ UNCHANGED <<vars, sources, walk, calls>>

PruneOrder == <<"active_ideas", "obligations">>
Sections == {"active_ideas", "obligations"}

\* _apply_budget: the first rows, or none when they do not fit.  The buckets of
\* active_ideas are cut one by one; here they count as one list.
ApplyBudget(rows, name, b) ==
    LET kept == IF Cardinality(rows) > b.items THEN b.items ELSE Cardinality(rows)
        shown == IF name \in b.fits THEN kept ELSE 0
    IN [shown |-> shown, available |-> Cardinality(rows),
        reason |-> IF name \notin b.fits THEN "max_chars"
                   ELSE IF kept < Cardinality(rows) THEN "max_items" ELSE "none"]

\* _section_count: buckets without rows count as one.
SectionCount(section, name) ==
    IF name = "active_ideas" /\ section.reason # "max_chars" THEN Max({1, section.shown}) ELSE section.shown

\* _enforce_total_budget empties sections in PruneOrder; one that counts nothing
\* keeps its reason.
Enforced(section, name, b) ==
    IF name \in {PruneOrder[i] : i \in 1..b.pruned} /\ SectionCount(section, name) > 0
    THEN [shown |-> 0, available |-> SectionCount(section, name), reason |-> "max_total_chars"]
    ELSE section

\* The caller's budget does not matter before.
PacketBudget(b) ==
    /\ packet # None /\ packet.step = "budget"
    /\ LET rows == [obligations |-> packet.obligations, active_ideas |-> packet.ideas]
           cut == [s \in Sections |-> ApplyBudget(rows[s], s, b)]
       IN packet' = [packet EXCEPT !.step = "done", !.pinned = << >>,
                        !.sections = [s \in Sections |-> Enforced(cut[s], s, b)],
                        !.partial = b.pruned > 0 \/ \E s \in Sections : cut[s].reason # "none"]
    /\ UNCHANGED <<vars, sources, walk, calls>>

-----------------------------------------------------------------------------
(* The journal moves *)

\* What a walk that is under way knows of the rows that stayed.
Watch ==
    walk' = IF walk = None THEN None
            ELSE [walk EXCEPT !.stayed = @ \cap Staying(WorkItems)']

InsertForecast(k) ==
    /\ Len(forecasts) < MaxForecasts
    /\ forecasts' = Append(forecasts, [market |-> k.market, due |-> k.due, created |-> day])
    /\ scored' = IF k.market \in finals THEN scored \cup {Len(forecasts) + 1} ELSE scored
    /\ UNCHANGED <<vars, finals, linked>>

ForecastAdd(k) == InsertForecast(k) /\ UNCHANGED retired
ForecastSupersede(f, k) ==
    /\ k.market = forecasts[f].market
    /\ InsertForecast(k) /\ retired' = retired \cup {f}

\* resolution.add: a final outcome scores the forecasts in force.
ResolutionAdd(m, final) ==
    /\ OutcomeAdd(m)
    /\ finals' = IF final THEN finals \cup {m} ELSE finals
    /\ scored' = IF final THEN scored \cup {f \in DOMAIN forecasts : forecasts[f].market = m /\ f \notin retired} ELSE scored
    /\ UNCHANGED <<forecasts, retired, linked>>

\* memory.link between two decisions, with an edge that retires nothing.
LinkDecisions(a, b) ==
    /\ notes < MaxNotes /\ notes' = notes + 1
    /\ linked' = linked \cup {<<a, b>>}
    /\ UNCHANGED <<day, book, snapshots, resolved, superseded, reflected, adhered, forecasts, finals, scored, retired>>

Moves ==
    \/ /\ (\E k \in DecisionKinds : DecisionAdd(k)) \/ (\E d \in DOMAIN decisions : Note(d)) \/ Tick
       /\ UNCHANGED sources
    \/ \E k \in ForecastKinds : ForecastAdd(k) \/ \E f \in DOMAIN forecasts : ForecastSupersede(f, k)
    \/ \E m \in Markets, final \in BOOLEAN : ResolutionAdd(m, final)
    \/ \E a, b \in DOMAIN decisions : a # b /\ LinkDecisions(a, b)

QueueNext ==
    \/ Moves /\ Watch /\ UNCHANGED <<packet, calls>>
    \/ BeginWalk \/ BeginPacket \/ PacketWork \/ PacketLifecycle
    \/ \E b \in Budgets : PacketBudget(b)
    \/ NextPage

QueueSpec == QueueInit /\ [][QueueNext]_queueVars

-----------------------------------------------------------------------------
(* Properties *)

\* Whoever walks the pages to the end has seen every row that was there, under its
\* own key, from the first page to the last, although rows came, went and changed
\* places between the pages (the cursor of report.work_queue).
WalkShowsWhatStays == walk # None => (walk.done => walk.stayed \subseteq walk.seen)

\* A packet is of one moment and says what it leaves out: an obligation is about an
\* idea in the same state, and an idea that obliges has its obligation, whatever was
\* committed between the two reports (read_snapshot in bootstrap.py); and what any
\* of the three budgets cut away shows in the packet and in its section.
PacketIsOneMoment ==
    packet # None =>
        /\ packet.step \in {"budget", "done"} =>
             {<<o.id, o.state>> : o \in packet.obligations}
               = {<<c.id, c.state>> : c \in {x \in packet.ideas : x.state \in DOMAIN Obliging}}
        /\ packet.step = "done" =>
             \A s \in DOMAIN packet.sections :
                 packet.sections[s].shown < Cardinality(IF s = "obligations" THEN packet.obligations ELSE packet.ideas)
                   => packet.partial /\ packet.sections[s].reason # "none"
=============================================================================
