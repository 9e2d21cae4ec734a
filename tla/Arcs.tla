-------------------------------- MODULE Arcs --------------------------------
(***************************************************************************)
(* journal.bundle.plan, which tells an agent the calls that make a watch,    *)
(* skip or paper_enter arc, the agents that follow it, and                   *)
(* journal.bundle.status, which says of an arc what it still lacks.          *)
(*                                                                          *)
(* An agent keeps the ids its calls returned in memory only: when it dies it *)
(* starts the plan again under the same key prefix, and what was committed   *)
(* answers by its key.  Rows are only added, and the status reads them at    *)
(* one moment here, though the code does so query by query.  Left out: the   *)
(* references to ideas in metadata, stale sources, playbooks.                *)
(***************************************************************************)
EXTENDS Integers, Sequences, FiniteSets, SequencesExt

CONSTANTS
    Planners,    \* agents that follow a plan
    Orders,      \* what they ask for: an arc, a prefix, and the ids they supply
    Market,      \* the rows that are there before
    MaxRelated,  \* max_related of journal.bundle.status
    MaxDeaths    \* bound

Arc == {"watch", "skip", "paper_enter"}
RowKinds == {"venue", "instrument", "snapshot", "source", "thesis", "forecast", "decision", "memory_node"}

\* refs: the rows a row names; an edge names its two ends.
ArcRow == [kind: RowKinds \cup {"edge"}, key: STRING \X STRING, refs: SUBSET (Nat \ {0}), type: Arc \cup {""}]
Order == [arc: Arc, prefix: STRING, ids: [RowKinds -> Nat]]

Edges == {i \in DOMAIN Market : Market[i].kind = "edge"}

\* The walk takes 20 * MaxRelated of the edges it may follow; here there are no more.
ASSUME ArcsAssumption ==
    /\ Orders \subseteq Order /\ IsFiniteSet(Orders) /\ Market \in Seq(ArcRow)
    /\ {MaxRelated, MaxDeaths} \subseteq Nat
    /\ Cardinality(Edges) + 4 * Cardinality(Orders) <= 20 * MaxRelated

VARIABLES
    journal,  \* the rows
    planner,  \* the order of each planner, the ids it has, its next step
    deaths

arcsVars == <<journal, planner, deaths>>

NoOne == [order |-> << >>, ids |-> << >>, next |-> 0, refused |-> FALSE]
ArcsInit == journal = Market /\ planner = [a \in Planners |-> NoOne] /\ deaths = 0

-----------------------------------------------------------------------------
(* journal.bundle.plan *)

Adds(kind, uses) == [makes |-> kind, uses |-> uses, name |-> kind]
Attaches(kind, name) == [makes |-> "edge", uses |-> {"source", kind}, name |-> name]

OrderedCalls ==
    <<Adds("venue", {}), Adds("instrument", {"venue"}), Adds("snapshot", {"instrument"}), Adds("source", {}),
      Adds("thesis", {"instrument"}), Attaches("thesis", "source-thesis"), Adds("forecast", {"thesis"}), Attaches("forecast", "source-forecast"),
      Adds("decision", {"instrument", "thesis", "snapshot", "forecast"}), Attaches("decision", "source-decision"),
      Adds("memory_node", {"decision"})>>

\* Mutant: the keys of the three attachments do not say what is attached to.
KeyOfTool(prefix, step) == <<prefix, IF step.makes = "edge" THEN "source-attach" ELSE step.name>>

StepKey(prefix, step) == <<prefix, step.name>>

-----------------------------------------------------------------------------
(* Agents *)

Begin(a, o) ==
    /\ planner[a] = NoOne
    /\ planner' = [planner EXCEPT ![a] = [order |-> o, ids |-> o.ids, next |-> 1, refused |-> FALSE]]
    /\ UNCHANGED <<journal, deaths>>

\* A plan is done when the calls that are left are saved by an id that was
\* supplied, or is known.
Saved(p, n) == OrderedCalls[n].makes # "edge" /\ p.ids[OrderedCalls[n].makes] # 0
Due(p) == {n \in DOMAIN OrderedCalls : p.next \in 1..n /\ ~Saved(p, n)}
Done(p) == p.next # 0 /\ ~p.refused /\ Due(p) = {}

Called(p, n) ==
    LET step == OrderedCalls[n]
    IN [kind |-> step.makes, key |-> StepKey(p.order.prefix, step), refs |-> {p.ids[u] : u \in step.uses},
        type |-> IF step.makes = "decision" THEN p.order.arc ELSE ""]

Knows(a, n, id) ==
    LET p == planner[a]
        kind == OrderedCalls[n].makes
    IN planner' = [planner EXCEPT ![a] = [order |-> p.order, next |-> n + 1, refused |-> FALSE,
                       ids |-> IF kind = "edge" THEN p.ids ELSE [p.ids EXCEPT ![kind] = id]]]

Keyed(row) == {i \in DOMAIN journal : journal[i].kind = row.kind /\ journal[i].key = row.key}
Reflected(row, id) == [row EXCEPT !.kind = "edge", !.refs = @ \cup {id}]

\* A call under a used key answers with the row when it says the same, and is
\* refused when it does not.  memory.reflect adds its edge to the decision.
CallStep(a) ==
    \E n \in Due(planner[a]) :
        LET row == Called(planner[a], n)
            id == Len(journal) + 1
            made == IF row.kind = "memory_node" THEN <<row, Reflected(row, id)>> ELSE <<row>>
        IN /\ ~planner[a].refused /\ \A m \in Due(planner[a]) : n <= m
           /\ \/ Keyed(row) = {} /\ journal' = journal \o made /\ Knows(a, n, id)
              \/ /\ \E i \in Keyed(row) :
                    IF journal[i] = row THEN Knows(a, n, i) ELSE planner' = [planner EXCEPT ![a].refused = TRUE]
                 /\ UNCHANGED journal
           /\ UNCHANGED deaths

\* It may have died before or after the commit of its last call.
DieAndRestart(a) ==
    /\ planner[a].next > 1 /\ Due(planner[a]) # {} /\ deaths < MaxDeaths /\ deaths' = deaths + 1
    /\ planner' = [planner EXCEPT ![a].ids = planner[a].order.ids, ![a].next = 1]
    /\ UNCHANGED journal

ArcsNext ==
    \E a \in Planners :
        \/ \E o \in Orders : Begin(a, o)
        \/ CallStep(a) \/ DieAndRestart(a)
ArcsSpec == ArcsInit /\ [][ArcsNext]_arcsVars

-----------------------------------------------------------------------------
(* journal.bundle.status *)

KindIn(S, kind) == {i \in S : journal[i].kind = kind}
RefsOf(S, kind) == UNION {journal[i].refs : i \in KindIn(S, kind)}

\* The oldest rows of a kind that name row i.
Naming1(i, kind) ==
    LET named == {j \in KindIn(DOMAIN journal, kind) : i \in journal[j].refs}
    IN {j \in named : Cardinality({k \in named : k < j}) < MaxRelated}
NamingAny(S, kind) == UNION {Naming1(i, kind) : i \in S}

\* One round of the walk; each part starts from what those before it found.
Direct(S) == S \cup RefsOf(S, "decision")
Forecasting(S) == S \cup RefsOf(S, "forecast")
Arguing(S) == S \cup RefsOf(S, "thesis") \cup NamingAny(KindIn(S, "thesis"), "forecast")
Listing(S) ==
    S \cup RefsOf(S, "instrument")
      \cup UNION {NamingAny(KindIn(S, "instrument"), kind) : kind \in {"snapshot", "thesis", "decision"}}
Linking(S) ==
    S \cup UNION {journal[e].refs : e \in {x \in KindIn(DOMAIN journal, "edge") : journal[x].refs \cap S # {}}}
Round(S) == Linking(Listing(Arguing(Forecasting(Direct(S)))))
WalkRelated(id) == Round(Round(Round({id})))

\* Entries on paper alone are judged without a reflection.
PaperOnly(S) == KindIn(S, "decision") # {} /\ \A d \in KindIn(S, "decision") : journal[d].type = "paper_enter"
HasReflection(S) ==
    \E e \in KindIn(DOMAIN journal, "edge") : \E d \in KindIn(S, "decision"), m \in KindIn(DOMAIN journal, "memory_node") :
        journal[e].refs = {d, m}

\* The steps without which the status is needs_enrichment.
MissingSteps(S) ==
    {kind \in RowKinds \ {"memory_node"} : KindIn(S, kind) = {}}
    \cup (IF HasReflection(S) \/ PaperOnly(S) THEN {} ELSE {"reflection"})

-----------------------------------------------------------------------------
(* Properties *)

\* What those who ask for plans keep to.  A prefix is for one order and no row had it
\* before; what is supplied is there, a supplied decision names what is supplied with it;
\* rows name rows, an instrument its venue; and there are no more decisions on an
\* instrument than the status looks at.
PlansFit ==
    /\ \A o, p \in Orders : o.prefix = p.prefix => o = p
    /\ \A o \in Orders, i \in DOMAIN Market : Market[i].key[1] # o.prefix
    /\ \A o \in Orders, k \in RowKinds : o.ids[k] # 0 => o.ids[k] \in DOMAIN Market /\ Market[o.ids[k]].kind = k
    /\ \A o \in Orders : o.ids["decision"] # 0 =>
         Market[o.ids["decision"]].refs = {o.ids[k] : k \in {"instrument", "thesis", "snapshot", "forecast"}}
    /\ \A i \in DOMAIN Market :
         /\ Market[i].refs \subseteq DOMAIN Market
         /\ Market[i].kind = "instrument" => \E v \in Market[i].refs : Market[v].kind = "venue"
    /\ Cardinality({i \in DOMAIN Market : Market[i].kind = "decision"}) + Cardinality(Orders) <= MaxRelated

\* A plan can be carried out, twice at once or from the top again after any death:
\* no call of it is refused for a key of its own prefix, and when it is done the
\* status lacks nothing, whichever row of the arc it takes is asked about.  Only a plan
\* that skipped the reflection, for a memory node supplied to it, may still lack
\* one, when a decision on the way is not on paper.
PlanEndsComplete ==
    \A a \in {b \in Planners : planner[b].next # 0} :
        LET p == planner[a]
            skipped == p.order.ids["memory_node"] # 0
            lacking == IF skipped /\ ~PaperOnly(DOMAIN journal) THEN {"reflection"} ELSE {}
            asked == RowKinds \ ({"venue", "snapshot"} \cup IF skipped THEN {"memory_node"} ELSE {})
        IN /\ ~p.refused
           /\ Done(p) =>
                \A found \in {WalkRelated(p.ids[kind]) : kind \in asked} : MissingSteps(found) \subseteq lacking
=============================================================================
