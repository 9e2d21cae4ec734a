------------------------------- MODULE Memory -------------------------------
(***************************************************************************)
(* The agent's memory: nodes that memory.retain and memory.reflect write,  *)
(* the edges of memory.link, and memory.recall, which ranks the nodes in   *)
(* scope and counts what it returned.  Nodes and edges are append-only; a  *)
(* node is invalidated by an event about it, never by an update.           *)
(*                                                                         *)
(* A write is one transaction, so one step; a call that is refused changes *)
(* nothing and has no step.  A recall reads in several statements without  *)
(* a snapshot and then writes its telemetry, so it takes three steps.      *)
(* Left out: the semantic strategy (off without a model), the candidate    *)
(* window of 100 nodes, the character budget, metadata and tags.           *)
(***************************************************************************)
EXTENDS Integers, Sequences, FiniteSets, SequencesExt, TLC

CONSTANTS
    Writes,     \* calls of memory.retain and memory.reflect
    Links,      \* calls of memory.link
    Queries,    \* calls of memory.recall
    Readers,    \* processes that recall
    Keys,       \* keys that callers supply
    Consumers,  \* endpoints other than nodes: decisions, strategies, ...
    Bodies,     \* texts of nodes
    Derived, OptOut,  \* no key: derived by the server, or declined
    None,
    MaxDay, MaxNodes, MaxEdges, MaxRecalls   \* bounds

Days == 0..MaxDay
NodeTypes == {"observation", "reflection", "playbook_rule"}
EdgeTypes == {"about", "supports", "contradicts", "supersedes", "derived_from",
              "violates", "follows"}
Endpoints == (1..MaxNodes) \cup Consumers

\* about = None in a retain; wired: the further edges of a reflect.
WriteCall == [key: Keys \cup {Derived}, type: NodeTypes, body: Bodies,
              parent: Nat \cup {None}, supersedes: Nat \cup {None},
              from: Nat \cup {None}, to: Nat \cup {None},
              importance: 1..10, fades: BOOLEAN,
              about: Endpoints \cup {None}, wired: Seq([type: EdgeTypes, target: Nat])]
LinkCall == [key: Keys \cup {OptOut}, source: Endpoints, target: Endpoints, type: EdgeTypes]
Query == [asOf: Days \cup {None}, all: BOOLEAN, context: Consumers \cup {None},
          body: Bodies, k: Nat \ {0}, sure: BOOLEAN]

ASSUME MemoryAssumption ==
    /\ None \notin Nat
    /\ Writes \subseteq WriteCall /\ Links \subseteq LinkCall /\ Queries \subseteq Query
    /\ \A c \in Writes : c.about # None => c.type = "reflection" /\ c.key # Derived
    /\ {MaxDay, MaxNodes, MaxEdges, MaxRecalls} \subseteq Nat

VARIABLES
    day,         \* the clock
    nodes,       \* memory_nodes rows; a node's id is its index
    edges,       \* edges rows
    invalidated, \* memory_node.invalidated events: [node, by]
    retained,    \* keys of memory_node.retained events, with their node
    linked,      \* keys of memory.link's edge.created events, with their edge
    recalls,     \* memory_recall_events rows
    stats,       \* memory_node_stats: [node -> count and last recall]
    reader,      \* each reader's progress
    answered,    \* calls that were answered ok
    replaced     \* nodes that a first call of memory.retain replaced

tables == <<nodes, edges, invalidated, retained, linked>>
telemetry == <<recalls, stats>>
history == <<answered, replaced>>
vars == <<day, tables, telemetry, reader, history>>

Idle == [pc |-> "idle"]

\* A table with the rows of another inserted or updated.
Over(new, table) ==
    [k \in DOMAIN new \cup DOMAIN table |-> IF k \in DOMAIN new THEN new[k] ELSE table[k]]

Init ==
    /\ day = 0 /\ nodes = << >> /\ edges = << >> /\ invalidated = {}
    /\ retained = << >> /\ linked = << >> /\ recalls = << >> /\ stats = << >>
    /\ reader = [r \in Readers |-> Idle]
    /\ answered = {} /\ replaced = {}

-----------------------------------------------------------------------------
(* memory.retain and memory.reflect *)

HasEdge(E, s, t, type) ==
    \E i \in DOMAIN E : E[i].source = s /\ E[i].target = t /\ E[i].type = type
Edge(s, t, type) == [source |-> s, target |-> t, type |-> type, created |-> day]

\* The key of a call: the derived one hashes structural arguments only, which
\* title, body and supersedes_node_id are not.
WriteKey(c) ==
    IF c.key # Derived THEN c.key
    ELSE <<c.type, c.parent, c.from, c.to, c.importance, c.fades>>

ParentOf(c) == IF c.supersedes # None THEN c.supersedes ELSE c.parent
NodeOf(c) ==
    [type |-> c.type, body |-> c.body, parent |-> ParentOf(c),
     from |-> IF c.from = None THEN day ELSE c.from, to |-> c.to,
     importance |-> c.importance, fades |-> c.fades, created |-> day]

\* payloads_equivalent on a replay: an omitted valid_from is read from the
\* event, and title and body are free text.
Equivalent(c, n) ==
    /\ [n EXCEPT !.body = c.body, !.created = day, !.from = 0] =
       [NodeOf(c) EXCEPT !.from = 0]
    /\ c.from \in {None, n.from}

WriteAllowed(c) ==
    /\ c.supersedes # None => c.parent \in {None, c.supersedes}
    /\ ParentOf(c) # None => ParentOf(c) \in DOMAIN nodes
    /\ (c.from # None /\ c.to # None) => c.from <= c.to
    /\ c.about \in Nat => c.about \in DOMAIN nodes
    /\ \A i \in DOMAIN c.wired : c.wired[i].target \in DOMAIN nodes

\* The edges that a write wants from its node, in the order of the code.
Wanted(c) ==
    (IF c.supersedes = None THEN << >> ELSE <<[type |-> "supersedes", target |-> c.supersedes]>>)
    \o (IF c.about = None THEN << >> ELSE <<[type |-> "about", target |-> c.about]>>)
    \o c.wired

\* Mutant: the about-edge written whether or not it exists.
WiredAgain(E, n, wanted) == E \o [i \in DOMAIN wanted |-> Edge(n, wanted[i].target, wanted[i].type)]

\* Each wanted edge is written unless an identical one exists.
Wired(E, n, wanted) ==
    FoldLeft(LAMBDA all, w : IF HasEdge(all, n, w.target, w.type) THEN all
                             ELSE Append(all, Edge(n, w.target, w.type)), E, wanted)

\* _apply_supersession: nothing if the edge exists, else edge and event; and its
\* mutant, which names the new node as the subject of the event.
InvalidatedNew(n, old) ==
    IF old = None \/ HasEdge(edges, n, old, "supersedes") THEN {} ELSE {[node |-> n, by |-> old]}
Invalidated(n, old) ==
    IF old = None \/ HasEdge(edges, n, old, "supersedes") THEN {} ELSE {[node |-> old, by |-> n]}

\* One transaction: the node or its replay, the supersession, the other edges.
Write(c) ==
    LET key == WriteKey(c)
        replay == key \in DOMAIN retained
        node == IF replay THEN retained[key] ELSE Len(nodes) + 1
    IN /\ WriteAllowed(c)
       /\ IF replay THEN Equivalent(c, nodes[node]) ELSE Len(nodes) < MaxNodes
       /\ nodes' = IF replay THEN nodes ELSE Append(nodes, NodeOf(c))
       /\ retained' = IF replay THEN retained ELSE Over([k \in {key} |-> node], retained)
       /\ edges' = Wired(edges, node, Wanted(c)) /\ Len(edges') <= MaxEdges
       /\ invalidated' = invalidated \cup Invalidated(node, c.supersedes)
       /\ answered' = answered \cup {c}
       /\ replaced' = IF replay \/ c.supersedes = None THEN replaced
                      ELSE replaced \cup {c.supersedes}
       /\ UNCHANGED <<day, linked, telemetry, reader>>

\* memory.link: only a key protects from a duplicate; its supersedes edges
\* discount a node and do not invalidate it.
Link(l) ==
    LET replay == l.key \in DOMAIN linked IN
    /\ \A e \in {l.source, l.target} : e \in Nat => e \in DOMAIN nodes
    /\ IF replay
       THEN /\ LET e == edges[linked[l.key]]
               IN <<e.source, e.target, e.type>> = <<l.source, l.target, l.type>>
            /\ UNCHANGED <<edges, linked>>
       ELSE /\ Len(edges) < MaxEdges
            /\ edges' = Append(edges, Edge(l.source, l.target, l.type))
            /\ linked' = IF l.key = OptOut THEN linked ELSE Over([k \in {l.key} |-> Len(edges')], linked)
    /\ answered' = IF l.key = OptOut THEN answered ELSE answered \cup {l}
    /\ UNCHANGED <<day, nodes, invalidated, retained, telemetry, reader, replaced>>

-----------------------------------------------------------------------------
(* memory.recall *)

InvalidatedNodes == {e.node : e \in invalidated}
At(q) == IF q.asOf = None THEN day ELSE q.asOf

\* _load_in_scope_nodes
InScope(q, hidden) ==
    {n \in DOMAIN nodes : /\ nodes[n].from <= At(q)
                          /\ nodes[n].to = None \/ At(q) < nodes[n].to
                          /\ q.all \/ n \notin hidden}

\* A set as a list, in an order that ranks any two of its members.
InOrder(S, Before(_, _)) ==
    CHOOSE s \in [1..Cardinality(S) -> S] : \A i, j \in 1..Cardinality(S) : i < j => Before(s[i], s[j])

Distance(t, n) == IF t >= nodes[n].created THEN t - nodes[n].created ELSE nodes[n].created - t
TemporalRank(q, scope) ==
    InOrder(scope, LAMBDA a, b : \/ Distance(At(q), a) < Distance(At(q), b)
                                 \/ Distance(At(q), a) = Distance(At(q), b) /\ a < b)
ById(S) == InOrder(S, LAMBDA a, b : a < b)
\* Connected nodes first; without a context the strategy abstains.
GraphRank(q, scope) ==
    LET connected == {n \in scope : \E i \in DOMAIN edges :
                        edges[i].source = n /\ edges[i].target = q.context}
    IN IF q.context = None THEN << >> ELSE ById(connected) \o ById(scope \ connected)
\* FTS5 orders the nodes it matches in an order of its own.
Bm25Ranks(q, scope) == SetToSeqs({n \in scope : nodes[n].body = q.body})

\* Reciprocal-rank fusion, scaled so that 1 / (60 + rank) is an integer for the
\* first four ranks; importance and supersession scale the sum.
RankWeight(rank) == (61 * 62 * 63 * 64) \div (60 + rank)
Fused(n, ranks) ==
    FoldLeft(LAMBDA sum, ranking : IF n \in Range(ranking)
                THEN sum + RankWeight(CHOOSE i \in DOMAIN ranking : ranking[i] = n) ELSE sum, 0, ranks)
Superseded(q) ==
    {edges[i].target : i \in {j \in DOMAIN edges :
        /\ edges[j].type = "supersedes" /\ edges[j].source \in Nat /\ edges[j].target \in Nat
        /\ q.asOf = None \/ edges[j].created <= q.asOf}}

\* _score_ranked_nodes
Score(n, ranks, old) ==
    Fused(n, ranks) * (15 + nodes[n].importance) * (IF n \in old THEN 1 ELSE 4)

Best(scope, ranks, old) ==
    InOrder(scope, LAMBDA a, b :
        LET sa == Score(a, ranks, old) sb == Score(b, ranks, old)
        IN sa > sb \/ (sa = sb /\ a < b))

\* _effective_confidence: a fading node loses the caller's threshold in a day.
Confident(n, t) == nodes[n].fades => t <= nodes[n].created

\* The top k are cut first, then the confidence filter applies.
Items(q, scope, ranks) ==
    LET found == {n \in scope : \E s \in Range(ranks) : n \in Range(s)}
        best == Best(found, ranks, Superseded(q))
        top == {best[i] : i \in {j \in DOMAIN best : j <= q.k}}
    IN Best({n \in top : q.sure => Confident(n, At(q))}, ranks, Superseded(q))

RecallBegin(r, q) ==
    /\ reader[r].pc = "idle" /\ Len(recalls) < MaxRecalls
    /\ reader' = [reader EXCEPT ![r] = [pc |-> "begun", q |-> q, hidden |-> InvalidatedNodes,
                                        before |-> replaced]]
    /\ UNCHANGED <<day, tables, telemetry, history>>

\* Nodes, edges and text index are read in one step here (three statements); the
\* set of invalidated nodes is the one read at the start.  created_at is taken
\* before the writing transaction begins.
RecallScore(r) ==
    LET q == reader[r].q  scope == InScope(q, reader[r].hidden) IN
    /\ reader[r].pc = "begun"
    /\ \E matched \in Bm25Ranks(q, scope) :
         reader' = [reader EXCEPT ![r] =
           [pc |-> "scored", q |-> q, before |-> @.before, at |-> day, old |-> Superseded(q),
            items |-> Items(q, scope, <<matched, TemporalRank(q, scope), GraphRank(q, scope)>>)]]
    /\ UNCHANGED <<day, tables, telemetry, history>>

\* The upsert of memory_node_stats, and its mutant, which keeps the latest time.
LatestCount(st, n, t) ==
    IF n \in DOMAIN st THEN [count |-> st[n].count + 1, last |-> IF t > st[n].last THEN t ELSE st[n].last]
    ELSE [count |-> 1, last |-> t]
Counted(st, n, t) ==
    [count |-> IF n \in DOMAIN st THEN st[n].count + 1 ELSE 1, last |-> t]

\* _write_recall_event_and_stats: one transaction.
RecallWrite(r) ==
    LET me == reader[r] IN
    /\ me.pc = "scored" /\ Len(recalls) < MaxRecalls
    /\ recalls' = Append(recalls, [items |-> me.items, at |-> me.at])
    /\ stats' = Over([n \in Range(me.items) |-> Counted(stats, n, me.at)], stats)
    /\ reader' = [reader EXCEPT ![r] = Idle]
    /\ UNCHANGED <<day, tables, history>>

\* rebuild_memory_node_stats: DELETE, then the events in the order of their ids.
RebuiltStats ==
    FoldLeft(LAMBDA st, e : Over([n \in Range(e.items) |->
        [count |-> IF n \in DOMAIN st THEN st[n].count + 1 ELSE 1, last |-> e.at]], st), << >>, recalls)
RebuildStats ==
    /\ stats' = RebuiltStats
    /\ UNCHANGED <<day, tables, recalls, reader, history>>

Tick ==
    /\ day < MaxDay
    /\ day' = day + 1
    /\ UNCHANGED <<tables, telemetry, reader, history>>

Next ==
    \/ \E c \in Writes : Write(c)
    \/ \E l \in Links : Link(l)
    \/ \E r \in Readers :
         \/ \E q \in Queries : RecallBegin(r, q)
         \/ RecallScore(r) \/ RecallWrite(r)
    \/ RebuildStats
    \/ Tick

Spec == Init /\ [][Next]_vars

-----------------------------------------------------------------------------
(* Properties *)

\* A recall that began after a replacement was answered does not return the
\* replaced node, unless the caller asks for invalidated ones: memory.retain's
\* supersedes_node_id and memory.recall's hard exclusion, across their events.  One
\* that is superseded by an edge alone, and still returned, comes after every node
\* of the same importance that is not: the discount of _score_ranked_nodes outweighs
\* any ranks (with at most 21 nodes in scope).
ReplacedStaysHidden ==
    \A r \in Readers : reader[r].pc = "scored" =>
      LET items == reader[r].items IN
      /\ ~reader[r].q.all => Range(items) \cap reader[r].before = {}
      /\ \A i, j \in DOMAIN items :
           /\ items[i] \in reader[r].old /\ items[j] \notin reader[r].old
           /\ nodes[items[i]].importance = nodes[items[j]].importance
           => j < i

\* The projection that recalls maintain row by row is what a rebuild computes
\* from their events, whichever recall committed first.
StatsFollowRecalls == stats = RebuiltStats

\* A call that was answered ok and is sent again writes no row and no edge, and
\* invalidates nothing.
ReplayAddsNothing ==
    [][\A c \in answered :
         (c \in Writes /\ Write(c)) \/ (c \in Links /\ Link(c)) => UNCHANGED tables]_vars

\* What the agent was told is kept is in the journal: the table of derived keys is
\* there "so the auto-derivation surface never silently smears across
\* semantically distinct calls".
LessonsAreKept ==
    \A c \in answered \cap Writes : \E n \in DOMAIN nodes : nodes[n].body = c.body
=============================================================================
