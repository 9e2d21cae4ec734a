------------------------------ MODULE Sources ------------------------------
(***************************************************************************)
(* Evidence: source.add, source.attach_to_*, memory.link from a source,      *)
(* idea.capture, and the diagnostics of report.source_quality.               *)
(*                                                                          *)
(* An attachment is stored twice, as an edge and as an object in the row's   *)
(* metadata_json.sources; links have only the edge, and rows may come with    *)
(* inline objects of their own.  The report reads both and must neither count *)
(* twice nor overlook.  Every call is one UnitOfWork, so it is one step, on a  *)
(* journal that its parts hand on to one another.                            *)
(***************************************************************************)
EXTENDS Integers, Sequences, FiniteSets

CONSTANTS
    SourceAdds, SourceAttaches, SourceLinks, Captures,  \* the calls
    Entered,      \* actual_enter decisions: [id, thesis, forecast, at]
    GivenInline,  \* what the inline lists of Rows may start with
    NoKey, MaxSources, MaxEdgesBySource   \* no idempotency key; bounds

Target(kind, id) == [kind |-> kind, id |-> id]
Rows == UNION {{Target("decision", d.id), Target("thesis", d.thesis), Target("forecast", d.forecast)} : d \in Entered}

\* An object given inline that names no source, as its id 0 says.
InlineObject == [id: {0}, stance: STRING, status: STRING, hash: STRING, fresh: Nat]

\* A content hash that a caller states is the hash of the content.
ASSUME SourcesAssumption ==
    /\ GivenInline \subseteq [Rows -> Seq(InlineObject)]
    /\ \A s \in SourceAdds, c \in Captures : s.hash = c.thought => s.text = c.thought

VARIABLES
    tables,    \* sources, edges, inline (by target), notes, log
    captured   \* answers of idea.capture that are ok

sourcesVars == <<tables, captured>>

SourcesInit ==
    /\ \E given \in GivenInline :
         tables = [sources |-> << >>, edges |-> << >>, inline |-> given, notes |-> << >>, log |-> {}]
    /\ captured = {}

-----------------------------------------------------------------------------
(* What each part of a call does: the journal after it, the id it answers, and *)
(* whether it is ok. *)

\* check_idempotency_replay, and the conflict that writing the event again raises.
Once(j, type, key, fields, id, new) ==
    LET held == {e \in j.log : e.type = type /\ e.key = key /\ key # NoKey} IN
    IF held = {}
    THEN [ok |-> TRUE, id |-> id,
          j |-> [new EXCEPT !.log = @ \cup {[type |-> type, key |-> key, fields |-> fields, id |-> id]}]]
    ELSE LET e == CHOOSE e \in held : TRUE IN [ok |-> e.fields = fields, id |-> e.id, j |-> j]

Protected == {"redacted", "sensitive"}
IsProtected(s) == s.status \in Protected \/ s.stance \in Protected

\* source.add drops the excerpt, the extracted text and the summary of a protected
\* source, for which text stands; its title and its note it stores, for any source.
\* Its event has the same fields as the row.
AddSource(j, c) ==
    LET row == [kind |-> c.kind, stance |-> c.stance, status |-> c.status, hash |-> c.hash, fresh |-> c.fresh,
                captured |-> c.captured, text |-> IF IsProtected(c) THEN "" ELSE c.text]
    IN Once(j, "source.added", c.key, [row EXCEPT !.text = ""], Len(j.sources) + 1,
            [j EXCEPT !.sources = Append(@, row)])

EdgeType(stance) == IF stance \in {"supports", "contradicts"} THEN stance ELSE "about"

InlineSource(j, s) ==
    LET row == j.sources[s]
    IN [id |-> s, stance |-> row.stance, status |-> row.status, hash |-> row.hash,
        fresh |-> IF row.fresh # 0 THEN row.fresh ELSE row.captured]

\* _metadata_with_appended_source: a source stands in a list once.
WithSource(list, object) == IF \E i \in DOMAIN list : list[i].id = object.id THEN list ELSE Append(list, object)

\* source.attach_to_<kind>: the edge, the inline object, the event.
AttachSource(j, c) ==
    LET type == EdgeType(j.sources[c.source].stance)
        edge == [source |-> c.source, target |-> c.target, type |-> type]
    IN Once(j, "source.attached", c.key, edge, Len(j.edges) + 1,
            [j EXCEPT !.edges = Append(@, edge),
                      !.inline = [j.inline EXCEPT ![c.target] = WithSource(@, InlineSource(j, c.source))]])

\* memory.link: an edge of any type, and nothing inline.
LinkSource(j, c) ==
    LET edge == [source |-> c.source, target |-> c.target, type |-> c.type]
    IN Once(j, "edge.created", c.key, edge, Len(j.edges) + 1, [j EXCEPT !.edges = Append(@, edge)])

\* memory.retain of a draft; its body is no structural field, its metadata are.
RetainDraft(j, key, marker, thought, source) ==
    LET n == Len(j.notes) + 1
    IN Once(j, "memory_node.retained", key, [source |-> source, hash |-> marker], n,
            [j EXCEPT !.notes = Append(@, [body |-> thought, source |-> source]),
                      !.inline = [t \in DOMAIN @ \cup {Target("memory_node", n)} |->
                                    IF t = Target("memory_node", n) THEN << >> ELSE @[t]]])

ChildKey(parent, suffix) == IF parent = NoKey THEN NoKey ELSE Append(parent, suffix)

\* Mutant: the source does not say what was captured.
NoMarker(c) == "none"

\* _capture_content_hash.
CaptureMarker(c) == c.thought

Capture(j, c) ==
    LET s == AddSource(j, [key |-> ChildKey(c.key, "source"), kind |-> "note", stance |-> "neutral", status |-> "none",
                           hash |-> CaptureMarker(c), fresh |-> 0, captured |-> c.at, text |-> c.thought])
        n == RetainDraft(s.j, ChildKey(c.key, "memory"), CaptureMarker(c), c.thought, s.id)
        e == AttachSource(n.j, [key |-> ChildKey(c.key, "source-memory-edge"), source |-> s.id,
                                target |-> Target("memory_node", n.id)])
    IN [ok |-> s.ok /\ n.ok /\ e.ok, j |-> e.j,
        answer |-> [thought |-> c.thought, source |-> s.id, note |-> n.id, edge |-> e.id]]

-----------------------------------------------------------------------------
(* The calls.  One that is not ok is rolled back. *)

Exists(c) == c.source \in DOMAIN tables.sources /\ c.target \in DOMAIN tables.inline
Kept(result) == result.ok /\ tables' = result.j /\ Len(result.j.sources) <= MaxSources /\ Len(result.j.edges) <= MaxEdgesBySource

SourceAdd(c) == Kept(AddSource(tables, c)) /\ UNCHANGED captured
SourceAttach(c) == Exists(c) /\ Kept(AttachSource(tables, c)) /\ UNCHANGED captured
SourceLinked(c) == Exists(c) /\ Kept(LinkSource(tables, c)) /\ UNCHANGED captured
IdeaCapture(c) == Kept(Capture(tables, c)) /\ captured' = captured \cup {Capture(tables, c).answer}

SourcesNext ==
    \/ \E c \in SourceAdds : SourceAdd(c)
    \/ \E c \in SourceAttaches : SourceAttach(c)
    \/ \E c \in SourceLinks : SourceLinked(c)
    \/ \E c \in Captures : IdeaCapture(c)
SourcesSpec == SourcesInit /\ [][SourcesNext]_sourcesVars

-----------------------------------------------------------------------------
(* report.source_quality *)

Edges == {tables.edges[i] : i \in DOMAIN tables.edges}
ByEdge == {[id |-> e.source, target |-> e.target] : e \in Edges}

\* _inline_source_attachments does not look at theses; an object without an id is
\* named after its place.
ReadInline == {"forecast", "decision", "memory_node"}
InlineAttachments ==
    {[id |-> IF tables.inline[a[1]][a[2]].id # 0 THEN tables.inline[a[1]][a[2]].id ELSE 0 - a[2],
      target |-> a[1], object |-> tables.inline[a[1]][a[2]]] :
        a \in UNION {{t} \X DOMAIN tables.inline[t] : t \in {u \in DOMAIN tables.inline : u.kind \in ReadInline}}}
Pair(a) == [id |-> a.id, target |-> a.target]

TotalAttachments == Cardinality(ByEdge \cup {Pair(a) : a \in InlineAttachments})

\* Mutant: the rows found by their edges are not remembered.
ForgetsEdges(found) == {}

\* What the inline pass of a diagnostic skips.
AlreadySeen(found) == found

\* What a list is about: protected sources, or those of a stance.
IsOn(list, s) == IF list = "protected" THEN IsProtected(s) ELSE s.stance = list

\* _redacted_sources and _stance_sources: pairs by edge, and the inline ones not
\* seen; the list has a row for each of both.
ListedByEdge(list) == {p \in ByEdge : IsOn(list, tables.sources[p.id])}
ListedInline(list) ==
    {Pair(a) : a \in {b \in InlineAttachments : IsOn(list, b.object)}} \ AlreadySeen(ListedByEdge(list))

Threshold == 7
IsOld(fresh, d) == fresh # 0 /\ d.at - fresh > Threshold

\* _stale_sources: sources of the thesis or of the decision by edge, then inline
\* ones of the decision.  A pair met by its edge is not met again.
StaleSources ==
    LET compared == {<<e.source, d>> : e \in {f \in Edges : tables.sources[f.source].fresh # 0}, d \in Entered}
        seen == {x \in compared : \E e \in Edges : e.source = x[1]
                     /\ e.target \in {Target("thesis", x[2].thesis), Target("decision", x[2].id)}}
        inline == {x \in InlineAttachments \X Entered :
                     x[1].target = Target("decision", x[2].id) /\ <<x[1].id, x[2]>> \notin seen}
    IN {<<x[1], x[2].id>> : x \in {y \in seen : IsOld(tables.sources[y[1]].fresh, y[2])}}
       \cup {<<x[1].id, x[2].id>> : x \in {y \in inline : IsOld(y[1].object.fresh, y[2])}}

\* _missing_sources_on_actual_enter.
MissingSources ==
    {d \in Entered :
        /\ \A t \in {Target("thesis", d.thesis), Target("decision", d.id), Target("forecast", d.forecast)} :
             \A e \in Edges : e.target # t
        /\ \A t \in {Target("decision", d.id), Target("forecast", d.forecast)} : tables.inline[t] = << >>}

-----------------------------------------------------------------------------
(* Properties *)

\* Whether by attach, link or capture, and retried or sent again under new keys, an
\* attachment is reported once: protected and official sources are on their list
\* once per row they are attached to, and the total counts each pair once.  The
\* two ways it is stored never disagree about it, and a decision whose thesis,
\* forecast or self has any is not called unsourced, nor is an old one overlooked.
ReportSeesOnce ==
    LET attached == {[id |-> e.fields.source, target |-> e.fields.target] :
                        e \in {f \in tables.log : f.type \in {"source.attached", "edge.created"}}}
        owned == {Pair(a) : a \in {b \in InlineAttachments : b.id < 0}}
    IN /\ TotalAttachments = Cardinality(attached \cup owned)
       /\ \A list \in {"protected", "official_source"} :
            /\ ListedByEdge(list) \cap ListedInline(list) = {}
            /\ ListedByEdge(list) \cup ListedInline(list)
                 = {p \in attached : IsOn(list, tables.sources[p.id])}
                   \cup {p \in owned : \E a \in InlineAttachments : Pair(a) = p /\ IsOn(list, a.object)}
       /\ \A d \in MissingSources : \A p \in attached \cup owned :
            p.target \notin {Target("thesis", d.thesis), Target("decision", d.id), Target("forecast", d.forecast)}
       /\ \A p \in attached, d \in Entered :
            p.target \in {Target("thesis", d.thesis), Target("decision", d.id)} /\ IsOld(tables.sources[p.id].fresh, d)
               => <<p.id, d.id>> \in StaleSources

\* A capture that was answered ok is whole and is about the thought it was given:
\* source, note and edge are there and joined, whatever keys its parts met.
CaptureIsWhole ==
    \A a \in captured :
        /\ tables.sources[a.source].text = a.thought
        /\ tables.notes[a.note] = [body |-> a.thought, source |-> a.source]
        /\ tables.edges[a.edge] = [source |-> a.source, target |-> Target("memory_node", a.note), type |-> "about"]
        /\ \E i \in DOMAIN tables.inline[Target("memory_node", a.note)] :
             tables.inline[Target("memory_node", a.note)][i].id = a.source
=============================================================================
