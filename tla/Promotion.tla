----------------------------- MODULE Promotion -----------------------------
(***************************************************************************)
(* market.scan.promote: the plan market.scan.dry_run makes of a bundle,      *)
(* carried out as child calls.  Each child is a tool call of its own, in a   *)
(* transaction of its own, under a key derived from the parent's; nothing is *)
(* rolled back when one fails or the process dies, and the caller promotes   *)
(* the bundle again.                                                         *)
(*                                                                          *)
(* dispatch is what EventLog shows it to be: a key that is known answers the *)
(* row it was first used for, or a conflict when the call says otherwise.    *)
(***************************************************************************)
EXTENDS Integers, Sequences, FiniteSets, SequencesExt

CONSTANTS
    Promoters,  \* processes
    Bundles,    \* the bundles promoted
    MaxAttempts, \* bound on promotions begun
    None        \* no value, and a placeholder nothing replaced

Parts == {"venue", "instrument", "snapshot", "thesis", "forecast"}
Targets == {"thesis", "forecast", "decision"}

\* The numbers of a bundle's sources as a key spells them, and the names of their ids.
MaxSources == 10    \* bound: a digit for each
Index(i) == <<"0", "1", "2", "3", "4", "5", "6", "7", "8", "9">>[i]
Source(i) == <<"source:0", "source:1", "source:2", "source:3", "source:4",
               "source:5", "source:6", "source:7", "source:8", "source:9">>[i]

\* parts: what the bundle describes.  given: the rows, of its parts and its
\* sources, that it names by id.  parent: the key, split at its colons.
Bundle == [parent: Seq(STRING), parts: SUBSET Parts, sources: Seq(STRING),
           given: SUBSET (Parts \cup {Source(i) : i \in 1..MaxSources}),
           attach: SUBSET Targets, action: {"watch", "skip", "paper_enter"},
           blocked: BOOLEAN, reflects: BOOLEAN]

ASSUME PromotionAssumption ==
    /\ Bundles \subseteq Bundle /\ \A b \in Bundles : Len(b.sources) <= MaxSources
    /\ MaxAttempts \in Nat /\ None \notin Nat

VARIABLES
    rows,      \* rows the children wrote: key, what it is, what it refers to
    promoting, \* for each process, the bundle, the step and the ids it has
    attempts,  \* promotions begun
    promoted   \* bundles answered ok

promotionVars == <<rows, promoting, attempts, promoted>>
PromotionInit == rows = << >> /\ promoting = [p \in Promoters |-> None] /\ attempts = 0 /\ promoted = {}

-----------------------------------------------------------------------------
(* The plan *)

Step(kind, key, needs) == [kind |-> kind, key |-> key, needs |-> needs]

\* Mutant: the key of an attachment is the same for every source.
SharedAttachKey(b, i, target) == b.parent \o <<"source", "0", "attach", target>>

AttachKey(b, i, target) == b.parent \o <<"source", Index(i), "attach", target>>

\* What each kind of row refers to, in the order the plan creates them.
Needs(b, kind) ==
    CASE kind \in {"venue", "source"} -> {}
      [] kind = "instrument" -> {"venue"}
      [] kind = "forecast" -> {"thesis"}
      [] kind = "decision" -> {"instrument"} \cup (b.parts \ {"venue"})
      [] OTHER -> {"instrument"}

Plan(b) ==
    LET Make(kind) == IF kind \in b.parts \ b.given THEN <<Step(kind, b.parent \o <<kind>>, Needs(b, kind))>> ELSE << >>
        Add(i) == IF Source(i) \in b.given THEN << >> ELSE <<Step("source", b.parent \o <<"source", Index(i)>>, {})>>
        Attach(target) ==
            IF target \notin b.attach \/ target \notin b.parts \cup {"decision"} THEN << >>
            ELSE [i \in DOMAIN b.sources |-> Step("edge", AttachKey(b, i, target), {"source", target})]
        Decide == <<Step("decision", b.parent \o <<"decision", b.action>>, Needs(b, "decision"))>>
        Reflect == IF b.reflects THEN <<Step("memory_node", b.parent \o <<"reflection">>, {"decision"})>> ELSE << >>
    IN Make("venue") \o Make("instrument") \o Make("snapshot") \o FlattenSeq([i \in DOMAIN b.sources |-> Add(i)])
       \o Make("thesis") \o Attach("thesis") \o Make("forecast") \o Attach("forecast") \o Decide \o Attach("decision") \o Reflect

-----------------------------------------------------------------------------
(* Ids: what a placeholder stands for, and what a child's answer is filed as *)

\* Mutant: an index is never read from a key.
NoIdx(key) == None

\* _source_idx_from_key: the segment after the first that says "source".
SourceIdx(key) ==
    LET at == {n \in DOMAIN key : key[n] = "source"}
        said == {i \in 1..MaxSources : Min(at) < Len(key) /\ key[Min(at) + 1] = Index(i)}
    IN IF at # {} /\ said # {} THEN CHOOSE i \in said : TRUE ELSE None

IdOf(ids, name) == IF name \in DOMAIN ids THEN ids[name] ELSE None

\* _replace_placeholders, for one call.
Refers(step, ids) ==
    [name \in step.needs |->
        IF name = "source" /\ SourceIdx(step.key) # None THEN IdOf(ids, Source(SourceIdx(step.key))) ELSE IdOf(ids, name)]

With(ids, name, id) == [n \in DOMAIN ids \cup {name} |-> IF n = name THEN id ELSE ids[n]]
WithFirst(ids, name, id) == IF name \in DOMAIN ids THEN ids ELSE With(ids, name, id)

\* _record_promote_id.
Record(ids, step, id) ==
    IF step.kind = "edge" THEN ids
    ELSE IF step.kind # "source" THEN With(ids, step.kind, id)
    ELSE WithFirst(IF SourceIdx(step.key) = None THEN ids ELSE With(ids, Source(SourceIdx(step.key)), id), "source", id)

\* The ids a bundle gives.
Given(name) == <<"given", name>>
GivenIds(b) ==
    LET sources == {i \in DOMAIN b.sources : Source(i) \in b.given}
        named == [name \in b.given |-> Given(name)]
    IN IF sources = {} THEN named ELSE WithFirst(named, "source", Given(Source(Min(sources))))

-----------------------------------------------------------------------------
(* Promoting *)

\* A bundle that blocks is refused before anything is written.
Promote(p, b) ==
    /\ promoting[p] = None /\ attempts < MaxAttempts /\ ~b.blocked
    /\ promoting' = [promoting EXCEPT ![p] = [bundle |-> b, step |-> 1, ids |-> GivenIds(b)]]
    /\ attempts' = attempts + 1 /\ UNCHANGED <<rows, promoted>>

At(p) == promoting[p].step
StepOf(p) == Plan(promoting[p].bundle)[At(p)]
HasStep(p) == promoting[p] # None /\ At(p) <= Len(Plan(promoting[p].bundle))
Holding(step) == {i \in DOMAIN rows : rows[i].key = step.key /\ rows[i].kind = step.kind}
Stop(p) == promoting' = [promoting EXCEPT ![p] = None]
GoOn(p, id) ==
    promoting' = [promoting EXCEPT ![p] = [bundle |-> promoting[p].bundle, step |-> At(p) + 1,
                                           ids |-> Record(promoting[p].ids, StepOf(p), id)]]

\* One child call.
Child(p) ==
    /\ HasStep(p)
    /\ LET step == StepOf(p)
           refs == Refers(step, promoting[p].ids)
           row == [key |-> step.key, kind |-> step.kind, refs |-> refs]
       IN \/ /\ \E n \in step.needs : refs[n] = None
             /\ Stop(p) /\ UNCHANGED rows
          \/ /\ \A n \in step.needs : refs[n] # None
             /\ Holding(step) = {}
             /\ rows' = Append(rows, row) /\ GoOn(p, step.key)
          \/ /\ \A n \in step.needs : refs[n] # None
             /\ \E i \in Holding(step) : IF rows[i] = row THEN GoOn(p, step.key) ELSE Stop(p)
             /\ UNCHANGED rows
    /\ UNCHANGED <<attempts, promoted>>

\* A child is refused for a lock or a full disk, or the process dies: what the
\* earlier children wrote stays.
Interrupted(p) == HasStep(p) /\ Stop(p) /\ UNCHANGED <<rows, attempts, promoted>>

Finished(p) ==
    /\ promoting[p] # None /\ ~HasStep(p)
    /\ promoted' = promoted \cup {promoting[p].bundle}
    /\ Stop(p) /\ UNCHANGED <<rows, attempts>>

PromotionNext ==
    \E p \in Promoters : Child(p) \/ Interrupted(p) \/ Finished(p) \/ \E b \in Bundles : Promote(p, b)

PromotionSpec == PromotionInit /\ [][PromotionNext]_promotionVars

-----------------------------------------------------------------------------
(* A bundle answered ok is in the journal whole and once, whoever promoted   *)
(* it, was interrupted and promoted it again: each step of its plan has one   *)
(* row, which refers to the rows of this bundle, and each attachment joins    *)
(* its own source to its own target ("Record a child ID without collapsing    *)
(* repeated source/edge resources").                                         *)
RowOf(b, kind) ==
    IF kind \in b.given THEN Given(kind)
    ELSE b.parent \o (IF kind = "decision" THEN <<"decision", b.action>> ELSE <<kind>>)
SourceRow(b, i) == IF Source(i) \in b.given THEN Given(Source(i)) ELSE b.parent \o <<"source", Index(i)>>
BundleIsWhole ==
    \A b \in promoted :
        /\ \A n \in DOMAIN Plan(b) :
            /\ Cardinality(Holding(Plan(b)[n])) = 1
            /\ \A r \in Holding(Plan(b)[n]), kind \in Plan(b)[n].needs \ {"source"} :
                rows[r].refs[kind] = RowOf(b, kind)
        /\ \A i \in DOMAIN b.sources, target \in b.attach \cap (b.parts \cup {"decision"}) :
            \E r \in DOMAIN rows : rows[r].key = b.parent \o <<"source", Index(i), "attach", target>>
                                    /\ rows[r].refs["source"] = SourceRow(b, i)
=============================================================================
