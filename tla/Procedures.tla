----------------------------- MODULE Procedures -----------------------------
(***************************************************************************)
(* What the agent lives by: strategies, which are rows that strategy.update *)
(* changes in place, playbooks with their append-only versions, and the     *)
(* adherence to a playbook's rules that it reports for its decisions.       *)
(* report.playbook_adherence audits those self-reports: it evaluates the    *)
(* predicate of each rule over the ledger, once for the groups of the       *)
(* report and once more for its summary, each evaluation in statements of   *)
(* its own and outside any snapshot.                                        *)
(*                                                                          *)
(* A write is one transaction, so one step; a refused call has no step.     *)
(* Names are abstracted to their identity, free texts to Texts; playbook    *)
(* rows never change and are their names.                                   *)
(***************************************************************************)
EXTENDS Integers, Sequences, FiniteSets

CONSTANTS
    Strategies, Playbooks, Reflections, Texts,
    Decisions,   \* ids of decisions
    decisionRow, \* [Decisions -> their columns that predicates read]
    Rules,       \* ids of playbook_rule nodes
    predicate,   \* [Rules -> the predicate of their meta_json]
    CallKeys,    \* keys of calls
    Null,        \* a NULL column, an omitted argument
    Proposals,   \* calls of playbook.propose_version
    Reports,     \* calls of playbook.record_adherence
    Attachments, \* edges that agents add
    MaxVersions, MaxUpdates, MaxLinks   \* bounds

Statuses == {"active", "archived"}
AdherenceStatuses == {"considered", "followed", "overridden", "not_applicable"}
Kinds == {"source", "memory_node"}   \* the other ends of edges here
LinkTypes == {"supports", "contradicts"}

\* A field stands for field_exists, field_equals, timestamp_present and
\* forecast_resolution_rule_present: they read columns that never change.
Families == {"prose", "field", "decision_type_in", "link_exists", "source_count_at_least"}
PredicateStatuses == {"pass", "fail", "not_computable", "not_applicable"}
Predicate == [family: Families, scope: SUBSET STRING, wants: STRING, kind: Kinds,
              edge: LinkTypes, minimum: Nat]

Proposal == [playbook: Playbooks, reflection: Reflections, number: Nat \cup {Null},
             parent: Nat \cup {Null}, key: CallKeys]
Report == [decision: Decisions, version: Nat, rule: Rules, status: AdherenceStatuses, key: CallKeys]
Attachment == [decision: Decisions, kind: Kinds, type: LinkTypes]

ASSUME ProceduresAssumption ==
    /\ Proposals \subseteq Proposal /\ Reports \subseteq Report
    /\ Attachments \subseteq Attachment
    /\ \A d \in Decisions : decisionRow[d] \in [type: STRING, field: STRING \cup {Null}]
    /\ \A r \in Rules : predicate[r] \in Predicate
    /\ {MaxVersions, MaxUpdates, MaxLinks} \subseteq Nat

VARIABLES
    strategies,  \* rows: [slug -> status, description and hypothesis, meta_json]
    strategyLog, \* strategy.created and strategy.updated events, in order
    playbooks,   \* names of playbooks rows
    versions,    \* playbook_versions rows
    adherence,   \* decision_playbook_rules rows
    usedKeys,    \* [event type, key] of the events that playbooks cause
    attached,    \* edges between decisions and other rows
    audit        \* a running report: its rows and what it has evaluated

procedureVars == <<strategies, strategyLog, playbooks, versions, adherence, usedKeys,
                   attached, audit>>
strategyTables == <<strategies, strategyLog>>
playbookTables == <<playbooks, versions, adherence, usedKeys>>

NoAudit == [rows |-> << >>, groups |-> << >>, summary |-> << >>]

ProceduresInit ==
    /\ strategies = << >> /\ strategyLog = << >> /\ playbooks = {} /\ versions = << >>
    /\ adherence = << >> /\ usedKeys = {} /\ attached = << >> /\ audit = NoAudit

-----------------------------------------------------------------------------
(* Strategies *)

LoggedUnder(type, k) == {i \in DOMAIN strategyLog : strategyLog[i].type = type /\ strategyLog[i].key = k}

\* strategy.create: a used key answers with the stored row; a slug is taken once.
\* The event carries every column but meta_json.
StrategyCreate(slug, status, text, meta, k) ==
    /\ LoggedUnder("created", k) = {}
    /\ slug \notin DOMAIN strategies
    /\ strategies' = [s \in DOMAIN strategies \cup {slug} |->
                        IF s = slug THEN [status |-> status, text |-> text, meta |-> meta]
                        ELSE strategies[s]]
    /\ strategyLog' = Append(strategyLog, [type |-> "created", key |-> k, slug |-> slug,
                                           status |-> status, text |-> text])
    /\ UNCHANGED <<playbookTables, attached, audit>>

\* The row with what an update gives; what it omits (Null) stays.
Updated(row, status, text, meta) ==
    [status |-> IF status = Null THEN row.status ELSE status,
     text |-> IF text = Null THEN row.text ELSE text,
     meta |-> IF meta = Null THEN row.meta ELSE meta]

UpdateEvent(slug, row, k) ==
    [type |-> "updated", key |-> k, slug |-> slug, status |-> row.status, text |-> row.text]

\* Mutant: the replayed update is written to the row again.
UpdateReplaysRow(slug, status, text, meta, k) ==
    /\ slug \in DOMAIN strategies /\ Len(strategyLog) < MaxUpdates
    /\ LET row == Updated(strategies[slug], status, text, meta)
       IN /\ strategies' = [strategies EXCEPT ![slug] = row]
          /\ strategyLog' = IF LoggedUnder("updated", k) # {} THEN strategyLog
                            ELSE Append(strategyLog, UpdateEvent(slug, row, k))
    /\ UNCHANGED <<playbookTables, attached, audit>>

\* strategy.update: the event first, then the row, of any column that is given, be it
\* meta_json alone.  A used key is compared by strategy and status, read from the row
\* as it is now, and writes nothing: an equal one answers with the old event.
StrategyUpdate(slug, status, text, meta, k) ==
    /\ slug \in DOMAIN strategies /\ Len(strategyLog) < MaxUpdates
    /\ <<status, text, meta>> # <<Null, Null, Null>>
    /\ LoggedUnder("updated", k) = {}
    /\ LET row == Updated(strategies[slug], status, text, meta)
       IN /\ strategyLog' = Append(strategyLog, UpdateEvent(slug, row, k))
          /\ strategies' = [strategies EXCEPT ![slug] = row]
    /\ UNCHANGED <<playbookTables, attached, audit>>

-----------------------------------------------------------------------------
(* Playbooks *)

\* playbook.create: names are unique.
PlaybookCreate(p, k) ==
    /\ <<"created", k>> \notin usedKeys /\ p \notin playbooks
    /\ playbooks' = playbooks \cup {p}
    /\ usedKeys' = usedKeys \cup {<<"created", k>>}
    /\ UNCHANGED <<strategyTables, versions, adherence, attached, audit>>

VersionsOf(p) == {i \in DOMAIN versions : versions[i].playbook = p}
HeadVersion(p) == CHOOSE i \in VersionsOf(p) : \A j \in VersionsOf(p) : versions[i].version >= versions[j].version

\* playbook.propose_version: the next number unless the caller gives one, the
\* highest version as parent unless the caller names another (of any playbook).
ProposeVersion(c) ==
    LET p == c.playbook
        first == VersionsOf(p) = {}
        version == IF c.number # Null THEN c.number
                   ELSE IF first THEN 1 ELSE versions[HeadVersion(p)].version + 1
    IN /\ p \in playbooks /\ Len(versions) < MaxVersions
       /\ <<"proposed", c.key>> \notin usedKeys
       /\ \A i \in VersionsOf(p) : versions[i].version # version
       /\ c.parent # Null => c.parent \in DOMAIN versions
       /\ versions' = Append(versions, [playbook |-> p, version |-> version, reflection |-> c.reflection,
            parent |-> IF c.parent # Null \/ first THEN c.parent ELSE HeadVersion(p)])
       /\ usedKeys' = usedKeys \cup {<<"proposed", c.key>>}
       /\ UNCHANGED <<strategyTables, playbooks, adherence, attached, audit>>

\* playbook.record_adherence: one row for a decision, version and rule.  A used
\* key answers ok with the caller's own arguments and writes nothing.
RecordAdherence(c) ==
    LET event == IF c.status = "overridden" THEN "overridden" ELSE "followed"
        Row(a) == <<a.decision, a.version, a.rule>>
    IN
    /\ c.version \in DOMAIN versions
    /\ <<event, c.key>> \notin usedKeys
    /\ \A i \in DOMAIN adherence : Row(adherence[i]) # Row(c)
    /\ adherence' = Append(adherence, [decision |-> c.decision, version |-> c.version,
                                       rule |-> c.rule, status |-> c.status])
    /\ usedKeys' = usedKeys \cup {<<event, c.key>>}
    /\ UNCHANGED <<strategyTables, playbooks, versions, attached, audit>>

-----------------------------------------------------------------------------
(* Predicates over the ledger: playbook_predicates.py *)

\* source.attach_to_decision and memory.link: edges are only added.
Attach(d, kind, type) ==
    /\ Len(attached) < MaxLinks
    /\ attached' = Append(attached, [decision |-> d, kind |-> kind, type |-> type,
                                     incoming |-> kind = "source"])
    /\ UNCHANGED <<strategyTables, playbookTables, audit>>

EdgesOf(d, kind, type) ==
    {i \in DOMAIN attached : /\ attached[i].decision = d /\ attached[i].kind = kind
                             /\ attached[i].type = type /\ attached[i].incoming = (kind = "source")}

\* _eval_source_count, and its mutant with an exact number.
ExactlyEnough(count, minimum) == count = minimum
Enough(count, minimum) == count >= minimum

\* evaluate_predicate
Evaluate(d, r) ==
    LET p == predicate[r]  row == decisionRow[d]
        Verdict(ok) == IF ok THEN "pass" ELSE "fail"
    IN CASE p.family = "prose" -> "not_computable"
         [] p.family # "prose" /\ p.scope # {} /\ row.type \notin p.scope -> "not_applicable"
         [] OTHER ->
              CASE p.family = "field" -> IF row.field = Null THEN "not_computable"
                                         ELSE Verdict(row.field = p.wants)
                [] p.family = "decision_type_in" -> Verdict(row.type = p.wants)
                [] p.family = "link_exists" -> Verdict(EdgesOf(d, p.kind, p.edge) # {})
                [] p.family = "source_count_at_least" ->
                     Verdict(Enough(Cardinality(EdgesOf(d, "source", p.edge)), p.minimum))

\* report.playbook_adherence: the rows, then one evaluation after another, first
\* for the groups, then for the summary.
AuditRows ==
    /\ audit = NoAudit /\ adherence # << >>
    /\ audit' = [audit EXCEPT !.rows = adherence]
    /\ UNCHANGED <<strategyTables, playbookTables, attached>>

AuditNext ==
    LET rows == audit.rows
        Result(done) == Evaluate(rows[Len(done) + 1].decision, rows[Len(done) + 1].rule)
    IN /\ rows # << >>
       /\ audit' = CASE Len(audit.groups) < Len(rows) ->
                          [audit EXCEPT !.groups = Append(@, Result(@))]
                     [] Len(audit.groups) = Len(rows) /\ Len(audit.summary) < Len(rows) ->
                          [audit EXCEPT !.summary = Append(@, Result(@))]
                     [] Len(audit.summary) = Len(rows) -> NoAudit
       /\ UNCHANGED <<strategyTables, playbookTables, attached>>

StrategyNext ==
    \E s \in Strategies, k \in CallKeys :
        \/ \E status \in Statuses, text, meta \in Texts : StrategyCreate(s, status, text, meta, k)
        \/ \E status \in Statuses \cup {Null}, text, meta \in Texts \cup {Null} :
             StrategyUpdate(s, status, text, meta, k)

PlaybookNext ==
    \/ \E p \in Playbooks, k \in CallKeys : PlaybookCreate(p, k)
    \/ \E c \in Proposals : ProposeVersion(c)
    \/ \E c \in Reports : RecordAdherence(c)
    \/ \E c \in Attachments : Attach(c.decision, c.kind, c.type)
    \/ AuditRows
    \/ AuditNext

ProceduresNext == StrategyNext \/ PlaybookNext
ProceduresSpec == ProceduresInit /\ [][ProceduresNext]_procedureVars

-----------------------------------------------------------------------------
(* Properties *)

LoggedOf(slug) == {i \in DOMAIN strategyLog : strategyLog[i].slug = slug}

\* What the last event about a strategy says is what its row says, in every column the
\* events carry (persistence.md 8: these rows "are mutated in place and their changes
\* are audited through the `events` log"): across fresh, replayed and refused calls of
\* strategy.create and strategy.update.  meta_json is in no event, so the log alone does
\* not give it back, and an update of meta_json alone leaves an event that says nothing.
StrategyRowIsLastEvent ==
    \A s \in DOMAIN strategies : \E i \in LoggedOf(s) :
        /\ \A j \in LoggedOf(s) : j <= i
        /\ strategies[s].status = strategyLog[i].status
        /\ strategies[s].text = strategyLog[i].text

\* The summary of a report never takes back a pass that its groups count, and
\* differs in nothing else than failures that became passes: edges are only
\* added, and every predicate is monotone in them, whatever the agent writes
\* while the report runs.
AuditNeverRetracts ==
    \A i \in DOMAIN audit.summary :
      \/ audit.summary[i] = audit.groups[i]
      \/ audit.groups[i] = "fail" /\ audit.summary[i] = "pass"
=============================================================================
