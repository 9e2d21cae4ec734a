-------------------------- MODULE Knowledge_proofs ---------------------------
(***************************************************************************)
(* What Memory and Procedures guarantee for any calls, readers, rules and   *)
(* bounds: no retry adds anything, the counters of recalls and the rows of  *)
(* strategies follow their events, no recall returns what was replaced      *)
(* before it began, and an audit never takes a pass back.                   *)
(*                                                                         *)
(* Edges and counters are folds over sequences.  What a fold computes is    *)
(* shown by the least length at which it would be something else: a fold    *)
(* over a sequence has a value after each of its elements (WiredIs and      *)
(* CountedIs), and facts about these values go from one to the next.        *)
(***************************************************************************)
EXTENDS Memory, Procedures, FiniteSetTheorems, WellFoundedInduction, TLAPS

LEMMA LeastNatural ==
    ASSUME NEW T, T \subseteq Nat, T # {}
    PROVE  \E n \in T : \A m \in T : n <= m
<1> DEFINE R == {p \in Nat \X Nat : p[1] < p[2]}
<1>1. R = OpToRel(<, Nat)
  BY DEF OpToRel
<1>2. IsWellFoundedOn(R, Nat)
  BY <1>1, NatLessThanWellFounded
<1>3. \E n \in T : \A m \in T : <<m, n>> \notin R
  BY <1>2, WFMin
<1>4. \A n \in T, m \in T : <<m, n>> \notin R => n <= m
  OBVIOUS
<1> QED
  BY <1>3, <1>4

\* Values of any kind in a row.
IsSeq(s) == \E S : s \in Seq(S)

LEMMA EmptyIsSeq == IsSeq(<< >>)
<1>1. << >> \in Seq({})
  OBVIOUS
<1> QED
  BY <1>1 DEF IsSeq

LEMMA AppendIs ==
    ASSUME NEW s, IsSeq(s), NEW e
    PROVE  /\ Len(s) \in Nat /\ DOMAIN s = 1..Len(s)
           /\ IsSeq(Append(s, e)) /\ Len(Append(s, e)) = Len(s) + 1
           /\ DOMAIN Append(s, e) = 1..(Len(s) + 1)
           /\ Append(s, e)[Len(s) + 1] = e
           /\ \A i \in 1..Len(s) : Append(s, e)[i] = s[i]
<1>1. PICK S : s \in Seq(S)
  BY DEF IsSeq
<1>2. s \in Seq(S \cup {e})
  BY <1>1
<1>3. Append(s, e) \in Seq(S \cup {e})
  BY <1>2
<1> QED
  BY <1>2, <1>3 DEF IsSeq

-----------------------------------------------------------------------------
(* Strategies *)

LEMMA RowIsLast ==
    ASSUME IsSeq(strategyLog), StrategyRowIsLastEvent, NEW s, NEW e,
           strategyLog' = Append(strategyLog, e),
           e.slug = s, strategies'[s].status = e.status, strategies'[s].text = e.text,
           DOMAIN strategies' \subseteq DOMAIN strategies \cup {s},
           \A t \in DOMAIN strategies : t # s => strategies'[t] = strategies[t]
    PROVE  IsSeq(strategyLog)' /\ StrategyRowIsLastEvent'
<1> DEFINE n == Len(strategyLog)
<1>1. /\ n \in Nat /\ DOMAIN strategyLog = 1..n /\ IsSeq(strategyLog')
      /\ DOMAIN strategyLog' = 1..(n + 1) /\ strategyLog'[n + 1] = e
      /\ \A i \in 1..n : strategyLog'[i] = strategyLog[i]
  BY AppendIs
<1>2. ASSUME NEW t \in DOMAIN strategies'
      PROVE  \E i \in LoggedOf(t)' :
                /\ \A j \in LoggedOf(t)' : j <= i
                /\ strategies'[t].status = strategyLog'[i].status
                /\ strategies'[t].text = strategyLog'[i].text
  <2>1. LoggedOf(t)' = {i \in 1..(n + 1) : strategyLog'[i].slug = t}
    BY <1>1 DEF LoggedOf
  <2>2. CASE t = s
    <3>1. n + 1 \in LoggedOf(t)' /\ \A j \in LoggedOf(t)' : j <= n + 1
      BY <1>1, <2>1, <2>2
    <3> QED
      BY <1>1, <2>2, <3>1
  <2>3. CASE t # s
    <3>1. t \in DOMAIN strategies
      BY <2>3
    <3>2. PICK i \in LoggedOf(t) :
            /\ \A j \in LoggedOf(t) : j <= i
            /\ strategies[t].status = strategyLog[i].status
            /\ strategies[t].text = strategyLog[i].text
      BY <3>1 DEF StrategyRowIsLastEvent
    <3>3. LoggedOf(t)' = LoggedOf(t)
      BY <1>1, <2>1, <2>3 DEF LoggedOf
    <3>4. i \in 1..n /\ strategyLog'[i] = strategyLog[i]
      BY <1>1 DEF LoggedOf
    <3> QED
      BY <2>3, <3>1, <3>2, <3>3, <3>4
  <2> QED
    BY <2>2, <2>3
<1> QED
  BY <1>1, <1>2 DEF StrategyRowIsLastEvent

LEMMA StrategyStep ==
    ASSUME IsSeq(strategyLog), StrategyRowIsLastEvent, [ProceduresNext]_procedureVars
    PROVE  IsSeq(strategyLog)' /\ StrategyRowIsLastEvent'
<1>1. ASSUME NEW s, NEW status, NEW text, NEW meta, NEW k,
             StrategyCreate(s, status, text, meta, k)
      PROVE  IsSeq(strategyLog)' /\ StrategyRowIsLastEvent'
  <2> DEFINE row == [status |-> status, text |-> text, meta |-> meta]
             e == [type |-> "created", key |-> k, slug |-> s, status |-> status, text |-> text]
  <2>1. /\ strategies' = [t \in DOMAIN strategies \cup {s} |-> IF t = s THEN row ELSE strategies[t]]
        /\ s \notin DOMAIN strategies
        /\ strategyLog' = Append(strategyLog, e)
    BY <1>1 DEF StrategyCreate
  <2>2. e.slug = s /\ row.status = e.status /\ row.text = e.text
    OBVIOUS
  <2> HIDE DEF row, e
  <2>3. /\ DOMAIN strategies' \subseteq DOMAIN strategies \cup {s} /\ strategies'[s] = row
        /\ \A t \in DOMAIN strategies : t # s => strategies'[t] = strategies[t]
    BY <2>1
  <2>4. strategyLog' = Append(strategyLog, e)
    BY <2>1
  <2>5. e.slug = s /\ strategies'[s].status = e.status /\ strategies'[s].text = e.text
    BY <2>2, <2>3
  <2>6. DOMAIN strategies' \subseteq DOMAIN strategies \cup {s} /\ \A t \in DOMAIN strategies : t # s => strategies'[t] = strategies[t]
    BY <2>3
  <2> QED
    BY <2>4, <2>5, <2>6, RowIsLast
<1>2. ASSUME NEW s, NEW status, NEW text, NEW meta, NEW k,
             StrategyUpdate(s, status, text, meta, k)
      PROVE  IsSeq(strategyLog)' /\ StrategyRowIsLastEvent'
  <2> DEFINE row == Updated(strategies[s], status, text, meta)
             e == UpdateEvent(s, row, k)
  <2>1. /\ strategies' = [strategies EXCEPT ![s] = row] /\ s \in DOMAIN strategies
        /\ strategyLog' = Append(strategyLog, e)
    BY <1>2 DEF StrategyUpdate
  <2>2. e.slug = s /\ row.status = e.status /\ row.text = e.text
    BY DEF UpdateEvent
  <2> HIDE DEF row, e
  <2>3. /\ DOMAIN strategies' \subseteq DOMAIN strategies \cup {s} /\ strategies'[s] = row
        /\ \A t \in DOMAIN strategies : t # s => strategies'[t] = strategies[t]
    BY <2>1
  <2>4. strategyLog' = Append(strategyLog, e)
    BY <2>1
  <2>5. e.slug = s /\ strategies'[s].status = e.status /\ strategies'[s].text = e.text
    BY <2>2, <2>3
  <2>6. DOMAIN strategies' \subseteq DOMAIN strategies \cup {s} /\ \A t \in DOMAIN strategies : t # s => strategies'[t] = strategies[t]
    BY <2>3
  <2> QED
    BY <2>4, <2>5, <2>6, RowIsLast
<1>3. CASE UNCHANGED strategyTables
  BY <1>3 DEF strategyTables, StrategyRowIsLastEvent, LoggedOf
<1>4. PlaybookNext \/ UNCHANGED procedureVars => UNCHANGED strategyTables
  BY DEF PlaybookNext, PlaybookCreate, ProposeVersion, RecordAdherence, Attach, AuditRows, AuditNext,
         procedureVars, strategyTables
<1> QED
  BY <1>1, <1>2, <1>3, <1>4 DEF ProceduresNext, StrategyNext

\* The last event about a strategy says what its row says, in every column that events
\* carry, for any number of strategies, calls and keys.
THEOREM StrategiesFollowTheirLog == ProceduresSpec => []StrategyRowIsLastEvent
<1>1. ProceduresInit => IsSeq(strategyLog) /\ StrategyRowIsLastEvent
  BY EmptyIsSeq DEF ProceduresInit, StrategyRowIsLastEvent
<1>2. IsSeq(strategyLog) /\ StrategyRowIsLastEvent /\ [ProceduresNext]_procedureVars
        => IsSeq(strategyLog)' /\ StrategyRowIsLastEvent'
  BY StrategyStep
<1> QED
  BY <1>1, <1>2, PTL DEF ProceduresSpec
-----------------------------------------------------------------------------
(* The audit of adherence *)

AdherenceRow == [decision : Decisions, version : Nat, rule : Rules, status : AdherenceStatuses]
AttachedRow == [decision : Decisions, kind : Kinds, type : LinkTypes, incoming : BOOLEAN]

\* What an evaluation says and what a later one may say.
Holds(before, now) == now = before \/ (before = "fail" /\ now = "pass")

\* The report evaluates row after row, and what it found is still true or was a
\* failure that is a pass now.
AuditInv ==
    /\ adherence \in Seq(AdherenceRow) /\ attached \in Seq(AttachedRow)
    /\ audit = [rows |-> audit.rows, groups |-> audit.groups, summary |-> audit.summary]
    /\ audit.rows \in Seq(AdherenceRow)
    /\ IsSeq(audit.groups) /\ IsSeq(audit.summary)
    /\ Len(audit.groups) <= Len(audit.rows) /\ Len(audit.summary) <= Len(audit.groups)
    /\ Len(audit.groups) < Len(audit.rows) => Len(audit.summary) = 0
    /\ \A i \in 1..Len(audit.groups) :
         Holds(audit.groups[i], Evaluate(audit.rows[i].decision, audit.rows[i].rule))
    /\ \A i \in 1..Len(audit.summary) :
         /\ Holds(audit.groups[i], audit.summary[i])
         /\ Holds(audit.summary[i], Evaluate(audit.rows[i].decision, audit.rows[i].rule))

LEMMA HoldsOn == ASSUME NEW a, NEW b, NEW c, Holds(a, b), Holds(b, c) PROVE Holds(a, c)
BY DEF Holds

LEMMA IsSeqFacts ==
    /\ \A S : \A s \in Seq(S) : IsSeq(s)
    /\ \A s : IsSeq(s) => Len(s) \in Nat /\ DOMAIN s = 1..Len(s)
<1>1. \A s : IsSeq(s) => Len(s) \in Nat /\ DOMAIN s = 1..Len(s)
  BY DEF IsSeq
<1>2. \A S : \A s \in Seq(S) : IsSeq(s)
  BY DEF IsSeq
<1> QED
  BY <1>1, <1>2

LEMMA SameEdgesSameVerdict ==
    ASSUME attached' = attached
    PROVE  \A d, r : Evaluate(d, r)' = Evaluate(d, r)
<1>1. \A d, kind, type : EdgesOf(d, kind, type)' = EdgesOf(d, kind, type)
  BY DEF EdgesOf
<1> QED
  BY <1>1 DEF Evaluate

\* Every predicate is monotone in the edges.
LEMMA MoreEdgesNoRetraction ==
    ASSUME attached \in Seq(AttachedRow), NEW e, attached' = Append(attached, e),
           NEW d, NEW r \in Rules
    PROVE  Holds(Evaluate(d, r), Evaluate(d, r)')
<1> DEFINE n == Len(attached)
<1>1. /\ n \in Nat /\ DOMAIN attached = 1..n /\ DOMAIN attached' = 1..(n + 1)
      /\ \A i \in 1..n : attached'[i] = attached[i]
  BY AppendIs, IsSeqFacts
<1>2. ASSUME NEW kind, NEW type
      PROVE  /\ EdgesOf(d, kind, type) \subseteq EdgesOf(d, kind, type)'
             /\ IsFiniteSet(EdgesOf(d, kind, type)')
             /\ Cardinality(EdgesOf(d, kind, type)) \in Nat
             /\ Cardinality(EdgesOf(d, kind, type)') \in Nat
             /\ Cardinality(EdgesOf(d, kind, type)) <= Cardinality(EdgesOf(d, kind, type)')
  <2>1. EdgesOf(d, kind, type) \subseteq EdgesOf(d, kind, type)'
    BY <1>1 DEF EdgesOf
  <2>2. EdgesOf(d, kind, type)' \subseteq 1..(n + 1)
    BY <1>1 DEF EdgesOf
  <2>3. IsFiniteSet(EdgesOf(d, kind, type)')
    <3>1. IsFiniteSet(1..(n + 1))
      BY <1>1, FS_Interval
    <3> QED
      BY <2>2, <3>1, FS_Subset
  <2> QED
    BY <2>1, <2>3, FS_Subset, FS_CardinalityType
<1> DEFINE p == predicate[r]
           row == decisionRow[d]
<1>3. p \in Predicate
  BY ProceduresAssumption
<1>4. p.family \in Families /\ p.minimum \in Nat
  BY <1>3 DEF Predicate
<1>5. CASE p.family = "prose" \/ (p.scope # {} /\ row.type \notin p.scope)
  BY <1>5 DEF Evaluate, Holds
<1>6. CASE ~(p.family = "prose" \/ (p.scope # {} /\ row.type \notin p.scope))
  <2>1. CASE p.family \in {"field", "decision_type_in"}
    BY <1>6, <2>1 DEF Evaluate, Holds
  <2>2. CASE p.family = "link_exists"
    <3>1. /\ Evaluate(d, r) = IF EdgesOf(d, p.kind, p.edge) # {} THEN "pass" ELSE "fail"
          /\ Evaluate(d, r)' = IF EdgesOf(d, p.kind, p.edge)' # {} THEN "pass" ELSE "fail"
      BY <1>6, <2>2 DEF Evaluate
    <3> QED
      BY <1>2, <3>1 DEF Holds
  <2>3. CASE p.family = "source_count_at_least"
    <3>1. /\ Evaluate(d, r) = IF Enough(Cardinality(EdgesOf(d, "source", p.edge)), p.minimum)
                              THEN "pass" ELSE "fail"
          /\ Evaluate(d, r)' = IF Enough(Cardinality(EdgesOf(d, "source", p.edge)'), p.minimum)
                               THEN "pass" ELSE "fail"
      BY <1>6, <2>3 DEF Evaluate
    <3>2. Enough(Cardinality(EdgesOf(d, "source", p.edge)), p.minimum)
            => Enough(Cardinality(EdgesOf(d, "source", p.edge)'), p.minimum)
      BY <1>2, <1>4 DEF Enough
    <3> QED
      BY <3>1, <3>2 DEF Holds
  <2> QED
    BY <1>4, <1>6, <2>1, <2>2, <2>3 DEF Families
<1> QED
  BY <1>5, <1>6
LEMMA AuditStands ==
    ASSUME AuditInv, audit' = audit, adherence' \in Seq(AdherenceRow), attached' \in Seq(AttachedRow),
           \A d, r : r \in Rules => Holds(Evaluate(d, r), Evaluate(d, r)')
    PROVE  AuditInv'
<1>1. Len(audit.groups) \in Nat /\ Len(audit.summary) \in Nat /\ Len(audit.rows) \in Nat
  BY IsSeqFacts DEF AuditInv
<1>2. \A i \in 1..Len(audit.rows) : audit.rows[i].rule \in Rules
  <2> TAKE i \in 1..Len(audit.rows)
  <2>1. audit.rows[i] \in AdherenceRow
    BY DEF AuditInv
  <2> QED
    BY <2>1 DEF AdherenceRow
<1>3. ASSUME NEW i \in 1..Len(audit.groups)
      PROVE  Holds(audit.groups[i], Evaluate(audit.rows[i].decision, audit.rows[i].rule)')
  <2>1. audit.rows[i].rule \in Rules
    BY <1>1, <1>2 DEF AuditInv
  <2>2. Holds(audit.groups[i], Evaluate(audit.rows[i].decision, audit.rows[i].rule))
    BY DEF AuditInv
  <2>3. Holds(Evaluate(audit.rows[i].decision, audit.rows[i].rule), Evaluate(audit.rows[i].decision, audit.rows[i].rule)')
    BY <2>1
  <2> QED
    BY <2>2, <2>3, HoldsOn
<1>4. ASSUME NEW i \in 1..Len(audit.summary)
      PROVE  Holds(audit.summary[i], Evaluate(audit.rows[i].decision, audit.rows[i].rule)')
  <2>1. audit.rows[i].rule \in Rules
    BY <1>1, <1>2 DEF AuditInv
  <2>2. Holds(audit.summary[i], Evaluate(audit.rows[i].decision, audit.rows[i].rule))
    BY DEF AuditInv
  <2>3. Holds(Evaluate(audit.rows[i].decision, audit.rows[i].rule), Evaluate(audit.rows[i].decision, audit.rows[i].rule)')
    BY <2>1
  <2> QED
    BY <2>2, <2>3, HoldsOn
<1> QED
  BY <1>3, <1>4 DEF AuditInv

\* The verdict of one more row.
LEMMA AuditNextKeeps ==
    ASSUME AuditInv, AuditNext
    PROVE  AuditInv'
<1> DEFINE rows == audit.rows
           ng == Len(audit.groups)
           ns == Len(audit.summary)
           Verdict(i) == Evaluate(rows[i].decision, rows[i].rule)
<1>1. /\ ng \in Nat /\ ns \in Nat /\ Len(rows) \in Nat /\ ng <= Len(rows) /\ ns <= ng
      /\ IsSeq(audit.groups) /\ IsSeq(audit.summary)
  BY IsSeqFacts DEF AuditInv
<1>2. /\ adherence' = adherence /\ attached' = attached
      /\ \A d, r : Evaluate(d, r)' = Evaluate(d, r)
  BY SameEdgesSameVerdict DEF AuditNext, playbookTables
<1>3. \/ /\ ng < Len(rows)
         /\ audit' = [audit EXCEPT !.groups = Append(audit.groups, Verdict(ng + 1))]
      \/ /\ ng = Len(rows) /\ ns < Len(rows)
         /\ audit' = [audit EXCEPT !.summary = Append(audit.summary, Verdict(ns + 1))]
      \/ audit' = NoAudit
  BY <1>1 DEF AuditNext
<1>4. audit = [rows |-> audit.rows, groups |-> audit.groups, summary |-> audit.summary]
  BY DEF AuditInv
<1>5. CASE /\ ng < Len(rows)
           /\ audit' = [audit EXCEPT !.groups = Append(audit.groups, Verdict(ng + 1))]
  <2>1. /\ audit' = [rows |-> audit'.rows, groups |-> audit'.groups, summary |-> audit'.summary]
        /\ audit'.rows = rows /\ audit'.summary = audit.summary
        /\ audit'.groups = Append(audit.groups, Verdict(ng + 1))
    BY <1>4, <1>5
  <2>2. /\ IsSeq(audit'.groups) /\ Len(audit'.groups) = ng + 1
        /\ audit'.groups[ng + 1] = Verdict(ng + 1) /\ \A i \in 1..ng : audit'.groups[i] = audit.groups[i]
    BY <1>1, <2>1, AppendIs
  <2>3. ns = 0
    BY <1>5 DEF AuditInv
  <2>4. ASSUME NEW i \in 1..(ng + 1) PROVE Holds(audit'.groups[i], Verdict(i))
    <3>1. CASE i = ng + 1
      BY <2>2, <3>1 DEF Holds
    <3>2. CASE i \in 1..ng
      BY <2>2, <3>2 DEF AuditInv
    <3> QED
      BY <1>1, <3>1, <3>2
  <2> QED
    BY <1>1, <1>2, <1>5, <2>1, <2>2, <2>3, <2>4 DEF AuditInv
<1>6. CASE /\ ng = Len(rows) /\ ns < Len(rows)
           /\ audit' = [audit EXCEPT !.summary = Append(audit.summary, Verdict(ns + 1))]
  <2>1. /\ audit' = [rows |-> audit'.rows, groups |-> audit'.groups, summary |-> audit'.summary]
        /\ audit'.rows = rows /\ audit'.groups = audit.groups
        /\ audit'.summary = Append(audit.summary, Verdict(ns + 1))
    BY <1>4, <1>6
  <2>2. /\ IsSeq(audit'.summary) /\ Len(audit'.summary) = ns + 1
        /\ audit'.summary[ns + 1] = Verdict(ns + 1) /\ \A i \in 1..ns : audit'.summary[i] = audit.summary[i]
    BY <1>1, <2>1, AppendIs
  <2>3. ASSUME NEW i \in 1..(ns + 1)
        PROVE  Holds(audit.groups[i], audit'.summary[i]) /\ Holds(audit'.summary[i], Verdict(i))
    <3>1. CASE i = ns + 1
      <4>1. \A j \in 1..ng : Holds(audit.groups[j], Verdict(j))
        BY DEF AuditInv
      <4> QED
        BY <1>1, <1>6, <2>2, <3>1, <4>1 DEF Holds
    <3>2. CASE i \in 1..ns
      BY <2>2, <3>2 DEF AuditInv
    <3> QED
      BY <1>1, <3>1, <3>2
  <2>4. \A i \in 1..ng : Holds(audit.groups[i], Verdict(i))
    BY DEF AuditInv
  <2> QED
    BY <1>1, <1>2, <1>6, <2>1, <2>2, <2>3, <2>4 DEF AuditInv
<1>7. CASE audit' = NoAudit
  BY <1>2, <1>7, EmptyIsSeq DEF AuditInv, NoAudit
<1> QED
  BY <1>3, <1>5, <1>6, <1>7

LEMMA AuditStep ==
    ASSUME AuditInv, [ProceduresNext]_procedureVars
    PROVE  AuditInv'
<1>1. adherence \in Seq(AdherenceRow) /\ attached \in Seq(AttachedRow)
  BY DEF AuditInv
<1>2. ASSUME attached' = attached
      PROVE  \A d, r : r \in Rules => Holds(Evaluate(d, r), Evaluate(d, r)')
  BY <1>2, SameEdgesSameVerdict DEF Holds
<1>3. CASE UNCHANGED <<adherence, attached, audit>>
  BY <1>1, <1>2, <1>3, AuditStands
<1>4. CASE \E c \in Reports : RecordAdherence(c)
  <2>1. PICK c \in Reports : RecordAdherence(c)
    BY <1>4
  <2>2. c \in Report
    BY ProceduresAssumption
  <2>3. [decision |-> c.decision, version |-> c.version, rule |-> c.rule, status |-> c.status] \in AdherenceRow
    BY <2>2 DEF AdherenceRow, Report
  <2>4. adherence' \in Seq(AdherenceRow) /\ attached' = attached /\ audit' = audit
    BY <1>1, <2>1, <2>3 DEF RecordAdherence
  <2> QED
    BY <1>1, <1>2, <2>4, AuditStands
<1>5. CASE \E c \in Attachments : Attach(c.decision, c.kind, c.type)
  <2>1. PICK c \in Attachments : Attach(c.decision, c.kind, c.type)
    BY <1>5
  <2> DEFINE e == [decision |-> c.decision, kind |-> c.kind, type |-> c.type, incoming |-> c.kind = "source"]
  <2>2. c \in Attachment
    BY ProceduresAssumption
  <2>3. e \in AttachedRow
    BY <2>2 DEF AttachedRow, Attachment
  <2>4. attached' = Append(attached, e) /\ audit' = audit /\ adherence' = adherence
    BY <2>1 DEF Attach, playbookTables
  <2> HIDE DEF e
  <2>5. attached' \in Seq(AttachedRow)
    BY <1>1, <2>3, <2>4
  <2>6. \A d, r : r \in Rules => Holds(Evaluate(d, r), Evaluate(d, r)')
    BY <1>1, <2>4, MoreEdgesNoRetraction
  <2> QED
    BY <1>1, <2>4, <2>5, <2>6, AuditStands
<1>6. CASE AuditRows
  <2>1. /\ audit = NoAudit /\ audit' = [audit EXCEPT !.rows = adherence]
        /\ adherence' = adherence /\ attached' = attached
    BY <1>6 DEF AuditRows, playbookTables
  <2>2. audit' = [rows |-> adherence, groups |-> << >>, summary |-> << >>]
    BY <2>1 DEF NoAudit
  <2>3. Len(adherence) \in Nat
    BY <1>1
  <2> QED
    BY <1>1, <2>1, <2>2, <2>3, EmptyIsSeq DEF AuditInv
<1>7. CASE AuditNext
  BY <1>7, AuditNextKeeps
<1> QED
  BY <1>3, <1>4, <1>5, <1>6, <1>7 DEF ProceduresNext, StrategyNext, PlaybookNext, StrategyCreate,
     StrategyUpdate, PlaybookCreate, ProposeVersion, procedureVars, playbookTables

\* report.playbook_adherence never takes a pass back, for any rows, predicates and
\* edges that arrive while it runs.
THEOREM NoVerdictIsRetracted == ProceduresSpec => []AuditNeverRetracts
<1>1. ProceduresInit => AuditInv
  BY EmptyIsSeq DEF ProceduresInit, AuditInv, NoAudit
<1>2. AuditInv /\ [ProceduresNext]_procedureVars => AuditInv'
  BY AuditStep
<1>3. AuditInv => AuditNeverRetracts
  <2> SUFFICES ASSUME AuditInv, NEW i \in DOMAIN audit.summary
               PROVE  \/ audit.summary[i] = audit.groups[i]
                      \/ audit.groups[i] = "fail" /\ audit.summary[i] = "pass"
    BY DEF AuditNeverRetracts
  <2>1. i \in 1..Len(audit.summary)
    BY IsSeqFacts DEF AuditInv
  <2> QED
    BY <2>1 DEF AuditInv, Holds
<1> QED
  BY <1>1, <1>2, <1>3, PTL DEF ProceduresSpec
-----------------------------------------------------------------------------
(* Folds over a row take its elements from the first to the last *)

LEMMA MaxIs ==
    ASSUME NEW n \in Nat, NEW s, s \subseteq 1..n, s # {}
    PROVE  Max(s) \in s /\ \A j \in s : Max(s) >= j
<1> DEFINE below == {k \in Nat : n - k \in s}
<1>1. below \subseteq Nat /\ below # {}
  <2>1. PICK i \in s : i \in 1..n
    OBVIOUS
  <2>2. n - (n - i) = i /\ n - i \in Nat
    BY <2>1
  <2> QED
    BY <2>1, <2>2
<1>2. PICK k \in below : \A j \in below : k <= j
  BY <1>1, LeastNatural
<1>3. n - k \in s /\ k \in Nat
  BY <1>2
<1>4. \A j \in s : n - k >= j
  <2> TAKE j \in s
  <2>1. j \in 1..n /\ n - (n - j) = j /\ n - j \in Nat
    OBVIOUS
  <2>2. k <= n - j
    BY <1>2, <2>1
  <2> QED
    BY <1>3, <2>1, <2>2
<1> QED
  BY <1>3, <1>4 DEF Max

LEMMA TopIs ==
    ASSUME NEW m \in Nat, NEW s, s \subseteq 1..(m + 1), m + 1 \in s
    PROVE  Max(s) = m + 1 /\ s \ {m + 1} \subseteq 1..m
<1>1. Max(s) \in s /\ Max(s) >= m + 1
  <2>1. m + 1 \in Nat /\ s # {}
    OBVIOUS
  <2> QED
    BY <2>1, MaxIs
<1>2. Max(s) \in 1..(m + 1)
  BY <1>1
<1> QED
  BY <1>1, <1>2

LEMMA LowIs ==
    ASSUME NEW m \in Nat, NEW s, s \subseteq 1..(m + 1), m + 1 \notin s, s # {}
    PROVE  s \subseteq 1..m /\ Max(s) \in 1..m /\ s \ {Max(s)} \subseteq 1..m
<1>1. s \subseteq 1..m
  OBVIOUS
<1> QED
  BY <1>1, MaxIs

WireOne(all, n, w) == IF HasEdge(all, n, w.target, w.type) THEN all
                      ELSE Append(all, Edge(n, w.target, w.type))
IsWiring(it, E, n, wanted, m) ==
    it = [s \in SUBSET (1..m) |-> IF s = {} THEN E ELSE WireOne(it[s \ {Max(s)}], n, wanted[Max(s)])]

LEMMA WiringExists ==
    ASSUME NEW E, NEW n, NEW wanted, NEW N \in Nat
    PROVE  \E it : IsWiring(it, E, n, wanted, N)
<1> DEFINE Bad == {m \in Nat : ~ \E it : IsWiring(it, E, n, wanted, m)}
<1>1. SUFFICES ASSUME Bad # {} PROVE FALSE
  OBVIOUS
<1>2. PICK b \in Bad : \A m \in Bad : b <= m
  BY <1>1, LeastNatural
<1>3. b # 0
  <2> DEFINE it == [s \in SUBSET (1..0) |-> E]
  <2>1. \A s \in SUBSET (1..0) : s = {}
    OBVIOUS
  <2>2. IsWiring(it, E, n, wanted, 0)
    BY <2>1 DEF IsWiring
  <2> HIDE DEF it
  <2> QED
    BY <2>2
<1> DEFINE m == b - 1
<1>4. m \in Nat /\ b = m + 1 /\ m \notin Bad
  BY <1>2, <1>3
<1>5. PICK g : IsWiring(g, E, n, wanted, m)
  BY <1>4
<1> HIDE DEF m
<1> DEFINE h == [s \in SUBSET (1..(m + 1)) |->
                   IF m + 1 \in s THEN WireOne(g[s \ {m + 1}], n, wanted[m + 1]) ELSE g[s]]
<1>6. ASSUME NEW s \in SUBSET (1..(m + 1))
      PROVE  h[s] = IF s = {} THEN E ELSE WireOne(h[s \ {Max(s)}], n, wanted[Max(s)])
  <2>1. \A t \in SUBSET (1..m) :
          /\ h[t] = g[t]
          /\ g[t] = IF t = {} THEN E ELSE WireOne(g[t \ {Max(t)}], n, wanted[Max(t)])
    <3> TAKE t \in SUBSET (1..m)
    <3>1. t \in SUBSET (1..(m + 1)) /\ m + 1 \notin t
      BY <1>4
    <3>2. g[t] = IF t = {} THEN E ELSE WireOne(g[t \ {Max(t)}], n, wanted[Max(t)])
      BY <1>5 DEF IsWiring
    <3> QED
      BY <3>1, <3>2
  <2>2. CASE m + 1 \in s
    <3>1. h[s] = WireOne(g[s \ {m + 1}], n, wanted[m + 1])
      BY <2>2
    <3> HIDE DEF h
    <3>2. Max(s) = m + 1 /\ s \ {m + 1} \in SUBSET (1..m)
      BY <1>4, <2>2, TopIs
    <3> QED
      BY <2>1, <2>2, <3>1, <3>2
  <2>3. CASE m + 1 \notin s /\ s # {}
    <3> HIDE DEF h
    <3>1. s \in SUBSET (1..m) /\ s \ {Max(s)} \in SUBSET (1..m)
      BY <1>4, <2>3, LowIs
    <3> QED
      BY <2>1, <2>3, <3>1
  <2>4. CASE s = {}
    <3>1. s \in SUBSET (1..m)
      BY <2>4
    <3> HIDE DEF h
    <3> QED
      BY <2>1, <2>4, <3>1
  <2> QED
    BY <2>2, <2>3, <2>4
<1>7. h = [s \in SUBSET (1..(m + 1)) |-> h[s]]
  OBVIOUS
<1> HIDE DEF h
<1>8. IsWiring(h, E, n, wanted, m + 1)
  BY <1>6, <1>7 DEF IsWiring
<1> QED
  BY <1>4, <1>8

\* The edges after each of the wanted ones.
LEMMA WiredIs ==
    ASSUME NEW E, NEW n, NEW wanted, IsSeq(wanted)
    PROVE  \E g : /\ g[0] = E /\ g[Len(wanted)] = Wired(E, n, wanted)
                  /\ \A i \in 1..Len(wanted) : g[i] = WireOne(g[i - 1], n, wanted[i])
<1> DEFINE N == Len(wanted)
           it == CHOOSE it : IsWiring(it, E, n, wanted, N)
<1>1. N \in Nat /\ DOMAIN wanted = 1..N
  BY IsSeqFacts
<1>2. Wired(E, n, wanted) = it[1..N]
  BY <1>1 DEF Wired, FoldLeft, MapThenFoldSet, IsWiring, WireOne
<1>3. IsWiring(it, E, n, wanted, N)
  BY <1>1, WiringExists
<1> HIDE DEF it
<1> DEFINE g == [i \in 0..N |-> it[1..i]]
<1>4. g[0] = E /\ g[N] = Wired(E, n, wanted)
  <2>1. 1..0 = {} /\ {} \in SUBSET (1..N)
    OBVIOUS
  <2>2. it[{}] = E
    BY <1>3, <2>1 DEF IsWiring
  <2> QED
    BY <1>1, <1>2, <2>1, <2>2
<1>5. ASSUME NEW i \in 1..N PROVE g[i] = WireOne(g[i - 1], n, wanted[i])
  <2> DEFINE m == i - 1
  <2>1. m \in Nat /\ i = m + 1 /\ 1..i \in SUBSET (1..N) /\ i \in 1..i /\ g[i] = it[1..i] /\ g[i - 1] = it[1..m]
    BY <1>1
  <2> HIDE DEF m, g
  <2>2. Max(1..i) = i /\ (1..i) \ {i} = 1..m
    BY <2>1, TopIs
  <2>3. it[1..i] = WireOne(it[(1..i) \ {Max(1..i)}], n, wanted[Max(1..i)])
    BY <1>3, <2>1 DEF IsWiring
  <2> QED
    BY <2>1, <2>2, <2>3
<1> HIDE DEF g
<1> QED
  BY <1>4, <1>5
Recount(st, e) ==
    Over([n \in Range(e.items) |->
            [count |-> IF n \in DOMAIN st THEN st[n].count + 1 ELSE 1, last |-> e.at]], st)
CountAll(rows) ==
    FoldLeft(LAMBDA st, e : Over([n \in Range(e.items) |->
        [count |-> IF n \in DOMAIN st THEN st[n].count + 1 ELSE 1, last |-> e.at]], st), << >>, rows)
IsCounting(it, rows, m) ==
    it = [s \in SUBSET (1..m) |-> IF s = {} THEN << >> ELSE Recount(it[s \ {Max(s)}], rows[Max(s)])]

LEMMA CountingExists ==
    ASSUME NEW rows, NEW N \in Nat
    PROVE  \E it : IsCounting(it, rows, N)
<1> DEFINE Bad == {m \in Nat : ~ \E it : IsCounting(it, rows, m)}
<1>1. SUFFICES ASSUME Bad # {} PROVE FALSE
  OBVIOUS
<1>2. PICK b \in Bad : \A m \in Bad : b <= m
  BY <1>1, LeastNatural
<1>3. b # 0
  <2> DEFINE it == [s \in SUBSET (1..0) |-> << >>]
  <2>1. \A s \in SUBSET (1..0) : s = {}
    OBVIOUS
  <2>2. IsCounting(it, rows, 0)
    BY <2>1 DEF IsCounting
  <2> HIDE DEF it
  <2> QED
    BY <2>2
<1> DEFINE m == b - 1
<1>4. m \in Nat /\ b = m + 1 /\ m \notin Bad
  BY <1>2, <1>3
<1>5. PICK g : IsCounting(g, rows, m)
  BY <1>4
<1> HIDE DEF m
<1> DEFINE h == [s \in SUBSET (1..(m + 1)) |->
                   IF m + 1 \in s THEN Recount(g[s \ {m + 1}], rows[m + 1]) ELSE g[s]]
<1>6. ASSUME NEW s \in SUBSET (1..(m + 1))
      PROVE  h[s] = IF s = {} THEN << >> ELSE Recount(h[s \ {Max(s)}], rows[Max(s)])
  <2>1. \A t \in SUBSET (1..m) :
          /\ h[t] = g[t]
          /\ g[t] = IF t = {} THEN << >> ELSE Recount(g[t \ {Max(t)}], rows[Max(t)])
    <3> TAKE t \in SUBSET (1..m)
    <3>1. t \in SUBSET (1..(m + 1)) /\ m + 1 \notin t
      BY <1>4
    <3>2. g[t] = IF t = {} THEN << >> ELSE Recount(g[t \ {Max(t)}], rows[Max(t)])
      BY <1>5 DEF IsCounting
    <3> QED
      BY <3>1, <3>2
  <2>2. CASE m + 1 \in s
    <3>1. h[s] = Recount(g[s \ {m + 1}], rows[m + 1])
      BY <2>2
    <3> HIDE DEF h
    <3>2. Max(s) = m + 1 /\ s \ {m + 1} \in SUBSET (1..m)
      BY <1>4, <2>2, TopIs
    <3> QED
      BY <2>1, <2>2, <3>1, <3>2
  <2>3. CASE m + 1 \notin s /\ s # {}
    <3> HIDE DEF h
    <3>1. s \in SUBSET (1..m) /\ s \ {Max(s)} \in SUBSET (1..m)
      BY <1>4, <2>3, LowIs
    <3> QED
      BY <2>1, <2>3, <3>1
  <2>4. CASE s = {}
    <3>1. s \in SUBSET (1..m)
      BY <2>4
    <3> HIDE DEF h
    <3> QED
      BY <2>1, <2>4, <3>1
  <2> QED
    BY <2>2, <2>3, <2>4
<1>7. h = [s \in SUBSET (1..(m + 1)) |-> h[s]]
  OBVIOUS
<1> HIDE DEF h
<1>8. IsCounting(h, rows, m + 1)
  BY <1>6, <1>7 DEF IsCounting
<1> QED
  BY <1>4, <1>8

\* The counts after each of the recalls.
LEMMA CountedIs ==
    ASSUME NEW rows, IsSeq(rows)
    PROVE  \E g : /\ g[0] = << >> /\ g[Len(rows)] = CountAll(rows)
                  /\ \A i \in 1..Len(rows) : g[i] = Recount(g[i - 1], rows[i])
<1> DEFINE N == Len(rows)
           it == CHOOSE it : IsCounting(it, rows, N)
<1>1. N \in Nat /\ DOMAIN rows = 1..N
  BY IsSeqFacts
<1>2. CountAll(rows) = it[1..N]
  BY <1>1 DEF CountAll, FoldLeft, MapThenFoldSet, IsCounting, Recount
<1>3. IsCounting(it, rows, N)
  BY <1>1, CountingExists
<1> HIDE DEF it
<1> DEFINE g == [i \in 0..N |-> it[1..i]]
<1>4. g[0] = << >> /\ g[N] = CountAll(rows)
  <2>1. 1..0 = {} /\ {} \in SUBSET (1..N)
    OBVIOUS
  <2>2. it[{}] = << >>
    BY <1>3, <2>1 DEF IsCounting
  <2> QED
    BY <1>1, <1>2, <2>1, <2>2
<1>5. ASSUME NEW i \in 1..N PROVE g[i] = Recount(g[i - 1], rows[i])
  <2> DEFINE m == i - 1
  <2>1. m \in Nat /\ i = m + 1 /\ 1..i \in SUBSET (1..N) /\ i \in 1..i /\ g[i] = it[1..i] /\ g[i - 1] = it[1..m]
    BY <1>1
  <2> HIDE DEF m, g
  <2>2. Max(1..i) = i /\ (1..i) \ {i} = 1..m
    BY <2>1, TopIs
  <2>3. it[1..i] = Recount(it[(1..i) \ {Max(1..i)}], rows[Max(1..i)])
    BY <1>3, <2>1 DEF IsCounting
  <2> QED
    BY <2>1, <2>2, <2>3
<1> HIDE DEF g
<1> QED
  BY <1>4, <1>5
LEMMA CountOneMore ==
    ASSUME NEW rows, IsSeq(rows), NEW e
    PROVE  CountAll(Append(rows, e)) = Recount(CountAll(rows), e)
<1> DEFINE N == Len(rows)
           more == Append(rows, e)
<1>1. /\ N \in Nat /\ IsSeq(more) /\ Len(more) = N + 1 /\ more[N + 1] = e
      /\ \A i \in 1..N : more[i] = rows[i]
  BY AppendIs
<1>2. PICK g : /\ g[0] = << >> /\ g[N] = CountAll(rows)
               /\ \A i \in 1..N : g[i] = Recount(g[i - 1], rows[i])
  BY CountedIs
<1> HIDE DEF more
<1>3. PICK h : /\ h[0] = << >> /\ h[N + 1] = CountAll(more)
               /\ \A i \in 1..(N + 1) : h[i] = Recount(h[i - 1], more[i])
  <2>1. \E h : /\ h[0] = << >> /\ h[Len(more)] = CountAll(more)
               /\ \A i \in 1..Len(more) : h[i] = Recount(h[i - 1], more[i])
    BY <1>1, CountedIs
  <2> QED
    BY <1>1, <2>1
<1> HIDE DEF N
<1>4. g[N] = h[N]
  <2> DEFINE Bad == {i \in 0..N : g[i] # h[i]}
  <2>1. SUFFICES ASSUME Bad # {} PROVE FALSE
    BY <1>1
  <2>2. PICK i \in Bad : \A j \in Bad : i <= j
    <3>1. Bad \subseteq Nat
      BY <1>1
    <3> HIDE DEF Bad
    <3> QED
      BY <2>1, <3>1, LeastNatural
  <2>3. i # 0
    BY <1>2, <1>3, <2>2
  <2>4. i \in 1..N /\ i \in 1..(N + 1) /\ i - 1 \in 0..N /\ i - 1 \notin Bad
    BY <1>1, <2>2, <2>3
  <2>5. g[i - 1] = h[i - 1]
    BY <2>4
  <2>6. g[i] = h[i]
    BY <1>1, <1>2, <1>3, <2>4, <2>5
  <2> QED
    BY <2>2, <2>6
<1>5. h[N + 1] = Recount(h[N], e)
  <2>1. N + 1 \in 1..(N + 1) /\ (N + 1) - 1 = N
    BY <1>1
  <2> QED
    BY <1>1, <1>3, <2>1
<1> QED
  BY <1>2, <1>3, <1>4, <1>5 DEF more

-----------------------------------------------------------------------------
(* memory_node_stats *)

StatsInv == IsSeq(recalls) /\ StatsFollowRecalls

LEMMA StatsStep ==
    ASSUME StatsInv, [Next]_vars
    PROVE  StatsInv'
<1>1. IsSeq(recalls) /\ stats = CountAll(recalls)
  BY DEF StatsInv, StatsFollowRecalls, RebuiltStats, CountAll
<1>2. RebuiltStats' = CountAll(recalls')
  BY DEF RebuiltStats, CountAll, FoldLeft, MapThenFoldSet, Over
<1>3. CASE UNCHANGED telemetry
  BY <1>1, <1>2, <1>3 DEF telemetry, StatsInv, StatsFollowRecalls
<1>4. CASE RebuildStats
  BY <1>1, <1>2, <1>4 DEF RebuildStats, StatsInv, StatsFollowRecalls, RebuiltStats, CountAll
<1>5. CASE \E r \in Readers : RecallWrite(r)
  <2>1. PICK r \in Readers : RecallWrite(r)
    BY <1>5
  <2> DEFINE e == [items |-> reader[r].items, at |-> reader[r].at]
  <2>2. /\ recalls' = Append(recalls, e)
        /\ stats' = Over([n \in Range(reader[r].items) |-> Counted(stats, n, reader[r].at)], stats)
    BY <2>1 DEF RecallWrite
  <2>3. stats' = Recount(stats, e)
    BY <2>2 DEF Recount, Counted
  <2> HIDE DEF e
  <2>4. IsSeq(recalls') /\ stats' = CountAll(recalls')
    BY <1>1, <2>2, <2>3, AppendIs, CountOneMore
  <2> QED
    BY <1>2, <2>4 DEF StatsInv, StatsFollowRecalls
<1> QED
  BY <1>3, <1>4, <1>5 DEF Next, Write, Link, RecallBegin, RecallScore, Tick, vars, telemetry

\* What recalls count row by row is what a rebuild computes from their events, for
\* any number of readers, queries and rebuilds, whichever recall commits first.
THEOREM StatsAreRebuildable == Spec => []StatsFollowRecalls
<1>1. Init => StatsInv
  <2> SUFFICES ASSUME Init PROVE StatsInv
    OBVIOUS
  <2>1. recalls = << >> /\ stats = << >> /\ IsSeq(recalls) /\ Len(recalls) = 0
    BY EmptyIsSeq DEF Init
  <2>2. CountAll(recalls) = << >>
    <3>1. \E g : g[0] = << >> /\ g[Len(recalls)] = CountAll(recalls)
      BY <2>1, CountedIs
    <3> QED
      BY <2>1, <3>1
  <2> QED
    BY <2>1, <2>2 DEF StatsInv, StatsFollowRecalls, RebuiltStats, CountAll
<1>2. StatsInv /\ [Next]_vars => StatsInv'
  BY StatsStep
<1>3. StatsInv => StatsFollowRecalls
  BY DEF StatsInv
<1> QED
  BY <1>1, <1>2, <1>3, PTL DEF Spec

-----------------------------------------------------------------------------
(* Edges that a write finds *)

\* Edges are added and none is lost; the wanted ones are there.
LEMMA WiredKeeps ==
    ASSUME NEW E, IsSeq(E), NEW n, NEW wanted, IsSeq(wanted)
    PROVE  /\ IsSeq(Wired(E, n, wanted))
           /\ \A s, t, y : HasEdge(E, s, t, y) => HasEdge(Wired(E, n, wanted), s, t, y)
           /\ \A j \in 1..Len(wanted) : HasEdge(Wired(E, n, wanted), n, wanted[j].target, wanted[j].type)
<1> DEFINE N == Len(wanted)
           More(all) == IsSeq(all) /\ \A s, t, y : HasEdge(E, s, t, y) => HasEdge(all, s, t, y)
<1>1. PICK g : /\ g[0] = E /\ g[N] = Wired(E, n, wanted)
               /\ \A i \in 1..N : g[i] = WireOne(g[i - 1], n, wanted[i])
  BY WiredIs
<1>2. N \in Nat
  BY IsSeqFacts
<1> DEFINE Good(i) == /\ IsSeq(g[i])
                      /\ \A s, t, y : HasEdge(E, s, t, y) => HasEdge(g[i], s, t, y)
                      /\ \A j \in 1..i : HasEdge(g[i], n, wanted[j].target, wanted[j].type)
           Bad == {i \in 0..N : ~Good(i)}
<1> HIDE DEF N
<1>3. ASSUME NEW i \in 1..N, Good(i - 1)
      PROVE  Good(i)
  <2> DEFINE all == g[i - 1]
             w == wanted[i]
             e == Edge(n, w.target, w.type)
  <2>1. g[i] = WireOne(all, n, w) /\ IsSeq(all)
    BY <1>1, <1>3
  <2>2. /\ IsSeq(g[i])
        /\ \A s, t, y : HasEdge(all, s, t, y) => HasEdge(g[i], s, t, y)
        /\ HasEdge(g[i], n, w.target, w.type)
    <3> HIDE DEF all, w
    <3>1. CASE HasEdge(all, n, w.target, w.type)
      BY <2>1, <3>1 DEF WireOne
    <3>2. CASE ~HasEdge(all, n, w.target, w.type)
      <4>1. g[i] = Append(all, e)
        BY <2>1, <3>2 DEF WireOne
      <4>2. e.source = n /\ e.target = w.target /\ e.type = w.type
        BY DEF Edge
      <4> HIDE DEF e
      <4>3. /\ Len(all) \in Nat /\ DOMAIN all = 1..Len(all) /\ IsSeq(g[i])
            /\ DOMAIN g[i] = 1..(Len(all) + 1) /\ g[i][Len(all) + 1] = e
            /\ \A k \in 1..Len(all) : g[i][k] = all[k]
        BY <2>1, <4>1, AppendIs
      <4> QED
        BY <4>2, <4>3 DEF HasEdge
    <3> QED
      BY <3>1, <3>2
  <2>3. \A j \in 1..i : j = i \/ j \in 1..(i - 1)
    BY <1>2
  <2> QED
    BY <1>3, <2>2, <2>3
<1>4. Good(0)
  BY <1>1
<1>5. Bad = {}
  <2>1. SUFFICES ASSUME Bad # {} PROVE FALSE
    OBVIOUS
  <2>2. Bad \subseteq Nat
    BY <1>2
  <2>3. PICK i \in Bad : \A j \in Bad : i <= j
    BY <2>1, <2>2, LeastNatural
  <2>4. i \in 0..N /\ ~Good(i)
    OBVIOUS
  <2> HIDE DEF Good
  <2>5. i \in 1..N /\ i - 1 \in 0..N /\ i - 1 \notin Bad
    BY <1>2, <1>4, <2>3, <2>4
  <2> QED
    BY <1>3, <2>4, <2>5
<1>6. Good(N)
  <2> HIDE DEF Good
  <2> QED
    BY <1>2, <1>5
<1> QED
  BY <1>1, <1>6 DEF N

\* A write that finds all its edges adds none.
LEMMA WiredIdle ==
    ASSUME NEW E, NEW n, NEW wanted, IsSeq(wanted),
           \A j \in 1..Len(wanted) : HasEdge(E, n, wanted[j].target, wanted[j].type)
    PROVE  Wired(E, n, wanted) = E
<1> DEFINE N == Len(wanted)
<1>1. PICK g : /\ g[0] = E /\ g[N] = Wired(E, n, wanted)
               /\ \A i \in 1..N : g[i] = WireOne(g[i - 1], n, wanted[i])
  BY WiredIs
<1>2. N \in Nat
  BY IsSeqFacts
<1> HIDE DEF N
<1> DEFINE Bad == {i \in 0..N : g[i] # E}
<1>3. SUFFICES ASSUME Bad # {} PROVE FALSE
  BY <1>1, <1>2
<1>4. PICK i \in Bad : \A j \in Bad : i <= j
  <2>1. Bad \subseteq Nat
    BY <1>2
  <2> HIDE DEF Bad
  <2> QED
    BY <1>3, <2>1, LeastNatural
<1>5. i \in 1..N /\ i - 1 \in 0..N /\ i - 1 \notin Bad
  BY <1>1, <1>2, <1>4
<1>6. g[i] = WireOne(E, n, wanted[i])
  BY <1>1, <1>5
<1> QED
  BY <1>4, <1>5, <1>6 DEF WireOne, N
-----------------------------------------------------------------------------
(* Replays *)

HasAll(E, n, wanted) ==
    \A j \in 1..Len(wanted) : HasEdge(E, n, wanted[j].target, wanted[j].type)

\* An answered write has its key and its edges, an answered link its key.
Done(c) == /\ c \in Writes => WriteKey(c) \in DOMAIN retained
                              /\ HasAll(edges, retained[WriteKey(c)], Wanted(c))
           /\ c \in Links => c.key \in DOMAIN linked /\ c.key # OptOut
ReplayInv == IsSeq(edges) /\ \A c \in answered : Done(c)

LEMMA WantedIs ==
    ASSUME NEW c \in Writes
    PROVE  /\ IsSeq(Wanted(c))
           /\ c.supersedes # None => \E j \in 1..Len(Wanted(c)) :
                Wanted(c)[j].type = "supersedes" /\ Wanted(c)[j].target = c.supersedes
<1> DEFINE Want == [type : {"supersedes", "about"} \cup EdgeTypes,
                    target : Nat \cup Endpoints \cup {c.supersedes, c.about}]
           first == IF c.supersedes = None THEN << >> ELSE <<[type |-> "supersedes", target |-> c.supersedes]>>
           second == IF c.about = None THEN << >> ELSE <<[type |-> "about", target |-> c.about]>>
<1>1. c.wired \in Seq([type : EdgeTypes, target : Nat])
  BY MemoryAssumption DEF WriteCall
<1>2. [type : EdgeTypes, target : Nat] \subseteq Want
  OBVIOUS
<1>3. [type |-> "supersedes", target |-> c.supersedes] \in Want /\ [type |-> "about", target |-> c.about] \in Want
  OBVIOUS
<1> HIDE DEF Want
<1>4. first \in Seq(Want) /\ second \in Seq(Want)
  BY <1>3
<1>5. c.wired \in Seq(Want)
  <2>1. Len(c.wired) \in Nat /\ c.wired = [i \in 1..Len(c.wired) |-> c.wired[i]]
    BY <1>1
  <2>2. \A i \in 1..Len(c.wired) : c.wired[i] \in [type : EdgeTypes, target : Nat]
    <3>1. \A S : c.wired \in Seq(S) => \A i \in 1..Len(c.wired) : c.wired[i] \in S
      OBVIOUS
    <3> QED
      BY <1>1, <3>1
  <2>3. \A i \in 1..Len(c.wired) : c.wired[i] \in Want
    BY <1>2, <2>2
  <2>4. c.wired \in [1..Len(c.wired) -> Want]
    BY <2>1, <2>3
  <2> QED
    BY <2>1, <2>4
<1>6. Wanted(c) = first \o second \o c.wired
  BY DEF Wanted
<1>7. c.supersedes # None => Len(first) = 1 /\ first[1].type = "supersedes" /\ first[1].target = c.supersedes
  OBVIOUS
<1> HIDE DEF first, second
<1>8. Wanted(c) \in Seq(Want)
  BY <1>4, <1>5, <1>6
<1>9. Len(first) = 1 => 1 \in 1..Len(Wanted(c)) /\ Wanted(c)[1] = first[1]
  <2>1. ASSUME NEW s \in Seq(Want), NEW t \in Seq(Want), Len(s) >= 1
        PROVE  s \o t \in Seq(Want) /\ Len(s \o t) >= 1 /\ (s \o t)[1] = s[1]
    <3>1. Len(s) \in Nat /\ Len(t) \in Nat /\ Len(s \o t) = Len(s) + Len(t)
      OBVIOUS
    <3>2. (s \o t)[1] = s[1]
      BY <2>1, <3>1
    <3> QED
      BY <2>1, <3>1, <3>2
  <2> SUFFICES ASSUME Len(first) = 1
               PROVE  1 \in 1..Len(Wanted(c)) /\ Wanted(c)[1] = first[1]
    OBVIOUS
  <2>2. Len(first) >= 1
    OBVIOUS
  <2>3. first \o second \in Seq(Want) /\ Len(first \o second) >= 1 /\ (first \o second)[1] = first[1]
    BY <1>4, <2>1, <2>2
  <2>4. Len(Wanted(c)) >= 1 /\ Wanted(c)[1] = first[1]
    <3> DEFINE begin == first \o second
    <3>1. begin \in Seq(Want) /\ Len(begin) >= 1 /\ begin[1] = first[1]
      BY <2>3
    <3>2. Wanted(c) = begin \o c.wired
      BY <1>6
    <3> HIDE DEF begin
    <3>3. Len(begin \o c.wired) >= 1 /\ (begin \o c.wired)[1] = begin[1]
      BY <1>5, <2>1, <3>1
    <3> QED
      BY <3>1, <3>2, <3>3
  <2>5. Len(Wanted(c)) \in Nat
    BY <1>8
  <2> QED
    BY <2>4, <2>5
<1> QED
  BY <1>7, <1>8, <1>9, IsSeqFacts

LEMMA CallsDiffer == \A c \in Writes : c \notin Links
<1> SUFFICES ASSUME NEW c \in Writes, c \in Links PROVE FALSE
  OBVIOUS
<1>1. "body" \in DOMAIN c
  BY MemoryAssumption DEF WriteCall
<1>2. "body" \notin DOMAIN c
  BY MemoryAssumption DEF LinkCall
<1> QED
  BY <1>1, <1>2

LEMMA WriteKeeps ==
    ASSUME ReplayInv, NEW c \in Writes, Write(c)
    PROVE  ReplayInv'
<1> DEFINE key == WriteKey(c)
           node == IF key \in DOMAIN retained THEN retained[key] ELSE Len(nodes) + 1
<1>1. /\ retained' = IF key \in DOMAIN retained THEN retained ELSE Over([k \in {key} |-> node], retained)
      /\ edges' = Wired(edges, node, Wanted(c)) /\ linked' = linked /\ answered' = answered \cup {c}
  BY DEF Write
<1>2. /\ IsSeq(edges') /\ \A s, t, y : HasEdge(edges, s, t, y) => HasEdge(edges', s, t, y)
      /\ HasAll(edges', node, Wanted(c))
  <2>1. IsSeq(edges) /\ IsSeq(Wanted(c))
    BY WantedIs DEF ReplayInv
  <2> QED
    BY <1>1, <2>1, WiredKeeps DEF HasAll
<1>3. /\ key \in DOMAIN retained' /\ retained'[key] = node
      /\ \A k \in DOMAIN retained : k \in DOMAIN retained' /\ retained'[k] = retained[k]
  BY <1>1 DEF Over
<1> HIDE DEF key, node
<1>4. ASSUME NEW d \in answered PROVE Done(d)'
  <2>1. Done(d)
    BY DEF ReplayInv
  <2>2. d \in Writes => WriteKey(d) \in DOMAIN retained' /\ HasAll(edges', retained'[WriteKey(d)], Wanted(d))
    BY <1>2, <1>3, <2>1 DEF Done, HasAll
  <2> QED
    BY <1>1, <2>1, <2>2 DEF Done, WriteKey, Wanted
<1>5. Done(c)'
  BY <1>2, <1>3, CallsDiffer DEF Done, key, WriteKey, Wanted
<1> QED
  BY <1>1, <1>2, <1>4, <1>5 DEF ReplayInv

LEMMA LinkKeeps ==
    ASSUME ReplayInv, NEW l \in Links, Link(l)
    PROVE  ReplayInv'
<1> DEFINE e == Edge(l.source, l.target, l.type)
<1>1. retained' = retained
  BY DEF Link
<1>2. /\ IsSeq(edges') /\ \A s, t, y : HasEdge(edges, s, t, y) => HasEdge(edges', s, t, y)
  <2>1. CASE edges' = edges
    BY <2>1 DEF ReplayInv
  <2>2. CASE edges' = Append(edges, e)
    <3>1. IsSeq(edges)
      BY DEF ReplayInv
    <3> HIDE DEF e
    <3>2. /\ Len(edges) \in Nat /\ DOMAIN edges = 1..Len(edges) /\ IsSeq(edges')
          /\ DOMAIN edges' = 1..(Len(edges) + 1)
          /\ \A k \in 1..Len(edges) : edges'[k] = edges[k]
      BY <2>2, <3>1, AppendIs
    <3> QED
      BY <3>2 DEF HasEdge
  <2> QED
    BY <2>1, <2>2 DEF Link
<1>3. /\ \A k \in DOMAIN linked : k \in DOMAIN linked'
      /\ l.key # OptOut => l.key \in DOMAIN linked'
  BY DEF Link, Over
<1>4. answered' = IF l.key = OptOut THEN answered ELSE answered \cup {l}
  BY DEF Link
<1>5. ASSUME NEW d \in answered PROVE Done(d)'
  <2>1. Done(d)
    BY DEF ReplayInv
  <2>2. d \in Writes => WriteKey(d) \in DOMAIN retained' /\ HasAll(edges', retained'[WriteKey(d)], Wanted(d))
    BY <1>1, <1>2, <2>1 DEF Done, HasAll
  <2> QED
    BY <1>3, <2>1, <2>2 DEF Done, WriteKey, Wanted
<1>6. l.key # OptOut => Done(l)'
  BY <1>3, CallsDiffer DEF Done
<1> QED
  BY <1>2, <1>4, <1>5, <1>6 DEF ReplayInv

LEMMA ReplayStep ==
    ASSUME ReplayInv, [Next]_vars
    PROVE  ReplayInv'
<1>1. CASE UNCHANGED <<edges, retained, linked, answered>>
  BY <1>1 DEF ReplayInv, Done, WriteKey, Wanted
<1>2. CASE \E c \in Writes : Write(c)
  BY <1>2, WriteKeeps
<1>3. CASE \E l \in Links : Link(l)
  BY <1>3, LinkKeeps
<1> QED
  BY <1>1, <1>2, <1>3 DEF Next, RecallBegin, RecallScore, RecallWrite, RebuildStats, Tick, vars, tables, history

\* A call that was answered ok adds nothing when it comes again, for any calls, keys
\* and edges, whatever was written in between.
THEOREM ReplaysAddNothing == Spec => ReplayAddsNothing
<1>1. Init => ReplayInv
  BY EmptyIsSeq DEF Init, ReplayInv
<1>2. ReplayInv /\ [Next]_vars => ReplayInv'
  BY ReplayStep
<1> DEFINE NothingNew == \A c \in answered :
             (c \in Writes /\ Write(c)) \/ (c \in Links /\ Link(c)) => UNCHANGED tables
<1>3. ReplayInv /\ [Next]_vars => [NothingNew]_vars
  <2> SUFFICES ASSUME ReplayInv, NEW c \in answered, (c \in Writes /\ Write(c)) \/ (c \in Links /\ Link(c))
               PROVE  UNCHANGED tables
    OBVIOUS
  <2>1. Done(c)
    BY DEF ReplayInv
  <2>2. CASE c \in Writes /\ Write(c)
    <3> DEFINE node == retained[WriteKey(c)]
    <3>1. /\ WriteKey(c) \in DOMAIN retained /\ HasAll(edges, node, Wanted(c))
          /\ nodes' = nodes /\ retained' = retained /\ linked' = linked
          /\ edges' = Wired(edges, node, Wanted(c))
          /\ invalidated' = invalidated \cup Invalidated(node, c.supersedes)
      BY <2>1, <2>2 DEF Done, Write
    <3> HIDE DEF node
    <3>2. edges' = edges
      BY <2>2, <3>1, WantedIs, WiredIdle DEF HasAll
    <3>3. Invalidated(node, c.supersedes) = {}
      BY <2>2, <3>1, WantedIs DEF HasAll, Invalidated
    <3> QED
      BY <3>1, <3>2, <3>3 DEF tables
  <2>3. CASE c \in Links /\ Link(c)
    BY <2>1, <2>3 DEF Done, Link, tables
  <2> QED
    BY <2>2, <2>3
<1> QED
  BY <1>1, <1>2, <1>3, PTL DEF Spec, ReplayAddsNothing

-----------------------------------------------------------------------------
(* Recall: what was replaced *)

\* A row that lists a set once, each member before those it precedes.
ListsBy(s, S, L) ==
    /\ s \in [1..Cardinality(S) -> S]
    /\ \A i, j \in 1..Cardinality(S) : i < j => <<s[i], s[j]>> \in L
Ranks(S, L) ==
    /\ \A a \in S : <<a, a>> \notin L
    /\ \A a, b \in S : a # b => <<a, b>> \in L \/ <<b, a>> \in L
    /\ \A a, b, c \in S : <<a, b>> \in L /\ <<b, c>> \in L => <<a, c>> \in L

LEMMA OrderExists ==
    ASSUME NEW S, IsFiniteSet(S), NEW L, Ranks(S, L)
    PROVE  \E s : ListsBy(s, S, L)
<1> DEFINE n == Cardinality(S)
           Upto(a) == {b \in S : b = a \/ <<b, a>> \in L}
           place == [a \in S |-> Cardinality(Upto(a))]
<1>1. n \in Nat
  BY FS_CardinalityType
<1>2. ASSUME NEW a \in S PROVE IsFiniteSet(Upto(a)) /\ Cardinality(Upto(a)) \in 1..n
  <2>1. Upto(a) \in SUBSET S /\ a \in Upto(a)
    OBVIOUS
  <2> HIDE DEF Upto
  <2>2. IsFiniteSet(Upto(a)) /\ Cardinality(Upto(a)) <= n
    BY <2>1, FS_Subset
  <2>3. Cardinality(Upto(a)) \in Nat /\ Cardinality(Upto(a)) # 0
    BY <2>1, <2>2, FS_CardinalityType, FS_EmptySet
  <2> QED
    BY <1>1, <2>2, <2>3
<1>3. ASSUME NEW a \in S, NEW b \in S, <<a, b>> \in L
      PROVE  Cardinality(Upto(a)) < Cardinality(Upto(b))
  <2>1. Upto(a) \subseteq Upto(b)
    BY <1>3 DEF Ranks
  <2>2. b \in Upto(b) /\ b \notin Upto(a)
    BY <1>3 DEF Ranks
  <2> HIDE DEF Upto
  <2>3. Cardinality(Upto(a)) <= Cardinality(Upto(b)) /\ Cardinality(Upto(a)) # Cardinality(Upto(b))
    BY <1>2, <2>1, <2>2, FS_Subset
  <2> QED
    BY <1>2, <2>3
<1>4. place \in Injection(S, 1..n)
  <2>1. place \in [S -> 1..n]
    BY <1>2
  <2>2. \A a, b \in S : place[a] = place[b] => a = b
    <3> SUFFICES ASSUME NEW a \in S, NEW b \in S, place[a] = place[b], a # b PROVE FALSE
      OBVIOUS
    <3>1. <<a, b>> \in L \/ <<b, a>> \in L
      BY DEF Ranks
    <3>2. place[a] < place[b] \/ place[b] < place[a]
      BY <1>3, <3>1
    <3>3. place[a] \in Nat /\ place[b] \in Nat
      BY <2>1, <1>1
    <3> QED
      BY <3>2, <3>3
  <2> HIDE DEF place
  <2> QED
    BY <2>1, <2>2 DEF Injection, IsInjective
<1>5. place \in Surjection(S, 1..n)
  <2>1. IsFiniteSet(1..n) /\ Cardinality(1..n) = n
    BY <1>1, FS_Interval
  <2> HIDE DEF place
  <2> QED
    BY <1>4, <2>1, FS_Injection DEF n
<1>6. \A i \in 1..n : \E a \in S : place[a] = i
  BY <1>5 DEF Surjection
<1>7. \A a, b \in S : place[a] < place[b] => <<a, b>> \in L
  <2> SUFFICES ASSUME NEW a \in S, NEW b \in S, place[a] < place[b] PROVE <<a, b>> \in L
    OBVIOUS
  <2>1. place[a] \in Nat /\ place[b] \in Nat
    BY <1>1, <1>2
  <2>2. a # b /\ ~(place[b] < place[a])
    <3> HIDE DEF place
    <3> QED
      BY <2>1
  <2>3. <<b, a>> \notin L
    <3> SUFFICES ASSUME <<b, a>> \in L PROVE FALSE
      OBVIOUS
    <3>1. place[b] < place[a]
      BY <1>3
    <3> QED
      BY <2>2, <3>1
  <2> QED
    BY <2>2, <2>3 DEF Ranks
<1> HIDE DEF place
<1> DEFINE s == [i \in 1..n |-> CHOOSE a \in S : place[a] = i]
<1>8. \A i \in 1..n : s[i] \in S /\ place[s[i]] = i
  BY <1>6
<1>9. s \in [1..n -> S]
  BY <1>8
<1> HIDE DEF s
<1> QED
  BY <1>7, <1>8, <1>9 DEF ListsBy

LEMMA ListsAll ==
    ASSUME NEW S, IsFiniteSet(S), NEW L, Ranks(S, L), NEW s, ListsBy(s, S, L)
    PROVE  Cardinality(S) \in Nat /\ \A a \in S : \E i \in 1..Cardinality(S) : s[i] = a
<1> DEFINE n == Cardinality(S)
<1>1. n \in Nat
  BY FS_CardinalityType
<1>2. s \in [1..n -> S] /\ \A i, j \in 1..n : i < j => <<s[i], s[j]>> \in L
  BY DEF ListsBy
<1>3. s \in Injection(1..n, S)
  <2>1. \A i, j \in 1..n : s[i] = s[j] => i = j
    <3> SUFFICES ASSUME NEW i \in 1..n, NEW j \in 1..n, s[i] = s[j], i # j PROVE FALSE
      OBVIOUS
    <3>1. i < j \/ j < i
      BY <1>1
    <3>2. s[i] \in S
      BY <1>2
    <3> QED
      BY <1>2, <3>1, <3>2 DEF Ranks
  <2> QED
    BY <1>2, <2>1 DEF Injection, IsInjective
<1>4. Cardinality(1..n) = n
  BY <1>1, FS_Interval
<1>5. s \in Surjection(1..n, S)
  BY <1>3, <1>4, FS_Injection
<1> QED
  BY <1>1, <1>5 DEF Surjection

\* The rankings of a recall.
LEMMA TemporalIs ==
    ASSUME NEW S, IsFiniteSet(S), S \subseteq Int, NEW q, \A a \in S : Distance(At(q), a) \in Int
    PROVE  /\ Cardinality(S) \in Nat
           /\ TemporalRank(q, S) \in [1..Cardinality(S) -> S]
           /\ \A a \in S : \E i \in 1..Cardinality(S) : TemporalRank(q, S)[i] = a
<1> DEFINE Near(a, b) == \/ Distance(At(q), a) < Distance(At(q), b)
                         \/ Distance(At(q), a) = Distance(At(q), b) /\ a < b
           L == {p \in S \X S : Near(p[1], p[2])}
           s == TemporalRank(q, S)
<1>1. \A a, b \in S : <<a, b>> \in L <=> Near(a, b)
  OBVIOUS
<1>2. Ranks(S, L)
  <2> HIDE DEF L
  <2> QED
    BY <1>1 DEF Ranks
<1>3. \E t : ListsBy(t, S, L)
  <2> HIDE DEF L
  <2> QED
    BY <1>2, OrderExists
<1>4. \A t : ListsBy(t, S, L) <=> /\ t \in [1..Cardinality(S) -> S]
                                  /\ \A i, j \in 1..Cardinality(S) : i < j => Near(t[i], t[j])
  <2> HIDE DEF L, Near
  <2> TAKE t
  <2>1. ASSUME t \in [1..Cardinality(S) -> S] PROVE \A i, j \in 1..Cardinality(S) : <<t[i], t[j]>> \in L <=> Near(t[i], t[j])
    BY <1>1, <2>1
  <2> QED
    BY <2>1 DEF ListsBy
<1>5. s = CHOOSE t \in [1..Cardinality(S) -> S] : \A i, j \in 1..Cardinality(S) : i < j => Near(t[i], t[j])
  BY DEF TemporalRank, InOrder
<1>6. s \in [1..Cardinality(S) -> S] /\ \A i, j \in 1..Cardinality(S) : i < j => Near(s[i], s[j])
  <2> HIDE DEF L, Near, s
  <2> QED
    BY <1>3, <1>4, <1>5
<1>7. ListsBy(s, S, L)
  <2> HIDE DEF L, Near, s
  <2> QED
    BY <1>4, <1>6
<1> HIDE DEF L, Near, s
<1>8. Cardinality(S) \in Nat /\ \A a \in S : \E i \in 1..Cardinality(S) : s[i] = a
  BY <1>2, <1>7, ListsAll
<1> QED
  BY <1>6, <1>8 DEF s

LEMMA BestIs ==
    ASSUME NEW S, IsFiniteSet(S), S \subseteq Int, NEW ranks, NEW old,
           \A a \in S : Score(a, ranks, old) \in Int
    PROVE  /\ Cardinality(S) \in Nat
           /\ Best(S, ranks, old) \in [1..Cardinality(S) -> S]
           /\ \A i, j \in 1..Cardinality(S) : i < j =>
                 Score(Best(S, ranks, old)[i], ranks, old) >= Score(Best(S, ranks, old)[j], ranks, old)
<1> DEFINE Ahead(a, b) == LET sa == Score(a, ranks, old) sb == Score(b, ranks, old)
                          IN sa > sb \/ (sa = sb /\ a < b)
           L == {p \in S \X S : Ahead(p[1], p[2])}
           s == Best(S, ranks, old)
<1>1. \A a, b \in S : <<a, b>> \in L <=> Ahead(a, b)
  OBVIOUS
<1>2. Ranks(S, L)
  <2> HIDE DEF L
  <2> QED
    BY <1>1 DEF Ranks
<1>3. \E t : ListsBy(t, S, L)
  <2> HIDE DEF L
  <2> QED
    BY <1>2, OrderExists
<1>4. \A t : ListsBy(t, S, L) <=> /\ t \in [1..Cardinality(S) -> S]
                                  /\ \A i, j \in 1..Cardinality(S) : i < j => Ahead(t[i], t[j])
  <2> HIDE DEF L, Ahead
  <2> TAKE t
  <2>1. ASSUME t \in [1..Cardinality(S) -> S] PROVE \A i, j \in 1..Cardinality(S) : <<t[i], t[j]>> \in L <=> Ahead(t[i], t[j])
    BY <1>1, <2>1
  <2> QED
    BY <2>1 DEF ListsBy
<1>5. s = CHOOSE t \in [1..Cardinality(S) -> S] : \A i, j \in 1..Cardinality(S) : i < j => Ahead(t[i], t[j])
  BY DEF Best, InOrder
<1>6. s \in [1..Cardinality(S) -> S] /\ \A i, j \in 1..Cardinality(S) : i < j => Ahead(s[i], s[j])
  <2> HIDE DEF L, Ahead, s
  <2> QED
    BY <1>3, <1>4, <1>5
<1>7. \A a, b \in S : Ahead(a, b) => Score(a, ranks, old) >= Score(b, ranks, old)
  OBVIOUS
<1> HIDE DEF L, Ahead, s
<1>8. \A i, j \in 1..Cardinality(S) : i < j => Score(s[i], ranks, old) >= Score(s[j], ranks, old)
  BY <1>6, <1>7
<1> QED
  BY <1>6, <1>8, FS_CardinalityType DEF s

LEMMA ByIdIs ==
    ASSUME NEW S, IsFiniteSet(S), S \subseteq Int
    PROVE  ById(S) \in Seq(S)
<1> DEFINE L == {p \in S \X S : p[1] < p[2]}
           s == ById(S)
<1>1. \A a, b \in S : <<a, b>> \in L <=> a < b
  OBVIOUS
<1>2. Ranks(S, L)
  <2> HIDE DEF L
  <2> QED
    BY <1>1 DEF Ranks
<1>3. \E t : ListsBy(t, S, L)
  <2> HIDE DEF L
  <2> QED
    BY <1>2, OrderExists
<1>4. \A t : ListsBy(t, S, L) => /\ t \in [1..Cardinality(S) -> S]
                                 /\ \A i, j \in 1..Cardinality(S) : i < j => t[i] < t[j]
  <2> HIDE DEF L
  <2> TAKE t
  <2>1. ASSUME t \in [1..Cardinality(S) -> S] PROVE \A i, j \in 1..Cardinality(S) : <<t[i], t[j]>> \in L <=> t[i] < t[j]
    BY <1>1, <2>1
  <2> QED
    BY <2>1 DEF ListsBy
<1>5. s = CHOOSE t \in [1..Cardinality(S) -> S] : \A i, j \in 1..Cardinality(S) : i < j => t[i] < t[j]
  BY DEF ById, InOrder
<1>6. s \in [1..Cardinality(S) -> S]
  <2> HIDE DEF L, s
  <2> QED
    BY <1>3, <1>4, <1>5
<1> HIDE DEF L, s
<1>7. Cardinality(S) \in Nat
  BY FS_CardinalityType
<1> QED
  BY <1>6, <1>7 DEF s

LEMMA SeqOfMore ==
    ASSUME NEW S, NEW T, S \subseteq T, NEW s \in Seq(S)
    PROVE  s \in Seq(T)
<1>1. Len(s) \in Nat /\ s = [i \in 1..Len(s) |-> s[i]] /\ \A i \in 1..Len(s) : s[i] \in S
  OBVIOUS
<1>2. s \in [1..Len(s) -> T]
  BY <1>1
<1> QED
  BY <1>1, <1>2

LEMMA GraphIs ==
    ASSUME NEW S, IsFiniteSet(S), S \subseteq Int, NEW q
    PROVE  GraphRank(q, S) \in Seq(S)
<1> DEFINE connected == {n \in S : \E i \in DOMAIN edges : edges[i].source = n /\ edges[i].target = q.context}
<1>1. connected \subseteq S /\ S \ connected \subseteq S
  OBVIOUS
<1> HIDE DEF connected
<1>2. ById(connected) \in Seq(connected) /\ ById(S \ connected) \in Seq(S \ connected)
  BY <1>1, FS_Subset, ByIdIs
<1>3. ById(connected) \in Seq(S) /\ ById(S \ connected) \in Seq(S)
  BY <1>1, <1>2, SeqOfMore
<1>4. ById(connected) \o ById(S \ connected) \in Seq(S)
  BY <1>3
<1>5. GraphRank(q, S) = IF q.context = None THEN << >> ELSE ById(connected) \o ById(S \ connected)
  BY DEF GraphRank, connected
<1> QED
  BY <1>4, <1>5

LEMMA WeightIs ==
    ASSUME NEW r \in Nat, r >= 1
    PROVE  /\ RankWeight(r) \in Nat /\ RankWeight(r) <= 249984
           /\ r <= 21 => RankWeight(r) >= 188259
<1> DEFINE w == RankWeight(r)
           b == 60 + r
<1>1. w = 15249024 \div b
  BY DEF RankWeight
<1>2. b \in Nat /\ b >= 61 /\ (r <= 21 => b <= 81)
  OBVIOUS
<1> HIDE DEF b, w
<1>3. w \in Nat /\ b * w <= 15249024 /\ 15249024 < b * w + b
  BY <1>1, <1>2
<1>4. w <= 249984
  <2> SUFFICES ASSUME w >= 249985 PROVE FALSE
    BY <1>3
  <2>1. b * w >= 61 * 249985
    BY <1>2, <1>3
  <2> QED
    BY <1>2, <1>3, <2>1
<1>5. ASSUME b <= 81 PROVE w >= 188259
  <2> SUFFICES ASSUME w <= 188258 PROVE FALSE
    BY <1>3
  <2>1. b * w + b <= 81 * 188258 + 81
    BY <1>2, <1>3, <1>5
  <2> QED
    BY <1>2, <1>3, <2>1
<1> QED
  BY <1>2, <1>3, <1>4, <1>5 DEF w

Share(n, ranking) == IF n \in Range(ranking) THEN RankWeight(CHOOSE i \in DOMAIN ranking : ranking[i] = n) ELSE 0
FuseOne(sum, n, ranking) == IF n \in Range(ranking)
    THEN sum + RankWeight(CHOOSE i \in DOMAIN ranking : ranking[i] = n) ELSE sum
IsFusing(it, n, ranks) ==
    it = [s \in SUBSET (1..3) |-> IF s = {} THEN 0 ELSE FuseOne(it[s \ {Max(s)}], n, ranks[Max(s)])]

LEMMA FusedIs ==
    ASSUME NEW n, NEW a, NEW b, NEW c, Share(n, a) \in Nat, Share(n, b) \in Nat, Share(n, c) \in Nat
    PROVE  Fused(n, <<a, b, c>>) = Share(n, a) + Share(n, b) + Share(n, c)
<1> DEFINE ranks == <<a, b, c>>
           it == CHOOSE it : IsFusing(it, n, ranks)
           h == [s \in SUBSET (1..3) |-> (IF 1 \in s THEN Share(n, a) ELSE 0)
                    + (IF 2 \in s THEN Share(n, b) ELSE 0) + (IF 3 \in s THEN Share(n, c) ELSE 0)]
<1>1. DOMAIN ranks = 1..3 /\ ranks[1] = a /\ ranks[2] = b /\ ranks[3] = c
  OBVIOUS
<1>2. Fused(n, ranks) = it[1..3]
  BY <1>1 DEF Fused, FoldLeft, MapThenFoldSet, IsFusing, FuseOne
<1> HIDE DEF ranks
<1>3. \A sum \in Nat : \A r : Share(n, r) \in Nat => FuseOne(sum, n, r) = sum + Share(n, r)
  BY DEF FuseOne, Share
<1>4. \A s \in SUBSET (1..3) : h[s] \in Nat
  OBVIOUS
<1>5. ASSUME NEW s \in SUBSET (1..3), s # {}
      PROVE  h[s] = FuseOne(h[s \ {Max(s)}], n, ranks[Max(s)])
  <2>1. Max(s) \in s /\ Max(s) \in 1..3 /\ s \ {Max(s)} \in SUBSET (1..3)
    BY <1>5, MaxIs
  <2>2. Share(n, ranks[Max(s)]) \in Nat
    BY <1>1, <2>1
  <2>3. FuseOne(h[s \ {Max(s)}], n, ranks[Max(s)]) = h[s \ {Max(s)}] + Share(n, ranks[Max(s)])
    BY <1>3, <1>4, <2>1, <2>2
  <2>4. CASE Max(s) = 1
    <3>1. h[s \ {1}] + Share(n, a) = h[s]
      BY <2>1, <2>4
    <3> QED
      BY <1>1, <2>3, <2>4, <3>1
  <2>5. CASE Max(s) = 2
    <3>1. h[s \ {2}] + Share(n, b) = h[s]
      BY <2>1, <2>5
    <3> QED
      BY <1>1, <2>3, <2>5, <3>1
  <2>6. CASE Max(s) = 3
    <3>1. h[s \ {3}] + Share(n, c) = h[s]
      BY <2>1, <2>6
    <3> QED
      BY <1>1, <2>3, <2>6, <3>1
  <2> QED
    BY <2>1, <2>4, <2>5, <2>6
<1>6. h[{}] = 0
  OBVIOUS
<1>7. IsFusing(h, n, ranks)
  <2>1. h = [s \in SUBSET (1..3) |-> h[s]]
    OBVIOUS
  <2> HIDE DEF h
  <2> QED
    BY <1>5, <1>6, <2>1 DEF IsFusing
<1>8. IsFusing(it, n, ranks)
  BY <1>7
<1> HIDE DEF it, h
<1>9. \A s \in SUBSET (1..3) : it[s] = IF s = {} THEN 0 ELSE FuseOne(it[s \ {Max(s)}], n, ranks[Max(s)])
  BY <1>8 DEF IsFusing
<1>10. /\ Max(1..1) = 1 /\ (1..1) \ {1} = 1..0 /\ Max(1..2) = 2 /\ (1..2) \ {2} = 1..1
       /\ Max(1..3) = 3 /\ (1..3) \ {3} = 1..2
  <2>1. \A k \in 1..3 : Max(1..k) \in 1..k /\ \A j \in 1..k : Max(1..k) >= j
    <3> TAKE k \in 1..3
    <3>1. k \in Nat /\ 1..k \subseteq 1..k /\ 1..k # {}
      OBVIOUS
    <3> QED
      BY <3>1, MaxIs
  <2> QED
    BY <2>1
<1>11. it[1..0] = 0
  BY <1>9
<1>12. it[1..1] = FuseOne(it[1..0], n, a) /\ it[1..2] = FuseOne(it[1..1], n, b) /\ it[1..3] = FuseOne(it[1..2], n, c)
  <2>1. \A k \in 1..3 : 1..k \in SUBSET (1..3) /\ 1..k # {}
    OBVIOUS
  <2>2. \A k \in 1..3 : it[1..k] = FuseOne(it[(1..k) \ {Max(1..k)}], n, ranks[Max(1..k)])
    BY <1>9, <2>1
  <2> QED
    BY <1>1, <1>10, <2>2
<1>13. it[1..1] = Share(n, a)
  BY <1>3, <1>11, <1>12
<1>14. it[1..2] = Share(n, a) + Share(n, b)
  BY <1>3, <1>12, <1>13
<1>15. it[1..3] = Share(n, a) + Share(n, b) + Share(n, c)
  BY <1>3, <1>12, <1>14
<1> QED
  BY <1>2, <1>15 DEF ranks

LEMMA ShareIs ==
    ASSUME NEW n, NEW ranking, NEW m \in Nat, DOMAIN ranking = 1..m
    PROVE  /\ Share(n, ranking) \in Nat /\ Share(n, ranking) <= 249984
           /\ m <= 21 /\ (\E i \in 1..m : ranking[i] = n) => Share(n, ranking) >= 188259
<1>1. n \in Range(ranking) <=> \E i \in 1..m : ranking[i] = n
  BY DEF Range
<1>2. CASE n \in Range(ranking)
  <2> DEFINE i == CHOOSE i \in DOMAIN ranking : ranking[i] = n
  <2>1. i \in 1..m
    BY <1>1, <1>2
  <2>2. Share(n, ranking) = RankWeight(i)
    BY <1>2 DEF Share
  <2> HIDE DEF i
  <2>3. i \in Nat /\ i >= 1 /\ i <= m
    BY <2>1
  <2> QED
    BY <2>2, <2>3, WeightIs
<1>3. CASE n \notin Range(ranking)
  BY <1>1, <1>3 DEF Share
<1> QED
  BY <1>2, <1>3

\* What a recall ranks: nodes in scope, with what the rows say of them.
Scoped(scope) ==
    /\ IsFiniteSet(scope) /\ scope \subseteq Nat
    /\ \A n \in scope : nodes[n].importance \in 1..10 /\ nodes[n].created \in Nat

LEMMA RankingsAre ==
    ASSUME NEW scope, Scoped(scope), NEW q, At(q) \in Nat, NEW matched \in Bm25Ranks(q, scope), NEW n \in scope
    PROVE  LET f == Fused(n, <<matched, TemporalRank(q, scope), GraphRank(q, scope)>>)
           IN f \in Nat /\ f <= 3 * 249984 /\ (Cardinality(scope) <= 21 => f >= 188259)
<1> DEFINE t == TemporalRank(q, scope)
           g == GraphRank(q, scope)
           m == Cardinality({x \in scope : nodes[x].body = q.body})
<1>1. IsFiniteSet(scope) /\ scope \subseteq Int
  BY DEF Scoped
<1>2. \A a \in scope : Distance(At(q), a) \in Int
  <2>1. \A a \in scope, d \in Nat : Distance(d, a) \in Int
    <3> TAKE a \in scope, d \in Nat
    <3>1. nodes[a].created \in Int
      BY DEF Scoped
    <3> QED
      BY <3>1 DEF Distance
  <2> QED
    BY <2>1
<1>3. Cardinality(scope) \in Nat /\ DOMAIN t = 1..Cardinality(scope) /\ \E i \in 1..Cardinality(scope) : t[i] = n
  BY <1>1, <1>2, TemporalIs
<1>4. g \in Seq(scope)
  BY <1>1, GraphIs
<1>5. Len(g) \in Nat /\ DOMAIN g = 1..Len(g)
  BY <1>4
<1>6. m \in Nat /\ DOMAIN matched = 1..m
  <2>1. m \in Nat
    BY <1>1, FS_Subset, FS_CardinalityType
  <2> QED
    BY <2>1 DEF Bm25Ranks, SetToSeqs
<1> HIDE DEF t, g, m
<1>7. /\ Share(n, matched) \in Nat /\ Share(n, matched) <= 249984
      /\ Share(n, g) \in Nat /\ Share(n, g) <= 249984
  BY <1>5, <1>6, ShareIs
<1>8. /\ Share(n, t) \in Nat /\ Share(n, t) <= 249984
      /\ Cardinality(scope) <= 21 => Share(n, t) >= 188259
  BY <1>3, ShareIs
<1>9. Fused(n, <<matched, t, g>>) = Share(n, matched) + Share(n, t) + Share(n, g)
  BY <1>7, <1>8, FusedIs
<1>10. /\ Fused(n, <<matched, t, g>>) \in Nat /\ Fused(n, <<matched, t, g>>) <= 3 * 249984
       /\ Cardinality(scope) <= 21 => Fused(n, <<matched, t, g>>) >= 188259
  BY <1>7, <1>8, <1>9
<1> QED
  BY <1>10 DEF t, g

LEMMA TimesMore ==
    ASSUME NEW g \in 16..25, NEW x \in Nat, NEW y \in Nat
    PROVE  /\ x * g * 1 \in Nat /\ y * g * 4 \in Nat
           /\ x < 4 * y => x * g * 1 < y * g * 4
<1>1. x * g * 1 = x * g /\ y * g * 4 = (4 * y) * g
  OBVIOUS
<1>2. \A a, b \in Nat : a * g \in Nat /\ (a < b => a * g < b * g)
  <2> TAKE a, b \in Nat
  <2>1. g \in {16, 17, 18, 19, 20, 21, 22, 23, 24, 25}
    OBVIOUS
  <2> QED
    BY <2>1
<1> QED
  BY <1>1, <1>2

\* A node that was superseded scores less than one of its importance that was not.
LEMMA ScoresAre ==
    ASSUME NEW scope, Scoped(scope), NEW q, At(q) \in Nat, NEW matched \in Bm25Ranks(q, scope), NEW old
    PROVE  LET ranks == <<matched, TemporalRank(q, scope), GraphRank(q, scope)>> IN
           /\ \A n \in scope : Score(n, ranks, old) \in Nat
           /\ Cardinality(scope) <= 21 =>
                \A a, b \in scope : /\ a \in old /\ b \notin old
                                    /\ nodes[a].importance = nodes[b].importance
                                    => Score(a, ranks, old) < Score(b, ranks, old)
<1> DEFINE ranks == <<matched, TemporalRank(q, scope), GraphRank(q, scope)>>
<1>1. \A n \in scope : /\ Fused(n, ranks) \in Nat /\ Fused(n, ranks) <= 3 * 249984
                       /\ Cardinality(scope) <= 21 => Fused(n, ranks) >= 188259
  BY RankingsAre
<1> HIDE DEF ranks
<1>2. \A n \in scope : 15 + nodes[n].importance \in 16..25
  BY DEF Scoped
<1>3. ASSUME NEW n \in scope PROVE Score(n, ranks, old) \in Nat
  <2>1. Fused(n, ranks) * (15 + nodes[n].importance) * 1 \in Nat /\ Fused(n, ranks) * (15 + nodes[n].importance) * 4 \in Nat
    BY <1>1, <1>2, TimesMore
  <2> QED
    BY <2>1 DEF Score
<1>4. ASSUME Cardinality(scope) <= 21, NEW a \in scope, NEW b \in scope, a \in old, b \notin old,
             nodes[a].importance = nodes[b].importance
      PROVE  Score(a, ranks, old) < Score(b, ranks, old)
  <2> DEFINE g == 15 + nodes[a].importance
  <2>1. Score(a, ranks, old) = Fused(a, ranks) * g * 1 /\ Score(b, ranks, old) = Fused(b, ranks) * g * 4
    BY <1>4 DEF Score
  <2>2. g \in 16..25
    BY <1>2
  <2> HIDE DEF g
  <2>3. Fused(a, ranks) \in Nat /\ Fused(b, ranks) \in Nat /\ Fused(a, ranks) < 4 * Fused(b, ranks)
    BY <1>1, <1>4
  <2> QED
    BY <2>1, <2>2, <2>3, TimesMore
<1> QED
  BY <1>3, <1>4 DEF ranks

\* What a recall returns, from the best score to the lowest.
LEMMA ItemsAre ==
    ASSUME NEW scope, Scoped(scope), NEW q, At(q) \in Nat, NEW matched \in Bm25Ranks(q, scope)
    PROVE  LET items == Items(q, scope, <<matched, TemporalRank(q, scope), GraphRank(q, scope)>>)
               old == Superseded(q)
           IN /\ Range(items) \subseteq scope
              /\ Cardinality(scope) <= 21 =>
                   \A i, j \in DOMAIN items :
                     /\ items[i] \in old /\ items[j] \notin old
                     /\ nodes[items[i]].importance = nodes[items[j]].importance
                     => j < i
<1> DEFINE ranks == <<matched, TemporalRank(q, scope), GraphRank(q, scope)>>
           old == Superseded(q)
           found == {n \in scope : \E s \in Range(ranks) : n \in Range(s)}
           best == Best(found, ranks, old)
           top == {best[i] : i \in {j \in DOMAIN best : j <= q.k}}
           kept == {n \in top : q.sure => Confident(n, At(q))}
           items == Best(kept, ranks, old)
<1>1. Items(q, scope, ranks) = items
  BY DEF Items
<1>2. /\ \A n \in scope : Score(n, ranks, old) \in Int
      /\ Cardinality(scope) <= 21 =>
           \A a, b \in scope : /\ a \in old /\ b \notin old
                               /\ nodes[a].importance = nodes[b].importance
                               => Score(a, ranks, old) < Score(b, ranks, old)
  <2> HIDE DEF old
  <2>1. \A n \in Nat : n \in Int
    OBVIOUS
  <2> QED
    BY <2>1, ScoresAre
<1>3. IsFiniteSet(scope) /\ scope \subseteq Int /\ found \subseteq scope /\ kept \subseteq top
  BY DEF Scoped
<1> HIDE DEF ranks, old, kept, items
<1>4. top \subseteq scope
  <2> HIDE DEF found
  <2>1. IsFiniteSet(found) /\ found \subseteq Int /\ \A n \in found : Score(n, ranks, old) \in Int
    BY <1>2, <1>3, FS_Subset
  <2>2. best \in [1..Cardinality(found) -> found]
    BY <2>1, BestIs
  <2> HIDE DEF best
  <2>3. top \subseteq found
    BY <2>2
  <2> QED
    BY <1>3, <2>3
<1> HIDE DEF found, top
<1>5. IsFiniteSet(kept) /\ kept \subseteq scope /\ kept \subseteq Int /\ \A n \in kept : Score(n, ranks, old) \in Int
  BY <1>2, <1>3, <1>4, FS_Subset
<1>6. /\ Cardinality(kept) \in Nat /\ items \in [1..Cardinality(kept) -> kept]
      /\ \A i, j \in 1..Cardinality(kept) : i < j => Score(items[i], ranks, old) >= Score(items[j], ranks, old)
  BY <1>5, BestIs DEF items
<1>7. Range(items) \subseteq scope
  BY <1>5, <1>6 DEF Range
<1>8. ASSUME Cardinality(scope) <= 21, NEW i \in DOMAIN items, NEW j \in DOMAIN items,
             items[i] \in old, items[j] \notin old, nodes[items[i]].importance = nodes[items[j]].importance
      PROVE  j < i
  <2>1. i \in 1..Cardinality(kept) /\ j \in 1..Cardinality(kept) /\ items[i] \in scope /\ items[j] \in scope
    BY <1>5, <1>6
  <2>2. Score(items[i], ranks, old) < Score(items[j], ranks, old)
    BY <1>2, <1>8, <2>1
  <2>3. Score(items[i], ranks, old) \in Int /\ Score(items[j], ranks, old) \in Int
    BY <1>2, <2>1
  <2>4. ~(i < j)
    BY <1>6, <2>1, <2>2, <2>3
  <2>5. i # j
    BY <1>8
  <2> QED
    BY <1>6, <2>1, <2>4, <2>5
<1> QED
  BY <1>1, <1>7, <1>8 DEF ranks, old

\* Nodes are what a score needs; an edge that a node is the source of comes after
\* the node; whoever was replaced is invalidated, and a reader knows it from the start.
NodesAre ==
    /\ day \in Nat /\ IsSeq(nodes) /\ Len(nodes) <= MaxNodes
    /\ \A n \in DOMAIN nodes : nodes[n].importance \in 1..10 /\ nodes[n].created \in Nat
EdgesFollow ==
    /\ IsSeq(edges)
    /\ \A i \in DOMAIN edges : edges[i].source \in Nat => edges[i].source <= Len(nodes)
    /\ \A k \in DOMAIN retained : retained[k] \in Nat /\ retained[k] <= Len(nodes)
    /\ replaced \subseteq InvalidatedNodes
ReaderIs(me) ==
    /\ me.pc = "begun" => me.q \in Queries /\ me.before \subseteq me.hidden
    /\ me.pc = "scored" =>
         /\ Range(me.items) \subseteq DOMAIN nodes
         /\ ~me.q.all => Range(me.items) \cap me.before = {}
         /\ MaxNodes <= 21 =>
              \A i, j \in DOMAIN me.items :
                /\ me.items[i] \in me.old /\ me.items[j] \notin me.old
                /\ nodes[me.items[i]].importance = nodes[me.items[j]].importance
                => j < i
RecallInv == NodesAre /\ EdgesFollow /\ \A r \in Readers : ReaderIs(reader[r])

LEMMA WiredSources ==
    ASSUME NEW E, IsSeq(E), NEW n, NEW wanted, IsSeq(wanted), NEW B, n \in B,
           \A i \in DOMAIN E : E[i].source \in B
    PROVE  IsSeq(Wired(E, n, wanted)) /\ \A i \in DOMAIN Wired(E, n, wanted) : Wired(E, n, wanted)[i].source \in B
<1> DEFINE N == Len(wanted)
           Good(all) == IsSeq(all) /\ \A i \in DOMAIN all : all[i].source \in B
<1>1. PICK g : /\ g[0] = E /\ g[N] = Wired(E, n, wanted)
               /\ \A i \in 1..N : g[i] = WireOne(g[i - 1], n, wanted[i])
  BY WiredIs
<1>2. N \in Nat
  BY IsSeqFacts
<1> HIDE DEF N
<1>3. ASSUME NEW all, Good(all), NEW w PROVE Good(WireOne(all, n, w))
  <2> DEFINE e == Edge(n, w.target, w.type)
  <2>1. e.source = n
    BY DEF Edge
  <2>2. WireOne(all, n, w) \in {all, Append(all, e)}
    BY DEF WireOne
  <2> HIDE DEF e
  <2>3. /\ Len(all) \in Nat /\ DOMAIN all = 1..Len(all) /\ IsSeq(Append(all, e))
        /\ DOMAIN Append(all, e) = 1..(Len(all) + 1) /\ Append(all, e)[Len(all) + 1] = e
        /\ \A k \in 1..Len(all) : Append(all, e)[k] = all[k]
    BY <1>3, AppendIs
  <2>4. Good(Append(all, e))
    BY <1>3, <2>1, <2>3
  <2> HIDE DEF Good
  <2> QED
    BY <1>3, <2>2, <2>4
<1>4. Good(E)
  OBVIOUS
<1> HIDE DEF Good
<1> DEFINE Bad == {i \in 0..N : ~Good(g[i])}
<1>5. Bad = {}
  <2> SUFFICES ASSUME Bad # {} PROVE FALSE
    OBVIOUS
  <2>1. Bad \subseteq Nat
    BY <1>2
  <2>2. PICK i \in Bad : \A j \in Bad : i <= j
    BY <2>1, LeastNatural
  <2>3. i \in 0..N /\ ~Good(g[i])
    OBVIOUS
  <2>4. i \in 1..N /\ i - 1 \in 0..N /\ i - 1 \notin Bad
    BY <1>1, <1>2, <1>4, <2>2, <2>3
  <2> QED
    BY <1>1, <1>3, <2>3, <2>4
<1>6. Good(Wired(E, n, wanted))
  BY <1>1, <1>2, <1>5
<1> QED
  BY <1>6 DEF Good

LEMMA MaxesAre == MaxNodes \in Nat /\ MaxDay \in Nat /\ None \notin Nat
BY MemoryAssumption

\* What a reader has stays true of it while nodes are added.
LEMMA ReaderStays ==
    ASSUME NEW me, ReaderIs(me), DOMAIN nodes \subseteq DOMAIN nodes',
           \A n \in DOMAIN nodes : nodes'[n] = nodes[n]
    PROVE  ReaderIs(me)'
<1>1. \A i \in DOMAIN me.items : me.items[i] \in Range(me.items)
  BY DEF Range
<1>2. Range(me.items) \subseteq DOMAIN nodes => \A i \in DOMAIN me.items : nodes'[me.items[i]] = nodes[me.items[i]]
  BY <1>1
<1> QED
  BY <1>2 DEF ReaderIs

LEMMA WriteHides ==
    ASSUME RecallInv, NEW c \in Writes, Write(c)
    PROVE  RecallInv'
<1> DEFINE replay == WriteKey(c) \in DOMAIN retained
           node == IF replay THEN retained[WriteKey(c)] ELSE Len(nodes) + 1
<1>1. c \in WriteCall
  BY MemoryAssumption
<1>2. /\ nodes' = IF replay THEN nodes ELSE Append(nodes, NodeOf(c))
      /\ retained' = IF replay THEN retained ELSE Over([k \in {WriteKey(c)} |-> node], retained)
      /\ edges' = Wired(edges, node, Wanted(c))
      /\ invalidated' = invalidated \cup Invalidated(node, c.supersedes)
      /\ replaced' = IF replay \/ c.supersedes = None THEN replaced ELSE replaced \cup {c.supersedes}
      /\ day' = day /\ reader' = reader /\ (~replay => Len(nodes) < MaxNodes)
  BY DEF Write
<1>3. IsSeq(nodes) /\ Len(nodes) \in Nat /\ DOMAIN nodes = 1..Len(nodes)
  BY IsSeqFacts DEF RecallInv, NodesAre
<1>4. NodeOf(c).importance \in 1..10 /\ NodeOf(c).created \in Nat
  BY <1>1 DEF NodeOf, WriteCall, RecallInv, NodesAre
<1>5. /\ IsSeq(nodes') /\ Len(nodes') = (IF replay THEN Len(nodes) ELSE Len(nodes) + 1)
      /\ DOMAIN nodes' = 1..Len(nodes')
      /\ \A n \in DOMAIN nodes : n \in DOMAIN nodes' /\ nodes'[n] = nodes[n]
      /\ ~replay => nodes'[Len(nodes) + 1] = NodeOf(c)
  <2> DEFINE row == NodeOf(c)
  <2> HIDE DEF row, replay
  <2>1. /\ IsSeq(Append(nodes, row)) /\ Len(Append(nodes, row)) = Len(nodes) + 1
        /\ DOMAIN Append(nodes, row) = 1..(Len(nodes) + 1)
        /\ Append(nodes, row)[Len(nodes) + 1] = row
        /\ \A i \in 1..Len(nodes) : Append(nodes, row)[i] = nodes[i]
    BY <1>3, AppendIs
  <2>2. nodes' = IF replay THEN nodes ELSE Append(nodes, row)
    BY <1>2 DEF row
  <2>3. CASE replay
    BY <1>3, <2>2, <2>3
  <2>4. CASE ~replay
    BY <1>3, <2>1, <2>2, <2>4 DEF row
  <2> QED
    BY <2>3, <2>4
<1>6. NodesAre'
  <2>1. \A n \in DOMAIN nodes' : n \in DOMAIN nodes \/ (~replay /\ n = Len(nodes) + 1)
    BY <1>3, <1>5
  <2>2. \A n \in DOMAIN nodes : nodes[n].importance \in 1..10 /\ nodes[n].created \in Nat
    BY DEF RecallInv, NodesAre
  <2>3. \A n \in DOMAIN nodes' : nodes'[n].importance \in 1..10 /\ nodes'[n].created \in Nat
    BY <1>4, <1>5, <2>1, <2>2
  <2>4. Len(nodes') <= MaxNodes
    BY <1>2, <1>3, <1>5, MaxesAre DEF RecallInv, NodesAre
  <2> QED
    BY <1>2, <1>5, <2>3, <2>4 DEF RecallInv, NodesAre
<1>7. node \in Nat /\ node <= Len(nodes') /\ Len(nodes') \in Nat /\ Len(nodes) <= Len(nodes')
  BY <1>3, <1>5 DEF RecallInv, EdgesFollow
<1>8. IsSeq(edges') /\ \A i \in DOMAIN edges' : edges'[i].source \in Nat => edges'[i].source <= Len(nodes')
  <2>1. \A i \in DOMAIN edges : edges[i].source \in Nat => edges[i].source <= Len(nodes')
    BY <1>3, <1>7 DEF RecallInv, EdgesFollow
  <2> DEFINE B == {edges[i].source : i \in DOMAIN edges} \cup {node}
  <2>2. \A x \in B : x \in Nat => x <= Len(nodes')
    BY <1>7, <2>1
  <2>3. node \in B /\ \A i \in DOMAIN edges : edges[i].source \in B
    OBVIOUS
  <2> HIDE DEF node, B
  <2>4. IsSeq(edges) /\ IsSeq(Wanted(c))
    BY WantedIs DEF RecallInv, EdgesFollow
  <2>5. IsSeq(edges') /\ \A i \in DOMAIN edges' : edges'[i].source \in B
    BY <1>2, <2>3, <2>4, WiredSources
  <2> QED
    BY <2>2, <2>5
<1>9. \A k \in DOMAIN retained' : retained'[k] \in Nat /\ retained'[k] <= Len(nodes')
  <2>1. \A k \in DOMAIN retained : retained[k] \in Nat /\ retained[k] <= Len(nodes')
    BY <1>3, <1>7 DEF RecallInv, EdgesFollow
  <2> HIDE DEF node, replay
  <2> QED
    BY <1>2, <1>7, <2>1 DEF Over
<1>10. replaced' \subseteq InvalidatedNodes'
  <2>1. replaced \subseteq InvalidatedNodes /\ InvalidatedNodes \subseteq InvalidatedNodes'
    BY <1>2 DEF RecallInv, EdgesFollow, InvalidatedNodes
  <2>2. ASSUME ~replay, c.supersedes # None PROVE c.supersedes \in InvalidatedNodes'
    <3>1. ~HasEdge(edges, node, c.supersedes, "supersedes")
      BY <1>3, <2>2 DEF HasEdge, RecallInv, EdgesFollow
    <3>2. [node |-> c.supersedes, by |-> node] \in invalidated'
      BY <1>2, <2>2, <3>1 DEF Invalidated
    <3> QED
      BY <3>2 DEF InvalidatedNodes
  <2> QED
    BY <1>2, <2>1, <2>2
<1>11. ASSUME NEW r \in Readers PROVE ReaderIs(reader[r])'
  <2>1. ReaderIs(reader[r])
    BY DEF RecallInv
  <2> DEFINE me == reader[r]
  <2>2. me' = me /\ ReaderIs(me)
    BY <1>2, <2>1
  <2> HIDE DEF me
  <2>3. \A x : ReaderIs(x) => ReaderIs(x)'
    <3> TAKE x
    <3> QED
      BY <1>5, ReaderStays
  <2> QED
    BY <2>2, <2>3 DEF me, ReaderIs
<1> QED
  BY <1>6, <1>8, <1>9, <1>10, <1>11 DEF RecallInv, EdgesFollow

LEMMA LinkHides ==
    ASSUME RecallInv, NEW l \in Links, Link(l)
    PROVE  RecallInv'
<1> DEFINE e == Edge(l.source, l.target, l.type)
<1>1. UNCHANGED <<day, nodes, invalidated, retained, reader, replaced>>
  BY DEF Link, telemetry
<1>2. IsSeq(nodes) /\ Len(nodes) \in Nat /\ DOMAIN nodes = 1..Len(nodes)
  BY IsSeqFacts DEF RecallInv, NodesAre
<1>3. IsSeq(edges') /\ \A i \in DOMAIN edges' : edges'[i].source \in Nat => edges'[i].source <= Len(nodes)
  <2>1. edges' \in {edges, Append(edges, e)}
    BY DEF Link
  <2>2. e.source \in Nat => e.source <= Len(nodes)
    BY <1>2 DEF Link, Edge
  <2> HIDE DEF e
  <2>3. IsSeq(edges) /\ \A i \in DOMAIN edges : edges[i].source \in Nat => edges[i].source <= Len(nodes)
    BY DEF RecallInv, EdgesFollow
  <2>4. /\ Len(edges) \in Nat /\ DOMAIN edges = 1..Len(edges) /\ IsSeq(Append(edges, e))
        /\ DOMAIN Append(edges, e) = 1..(Len(edges) + 1) /\ Append(edges, e)[Len(edges) + 1] = e
        /\ \A k \in 1..Len(edges) : Append(edges, e)[k] = edges[k]
    BY <2>3, AppendIs
  <2>5. CASE edges' = edges
    BY <2>3, <2>5
  <2>6. CASE edges' = Append(edges, e)
    BY <2>2, <2>3, <2>4, <2>6
  <2> QED
    BY <2>1, <2>5, <2>6
<1> QED
  BY <1>1, <1>3 DEF RecallInv, NodesAre, EdgesFollow, ReaderIs, InvalidatedNodes

LEMMA ScopeIs ==
    ASSUME RecallInv, NEW q \in Queries, NEW hidden
    PROVE  /\ Scoped(InScope(q, hidden)) /\ At(q) \in Nat
           /\ InScope(q, hidden) \subseteq DOMAIN nodes
           /\ ~q.all => InScope(q, hidden) \cap hidden = {}
           /\ Cardinality(InScope(q, hidden)) <= MaxNodes
<1> DEFINE scope == InScope(q, hidden)
           n == Len(nodes)
<1>1. n \in Nat /\ n <= MaxNodes /\ DOMAIN nodes = 1..n
  BY IsSeqFacts DEF RecallInv, NodesAre
<1>2. scope \subseteq DOMAIN nodes /\ (~q.all => scope \cap hidden = {})
  BY DEF InScope
<1> HIDE DEF scope, n
<1>3. IsFiniteSet(1..n) /\ Cardinality(1..n) = n
  BY <1>1, FS_Interval
<1>4. IsFiniteSet(scope) /\ Cardinality(scope) <= n
  BY <1>1, <1>2, <1>3, FS_Subset
<1>5. Scoped(scope)
  BY <1>1, <1>2, <1>4 DEF Scoped, RecallInv, NodesAre
<1>6. At(q) \in Nat
  <2>1. q \in Query
    BY MemoryAssumption
  <2>2. q.asOf \in Days \cup {None}
    BY <2>1 DEF Query
  <2>3. Days \subseteq Nat
    BY MaxesAre DEF Days
  <2> QED
    BY <2>2, <2>3 DEF At, RecallInv, NodesAre
<1>7. Cardinality(scope) \in Nat
  BY <1>4, FS_CardinalityType
<1>8. Cardinality(scope) <= MaxNodes
  BY <1>1, <1>4, <1>7, MaxesAre
<1> QED
  BY <1>2, <1>5, <1>6, <1>8 DEF scope

LEMMA BeginHides ==
    ASSUME RecallInv, NEW r \in Readers, NEW q \in Queries, RecallBegin(r, q)
    PROVE  RecallInv'
<1> DEFINE begun == [pc |-> "begun", q |-> q, hidden |-> InvalidatedNodes, before |-> replaced]
<1>1. UNCHANGED <<day, nodes, edges, invalidated, retained, replaced>> /\ reader' = [reader EXCEPT ![r] = begun]
  BY DEF RecallBegin, tables, history
<1>2. ReaderIs(begun)
  BY DEF ReaderIs, RecallInv, EdgesFollow
<1> HIDE DEF begun
<1>3. \A s \in Readers : reader'[s] \in {reader[s], begun}
  BY <1>1
<1>4. \A x : ReaderIs(x) => ReaderIs(x)'
  BY <1>1 DEF ReaderIs
<1>5. ASSUME NEW s \in Readers PROVE ReaderIs(reader[s])'
  <2>1. ReaderIs(reader'[s])
    BY <1>2, <1>3 DEF RecallInv
  <2> QED
    BY <1>1, <2>1 DEF ReaderIs
<1> QED
  BY <1>1, <1>5 DEF RecallInv, NodesAre, EdgesFollow, InvalidatedNodes

LEMMA ScoreHides ==
    ASSUME RecallInv, NEW r \in Readers, RecallScore(r)
    PROVE  RecallInv'
<1> DEFINE me == reader[r]
           q == me.q
           scope == InScope(q, me.hidden)
<1>1. me.pc = "begun" /\ q \in Queries /\ me.before \subseteq me.hidden
  BY DEF RecallScore, RecallInv, ReaderIs
<1>2. PICK matched \in Bm25Ranks(q, scope) :
         reader' = [reader EXCEPT ![r] =
           [pc |-> "scored", q |-> q, before |-> me.before, at |-> day, old |-> Superseded(q),
            items |-> Items(q, scope, <<matched, TemporalRank(q, scope), GraphRank(q, scope)>>)]]
  BY DEF RecallScore
<1>3. UNCHANGED <<day, nodes, edges, invalidated, retained, replaced>>
  BY DEF RecallScore, tables, history
<1> DEFINE items == Items(q, scope, <<matched, TemporalRank(q, scope), GraphRank(q, scope)>>)
           old == Superseded(q)
           scored == [pc |-> "scored", q |-> q, before |-> me.before, at |-> day, old |-> old, items |-> items]
<1>4. reader' = [reader EXCEPT ![r] = scored]
  BY <1>2
<1> HIDE DEF me, q
<1>5. /\ Scoped(scope) /\ At(q) \in Nat /\ scope \subseteq DOMAIN nodes
      /\ ~q.all => scope \cap me.hidden = {}
      /\ Cardinality(scope) <= MaxNodes
  BY <1>1, ScopeIs
<1> HIDE DEF scope
<1>6. /\ Range(items) \subseteq scope
      /\ Cardinality(scope) <= 21 =>
           \A i, j \in DOMAIN items :
             /\ items[i] \in old /\ items[j] \notin old
             /\ nodes[items[i]].importance = nodes[items[j]].importance
             => j < i
  BY <1>5, ItemsAre
<1>7. MaxNodes <= 21 => Cardinality(scope) <= 21
  <2>1. Cardinality(scope) \in Nat
    BY <1>5, FS_CardinalityType DEF Scoped
  <2> QED
    BY <1>5, <2>1, MaxesAre
<1> HIDE DEF items, old
<1>8. ReaderIs(scored)
  <2>1. scored.pc = "scored" /\ scored.q = q /\ scored.before = me.before /\ scored.old = old /\ scored.items = items
    OBVIOUS
  <2> HIDE DEF scored
  <2> QED
    BY <1>1, <1>5, <1>6, <1>7, <2>1 DEF ReaderIs
<1> HIDE DEF scored
<1>9. \A s \in Readers : reader'[s] \in {reader[s], scored}
  BY <1>4
<1>10. ASSUME NEW s \in Readers PROVE ReaderIs(reader[s])'
  <2>1. ReaderIs(reader'[s])
    BY <1>8, <1>9 DEF RecallInv
  <2> QED
    BY <1>3, <2>1 DEF ReaderIs
<1> QED
  BY <1>3, <1>10 DEF RecallInv, NodesAre, EdgesFollow, InvalidatedNodes

LEMMA RecallStep ==
    ASSUME RecallInv, [Next]_vars
    PROVE  RecallInv'
<1>1. CASE UNCHANGED <<tables, history, reader>> /\ day' \in Nat
  BY <1>1 DEF tables, history, RecallInv, NodesAre, EdgesFollow, ReaderIs, InvalidatedNodes
<1>2. CASE \E c \in Writes : Write(c)
  BY <1>2, WriteHides
<1>3. CASE \E l \in Links : Link(l)
  BY <1>3, LinkHides
<1>4. CASE \E r \in Readers, q \in Queries : RecallBegin(r, q)
  BY <1>4, BeginHides
<1>5. CASE \E r \in Readers : RecallScore(r)
  BY <1>5, ScoreHides
<1>6. CASE \E r \in Readers : RecallWrite(r)
  <2>1. PICK r \in Readers : reader' = [reader EXCEPT ![r] = Idle]
    BY <1>6 DEF RecallWrite
  <2>2. UNCHANGED <<day, nodes, edges, invalidated, retained, replaced>>
    BY <1>6 DEF RecallWrite, tables, history
  <2>3. ReaderIs(Idle)
    BY DEF ReaderIs, Idle
  <2>4. ASSUME NEW s \in Readers PROVE ReaderIs(reader[s])'
    <3>1. reader'[s] \in {reader[s], Idle}
      BY <2>1
    <3>2. ReaderIs(reader'[s])
      BY <2>3, <3>1 DEF RecallInv
    <3> QED
      BY <2>2, <3>2 DEF ReaderIs
  <2> QED
    BY <2>2, <2>4 DEF RecallInv, NodesAre, EdgesFollow, InvalidatedNodes
<1>7. Tick => UNCHANGED <<tables, history, reader>> /\ day' \in Nat
  BY DEF Tick, RecallInv, NodesAre
<1>8. RebuildStats \/ UNCHANGED vars => UNCHANGED <<tables, history, reader>> /\ day' \in Nat
  BY DEF RebuildStats, vars, RecallInv, NodesAre
<1> QED
  BY <1>1, <1>2, <1>3, <1>4, <1>5, <1>6, <1>7, <1>8 DEF Next

\* A recall returns no node replaced before it began, unless it asked for them.
RecallRespects ==
    \A r \in Readers : reader[r].pc = "scored" /\ ~reader[r].q.all =>
        Range(reader[r].items) \cap reader[r].before = {}

LEMMA RecallStart == Init => RecallInv
<1> SUFFICES ASSUME Init PROVE RecallInv
  OBVIOUS
<1>1. day = 0 /\ nodes = << >> /\ edges = << >> /\ retained = << >> /\ replaced = {}
      /\ \A r \in Readers : reader[r] = Idle
  BY DEF Init
<1>2. \A r \in Readers : ReaderIs(reader[r])
  BY <1>1 DEF ReaderIs, Idle
<1>3. IsSeq(nodes) /\ IsSeq(edges) /\ Len(nodes) = 0 /\ DOMAIN nodes = {} /\ DOMAIN edges = {} /\ DOMAIN retained = {}
  BY <1>1, EmptyIsSeq
<1> QED
  BY <1>1, <1>2, <1>3, MaxesAre DEF RecallInv, NodesAre, EdgesFollow

\* A recall that began after a replacement was answered returns the replaced node only
\* to a caller who asks for invalidated ones, for any calls, readers and bounds.
THEOREM ReplacedAreHidden == Spec => []RecallRespects
<1>1. RecallInv => RecallRespects
  BY DEF RecallInv, ReaderIs, RecallRespects
<1> QED
  BY <1>1, RecallStart, RecallStep, PTL DEF Spec

\* And with no more than 21 nodes the discount of a superseded node outweighs every
\* rank: 4 / (60 + 21) is more than 3 / 61.  With more nodes it need not be, so the
\* bound is one of the statement.
THEOREM ReplacedStayHidden == MaxNodes <= 21 => (Spec => []ReplacedStaysHidden)
<1> SUFFICES ASSUME MaxNodes <= 21 PROVE Spec => []ReplacedStaysHidden
  OBVIOUS
<1>1. RecallInv => ReplacedStaysHidden
  BY DEF RecallInv, ReaderIs, ReplacedStaysHidden
<1> QED
  BY <1>1, RecallStart, RecallStep, PTL DEF Spec
=============================================================================
