--------------------------- MODULE Evidence_proofs ---------------------------
(***************************************************************************)
(* What Risk, Evidence, Sources and Readiness guarantee for any policies,   *)
(* checks, calls, histories and bounds: a receipt recorded with its inputs  *)
(* fails closed, an ok is about what the call said, a paper fill is never    *)
(* better than its book, no critical finding is taken back, a capture is     *)
(* whole, the report on sources sees an attachment once, autonomy is not      *)
(* granted over a defect that nothing can mend, and a score counts once      *)
(* wherever scores are counted.                                              *)
(*                                                                         *)
(* Rows are only appended, so what a record says and what a policy demands   *)
(* does not change under it.  The walk through a book is a fold; it has a    *)
(* value after each level (WalkIs), and facts about it go from level to      *)
(* level.  A journal of sources is in order when its events say what its     *)
(* rows say (Orderly); each part of a call keeps it so and only adds to it,   *)
(* so what one part answered is there for the next.                          *)
(***************************************************************************)
EXTENDS Evidence, Sources, Readiness, FiniteSetTheorems, WellFoundedInduction, TLAPS

IsSeq(s) == \E S : s \in Seq(S)

LEMMA EmptyIsSeq == IsSeq(<< >>)
<1>1. << >> \in Seq({})
  OBVIOUS
<1> QED
  BY <1>1 DEF IsSeq

LEMMA AppendIs ==
    ASSUME NEW s, IsSeq(s), NEW e
    PROVE  /\ Len(s) \in Nat /\ DOMAIN s = 1..Len(s)
           /\ IsSeq(Append(s, e)) /\ Len(Append(s, e)) = Len(s) + 1
           /\ DOMAIN Append(s, e) = 1..(Len(s) + 1)
           /\ Append(s, e)[Len(s) + 1] = e
           /\ \A i \in 1..Len(s) : Append(s, e)[i] = s[i]
<1>1. PICK S : s \in Seq(S)
  BY DEF IsSeq
<1>2. s \in Seq(S \cup {e})
  BY <1>1
<1>3. Append(s, e) \in Seq(S \cup {e})
  BY <1>2
<1> QED
  BY <1>2, <1>3 DEF IsSeq

-----------------------------------------------------------------------------
(* The evaluator *)

\* What one rule says of an input.
LEMMA OneRule ==
    ASSUME NEW x \in Rule, NEW input \in Input
    PROVE  LET r == EvaluateOneRule(x, input)
           IN /\ r.severity \in Severities
              /\ r.missing <=> r.severity = "missing_data"
              /\ ~Applies(x, input) => r.severity = "missing_data"
              /\ Violates(x, input) =>
                   r.severity = IF x.class = "approval" THEN "warning" ELSE x.severity
<1>1. /\ x.class \in Classes /\ x.severity \in {"warning", "hard_block"} /\ x.broken \in BOOLEAN
  BY DEF Rule
<1>2. CASE Applies(x, input)
  <2>1. Unanswerable(x, input) = ""
    BY <1>2 DEF Applies, Unanswerable
  <2> QED
    BY <1>1, <1>2, <2>1 DEF EvaluateOneRule, RuleResult, Severities, Violates
<1>3. CASE ~Applies(x, input)
  <2>1. Unanswerable(x, input) # ""
    BY <1>3 DEF Applies, Unanswerable
  <2> QED
    BY <1>1, <1>3, <2>1 DEF EvaluateOneRule, RuleResult, Severities, Violates
<1> QED
  BY <1>2, <1>3

LEMMA MaxOfRanks ==
    ASSUME NEW S, S \subseteq 0..3, S # {}
    PROVE  Max(S) \in S /\ \A y \in S : Max(S) >= y
<1>1. \E i \in S : \A y \in S : i >= y
  <2>1. \A y \in S : y \in {0, 1, 2, 3}
    OBVIOUS
  <2>2. CASE 3 \in S
    <3>1. \A y \in S : 3 >= y
      BY <2>1
    <3> QED
      BY <2>2, <3>1
  <2>3. CASE 3 \notin S /\ 2 \in S
    <3>1. \A y \in S : 2 >= y
      BY <2>1, <2>3
    <3> QED
      BY <2>3, <3>1
  <2>4. CASE 3 \notin S /\ 2 \notin S /\ 1 \in S
    <3>1. \A y \in S : 1 >= y
      BY <2>1, <2>4
    <3> QED
      BY <2>4, <3>1
  <2>5. CASE 3 \notin S /\ 2 \notin S /\ 1 \notin S
    <3>1. \A y \in S : y = 0
      BY <2>1, <2>5
    <3>2. 0 \in S
      BY <3>1
    <3> QED
      BY <3>1, <3>2
  <2> QED
    BY <2>2, <2>3, <2>4, <2>5
<1> QED
  BY <1>1 DEF Max

\* A verdict fails closed.
LEMMA VerdictIs ==
    ASSUME NEW rules \in Seq(Rule), NEW input \in Input, NEW stale \in BOOLEAN
    PROVE  LET status == EvaluateRiskPolicy(rules, input, stale).status
               hard(x) == Violates(x, input) /\ x.class # "approval" /\ x.severity = "hard_block"
           IN /\ status = "pass" =>
                   /\ \A i \in DOMAIN rules : Applies(rules[i], input) /\ ~Violates(rules[i], input)
                   /\ DOMAIN rules = {} \/ ~stale
              /\ status = "warn" => \A i \in DOMAIN rules : Applies(rules[i], input) /\ ~hard(rules[i])
              /\ status = "missing_data" => \A i \in DOMAIN rules : ~hard(rules[i])
<1> DEFINE Result(i) == [EvaluateOneRule(rules[i], input) EXCEPT
                           !.stale = stale /\ ~EvaluateOneRule(rules[i], input).missing]
           results == [i \in DOMAIN rules |-> Result(i)]
           ranks == {0} \cup {SeverityRank[results[i].severity] : i \in DOMAIN rules}
                      \cup {1 : i \in {j \in DOMAIN rules : results[j].stale}}
           worst == Max(ranks)
           missing == \E i \in DOMAIN rules : results[i].missing
           status == IF missing /\ worst < 2 THEN "missing_data" ELSE AggregateStatus[worst + 1]
<1>1. EvaluateRiskPolicy(rules, input, stale).status = status
  BY DEF EvaluateRiskPolicy
<1>2. \A i \in DOMAIN rules : rules[i] \in Rule
  OBVIOUS
<1>3. ASSUME NEW i \in DOMAIN rules
      PROVE  LET r == EvaluateOneRule(rules[i], input)
             IN /\ results[i].severity = r.severity /\ results[i].missing = r.missing
                /\ results[i].stale = (stale /\ ~r.missing)
  <2> DEFINE r == EvaluateOneRule(rules[i], input)
  <2>1. "severity" \in DOMAIN r /\ "missing" \in DOMAIN r /\ "stale" \in DOMAIN r
    BY DEF EvaluateOneRule, RuleResult
  <2>2. results[i] = [r EXCEPT !.stale = stale /\ ~r.missing]
    OBVIOUS
  <2> HIDE DEF results, r
  <2> QED
    BY <2>1, <2>2 DEF r
<1> HIDE DEF results
<1>4. ranks \subseteq 0..3
  <2>1. \A i \in DOMAIN rules : SeverityRank[results[i].severity] \in 0..3
    BY <1>2, <1>3, OneRule DEF SeverityRank, Severities
  <2> QED
    BY <2>1
<1>5. worst \in 0..3 /\ \A y \in ranks : worst >= y
  <2>1. ranks # {}
    OBVIOUS
  <2> HIDE DEF ranks
  <2>2. Max(ranks) \in ranks /\ \A y \in ranks : Max(ranks) >= y
    BY <1>4, <2>1, MaxOfRanks
  <2> QED
    BY <1>4, <2>2
<1>6. \A i \in DOMAIN rules : /\ worst >= SeverityRank[results[i].severity]
                              /\ results[i].stale => worst >= 1
  BY <1>5
<1> HIDE DEF worst, ranks
<1>7. missing => worst >= 2
  BY <1>2, <1>3, <1>6, OneRule DEF SeverityRank
<1>8. status = AggregateStatus[worst + 1]
  BY <1>5, <1>7
<1>9. /\ status = "pass" => worst = 0
      /\ status = "warn" => worst = 1
      /\ status = "missing_data" => worst = 2
  BY <1>5, <1>8 DEF AggregateStatus
<1> HIDE DEF status, missing
<1>10. ASSUME NEW i \in DOMAIN rules
       PROVE  /\ ~Applies(rules[i], input) => worst >= 2
              /\ Violates(rules[i], input) => worst >= 1
              /\ Violates(rules[i], input) /\ rules[i].class # "approval" /\ rules[i].severity = "hard_block"
                   => worst >= 3
              /\ stale => worst >= 1
  <2> DEFINE r == EvaluateOneRule(rules[i], input)
  <2>1. /\ r.severity \in Severities
        /\ r.missing <=> r.severity = "missing_data"
        /\ ~Applies(rules[i], input) => r.severity = "missing_data"
        /\ Violates(rules[i], input) =>
             r.severity = IF rules[i].class = "approval" THEN "warning" ELSE rules[i].severity
    BY <1>2, OneRule
  <2>2. worst >= SeverityRank[r.severity] /\ (stale /\ ~r.missing => worst >= 1)
    BY <1>3, <1>6
  <2>3. rules[i].severity \in {"warning", "hard_block"}
    BY <1>2 DEF Rule
  <2> HIDE DEF r
  <2> QED
    BY <1>5, <2>1, <2>2, <2>3 DEF SeverityRank
<1> QED
  BY <1>1, <1>9, <1>10
-----------------------------------------------------------------------------
(* Every row says what some call said *)

\* The row of a call: only the notes and what is derived from other rows depend on more.
RowOf(r, c) ==
    /\ r.kind = c.kind
    /\ <<r.material.sem, r.material.body, r.material.refs>> = <<c.sem, Hashed(c), c.refs>>
RecordsInv == IsSeq(records) /\ \A i \in DOMAIN records : \E c \in Calls : RowOf(records[i], c)

NewRow(c, n) == [kind |-> c.kind, key |-> c.key, material |-> Material(c, n)]

LEMMA RowOfNew == ASSUME NEW c \in Calls, NEW n PROVE RowOf(NewRow(c, n), c)
  BY DEF RowOf, NewRow, Material

\* A call answered ok was given a row that says the same, new or not.
LEMMA Handled ==
    ASSUME NEW c \in Calls, Handle(c), IsSeq(records), EvidenceAssumption
    PROVE  /\ UNCHANGED <<policies, receipts, open>>
           /\ \/ /\ \E n \in 1..MaxRuns : records' = Append(records, NewRow(c, n))
                 /\ answers' = answers \cup {[call |-> c, row |-> Len(records) + 1]}
              \/ \E i \in DOMAIN records :
                    /\ UNCHANGED records /\ answers' = answers \cup {[call |-> c, row |-> i]}
                    /\ c.kind \in HashedKinds => \E n : records[i].material = Material(c, n)
<1>1. 1 \in 1..MaxRuns
  BY DEF EvidenceAssumption
<1>2. ASSUME NEW n \in 1..MaxRuns, Store(c, n)
      PROVE  /\ UNCHANGED <<policies, receipts, open>>
             /\ \/ /\ records' = Append(records, NewRow(c, n))
                   /\ answers' = answers \cup {[call |-> c, row |-> Len(records) + 1]}
                \/ \E i \in DOMAIN records :
                      /\ UNCHANGED records /\ answers' = answers \cup {[call |-> c, row |-> i]}
                      /\ records[i].material = Material(c, n)
  <2>1. Holders(c) \subseteq DOMAIN records
    BY DEF Holders, Replayed, Meant, OfKind
  <2> QED
    BY <1>2, <2>1 DEF Store, SameMaterial, NewRow
<1>3. ASSUME NEW holders, holders \subseteq DOMAIN records, StoreUnhashed(c, holders)
      PROVE  /\ UNCHANGED <<policies, receipts, open>>
             /\ \/ /\ records' = Append(records, NewRow(c, 1))
                   /\ answers' = answers \cup {[call |-> c, row |-> Len(records) + 1]}
                \/ \E i \in DOMAIN records : UNCHANGED records /\ answers' = answers \cup {[call |-> c, row |-> i]}
  BY <1>3 DEF StoreUnhashed, NewRow
<1>4. CASE \E n \in 1..MaxRuns : Store(c, n)
  BY <1>2, <1>4
<1>5. CASE AbstentionRecord(c) \/ InterpretResolution(c)
  <2>1. Replayed(c) \subseteq DOMAIN records /\ Holders(c) \subseteq DOMAIN records
    BY DEF Holders, Replayed, Meant, OfKind
  <2>2. c.kind \notin HashedKinds
    BY <1>5 DEF AbstentionRecord, InterpretResolution, HashedKinds
  <2>3. \E holders : holders \subseteq DOMAIN records /\ StoreUnhashed(c, holders)
    BY <1>5, <2>1 DEF AbstentionRecord, InterpretResolution
  <2> QED
    BY <1>1, <1>3, <2>2, <2>3
<1> QED
  BY <1>1, <1>4, <1>5 DEF Handle, PretradeIntentRecord, ApprovalRecord, ExternalReceiptImport,
     AccountSnapshotImport, ReplayArtifactRecord, PaperFillRecord, ReconciliationRecord

LEMMA RecordsStep ==
    ASSUME RecordsInv, [EvidenceNext]_evidenceVars, EvidenceAssumption
    PROVE  RecordsInv'
<1>1. CASE UNCHANGED records
  BY <1>1 DEF RecordsInv, RowOf
<1>2. ASSUME NEW c \in Calls, NEW n, records' = Append(records, NewRow(c, n)) PROVE RecordsInv'
  <2>1. /\ DOMAIN records = 1..Len(records) /\ Len(records) \in Nat
        /\ IsSeq(records') /\ DOMAIN records' = 1..(Len(records) + 1)
        /\ records'[Len(records) + 1] = NewRow(c, n)
        /\ \A i \in 1..Len(records) : records'[i] = records[i]
    BY <1>2, AppendIs DEF RecordsInv
  <2>2. ASSUME NEW i \in DOMAIN records' PROVE \E d \in Calls : RowOf(records'[i], d)
    <3>1. CASE i \in 1..Len(records)
      BY <2>1, <3>1 DEF RecordsInv
    <3>2. CASE i = Len(records) + 1
      BY <2>1, <3>2, RowOfNew
    <3> QED
      BY <2>1, <3>1, <3>2
  <2> QED
    BY <2>1, <2>2 DEF RecordsInv, RowOf
<1>3. CASE \E c \in Calls : Handle(c)
  BY <1>1, <1>2, <1>3, Handled DEF RecordsInv
<1> QED
  BY <1>1, <1>3 DEF EvidenceNext, RiskNext, PositionsMove, evidenceVars

-----------------------------------------------------------------------------
(* Receipts of checks *)

Guard(r) ==
    r.input # RiskNull =>
        /\ r.policy \in DOMAIN policies /\ r.input \in Input /\ r.stale \in BOOLEAN
        /\ r.verdict.status = EvaluateRiskPolicy(policies[r.policy].rules, r.input, r.stale).status
RiskInv == policies \in Seq(Policy) /\ IsSeq(receipts) /\ \A n \in DOMAIN receipts : Guard(receipts[n])

LEMMA MergedIs ==
    ASSUME NEW stored \in Input, NEW inline \in Input \cup {RiskNull}
    PROVE  Merged(stored, inline) \in Input
<1>1. CASE stored = RiskNull \/ inline = RiskNull
  BY <1>1 DEF Merged
<1>2. CASE stored # RiskNull /\ inline # RiskNull
  BY <1>2 DEF Merged, Input
<1> QED
  BY <1>1, <1>2

LEMMA InputIs ==
    ASSUME NEW k \in Checks, RecordsInv, RiskAssumption, EvidenceAssumption,
           k.stored # RiskNull => k.stored \in OfKind("intent")
    PROVE  /\ k.stale \in BOOLEAN
           /\ LET input == IF k.stored = RiskNull THEN k.inline ELSE Merged(Body(k.stored).input, k.inline)
              IN input # RiskNull => input \in Input
<1>1. k.stale \in BOOLEAN /\ k.inline \in Input \cup {RiskNull}
  BY DEF RiskAssumption, Check
<1>2. ASSUME k.stored \in OfKind("intent") PROVE Body(k.stored).input \in Input
  <2>1. PICK c \in Calls : RowOf(records[k.stored], c)
    BY <1>2 DEF OfKind, RecordsInv
  <2>2. c.kind = "intent" /\ Body(k.stored).input = c.body.input
    BY <1>2, <2>1 DEF OfKind, RowOf, Body, Hashed
  <2>3. c.body \in Intent
    BY <2>2 DEF EvidenceAssumption
  <2> QED
    BY <2>2, <2>3 DEF Intent
<1> QED
  BY <1>1, <1>2, MergedIs

LEMMA RiskStep ==
    ASSUME RecordsInv, RiskInv, [EvidenceNext]_evidenceVars, RiskAssumption, EvidenceAssumption
    PROVE  RiskInv'
<1>1. CASE UNCHANGED <<policies, receipts>>
  BY <1>1 DEF RiskInv, Guard
<1>2. ASSUME NEW p \in Policies, RiskPolicyVersionAdd(p) PROVE RiskInv'
  <2>1. p \in Policy /\ policies' = Append(policies, p) /\ receipts' = receipts
    BY <1>2 DEF RiskAssumption, RiskPolicyVersionAdd
  <2>2. /\ policies' \in Seq(Policy)
        /\ \A i \in DOMAIN policies : i \in DOMAIN policies' /\ policies'[i] = policies[i]
    BY <2>1 DEF RiskInv
  <2>3. ASSUME NEW n \in DOMAIN receipts PROVE Guard(receipts[n])'
    BY <2>1, <2>2 DEF RiskInv, Guard
  <2> QED
    BY <2>1, <2>2, <2>3 DEF RiskInv
<1>3. ASSUME NEW k \in Checks, NEW input, RiskCheckRecord(k, input),
             k.stale \in BOOLEAN, input # RiskNull => input \in Input
      PROVE  RiskInv'
  <2>1. PICK v : /\ Guarded(k, input, v)
                 /\ receipts' = Append(receipts, [policy |-> k.policy, verdict |-> v, anchor |-> k.anchor, key |-> k.key,
                                                  input |-> input, stale |-> k.stale])
    BY <1>3 DEF RiskCheckRecord
  <2> DEFINE r == [policy |-> k.policy, verdict |-> v, anchor |-> k.anchor, key |-> k.key,
                   input |-> input, stale |-> k.stale]
  <2>2. policies' = policies /\ k.policy \in DOMAIN policies
    BY <1>3 DEF RiskCheckRecord
  <2>3. Guard(r)
    <3>1. input # RiskNull => v.status = EvaluateRiskPolicy(policies[k.policy].rules, input, k.stale).status
      BY <2>1 DEF Guarded, Signature
    <3> QED
      BY <1>3, <2>2, <3>1 DEF Guard
  <2>4. receipts' = Append(receipts, r)
    BY <2>1
  <2> HIDE DEF r
  <2>5. /\ IsSeq(receipts') /\ DOMAIN receipts' = 1..(Len(receipts) + 1)
        /\ DOMAIN receipts = 1..Len(receipts) /\ Len(receipts) \in Nat
        /\ receipts'[Len(receipts) + 1] = r
        /\ \A i \in 1..Len(receipts) : receipts'[i] = receipts[i]
    BY <2>4, AppendIs DEF RiskInv
  <2>6. ASSUME NEW n \in DOMAIN receipts' PROVE Guard(receipts'[n])
    <3>1. CASE n \in 1..Len(receipts)
      BY <2>5, <3>1 DEF RiskInv
    <3>2. CASE n = Len(receipts) + 1
      BY <2>3, <2>5, <3>2
    <3> QED
      BY <2>5, <3>1, <3>2
  <2> QED
    BY <2>2, <2>5, <2>6 DEF RiskInv, Guard
<1>4. CASE RiskNext
  BY <1>2, <1>3, <1>4, InputIs DEF RiskNext
<1>5. CASE \E c \in Calls : Handle(c)
  BY <1>1, <1>5, Handled DEF RecordsInv
<1> QED
  BY <1>1, <1>4, <1>5 DEF EvidenceNext, PositionsMove, evidenceVars

\* A receipt that records what was evaluated fails closed.
THEOREM ReceiptsFailClosed == EvidenceSpec => []VerdictsFailClosed
<1> USE RiskAssumption, EvidenceAssumption
<1>1. EvidenceInit => RecordsInv /\ RiskInv
  <2> SUFFICES ASSUME EvidenceInit PROVE RecordsInv /\ RiskInv
    OBVIOUS
  <2>1. policies = << >> /\ receipts = << >> /\ records = << >>
    BY DEF EvidenceInit, RiskInit
  <2> QED
    BY <2>1, EmptyIsSeq DEF RecordsInv, RiskInv
<1>2. RecordsInv /\ RiskInv /\ [EvidenceNext]_evidenceVars => RecordsInv' /\ RiskInv'
  BY RecordsStep, RiskStep
<1>3. RiskInv => VerdictsFailClosed
  <2> SUFFICES ASSUME RiskInv, NEW n \in DOMAIN receipts, receipts[n].input # RiskNull
               PROVE  LET r == receipts[n]
                          rules == ToSet(policies[r.policy].rules)
                          unanswered == {x \in rules : ~Applies(x, r.input)}
                          violated == {x \in rules : Violates(x, r.input)}
                          hard == {x \in violated : x.class # "approval" /\ x.severity = "hard_block"}
                      IN /\ r.verdict.status = "pass" => unanswered \cup violated = {} /\ (rules = {} \/ ~r.stale)
                         /\ r.verdict.status = "warn" => unanswered \cup hard = {}
                         /\ r.verdict.status = "missing_data" => hard = {}
    BY DEF VerdictsFailClosed
  <2> DEFINE r == receipts[n]
             rules == policies[r.policy].rules
  <2>1. Guard(r)
    BY DEF RiskInv
  <2>2. rules \in Seq(Rule) /\ r.input \in Input /\ r.stale \in BOOLEAN
    <3>1. r.policy \in DOMAIN policies /\ r.input \in Input /\ r.stale \in BOOLEAN
      BY <2>1 DEF Guard
    <3>2. policies[r.policy] \in Policy
      BY <3>1 DEF RiskInv
    <3> QED
      BY <3>1, <3>2 DEF Policy
  <2>3. r.verdict.status = EvaluateRiskPolicy(rules, r.input, r.stale).status
    BY <2>1 DEF Guard
  <2> HIDE DEF r, rules
  <2>4. /\ r.verdict.status = "pass" =>
             /\ \A i \in DOMAIN rules : Applies(rules[i], r.input) /\ ~Violates(rules[i], r.input)
             /\ DOMAIN rules = {} \/ ~r.stale
        /\ r.verdict.status = "warn" =>
             \A i \in DOMAIN rules : /\ Applies(rules[i], r.input)
                                     /\ ~(/\ Violates(rules[i], r.input)
                                          /\ rules[i].class # "approval" /\ rules[i].severity = "hard_block")
        /\ r.verdict.status = "missing_data" =>
             \A i \in DOMAIN rules : ~(/\ Violates(rules[i], r.input)
                                       /\ rules[i].class # "approval" /\ rules[i].severity = "hard_block")
    BY <2>2, <2>3, VerdictIs
  <2>5. \A x \in ToSet(rules) : \E i \in DOMAIN rules : x = rules[i]
    BY DEF ToSet
  <2>6. DOMAIN rules = {} => ToSet(rules) = {}
    BY DEF ToSet
  <2> QED
    BY <2>4, <2>5, <2>6 DEF r, rules
<1> QED
  BY <1>1, <1>2, <1>3, PTL DEF EvidenceSpec
-----------------------------------------------------------------------------
(* Walks through a book: what is filled, and what could be *)

LEMMA LeastNatural ==
    ASSUME NEW T, T \subseteq Nat, T # {}
    PROVE  \E n \in T : \A m \in T : n <= m
<1> DEFINE R == {p \in Nat \X Nat : p[1] < p[2]}
<1>1. R = OpToRel(<, Nat)
  BY DEF OpToRel
<1>2. IsWellFoundedOn(R, Nat)
  BY <1>1, NatLessThanWellFounded
<1>3. \E n \in T : \A m \in T : <<m, n>> \notin R
  BY <1>2, WFMin
<1>4. \A n \in T, m \in T : <<m, n>> \notin R => n <= m
  OBVIOUS
<1> QED
  BY <1>3, <1>4

\* Values of any kind in a row.
LEMMA MaxIs ==
    ASSUME NEW n \in Nat, NEW s, s \subseteq 1..n, s # {}
    PROVE  Max(s) \in s /\ \A j \in s : Max(s) >= j
<1> DEFINE below == {k \in Nat : n - k \in s}
<1>1. below \subseteq Nat /\ below # {}
  <2>1. PICK i \in s : i \in 1..n
    OBVIOUS
  <2>2. n - (n - i) = i /\ n - i \in Nat
    BY <2>1
  <2> QED
    BY <2>1, <2>2
<1>2. PICK k \in below : \A j \in below : k <= j
  BY <1>1, LeastNatural
<1>3. n - k \in s /\ k \in Nat
  BY <1>2
<1>4. \A j \in s : n - k >= j
  <2> TAKE j \in s
  <2>1. j \in 1..n /\ n - (n - j) = j /\ n - j \in Nat
    OBVIOUS
  <2>2. k <= n - j
    BY <1>2, <2>1
  <2> QED
    BY <1>3, <2>1, <2>2
<1> QED
  BY <1>3, <1>4 DEF Max

LEMMA TopIs ==
    ASSUME NEW m \in Nat, NEW s, s \subseteq 1..(m + 1), m + 1 \in s
    PROVE  Max(s) = m + 1 /\ s \ {m + 1} \subseteq 1..m
<1>1. Max(s) \in s /\ Max(s) >= m + 1
  <2>1. m + 1 \in Nat /\ s # {}
    OBVIOUS
  <2> QED
    BY <2>1, MaxIs
<1>2. Max(s) \in 1..(m + 1)
  BY <1>1
<1> QED
  BY <1>1, <1>2

LEMMA LowIs ==
    ASSUME NEW m \in Nat, NEW s, s \subseteq 1..(m + 1), m + 1 \notin s, s # {}
    PROVE  s \subseteq 1..m /\ Max(s) \in 1..m /\ s \ {Max(s)} \subseteq 1..m
<1>1. s \subseteq 1..m
  OBVIOUS
<1> QED
  BY <1>1, MaxIs

\* Two folds of one form: the walk of _model_fill, and the sum of the depth at the limit.
Pass(what, b, v, level) ==
    IF what = "fill" THEN IF Fillable(b, level) /\ v.filled < b.quantity THEN Take(b, level, v) ELSE v
    ELSE v + IF Fillable(b, level) THEN level.quantity ELSE 0
Start(what) == IF what = "fill" THEN NoFill ELSE 0
Depth(b) == FoldLeft(LAMBDA sum, level : sum + IF Fillable(b, level) THEN level.quantity ELSE 0, 0, b.book)
IsWalk(it, what, b, m) ==
    it = [s \in SUBSET (1..m) |-> IF s = {} THEN Start(what) ELSE Pass(what, b, it[s \ {Max(s)}], b.book[Max(s)])]

LEMMA WalkExists ==
    ASSUME NEW what, NEW b, NEW N \in Nat
    PROVE  \E it : IsWalk(it, what, b, N)
<1> DEFINE Bad == {m \in Nat : ~ \E it : IsWalk(it, what, b, m)}
<1>1. SUFFICES ASSUME Bad # {} PROVE FALSE
  OBVIOUS
<1>2. PICK least \in Bad : \A m \in Bad : least <= m
  BY <1>1, LeastNatural
<1>3. least # 0
  <2> DEFINE it == [s \in SUBSET (1..0) |-> Start(what)]
  <2>1. \A s \in SUBSET (1..0) : s = {}
    OBVIOUS
  <2>2. IsWalk(it, what, b, 0)
    BY <2>1 DEF IsWalk
  <2> HIDE DEF it
  <2> QED
    BY <2>2
<1> DEFINE m == least - 1
<1>4. m \in Nat /\ least = m + 1 /\ m \notin Bad
  BY <1>2, <1>3
<1>5. PICK g : IsWalk(g, what, b, m)
  BY <1>4
<1> HIDE DEF m
<1> DEFINE h == [s \in SUBSET (1..(m + 1)) |->
                   IF m + 1 \in s THEN Pass(what, b, g[s \ {m + 1}], b.book[m + 1]) ELSE g[s]]
<1>6. ASSUME NEW s \in SUBSET (1..(m + 1))
      PROVE  h[s] = IF s = {} THEN Start(what) ELSE Pass(what, b, h[s \ {Max(s)}], b.book[Max(s)])
  <2>1. \A t \in SUBSET (1..m) :
          /\ h[t] = g[t]
          /\ g[t] = IF t = {} THEN Start(what) ELSE Pass(what, b, g[t \ {Max(t)}], b.book[Max(t)])
    <3> TAKE t \in SUBSET (1..m)
    <3>1. t \in SUBSET (1..(m + 1)) /\ m + 1 \notin t
      BY <1>4
    <3>2. g[t] = IF t = {} THEN Start(what) ELSE Pass(what, b, g[t \ {Max(t)}], b.book[Max(t)])
      BY <1>5 DEF IsWalk
    <3> QED
      BY <3>1, <3>2
  <2>2. CASE m + 1 \in s
    <3>1. h[s] = Pass(what, b, g[s \ {m + 1}], b.book[m + 1])
      BY <2>2
    <3> HIDE DEF h
    <3>2. Max(s) = m + 1 /\ s \ {m + 1} \in SUBSET (1..m)
      BY <1>4, <2>2, TopIs
    <3> QED
      BY <2>1, <2>2, <3>1, <3>2
  <2>3. CASE m + 1 \notin s /\ s # {}
    <3> HIDE DEF h
    <3>1. s \in SUBSET (1..m) /\ s \ {Max(s)} \in SUBSET (1..m)
      BY <1>4, <2>3, LowIs
    <3> QED
      BY <2>1, <2>3, <3>1
  <2>4. CASE s = {}
    <3>1. s \in SUBSET (1..m)
      BY <2>4
    <3> HIDE DEF h
    <3> QED
      BY <2>1, <2>4, <3>1
  <2> QED
    BY <2>2, <2>3, <2>4
<1>7. h = [s \in SUBSET (1..(m + 1)) |-> h[s]]
  OBVIOUS
<1> HIDE DEF h
<1>8. IsWalk(h, what, b, m + 1)
  BY <1>6, <1>7 DEF IsWalk
<1> QED
  BY <1>4, <1>8

\* The value after each of the levels.
LEMMA WalkIs ==
    ASSUME NEW what, NEW b, DOMAIN b.book = 1..Len(b.book), Len(b.book) \in Nat
    PROVE  \E g : /\ g[0] = Start(what)
                  /\ g[Len(b.book)] = IF what = "fill" THEN Walk(b) ELSE Depth(b)
                  /\ \A i \in 1..Len(b.book) : g[i] = Pass(what, b, g[i - 1], b.book[i])
<1> DEFINE N == Len(b.book)
           it == CHOOSE it : IsWalk(it, what, b, N)
<1>1. N \in Nat /\ DOMAIN b.book = 1..N
  OBVIOUS
<1>2. (IF what = "fill" THEN Walk(b) ELSE Depth(b)) = it[1..N]
  <2>1. CASE what = "fill"
    BY <1>1, <2>1 DEF Walk, FoldLeft, MapThenFoldSet, IsWalk, Pass, Start
  <2>2. CASE what # "fill"
    BY <1>1, <2>2 DEF Depth, FoldLeft, MapThenFoldSet, IsWalk, Pass, Start
  <2> QED
    BY <2>1, <2>2
<1>3. IsWalk(it, what, b, N)
  BY <1>1, WalkExists
<1> HIDE DEF it
<1> DEFINE g == [i \in 0..N |-> it[1..i]]
<1>4. g[0] = Start(what) /\ g[N] = it[1..N]
  <2>1. 1..0 = {} /\ {} \in SUBSET (1..N)
    OBVIOUS
  <2>2. it[{}] = Start(what)
    BY <1>3, <2>1 DEF IsWalk
  <2> QED
    BY <1>1, <2>1, <2>2
<1>5. ASSUME NEW i \in 1..N PROVE g[i] = Pass(what, b, g[i - 1], b.book[i])
  <2> DEFINE m == i - 1
  <2>1. m \in Nat /\ i = m + 1 /\ 1..i \in SUBSET (1..N) /\ i \in 1..i /\ g[i] = it[1..i] /\ g[i - 1] = it[1..m]
    BY <1>1
  <2> HIDE DEF m, g
  <2>2. Max(1..i) = i /\ (1..i) \ {i} = 1..m
    BY <2>1, TopIs
  <2>3. it[1..i] = Pass(what, b, it[(1..i) \ {Max(1..i)}], b.book[Max(1..i)])
    BY <1>3, <2>1 DEF IsWalk
  <2> QED
    BY <2>1, <2>2, <2>3
<1> HIDE DEF g
<1> QED
  BY <1>2, <1>4, <1>5
LEMMA MinIs ==
    ASSUME NEW a \in Nat, NEW b \in Nat
    PROVE  Min({a, b}) = IF a <= b THEN a ELSE b
<1> DEFINE m == IF a <= b THEN a ELSE b
<1>1. m \in {a, b} /\ \A y \in {a, b} : m <= y
  OBVIOUS
<1>2. \A x \in {a, b} : (\A y \in {a, b} : x <= y) => x = m
  OBVIOUS
<1> HIDE DEF m
<1>3. Min({a, b}) = m
  BY <1>1, <1>2 DEF Min
<1> QED
  BY <1>3 DEF m

LEMMA TimesGrows ==
    ASSUME NEW n \in Nat, NEW x \in Nat, NEW y \in Nat, x <= y
    PROVE  n * x <= n * y
<1>1. y - x \in Nat /\ y = x + (y - x)
  OBVIOUS
<1>2. n * (y - x) \in Nat
  BY <1>1
<1>3. n * y = n * x + n * (y - x)
  BY <1>1
<1>4. n * x \in Nat /\ n * y \in Nat
  OBVIOUS
<1> QED
  BY <1>2, <1>3, <1>4

\* A walk that has filled w where d was on offer.
Fair(b, w, d) ==
    /\ d \in Nat /\ w.filled \in Nat /\ w.notional \in Nat
    /\ w.filled <= b.quantity /\ w.filled <= d
    /\ b.side = "buy" => w.notional <= b.limit * w.filled
    /\ b.side = "sell" => w.notional >= b.limit * w.filled

LEMMA FairStep ==
    ASSUME NEW b \in Paper, NEW level \in Level, NEW w, NEW d, Fair(b, w, d)
    PROVE  Fair(b, Pass("fill", b, w, level), Pass("depth", b, d, level))
<1>1. /\ b.quantity \in Nat /\ b.limit \in Nat /\ b.side \in {"buy", "sell"}
      /\ level.price \in Nat /\ level.quantity \in Nat
  BY DEF Paper, Level
<1>2. CASE ~Fillable(b, level)
  BY <1>1, <1>2 DEF Pass, Fair
<1>3. CASE Fillable(b, level) /\ ~(w.filled < b.quantity)
  BY <1>1, <1>3 DEF Pass, Fair
<1>4. CASE Fillable(b, level) /\ w.filled < b.quantity
  <2> DEFINE take == Min({b.quantity - w.filled, level.quantity})
             more == [filled |-> w.filled + take, notional |-> w.notional + take * level.price]
  <2>1. b.quantity - w.filled \in Nat
    BY <1>1, <1>4 DEF Fair
  <2>2. take \in Nat /\ take <= b.quantity - w.filled /\ take <= level.quantity
    BY <1>1, <2>1, MinIs
  <2>3. /\ Pass("fill", b, w, level) = more
        /\ Pass("depth", b, d, level) = d + level.quantity
    BY <1>4 DEF Pass, Take
  <2> HIDE DEF take
  <2>4. take * level.price \in Nat /\ take * b.limit \in Nat
    BY <1>1, <2>2
  <2>5. b.limit * (w.filled + take) = b.limit * w.filled + take * b.limit
    BY <1>1, <2>2 DEF Fair
  <2>6. b.limit * w.filled \in Nat
    BY <1>1 DEF Fair
  <2>7. CASE b.side = "buy"
    <3>1. take * level.price <= take * b.limit
      BY <1>1, <1>4, <2>2, <2>7, TimesGrows DEF Fillable
    <3>2. w.notional + take * level.price <= b.limit * (w.filled + take)
      BY <2>4, <2>5, <2>6, <2>7, <3>1 DEF Fair
    <3> QED
      BY <1>1, <2>1, <2>2, <2>3, <2>4, <2>7, <3>2 DEF Fair
  <2>8. CASE b.side = "sell"
    <3>1. take * level.price >= take * b.limit
      BY <1>1, <1>4, <2>2, <2>8, TimesGrows DEF Fillable
    <3>2. w.notional + take * level.price >= b.limit * (w.filled + take)
      BY <2>4, <2>5, <2>6, <2>8, <3>1 DEF Fair
    <3> QED
      BY <1>1, <2>1, <2>2, <2>3, <2>4, <2>8, <3>2 DEF Fair
  <2> QED
    BY <1>1, <2>7, <2>8
<1> QED
  BY <1>2, <1>3, <1>4

\* What is filled is within the quantity, the depth and the limit.
LEMMA FillIsFair ==
    ASSUME NEW b \in Paper
    PROVE  Fair(b, ModelFill(b), Depth(b))
<1> DEFINE N == Len(b.book)
<1>1. b.book \in Seq(Level) /\ DOMAIN b.book = 1..N /\ N \in Nat /\ \A i \in 1..N : b.book[i] \in Level
  BY DEF Paper
<1>2. PICK g : /\ g[0] = NoFill /\ g[N] = Walk(b)
               /\ \A i \in 1..N : g[i] = Pass("fill", b, g[i - 1], b.book[i])
  <2>1. \E g : /\ g[0] = Start("fill") /\ g[N] = IF "fill" = "fill" THEN Walk(b) ELSE Depth(b)
               /\ \A i \in 1..N : g[i] = Pass("fill", b, g[i - 1], b.book[i])
    BY <1>1, WalkIs
  <2> QED
    BY <2>1 DEF Start
<1>3. PICK h : /\ h[0] = 0 /\ h[N] = Depth(b)
               /\ \A i \in 1..N : h[i] = Pass("depth", b, h[i - 1], b.book[i])
  <2>1. ASSUME NEW what, what = "depth"
        PROVE  \E h : /\ h[0] = 0 /\ h[N] = Depth(b)
                      /\ \A i \in 1..N : h[i] = Pass(what, b, h[i - 1], b.book[i])
    <3>1. \E h : /\ h[0] = Start(what) /\ h[N] = IF what = "fill" THEN Walk(b) ELSE Depth(b)
                 /\ \A i \in 1..N : h[i] = Pass(what, b, h[i - 1], b.book[i])
      BY <1>1, WalkIs
    <3> QED
      BY <2>1, <3>1 DEF Start
  <2> QED
    BY <2>1
<1> HIDE DEF N
<1>4. b.quantity \in Nat /\ b.limit \in Nat
  BY DEF Paper
<1>5. \A d \in Nat : Fair(b, NoFill, d)
  BY <1>4 DEF Fair, NoFill
<1>6. \A i \in 0..N : Fair(b, g[i], h[i])
  <2> DEFINE Bad == {i \in 0..N : ~Fair(b, g[i], h[i])}
  <2>1. SUFFICES ASSUME Bad # {} PROVE FALSE
    OBVIOUS
  <2>2. PICK i \in Bad : \A j \in Bad : i <= j
    <3>1. Bad \subseteq Nat
      BY <1>1
    <3> HIDE DEF Bad
    <3> QED
      BY <2>1, <3>1, LeastNatural
  <2>3. i # 0
    BY <1>2, <1>3, <1>5, <2>2
  <2>4. i \in 1..N /\ i - 1 \in 0..N /\ i - 1 \notin Bad
    BY <1>1, <2>2, <2>3
  <2>5. Fair(b, g[i - 1], h[i - 1])
    BY <2>4
  <2>6. Fair(b, g[i], h[i])
    BY <1>1, <1>2, <1>3, <2>4, <2>5, FairStep
  <2> QED
    BY <2>2, <2>6
<1>7. Fair(b, Walk(b), Depth(b)) /\ Depth(b) \in Nat
  <2>1. N \in 0..N
    BY <1>1
  <2>2. Fair(b, g[N], h[N])
    BY <1>6, <2>1
  <2> QED
    BY <1>2, <1>3, <2>2 DEF Fair
<1>8. ModelFill(b) = NoFill \/ ModelFill(b) = Walk(b)
  BY DEF ModelFill
<1> QED
  BY <1>5, <1>7, <1>8

-----------------------------------------------------------------------------
(* Answers *)

\* What a row says of the call it answers; of a paper fill and of a severity that
\* was stated, nothing but the call decides.
Says(m, c) ==
    /\ <<m.sem, m.body, m.refs>> = <<c.sem, Hashed(c), c.refs>>
    /\ {note[1] : note \in m.notes} = Notes(c)
    /\ c.kind = "paper" => m.derived = [fill |-> ModelFill(c.body), status |-> FillStatus(c.body, ModelFill(c.body)),
                                         freshness |-> Freshness(c.body)]
    /\ c.kind = "reconciliation" /\ c.body.severity # "" => m.derived.severity = c.body.severity

LEMMA MaterialSays == ASSUME NEW c, NEW n PROVE Says(Material(c, n), c)
<1> DEFINE m == Material(c, n)
<1>1. <<m.sem, m.body, m.refs>> = <<c.sem, Hashed(c), c.refs>> /\ m.derived = Derived(c)
  BY DEF Material
<1>2. {note[1] : note \in m.notes} = Notes(c)
  <2> DEFINE runs == IF c.own THEN n ELSE 1
             notes == Notes(c)
  <2>1. m.notes = notes \X {runs}
    BY DEF Material
  <2> HIDE DEF m, runs, notes
  <2>2. \A note \in notes \X {runs} : note[1] \in notes
    OBVIOUS
  <2>3. \A x \in notes : <<x, runs>> \in notes \X {runs} /\ <<x, runs>>[1] = x
    OBVIOUS
  <2>4. {note[1] : note \in notes \X {runs}} = notes
    BY <2>2, <2>3
  <2> QED
    BY <2>1, <2>4 DEF notes
<1>3. c.kind = "paper" => Derived(c) = [fill |-> ModelFill(c.body), status |-> FillStatus(c.body, ModelFill(c.body)),
                                        freshness |-> Freshness(c.body)]
  BY DEF Derived
<1>4. c.kind = "reconciliation" /\ c.body.severity # "" => Derived(c).severity = c.body.severity
  BY DEF Derived
<1> HIDE DEF m
<1> QED
  BY <1>1, <1>2, <1>3, <1>4 DEF Says, m

\* A call is answered with a row that says what it said.
Honest(a) ==
    a.call.kind \in HashedKinds =>
        a.call \in Calls /\ a.row \in DOMAIN records /\ Says(records[a.row].material, a.call)
AnswersInv == \A a \in answers : Honest(a)

LEMMA AnswersStep ==
    ASSUME RecordsInv, AnswersInv, [EvidenceNext]_evidenceVars, EvidenceAssumption
    PROVE  AnswersInv'
<1>1. CASE UNCHANGED <<records, answers>>
  BY <1>1 DEF AnswersInv, Honest, Says
<1>2. ASSUME NEW c \in Calls, NEW n, records' = Append(records, NewRow(c, n)),
             answers' = answers \cup {[call |-> c, row |-> Len(records) + 1]}
      PROVE  AnswersInv'
  <2>1. /\ DOMAIN records = 1..Len(records) /\ Len(records) \in Nat
        /\ DOMAIN records' = 1..(Len(records) + 1)
        /\ records'[Len(records) + 1] = NewRow(c, n)
        /\ \A i \in 1..Len(records) : records'[i] = records[i]
    BY <1>2, AppendIs DEF RecordsInv
  <2>2. ASSUME NEW a \in answers PROVE Honest(a)'
    <3>1. Honest(a)
      BY DEF AnswersInv
    <3>2. a.call.kind \in HashedKinds => a.row \in DOMAIN records' /\ records'[a.row] = records[a.row]
      BY <2>1, <3>1 DEF Honest
    <3> QED
      BY <3>1, <3>2 DEF Honest
  <2>3. ASSUME NEW a, a.call = c, a.row = Len(records) + 1 PROVE Honest(a)'
    <3>1. records'[a.row].material = Material(c, n)
      BY <2>1, <2>3 DEF NewRow
    <3>2. Says(records'[a.row].material, a.call)
      BY <2>3, <3>1, MaterialSays
    <3> QED
      BY <2>1, <2>3, <3>2 DEF Honest
  <2>4. \A a \in answers' : a \in answers \/ (a.call = c /\ a.row = Len(records) + 1)
    BY <1>2
  <2> QED
    BY <2>2, <2>3, <2>4 DEF AnswersInv
<1>3. ASSUME NEW c \in Calls, NEW i \in DOMAIN records, UNCHANGED records,
             answers' = answers \cup {[call |-> c, row |-> i]},
             c.kind \in HashedKinds => \E n : records[i].material = Material(c, n)
      PROVE  AnswersInv'
  <2>1. ASSUME NEW a, a.call = c, a.row = i PROVE Honest(a)'
    <3>1. CASE c.kind \in HashedKinds
      <4>1. PICK n : records[i].material = Material(c, n)
        BY <1>3, <3>1
      <4>2. Says(records[i].material, c)
        BY <4>1, MaterialSays
      <4> QED
        BY <1>3, <2>1, <4>2 DEF Honest, Says
    <3>2. CASE c.kind \notin HashedKinds
      BY <2>1, <3>2 DEF Honest
    <3> QED
      BY <3>1, <3>2
  <2>2. \A a \in answers' : a \in answers \/ (a.call = c /\ a.row = i)
    BY <1>3
  <2>3. \A a \in answers : Honest(a)'
    BY <1>3 DEF AnswersInv, Honest, Says
  <2> QED
    BY <2>1, <2>2, <2>3 DEF AnswersInv
<1>4. CASE \E c \in Calls : Handle(c)
  <2>1. PICK c \in Calls : Handle(c)
    BY <1>4
  <2>2. \/ /\ \E n \in 1..MaxRuns : records' = Append(records, NewRow(c, n))
           /\ answers' = answers \cup {[call |-> c, row |-> Len(records) + 1]}
        \/ \E i \in DOMAIN records :
              /\ UNCHANGED records /\ answers' = answers \cup {[call |-> c, row |-> i]}
              /\ c.kind \in HashedKinds => \E n : records[i].material = Material(c, n)
    BY <2>1, Handled DEF RecordsInv
  <2> QED
    BY <1>2, <1>3, <2>2
<1> QED
  BY <1>1, <1>4 DEF EvidenceNext, RiskNext, PositionsMove, evidenceVars

\* An ok is about what the call said, and a paper fill is no better than its book.
THEOREM AnswersMeanWhatIsStored == EvidenceSpec => []OkMeansStored
<1> USE RiskAssumption, EvidenceAssumption
<1>1. EvidenceInit => RecordsInv /\ AnswersInv
  <2> SUFFICES ASSUME EvidenceInit PROVE RecordsInv /\ AnswersInv
    OBVIOUS
  <2>1. answers = {} /\ records = << >>
    BY DEF EvidenceInit
  <2> QED
    BY <2>1, EmptyIsSeq DEF RecordsInv, AnswersInv
<1>2. RecordsInv /\ AnswersInv /\ [EvidenceNext]_evidenceVars => RecordsInv' /\ AnswersInv'
  BY RecordsStep, AnswersStep
<1>3. RecordsInv /\ AnswersInv => OkMeansStored
  <2> SUFFICES ASSUME RecordsInv, AnswersInv PROVE OkMeansStored
    OBVIOUS
  <2>1. ASSUME NEW a \in answers, a.call.kind = "paper"
        PROVE  LET b == a.call.body
                   d == records[a.row].material.derived
               IN /\ d.fill = ModelFill(b) /\ d.freshness = Freshness(b)
                  /\ d.fill.filled <= Min({b.quantity, Depth(b)})
                  /\ d.status = "full" <=> d.fill.filled = b.quantity
                  /\ b.side = "buy" => d.fill.notional <= b.limit * d.fill.filled
                  /\ b.side = "sell" => d.fill.notional >= b.limit * d.fill.filled
    <3> DEFINE b == a.call.body
               d == records[a.row].material.derived
               fill == ModelFill(b)
    <3>1. a.call \in Calls /\ Says(records[a.row].material, a.call)
      BY <2>1 DEF AnswersInv, Honest, HashedKinds
    <3>2. b \in Paper
      BY <2>1, <3>1 DEF EvidenceAssumption
    <3>3. d.fill = fill /\ d.status = FillStatus(b, fill) /\ d.freshness = Freshness(b)
      BY <2>1, <3>1 DEF Says
    <3>4. Fair(b, fill, Depth(b))
      BY <3>2, FillIsFair
    <3>5. b.quantity \in Nat \ {0}
      BY <3>2 DEF Paper
    <3> HIDE DEF b, d, fill
    <3>6. fill.filled <= Min({b.quantity, Depth(b)})
      BY <3>4, <3>5, MinIs DEF Fair
    <3> QED
      BY <3>3, <3>4, <3>5, <3>6 DEF Fair, FillStatus, b, d, fill
  <2>2. \A a \in answers : a.call.kind \in HashedKinds => Says(records[a.row].material, a.call)
    BY DEF AnswersInv, Honest
  <2> QED
    BY <2>1, <2>2 DEF OkMeansStored, Says, Depth
<1> QED
  BY <1>1, <1>2, <1>3, PTL DEF EvidenceSpec
-----------------------------------------------------------------------------
(* Critical findings *)

\* What raises the three critical codes at a time.
FilledTwice(t) ==
    \E i, j \in Imported(t) : /\ i # j /\ Body(i).fill # "" /\ Body(i).fill = Body(j).fill
                              /\ Body(i).event = "fill" /\ Body(j).event = "fill"
Rejected(t) ==
    \E i \in Imported(t) : /\ Body(i).about # 0
                           /\ Body(Body(i).about).approval \in {"approved_elsewhere", "waived_elsewhere"}
                           /\ Body(i).state = "rejected"

LEMMA CriticalFound ==
    ASSUME NEW t
    PROVE  Codes(t) \cap Critical =
             {x \in Critical : \/ x = "DUPLICATE_FILL" /\ FilledTwice(t)
                               \/ x = "REJECTED_APPROVED_INTENT" /\ Rejected(t)
                               \/ x = "POLICY_WAIVER_BREACH" /\ PolicyWaiverBreach(t)}
<1>1. "DUPLICATE_FILL" \in Codes(t) <=> FilledTwice(t)
  BY DEF Codes, FilledTwice
<1>2. "REJECTED_APPROVED_INTENT" \in Codes(t) <=> Rejected(t)
  BY DEF Codes, Rejected
<1>3. "POLICY_WAIVER_BREACH" \in Codes(t) <=> PolicyWaiverBreach(t)
  BY DEF Codes
<1> QED
  BY <1>1, <1>2, <1>3 DEF Critical
\* What a receipt is about was stored before it.
AboutStored(b) == b.asOf \in Nat /\ (b.about # 0 => b.about \in DOMAIN records)
ReceiptsInv == \A i \in OfKind("external") : AboutStored(Body(i))

\* Rows are kept as they are; new ones may follow.
RowsKept == \A i \in DOMAIN records : i \in DOMAIN records' /\ records'[i] = records[i]

LEMMA FindingsGrow ==
    ASSUME RowsKept, ReceiptsInv, NEW s \in Nat, NEW t \in Nat, s <= t
    PROVE  Codes(s) \cap Critical \subseteq Codes(t)' \cap Critical
<1>1. \A kind : \A i \in OfKind(kind) : i \in OfKind(kind)' /\ Body(i)' = Body(i)
  BY DEF RowsKept, OfKind, Body
<1>2. \A i \in Imported(s) : /\ i \in Imported(t)' /\ Body(i)' = Body(i) /\ AboutStored(Body(i))
  BY <1>1 DEF Imported, ReceiptsInv, AboutStored
<1>3. FilledTwice(s) => FilledTwice(t)'
  BY <1>2 DEF FilledTwice
<1>4. Rejected(s) => Rejected(t)'
  <2> SUFFICES ASSUME NEW i \in Imported(s), Body(i).about # 0,
                      Body(Body(i).about).approval \in {"approved_elsewhere", "waived_elsewhere"},
                      Body(i).state = "rejected"
               PROVE  Rejected(t)'
    BY DEF Rejected
  <2>1. Body(i).about \in DOMAIN records
    BY <1>2 DEF AboutStored
  <2>2. Body(Body(i).about)' = Body(Body(i).about)
    BY <1>2, <2>1 DEF RowsKept, Body
  <2> QED
    BY <1>2, <2>2 DEF Rejected
<1>5. PolicyWaiverBreach(s) => PolicyWaiverBreach(t)'
  BY <1>1 DEF PolicyWaiverBreach
<1>6. Codes(t)' \cap Critical =
        {x \in Critical : \/ x = "DUPLICATE_FILL" /\ FilledTwice(t)'
                          \/ x = "REJECTED_APPROVED_INTENT" /\ Rejected(t)'
                          \/ x = "POLICY_WAIVER_BREACH" /\ PolicyWaiverBreach(t)'}
  <2>1. "DUPLICATE_FILL" \in Codes(t)' <=> FilledTwice(t)'
    BY DEF Codes, FilledTwice
  <2>2. "REJECTED_APPROVED_INTENT" \in Codes(t)' <=> Rejected(t)'
    BY DEF Codes, Rejected
  <2>3. "POLICY_WAIVER_BREACH" \in Codes(t)' <=> PolicyWaiverBreach(t)'
    BY DEF Codes
  <2> QED
    BY <2>1, <2>2, <2>3 DEF Critical
<1> QED
  BY <1>3, <1>4, <1>5, <1>6, CriticalFound
\* A finding is found again, at any time from its own on.
Lasts(i) ==
    /\ Body(i).asOf \in Nat
    /\ \A t \in Nat : Body(i).asOf <= t => records[i].material.derived.codes \cap Critical \subseteq Codes(t)
FindingsInv == ReceiptsInv /\ (\A i \in OfKind("reconciliation") : Lasts(i)) /\ CriticalFindingsStay

LEMMA RowsStand ==
    ASSUME RowsKept, FindingsInv
    PROVE  \A i \in DOMAIN records :
             /\ i \in OfKind("external") => AboutStored(Body(i))'
             /\ i \in OfKind("reconciliation") => Lasts(i)'
<1>1. ASSUME NEW i \in OfKind("external") PROVE AboutStored(Body(i))'
  <2>1. AboutStored(Body(i)) /\ Body(i)' = Body(i)
    BY DEF FindingsInv, ReceiptsInv, RowsKept, Body, OfKind
  <2> QED
    BY <2>1 DEF AboutStored, RowsKept
<1>2. ASSUME NEW i \in OfKind("reconciliation") PROVE Lasts(i)'
  <2>1. Lasts(i) /\ records'[i] = records[i] /\ Body(i)' = Body(i)
    BY DEF FindingsInv, RowsKept, Body, OfKind
  <2>2. ASSUME NEW t \in Nat, Body(i).asOf <= t
        PROVE  records[i].material.derived.codes \cap Critical \subseteq Codes(t)'
    <3>1. Codes(t) \cap Critical \subseteq Codes(t)' \cap Critical
      BY FindingsGrow DEF FindingsInv
    <3> QED
      BY <2>1, <2>2, <3>1 DEF Lasts
  <2> QED
    BY <2>1, <2>2 DEF Lasts
<1> QED
  BY <1>1, <1>2

LEMMA FindingsAppend ==
    ASSUME RecordsInv, FindingsInv, EvidenceAssumption,
           NEW c \in Calls, NEW n, records' = Append(records, NewRow(c, n)),
           c.kind = "external" => AboutIntent(c)
    PROVE  FindingsInv'
<1>1. /\ DOMAIN records = 1..Len(records) /\ Len(records) \in Nat
      /\ DOMAIN records' = 1..(Len(records) + 1)
      /\ records'[Len(records) + 1] = NewRow(c, n)
      /\ \A i \in 1..Len(records) : records'[i] = records[i]
  BY AppendIs DEF RecordsInv
<1>2. RowsKept
  BY <1>1 DEF RowsKept
<1>3. ASSUME NEW k, k = Len(records) + 1
      PROVE  /\ k \in DOMAIN records' /\ records'[k].kind = c.kind /\ Body(k)' = Hashed(c)
             /\ records'[k].material.derived = Derived(c)
             /\ \A i \in DOMAIN records' : i # k => i \in DOMAIN records /\ i < k /\ records'[i] = records[i]
  <2>1. NewRow(c, n).kind = c.kind /\ NewRow(c, n).material.body = Hashed(c) /\ NewRow(c, n).material.derived = Derived(c)
    BY DEF NewRow, Material
  <2> QED
    BY <1>1, <1>3, <2>1 DEF Body
<1>4. PICK k : k = Len(records) + 1
  OBVIOUS
<1>5. c.kind = "external" => AboutStored(c.body)'
  <2> SUFFICES ASSUME c.kind = "external" PROVE AboutStored(c.body)'
    OBVIOUS
  <2>1. c.body.asOf \in Nat
    BY DEF EvidenceAssumption, External
  <2>2. c.body.about # 0 => c.body.about \in DOMAIN records
    BY DEF AboutIntent, OfKind
  <2> QED
    BY <1>2, <2>1, <2>2 DEF AboutStored, RowsKept
<1>6. ASSUME c.kind = "reconciliation"
      PROVE  /\ c.body.asOf \in Nat /\ Hashed(c).asOf = c.body.asOf
             /\ records'[k].material.derived.codes = Codes(c.body.asOf)
  <2>1. c.body.asOf \in Nat
    BY <1>6 DEF EvidenceAssumption
  <2>2. Derived(c).codes = Codes(c.body.asOf) /\ Hashed(c).asOf = c.body.asOf
    BY <1>6 DEF Derived, Hashed
  <2> QED
    BY <1>3, <1>4, <2>1, <2>2
<1>7. ReceiptsInv'
  <2> SUFFICES ASSUME NEW i \in OfKind("external")' PROVE AboutStored(Body(i))'
    BY DEF ReceiptsInv
  <2>1. CASE i = k
    <3>1. c.kind = "external" /\ Body(k)' = c.body
      BY <1>3, <1>4, <2>1 DEF OfKind, Hashed
    <3> QED
      BY <1>5, <2>1, <3>1 DEF AboutStored
  <2>2. CASE i # k
    BY <1>2, <1>3, <1>4, <2>2, RowsStand DEF OfKind
  <2> QED
    BY <2>1, <2>2
<1>8. ASSUME NEW i \in OfKind("reconciliation")' PROVE Lasts(i)'
  <2>1. CASE i = k
    <3>1. c.kind = "reconciliation" /\ Body(i)' = Hashed(c)
      BY <1>3, <1>4, <2>1 DEF OfKind
    <3>2. ASSUME NEW t \in Nat, c.body.asOf <= t
          PROVE  records'[i].material.derived.codes \cap Critical \subseteq Codes(t)'
      <4>1. c.body.asOf \in Nat /\ records'[i].material.derived.codes = Codes(c.body.asOf)
        BY <1>6, <2>1, <3>1
      <4>2. Codes(c.body.asOf) \cap Critical \subseteq Codes(t)' \cap Critical
        BY <1>2, <3>2, <4>1, FindingsGrow DEF FindingsInv
      <4> QED
        BY <4>1, <4>2
    <3>3. c.body.asOf \in Nat
      BY <1>6, <3>1
    <3>4. Body(i)'.asOf = c.body.asOf
      BY <1>6, <3>1
    <3> QED
      BY <3>2, <3>3, <3>4 DEF Lasts
  <2>2. CASE i # k
    BY <1>2, <1>3, <1>4, <2>2, RowsStand DEF OfKind
  <2> QED
    BY <2>1, <2>2
<1>9. CriticalFindingsStay'
  <2> SUFFICES ASSUME NEW i \in OfKind("reconciliation")', NEW j \in OfKind("reconciliation")',
                      i < j, Body(i)'.asOf <= Body(j)'.asOf
               PROVE  records'[i].material.derived.codes \cap Critical \subseteq records'[j].material.derived.codes
    BY DEF CriticalFindingsStay
  <2>1. i # k
    <3>1. i \in DOMAIN records' /\ j \in DOMAIN records'
      BY DEF OfKind
    <3> QED
      BY <1>1, <1>4, <3>1
  <2>2. i \in OfKind("reconciliation") /\ records'[i] = records[i] /\ Body(i)' = Body(i)
    BY <1>3, <1>4, <2>1 DEF OfKind, Body
  <2>3. CASE j # k
    <3>1. j \in OfKind("reconciliation") /\ records'[j] = records[j] /\ Body(j)' = Body(j)
      BY <1>3, <1>4, <2>3 DEF OfKind, Body
    <3> QED
      BY <2>2, <3>1 DEF FindingsInv, CriticalFindingsStay
  <2>4. CASE j = k
    <3>1. c.kind = "reconciliation" /\ Body(j)' = Hashed(c)
      BY <1>3, <1>4, <2>4 DEF OfKind
    <3>2. Lasts(i)
      BY <2>2 DEF FindingsInv
    <3> QED
      BY <1>6, <2>2, <2>4, <3>1, <3>2 DEF Lasts
  <2> QED
    BY <2>3, <2>4
<1> QED
  BY <1>7, <1>8, <1>9 DEF FindingsInv

LEMMA FindingsStep ==
    ASSUME RecordsInv, FindingsInv, [EvidenceNext]_evidenceVars, EvidenceAssumption
    PROVE  FindingsInv'
<1>1. CASE UNCHANGED records
  <2>1. RowsKept
    BY <1>1 DEF RowsKept
  <2>2. \A kind : OfKind(kind)' = OfKind(kind)
    BY <1>1 DEF OfKind
  <2>3. CriticalFindingsStay'
    BY <1>1, <2>2 DEF FindingsInv, CriticalFindingsStay, Body
  <2>4. \A i \in OfKind("external") : AboutStored(Body(i))'
    BY <2>1, RowsStand DEF OfKind
  <2>5. \A i \in OfKind("reconciliation") : Lasts(i)'
    BY <2>1, RowsStand DEF OfKind
  <2> QED
    BY <2>2, <2>3, <2>4, <2>5 DEF FindingsInv, ReceiptsInv
<1>2. CASE \E c \in Calls : Handle(c)
  <2>1. PICK c \in Calls : Handle(c)
    BY <1>2
  <2>2. c.kind = "external" => AboutIntent(c)
    BY <2>1 DEF Handle, PretradeIntentRecord, ApprovalRecord, ExternalReceiptImport, AccountSnapshotImport,
       PaperFillRecord, ReplayArtifactRecord, ReconciliationRecord, AbstentionRecord, InterpretResolution
  <2>3. (\E n : records' = Append(records, NewRow(c, n))) \/ UNCHANGED records
    BY <2>1, Handled DEF RecordsInv
  <2> QED
    BY <1>1, <2>2, <2>3, FindingsAppend
<1> QED
  BY <1>1, <1>2 DEF EvidenceNext, RiskNext, PositionsMove, evidenceVars

\* No critical finding is taken back.
THEOREM CriticalFindingsAreKept == EvidenceSpec => []CriticalFindingsStay
<1> USE RiskAssumption, EvidenceAssumption
<1>1. EvidenceInit => RecordsInv /\ FindingsInv
  <2> SUFFICES ASSUME EvidenceInit PROVE RecordsInv /\ FindingsInv
    OBVIOUS
  <2>1. records = << >> /\ \A kind : OfKind(kind) = {}
    BY DEF EvidenceInit, OfKind
  <2> QED
    BY <2>1, EmptyIsSeq DEF RecordsInv, FindingsInv, ReceiptsInv, CriticalFindingsStay
<1>2. RecordsInv /\ FindingsInv /\ [EvidenceNext]_evidenceVars => RecordsInv' /\ FindingsInv'
  BY RecordsStep, FindingsStep
<1>3. FindingsInv => CriticalFindingsStay
  BY DEF FindingsInv
<1> QED
  BY <1>1, <1>2, <1>3, PTL DEF EvidenceSpec
-----------------------------------------------------------------------------
(* Readiness: a defect that stands when a report is asked for is found by the *)
(* query that looks for it, whenever that is made. *)

\* The query that looks for a defect.
LooksFor(defect) == IF defect = "no_rule" THEN "rule" ELSE defect

EvidenceIs == evidence = [t \in Tables |-> evidence[t]] /\ \A t \in Tables : IsSeq(evidence[t])

LEMMA StandingIsFound ==
    ASSUME EvidenceIs, NEW defect \in Standing, Stands(defect), NEW zone
    PROVE  Answer(LooksFor(defect), zone) \in Nat \ {0}
<1>1. \A t \in Tables : IsFiniteSet(DOMAIN evidence[t])
  <2>1. \A t \in Tables : DOMAIN evidence[t] = 1..Len(evidence[t]) /\ Len(evidence[t]) \in Nat
    BY DEF EvidenceIs, IsSeq
  <2> QED
    BY <2>1, FS_Interval
<1>2. IsFiniteSet(MissingRule) /\ IsFiniteSet(MissingSnapshot) /\ IsFiniteSet(OpenCritical)
  <2>1. /\ MissingRule \subseteq DOMAIN evidence["forecasts"]
        /\ MissingSnapshot \subseteq DOMAIN evidence["decisions"]
        /\ OpenCritical \subseteq DOMAIN evidence["records"]
    BY DEF MissingRule, MissingSnapshot, Entries, OpenCritical
  <2> QED
    BY <1>1, <2>1, FS_Subset DEF Tables
<1>3. IsFiniteSet(Contradiction)
  <2>1. IsFiniteSet(RowsOf("edges"))
    <3> DEFINE at == [i \in DOMAIN evidence["edges"] |-> evidence["edges"][i]]
    <3>1. at \in Surjection(DOMAIN evidence["edges"], RowsOf("edges"))
      BY DEF Surjection, RowsOf
    <3>2. IsFiniteSet(DOMAIN evidence["edges"])
      BY <1>1 DEF Tables
    <3> HIDE DEF at
    <3> QED
      BY <3>1, <3>2, FS_Surjection
  <2>2. IsFiniteSet(RowsOf("edges") \X RowsOf("edges"))
    BY <2>1, FS_Product
  <2>3. Contradiction \subseteq RowsOf("edges") \X RowsOf("edges")
    BY DEF Contradiction
  <2> QED
    BY <2>2, <2>3, FS_Subset
<1>4. CASE defect = "no_rule"
  <2>1. MissingRule # {}
    BY <1>4 DEF Stands
  <2>2. Cardinality(MissingRule) \in Nat \ {0}
    BY <1>2, <2>1, FS_CardinalityType, FS_EmptySet
  <2> QED
    BY <1>4, <2>2 DEF LooksFor, Answer, Findings
<1>5. CASE defect = "snapshot"
  <2>1. MissingSnapshot # {}
    BY <1>5 DEF Stands, Findings
  <2>2. Cardinality(MissingSnapshot) \in Nat \ {0}
    BY <1>2, <2>1, FS_CardinalityType, FS_EmptySet
  <2> QED
    BY <1>5, <2>2 DEF LooksFor, Answer, Findings
<1>6. CASE defect = "contradiction"
  <2>1. Contradiction # {}
    BY <1>6 DEF Stands, Findings
  <2>2. Cardinality(Contradiction) \in Nat \ {0}
    BY <1>3, <2>1, FS_CardinalityType, FS_EmptySet
  <2> QED
    BY <1>6, <2>2 DEF LooksFor, Answer, Findings
<1>7. CASE defect = "critical"
  <2>1. OpenCritical # {}
    BY <1>7 DEF Stands, OpenCritical, RowsOf
  <2>2. Cardinality(OpenCritical) \in Nat \ {0}
    BY <1>2, <2>1, FS_CardinalityType, FS_EmptySet
  <2> QED
    BY <1>7, <2>2 DEF LooksFor, Answer
<1> QED
  BY <1>4, <1>5, <1>6, <1>7 DEF Standing
\* Every table only grows, so a standing defect goes on standing.
LEMMA WriteKeepsDefects ==
    ASSUME EvidenceIs, ReadinessAssumption, NEW t \in Tables, NEW row,
           evidence' = [evidence EXCEPT ![t] = Append(@, row)]
    PROVE  EvidenceIs' /\ \A defect \in Standing : Stands(defect) => Stands(defect)'
<1>1. ASSUME NEW u \in Tables
      PROVE  /\ IsSeq(evidence'[u])
             /\ \A i \in DOMAIN evidence[u] : i \in DOMAIN evidence'[u] /\ evidence'[u][i] = evidence[u][i]
  <2>1. evidence'[u] = IF u = t THEN Append(evidence[u], row) ELSE evidence[u]
    BY DEF EvidenceIs
  <2>2. IsSeq(evidence[u])
    BY DEF EvidenceIs
  <2>3. CASE u = t
    <3>1. /\ DOMAIN evidence[u] = 1..Len(evidence[u]) /\ Len(evidence[u]) \in Nat
          /\ IsSeq(evidence'[u]) /\ DOMAIN evidence'[u] = 1..(Len(evidence[u]) + 1)
          /\ \A i \in 1..Len(evidence[u]) : evidence'[u][i] = evidence[u][i]
      BY <2>1, <2>2, <2>3, AppendIs
    <3> QED
      BY <3>1
  <2>4. CASE u # t
    BY <2>1, <2>2, <2>4
  <2> QED
    BY <2>3, <2>4
<1>2. EvidenceIs'
  BY <1>1 DEF EvidenceIs
<1>3. \A u \in Tables : RowsOf(u) \subseteq RowsOf(u)'
  BY <1>1 DEF RowsOf
<1>4. {"forecasts", "decisions", "edges", "records"} \subseteq Tables
  BY DEF Tables
<1>5. Stands("no_rule") => Stands("no_rule")'
  <2> SUFFICES ASSUME NEW f \in MissingRule, ~evidence["forecasts"][f].rule PROVE Stands("no_rule")'
    BY DEF Stands
  <2>1. f \in DOMAIN evidence'["forecasts"] /\ evidence'["forecasts"][f] = evidence["forecasts"][f]
    BY <1>1, <1>4 DEF MissingRule
  <2>2. f \in MissingRule'
    BY <2>1 DEF MissingRule
  <2> QED
    BY <2>1, <2>2 DEF Stands
<1>6. Stands("snapshot") => Stands("snapshot")'
  <2> SUFFICES ASSUME NEW d \in MissingSnapshot PROVE Stands("snapshot")'
    BY DEF Stands, Findings
  <2>1. d \in DOMAIN evidence'["decisions"] /\ evidence'["decisions"][d] = evidence["decisions"][d]
    BY <1>1, <1>4 DEF MissingSnapshot, Entries
  <2>2. d \in MissingSnapshot'
    BY <2>1 DEF MissingSnapshot, Entries, Decision
  <2> QED
    BY <2>2 DEF Stands, Findings
<1>7. Stands("contradiction") => Stands("contradiction")'
  BY <1>3, <1>4 DEF Stands, Findings, Contradiction
<1>8. Stands("critical") => Stands("critical")'
  BY <1>3, <1>4 DEF Stands
<1> QED
  BY <1>2, <1>5, <1>6, <1>7, <1>8 DEF Standing

\* What a reader has read: each query that looks for a defect of the beginning found some.
Reading(rep) ==
    /\ rep = [bars |-> rep.bars, zone |-> rep.zone, answers |-> rep.answers, since |-> rep.since]
    /\ rep.bars \in Bars /\ rep.zone \in Zones /\ rep.since \subseteq Standing
    /\ \A defect \in rep.since : Stands(defect)
    /\ IsSeq(rep.answers) /\ Len(rep.answers) <= Len(Queries)
    /\ \A defect \in rep.since : \A i \in DOMAIN rep.answers :
         Queries[i] = LooksFor(defect) => rep.answers[i] \in Nat \ {0}
\* What is yet to be written is for the tables.
WritingIs == IsSeq(writing) /\ \A i \in DOMAIN writing : writing[i].table \in Tables
ReadyInv ==
    /\ EvidenceIs /\ WritingIs
    /\ report = [r \in Readers |-> report[r]]
    /\ \A r \in Readers : report[r] # Nil => Reading(report[r])
    /\ ReadyIsEarned
LEMMA ReadingKeeps ==
    ASSUME NEW rep, Reading(rep), \A defect \in Standing : Stands(defect) => Stands(defect)'
    PROVE  Reading(rep)'
  BY DEF Reading

LEMMA QueryFinds ==
    ASSUME ReadyInv, NEW r \in Readers, Query(r)
    PROVE  Reading(report'[r])
<1> DEFINE old == report[r]
           new == Append(old.answers, Answer(Queries[Len(old.answers) + 1], old.zone))
<1>1. Reading(old)
  BY DEF ReadyInv, Query
<1>2. report'[r] = [old EXCEPT !.answers = new]
  BY DEF ReadyInv, Query
<1>3. /\ report'[r].bars = old.bars /\ report'[r].zone = old.zone
      /\ report'[r].since = old.since /\ report'[r].answers = new
  <2>1. old = [bars |-> old.bars, zone |-> old.zone, answers |-> old.answers, since |-> old.since]
    BY <1>1 DEF Reading
  <2>2. [old EXCEPT !.answers = new] = [bars |-> old.bars, zone |-> old.zone, answers |-> new, since |-> old.since]
    BY <2>1
  <2> QED
    BY <1>2, <2>2
<1>4. /\ DOMAIN old.answers = 1..Len(old.answers) /\ Len(old.answers) \in Nat
      /\ IsSeq(new) /\ Len(new) = Len(old.answers) + 1 /\ DOMAIN new = 1..(Len(old.answers) + 1)
      /\ new[Len(old.answers) + 1] = Answer(Queries[Len(old.answers) + 1], old.zone)
      /\ \A i \in 1..Len(old.answers) : new[i] = old.answers[i]
  BY <1>1, AppendIs DEF Reading
<1>5. Len(old.answers) < Len(Queries)
  BY DEF Query
<1>6. Len(Queries) \in Nat
  BY DEF Queries
<1>7. ASSUME NEW defect \in old.since, NEW i \in DOMAIN new, Queries[i] = LooksFor(defect)
      PROVE  new[i] \in Nat \ {0}
  <2>1. CASE i \in 1..Len(old.answers)
    BY <1>1, <1>4, <1>7, <2>1 DEF Reading
  <2>2. CASE i = Len(old.answers) + 1
    <3>1. defect \in Standing /\ Stands(defect)
      BY <1>1, <1>7 DEF Reading
    <3>2. Answer(LooksFor(defect), old.zone) \in Nat \ {0}
      BY <3>1, StandingIsFound DEF ReadyInv
    <3> QED
      BY <1>4, <1>7, <2>2, <3>2
  <2> QED
    BY <1>4, <2>1, <2>2
<1> HIDE DEF new
<1>8. Len(new) <= Len(Queries)
  BY <1>4, <1>5, <1>6
<1>9. report'[r] = [bars |-> report'[r].bars, zone |-> report'[r].zone,
                    answers |-> report'[r].answers, since |-> report'[r].since]
  <2>1. old = [bars |-> old.bars, zone |-> old.zone, answers |-> old.answers, since |-> old.since]
    BY <1>1 DEF Reading
  <2>2. [old EXCEPT !.answers = new] = [bars |-> old.bars, zone |-> old.zone, answers |-> new, since |-> old.since]
    BY <2>1
  <2> QED
    BY <1>2, <1>3, <2>2 DEF new
<1> QED
  BY <1>1, <1>3, <1>4, <1>7, <1>8, <1>9 DEF Reading

LEMMA ReadyMeans ==
    ASSUME NEW a, NEW bars, Status(a, bars) = "ready", bars \in Bars, ReadinessAssumption
    PROVE  /\ DOMAIN bars = Criteria
           /\ bars["audit_readiness"] => \A check \in Blocking : a[check] = 0
           /\ a["critical"] <= bars["reconciliation_cleanliness"]
<1>1. DOMAIN bars = Criteria /\ \A c \in Criteria : Passes(a, c, bars[c]) = TRUE
  BY DEF Status
<1>2. Passes(a, "audit_readiness", bars["audit_readiness"]) = TRUE
  BY <1>1 DEF Criteria
<1>3. Passes(a, "reconciliation_cleanliness", bars["reconciliation_cleanliness"]) = TRUE
  BY <1>1 DEF Criteria
<1>4. bars["audit_readiness"] \in BOOLEAN
  BY <1>1 DEF ReadinessAssumption, Criteria
<1>5. Passes(a, "audit_readiness", bars["audit_readiness"]) = (AuditReady(a) = bars["audit_readiness"])
  BY DEF Passes
<1>6. Passes(a, "reconciliation_cleanliness", bars["reconciliation_cleanliness"])
        = (a["critical"] <= bars["reconciliation_cleanliness"])
  BY DEF Passes
<1>7. AuditReady(a) => \A check \in Blocking : a[check] = 0
  BY DEF AuditReady
<1>8. a["critical"] <= bars["reconciliation_cleanliness"]
  BY <1>3, <1>6
<1>9. bars["audit_readiness"] => AuditReady(a)
  BY <1>2, <1>4, <1>5
<1> QED
  BY <1>1, <1>7, <1>8, <1>9
\* The report handed in is judged on answers that know of every defect it began with.
LEMMA HandedInIsEarned ==
    ASSUME ReadyInv, ReadinessAssumption, NEW r \in Readers, HandIn(r)
    PROVE  ReadyIsEarned'
<1> DEFINE rep == report[r]
           a == [q \in Range(Queries) |-> rep.answers[CHOOSE i \in DOMAIN Queries : Queries[i] = q]]
           g == [status |-> Status(a, rep.bars), bars |-> rep.bars,
                 zone |-> rep.zone, trend |-> a["trend"], since |-> rep.since]
<1>1. Reading(rep) /\ Len(rep.answers) = Len(Queries)
  BY DEF ReadyInv, HandIn
<1>2. given' = given \cup {g}
  BY DEF HandIn
<1>3. ASSUME NEW defect \in rep.since PROVE a[LooksFor(defect)] \in Nat \ {0}
  <2> DEFINE i == CHOOSE i \in DOMAIN Queries : Queries[i] = LooksFor(defect)
  <2>1. defect \in Standing
    BY <1>1 DEF Reading
  <2>2. \E k \in DOMAIN Queries : Queries[k] = LooksFor(defect)
    <3>1. Queries[3] = "rule" /\ Queries[4] = "snapshot" /\ Queries[8] = "contradiction" /\ Queries[13] = "critical"
      BY DEF Queries
    <3>2. {3, 4, 8, 13} \subseteq DOMAIN Queries
      BY DEF Queries
    <3> QED
      BY <2>1, <3>1, <3>2 DEF Standing, LooksFor
  <2>3. i \in DOMAIN Queries /\ Queries[i] = LooksFor(defect)
    BY <2>2
  <2>4. LooksFor(defect) \in Range(Queries) /\ a[LooksFor(defect)] = rep.answers[i]
    BY <2>3 DEF Range
  <2>5. DOMAIN rep.answers = DOMAIN Queries
    <3>1. DOMAIN rep.answers = 1..Len(rep.answers)
      BY <1>1 DEF Reading, IsSeq
    <3>2. DOMAIN Queries = 1..Len(Queries)
      BY DEF Queries
    <3> QED
      BY <1>1, <3>1, <3>2
  <2> HIDE DEF i
  <2> QED
    BY <1>1, <2>3, <2>4, <2>5 DEF Reading
<1> HIDE DEF a
<1>4. g.status = Status(a, rep.bars) /\ g.bars = rep.bars /\ g.since = rep.since
  OBVIOUS
<1>5. ASSUME g.status = "ready"
      PROVE  /\ DOMAIN g.bars = Criteria
             /\ g.bars["audit_readiness"] => g.since \subseteq {"critical"}
             /\ g.bars["reconciliation_cleanliness"] = 0 => "critical" \notin g.since
  <2>1. /\ DOMAIN rep.bars = Criteria
        /\ rep.bars["audit_readiness"] => \A check \in Blocking : a[check] = 0
        /\ a["critical"] <= rep.bars["reconciliation_cleanliness"]
    BY <1>1, <1>4, <1>5, ReadyMeans DEF Reading
  <2>2. rep.since \subseteq Standing
    BY <1>1 DEF Reading
  <2>3. \A defect \in Standing \ {"critical"} : LooksFor(defect) \in Blocking
    BY DEF Standing, LooksFor, Blocking
  <2>4. rep.bars["audit_readiness"] => rep.since \subseteq {"critical"}
    BY <1>3, <2>1, <2>2, <2>3
  <2>5. "critical" \in rep.since => a["critical"] \in Nat \ {0}
    BY <1>3 DEF LooksFor
  <2>6. rep.bars["reconciliation_cleanliness"] = 0 => "critical" \notin rep.since
    BY <2>1, <2>5
  <2> QED
    BY <1>4, <2>1, <2>4, <2>6
<1> HIDE DEF g
<1> QED
  BY <1>2, <1>5 DEF ReadyInv, ReadyIsEarned

LEMMA WritingKeeps ==
    ASSUME ReadyInv, ReadinessAssumption, WriteRow
    PROVE  WritingIs' /\ EvidenceIs' /\ \A defect \in Standing : Stands(defect) => Stands(defect)'
<1>1. PICK S : writing \in Seq(S)
  BY DEF ReadyInv, WritingIs, IsSeq
<1>2. writing # << >> /\ writing' = Tail(writing)
  BY DEF WriteRow
<1>3. writing' \in Seq(S) /\ \A i \in DOMAIN writing' : i + 1 \in DOMAIN writing /\ writing'[i] = writing[i + 1]
  BY <1>1, <1>2
<1>4. WritingIs'
  BY <1>3 DEF ReadyInv, WritingIs, IsSeq
<1>5. Head(writing).table \in Tables
  <2>1. 1 \in DOMAIN writing /\ Head(writing) = writing[1]
    BY <1>1, <1>2
  <2> QED
    BY <2>1 DEF ReadyInv, WritingIs
<1>6. evidence' = [evidence EXCEPT ![Head(writing).table] = Append(@, Head(writing).row)]
  BY DEF WriteRow
<1> QED
  BY <1>4, <1>5, <1>6, WriteKeepsDefects DEF ReadyInv

LEMMA ReadyStep ==
    ASSUME ReadyInv, ReadinessAssumption, [ReadinessNext]_readinessVars
    PROVE  ReadyInv'
<1>1. CASE WriteRow
  <2>1. report' = report /\ given' = given
    BY <1>1 DEF WriteRow
  <2>2. \A rep : Reading(rep) => Reading(rep)'
    BY <1>1, WritingKeeps, ReadingKeeps
  <2> QED
    BY <1>1, <2>1, <2>2, WritingKeeps DEF ReadyInv, ReadyIsEarned
<1>2. ASSUME UNCHANGED <<evidence, writing>>
      PROVE  EvidenceIs' /\ WritingIs' /\ \A rep : Reading(rep) <=> Reading(rep)'
  <2>1. EvidenceIs' /\ WritingIs'
    BY <1>2 DEF ReadyInv, EvidenceIs, WritingIs
  <2>2. \A defect \in Standing : Stands(defect)' <=> Stands(defect)
    <3>1. evidence' = evidence
      BY <1>2
    <3>2. Stands("no_rule")' <=> Stands("no_rule")
      BY <3>1 DEF Stands, MissingRule
    <3>3. Stands("snapshot")' <=> Stands("snapshot")
      BY <3>1 DEF Stands, Findings, MissingSnapshot, Entries, Decision
    <3>4. Stands("contradiction")' <=> Stands("contradiction")
      BY <3>1 DEF Stands, Findings, Contradiction, RowsOf
    <3>5. Stands("critical")' <=> Stands("critical")
      BY <3>1 DEF Stands, RowsOf
    <3> QED
      BY <3>2, <3>3, <3>4, <3>5 DEF Standing
  <2> QED
    BY <2>1, <2>2 DEF Reading
<1>3. ASSUME NEW r \in Readers, NEW bars \in Bars, NEW zone \in Zones, Ask(r, bars, zone) PROVE ReadyInv'
  <2> DEFINE new == [bars |-> bars, zone |-> zone, answers |-> << >>, since |-> {d \in Standing : Stands(d)}]
  <2>1. report' = [report EXCEPT ![r] = new] /\ UNCHANGED <<evidence, writing, given>>
    BY <1>3 DEF Ask
  <2>2. Reading(new)
    <3>1. Len(<< >>) <= Len(Queries)
      BY DEF Queries
    <3> QED
      BY <3>1, EmptyIsSeq DEF Reading
  <2> HIDE DEF new
  <2>3. report' = [x \in Readers |-> report'[x]] /\ \A x \in Readers : report'[x] = IF x = r THEN new ELSE report[x]
    BY <2>1 DEF ReadyInv
  <2>4. \A x \in Readers : report'[x] # Nil => Reading(report'[x])
    BY <2>2, <2>3 DEF ReadyInv
  <2> QED
    BY <1>2, <2>1, <2>3, <2>4 DEF ReadyInv, ReadyIsEarned
<1>4. ASSUME NEW r \in Readers, Query(r) PROVE ReadyInv'
  <2>1. UNCHANGED <<evidence, writing, given>>
    BY <1>4 DEF Query
  <2>2. report' = [x \in Readers |-> report'[x]] /\ \A x \in Readers : x # r => report'[x] = report[x]
    BY <1>4 DEF Query, ReadyInv
  <2>3. \A x \in Readers : report'[x] # Nil => Reading(report'[x])
    BY <1>4, <2>2, QueryFinds DEF ReadyInv
  <2> QED
    BY <1>2, <2>1, <2>2, <2>3 DEF ReadyInv, ReadyIsEarned
<1>5. ASSUME NEW r \in Readers, HandIn(r) PROVE ReadyInv'
  <2>1. UNCHANGED <<evidence, writing>> /\ report' = [report EXCEPT ![r] = Nil]
    BY <1>5 DEF HandIn
  <2>2. report' = [x \in Readers |-> report'[x]] /\ \A x \in Readers : report'[x] = IF x = r THEN Nil ELSE report[x]
    BY <2>1 DEF ReadyInv
  <2> QED
    BY <1>2, <1>5, <2>1, <2>2, HandedInIsEarned DEF ReadyInv
<1>6. CASE UNCHANGED readinessVars
  BY <1>2, <1>6 DEF ReadyInv, readinessVars, ReadyIsEarned
<1> QED
  BY <1>1, <1>3, <1>4, <1>5, <1>6 DEF ReadinessNext

LEMMA ReadyStart == ReadinessInit => ReadyInv
<1> USE ReadinessAssumption
<1> SUFFICES ASSUME ReadinessInit PROVE ReadyInv
  OBVIOUS
<1>1. EvidenceIs
  BY EmptyIsSeq DEF ReadinessInit, EvidenceIs
<1>2. writing \in Seq(Range(writing)) /\ \A i \in DOMAIN writing : writing[i].table \in Tables
  <2>1. /\ Len(writing) \in Nat /\ writing = [i \in 1..Len(writing) |-> writing[i]]
        /\ \A i \in DOMAIN writing : writing[i].table \in Tables
    BY DEF ReadinessInit, ReadinessAssumption
  <2>2. PICK n \in Nat : n = Len(writing)
    BY <2>1
  <2>3. writing \in [1..n -> Range(writing)]
    BY <2>1, <2>2 DEF Range
  <2> QED
    BY <2>1, <2>3
<1>3. WritingIs
  BY <1>2 DEF WritingIs, IsSeq
<1> QED
  BY <1>1, <1>3 DEF ReadinessInit, ReadyInv, ReadyIsEarned

\* No report grants autonomy over a defect that stood when it was asked for.
THEOREM AutonomyIsEarned == ReadinessSpec => []ReadyIsEarned
<1> USE ReadinessAssumption
<1>1. ReadinessInit => ReadyInv
  BY ReadyStart
<1>2. ReadyInv /\ [ReadinessNext]_readinessVars => ReadyInv'
  BY ReadyStep
<1>3. ReadyInv => ReadyIsEarned
  BY DEF ReadyInv
<1> QED
  BY <1>1, <1>2, <1>3, PTL DEF ReadinessSpec
-----------------------------------------------------------------------------
(* The windows of the trend *)

LEMMA LowestIs ==
    ASSUME NEW S, S \subseteq Nat, S # {}
    PROVE  Min(S) \in S /\ \A x \in S : Min(S) <= x
BY LeastNatural DEF Min

LEMMA HighestIs ==
    ASSUME NEW S, S \subseteq Nat, S # {}, IsFiniteSet(S)
    PROVE  Max(S) \in S /\ \A x \in S : x <= Max(S)
<1> DEFINE n == Cardinality(S)
<1>1. n \in Nat /\ ExistsBijection(1..n, S)
  BY FS_CardinalityType
<1> HIDE DEF n
<1>2. PICK f : f \in Bijection(1..n, S)
  BY <1>1 DEF ExistsBijection
<1>3. /\ \A i \in 1..n : f[i] \in Nat
      /\ \A x \in S : \E i \in 1..n : f[i] = x
  BY <1>2 DEF Bijection, Injection, Surjection
<1> DEFINE Bounded(m) == \E b \in Nat : \A i \in 1..n : i <= m => f[i] <= b
           Bad == {m \in Nat : ~Bounded(m)}
<1>4. Bad = {}
  <2> SUFFICES ASSUME Bad # {} PROVE FALSE
    OBVIOUS
  <2>1. PICK m \in Bad : \A k \in Bad : m <= k
    BY LeastNatural
  <2> HIDE DEF Bounded
  <2>2. m # 0
    <3>1. \A i \in 1..n : i <= 0 => f[i] <= 0
      BY <1>1
    <3>2. Bounded(0)
      BY <3>1 DEF Bounded
    <3> QED
      BY <2>1, <3>2
  <2>3. m \in Nat /\ m - 1 \in Nat /\ Bounded(m - 1)
    <3>1. m \in Nat /\ m - 1 \in Nat /\ ~(m <= m - 1)
      BY <2>1, <2>2
    <3> QED
      BY <2>1, <3>1
  <2>4. PICK b \in Nat : \A i \in 1..n : i <= m - 1 => f[i] <= b
    BY <2>3 DEF Bounded
  <2>5. CASE m \in 1..n
    <3>1. f[m] \in Nat /\ b + f[m] \in Nat /\ b <= b + f[m] /\ f[m] <= b + f[m]
      BY <1>3, <2>5
    <3>2. ASSUME NEW i \in 1..n, i <= m PROVE f[i] <= b + f[m]
      <4>1. f[i] \in Nat /\ (i = m \/ i <= m - 1)
        BY <1>1, <1>3, <2>3, <3>2
      <4>2. i <= m - 1 => f[i] <= b
        BY <2>4
      <4> QED
        BY <3>1, <4>1, <4>2
    <3>3. Bounded(m)
      BY <3>1, <3>2 DEF Bounded
    <3> QED
      BY <2>1, <3>3
  <2>6. CASE m \notin 1..n
    <3>1. \A i \in 1..n : i <= m => i <= m - 1
      BY <1>1, <2>3, <2>6
    <3>2. Bounded(m)
      BY <2>4, <3>1 DEF Bounded
    <3> QED
      BY <2>1, <3>2
  <2> QED
    BY <2>5, <2>6
<1>5. PICK b \in Nat : \A i \in 1..n : i <= n => f[i] <= b
  <2>1. Bounded(n)
    BY <1>1, <1>4
  <2> QED
    BY <2>1 DEF Bounded
<1>6. \A x \in S : x <= b
  BY <1>1, <1>3, <1>5
<1> DEFINE below == {k \in Nat : b - k \in S}
<1>7. below \subseteq Nat /\ \A x \in S : b - x \in below
  <2> SUFFICES ASSUME NEW x \in S PROVE b - x \in below
    OBVIOUS
  <2>1. b - x \in Nat /\ b - (b - x) = x
    BY <1>6
  <2> QED
    BY <2>1
<1>8. PICK k \in below : \A j \in below : k <= j
  BY <1>7, LeastNatural
<1>9. b - k \in S /\ \A x \in S : x <= b - k
  <2>1. \A x \in S : k <= b - x
    BY <1>7, <1>8
  <2>2. b - k \in S /\ k \in Nat
    BY <1>8
  <2> QED
    BY <2>1, <2>2
<1> QED
  BY <1>9 DEF Max

\* The edges of windows are moments: they may be before the epoch.
Moment == [second : Int, fraction : Nat]

LEMMA OldestIs ==
    ASSUME NEW times, times \subseteq Instant, times # {}
    PROVE  Oldest(times) \in times /\ \A u \in times : ~Earlier(u, Oldest(times))
<1> DEFINE seconds == {t.second : t \in times}
           first == Min(seconds)
           fractions == {u.fraction : u \in {t \in times : t.second = first}}
           least == Min(fractions)
<1>1. seconds \subseteq Nat /\ seconds # {} /\ \A t \in times : t.second \in seconds
  BY DEF Instant
<1>2. first \in seconds /\ \A x \in seconds : first <= x
  BY <1>1, LowestIs
<1> HIDE DEF first
<1>3. fractions \subseteq Nat /\ fractions # {} /\ \A t \in times : t.second = first => t.fraction \in fractions
  BY <1>2 DEF Instant
<1>4. least \in fractions /\ \A x \in fractions : least <= x
  BY <1>3, LowestIs
<1> HIDE DEF least
<1>5. PICK t \in times : t.second = first /\ t.fraction = least
  BY <1>4
<1>6. ASSUME NEW u \in times PROVE ~Earlier(u, t)
  <2>1. /\ u.second \in Nat /\ u.fraction \in Nat /\ t.second \in Nat /\ t.fraction \in Nat
        /\ first <= u.second
    BY <1>1, <1>2 DEF Instant
  <2>2. u.second = first => least <= u.fraction
    BY <1>3, <1>4
  <2> QED
    BY <1>5, <2>1, <2>2 DEF Earlier
<1> QED
  BY <1>6 DEF Oldest

LEMMA RangeIsFinite ==
    ASSUME NEW f, IsFiniteSet(DOMAIN f), f = [x \in DOMAIN f |-> f[x]]
    PROVE  IsFiniteSet(Range(f))
<1>1. f \in Surjection(DOMAIN f, Range(f))
  BY DEF Surjection, Range
<1> QED
  BY <1>1, FS_Surjection

LEMMA NewestIs ==
    ASSUME NEW times, times \subseteq Instant, times # {}, IsFiniteSet(times)
    PROVE  Newest(times) \in times /\ \A u \in times : ~Earlier(Newest(times), u)
<1> DEFINE seconds == {t.second : t \in times}
           last == Max(seconds)
           ofLast == {t \in times : t.second = last}
           fractions == {u.fraction : u \in ofLast}
           most == Max(fractions)
<1>1. seconds \subseteq Nat /\ seconds # {} /\ \A t \in times : t.second \in seconds
  BY DEF Instant
<1>2. IsFiniteSet(seconds)
  <2>1. IsFiniteSet(Range([t \in times |-> t.second]))
    BY RangeIsFinite
  <2>2. Range([t \in times |-> t.second]) = seconds
    BY DEF Range
  <2> QED
    BY <2>1, <2>2
<1>3. last \in seconds /\ \A x \in seconds : x <= last
  BY <1>1, <1>2, HighestIs
<1> HIDE DEF last
<1>4. fractions \subseteq Nat /\ fractions # {} /\ \A t \in times : t.second = last => t.fraction \in fractions
  BY <1>3 DEF Instant
<1>5. IsFiniteSet(fractions)
  <2>1. IsFiniteSet(ofLast)
    BY FS_Subset
  <2> HIDE DEF ofLast
  <2>2. IsFiniteSet(Range([t \in ofLast |-> t.fraction]))
    BY <2>1, RangeIsFinite
  <2>3. Range([t \in ofLast |-> t.fraction]) = fractions
    BY DEF Range
  <2> QED
    BY <2>2, <2>3
<1>6. most \in fractions /\ \A x \in fractions : x <= most
  BY <1>4, <1>5, HighestIs
<1> HIDE DEF most
<1>7. PICK t \in times : t.second = last /\ t.fraction = most
  BY <1>6
<1>8. ASSUME NEW u \in times PROVE ~Earlier(t, u)
  <2>1. /\ u.second \in Nat /\ u.fraction \in Nat /\ t.second \in Nat /\ t.fraction \in Nat
        /\ u.second <= last
    BY <1>1, <1>3, <1>7 DEF Instant
  <2>2. u.second = last => u.fraction <= most
    BY <1>4, <1>6
  <2> QED
    BY <1>7, <2>1, <2>2 DEF Earlier
<1> QED
  BY <1>8 DEF Newest

\* Where the k-th edge is, and that it lies before those of lower number by k times the span.
LEMMA EdgeIs ==
    ASSUME ReadinessAssumption, NEW times, times \subseteq Instant, times # {}, IsFiniteSet(times), NEW k \in Nat
    PROVE  /\ Edge(times, k) \in Moment
           /\ Edge(times, k).second = Newest(times).second + 1 - k * Span
           /\ Edge(times, k).fraction = Newest(times).fraction
<1>1. PICK n \in Instant : n = Newest(times)
  BY NewestIs
<1>2. PICK back \in Nat : back = k * Span
  BY DEF ReadinessAssumption
<1>3. n = [second |-> n.second, fraction |-> n.fraction] /\ n.second \in Nat /\ n.fraction \in Nat
  BY DEF Instant
<1>4. End(times) = [second |-> n.second + 1, fraction |-> n.fraction]
  BY <1>1, <1>3 DEF End, Shifted
<1>5. Edge(times, k) = [second |-> n.second + 1 + (-back), fraction |-> n.fraction]
  BY <1>2, <1>4 DEF Edge, Shifted
<1>6. n.second + 1 + (-back) = n.second + 1 - back /\ n.second + 1 + (-back) \in Int
  BY <1>3
<1> QED
  BY <1>1, <1>2, <1>3, <1>5, <1>6 DEF Moment

LEMMA EdgesFall ==
    ASSUME ReadinessAssumption, NEW times, times \subseteq Instant, times # {}, IsFiniteSet(times),
           NEW i \in Nat, NEW k \in Nat, i < k
    PROVE  Edge(times, k).second + Span <= Edge(times, i).second
<1>1. Span \in Nat /\ Newest(times).second \in Nat
  BY NewestIs DEF Instant, ReadinessAssumption
<1>2. i * Span + Span <= k * Span /\ i * Span \in Nat /\ k * Span \in Nat
  <2>1. i + 1 \in Nat /\ i + 1 <= k
    OBVIOUS
  <2>2. Span * (i + 1) <= Span * k
    BY <1>1, <2>1, TimesGrows
  <2>3. Span * (i + 1) = i * Span + Span /\ Span * k = k * Span /\ i * Span \in Nat /\ k * Span \in Nat
    BY <1>1
  <2> QED
    BY <2>2, <2>3
<1>3. /\ Edge(times, k).second = Newest(times).second + 1 - k * Span
      /\ Edge(times, i).second = Newest(times).second + 1 - i * Span
  BY EdgeIs
<1>4. PICK a \in Nat, b \in Nat : a = i * Span /\ b = k * Span
  BY <1>2
<1> QED
  BY <1>1, <1>2, <1>3, <1>4

\* The windows are P panes between the edges; without a cut they reach the oldest time.
LEMMA PanesAre ==
    ASSUME ReadinessAssumption, NEW times, times \subseteq Instant, times # {}, IsFiniteSet(times)
    PROVE  \E P \in 1..MaxWindows :
             /\ Windows(times).panes = [k \in 1..P |-> [from |-> Edge(times, k), to |-> Edge(times, k - 1)]]
             /\ ~Windows(times).truncated => ~Earlier(Oldest(times), Edge(times, P))
<1>1. Span \in Nat \ {0} /\ MaxWindows \in Nat \ {0}
  BY DEF ReadinessAssumption
<1> DEFINE enough == {k \in 0..(MaxWindows + 1) : k > MaxWindows \/ ~Earlier(Oldest(times), Edge(times, k))}
           K == Min(enough)
           P == Min({MaxWindows, K})
<1>2. enough \subseteq Nat /\ MaxWindows + 1 \in enough
  BY <1>1
<1>3. K \in enough
  BY <1>2, LowestIs
<1>4. 0 \notin enough
  <2>1. /\ Oldest(times) \in Instant /\ Newest(times) \in Instant
        /\ ~Earlier(Newest(times), Oldest(times))
    BY OldestIs, NewestIs
  <2>2. Edge(times, 0).second = Newest(times).second + 1 - 0 * Span
    BY EdgeIs
  <2>3. Oldest(times).second < Edge(times, 0).second
    BY <1>1, <2>1, <2>2 DEF Earlier, Instant
  <2>4. Earlier(Oldest(times), Edge(times, 0))
    BY <2>3 DEF Earlier
  <2> QED
    BY <1>1, <2>4
<1>5. K \in 1..(MaxWindows + 1) /\ (K <= MaxWindows => ~Earlier(Oldest(times), Edge(times, K)))
  BY <1>1, <1>3, <1>4
<1>6. P = IF MaxWindows <= K THEN MaxWindows ELSE K
  <2>1. {MaxWindows, K} \subseteq Nat /\ {MaxWindows, K} # {}
    BY <1>1, <1>5
  <2>2. P \in {MaxWindows, K} /\ P <= MaxWindows /\ P <= K
    BY <2>1, LowestIs
  <2> HIDE DEF P, K
  <2> QED
    BY <1>1, <1>5, <2>2
<1>7. /\ Windows(times).panes = [k \in 1..P |-> [from |-> Edge(times, k), to |-> Edge(times, k - 1)]]
      /\ Windows(times).truncated = (K > MaxWindows)
  BY DEF Windows
<1> HIDE DEF enough, K, P
<1>8. P \in 1..MaxWindows /\ (~(K > MaxWindows) => P = K /\ K <= MaxWindows)
  BY <1>1, <1>5, <1>6
<1> QED
  BY <1>5, <1>7, <1>8

-----------------------------------------------------------------------------
(* Times as they are printed *)

\* What is printed begins with the clock on the wall.
LEMMA WallClock ==
    ASSUME NEW zone \in Zone, NEW t \in Moment
    PROVE  /\ Offset(zone, t.second) \in {zone.standard, zone.standard + zone.saving}
           /\ zone.standard \in Int /\ zone.saving \in Nat /\ Offset(zone, t.second) \in Int
           /\ Printed(zone, t)[1] = t.second + Offset(zone, t.second) /\ Printed(zone, t)[1] \in Int
<1>1. zone.standard \in Int /\ zone.saving \in Nat
  BY DEF Zone
<1>2. Offset(zone, t.second) \in {zone.standard, zone.standard + zone.saving}
  BY <1>1 DEF Offset
<1>3. Printed(zone, t)[1] = t.second + Offset(zone, t.second)
  BY DEF Printed
<1> QED
  BY <1>1, <1>2, <1>3 DEF Moment

LEMMA SortedByClock ==
    ASSUME NEW x, NEW y, x[1] \in Int, y[1] \in Int
    PROVE  /\ x[1] < y[1] => SortsBefore(x, y)
           /\ SortsBefore(x, y) => x[1] <= y[1]
<1>1. ASSUME x[1] < y[1] PROVE SortsBefore(x, y)
  <2>1. 1 \in 1..5 /\ \A j \in 1..5 : j < 1 => x[j] = y[j]
    OBVIOUS
  <2> QED
    BY <1>1, <2>1 DEF SortsBefore
<1>2. ASSUME SortsBefore(x, y) PROVE x[1] <= y[1]
  <2>1. PICK i \in 1..5 : x[i] < y[i] /\ \A j \in 1..5 : j < i => x[j] = y[j]
    BY <1>2 DEF SortsBefore
  <2>2. CASE i = 1
    BY <2>1, <2>2
  <2>3. CASE i # 1
    <3>1. 1 \in 1..5 /\ 1 < i
      BY <2>3
    <3> QED
      BY <2>1, <3>1
  <2> QED
    BY <2>2, <2>3
<1> QED
  BY <1>1, <1>2

\* Within a second only a fraction against none, in UTC, is out of order.
LEMMA SameSecond ==
    ASSUME NEW zone \in Zone, NEW t \in Moment, NEW u \in Moment, t.second = u.second,
           SortsBefore(Printed(zone, t), Printed(zone, u))
    PROVE  t.fraction < u.fraction \/ (Offset(zone, t.second) = 0 /\ u.fraction = 0 /\ t.fraction > 0)
<1> DEFINE o == Offset(zone, t.second)
           x == Printed(zone, t)
           y == Printed(zone, u)
           Mark(m) == IF m.fraction = 0 THEN Sign(o) ELSE 2
<1>1. o \in Int /\ t.fraction \in Nat /\ u.fraction \in Nat
  BY WallClock DEF Moment
<1>2. /\ x[1] = y[1] /\ x[2] = Mark(t) /\ y[2] = Mark(u)
      /\ x[3] = t.fraction /\ y[3] = u.fraction /\ x[4] = y[4] /\ x[5] = y[5]
      /\ x[1] \in Int /\ x[4] \in Int /\ x[5] \in Int
  BY WallClock DEF Printed, Sign
<1>3. PICK i \in 1..5 : x[i] < y[i]
  BY DEF SortsBefore
<1> HIDE DEF x, y
<1>4. i = 2 \/ i = 3
  BY <1>2, <1>3
<1>5. CASE i = 3
  BY <1>2, <1>3, <1>5
<1>6. CASE i = 2
  <2>1. Mark(t) < Mark(u)
    BY <1>2, <1>3, <1>6
  <2>2. Sign(o) \in {0, 1, 3} /\ (Sign(o) = 3 => o = 0)
    BY <1>1 DEF Sign
  <2> HIDE DEF o
  <2>3. t.fraction < u.fraction \/ (o = 0 /\ u.fraction = 0 /\ t.fraction > 0)
    BY <1>1, <2>1, <2>2
  <2> QED
    BY <2>3 DEF o
<1> QED
  BY <1>4, <1>5, <1>6

\* What is printed between two clocks that run the same way is between them.
LEMMA OutOfOrder ==
    ASSUME NEW zone \in Zone, NEW from \in Moment, NEW to \in Moment, from.second < to.second,
           Printed(zone, to)[1] <= Printed(zone, from)[1]
    PROVE  /\ to.second - from.second <= zone.saving
           /\ Offset(zone, from.second) > Offset(zone, to.second)
<1>1. from.second \in Int /\ to.second \in Int
  BY DEF Moment
<1> QED
  BY <1>1, WallClock

\* What the first part of ScoresCountOnce asks of a trend.
CountsOnce(zone, t) ==
    \A s \in DOMAIN t.rows :
        LET holders == {k \in DOMAIN t.windows : s \in t.windows[k]}
        IN Cardinality(holders) = 1 \/ (holders = {} /\ MayMiss(zone, t, t.rows[s]))

\* The windows of P that a time is in.
Holding(zone, times, P, t) ==
    {k \in 1..P : InPane(zone, [from |-> Edge(times, k), to |-> Edge(times, k - 1)], t)}

\* A time is in at most one window, and in one if it is printed between the outer edges.
LEMMA OneWindow ==
    ASSUME ReadinessAssumption, NEW zone \in Zones, NEW times, times \subseteq Instant, times # {}, IsFiniteSet(times),
           NEW P \in Nat \ {0}, NEW t \in Instant
    PROVE  \/ Cardinality(Holding(zone, times, P, t)) = 1
           \/ /\ Holding(zone, times, P, t) = {}
              /\ \/ ~SortsBefore(Printed(zone, t), Printed(zone, Edge(times, 0)))
                 \/ SortsBefore(Printed(zone, t), Printed(zone, Edge(times, P)))
<1> DEFINE Before(k) == SortsBefore(Printed(zone, t), Printed(zone, Edge(times, k)))
           Clock(k) == Printed(zone, Edge(times, k))[1]
           holders == Holding(zone, times, P, t)
<1>1. zone \in Zone /\ zone.saving < Span /\ Span \in Nat
  BY DEF ReadinessAssumption
<1>2. holders \subseteq 1..P /\ \A k \in 1..P : k \in holders <=> ~Before(k) /\ Before(k - 1)
  BY DEF InPane, Holding
<1>3. \A k \in Nat : Clock(k) \in Int
  BY <1>1, EdgeIs, WallClock
<1>4. ASSUME NEW i \in Nat, NEW k \in Nat, i < k PROVE Clock(k) < Clock(i)
  <2>1. Edge(times, k).second + Span <= Edge(times, i).second
    BY <1>4, EdgesFall
  <2>2. Edge(times, k) \in Moment /\ Edge(times, i) \in Moment
    BY EdgeIs
  <2>3. /\ Clock(k) <= Edge(times, k).second + zone.standard + zone.saving
        /\ Clock(i) >= Edge(times, i).second + zone.standard
        /\ zone.standard \in Int /\ zone.saving \in Nat
    <3>1. Edge(times, k).second \in Int /\ Edge(times, i).second \in Int
      BY <2>2 DEF Moment
    <3>2. zone.standard \in Int /\ zone.saving \in Nat
      BY <1>1, <2>2, WallClock
    <3>3. \A j \in {i, k} : /\ Clock(j) = Edge(times, j).second + Offset(zone, Edge(times, j).second)
                            /\ Offset(zone, Edge(times, j).second) \in {zone.standard, zone.standard + zone.saving}
      BY <1>1, <2>2, WallClock
    <3> HIDE DEF Clock
    <3> QED
      BY <3>1, <3>2, <3>3
  <2>4. Edge(times, k).second \in Int /\ Edge(times, i).second \in Int /\ Clock(k) \in Int /\ Clock(i) \in Int
    BY <1>3, <2>2 DEF Moment
  <2> HIDE DEF Clock
  <2> QED
    BY <1>1, <2>1, <2>3, <2>4
<1>5. Printed(zone, t)[1] \in Int
  <2>1. t \in Moment
    BY DEF Instant, Moment
  <2> QED
    BY <1>1, <2>1, WallClock
<1>6. ASSUME NEW i \in holders, NEW k \in holders, i < k PROVE FALSE
  <2> HIDE DEF holders
  <2>1. i \in 1..P /\ k \in 1..P /\ i \in Nat /\ k - 1 \in Nat /\ i <= k - 1
    BY <1>2, <1>6
  <2>2. ~Before(i) /\ Before(k - 1)
    BY <1>2, <1>6, <2>1
  <2>3. i < k - 1
    <3> HIDE DEF Before
    <3>1. i # k - 1
      BY <2>2
    <3> QED
      BY <2>1, <3>1
  <2>4. Clock(k - 1) < Clock(i)
    <3> HIDE DEF Clock
    <3> QED
      BY <1>4, <2>1, <2>3
  <2>5. Printed(zone, t)[1] <= Clock(k - 1) /\ ~(Printed(zone, t)[1] < Clock(i))
    BY <1>3, <1>5, <2>1, <2>2, SortedByClock
  <2> HIDE DEF Clock
  <2> QED
    BY <1>3, <1>5, <2>1, <2>4, <2>5
<1>7. ASSUME Before(0), ~Before(P) PROVE \E k \in 1..P : k \in holders
  <2> DEFINE reached == {k \in Nat : ~Before(k)}
  <2>1. PICK k \in reached : \A j \in reached : k <= j
    BY <1>7, LeastNatural
  <2>2. k # 0 /\ k <= P
    BY <1>7, <2>1
  <2>3. k - 1 \in Nat /\ k - 1 \notin reached
    BY <2>1, <2>2
  <2>4. Before(k - 1) /\ ~Before(k)
    BY <2>1, <2>3
  <2>5. k \in 1..P
    BY <2>1, <2>2
  <2> QED
    BY <1>2, <2>4, <2>5
<1> HIDE DEF Before, Clock
<1>8. ASSUME NEW k \in holders PROVE Cardinality(holders) = 1
  <2>1. holders \subseteq Nat
    BY DEF Holding
  <2> HIDE DEF holders
  <2>2. holders = {k}
    BY <1>6, <1>8, <2>1
  <2> QED
    BY <2>2, FS_Singleton
<1>9. \A k \in 1..P : k \in holders => holders # {}
  OBVIOUS
<1> HIDE DEF holders
<1>10. CASE holders # {}
  BY <1>8, <1>10 DEF holders
<1>11. CASE holders = {}
  <2>1. ~Before(0) \/ Before(P)
    BY <1>7, <1>11
  <2> QED
    BY <1>11, <2>1 DEF Before, holders
<1> QED
  BY <1>10, <1>11

LEMMA TrendIs ==
    ASSUME ReadinessAssumption, NEW zone \in Zones, NEW rows, IsFiniteSet(rows), NEW at, at \in [rows -> Instant],
           NEW t, t = [rows |-> at, truncated |-> Windows(Range(at)).truncated, panes |-> Windows(Range(at)).panes,
                       windows |-> [k \in DOMAIN Windows(Range(at)).panes |->
                                      {s \in rows : InPane(zone, Windows(Range(at)).panes[k], at[s])}]]
    PROVE  CountsOnce(zone, t)
<1> DEFINE times == Range(at)
           panes == Windows(times).panes
<1>1. /\ DOMAIN t.rows = rows /\ t.rows = at /\ t.truncated = Windows(times).truncated /\ t.panes = panes
      /\ DOMAIN t.windows = DOMAIN panes
      /\ \A k \in DOMAIN panes : t.windows[k] = {s \in rows : InPane(zone, panes[k], at[s])}
  OBVIOUS
<1> SUFFICES ASSUME NEW s \in rows
             PROVE  LET holders == {k \in DOMAIN t.windows : s \in t.windows[k]}
                    IN Cardinality(holders) = 1 \/ (holders = {} /\ MayMiss(zone, t, at[s]))
  BY <1>1 DEF CountsOnce
<1>2. times \subseteq Instant /\ times # {} /\ at[s] \in times /\ IsFiniteSet(times)
  BY RangeIsFinite DEF Range
<1> HIDE DEF times
<1>3. PICK P \in 1..MaxWindows :
        /\ panes = [k \in 1..P |-> [from |-> Edge(times, k), to |-> Edge(times, k - 1)]]
        /\ ~Windows(times).truncated => ~Earlier(Oldest(times), Edge(times, P))
  BY <1>2, PanesAre
<1>4. P \in Nat \ {0} /\ zone \in Zone
  BY <1>3 DEF ReadinessAssumption
<1> DEFINE m == at[s]
           newest == Edge(times, 0)
           oldest == Edge(times, P)
           holders == {k \in 1..P : InPane(zone, panes[k], m)}
<1>5. {k \in DOMAIN t.windows : s \in t.windows[k]} = holders
  <2>1. DOMAIN panes = 1..P
    BY <1>3
  <2> HIDE DEF panes
  <2> QED
    BY <1>1, <2>1
<1>6. t.panes # << >> /\ t.panes[1].to = newest /\ t.panes[Len(t.panes)].from = oldest
  <2>1. panes[1] = [from |-> Edge(times, 1), to |-> Edge(times, 0)] /\ panes[P] = [from |-> Edge(times, P), to |-> Edge(times, P - 1)]
    BY <1>3, <1>4
  <2>2. Len(panes) = P /\ panes # << >>
    BY <1>3, <1>4
  <2> HIDE DEF panes
  <2> QED
    BY <1>1, <2>1, <2>2
<1>7. m \in Moment /\ newest \in Moment /\ oldest \in Moment
  <2>1. m \in Moment
    BY <1>2 DEF Instant, Moment
  <2>2. newest \in Moment /\ oldest \in Moment
    BY <1>2, <1>4, EdgeIs
  <2> QED
    BY <2>1, <2>2
<1>8. /\ m.second \in Int /\ m.fraction \in Nat /\ newest.second \in Int /\ newest.fraction \in Nat
      /\ oldest.second \in Int /\ oldest.fraction \in Nat
  BY <1>7 DEF Moment
<1>9. ASSUME ~SortsBefore(Printed(zone, m), Printed(zone, newest)) PROVE MayMiss(zone, t, m)
  <2>1. m.second < newest.second
    <3>1. ~Earlier(Newest(times), m) /\ newest.second = Newest(times).second + 1 - 0 * Span /\ Newest(times) \in Instant
      BY <1>2, NewestIs, EdgeIs
    <3>2. Newest(times).second \in Int /\ ~(Newest(times).second < m.second) /\ 0 * Span = 0
      BY <3>1 DEF Instant, Earlier, ReadinessAssumption
    <3> QED
      BY <1>8, <3>1, <3>2
  <2>2. Printed(zone, newest)[1] <= Printed(zone, m)[1]
    BY <1>4, <1>7, <1>9, WallClock, SortedByClock
  <2> HIDE DEF m, newest
  <2>3. newest.second - m.second <= zone.saving /\ Offset(zone, m.second) > Offset(zone, newest.second)
    BY <1>4, <1>7, <2>1, <2>2, OutOfOrder
  <2> QED
    BY <1>6, <2>1, <2>3 DEF MayMiss
<1>10. ASSUME SortsBefore(Printed(zone, m), Printed(zone, oldest)) PROVE MayMiss(zone, t, m)
  <2>1. CASE Earlier(m, oldest)
    <3>1. Earlier(Oldest(times), oldest)
      <4>1. Oldest(times) \in Instant /\ ~Earlier(m, Oldest(times))
        BY <1>2, OldestIs
      <4> HIDE DEF m, oldest
      <4> QED
        BY <1>8, <2>1, <4>1 DEF Earlier, Instant
    <3>2. t.truncated
      BY <1>1, <1>3, <3>1
    <3> QED
      BY <1>6, <2>1, <3>2 DEF MayMiss
  <2>2. CASE oldest.second < m.second
    <3>1. Printed(zone, m)[1] <= Printed(zone, oldest)[1]
      BY <1>4, <1>7, <1>10, WallClock, SortedByClock
    <3> HIDE DEF m, oldest
    <3>2. m.second - oldest.second <= zone.saving /\ Offset(zone, oldest.second) > Offset(zone, m.second)
      BY <1>4, <1>7, <2>2, <3>1, OutOfOrder
    <3> QED
      BY <1>6, <2>2, <3>2 DEF MayMiss
  <2>3. CASE oldest.second = m.second /\ ~Earlier(m, oldest)
    <3> HIDE DEF m, oldest
    <3>1. m.fraction < oldest.fraction \/ (Offset(zone, m.second) = 0 /\ oldest.fraction = 0 /\ m.fraction > 0)
      BY <1>4, <1>7, <1>10, <2>3, SameSecond
    <3>2. ~(m.fraction < oldest.fraction)
      BY <2>3 DEF Earlier
    <3> QED
      BY <1>6, <2>3, <3>1, <3>2 DEF MayMiss
  <2> QED
    BY <1>8, <2>1, <2>2, <2>3 DEF Earlier
<1>11. \/ Cardinality(holders) = 1
       \/ /\ holders = {}
          /\ \/ ~SortsBefore(Printed(zone, m), Printed(zone, newest))
             \/ SortsBefore(Printed(zone, m), Printed(zone, oldest))
  <2>1. m \in Instant
    BY <1>2
  <2>2. holders = Holding(zone, times, P, m)
    <3>1. \A k \in 1..P : panes[k] = [from |-> Edge(times, k), to |-> Edge(times, k - 1)]
      BY <1>3
    <3> HIDE DEF panes, m
    <3> QED
      BY <3>1 DEF Holding
  <2> HIDE DEF m, holders
  <2> QED
    BY <1>2, <1>4, <2>1, <2>2, OneWindow
<1> HIDE DEF m, newest, oldest, holders
<1> QED
  BY <1>5, <1>9, <1>10, <1>11 DEF m

-----------------------------------------------------------------------------
(* The diagnostics *)

\* What the diagnostics need of the rows.
ScoresAreNamed ==
    \A s \in DOMAIN evidence["scores"] : ScoreRow(evidence["scores"][s], Len(evidence["forecasts"]))

LEMMA TablesAre ==
    ASSUME EvidenceIs, NEW t \in Tables
    PROVE  DOMAIN evidence[t] = 1..Len(evidence[t]) /\ Len(evidence[t]) \in Nat /\ IsFiniteSet(DOMAIN evidence[t])
<1>1. DOMAIN evidence[t] = 1..Len(evidence[t]) /\ Len(evidence[t]) \in Nat
  BY DEF EvidenceIs, IsSeq
<1> QED
  BY <1>1, FS_Interval

\* The rows of the joins, without the joins.
Or(S) == IF S = {} THEN {Nil} ELSE S
DecisionsOn(f) == {d \in DOMAIN evidence["decisions"] : Decision(d).forecast = f}
ScoresOf(f) == {s \in DOMAIN evidence["scores"] : evidence["scores"][s].forecast = f}

LEMMA JoinedAre ==
    /\ \A j \in Joined : /\ j.forecast \in DOMAIN evidence["forecasts"]
                         /\ j.decision \in Or(DecisionsOn(j.forecast)) /\ j.score \in Or(ScoresOf(j.forecast))
                         /\ j = [forecast |-> j.forecast, decision |-> j.decision, score |-> j.score]
    /\ \A f \in DOMAIN evidence["forecasts"] : \A d \in Or(DecisionsOn(f)), s \in Or(ScoresOf(f)) :
         [forecast |-> f, decision |-> d, score |-> s] \in Joined
<1>1. Joined = UNION {{[forecast |-> f, decision |-> d, score |-> s] : d \in Or(DecisionsOn(f)), s \in Or(ScoresOf(f))} :
                f \in DOMAIN evidence["forecasts"]}
  BY DEF Joined, Or, DecisionsOn, ScoresOf
<1> HIDE DEF Joined
<1>2. ASSUME NEW j \in Joined
      PROVE  /\ j.forecast \in DOMAIN evidence["forecasts"]
             /\ j.decision \in Or(DecisionsOn(j.forecast)) /\ j.score \in Or(ScoresOf(j.forecast))
             /\ j = [forecast |-> j.forecast, decision |-> j.decision, score |-> j.score]
  <2>1. PICK f \in DOMAIN evidence["forecasts"] :
          j \in {[forecast |-> f, decision |-> d, score |-> s] : d \in Or(DecisionsOn(f)), s \in Or(ScoresOf(f))}
    BY <1>1
  <2>2. PICK d \in Or(DecisionsOn(f)), s \in Or(ScoresOf(f)) : j = [forecast |-> f, decision |-> d, score |-> s]
    BY <2>1
  <2>3. j.forecast = f /\ j.decision = d /\ j.score = s
    BY <2>2
  <2> QED
    BY <2>2, <2>3
<1>3. ASSUME NEW f \in DOMAIN evidence["forecasts"], NEW d \in Or(DecisionsOn(f)), NEW s \in Or(ScoresOf(f))
      PROVE  [forecast |-> f, decision |-> d, score |-> s] \in Joined
  BY <1>1
<1> QED
  BY <1>2, <1>3

LEMMA DiagnosisIs ==
    ASSUME EvidenceIs, ReadinessAssumption, ScoresAreNamed
    PROVE  /\ Diagnosis.sample = Cardinality(InTime({s \in DOMAIN evidence["scores"] : ForecastOf(s).binary}))
           /\ Diagnosis.included \cap Diagnosis.excluded = {}
           /\ Diagnosis.late = 0 => Diagnosis.included \cup Diagnosis.excluded = DOMAIN evidence["forecasts"]
<1> DEFINE included == {j \in Joined : Usable(j) /\ ~IsLate(j)}
           counted == {<<j.forecast, j.score>> : j \in {i \in included : i.score # Nil}}
           S == InTime({s \in DOMAIN evidence["scores"] : ForecastOf(s).binary})
           late == {j \in Joined : Usable(j) /\ IsLate(j)}
<1>1. /\ Diagnosis.sample = Cardinality(counted)
      /\ Diagnosis.included = {j.forecast : j \in included}
      /\ Diagnosis.excluded = {j.forecast : j \in {i \in Joined : ~Usable(i)}}
      /\ Diagnosis.late = Cardinality(late)
  BY DEF Diagnosis, CountScored
<1>2. /\ DOMAIN evidence["forecasts"] = 1..Len(evidence["forecasts"])
      /\ DOMAIN evidence["scores"] = 1..Len(evidence["scores"]) /\ Len(evidence["scores"]) \in Nat
      /\ \A t \in {"forecasts", "scores", "decisions"} : IsFiniteSet(DOMAIN evidence[t])
  <2>1. {"forecasts", "scores", "decisions"} \subseteq Tables
    BY DEF Tables
  <2> QED
    BY <2>1, TablesAre
<1>3. Nil \notin DOMAIN evidence["scores"]
  BY <1>2 DEF ReadinessAssumption
<1>4. \A s \in DOMAIN evidence["scores"] : evidence["scores"][s].forecast \in DOMAIN evidence["forecasts"]
  BY <1>2 DEF ScoresAreNamed, ScoreRow
<1>5. \A T : \E x : x \in Or(T)
  BY DEF Or
<1>6. S \subseteq DOMAIN evidence["scores"]
      /\ \A s \in DOMAIN evidence["scores"] :
           s \in S <=> evidence["forecasts"][evidence["scores"][s].forecast].binary /\ ~evidence["scores"][s].late
  BY DEF InTime, ForecastOf
<1>7. \A j \in Joined : j.score # Nil => j.score \in DOMAIN evidence["scores"] /\ evidence["scores"][j.score].forecast = j.forecast
  BY JoinedAre DEF Or, ScoresOf
<1>8. ASSUME NEW j \in Joined, j.score # Nil
      PROVE  j \in included <=> j.score \in S
  BY <1>6, <1>7, <1>8 DEF Usable, IsLate
<1>9. ASSUME NEW s \in S
      PROVE  \E j \in Joined : j.score = s /\ j.forecast = evidence["scores"][s].forecast
  <2> DEFINE f == evidence["scores"][s].forecast
  <2>1. f \in DOMAIN evidence["forecasts"] /\ s \in ScoresOf(f)
    BY <1>4, <1>6 DEF ScoresOf
  <2>2. s \in Or(ScoresOf(f))
    BY <2>1 DEF Or
  <2>3. PICK d : d \in Or(DecisionsOn(f))
    BY <1>5
  <2> HIDE DEF f
  <2>4. [forecast |-> f, decision |-> d, score |-> s] \in Joined
    BY <2>1, <2>2, <2>3, JoinedAre
  <2> QED
    BY <2>4 DEF f
<1>10. Cardinality(counted) = Cardinality(S)
  <2> DEFINE at == [s \in S |-> <<evidence["scores"][s].forecast, s>>]
  <2>1. ASSUME NEW x \in counted PROVE \E s \in S : x = <<evidence["scores"][s].forecast, s>>
    <3>1. PICK j \in included : j.score # Nil /\ x = <<j.forecast, j.score>>
      OBVIOUS
    <3> QED
      BY <1>7, <1>8, <3>1
  <2>2. ASSUME NEW s \in S PROVE <<evidence["scores"][s].forecast, s>> \in counted
    <3>1. PICK j \in Joined : j.score = s /\ j.forecast = evidence["scores"][s].forecast
      BY <1>9
    <3>2. j.score # Nil
      BY <1>3, <1>6, <3>1
    <3>3. j \in included
      BY <1>8, <3>1, <3>2
    <3> HIDE DEF included
    <3> QED
      BY <3>1, <3>2, <3>3
  <2> HIDE DEF counted, S
  <2>3. at \in Bijection(S, counted)
    <3>1. at \in [S -> counted]
      BY <2>2
    <3>2. \A s, r \in S : at[s] = at[r] => s = r
      OBVIOUS
    <3>3. \A x \in counted : \E s \in S : at[s] = x
      BY <2>1
    <3> HIDE DEF at
    <3> QED
      BY <3>1, <3>2, <3>3 DEF Bijection, Injection, Surjection, IsInjective
  <2>4. IsFiniteSet(S)
    BY <1>2, <1>6, FS_Subset
  <2> QED
    BY <2>3, <2>4, FS_Bijection DEF ExistsBijection
<1>11. Diagnosis.included \cap Diagnosis.excluded = {}
  BY <1>1 DEF Usable
<1>12. IsFiniteSet(late)
  <2> DEFINE F == DOMAIN evidence["forecasts"]
             D == DOMAIN evidence["decisions"] \cup {Nil}
             C == DOMAIN evidence["scores"] \cup {Nil}
             P == (F \X D) \X C
             at == [p \in P |-> [forecast |-> p[1][1], decision |-> p[1][2], score |-> p[2]]]
             R == {at[p] : p \in P}
  <2>1. IsFiniteSet(P)
    <3>1. IsFiniteSet(F) /\ IsFiniteSet(D) /\ IsFiniteSet(C)
      BY <1>2, FS_AddElement
    <3> HIDE DEF F, D, C
    <3>2. IsFiniteSet(F \X D)
      BY <3>1, FS_Product
    <3> QED
      BY <3>1, <3>2, FS_Product
  <2>2. IsFiniteSet(R)
    <3> HIDE DEF P
    <3>1. at \in Surjection(P, R)
      BY DEF Surjection
    <3> HIDE DEF at, R
    <3> QED
      BY <2>1, <3>1, FS_Surjection
  <2>3. ASSUME NEW j \in Joined PROVE j \in R
    <3>1. j.forecast \in F /\ j.decision \in D /\ j.score \in C
          /\ j = [forecast |-> j.forecast, decision |-> j.decision, score |-> j.score]
      BY JoinedAre DEF Or, DecisionsOn, ScoresOf
    <3> HIDE DEF F, D, C
    <3>2. <<<<j.forecast, j.decision>>, j.score>> \in P
      BY <3>1
    <3>3. at[<<<<j.forecast, j.decision>>, j.score>>] = j
      BY <3>1, <3>2
    <3> HIDE DEF P, at
    <3> QED
      BY <3>2, <3>3
  <2> HIDE DEF R
  <2>4. late \subseteq R
    BY <2>3
  <2> QED
    BY <2>2, <2>4, FS_Subset
<1>13. ASSUME Diagnosis.late = 0, NEW f \in DOMAIN evidence["forecasts"]
       PROVE  f \in Diagnosis.included \cup Diagnosis.excluded
  <2>1. late = {}
    BY <1>1, <1>12, <1>13, FS_EmptySet
  <2>2. PICK d, s : d \in Or(DecisionsOn(f)) /\ s \in Or(ScoresOf(f))
    BY <1>5
  <2> DEFINE j == [forecast |-> f, decision |-> d, score |-> s]
  <2>3. j \in Joined /\ j.forecast = f
    BY <2>2, JoinedAre
  <2> HIDE DEF j
  <2>4. j \in included \/ ~Usable(j)
    BY <2>1, <2>3
  <2> QED
    BY <1>1, <2>3, <2>4
<1>14. \A j \in Joined : j.forecast \in DOMAIN evidence["forecasts"]
  BY JoinedAre
<1>15. Diagnosis.included \cup Diagnosis.excluded \subseteq DOMAIN evidence["forecasts"]
  BY <1>1, <1>14
<1> QED
  BY <1>1, <1>10, <1>11, <1>13, <1>15
-----------------------------------------------------------------------------
(* Scores, wherever they are counted *)

\* What a history still has to write after its first k rows.
Rest(h, k) == [i \in 1..(Len(h) - k) |-> h[k + i]]
FromHistory ==
    \E h \in Histories : \E k \in 0..Len(h) :
        writing = Rest(h, k) /\ Len(evidence["forecasts"]) = ForecastsUpTo(h, k)
TrendsCount(zone, told) == \A i \in DOMAIN told : Queries[i] = "trend" => CountsOnce(zone, told[i])
CountInv ==
    /\ ScoresAreNamed /\ FromHistory
    /\ \A r \in Readers : report[r] # Nil => TrendsCount(report[r].zone, report[r].answers)
    /\ \A g \in given : CountsOnce(g.zone, g.trend)

LEMMA TrendCountsOnce ==
    ASSUME EvidenceIs, ReadinessAssumption, ScoresAreNamed, NEW zone \in Zones
    PROVE  CountsOnce(zone, Answer("trend", zone))
<1> DEFINE rows == InTime(TrackRecord)
           at == [s \in rows |-> evidence["scores"][s].at]
           windows == Windows(Range(at))
           t == [rows |-> at, truncated |-> windows.truncated, panes |-> windows.panes,
                 windows |-> [k \in DOMAIN windows.panes |-> {s \in rows : InPane(zone, windows.panes[k], at[s])}]]
<1>1. Answer("trend", zone) = t
  BY DEF Answer, Trend
<1>2. rows \subseteq DOMAIN evidence["scores"]
  BY DEF InTime, TrackRecord
<1>3. IsFiniteSet(rows)
  <2>1. IsFiniteSet(DOMAIN evidence["scores"])
    BY TablesAre DEF Tables
  <2> QED
    BY <1>2, <2>1, FS_Subset
<1> HIDE DEF rows
<1>4. at \in [rows -> Instant]
  BY <1>2 DEF ScoresAreNamed, ScoreRow
<1>5. t = [rows |-> at, truncated |-> Windows(Range(at)).truncated, panes |-> Windows(Range(at)).panes,
           windows |-> [k \in DOMAIN Windows(Range(at)).panes |->
                          {s \in rows : InPane(zone, Windows(Range(at)).panes[k], at[s])}]]
  OBVIOUS
<1> HIDE DEF at, windows, t
<1>6. CountsOnce(zone, t)
  BY <1>3, <1>4, <1>5, TrendIs
<1> QED
  BY <1>1, <1>6

\* What a commit adds to the forecasts, it takes from what the history had left.
LEMMA WriteCounts ==
    ASSUME ReadyInv, ReadinessAssumption, CountInv, WriteRow
    PROVE  ScoresAreNamed' /\ FromHistory'
<1>1. PICK h \in Histories, n \in Nat : n = Len(h) /\ \E k \in 0..n :
         writing = Rest(h, k) /\ Len(evidence["forecasts"]) = ForecastsUpTo(h, k)
  BY DEF CountInv, FromHistory, ReadinessAssumption
<1>2. PICK k \in 0..n : writing = [i \in 1..(n - k) |-> h[k + i]] /\ Len(evidence["forecasts"]) = ForecastsUpTo(h, k)
  BY <1>1 DEF Rest
<1>3. DOMAIN h = 1..n /\ \A i \in 1..n : h[i].table = "scores" => ScoreRow(h[i].row, ForecastsUpTo(h, i))
  <2>1. h = [i \in 1..Len(h) |-> h[i]] /\ \A i \in DOMAIN h : h[i].table = "scores" => ScoreRow(h[i].row, ForecastsUpTo(h, i))
    BY DEF ReadinessAssumption
  <2> QED
    BY <1>1, <2>1
<1>4. PICK S : writing \in Seq(S)
  BY DEF ReadyInv, WritingIs, IsSeq
<1>5. /\ writing # << >> /\ writing' = Tail(writing)
      /\ evidence' = [evidence EXCEPT ![Head(writing).table] = Append(@, Head(writing).row)]
  BY DEF WriteRow
<1>6. Len(writing) = n - k
  <2>1. DOMAIN writing = 1..(n - k) /\ DOMAIN writing = 1..Len(writing) /\ Len(writing) \in Nat /\ n - k \in Nat
    BY <1>2, <1>4
  <2> QED
    BY <2>1
<1>7. k < n /\ k + 1 \in 0..n /\ Head(writing) = h[k + 1]
  <2>1. Len(writing) # 0 /\ Len(writing) \in Nat
    BY <1>4, <1>5
  <2>2. k < n
    BY <1>6, <2>1
  <2>3. 1 \in 1..(n - k) /\ Head(writing) = writing[1]
    BY <1>4, <1>5, <2>2
  <2> QED
    BY <1>2, <2>2, <2>3
<1>8. writing' = Rest(h, k + 1)
  <2>1. writing' = [i \in 1..(n - k - 1) |-> writing[i + 1]]
    <3>1. /\ writing' \in Seq(S) /\ Len(writing') = n - k - 1
          /\ \A i \in 1..(n - k - 1) : writing'[i] = writing[i + 1]
      BY <1>4, <1>5, <1>6, <1>7
    <3>2. writing' = [i \in 1..(n - k - 1) |-> writing'[i]]
      BY <3>1
    <3> QED
      BY <3>1, <3>2
  <2>2. n - k - 1 = n - (k + 1)
    OBVIOUS
  <2>3. \A i \in 1..(n - k - 1) : writing[i + 1] = h[(k + 1) + i]
    <3> TAKE i \in 1..(n - k - 1)
    <3>1. i + 1 \in 1..(n - k) /\ k + (i + 1) = (k + 1) + i
      OBVIOUS
    <3> QED
      BY <1>2, <3>1
  <2> QED
    BY <1>1, <2>1, <2>2, <2>3 DEF Rest
<1> DEFINE row == h[k + 1].row
           table == h[k + 1].table
<1>9. ForecastsUpTo(h, k) \in Nat
      /\ ForecastsUpTo(h, k + 1) = ForecastsUpTo(h, k) + IF table = "forecasts" THEN 1 ELSE 0
  <2> DEFINE A == {i \in 1..k : h[i].table = "forecasts"}
             B == {i \in 1..(k + 1) : h[i].table = "forecasts"}
  <2>1. IsFiniteSet(A)
    <3>1. 1 \in Int /\ k \in Int
      OBVIOUS
    <3>2. IsFiniteSet(1..k)
      BY <3>1, FS_Interval
    <3> QED
      BY <3>2, FS_Subset
  <2>2. B = IF table = "forecasts" THEN A \cup {k + 1} ELSE A
    BY <1>7
  <2>3. k + 1 \notin A
    OBVIOUS
  <2>4. ForecastsUpTo(h, k) = Cardinality(A) /\ ForecastsUpTo(h, k + 1) = Cardinality(B)
    BY DEF ForecastsUpTo
  <2> HIDE DEF A, B, table
  <2>5. Cardinality(A) \in Nat /\ Cardinality(A \cup {k + 1}) = Cardinality(A) + 1
    BY <2>1, <2>3, FS_CardinalityType, FS_AddElement
  <2> QED
    BY <2>2, <2>4, <2>5
<1>10. table \in Tables
  <2>1. 1 \in DOMAIN writing /\ Head(writing) = writing[1]
    BY <1>4, <1>5
  <2> QED
    BY <1>7, <2>1 DEF ReadyInv, WritingIs
<1>11. evidence' = [evidence EXCEPT ![table] = Append(@, row)]
  BY <1>5, <1>7
<1> HIDE DEF row, table
<1>12. ASSUME NEW u \in Tables
       PROVE  LET old == evidence[u]
                  new == evidence'[u]
              IN /\ DOMAIN old = 1..Len(old) /\ Len(old) \in Nat
                 /\ u # table => new = old
                 /\ u = table => /\ DOMAIN new = 1..(Len(old) + 1) /\ Len(new) = Len(old) + 1
                                 /\ new[Len(old) + 1] = row /\ \A i \in 1..Len(old) : new[i] = old[i]
  <2>1. evidence'[u] = IF u = table THEN Append(evidence[u], row) ELSE evidence[u]
    BY <1>11 DEF ReadyInv, EvidenceIs
  <2>2. IsSeq(evidence[u])
    BY DEF ReadyInv, EvidenceIs
  <2>3. u # table => evidence'[u] = evidence[u]
    BY <2>1
  <2>4. u = table => evidence'[u] = Append(evidence[u], row)
    BY <2>1
  <2> QED
    BY <2>2, <2>3, <2>4, AppendIs
<1>13. /\ Len(evidence["forecasts"]) \in Nat
       /\ Len(evidence'["forecasts"]) = Len(evidence["forecasts"]) + IF table = "forecasts" THEN 1 ELSE 0
  <2>1. "forecasts" \in Tables
    BY DEF Tables
  <2>2. CASE table = "forecasts"
    BY <1>12, <2>1, <2>2
  <2>3. CASE table # "forecasts"
    BY <1>12, <2>1, <2>3
  <2> QED
    BY <2>2, <2>3
<1>14. Len(evidence'["forecasts"]) = ForecastsUpTo(h, k + 1)
  BY <1>2, <1>9, <1>13
<1>15. FromHistory'
  <2>1. k + 1 \in 0..Len(h) /\ writing' = Rest(h, k + 1) /\ Len(evidence["forecasts"])' = ForecastsUpTo(h, k + 1)
    BY <1>1, <1>7, <1>8, <1>14
  <2>2. \E j \in 0..Len(h) : writing' = Rest(h, j) /\ Len(evidence["forecasts"])' = ForecastsUpTo(h, j)
    BY <2>1
  <2> QED
    BY <2>2 DEF FromHistory, Rest, ForecastsUpTo
<1>16. ASSUME NEW s \in DOMAIN evidence'["scores"]
       PROVE  ScoreRow(evidence'["scores"][s], Len(evidence'["forecasts"]))
  <2>1. "scores" \in Tables
    BY DEF Tables
  <2>2. CASE s \in DOMAIN evidence["scores"]
    <3>1. evidence'["scores"][s] = evidence["scores"][s]
      <4>1. CASE table = "scores"
        BY <1>12, <2>1, <2>2, <4>1
      <4>2. CASE table # "scores"
        BY <1>12, <2>1, <4>2
      <4> QED
        BY <4>1, <4>2
    <3>2. ScoreRow(evidence["scores"][s], Len(evidence["forecasts"]))
      BY <2>2 DEF CountInv, ScoresAreNamed
    <3>3. Len(evidence["forecasts"]) <= Len(evidence'["forecasts"]) /\ Len(evidence'["forecasts"]) \in Nat
      <4>1. CASE table = "forecasts"
        BY <1>13, <4>1
      <4>2. CASE table # "forecasts"
        BY <1>13, <4>2
      <4> QED
        BY <4>1, <4>2
    <3>4. ASSUME NEW n1 \in Nat, NEW n2 \in Nat, n1 <= n2, NEW x, ScoreRow(x, n1) PROVE ScoreRow(x, n2)
      BY <3>4 DEF ScoreRow
    <3> QED
      BY <1>13, <3>1, <3>2, <3>3, <3>4
  <2>3. CASE s \notin DOMAIN evidence["scores"]
    <3>1. table = "scores" /\ evidence'["scores"][s] = row
      <4>1. table = "scores"
        BY <1>12, <1>16, <2>1, <2>3
      <4>2. s = Len(evidence["scores"]) + 1
        BY <1>12, <1>16, <2>1, <2>3, <4>1
      <4> QED
        BY <1>12, <2>1, <4>1, <4>2
    <3>2. ScoreRow(row, ForecastsUpTo(h, k + 1))
      BY <1>3, <1>7, <3>1 DEF row, table
    <3> QED
      BY <1>14, <3>1, <3>2
  <2> QED
    BY <2>2, <2>3
<1>17. ScoresAreNamed'
  BY <1>16 DEF ScoresAreNamed, ScoreRow
<1> QED
  BY <1>15, <1>17

LEMMA CountStep ==
    ASSUME ReadyInv, ReadinessAssumption, CountInv, [ReadinessNext]_readinessVars
    PROVE  CountInv'
<1>1. CASE WriteRow
  <2>1. report' = report /\ given' = given
    BY <1>1 DEF WriteRow
  <2> QED
    BY <1>1, <2>1, WriteCounts DEF CountInv
<1>2. ASSUME UNCHANGED <<evidence, writing>> PROVE ScoresAreNamed' /\ FromHistory'
  BY <1>2 DEF CountInv, ScoresAreNamed, ScoreRow, FromHistory, Rest, ForecastsUpTo
<1>3. ASSUME NEW r \in Readers, NEW bars \in Bars, NEW zone \in Zones, Ask(r, bars, zone) PROVE CountInv'
  <2>1. UNCHANGED <<evidence, writing, given>>
    BY <1>3 DEF Ask
  <2>2. \A x \in Readers : x # r => report'[x] = report[x]
    BY <1>3 DEF Ask, ReadyInv
  <2>3. report'[r].answers = << >>
    BY <1>3 DEF Ask, ReadyInv
  <2>4. TrendsCount(report'[r].zone, report'[r].answers)
    BY <2>3 DEF TrendsCount
  <2> QED
    BY <1>2, <2>1, <2>2, <2>4 DEF CountInv
<1>4. ASSUME NEW r \in Readers, Query(r) PROVE CountInv'
  <2> DEFINE old == report[r].answers
             zone == report[r].zone
  <2>1. UNCHANGED <<evidence, writing, given>> /\ report[r] # Nil
    BY <1>4 DEF Query
  <2>2. \A x \in Readers : x # r => report'[x] = report[x]
    BY <1>4 DEF Query, ReadyInv
  <2>3. Reading(report[r])
    BY <2>1 DEF ReadyInv
  <2>4. report'[r].zone = zone /\ report'[r].answers = Append(old, Answer(Queries[Len(old) + 1], zone))
    <3>1. report'[r] = [report[r] EXCEPT !.answers = Append(old, Answer(Queries[Len(old) + 1], zone))]
      BY <1>4 DEF Query, ReadyInv
    <3>2. report[r] = [bars |-> report[r].bars, zone |-> zone, answers |-> old, since |-> report[r].since]
      BY <2>3 DEF Reading
    <3> QED
      BY <3>1, <3>2
  <2>5. TrendsCount(zone, old)
    BY <2>1 DEF CountInv
  <2>6. IsSeq(old) /\ zone \in Zones
    BY <2>3 DEF Reading
  <2> HIDE DEF old, zone
  <2>7. ASSUME NEW i \in DOMAIN report'[r].answers, Queries[i] = "trend" PROVE CountsOnce(zone, report'[r].answers[i])
    <3>1. CASE i \in 1..Len(old)
      BY <2>4, <2>5, <2>6, <2>7, <3>1, AppendIs DEF TrendsCount
    <3>2. CASE i = Len(old) + 1
      <4>1. report'[r].answers[i] = Answer("trend", zone)
        BY <2>4, <2>6, <2>7, <3>2, AppendIs
      <4>2. CountsOnce(zone, Answer("trend", zone))
        BY <2>6, TrendCountsOnce DEF ReadyInv, CountInv
      <4> QED
        BY <4>1, <4>2
    <3> QED
      BY <2>4, <2>6, <3>1, <3>2, AppendIs
  <2>8. TrendsCount(report'[r].zone, report'[r].answers)
    BY <2>4, <2>7 DEF TrendsCount
  <2> QED
    BY <1>2, <2>1, <2>2, <2>8 DEF CountInv
<1>5. ASSUME NEW r \in Readers, HandIn(r) PROVE CountInv'
  <2> DEFINE i == CHOOSE i \in DOMAIN Queries : Queries[i] = "trend"
  <2>1. UNCHANGED <<evidence, writing>> /\ report[r] # Nil /\ Len(report[r].answers) = Len(Queries)
    BY <1>5 DEF HandIn
  <2>2. \A x \in Readers : report'[x] = IF x = r THEN Nil ELSE report[x]
    BY <1>5 DEF HandIn, ReadyInv
  <2>3. i \in DOMAIN Queries /\ Queries[i] = "trend"
    <3>1. 16 \in DOMAIN Queries /\ Queries[16] = "trend"
      BY DEF Queries
    <3> QED
      BY <3>1
  <2>4. "trend" \in Range(Queries)
    BY <2>3 DEF Range
  <2>5. \E g : g.zone = report[r].zone /\ g.trend = report[r].answers[i] /\ given' = given \cup {g}
    BY <1>5, <2>4 DEF HandIn
  <2>6. i \in DOMAIN report[r].answers
    <3>1. DOMAIN report[r].answers = 1..Len(report[r].answers)
      BY <2>1 DEF ReadyInv, Reading, IsSeq
    <3>2. DOMAIN Queries = 1..Len(Queries)
      BY DEF Queries
    <3> QED
      BY <2>1, <2>3, <3>1, <3>2
  <2> HIDE DEF i
  <2>7. CountsOnce(report[r].zone, report[r].answers[i])
    BY <2>1, <2>3, <2>6 DEF CountInv, TrendsCount
  <2>8. \A g \in given' : CountsOnce(g.zone, g.trend)
    BY <2>5, <2>7 DEF CountInv
  <2>9. \A x \in Readers : report'[x] # Nil => TrendsCount(report'[x].zone, report'[x].answers)
    BY <2>2 DEF CountInv
  <2> QED
    BY <1>2, <2>1, <2>8, <2>9 DEF CountInv
<1>6. CASE UNCHANGED readinessVars
  <2>1. UNCHANGED <<evidence, writing, report, given>>
    BY <1>6 DEF readinessVars
  <2> QED
    BY <1>2, <2>1 DEF CountInv
<1> QED
  BY <1>1, <1>3, <1>4, <1>5, <1>6 DEF ReadinessNext

\* A score counts once in every trend that is handed in and in the diagnostics, for
\* any histories of which a score follows its forecast, any width and number of
\* windows (_calibration_trend, _window_buckets, forecast_diagnostics).
THEOREM ScoresAlwaysCountOnce == ReadinessSpec => []ScoresCountOnce
<1> USE ReadinessAssumption
<1>1. ReadinessInit => CountInv
  <2> SUFFICES ASSUME ReadinessInit PROVE CountInv
    OBVIOUS
  <2>1. evidence["scores"] = << >> /\ evidence["forecasts"] = << >>
    BY DEF ReadinessInit, Tables
  <2>2. ScoresAreNamed
    BY <2>1 DEF ScoresAreNamed
  <2>3. FromHistory
    <3>1. PICK h \in Histories : writing = h
      BY DEF ReadinessInit
    <3>2. Len(h) \in Nat /\ h = [i \in 1..Len(h) |-> h[i]]
      BY DEF ReadinessAssumption
    <3>3. PICK n \in Nat : n = Len(h)
      BY <3>2
    <3>4. h = Rest(h, 0)
      <4>1. n - 0 = n /\ \A i \in 1..n : 0 + i = i
        OBVIOUS
      <4>2. [i \in 1..n |-> h[i]] = [i \in 1..(n - 0) |-> h[0 + i]]
        BY <4>1
      <4> QED
        BY <3>2, <3>3, <4>2 DEF Rest
    <3>5. ForecastsUpTo(h, 0) = 0
      <4>1. {i \in 1..0 : h[i].table = "forecasts"} = {}
        OBVIOUS
      <4> QED
        BY <4>1, FS_EmptySet DEF ForecastsUpTo
    <3>6. 0 \in 0..Len(h) /\ writing = Rest(h, 0) /\ Len(evidence["forecasts"]) = ForecastsUpTo(h, 0)
      BY <2>1, <3>1, <3>2, <3>4, <3>5
    <3> QED
      BY <3>6 DEF FromHistory
  <2> QED
    BY <2>2, <2>3 DEF ReadinessInit, CountInv
<1>2. ReadyInv /\ CountInv /\ [ReadinessNext]_readinessVars => ReadyInv' /\ CountInv'
  BY ReadyStep, CountStep
<1>3. ReadyInv /\ CountInv => ScoresCountOnce
  <2> SUFFICES ASSUME ReadyInv, CountInv PROVE ScoresCountOnce
    OBVIOUS
  <2>1. \A g \in given : CountsOnce(g.zone, g.trend)
    BY DEF CountInv
  <2>2. EvidenceIs /\ ScoresAreNamed
    BY DEF ReadyInv, CountInv
  <2>3. /\ Diagnosis.sample = Cardinality(InTime({s \in DOMAIN evidence["scores"] : ForecastOf(s).binary}))
        /\ Diagnosis.included \cap Diagnosis.excluded = {}
        /\ Diagnosis.late = 0 => Diagnosis.included \cup Diagnosis.excluded = DOMAIN evidence["forecasts"]
    BY <2>2, DiagnosisIs
  <2> QED
    BY <2>1, <2>3 DEF ScoresCountOnce, CountsOnce
<1> QED
  BY <1>1, <1>2, <1>3, ReadyStart, PTL DEF ReadinessSpec
-----------------------------------------------------------------------------
(* Sources: a journal that is in order, and what a part of a call makes of it *)

Joins == {"source.attached", "edge.created"}
Inlined(j, s, t) == \E i \in DOMAIN j.inline[t] : j.inline[t][i].id = s

JournalShape(j) ==
    /\ j = [sources |-> j.sources, edges |-> j.edges, inline |-> j.inline, notes |-> j.notes, log |-> j.log]
    /\ IsSeq(j.sources) /\ IsSeq(j.edges) /\ IsSeq(j.notes)
    /\ j.inline = [t \in DOMAIN j.inline |-> j.inline[t]]
    /\ DOMAIN j.inline = Rows \cup {Target("memory_node", n) : n \in DOMAIN j.notes}
    /\ \A t \in DOMAIN j.inline : IsSeq(j.inline[t])

\* A source that could be taken for that of a capture has its text.
SourceRows(j) ==
    \A s \in DOMAIN j.sources : LET row == j.sources[s] IN
        /\ row = [kind |-> row.kind, stance |-> row.stance, status |-> row.status, hash |-> row.hash,
                  fresh |-> row.fresh, captured |-> row.captured, text |-> row.text]
        /\ ~IsProtected(row) => \A c \in Captures : row.hash = c.thought => row.text = c.thought

\* An event is about a row that says what it says.
EventIsSo(j, e) ==
    /\ e.type = "source.added" => e.id \in DOMAIN j.sources /\ e.fields = [j.sources[e.id] EXCEPT !.text = ""]
    /\ e.type = "memory_node.retained" =>
         e.id \in DOMAIN j.notes /\ j.notes[e.id] = [body |-> e.fields.hash, source |-> e.fields.source]
    /\ e.type \in Joins => e.id \in DOMAIN j.edges /\ j.edges[e.id] = e.fields
    /\ e.type = "source.attached" => Inlined(j, e.fields.source, e.fields.target)

\* An edge joins what is there, and was logged.
EdgeIsSo(j, e) ==
    /\ e.source \in DOMAIN j.sources /\ e.target \in DOMAIN j.inline
    /\ \E l \in j.log : l.type \in Joins /\ l.fields = e

\* An inline object that names a source is a copy of it, and has its edge.
ObjectIsSo(j, t, o) ==
    o.id # 0 => /\ o.id \in DOMAIN j.sources
                /\ o.stance = j.sources[o.id].stance /\ o.status = j.sources[o.id].status
                /\ \E l \in j.log : l.type = "source.attached" /\ l.fields.source = o.id /\ l.fields.target = t

Orderly(j) ==
    /\ JournalShape(j)
    /\ SourceRows(j)
    /\ \A e \in j.log : EventIsSo(j, e)
    /\ \A i \in DOMAIN j.edges : EdgeIsSo(j, j.edges[i])
    /\ \A t \in DOMAIN j.inline : \A i \in DOMAIN j.inline[t] : ObjectIsSo(j, t, j.inline[t][i])

Longer(s, u) == DOMAIN s \subseteq DOMAIN u /\ \A i \in DOMAIN s : u[i] = s[i]
Follows(j, k) ==
    /\ Longer(j.sources, k.sources) /\ Longer(j.edges, k.edges) /\ Longer(j.notes, k.notes)
    /\ DOMAIN j.inline \subseteq DOMAIN k.inline
    /\ \A t \in DOMAIN j.inline : Longer(j.inline[t], k.inline[t])
    /\ j.log \subseteq k.log

LEMMA FollowsItself == ASSUME NEW j PROVE Follows(j, j)
BY DEF Follows, Longer

LEMMA FollowsOn == ASSUME NEW j, NEW k, NEW l, Follows(j, k), Follows(k, l) PROVE Follows(j, l)
<1>1. \A s, u, v : Longer(s, u) /\ Longer(u, v) => Longer(s, v)
  BY DEF Longer
<1> QED
  BY <1>1 DEF Follows

\* What a journal says stays true of one that follows it.
LEMMA SaidStays ==
    ASSUME NEW j, NEW k, Follows(j, k)
    PROVE  /\ \A e : EventIsSo(j, e) /\ e \in j.log /\ (e.type = "source.attached" => e.fields.target \in DOMAIN j.inline) => EventIsSo(k, e)
           /\ \A e : EdgeIsSo(j, e) => EdgeIsSo(k, e)
           /\ \A t, o : ObjectIsSo(j, t, o) => ObjectIsSo(k, t, o)
<1>1. \A e : EventIsSo(j, e) /\ (e.type = "source.attached" => e.fields.target \in DOMAIN j.inline) => EventIsSo(k, e)
  BY DEF Follows, Longer, EventIsSo, Inlined, Joins
<1>2. \A e : EdgeIsSo(j, e) => EdgeIsSo(k, e)
  BY DEF Follows, Longer, EdgeIsSo
<1>3. \A t, o : ObjectIsSo(j, t, o) => ObjectIsSo(k, t, o)
  BY DEF Follows, Longer, ObjectIsSo
<1> QED
  BY <1>1, <1>2, <1>3

\* A call that is ok wrote its event, or its row has been there with what it says.
LEMMA OnceIs ==
    ASSUME NEW j, NEW type, NEW key, NEW fields, NEW id, NEW new, Once(j, type, key, fields, id, new).ok
    PROVE  LET r == Once(j, type, key, fields, id, new) IN
           \/ /\ r.id = id
              /\ r.j = [new EXCEPT !.log = @ \cup {[type |-> type, key |-> key, fields |-> fields, id |-> id]}]
           \/ r.j = j /\ \E e \in j.log : e.type = type /\ e.fields = fields /\ r.id = e.id
<1> DEFINE held == {e \in j.log : e.type = type /\ e.key = key /\ key # NoKey}
           found == CHOOSE e \in held : TRUE
<1>1. CASE held = {}
  <2>1. Once(j, type, key, fields, id, new) =
          [ok |-> TRUE, id |-> id,
           j |-> [new EXCEPT !.log = @ \cup {[type |-> type, key |-> key, fields |-> fields, id |-> id]}]]
    BY <1>1 DEF Once
  <2> QED
    BY <2>1
<1>2. CASE held # {}
  <2>1. found \in held
    BY <1>2
  <2>2. Once(j, type, key, fields, id, new) = [ok |-> found.fields = fields, id |-> found.id, j |-> j]
    BY <1>2 DEF Once
  <2>3. PICK e \in held : Once(j, type, key, fields, id, new) = [ok |-> e.fields = fields, id |-> e.id, j |-> j]
    BY <2>1, <2>2
  <2>4. e \in j.log /\ e.type = type
    OBVIOUS
  <2> HIDE DEF held, found
  <2>5. ASSUME e.fields # fields
        PROVE  Once(j, type, key, fields, id, new) = [ok |-> FALSE, id |-> e.id, j |-> j]
    <3>1. (e.fields = fields) = FALSE
      BY <2>5
    <3> QED
      BY <2>3, <3>1, Zenon
  <2>6. e.fields = fields
    BY <2>5
  <2> QED
    BY <2>3, <2>4, <2>6
<1> QED
  BY <1>1, <1>2

\* The events of a journal in order attach to what is there.
LEMMA AttachedIsThere ==
    ASSUME NEW j, Orderly(j), NEW e \in j.log, e.type \in Joins
    PROVE  e.fields.source \in DOMAIN j.sources /\ e.fields.target \in DOMAIN j.inline
BY DEF Orderly, EventIsSo, EdgeIsSo

LEMMA InOrderStays ==
    ASSUME NEW j, Orderly(j), NEW k, Follows(j, k)
    PROVE  /\ \A e \in j.log : EventIsSo(k, e)
           /\ \A i \in DOMAIN j.edges : EdgeIsSo(k, j.edges[i])
           /\ \A t \in DOMAIN j.inline : \A i \in DOMAIN j.inline[t] : ObjectIsSo(k, t, j.inline[t][i])
<1>1. \A e \in j.log : e.type = "source.attached" => e.fields.target \in DOMAIN j.inline
  BY AttachedIsThere DEF Joins
<1>2. \A e \in j.log : EventIsSo(j, e)
  BY DEF Orderly
<1>3. \A i \in DOMAIN j.edges : EdgeIsSo(j, j.edges[i])
  BY DEF Orderly
<1>4. \A t \in DOMAIN j.inline : \A i \in DOMAIN j.inline[t] : ObjectIsSo(j, t, j.inline[t][i])
  BY DEF Orderly
<1>5. \A e \in j.log : EventIsSo(k, e)
  BY <1>1, <1>2, SaidStays
<1>6. \A i \in DOMAIN j.edges : EdgeIsSo(k, j.edges[i])
  BY <1>3, SaidStays
<1>7. \A t \in DOMAIN j.inline : \A i \in DOMAIN j.inline[t] : ObjectIsSo(k, t, j.inline[t][i])
  BY <1>4, SaidStays
<1> QED
  BY <1>5, <1>6, <1>7
\* One row more.
LEMMA OneMore ==
    ASSUME NEW s, IsSeq(s), NEW e
    PROVE  /\ IsSeq(Append(s, e)) /\ Longer(s, Append(s, e))
           /\ Len(s) + 1 \in DOMAIN Append(s, e) /\ Append(s, e)[Len(s) + 1] = e
           /\ \A i \in DOMAIN Append(s, e) : i \in DOMAIN s \/ i = Len(s) + 1
           /\ Len(s) + 1 \notin DOMAIN s
<1> DEFINE u == Append(s, e)
<1>1. Len(s) \in Nat /\ DOMAIN s = 1..Len(s) /\ DOMAIN u = 1..(Len(s) + 1)
  BY AppendIs
<1>2. IsSeq(u) /\ u[Len(s) + 1] = e /\ \A i \in 1..Len(s) : u[i] = s[i]
  BY AppendIs
<1> HIDE DEF u
<1> QED
  BY <1>1, <1>2 DEF Longer, u

LEMMA LongerItself == ASSUME NEW s PROVE Longer(s, s)
BY DEF Longer

\* The row of source.add.
Row(c) == [kind |-> c.kind, stance |-> c.stance, status |-> c.status, hash |-> c.hash, fresh |-> c.fresh,
           captured |-> c.captured, text |-> IF IsProtected(c) THEN "" ELSE c.text]

LEMMA AddSourceKeeps ==
    ASSUME NEW j, Orderly(j), NEW c, \A k \in Captures : c.hash = k.thought => c.text = k.thought,
           AddSource(j, c).ok
    PROVE  LET r == AddSource(j, c) IN
           /\ Orderly(r.j) /\ Follows(j, r.j)
           /\ r.id \in DOMAIN r.j.sources
           /\ [r.j.sources[r.id] EXCEPT !.text = ""] = [Row(c) EXCEPT !.text = ""]
<1> DEFINE fields == [Row(c) EXCEPT !.text = ""]
           id == Len(j.sources) + 1
           event == [type |-> "source.added", key |-> c.key, fields |-> fields, id |-> id]
           new == [j EXCEPT !.sources = Append(@, Row(c))]
           r == AddSource(j, c)
           k == r.j
<1>1. r = Once(j, "source.added", c.key, fields, id, new)
  BY DEF AddSource, Row
<1>2. \/ r.id = id /\ k = [new EXCEPT !.log = @ \cup {event}]
      \/ k = j /\ \E e \in j.log : e.type = "source.added" /\ e.fields = fields /\ r.id = e.id
  <2> HIDE DEF new, fields, id, r
  <2> QED
    BY <1>1, OnceIs DEF r
<1> HIDE DEF r
<1>3. JournalShape(j) /\ SourceRows(j)
  BY DEF Orderly
<1>4. CASE k = j /\ \E e \in j.log : e.type = "source.added" /\ e.fields = fields /\ r.id = e.id
  <2>1. \A e \in j.log : EventIsSo(j, e)
    BY DEF Orderly
  <2>2. r.id \in DOMAIN j.sources /\ [j.sources[r.id] EXCEPT !.text = ""] = fields
    <3> HIDE DEF fields
    <3> QED
      BY <1>4, <2>1 DEF EventIsSo
  <2> QED
    BY <1>4, <2>2, FollowsItself DEF r
<1>5. CASE r.id = id /\ k = [new EXCEPT !.log = @ \cup {event}]
  <2>1. k = [sources |-> Append(j.sources, Row(c)), edges |-> j.edges, inline |-> j.inline, notes |-> j.notes,
             log |-> j.log \cup {event}]
    <3> HIDE DEF event
    <3>1. j = [sources |-> j.sources, edges |-> j.edges, inline |-> j.inline, notes |-> j.notes, log |-> j.log]
      BY <1>3 DEF JournalShape
    <3>2. new = [sources |-> Append(j.sources, Row(c)), edges |-> j.edges, inline |-> j.inline, notes |-> j.notes, log |-> j.log]
      BY <3>1
    <3> HIDE DEF new
    <3> QED
      BY <1>5, <3>2
  <2> HIDE DEF k
  <2>2. /\ k.sources = Append(j.sources, Row(c)) /\ k.edges = j.edges /\ k.inline = j.inline /\ k.notes = j.notes
        /\ k.log = j.log \cup {event}
    BY <2>1
  <2>3. /\ IsSeq(k.sources) /\ Longer(j.sources, k.sources) /\ id \in DOMAIN k.sources /\ k.sources[id] = Row(c)
        /\ \A s \in DOMAIN k.sources : s \in DOMAIN j.sources \/ s = id
    <3>1. IsSeq(j.sources)
      BY <1>3 DEF JournalShape
    <3> HIDE DEF fields, event
    <3> QED
      BY <2>2, <3>1, OneMore
  <2>4. JournalShape(k)
    <3>1. k = [sources |-> k.sources, edges |-> k.edges, inline |-> k.inline, notes |-> k.notes, log |-> k.log]
      BY <2>1, <2>2
    <3> QED
      BY <1>3, <3>1, <2>2, <2>3 DEF JournalShape
  <2>5. Follows(j, k)
    BY <2>2, <2>3, LongerItself DEF Follows
  <2>6. SourceRows(k)
    <3>1. /\ Row(c).kind = c.kind /\ Row(c).stance = c.stance /\ Row(c).status = c.status /\ Row(c).hash = c.hash
          /\ (~IsProtected(c) => Row(c).text = c.text)
          /\ Row(c) = [kind |-> Row(c).kind, stance |-> Row(c).stance, status |-> Row(c).status, hash |-> Row(c).hash,
                  fresh |-> Row(c).fresh, captured |-> Row(c).captured, text |-> Row(c).text]
      BY DEF Row
    <3>2. IsProtected(Row(c)) <=> IsProtected(c)
      BY <3>1 DEF IsProtected
    <3> HIDE DEF id
    <3> QED
      BY <1>3, <2>3, <3>1, <3>2 DEF SourceRows, Longer
  <2>7. EventIsSo(k, event)
    <3> HIDE DEF fields
    <3> QED
      BY <2>3 DEF EventIsSo, Joins, fields
  <2>8. Orderly(k)
    <3> HIDE DEF event
    <3> QED
      BY <2>2, <2>4, <2>5, <2>6, <2>7, InOrderStays DEF Orderly
  <2> QED
    BY <1>5, <2>3, <2>5, <2>8 DEF k, r
<1> QED
  BY <1>2, <1>4, <1>5
LEMMA RetainDraftKeeps ==
    ASSUME NEW j, Orderly(j), NEW key, NEW thought, NEW source, RetainDraft(j, key, thought, thought, source).ok
    PROVE  LET r == RetainDraft(j, key, thought, thought, source) IN
           /\ Orderly(r.j) /\ Follows(j, r.j)
           /\ r.id \in DOMAIN r.j.notes /\ r.j.notes[r.id] = [body |-> thought, source |-> source]
<1> DEFINE fields == [source |-> source, hash |-> thought]
           note == [body |-> thought, source |-> source]
           id == Len(j.notes) + 1
           T == Target("memory_node", id)
           lists == [t \in DOMAIN j.inline \cup {T} |-> IF t = T THEN << >> ELSE j.inline[t]]
           event == [type |-> "memory_node.retained", key |-> key, fields |-> fields, id |-> id]
           new == [j EXCEPT !.notes = Append(@, note), !.inline = lists]
           r == RetainDraft(j, key, thought, thought, source)
           k == r.j
<1>1. r = Once(j, "memory_node.retained", key, fields, id, new)
  BY DEF RetainDraft
<1>2. \/ r.id = id /\ k = [new EXCEPT !.log = @ \cup {event}]
      \/ k = j /\ \E e \in j.log : e.type = "memory_node.retained" /\ e.fields = fields /\ r.id = e.id
  <2> HIDE DEF new, fields, id, r
  <2> QED
    BY <1>1, OnceIs DEF r
<1> HIDE DEF r
<1>3. JournalShape(j)
  BY DEF Orderly
<1>4. CASE k = j /\ \E e \in j.log : e.type = "memory_node.retained" /\ e.fields = fields /\ r.id = e.id
  <2>1. \A e \in j.log : EventIsSo(j, e)
    BY DEF Orderly
  <2>2. PICK e \in j.log : e.type = "memory_node.retained" /\ e.fields = fields /\ r.id = e.id
    BY <1>4
  <2>3. r.id \in DOMAIN j.notes /\ j.notes[r.id] = [body |-> e.fields.hash, source |-> e.fields.source]
    <3> HIDE DEF fields
    <3> QED
      BY <2>1, <2>2 DEF EventIsSo
  <2>4. e.fields.hash = thought /\ e.fields.source = source
    BY <2>2
  <2> QED
    BY <1>4, <2>3, <2>4, FollowsItself DEF r
<1>5. CASE r.id = id /\ k = [new EXCEPT !.log = @ \cup {event}]
  <2>1. k = [sources |-> j.sources, edges |-> j.edges, inline |-> lists, notes |-> Append(j.notes, note),
             log |-> j.log \cup {event}]
    <3> HIDE DEF event, note, T
    <3>1. j = [sources |-> j.sources, edges |-> j.edges, inline |-> j.inline, notes |-> j.notes, log |-> j.log]
      BY <1>3 DEF JournalShape
    <3>2. new = [sources |-> j.sources, edges |-> j.edges, inline |-> lists, notes |-> Append(j.notes, note), log |-> j.log]
      <4> HIDE DEF lists
      <4> DEFINE half == [j EXCEPT !.notes = Append(j.notes, note)]
      <4>1. half = [sources |-> j.sources, edges |-> j.edges, inline |-> j.inline, notes |-> Append(j.notes, note), log |-> j.log]
        BY <3>1
      <4>2. new = [half EXCEPT !.inline = lists]
        OBVIOUS
      <4> HIDE DEF half, new
      <4> QED
        BY <4>1, <4>2
    <3> HIDE DEF new, lists
    <3> QED
      BY <1>5, <3>2
  <2> HIDE DEF k
  <2>2. /\ k.sources = j.sources /\ k.edges = j.edges /\ k.inline = lists /\ k.notes = Append(j.notes, note)
        /\ k.log = j.log \cup {event}
    <3> HIDE DEF lists, note, event
    <3> QED
      BY <2>1
  <2>3. /\ IsSeq(k.notes) /\ Longer(j.notes, k.notes) /\ id \in DOMAIN k.notes /\ k.notes[id] = note
        /\ \A n \in DOMAIN k.notes : n \in DOMAIN j.notes \/ n = id
        /\ id \notin DOMAIN j.notes
    <3>1. IsSeq(j.notes)
      BY <1>3 DEF JournalShape
    <3> HIDE DEF lists, note, event
    <3> QED
      BY <2>2, <3>1, OneMore
  <2> HIDE DEF id
  <2>4. T \notin DOMAIN j.inline
    <3>1. T \notin Rows
      <4>1. \A t \in Rows : t.kind # "memory_node"
        BY DEF Rows, Target
      <4>2. T.kind = "memory_node"
        BY DEF Target
      <4> QED
        BY <4>1, <4>2
    <3>2. \A n : Target("memory_node", n) = T => n = id
      BY DEF Target
    <3> HIDE DEF T
    <3> QED
      BY <1>3, <2>3, <3>1, <3>2 DEF JournalShape
  <2>5. /\ DOMAIN k.inline = DOMAIN j.inline \cup {T} /\ k.inline[T] = << >>
        /\ \A t \in DOMAIN j.inline : k.inline[t] = j.inline[t]
    <3> HIDE DEF T
    <3> QED
      BY <2>2, <2>4
  <2>6. JournalShape(k)
    <3>1. k = [sources |-> k.sources, edges |-> k.edges, inline |-> k.inline, notes |-> k.notes, log |-> k.log]
      <4> HIDE DEF lists, note, event
      <4> QED
        BY <2>1, <2>2
    <3>2. k.inline = [t \in DOMAIN k.inline |-> k.inline[t]]
      <4> HIDE DEF T
      <4> QED
        BY <2>2, <2>5
    <3>3. DOMAIN k.inline = Rows \cup {Target("memory_node", n) : n \in DOMAIN k.notes}
      <4>1. DOMAIN j.inline = Rows \cup {Target("memory_node", n) : n \in DOMAIN j.notes}
        BY <1>3 DEF JournalShape
      <4> QED
        BY <2>3, <2>5, <4>1 DEF Longer
    <3>4. \A t \in DOMAIN k.inline : IsSeq(k.inline[t])
      <4>1. \A t \in DOMAIN j.inline : IsSeq(j.inline[t])
        BY <1>3 DEF JournalShape
      <4> HIDE DEF T
      <4> QED
        BY <2>5, <4>1, EmptyIsSeq
    <3> QED
      BY <1>3, <3>1, <3>2, <3>3, <3>4, <2>2, <2>3 DEF JournalShape
  <2>7. Follows(j, k)
    <3> HIDE DEF T, lists, note, event
    <3> QED
      BY <2>2, <2>3, <2>5, LongerItself DEF Follows
  <2>8. SourceRows(k)
    <3> HIDE DEF T, lists, note, event
    <3> QED
      BY <2>2 DEF Orderly, SourceRows
  <2>9. EventIsSo(k, event)
    BY <2>3 DEF EventIsSo, Joins
  <2>10. Orderly(k)
    <3> HIDE DEF event, T, lists, note
    <3>1. \A e \in k.log : EventIsSo(k, e)
      BY <2>2, <2>7, <2>9, InOrderStays
    <3>2. \A i \in DOMAIN k.edges : EdgeIsSo(k, k.edges[i])
      BY <2>2, <2>7, InOrderStays
    <3>3. \A t \in DOMAIN k.inline : \A i \in DOMAIN k.inline[t] : ObjectIsSo(k, t, k.inline[t][i])
      BY <2>5, <2>7, InOrderStays
    <3> QED
      BY <2>6, <2>8, <3>1, <3>2, <3>3 DEF Orderly
  <2> QED
    BY <1>5, <2>3, <2>7, <2>10 DEF k, r
<1> QED
  BY <1>2, <1>4, <1>5
\* The journal after an edge, its event, and what becomes of the lists.
EdgeMade(j, k, edge, event) ==
    /\ edge.source \in DOMAIN j.sources /\ edge.target \in DOMAIN j.inline
    /\ k = [sources |-> j.sources, edges |-> Append(j.edges, edge), inline |-> k.inline, notes |-> j.notes,
            log |-> j.log \cup {event}]
    /\ event.type \in Joins /\ event.fields = edge /\ event.id = Len(j.edges) + 1
    /\ event.type = "source.attached" => Inlined(k, edge.source, edge.target)
    /\ k.inline = [t \in DOMAIN j.inline |-> k.inline[t]]
    /\ \A t \in DOMAIN j.inline : IsSeq(k.inline[t]) /\ Longer(j.inline[t], k.inline[t])
    /\ \A t \in DOMAIN j.inline : \A i \in DOMAIN k.inline[t] : i \in DOMAIN j.inline[t] \/ ObjectIsSo(k, t, k.inline[t][i])

LEMMA WithEdge ==
    ASSUME NEW j, JournalShape(j), NEW a
    PROVE  [j EXCEPT !.edges = a] =
             [sources |-> j.sources, edges |-> a, inline |-> j.inline, notes |-> j.notes, log |-> j.log]
<1>1. j = [sources |-> j.sources, edges |-> j.edges, inline |-> j.inline, notes |-> j.notes, log |-> j.log]
  BY DEF JournalShape
<1> QED
  BY <1>1

LEMMA EdgeKeeps ==
    ASSUME NEW j, Orderly(j), NEW k, NEW edge, NEW event, EdgeMade(j, k, edge, event)
    PROVE  /\ Orderly(k) /\ Follows(j, k)
           /\ event.id \in DOMAIN k.edges /\ k.edges[event.id] = edge
<1>1. /\ k.sources = j.sources /\ k.edges = Append(j.edges, edge) /\ k.notes = j.notes
      /\ k.log = j.log \cup {event} /\ event.fields = edge /\ event.id = Len(j.edges) + 1 /\ event.type \in Joins
      /\ edge.source \in DOMAIN j.sources /\ edge.target \in DOMAIN j.inline
      /\ k.inline = [t \in DOMAIN j.inline |-> k.inline[t]]
      /\ k = [sources |-> j.sources, edges |-> Append(j.edges, edge), inline |-> k.inline, notes |-> j.notes,
              log |-> j.log \cup {event}]
  <2>1. k = [sources |-> j.sources, edges |-> Append(j.edges, edge), inline |-> k.inline, notes |-> j.notes,
              log |-> j.log \cup {event}]
    BY DEF EdgeMade
  <2> QED
    BY <2>1 DEF EdgeMade
<1>2. JournalShape(j)
  BY DEF Orderly
<1>3. /\ IsSeq(k.edges) /\ Longer(j.edges, k.edges) /\ event.id \in DOMAIN k.edges /\ k.edges[event.id] = edge
      /\ \A i \in DOMAIN k.edges : i \in DOMAIN j.edges \/ i = event.id
  <2>1. IsSeq(j.edges)
    BY <1>2 DEF JournalShape
  <2> QED
    BY <1>1, <2>1, OneMore
<1>4. /\ DOMAIN k.inline = DOMAIN j.inline
      /\ \A t \in DOMAIN k.inline : IsSeq(k.inline[t]) /\ Longer(j.inline[t], k.inline[t])
  BY <1>1 DEF EdgeMade
<1>5. JournalShape(k)
  <2>1. k = [sources |-> k.sources, edges |-> k.edges, inline |-> k.inline, notes |-> k.notes, log |-> k.log]
    BY <1>1
  <2> QED
    BY <1>1, <1>2, <1>3, <1>4, <2>1 DEF JournalShape
<1>6. Follows(j, k)
  BY <1>1, <1>3, <1>4, LongerItself DEF Follows
<1>7. SourceRows(k)
  BY <1>1 DEF Orderly, SourceRows
<1>8. EventIsSo(k, event)
  BY <1>1, <1>3 DEF EventIsSo, Joins, EdgeMade
<1>9. \A e \in k.log : EventIsSo(k, e)
  BY <1>1, <1>6, <1>8, InOrderStays
<1>10. \A i \in DOMAIN k.edges : EdgeIsSo(k, k.edges[i])
  <2>1. EdgeIsSo(k, edge)
    BY <1>1, <1>4 DEF EdgeIsSo
  <2>2. \A i \in DOMAIN j.edges : EdgeIsSo(k, j.edges[i]) /\ k.edges[i] = j.edges[i]
    BY <1>3, <1>6, InOrderStays DEF Longer
  <2> QED
    BY <1>3, <2>1, <2>2
<1>11. ASSUME NEW t \in DOMAIN k.inline, NEW i \in DOMAIN k.inline[t] PROVE ObjectIsSo(k, t, k.inline[t][i])
  <2>1. CASE i \in DOMAIN j.inline[t]
    <3>1. ObjectIsSo(k, t, j.inline[t][i])
      BY <1>4, <1>6, <2>1, InOrderStays
    <3> QED
      BY <1>4, <2>1, <3>1 DEF Longer
  <2>2. CASE i \notin DOMAIN j.inline[t]
    BY <1>4, <2>2 DEF EdgeMade
  <2> QED
    BY <2>1, <2>2
<1> QED
  BY <1>3, <1>5, <1>6, <1>7, <1>9, <1>10, <1>11 DEF Orderly

LEMMA LinkSourceKeeps ==
    ASSUME NEW j, Orderly(j), NEW c, c.source \in DOMAIN j.sources, c.target \in DOMAIN j.inline, LinkSource(j, c).ok
    PROVE  Orderly(LinkSource(j, c).j) /\ Follows(j, LinkSource(j, c).j)
<1> DEFINE edge == [source |-> c.source, target |-> c.target, type |-> c.type]
           id == Len(j.edges) + 1
           event == [type |-> "edge.created", key |-> c.key, fields |-> edge, id |-> id]
           new == [j EXCEPT !.edges = Append(@, edge)]
           r == LinkSource(j, c)
           k == r.j
<1>1. r = Once(j, "edge.created", c.key, edge, id, new)
  BY DEF LinkSource
<1>2. \/ r.id = id /\ k = [new EXCEPT !.log = @ \cup {event}]
      \/ k = j
  <2> HIDE DEF new, edge, id, r
  <2> QED
    BY <1>1, OnceIs DEF r
<1> HIDE DEF r
<1>3. JournalShape(j)
  BY DEF Orderly
<1>4. CASE k = [new EXCEPT !.log = @ \cup {event}]
  <2>1. k = [sources |-> j.sources, edges |-> Append(j.edges, edge), inline |-> j.inline, notes |-> j.notes,
             log |-> j.log \cup {event}]
    <3> HIDE DEF event, edge
    <3>1. new = [sources |-> j.sources, edges |-> Append(j.edges, edge), inline |-> j.inline, notes |-> j.notes, log |-> j.log]
      BY <1>3, WithEdge
    <3> HIDE DEF new
    <3> QED
      BY <1>4, <3>1
  <2> HIDE DEF k
  <2>2. edge.source \in DOMAIN j.sources /\ edge.target \in DOMAIN j.inline
    OBVIOUS
  <2>3. event.type \in Joins /\ event.fields = edge /\ event.id = Len(j.edges) + 1 /\ event.type # "source.attached"
    BY DEF Joins
  <2>4. /\ j.inline = [t \in DOMAIN j.inline |-> j.inline[t]]
        /\ \A t \in DOMAIN j.inline : IsSeq(j.inline[t]) /\ Longer(j.inline[t], j.inline[t])
    BY <1>3, LongerItself DEF JournalShape
  <2> HIDE DEF event, edge
  <2>5. k.inline = j.inline
    BY <2>1
  <2>6. EdgeMade(j, k, edge, event)
    BY <2>1, <2>2, <2>3, <2>4, <2>5 DEF EdgeMade
  <2> QED
    BY <2>6, EdgeKeeps DEF k, r
<1> QED
  BY <1>2, <1>4, FollowsItself DEF r

LEMMA AttachSourceKeeps ==
    ASSUME NEW j, Orderly(j), NEW c, c.source \in DOMAIN j.sources, c.target \in DOMAIN j.inline, AttachSource(j, c).ok
    PROVE  LET r == AttachSource(j, c) IN
           /\ Orderly(r.j) /\ Follows(j, r.j)
           /\ r.id \in DOMAIN r.j.edges
           /\ r.j.edges[r.id] = [source |-> c.source, target |-> c.target, type |-> EdgeType(j.sources[c.source].stance)]
           /\ Inlined(r.j, c.source, c.target)
<1> DEFINE edge == [source |-> c.source, target |-> c.target, type |-> EdgeType(j.sources[c.source].stance)]
           id == Len(j.edges) + 1
           object == InlineSource(j, c.source)
           list == WithSource(j.inline[c.target], object)
           inline == [j.inline EXCEPT ![c.target] = list]
           event == [type |-> "source.attached", key |-> c.key, fields |-> edge, id |-> id]
           new == [j EXCEPT !.edges = Append(@, edge), !.inline = inline]
           r == AttachSource(j, c)
           k == r.j
<1>1. r = Once(j, "source.attached", c.key, edge, id, new)
  BY DEF AttachSource
<1>2. \/ r.id = id /\ k = [new EXCEPT !.log = @ \cup {event}]
      \/ k = j /\ \E e \in j.log : e.type = "source.attached" /\ e.fields = edge /\ r.id = e.id
  <2> HIDE DEF new, edge, id, r
  <2> QED
    BY <1>1, OnceIs DEF r
<1> HIDE DEF r
<1>3. JournalShape(j)
  BY DEF Orderly
<1>4. CASE k = j /\ \E e \in j.log : e.type = "source.attached" /\ e.fields = edge /\ r.id = e.id
  <2>1. \A e \in j.log : EventIsSo(j, e)
    BY DEF Orderly
  <2>2. edge.source = c.source /\ edge.target = c.target
    OBVIOUS
  <2>3. r.id \in DOMAIN j.edges /\ j.edges[r.id] = edge /\ Inlined(j, c.source, c.target)
    <3> HIDE DEF edge
    <3> QED
      BY <1>4, <2>1, <2>2 DEF EventIsSo, Joins
  <2> QED
    BY <1>4, <2>3, FollowsItself DEF r
<1>5. CASE r.id = id /\ k = [new EXCEPT !.log = @ \cup {event}]
  <2>1. k = [sources |-> j.sources, edges |-> Append(j.edges, edge), inline |-> inline, notes |-> j.notes,
             log |-> j.log \cup {event}]
    <3> HIDE DEF event, edge, inline
    <3>2. new = [sources |-> j.sources, edges |-> Append(j.edges, edge), inline |-> inline, notes |-> j.notes, log |-> j.log]
      <4> DEFINE half == [j EXCEPT !.edges = Append(j.edges, edge)]
      <4>1. half = [sources |-> j.sources, edges |-> Append(j.edges, edge), inline |-> j.inline, notes |-> j.notes, log |-> j.log]
        BY <1>3, WithEdge
      <4>2. new = [half EXCEPT !.inline = inline]
        OBVIOUS
      <4> HIDE DEF half, new
      <4> QED
        BY <4>1, <4>2
    <3> HIDE DEF new
    <3> QED
      BY <1>5, <3>2
  <2> HIDE DEF k
  <2>2. /\ k.sources = j.sources /\ k.inline = inline /\ k.log = j.log \cup {event}
    <3> HIDE DEF event, edge, inline
    <3> QED
      BY <2>1
  <2>3. /\ j.inline = [t \in DOMAIN j.inline |-> j.inline[t]]
        /\ \A t \in DOMAIN j.inline : IsSeq(j.inline[t])
        /\ IsSeq(j.sources)
    BY <1>3 DEF JournalShape
  <2>4. /\ object.id = c.source /\ object.stance = j.sources[c.source].stance /\ object.status = j.sources[c.source].status
        /\ c.source # 0
    <3>1. c.source # 0
      BY <2>3, AppendIs
    <3> QED
      BY <3>1 DEF InlineSource
  <2>5. /\ IsSeq(list) /\ Longer(j.inline[c.target], list)
        /\ \E i \in DOMAIN list : list[i].id = c.source
        /\ \A i \in DOMAIN list : i \in DOMAIN j.inline[c.target] \/ list[i] = object
    <3> HIDE DEF object
    <3>1. CASE \E i \in DOMAIN j.inline[c.target] : j.inline[c.target][i].id = object.id
      <4>1. list = j.inline[c.target]
        BY <3>1 DEF WithSource
      <4> QED
        BY <2>3, <2>4, <3>1, <4>1, LongerItself
    <3>2. CASE ~\E i \in DOMAIN j.inline[c.target] : j.inline[c.target][i].id = object.id
      <4>1. list = Append(j.inline[c.target], object)
        BY <3>2 DEF WithSource
      <4>2. IsSeq(j.inline[c.target])
        BY <2>3
      <4> HIDE DEF list
      <4> QED
        BY <2>4, <4>1, <4>2, OneMore
    <3> QED
      BY <3>1, <3>2
  <2> HIDE DEF list, object
  <2>6. /\ inline = [t \in DOMAIN j.inline |-> inline[t]]
        /\ inline[c.target] = list /\ \A t \in DOMAIN j.inline \ {c.target} : inline[t] = j.inline[t]
    BY <2>3
  <2>7. edge.source = c.source /\ edge.target = c.target
    OBVIOUS
  <2>8. event.type = "source.attached" /\ event.fields = edge /\ event.id = id
    OBVIOUS
  <2> HIDE DEF event, edge, inline
  <2>9. Inlined(k, c.source, c.target)
    BY <2>2, <2>5, <2>6 DEF Inlined
  <2>10. \A t \in DOMAIN j.inline : IsSeq(inline[t]) /\ Longer(j.inline[t], inline[t])
    BY <2>3, <2>5, <2>6, LongerItself
  <2>11. ObjectIsSo(k, c.target, object)
    BY <2>2, <2>4, <2>7, <2>8 DEF ObjectIsSo
  <2>12. \A t \in DOMAIN j.inline : \A i \in DOMAIN inline[t] : i \in DOMAIN j.inline[t] \/ ObjectIsSo(k, t, inline[t][i])
    BY <2>5, <2>6, <2>11
  <2>13. EdgeMade(j, k, edge, event)
    BY <2>1, <2>2, <2>6, <2>7, <2>8, <2>9, <2>10, <2>12 DEF EdgeMade, Joins, id
  <2>14. /\ Orderly(k) /\ Follows(j, k) /\ event.id \in DOMAIN k.edges /\ k.edges[event.id] = edge
    BY <2>13, EdgeKeeps
  <2> QED
    BY <1>5, <2>8, <2>9, <2>14 DEF k, r, edge
<1> QED
  BY <1>2, <1>4, <1>5
\* What CaptureIsWhole says of one answer, and that its rows are there.
IsWhole(j, a) ==
    /\ a.source \in DOMAIN j.sources /\ j.sources[a.source].text = a.thought
    /\ a.note \in DOMAIN j.notes /\ j.notes[a.note] = [body |-> a.thought, source |-> a.source]
    /\ a.edge \in DOMAIN j.edges
    /\ j.edges[a.edge] = [source |-> a.source, target |-> Target("memory_node", a.note), type |-> "about"]
    /\ Inlined(j, a.source, Target("memory_node", a.note))

LEMMA CaptureKeeps ==
    ASSUME NEW j, Orderly(j), NEW c \in Captures, Capture(j, c).ok
    PROVE  LET r == Capture(j, c) IN Orderly(r.j) /\ Follows(j, r.j) /\ IsWhole(r.j, r.answer)
<1> DEFINE told == [key |-> ChildKey(c.key, "source"), kind |-> "note", stance |-> "neutral", status |-> "none",
                     hash |-> CaptureMarker(c), fresh |-> 0, captured |-> c.at, text |-> c.thought]
           s == AddSource(j, told)
           n == RetainDraft(s.j, ChildKey(c.key, "memory"), CaptureMarker(c), c.thought, s.id)
           attach == [key |-> ChildKey(c.key, "source-memory-edge"), source |-> s.id, target |-> Target("memory_node", n.id)]
           e == AttachSource(n.j, attach)
           r == Capture(j, c)
<1>1. /\ r.j = e.j /\ s.ok /\ n.ok /\ e.ok
      /\ r.answer = [thought |-> c.thought, source |-> s.id, note |-> n.id, edge |-> e.id]
  <2>1. r = [ok |-> s.ok /\ n.ok /\ e.ok, j |-> e.j,
             answer |-> [thought |-> c.thought, source |-> s.id, note |-> n.id, edge |-> e.id]]
    BY DEF Capture
  <2> HIDE DEF r, s, n, e
  <2>2. ASSUME ~(s.ok /\ n.ok /\ e.ok)
        PROVE  r = [ok |-> FALSE, j |-> e.j, answer |-> [thought |-> c.thought, source |-> s.id, note |-> n.id, edge |-> e.id]]
    <3>1. (s.ok /\ n.ok /\ e.ok) = FALSE
      BY <2>2
    <3> QED
      BY <2>1, <3>1, Zenon
  <2>3. s.ok /\ n.ok /\ e.ok
    BY <2>2 DEF r
  <2> QED
    BY <2>1, <2>3
<1>2. CaptureMarker(c) = c.thought
  BY DEF CaptureMarker
<1>3. /\ told.hash = c.thought /\ told.text = c.thought /\ told.stance = "neutral" /\ told.status = "none"
      /\ told.kind = "note"
  BY <1>2
<1>4. /\ Orderly(s.j) /\ Follows(j, s.j) /\ s.id \in DOMAIN s.j.sources
      /\ [s.j.sources[s.id] EXCEPT !.text = ""] = [Row(told) EXCEPT !.text = ""]
  <2> HIDE DEF told
  <2>1. \A k \in Captures : told.hash = k.thought => told.text = k.thought
    BY <1>3
  <2> QED
    BY <1>1, <2>1, AddSourceKeeps
<1>5. /\ s.j.sources[s.id].text = c.thought
      /\ s.j.sources[s.id].stance = "neutral"
  <2> DEFINE row == s.j.sources[s.id]
             bare == [row EXCEPT !.text = ""]
  <2>1. SourceRows(s.j)
    BY <1>4 DEF Orderly
  <2> HIDE DEF s, told
  <2>2. row = [kind |-> row.kind, stance |-> row.stance, status |-> row.status, hash |-> row.hash,
               fresh |-> row.fresh, captured |-> row.captured, text |-> row.text]
    BY <1>4, <2>1 DEF SourceRows
  <2> DEFINE added == Row(told)
  <2>3. /\ added = [kind |-> added.kind, stance |-> added.stance, status |-> added.status, hash |-> added.hash,
               fresh |-> added.fresh, captured |-> added.captured, text |-> added.text]
        /\ added.stance = told.stance /\ added.status = told.status /\ added.hash = told.hash
    BY DEF Row
  <2>4. row.stance = added.stance /\ row.status = added.status /\ row.hash = added.hash
    <3> HIDE DEF row, added
    <3>1. bare.stance = row.stance /\ bare.status = row.status /\ bare.hash = row.hash
      BY <2>2
    <3>2. LET b == [added EXCEPT !.text = ""] IN b.stance = added.stance /\ b.status = added.status /\ b.hash = added.hash
      BY <2>3
    <3> QED
      BY <1>4, <3>1, <3>2 DEF row, added
  <2>5. ~IsProtected(row)
    <3> HIDE DEF row, added
    <3> QED
      BY <1>3, <2>3, <2>4 DEF IsProtected, Protected
  <2>6. row.hash = c.thought /\ row.stance = "neutral"
    <3> HIDE DEF row, added
    <3> QED
      BY <1>3, <2>3, <2>4
  <2>7. row.text = c.thought
    BY <1>4, <2>1, <2>5, <2>6 DEF SourceRows
  <2> QED
    BY <2>6, <2>7
<1> HIDE DEF told, s
<1>6. /\ Orderly(n.j) /\ Follows(s.j, n.j)
      /\ n.id \in DOMAIN n.j.notes /\ n.j.notes[n.id] = [body |-> c.thought, source |-> s.id]
  <2>1. ASSUME NEW noteKey, NEW thought, NEW src, NEW m, m = RetainDraft(s.j, noteKey, thought, thought, src), m.ok
        PROVE  /\ Orderly(m.j) /\ Follows(s.j, m.j)
               /\ m.id \in DOMAIN m.j.notes /\ m.j.notes[m.id] = [body |-> thought, source |-> src]
    <3>1. Orderly(s.j)
      BY <1>4
    <3> QED
      BY <3>1, <2>1, RetainDraftKeeps
  <2>2. n = RetainDraft(s.j, ChildKey(c.key, "memory"), c.thought, c.thought, s.id) /\ n.ok
    BY <1>1, <1>2
  <2> HIDE DEF n
  <2> QED
    BY <2>1, <2>2
<1> HIDE DEF n
<1>7. /\ attach.source \in DOMAIN n.j.sources /\ attach.target \in DOMAIN n.j.inline
      /\ attach.source = s.id /\ attach.target = Target("memory_node", n.id)
      /\ n.j.sources[s.id].stance = "neutral" /\ n.j.sources[s.id].text = c.thought
  <2>1. s.id \in DOMAIN n.j.sources /\ n.j.sources[s.id] = s.j.sources[s.id]
    BY <1>4, <1>6 DEF Follows, Longer
  <2>2. Target("memory_node", n.id) \in DOMAIN n.j.inline
    BY <1>6 DEF Orderly, JournalShape
  <2> QED
    BY <1>5, <2>1, <2>2
<1> HIDE DEF attach
<1>8. /\ Orderly(e.j) /\ Follows(n.j, e.j) /\ e.id \in DOMAIN e.j.edges
      /\ e.j.edges[e.id] = [source |-> attach.source, target |-> attach.target, type |-> EdgeType(n.j.sources[attach.source].stance)]
      /\ Inlined(e.j, attach.source, attach.target)
  BY <1>1, <1>6, <1>7, AttachSourceKeeps
<1> HIDE DEF e, r
<1>9. Follows(j, e.j)
  BY <1>4, <1>6, <1>8, FollowsOn
<1>10. EdgeType("neutral") = "about"
  BY DEF EdgeType
<1>11. /\ s.id \in DOMAIN e.j.sources /\ e.j.sources[s.id].text = c.thought
       /\ n.id \in DOMAIN e.j.notes /\ e.j.notes[n.id] = n.j.notes[n.id]
  BY <1>6, <1>7, <1>8 DEF Follows, Longer
<1>12. IsWhole(e.j, r.answer)
  BY <1>1, <1>6, <1>7, <1>8, <1>10, <1>11 DEF IsWhole
<1> QED
  BY <1>1, <1>8, <1>9, <1>12 DEF r

LEMMA WholeStays == ASSUME NEW j, Orderly(j), NEW k, Follows(j, k), NEW a, IsWhole(j, a) PROVE IsWhole(k, a)
<1>1. Target("memory_node", a.note) \in DOMAIN j.inline
  BY DEF IsWhole, Orderly, JournalShape
<1>2. Inlined(k, a.source, Target("memory_node", a.note))
  BY <1>1 DEF Follows, Longer, IsWhole, Inlined
<1> QED
  BY <1>2 DEF Follows, Longer, IsWhole

CapturesInv == Orderly(tables) /\ \A a \in captured : IsWhole(tables, a)

LEMMA SourcesStart == SourcesInit => CapturesInv
<1> SUFFICES ASSUME SourcesInit PROVE CapturesInv
  OBVIOUS
<1>1. PICK g \in GivenInline :
        tables = [sources |-> << >>, edges |-> << >>, inline |-> g, notes |-> << >>, log |-> {}]
  BY DEF SourcesInit
<1>2. g \in [Rows -> Seq(InlineObject)]
  BY SourcesAssumption
<1>3. \A t \in Rows : g[t] \in Seq(InlineObject) /\ IsSeq(g[t])
  BY <1>2 DEF IsSeq
<1>4. /\ tables.sources = << >> /\ tables.edges = << >> /\ tables.inline = g /\ tables.notes = << >> /\ tables.log = {}
  BY <1>1
<1>5. DOMAIN << >> = {}
  OBVIOUS
<1>6. JournalShape(tables)
  <2>1. tables = [sources |-> tables.sources, edges |-> tables.edges, inline |-> tables.inline, notes |-> tables.notes,
                  log |-> tables.log]
    BY <1>1
  <2>2. DOMAIN g = Rows /\ g = [t \in Rows |-> g[t]]
    BY <1>2
  <2> QED
    BY <1>3, <1>4, <1>5, <2>1, <2>2, EmptyIsSeq DEF JournalShape
<1>7. ASSUME NEW t \in DOMAIN tables.inline, NEW i \in DOMAIN tables.inline[t]
      PROVE  ObjectIsSo(tables, t, tables.inline[t][i])
  <2>1. g[t] \in Seq(InlineObject) /\ i \in DOMAIN g[t]
    BY <1>2, <1>4, <1>7
  <2>2. g[t][i] \in InlineObject
    BY <2>1
  <2> QED
    BY <1>4, <2>2 DEF ObjectIsSo, InlineObject
<1>8. Orderly(tables)
  BY <1>4, <1>5, <1>6, <1>7 DEF Orderly, SourceRows
<1> QED
  BY <1>8 DEF CapturesInv, SourcesInit

LEMMA SourcesStep == CapturesInv /\ [SourcesNext]_sourcesVars => CapturesInv'
<1> SUFFICES ASSUME CapturesInv, [SourcesNext]_sourcesVars PROVE CapturesInv'
  OBVIOUS
<1>1. Orderly(tables)
  BY DEF CapturesInv
<1>2. ASSUME NEW k, tables' = k, Orderly(k), Follows(tables, k),
             \A a \in captured' \ captured : IsWhole(k, a)
      PROVE  CapturesInv'
  BY <1>1, <1>2, WholeStays DEF CapturesInv
<1>3. CASE \E c \in SourceAdds : SourceAdd(c)
  <2>1. PICK c \in SourceAdds : SourceAdd(c)
    BY <1>3
  <2>2. AddSource(tables, c).ok /\ tables' = AddSource(tables, c).j /\ captured' = captured
    BY <2>1 DEF SourceAdd, Kept
  <2>3. \A k \in Captures : c.hash = k.thought => c.text = k.thought
    BY SourcesAssumption
  <2> QED
    BY <1>1, <1>2, <2>2, <2>3, AddSourceKeeps
<1>4. CASE \E c \in SourceAttaches : SourceAttach(c)
  <2>1. PICK c \in SourceAttaches : SourceAttach(c)
    BY <1>4
  <2>2. /\ AttachSource(tables, c).ok /\ tables' = AttachSource(tables, c).j /\ captured' = captured
        /\ c.source \in DOMAIN tables.sources /\ c.target \in DOMAIN tables.inline
    BY <2>1 DEF SourceAttach, Kept, Exists
  <2> QED
    BY <1>1, <1>2, <2>2, AttachSourceKeeps
<1>5. CASE \E c \in SourceLinks : SourceLinked(c)
  <2>1. PICK c \in SourceLinks : SourceLinked(c)
    BY <1>5
  <2>2. /\ LinkSource(tables, c).ok /\ tables' = LinkSource(tables, c).j /\ captured' = captured
        /\ c.source \in DOMAIN tables.sources /\ c.target \in DOMAIN tables.inline
    BY <2>1 DEF SourceLinked, Kept, Exists
  <2> QED
    BY <1>1, <1>2, <2>2, LinkSourceKeeps
<1>6. CASE \E c \in Captures : IdeaCapture(c)
  <2>1. PICK c \in Captures : IdeaCapture(c)
    BY <1>6
  <2>2. /\ Capture(tables, c).ok /\ tables' = Capture(tables, c).j
        /\ captured' = captured \cup {Capture(tables, c).answer}
    BY <2>1 DEF IdeaCapture, Kept
  <2> QED
    BY <1>1, <1>2, <2>2, CaptureKeeps
<1>7. CASE UNCHANGED sourcesVars
  BY <1>1, <1>2, <1>7, FollowsItself DEF sourcesVars
<1> QED
  BY <1>3, <1>4, <1>5, <1>6, <1>7 DEF SourcesNext

\* A journal of sources stays in order, and what a capture was answered stays stored,
\* whatever calls are made, retried or repeated under other keys.
THEOREM SourcesInvariance == SourcesSpec => []CapturesInv
BY SourcesStart, SourcesStep, PTL DEF SourcesSpec

\* idea.capture is whole, whatever keys its parts met.
THEOREM CapturesAreWhole == SourcesSpec => []CaptureIsWhole
<1>1. CapturesInv => CaptureIsWhole
  BY DEF CapturesInv, CaptureIsWhole, IsWhole, Inlined
<1> QED
  BY <1>1, SourcesInvariance, PTL
-----------------------------------------------------------------------------
(* What report.source_quality makes of a journal in order *)

Attached == {[id |-> e.fields.source, target |-> e.fields.target] : e \in {f \in tables.log : f.type \in Joins}}
Owned == {Pair(a) : a \in {b \in InlineAttachments : b.id < 0}}

LEMMA EdgesAreAttached ==
    ASSUME Orderly(tables)
    PROVE  ByEdge = Attached /\ \A p \in Attached : p.id \in DOMAIN tables.sources /\ p.id \in Nat \ {0}
<1>1. \A e \in Edges : \E l \in tables.log : l.type \in Joins /\ l.fields = e
  BY DEF Orderly, EdgeIsSo, Edges
<1>2. \A l \in tables.log : l.type \in Joins => l.fields \in Edges
  BY DEF Orderly, EventIsSo, Edges
<1>3. ByEdge = Attached
  BY <1>1, <1>2 DEF ByEdge, Attached
<1>4. DOMAIN tables.sources \subseteq Nat \ {0}
  <2>1. IsSeq(tables.sources)
    BY DEF Orderly, JournalShape
  <2> QED
    BY <2>1, AppendIs
<1>5. ASSUME NEW p \in Attached PROVE p.id \in DOMAIN tables.sources
  <2>1. PICK l \in tables.log : l.type \in Joins /\ p = [id |-> l.fields.source, target |-> l.fields.target]
    BY DEF Attached
  <2> QED
    BY <2>1, AttachedIsThere
<1> QED
  BY <1>3, <1>4, <1>5

\* An object is its source's, which is attached, or the row's own.
LEMMA ObjectIs ==
    ASSUME Orderly(tables), NEW a \in InlineAttachments
    PROVE  /\ Pair(a) = [id |-> a.id, target |-> a.target]
           /\ \/ a.id < 0 /\ Pair(a) \in Owned
              \/ /\ Pair(a) \in Attached /\ a.id \in Nat \ {0}
                 /\ \A list : IsOn(list, a.object) <=> IsOn(list, tables.sources[a.id])
<1>1. PICK t \in DOMAIN tables.inline : \E i \in DOMAIN tables.inline[t] :
        a = [id |-> IF tables.inline[t][i].id # 0 THEN tables.inline[t][i].id ELSE 0 - i, target |-> t, object |-> tables.inline[t][i]]
  BY DEF InlineAttachments
<1>0. PICK i \in DOMAIN tables.inline[t] :
        a = [id |-> IF tables.inline[t][i].id # 0 THEN tables.inline[t][i].id ELSE 0 - i, target |-> t, object |-> tables.inline[t][i]]
  BY <1>1
<1> DEFINE o == tables.inline[t][i]
<1>2. a.id = (IF o.id # 0 THEN o.id ELSE 0 - i) /\ a.target = t /\ a.object = o
  BY <1>0
<1>3. i \in Nat \ {0}
  <2>1. IsSeq(tables.inline[t])
    BY DEF Orderly, JournalShape
  <2> QED
    BY <2>1, AppendIs
<1>4. Pair(a) = [id |-> a.id, target |-> a.target]
  BY DEF Pair
<1>5. CASE o.id = 0
  <2>1. a.id < 0
    BY <1>2, <1>3, <1>5
  <2> QED
    BY <1>4, <2>1 DEF Owned
<1>6. CASE o.id # 0
  <2>1. ObjectIsSo(tables, t, o)
    BY DEF Orderly
  <2>2. PICK l \in tables.log : l.type = "source.attached" /\ l.fields.source = o.id /\ l.fields.target = t
    BY <1>6, <2>1 DEF ObjectIsSo
  <2>3. Pair(a) \in Attached
    BY <1>2, <1>4, <1>6, <2>2 DEF Attached, Joins
  <2>4. o.stance = tables.sources[a.id].stance /\ o.status = tables.sources[a.id].status
    BY <1>2, <1>6, <2>1 DEF ObjectIsSo
  <2>5. \A list : IsOn(list, a.object) <=> IsOn(list, tables.sources[a.id])
    <3> HIDE DEF o
    <3> QED
      BY <1>2, <2>4 DEF IsOn, IsProtected
  <2> QED
    BY <1>4, <2>3, <2>5, EdgesAreAttached
<1> QED
  BY <1>5, <1>6

LEMMA ListsAre ==
    ASSUME Orderly(tables), NEW list
    PROVE  /\ ListedByEdge(list) \cap ListedInline(list) = {}
           /\ ListedByEdge(list) \cup ListedInline(list)
                = {p \in Attached : IsOn(list, tables.sources[p.id])}
                  \cup {p \in Owned : \E a \in InlineAttachments : Pair(a) = p /\ IsOn(list, a.object)}
<1> DEFINE On == {p \in Attached : IsOn(list, tables.sources[p.id])}
           OwnOn == {p \in Owned : \E a \in InlineAttachments : Pair(a) = p /\ IsOn(list, a.object)}
<1>1. ListedByEdge(list) = On
  BY EdgesAreAttached DEF ListedByEdge
<1>2. ListedInline(list) = {Pair(a) : a \in {b \in InlineAttachments : IsOn(list, b.object)}} \ On
  BY <1>1 DEF ListedInline, AlreadySeen
<1>3. \A p \in Owned : p \notin Attached
  <2>1. \A p \in Owned : p.id < 0
    BY DEF Owned, Pair
  <2> QED
    BY <2>1, EdgesAreAttached
<1>4. ASSUME NEW a \in InlineAttachments, IsOn(list, a.object), Pair(a) \notin On PROVE Pair(a) \in OwnOn
  BY <1>4, ObjectIs
<1> QED
  BY <1>1, <1>2, <1>3, <1>4

LEMMA SourcedAreNotMissing ==
    ASSUME Orderly(tables), NEW d \in MissingSources, NEW p \in Attached \cup Owned
    PROVE  p.target \notin {Target("thesis", d.thesis), Target("decision", d.id), Target("forecast", d.forecast)}
<1>1. CASE p \in Attached
  <2>1. \E e \in Edges : p.target = e.target
    BY <1>1, EdgesAreAttached DEF ByEdge
  <2> QED
    BY <2>1 DEF MissingSources
<1>2. CASE p \in Owned
  <2>1. PICK a \in InlineAttachments : p = Pair(a)
    BY <1>2 DEF Owned
  <2>2. PICK t \in DOMAIN tables.inline : \E i \in DOMAIN tables.inline[t] : t.kind \in ReadInline /\ a.target = t
    BY DEF InlineAttachments
  <2>3. p.target = t
    BY <2>1, <2>2 DEF Pair
  <2>4. t # Target("thesis", d.thesis)
    BY <2>2 DEF ReadInline, Target
  <2>5. tables.inline[t] # << >>
    BY <2>2
  <2> QED
    BY <2>3, <2>4, <2>5 DEF MissingSources
<1> QED
  BY <1>1, <1>2

LEMMA OldAreStale ==
    ASSUME Orderly(tables), NEW p \in Attached, NEW d \in Entered,
           p.target \in {Target("thesis", d.thesis), Target("decision", d.id)}, IsOld(tables.sources[p.id].fresh, d)
    PROVE  <<p.id, d.id>> \in StaleSources
<1>1. PICK e \in Edges : p.id = e.source /\ p.target = e.target
  BY EdgesAreAttached DEF ByEdge
<1>2. tables.sources[p.id].fresh # 0
  BY DEF IsOld
<1> DEFINE x == <<p.id, d>>
           compared == {<<f.source, y>> : f \in {g \in Edges : tables.sources[g.source].fresh # 0}, y \in Entered}
           seen == {z \in compared : \E f \in Edges : f.source = z[1]
                        /\ f.target \in {Target("thesis", z[2].thesis), Target("decision", z[2].id)}}
<1>3. x \in compared
  BY <1>1, <1>2
<1>4. x \in seen
  BY <1>1, <1>3
<1>5. x \in {y \in seen : IsOld(tables.sources[y[1]].fresh, y[2])} /\ <<x[1], x[2].id>> = <<p.id, d.id>>
  BY <1>4
<1> HIDE DEF x
<1>6. <<p.id, d.id>> \in {<<z[1], z[2].id>> : z \in {y \in seen : IsOld(tables.sources[y[1]].fresh, y[2])}}
  BY <1>5
<1> DEFINE inline == {z \in InlineAttachments \X Entered :
                        z[1].target = Target("decision", z[2].id) /\ <<z[1].id, z[2]>> \notin seen}
           byEdge == {<<z[1], z[2].id>> : z \in {y \in seen : IsOld(tables.sources[y[1]].fresh, y[2])}}
           told == {<<z[1].id, z[2].id>> : z \in {y \in inline : IsOld(y[1].object.fresh, y[2])}}
<1>7. StaleSources = byEdge \cup told
  BY DEF StaleSources
<1> QED
  <2> HIDE DEF byEdge, told
  <2> QED
    BY <1>6, <1>7 DEF byEdge

\* The total, the lists, the missing and the stale of report.source_quality.
THEOREM ReportsSeeOnce == SourcesSpec => []ReportSeesOnce
<1>1. CapturesInv => ReportSeesOnce
  <2> SUFFICES ASSUME Orderly(tables) PROVE ReportSeesOnce
    BY DEF CapturesInv
  <2>1. ByEdge \cup {Pair(a) : a \in InlineAttachments} = Attached \cup Owned
    <3>1. \A a \in InlineAttachments : Pair(a) \in Attached \cup Owned
      BY ObjectIs
    <3>2. \A p \in Owned : \E a \in InlineAttachments : p = Pair(a)
      BY DEF Owned
    <3> QED
      BY <3>1, <3>2, EdgesAreAttached
  <2>2. TotalAttachments = Cardinality(Attached \cup Owned)
    BY <2>1 DEF TotalAttachments
  <2> QED
    BY <2>2, ListsAre, SourcedAreNotMissing, OldAreStale DEF ReportSeesOnce, Attached, Owned, Joins
<1> QED
  BY <1>1, SourcesInvariance, PTL
=============================================================================
