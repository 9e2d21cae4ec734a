-------------------------------- MODULE Risk --------------------------------
(***************************************************************************)
(* The deterministic risk evaluator and the two tables it feeds: versions   *)
(* of a policy, and receipts that record the verdict of a check.  An agent  *)
(* asks risk.evaluate for a verdict, which writes nothing, and hands it to   *)
(* risk.check_record, which accepts any consistent verdict but evaluates     *)
(* once more when the call also carries what was evaluated.                  *)
(*                                                                          *)
(* Numbers, categories and links are abstracted to how they compare with     *)
(* the rule: "ok", "over" or "absent" (missing, not a number, not finite).   *)
(***************************************************************************)
EXTENDS Integers, Sequences, FiniteSets, SequencesExt, FiniteSetsExt

CONSTANTS
    Policies,  \* what calls of risk.policy_version_add carry
    Checks,    \* what calls of risk.check_record carry, but for the verdict
    Claims,    \* verdicts that no evaluation produced
    RiskNull,  \* an omitted argument
    MaxRisk    \* bound on policies and on receipts

\* "limit" stands for the classes with a number and a bound: notional, the
\* exposures, the losses, spread, slippage and the time to resolution.
Classes == {"limit", "category", "links", "approval", "mode", "unknown"}
Readings == {"ok", "over", "absent"}
Severities == {"info", "warning", "missing_data", "hard_block"}

\* broken: the threshold is not what the class needs.
Rule == [id: STRING, class: Classes, severity: {"warning", "hard_block"}, broken: BOOLEAN]
Input == [Classes \cup {"approval_state"} -> Readings]
Policy == [name: STRING, version: Nat, rules: Seq(Rule), key: STRING]
Check == [policy: Nat, stored: Nat \cup {RiskNull}, inline: Input \cup {RiskNull}, stale: BOOLEAN,
          anchor: STRING, key: STRING]

ASSUME RiskAssumption ==
    /\ MaxRisk \in Nat \ {0}
    /\ Policies \subseteq Policy /\ Checks \subseteq Check

VARIABLES
    policies, \* risk_policy_versions rows
    receipts  \* risk_check_receipts rows, with what was evaluated, if told

RiskInit == policies = << >> /\ receipts = << >>

-----------------------------------------------------------------------------
(* The evaluator *)

RuleResult(rule, reason, severity) ==
    [rule |-> rule.id, reason |-> reason, severity |-> severity,
     missing |-> severity = "missing_data", stale |-> FALSE]

\* Why a rule cannot be applied.  A missing link is a violation, not missing data.
Unanswerable(rule, input) ==
    IF rule.class = "unknown" THEN "unknown_limit_class"
    ELSE IF rule.broken /\ rule.class # "mode" THEN "malformed_rule"
    ELSE IF input[rule.class] = "absent" /\ rule.class # "links" THEN "missing_input_data"
    ELSE ""

\* Mutant: a comparison with what is not a number is never true, so it passes.
SoftPass(rule, input) ==
    LET why == IF rule.class = "unknown" THEN "unknown_limit_class" ELSE ""
        severity == IF rule.class = "approval" THEN "warning" ELSE rule.severity
    IN IF why # "" THEN RuleResult(rule, why, "missing_data")
       ELSE IF input[rule.class] = "over" THEN RuleResult(rule, "violated", severity)
       ELSE RuleResult(rule, "within_limit", "info")

\* An amount that needs approval warns, unless the intent is already approved.
EvaluateOneRule(rule, input) ==
    LET why == Unanswerable(rule, input)
        severity == IF rule.class = "approval" THEN "warning" ELSE rule.severity
        excused == rule.class = "approval" /\ input["approval_state"] = "ok"
    IN IF why # "" THEN RuleResult(rule, why, "missing_data")
       ELSE IF input[rule.class] # "ok" /\ ~excused THEN RuleResult(rule, "violated", severity)
       ELSE RuleResult(rule, "within_limit", "info")

SeverityRank == [info |-> 0, warning |-> 1, missing_data |-> 2, hard_block |-> 3]
AggregateStatus == <<"pass", "warn", "missing_data", "fail">>
AggregateOutcome == [pass |-> "pass", warn |-> "warning", missing_data |-> "missing_data", fail |-> "hard_block"]

\* A stale snapshot marks every rule that could be applied, and warns.
EvaluateRiskPolicy(rules, input, stale) ==
    LET Result(i) == LET r == EvaluateOneRule(rules[i], input) IN [r EXCEPT !.stale = stale /\ ~r.missing]
        results == [i \in DOMAIN rules |-> Result(i)]
        worst == Max({0} \cup {SeverityRank[results[i].severity] : i \in DOMAIN rules}
                         \cup {1 : i \in {j \in DOMAIN rules : results[j].stale}})
        missing == \E i \in DOMAIN rules : results[i].missing
        status == IF missing /\ worst < 2 THEN "missing_data" ELSE AggregateStatus[worst + 1]
    IN [status |-> status, results |-> results,
        outcome |-> IF status = "warn" /\ stale THEN "stale_data" ELSE AggregateOutcome[status]]

-----------------------------------------------------------------------------
(* Policies and receipts *)

\* risk.policy_version_add: a used key replays; a version is taken once, and
\* the same content under another key is refused.
RiskPolicyVersionAdd(p) ==
    /\ Len(policies) < MaxRisk
    /\ \A i \in DOMAIN policies : /\ policies[i].key # p.key
                                  /\ <<policies[i].name, policies[i].version>> # <<p.name, p.version>>
    /\ policies' = Append(policies, p)
    /\ UNCHANGED receipts

\* What a check evaluates: the stored intent, completed by the inline one.  A stored
\* intent has its shape: pretrade_intent.record, the one writer, refuses an empty one,
\* so the {} that _load_intent falls back to is never used.
Merged(stored, inline) ==
    IF stored = RiskNull THEN inline
    ELSE IF inline = RiskNull THEN stored
    ELSE [k \in DOMAIN stored |-> IF stored[k] = "absent" THEN inline[k] ELSE stored[k]]

\* The consistency that check_record and the table demand of a verdict.
Recordable(v) ==
    LET missing == \E i \in DOMAIN v.results : v.results[i].missing
        stale == \E i \in DOMAIN v.results : v.results[i].stale
    IN /\ v.status = "pass" => v.outcome = "pass"
       /\ missing <=> v.status = "missing_data"
       /\ stale => v.status # "pass"
       /\ \A i, j \in DOMAIN v.results : v.results[i].rule = v.results[j].rule => i = j

Signature(v) ==
    <<v.status, v.outcome, {<<r.rule, r.reason, r.severity>> : r \in ToSet(v.results)}>>

\* The evaluation that the guard makes once more; none without its inputs.
Guarded(c, input, v) ==
    input # RiskNull => Signature(v) = Signature(EvaluateRiskPolicy(policies[c.policy].rules, input, c.stale))

\* risk.check_record of a verdict that is evaluated (and passed on verbatim) or
\* claimed; the same content is stored once, whatever its key.
RiskCheckRecord(c, input) ==
    /\ c.policy \in DOMAIN policies /\ Len(receipts) < MaxRisk
    /\ \A i \in DOMAIN receipts : receipts[i].key # c.key
    /\ \E v \in Claims \cup {EvaluateRiskPolicy(policies[c.policy].rules, i, c.stale) : i \in {input} \ {RiskNull}} :
          /\ Recordable(v) /\ Guarded(c, input, v)
          /\ \A i \in DOMAIN receipts :
                <<receipts[i].policy, receipts[i].verdict, receipts[i].anchor>> # <<c.policy, v, c.anchor>>
          /\ receipts' = Append(receipts, [policy |-> c.policy, verdict |-> v, anchor |-> c.anchor, key |-> c.key,
                                           input |-> input, stale |-> c.stale])
    /\ UNCHANGED policies

-----------------------------------------------------------------------------
(* What the receipts promise *)

\* Nothing stands between the rule and the input: the rule can be applied.
Applies(rule, input) ==
    /\ rule.class # "unknown"
    /\ rule.class = "mode" \/ ~rule.broken
    /\ rule.class = "links" \/ input[rule.class] # "absent"
Violates(rule, input) ==
    /\ Applies(rule, input)
    /\ input[rule.class] # "ok"
    /\ rule.class = "approval" => input["approval_state"] # "ok"

\* A receipt recorded with its inputs fails closed: a pass answers for every
\* rule on fresh data, a warning has no hard rule violated and none left open,
\* and missing data never hides a hard violation (evaluate_risk_policy, the
\* guard of risk.check_record, and the intent the check was told about).
VerdictsFailClosed ==
    \A n \in {i \in DOMAIN receipts : receipts[i].input # RiskNull} :
        LET r == receipts[n]
            rules == ToSet(policies[r.policy].rules)
            open == {x \in rules : ~Applies(x, r.input)}
            violated == {x \in rules : Violates(x, r.input)}
            hard == {x \in violated : x.class # "approval" /\ x.severity = "hard_block"}
        IN /\ r.verdict.status = "pass" => open \cup violated = {} /\ (rules = {} \/ ~r.stale)
           /\ r.verdict.status = "warn" => open \cup hard = {}
           /\ r.verdict.status = "missing_data" => hard = {}
=============================================================================
