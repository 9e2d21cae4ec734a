----------------------------- MODULE MCEvidence -----------------------------
(* Instances of Evidence, Sources and Readiness.  The ledgers meet in few places, so *)
(* a run of the system makes the calls of one of the groups below, or those on       *)
(* sources, or asks how ready the journal is.                                        *)
EXTENDS Evidence, Sources, MCReadiness

Base(kind, sem, key, body) ==
    [kind |-> kind, sem |-> sem, key |-> key, refs |-> {"market"}, own |-> TRUE, pinned |-> FALSE, body |-> body]

-----------------------------------------------------------------------------
(* Risk: a required link and a loss limit, with and without names of their own. *)

MCRule(id, class, severity) == [id |-> id, class |-> class, severity |-> severity, broken |-> FALSE]
MCPolicy(version, rules, key) == [name |-> "desk", version |-> version, rules |-> rules, key |-> key]
MCPolicies == {
    MCPolicy(1, <<MCRule("links", "links", "hard_block"), MCRule("loss", "limit", "warning")>>, "p1"),
    MCPolicy(2, <<MCRule("limit", "limit", "hard_block"), MCRule("size", "approval", "hard_block")>>, "p2"),
    MCPolicy(2, <<MCRule("mode", "mode", "hard_block"), MCRule("new", "unknown", "warning")>>, "p3"),
    MCPolicy(3, <<[MCRule("category", "category", "warning") EXCEPT !.broken = TRUE]>>, "p2")}

Seen(links, limit, approval, state) ==
    [limit |-> limit, category |-> "ok", links |-> links, approval |-> approval,
     mode |-> "ok", unknown |-> "absent", approval_state |-> state]
Checked(policy, stored, inline, stale, key) ==
    [policy |-> policy, stored |-> stored, inline |-> inline, stale |-> stale, anchor |-> "a", key |-> key]
MCChecks ==
    {Checked(p, RiskNull, Seen(links, limit, "over", state), stale, "c1") :
        p \in {1, 2}, links \in {"ok", "absent"}, limit \in Readings, state \in {"ok", "absent"}, stale \in BOOLEAN}
    \cup {Checked(1, 1, Seen("ok", "over", "ok", "ok"), FALSE, "c2"), Checked(1, 1, RiskNull, FALSE, "c3"),
          Checked(1, RiskNull, RiskNull, FALSE, "c4")}
MCClaims == {[status |-> "pass", outcome |-> "pass", results |-> << >>]}

-----------------------------------------------------------------------------
(* Evidence *)

Planned(approval, linked, receipt) ==
    [approval |-> approval, evidence |-> linked, stale |-> ~linked, receipt |-> receipt,
     input |-> Seen("absent", "absent", "ok", "absent")]
Intents == {Base("intent", "trade", "k1", Planned("approved_elsewhere", FALSE, 0)),
            Base("intent", "trade", "k2", Planned("approved_elsewhere", FALSE, 0)),
            Base("intent", "trade", "k2", Planned("pending_external_review", TRUE, 0)),
            [Base("intent", "hedge", "k1", Planned("not_requested", TRUE, 0)) EXCEPT !.pinned = TRUE],
            Base("intent", "trade", "", Planned("not_requested", FALSE, 1))}

Decided(type, decision, about) ==
    [type |-> type, decision |-> decision, permitted |-> type # "denial", about |-> about, external |-> about = 0]
Approvals == {Base("approval", "w1", "k1", Decided("approval", "approved", 0)),
              Base("approval", "w2", "k2", Decided("denial", "denied", 1)),
              [Base("approval", "w3", "k3", Decided("hard_block_override_attempt", "attempted", 0)) EXCEPT !.pinned = TRUE]}

Executed(state, event, about, asOf) ==
    [state |-> state, event |-> event, about |-> about, fill |-> "f1", asOf |-> asOf,
     priced |-> about # 0, fee |-> asOf = 2, sums |-> FALSE, negative |-> state = "partial_fill"]
Externals == {Base("external", "e1", "k1", Executed("rejected", "order", 1, 1)),
              Base("external", "e2", "k2", Executed("partial_fill", "fill", 0, 2)),
              Base("external", "e3", "k3", Executed("filled", "fill", 1, 1))}

Held(precedence, asOf, staleness) ==
    [precedence |-> precedence, asOf |-> asOf, staleness |-> staleness, positions |-> 0,
     readable |-> asOf = 1, facts |-> precedence = 1]
Accounts == {Base("account", "s1", "k1", Held(1, 1, "stale")), Base("account", "s2", "k2", Held(0, 1, "fresh")),
             Base("account", "s3", "k3", Held(1, 2, "fresh"))}

Reconciled(sem, key, asOf, severity) == Base("reconciliation", sem, key, [asOf |-> asOf, severity |-> severity])
Reconciliations == {Reconciled("r1", "k1", 1, ""), Reconciled("r2", "k2", 2, "none"), Reconciled("r3", "k3", 1, "")}

\* Requests for one fill: some differ only in what the record does not keep, some
\* show a book in their evidence that is not the book they send.
Ordered(side, quantity, limit, book, mid) ==
    [side |-> side, quantity |-> quantity, limit |-> limit, book |-> book, age |-> {30}, maxAge |-> 60,
     mid |-> mid, cap |-> {500}, cited |-> {}]
Books == {<< >>, <<[price |-> 6, quantity |-> 4]>>} \cup [1..2 -> [price : {4, 5}, quantity : {1, 2}]]
Five == [Ordered("buy", 1, 5, <<[price |-> 5, quantity |-> 1]>>, {}) EXCEPT !.age = {61}]
Papers == {Base("paper", "fill", "k1", Ordered(side, 3, 5, book, mid)) :
              side \in {"buy", "sell"}, book \in Books, mid \in {{4}, {6}}}
          \cup {Base("paper", "fill", "k2", b) :
                   b \in {Five, [Five EXCEPT !.maxAge = 90], [Five EXCEPT !.age = {}],
                          [Five EXCEPT !.maxAge = 61, !.cited = {<< >>}],
                          [Five EXCEPT !.maxAge = 90, !.cited = {<< >>}, !.book = <<[price |-> 4, quantity |-> 1]>>],
                          [Five EXCEPT !.maxAge = 90, !.cited = {<< >>}, !.book = @ \o @]}}

Others == {Base("artifact", "a1", "k1", [size |-> 1]), Base("abstention", "x1", "k1", [reason |-> 1]),
           Base("abstention", "x1", "k1", [reason |-> 2]), Base("interpretation", "f1", "k1", [yes |-> 1]),
           Base("interpretation", "f1", "k2", [yes |-> 2])}

MCCalls == Intents \cup Approvals \cup Externals \cup Accounts \cup Reconciliations \cup Papers \cup Others

\* The calls that one run of the system makes, and what else happens in it.
Trade == CHOOSE c \in Intents : c.key = "k1" /\ c.sem = "trade"
Groups == {[calls |-> {Trade} \cup Approvals \cup (Externals \ {c \in Externals : c.sem = "e2"})
                      \cup (Reconciliations \ {c \in Reconciliations : c.sem = "r2"}), moves |-> FALSE, risk |-> FALSE],
           [calls |-> Accounts \cup {c \in Externals : c.sem = "e2"} \cup Reconciliations, moves |-> TRUE, risk |-> FALSE],
           [calls |-> Papers \cup {c \in Reconciliations : c.sem = "r1"}, moves |-> TRUE, risk |-> FALSE],
           [calls |-> {c \in Intents : c.sem = "trade" /\ c.key # "k1"}, moves |-> FALSE, risk |-> TRUE],
           [calls |-> Intents \cup Others, moves |-> FALSE, risk |-> FALSE]}
MCNext ==
    \E g \in Groups :
        /\ {a.call : a \in answers} \subseteq g.calls
        /\ open = 0 \/ g.moves
        /\ policies = << >> \/ g.risk
        /\ \/ g.risk /\ RiskNext
           \/ g.moves /\ PositionsMove
           \/ \E c \in g.calls : Handle(c)

-----------------------------------------------------------------------------
(* Sources: two decisions that share a thesis; one came with an object of its own. *)

MCEntered == {[id |-> 1, thesis |-> 1, forecast |-> 1, at |-> 20], [id |-> 2, thesis |-> 1, forecast |-> 2, at |-> 9]}
MCGiven == {[t \in Rows |-> IF t = Target("decision", 1) /\ own
                             THEN <<[id |-> 0, stance |-> "redacted", status |-> "none", hash |-> "h", fresh |-> 0]>>
                             ELSE << >>] : own \in BOOLEAN}
Added(key, stance, status, fresh) ==
    [key |-> key, kind |-> "news", stance |-> stance, status |-> status, hash |-> "h", fresh |-> fresh, captured |-> 5, text |-> "t"]
MCSourceAdds == {Added(<<"k">>, "official_source", "redacted", 8), Added(<<"k">>, "supports", "none", 0),
                 [Added(<<"c", "source">>, "neutral", "none", 0) EXCEPT !.kind = "note", !.hash = "yes", !.text = "yes"],
                 Added(NoKey, "official_source", "none", 15)}
On(key, source, kind, id) == [key |-> key, source |-> source, target |-> Target(kind, id)]
MCAttaches == {On(<<"k">>, 1, "decision", 1), On(<<"l">>, 1, "decision", 1), On(<<"c", "source-memory-edge">>, 1, "thesis", 1),
               On(NoKey, 2, "memory_node", 1), On(<<"l">>, 2, "decision", 2)}
MCSourceLinks == {[key |-> <<"k">>, source |-> 1, target |-> Target("forecast", 2), type |-> "contradicts"],
                  [key |-> NoKey, source |-> 1, target |-> Target("decision", 1), type |-> "supports"]}
MCCaptures == {[key |-> key, thought |-> thought, at |-> 5] : key \in {<<"c">>, NoKey}, thought \in {"yes", "no"}}

MCInit == EvidenceInit /\ SourcesInit /\ ReadinessInit
Unasked == evidence = [t \in Tables |-> << >>] /\ writing = (CHOOSE h \in Histories : TRUE) /\ report = [r \in Readers |-> Nil] /\ given = {}
MCSpec == MCInit /\ [][\/ SourcesInit /\ Unasked /\ MCNext /\ UNCHANGED <<sourcesVars, readinessVars>>
                       \/ EvidenceInit /\ Unasked /\ SourcesNext /\ UNCHANGED <<evidenceVars, readinessVars>>
                       \/ EvidenceInit /\ SourcesInit /\ MCReadinessNext /\ UNCHANGED <<evidenceVars, sourcesVars>>]_<<evidenceVars, sourcesVars, readinessVars>>
=============================================================================
