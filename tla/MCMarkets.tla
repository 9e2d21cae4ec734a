----------------------------- MODULE MCMarkets -----------------------------
(* Instances of Markets, Promotion, Review and Arcs.  A behaviour makes the calls of *)
(* one of the groups below, or promotes bundles, or exports and reviews what others *)
(* wrote, or follows the plans of arcs. *)
EXTENDS Markets, Promotion, MCReview, MCArcs

View(closed, winner, rule, bid, last) ==
    [voided |-> FALSE, ambiguous |-> FALSE, resolved |-> FALSE, closed |-> closed, binary |-> TRUE, status |-> "",
     winner |-> winner, rule |-> rule, quote |-> [bid |-> bid, ask |-> IF closed THEN NoValue ELSE 60, last |-> last]]

\* One market that trades, closes and resolves; one that was never binary.
MCHistory ==
    [m \in Markets |->
        IF m = "event" THEN <<View(FALSE, "", "", 40, 55), View(TRUE, "", "prose", NoValue, 90), View(TRUE, "YES", "prose", NoValue, 0)>>
        ELSE <<[View(FALSE, "", "", 0, 20) EXCEPT !.binary = FALSE], [View(TRUE, "", "", NoValue, 20) EXCEPT !.voided = TRUE]>>]
MCSeries == [m \in Markets |-> <<[at |-> -2, quote |-> [bid |-> 30, ask |-> 50, last |-> 44]],
                                 [at |-> -1, quote |-> [bid |-> NoValue, ask |-> 50, last |-> 44]]>>]
MCTtl == [resolved |-> 2, open |-> 1, resolving |-> 1, ambiguous |-> 0, voided |-> 0]

C(id, op, market, key) ==
    [id |-> id, op |-> op, market |-> market, key |-> key, manual |-> FALSE, state |-> "open", rule |-> "mine"]
ByHand(c) == [c EXCEPT !.manual = TRUE]
Bind == C(1, "bind", "event", "b")
Refreshes == {C(4, "refresh", "event", "r"), C(5, "refresh", "event", "r")}
Outcomes == {C(6, "outcome", "event", "o"), C(7, "outcome", "event", "p")}
Snapshots == {C(8, "snapshot", "event", "s"), C(9, "snapshot", "event", "s")}
MCCalls == {Bind, ByHand(C(2, "bind", "event", "b")), ByHand(C(3, "bind", "other", "b")), C(10, "bind", "other", "c"),
            ByHand(C(11, "bind", "event", "")), C(12, "series", "event", "t"), C(13, "series", "event", "t")}
           \cup Refreshes \cup Outcomes \cup Snapshots

-----------------------------------------------------------------------------
B(parent, parts, given, attach) ==
    [parent |-> parent, parts |-> parts, sources |-> <<"a", "b">>, given |-> given, attach |-> attach,
     action |-> "watch", blocked |-> FALSE, reflects |-> FALSE]
Whole == B(<<"run", "scan">>, {"venue", "instrument", "thesis"}, {}, {"thesis", "decision"})
MCBundles == {Whole, [Whole EXCEPT !.action = "skip"],
              [B(<<"full">>, Parts, {}, {"thesis", "forecast"}) EXCEPT !.reflects = TRUE],
              B(<<"other">>, {"instrument", "thesis"}, {"instrument", "source:0"}, {"decision"}),
              B(<<"short">>, {"instrument", "forecast"}, {}, {"forecast"}),
              [B(<<"bad">>, {"venue"}, {}, {}) EXCEPT !.blocked = TRUE]}

-----------------------------------------------------------------------------
Groups == {[calls |-> {Bind} \cup Refreshes, moves |-> TRUE],
           [calls |-> {Bind} \cup Outcomes, moves |-> TRUE],
           [calls |-> {ByHand(C(2, "bind", "event", "b"))} \cup Snapshots, moves |-> TRUE],
           [calls |-> {Bind, ByHand(C(2, "bind", "event", "b")), ByHand(C(3, "bind", "other", "b")), ByHand(C(11, "bind", "event", ""))}, moves |-> FALSE],
           [calls |-> {ByHand(C(2, "bind", "event", "b")), C(10, "bind", "other", "c"), C(12, "series", "event", "t"), C(13, "series", "event", "t")}, moves |-> FALSE]}
MarketsStep(g) ==
    \/ g.moves /\ (Tick \/ VenueMoves)
    \/ \E c \in g.calls :
        \/ MarketBindReplayed(c) \/ MarketBindExisting(c) \/ MarketBindNew(c)
        \/ NotFound(c) \/ AnswerFromCache(c) \/ OutcomeFetchExisting(c)
        \/ \E a \in Agents : BeginFetch(a, c)
    \/ \E a \in Agents :
        \/ Fetch(a) \/ FetchFails(a) \/ Die(a)
        \/ UpsertMarket(a) \/ SnapshotFetch(a) \/ SnapshotFetchSeries(a) \/ OutcomeFetch(a)
Used == {r.id : r \in answers} \cup {job[a].call.id : a \in {b \in Agents : job[b] # NoValue}}
OneParent ==
    \E b \in Bundles :
        /\ \A i \in DOMAIN rows : IsPrefix(b.parent, rows[i].key)
        /\ \A p \in Promoters : promoting[p] # None => promoting[p].bundle.parent = b.parent
Quiet == clock = 0 /\ venueAt = [m \in Markets |-> 1] /\ Used = {}
Unread == toCome = (CHOOSE h \in Histories : TRUE) /\ time = 0 /\ ledger = << >> /\ open = {} /\ exports = {} /\ packages = {} /\ \A r \in Reviewers : review[r] = Nil
Unplanned == deaths = 0 /\ \A a \in Planners : planner[a] = NoOne
\* Those who call are alike: nothing they write names them.
Symmetry == Permutations(Agents) \cup Permutations(Promoters) \cup Permutations(Planners)

MCNext ==
    \/ /\ attempts = 0 /\ Unread /\ Unplanned /\ UNCHANGED <<promotionVars, reviewVars, arcsVars>>
       /\ \E g \in Groups : /\ Used \subseteq {c.id : c \in g.calls}
                            /\ ~g.moves => clock = 0 /\ \A m \in Markets : venueAt[m] = 1
                            /\ MarketsStep(g)
    \/ Quiet /\ Unread /\ Unplanned /\ PromotionNext /\ OneParent' /\ UNCHANGED <<marketsVars, reviewVars, arcsVars>>
    \/ Quiet /\ attempts = 0 /\ Unplanned /\ ReviewStep /\ UNCHANGED <<marketsVars, promotionVars, arcsVars>>
    \/ Quiet /\ attempts = 0 /\ Unread /\ ArcsNext /\ UNCHANGED <<marketsVars, promotionVars, reviewVars>>
MCInit == MarketsInit /\ PromotionInit /\ ReviewInit /\ ArcsInit
MCSpec == MCInit /\ [][MCNext]_<<marketsVars, promotionVars, reviewVars, arcsVars>>
=============================================================================
