------------------------------ MODULE MCReview ------------------------------
(* An instance of Review. *)
EXTENDS Review

R(kind, id, refs) ==
    [id |-> id, kind |-> kind, refs |-> refs, on |-> IF kind \in {"thesis", "decision", "snapshot", "outcome"} THEN "m" ELSE Nil,
     from |-> 0, until |-> Nil, status |-> "none"]
Decided == <<R("thesis", "t", {}), R("snapshot", "n", {}), R("forecast", "f", {"t"}), R("decision", "d", {"t", "f", "n"})>>
Resolved == <<R("outcome", "o", {}), R("score", "s", {"f", "o"})>>
Sourced(status) == <<[R("source", "x", {}) EXCEPT !.status = status]>>

\* A decision that is sourced, resolved and recalled for; a thesis that expires
\* and one that is invalid from the start; a lifecycle; recalls beyond the cap; a
\* decision on another instrument than its forecast, and an intent on that one.
MCHistories == {
    <<Sourced("redacted"), Decided, <<R("edge", "e", {"x", "d"})>>, Resolved>>,
    <<Sourced("sensitive") \o <<R("thesis", "t", {}), [R("forecast", "f", {"t"}) EXCEPT !.until = 2]>>, <<R("edge", "e", {"x", "f"})>>,
      <<R("recall", "r", {"m"})>>, <<R("decision", "d", {"f"})>>>>,
    <<<<[R("thesis", "t", {}) EXCEPT !.until = 0], R("forecast", "f", {"t"}), R("decision", "d", {"t", "f"})>>,
      <<[R("artifact", "a", {}) EXCEPT !.from = 1]>>>>,
    <<Decided, <<R("intent", "i", {"d"})>>, <<R("risk", "k", {}), R("approval", "p", {"i", "k"})>>, Resolved>>,
    <<SubSeq(Decided, 1, 3) \o <<[R("decision", "d", {"t", "f"}) EXCEPT !.on = "n"]>>, <<[R("intent", "i", {}) EXCEPT !.on = "n"]>>, Resolved>>,
    <<SubSeq(Decided, 1, 3) \o <<[R("decision", "d", {"t", "f"}) EXCEPT !.on = "n"]>>, <<R("decision", "e", {})>>, Resolved>>}

Q(asOf, mode, named) ==
    [asOf |-> asOf, mode |-> mode, labels |-> mode = "review_original", max |-> 2, withForecast |-> Nil, named |-> named]
MCRequests == {Q(1, "blind_decision", {}), Q(1, "review_original", {[kind |-> "decision", id |-> "d"], [kind |-> "recall", id |-> "r"]}),
               [Q(2, "forecast_only", {}) EXCEPT !.withForecast = TRUE, !.max = 1]}

\* A run makes case bundles or one package, for which the clock does not matter.
Tools == {review[r].tool : r \in {x \in Reviewers : review[x] # Nil}}
ReviewStep ==
    /\ ReviewNext
    /\ \/ packages' = {} /\ Tools' \subseteq {"cases"}
       \/ time' = 0 /\ exports' = {} /\ Tools' \subseteq {"review"}
MCReviewSpec == ReviewInit /\ [][ReviewStep]_reviewVars
=============================================================================
