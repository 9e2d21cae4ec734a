------------------------------- MODULE MCArcs -------------------------------
(* An instance of Arcs: a market that is known, and what is known of it. *)
EXTENDS Arcs

Old(kind, refs) == [kind |-> kind, key |-> <<"old", kind>>, refs |-> refs, type |-> ""]
MCMarket == <<Old("venue", {}), Old("instrument", {1}), Old("snapshot", {2}), Old("source", {}), Old("memory_node", {}),
              Old("thesis", {2}), Old("edge", {4, 6})>>
Supplied(kinds) == [k \in RowKinds |-> IF k \in kinds THEN CHOOSE i \in DOMAIN MCMarket : MCMarket[i].kind = k ELSE 0]
Ask(arc, prefix, kinds) == [arc |-> arc, prefix |-> prefix, ids |-> Supplied(kinds)]
MCOrders == {Ask("watch", "p", {"venue", "instrument", "snapshot"}),
             Ask("skip", "q", {"venue", "instrument", "snapshot", "source", "thesis"}),
             Ask("paper_enter", "r", {"venue", "instrument", "snapshot", "source", "memory_node"})}

ASSUME MCPlansFit == PlansFit
=============================================================================
