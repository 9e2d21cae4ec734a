------------------------------- MODULE MCDesk -------------------------------
(* Small instances of Desk and WorkQueue: entries on both sides of a market, entries *)
(* that the matrix or the database refuse, and non-actions with and without deadlines. *)
(* A run trades, or reads what is owed while a few records are written. *)
EXTENDS WorkQueue

CONSTANT m1

Entry(side, q, p) ==
    [market |-> m1, type |-> "paper_enter", side |-> side, quantity |-> q, price |-> p,
     reviewBy |-> None, scoped |-> FALSE, marked |-> FALSE]
Other(type, m, by, scoped, marked) ==
    [market |-> m, type |-> type, side |-> None, quantity |-> None, price |-> None,
     reviewBy |-> by, scoped |-> scoped, marked |-> marked]

Entries == {Entry("yes", 1, 40), Entry("yes", 0, 40), Entry("no", 1, 45),
            Entry("flat_neutral", 1, 40)}
Recorded == {[Entry("yes", 1, 40) EXCEPT !.type = "actual_enter"]}
NonActions == {Other("watch", m1, 1, FALSE, FALSE), Other("watch", m1, 1, TRUE, FALSE),
               Other("update_thesis", m1, None, FALSE, FALSE), Other("hold", m1, None, FALSE, TRUE),
               Other("review", m1, 1, FALSE, FALSE), Other("skip", m1, None, FALSE, FALSE)}
Resolutions == {Other("resolved", m1, None, FALSE, FALSE)}
Refused == {Other("skip", m1, 1, FALSE, FALSE)}

Kinds == Entries \cup Recorded \cup NonActions \cup Resolutions \cup Refused

-----------------------------------------------------------------------------
Owing == {Other("watch", m1, 1, TRUE, FALSE), Other("review", m1, 1, FALSE, FALSE)}
MCForecastKinds == {[market |-> m1, due |-> None], [market |-> m1, due |-> 1]}
MCLiveUntil == [m \in Markets |-> 2]
MCBudgets == {[items |-> 9, fits |-> {"active_ideas", "obligations"}, pruned |-> 0],
              [items |-> 1, fits |-> {"active_ideas", "obligations"}, pruned |-> 1],
              [items |-> 9, fits |-> {"obligations"}, pruned |-> 2],
              [items |-> 9, fits |-> {}, pruned |-> 0]}

Trades == Next /\ calls = 0 /\ forecasts = << >> /\ UNCHANGED <<sources, readers>>
\* How much has been written.
Written == Len(decisions) + Len(forecasts) + notes + Cardinality(resolved)
Reads ==
    /\ QueueNext
    /\ walk # None => ~walk.done
    /\ packet # None => packet.step # "done"
    /\ events' = << >> /\ snapshots' = {}
    /\ \A d \in DOMAIN decisions' : decisions'[d].kind \in Owing
    /\ Written' <= IF calls = 0 THEN 2 ELSE 3
MCSpec == QueueInit /\ [][Trades \/ Reads]_queueVars
=============================================================================
