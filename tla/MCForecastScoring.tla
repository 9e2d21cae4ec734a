------------------------- MODULE MCForecastScoring -------------------------
(* Small instances of ForecastScoring. *)
EXTENDS ForecastScoring

Overdue == [vocab |-> "yesno", due |-> "passed"]
OverdueForecasts == {Overdue}

\* The second final names the sides in other words than the forecasts do: it scores
\* them as failed.
Final(v, t) == [status |-> "resolved_final", sure |-> TRUE, vocab |-> v, resolvedAt |-> t]
Unsure == [status |-> "resolved_final", sure |-> FALSE, vocab |-> "yesno", resolvedAt |-> 1]
AnyOutcome == {Final("yesno", 1), Final("truefalse", 2), Unsure}
TwoFinals == AnyOutcome \ {Unsure}

MarketSymmetry == Permutations(Markets)
=============================================================================
