----------------------------- MODULE MCImports -----------------------------
(* Instances of Imports: JSONL files with one defect each and a sound one, in both *)
(* modes, or two runs of one CSV file whose artifacts are one file. *)
EXTENDS Imports, TLC

W(id, key, ref, body) == [role |-> "writer", id |-> id, key |-> key, ref |-> ref, body |-> <<body>>]
Skipped(role) == [W(Nothing, Nothing, Nothing, role) EXCEPT !.role = role]

MCFirstRows == <<[id |-> <<"i1">>, key |-> Nothing, ref |-> Nothing, body |-> <<"instrument">>, by |-> 0]>>
MCJsonlFiles ==
    "keyed" :> <<W(Nothing, <<"k1">>, <<"i1">>, "a"), Skipped("cascaded"), W(Nothing, <<"k2">>, <<"i1">>, "b")>>
    @@ "with ids" :> <<W(<<"i2">>, Nothing, Nothing, "c"), Skipped("diagnostic"), W(<<"i3">>, Nothing, <<"i2">>, "d")>>
    @@ "keyless" :> <<W(Nothing, Nothing, <<"i1">>, "e"), W(Nothing, <<"k2">>, <<"i2">>, "f")>>
    @@ "mixed" :> <<W(<<"i4">>, Nothing, Nothing, "g"), W(Nothing, <<"k3">>, <<"i1">>, "h")>>
    @@ "ahead" :> <<W(<<"i4">>, Nothing, <<"i5">>, "i"), W(<<"i5">>, Nothing, Nothing, "j")>>
    @@ "foreign" :> <<W(Nothing, <<"k3">>, <<"i1">>, "k"), Skipped("other tool")>>
    @@ "torn" :> <<W(Nothing, <<"k3">>, <<"i1">>, "k"), Skipped("malformed")>>
Com(file, mode, halt, dry) == [file |-> file, mode |-> mode, halt |-> halt, dry |-> dry]
MCCommits ==
    {Com(f, m, TRUE, FALSE) : f \in {"keyed", "with ids", "keyless"}, m \in {"single", "per_row"}}
    \cup {Com("keyless", "per_row", FALSE, FALSE), Com("keyed", "single", TRUE, TRUE)}
    \cup {Com(f, "per_row", TRUE, FALSE) : f \in {"mixed", "ahead", "foreign", "torn"}}

MCCsvFiles ==
    "fills" :> <<[s |-> "buy", q |-> "2"], [s |-> "sell", q |-> Nothing]>>
    @@ "other" :> <<[s |-> "held", q |-> "1"]>>
At(side) == [executed_at |-> [static |-> "now"], side |-> side, price |-> [static |-> "1"],
             quantity |-> [column |-> "q", default |-> "1"], instrument_id |-> [static |-> "i1"]]
Plain == At([column |-> "s"])
Listed == At([column |-> "s", values |-> "buy" :> "yes" @@ "sell" :> "no"])
Short == [t \in DOMAIN Plain \ {"price"} |-> Plain[t]]
Fi(csv, mapping, run, mode) == [csv |-> csv, mapping |-> mapping, run |-> run, mode |-> mode, halt |-> TRUE, dry |-> FALSE]
\* Two names of runs that differ in their punctuation only, and one of its own.
MCSegmentOf == "r.1" :> "r-1" @@ "r-1" :> "r-1" @@ "s" :> "s"
MCFills == {Fi("fills", Plain, "r.1", "per_row"), Fi("fills", Listed, "r-1", "single"),
            Fi("fills", Plain, "s", "per_row"), Fi("other", Plain, "s", "single"), Fi("fills", Short, "s", "single")}
MCOtherLines == {W(<<"i2">>, Nothing, Nothing, "venue"), W(Nothing, <<"k2">>, <<"i1">>, "other")}
=============================================================================
