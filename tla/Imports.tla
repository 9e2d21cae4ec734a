------------------------------ MODULE Imports ------------------------------
(***************************************************************************)
(* import.commit and import.csv_fills: lines of JSONL that are replayed    *)
(* through core.dispatch, into a staged copy of the journal (single) or    *)
(* into the journal itself (per_row), beside other writers.                *)
(*                                                                         *)
(* The comparison of the files' fingerprints is one step with their        *)
(* replacement; what may come between the two is in JournalFiles.  A line  *)
(* stands for the call it makes: its id and key, if it states them, the    *)
(* row it refers to and the rest of its arguments, its body.  All lines    *)
(* are of one actor, and a key is unique in its event type by its name.    *)
(* Limits of rows, bytes and errors are left out.                          *)
(***************************************************************************)
EXTENDS Integers, Sequences, FiniteSets, SequencesExt

CONSTANTS
    Importers,   \* processes that run the two tools
    Commits,     \* calls of import.commit: [file, mode, halt, dry]
    Fills,       \* calls of import.csv_fills: [csv, mapping, run, mode], and
                 \* halt = TRUE and dry = FALSE, which are the defaults it goes on with
    JsonlFiles,  \* the lines of each file
    CsvFiles,    \* the rows of each file, each a function of the columns
    SegmentOf,   \* directory of a run's artifact, shared by runs that fold alike
    Numbers,     \* values of a column that are numbers
    Nothing,     \* an absent value
    FirstRows,   \* the ledger before
    OtherLines,  \* calls of other processes
    MaxImports, MaxOthers   \* bounds

\* No id or key is given twice, and a row refers to one before it.
Sound(rows) ==
    /\ \A i, j \in DOMAIN rows : i # j =>
        rows[i].id # rows[j].id /\ (rows[i].key = rows[j].key => rows[i].key = Nothing)
    /\ \A i \in DOMAIN rows : rows[i].ref = Nothing \/ \E j \in 1..(i - 1) : rows[j].id = rows[i].ref

\* The server's ids, which begin with "row" here, are made up as it goes and are
\* stated by no line.
Stated(id) == id = Nothing \/ id[1] # "row"
Names == {Nothing} \cup Seq(STRING)

ASSUME ImportsAssumption ==
    /\ \A c \in Commits \cup Fills : c.mode \in {"single", "per_row"} /\ {c.halt, c.dry} \subseteq BOOLEAN
    /\ \A c \in Commits : "csv" \notin DOMAIN c /\ c.file \in DOMAIN JsonlFiles
    /\ \A f \in Fills : "csv" \in DOMAIN f /\ f.csv \in DOMAIN CsvFiles /\ ~f.dry
    /\ \A lines \in {JsonlFiles[f] : f \in DOMAIN JsonlFiles} \cup {CsvFiles[f] : f \in DOMAIN CsvFiles} :
         Len(lines) \in Nat /\ DOMAIN lines = 1..Len(lines)
    /\ \A f \in DOMAIN JsonlFiles : \A i \in DOMAIN JsonlFiles[f] : Stated(JsonlFiles[f][i].id)
    /\ \A line \in OtherLines : Stated(line.id)
    /\ FirstRows \in Seq([id : Names, key : Names, ref : Names, body : Names, by : {0}]) /\ Sound(FirstRows)
    /\ \A i \in DOMAIN FirstRows : FirstRows[i].id # Nothing /\ Stated(FirstRows[i].id)
    /\ {MaxImports, MaxOthers} \subseteq Nat

VARIABLES
    ledger,      \* the rows, in the order they were written
    artifacts,   \* lines of the files under import/csv, by segment and stem
    importing,   \* what each process is doing
    imports,     \* the imports begun: their call, the lines they read, their end
    others       \* calls of other processes made

importVars == <<ledger, artifacts, importing, imports, others>>

IdleImport == [stage |-> "none"]
ImportsInit ==
    /\ ledger = FirstRows /\ artifacts = << >> /\ others = 0
    /\ importing = [p \in Importers |-> IdleImport] /\ imports = << >>

-----------------------------------------------------------------------------
(* A line through core.dispatch *)

Ids(rows) == {rows[i].id : i \in DOMAIN rows} \ {Nothing}
WithKey(rows, key) == {i \in DOMAIN rows : key # Nothing /\ rows[i].key = key}

\* A known key replays its row if the arguments are the same, whatever id the line
\* states; else it conflicts.  A new row needs its reference and an id of its own.
LineRefused(rows, line) ==
    IF WithKey(rows, line.key) # {}
      THEN \A i \in WithKey(rows, line.key) : <<rows[i].ref, rows[i].body>> # <<line.ref, line.body>>
      ELSE line.id \in Ids(rows) \/ line.ref \notin Ids(rows) \cup {Nothing}

Inserted(rows, line, by) ==
    Append(rows, [id |-> IF line.id = Nothing THEN <<"row", Len(rows) + 1>> ELSE line.id,
                  key |-> line.key, ref |-> line.ref, body |-> line.body, by |-> by])
AfterLine(rows, line, by) ==
    IF WithKey(rows, line.key) # {} \/ LineRefused(rows, line) THEN rows
    ELSE Inserted(rows, line, by)

\* Cascaded and diagnostic events are skipped: the line they came from makes them.
Replayable(lines) == {i \in DOMAIN lines : lines[i].role = "writer"}

Replayed(rows, lines, by) ==
    FoldLeft(LAMBDA done, l : IF l.role # "writer" THEN done
                              ELSE [rows |-> AfterLine(done.rows, l, by),
                                    refused |-> done.refused \/ LineRefused(done.rows, l)],
             [rows |-> rows, refused |-> FALSE], lines)

-----------------------------------------------------------------------------
(* What is refused before any line is dispatched *)

MixedIds(lines) ==
    \E i, j \in Replayable(lines) : lines[i].id = Nothing /\ lines[j].id # Nothing

RefersAhead(lines) ==
    \E i, j \in Replayable(lines) :
        /\ lines[i].ref = lines[j].id /\ lines[i].ref # Nothing
        /\ \A k \in Replayable(lines) : k < i => lines[k].id # lines[i].ref

\* Lines of other tools, and of contract versions before the hard break.
NotImportable(lines) == \E i \in DOMAIN lines : lines[i].role \in {"other tool", "legacy"}
NotParsed(lines) == \E i \in DOMAIN lines : lines[i].role = "malformed"

RefusedAtOnce(lines) ==
    NotParsed(lines) \/ NotImportable(lines) \/ MixedIds(lines) \/ RefersAhead(lines)

-----------------------------------------------------------------------------
(* The lines of a CSV file *)

RequiredTargets == {"executed_at", "side", "quantity", "price"}
OptionalTargets ==
    {"fees", "slippage", "account_label", "strategy_id", "strategy_slug", "tags",
     "declared_risk_amount", "declared_risk_unit", "expected_edge",
     "expected_edge_after_costs", "cost_basis_estimate", "risk_reward_estimate"}
Instrument == {"instrument_id", "instrument_external_id"}
ValidMapping(mapping) ==
    /\ RequiredTargets \subseteq DOMAIN mapping
    /\ DOMAIN mapping \cap Instrument # {}
    /\ DOMAIN mapping \subseteq RequiredTargets \cup OptionalTargets \cup Instrument

\* A rule names a column, with a default or a table of values, or states the value;
\* "unlisted" is the error of a value that the table lacks, and of a date that does
\* not have the format its rule states, which is a table of its own.
MappedValue(rule, row) ==
    IF "static" \in DOMAIN rule THEN rule.static
    ELSE LET raw == row[rule.column] IN
         CASE raw = Nothing -> IF "default" \in DOMAIN rule THEN rule.default ELSE Nothing
           [] raw # Nothing /\ "values" \in DOMAIN rule ->
                IF raw \in DOMAIN rule.values THEN rule.values[raw] ELSE "unlisted"
           [] OTHER -> raw

\* Both of buy and sell are long.
SideOf(side) == IF side \in {"buy", "sell"} THEN "long" ELSE side
Sides == {"long", "short", "yes", "no", "flat_neutral", "pairs_long_short"}

Mapped(fill, n) ==
    [t \in DOMAIN fill.mapping |-> MappedValue(fill.mapping[t], CsvFiles[fill.csv][n])]
Readable(fill, n) ==
    LET v == Mapped(fill, n) IN
    /\ \A t \in DOMAIN v : v[t] # "unlisted"
    /\ \A t \in RequiredTargets : v[t] # Nothing
    /\ SideOf(v.side) \in Sides /\ {v.quantity, v.price} \subseteq Numbers
    /\ "instrument_id" \in DOMAIN v /\ v["instrument_id"] # Nothing

RowKey(run, n) == <<run, n>>
FillLine(fill, n) ==
    LET v == Mapped(fill, n) IN
    [role |-> "writer", id |-> Nothing, key |-> RowKey(fill.run, n), ref |-> <<v["instrument_id"]>>,
     body |-> <<fill.csv, n, SideOf(v.side), v.quantity>>]
FillLines(fill) == [n \in DOMAIN CsvFiles[fill.csv] |-> FillLine(fill, n)]
Artifact(fill) == <<SegmentOf[fill.run], fill.csv>>

-----------------------------------------------------------------------------
(* The tools *)

Ends(p, n, end) ==
    /\ imports' = [imports EXCEPT ![n].end = end]
    /\ importing' = [importing EXCEPT ![p] = IdleImport]

\* import.csv_fills writes its artifact, and import.commit reads it in another step.
MapCsv(p, fill) ==
    /\ importing[p] = IdleImport /\ Len(imports) < MaxImports
    /\ ValidMapping(fill.mapping) /\ \A n \in DOMAIN CsvFiles[fill.csv] : Readable(fill, n)
    /\ artifacts' = [a \in DOMAIN artifacts \cup {Artifact(fill)} |->
                       IF a = Artifact(fill) THEN FillLines(fill) ELSE artifacts[a]]
    /\ imports' = Append(imports, [call |-> fill, lines |-> << >>, end |-> "running"])
    /\ importing' = [importing EXCEPT ![p] = [stage |-> "mapped", n |-> Len(imports) + 1]]
    /\ UNCHANGED <<ledger, others>>

RefuseCsv(p, fill) ==
    /\ importing[p] = IdleImport /\ Len(imports) < MaxImports
    /\ ~(ValidMapping(fill.mapping) /\ \A n \in DOMAIN CsvFiles[fill.csv] : Readable(fill, n))
    /\ imports' = Append(imports, [call |-> fill, lines |-> << >>, end |-> "refused"])
    /\ UNCHANGED <<ledger, artifacts, importing, others>>

\* In single mode the lines are first tried on a copy of their own.
Examined(p, n, call, lines) ==
    LET refused == \/ RefusedAtOnce(lines)
                   \/ call.mode = "single" /\ Replayed(ledger, lines, n).refused
        end == CASE refused -> "refused" [] ~refused /\ call.dry -> "ok" [] OTHER -> "running" IN
    /\ LET import == [call |-> call, lines |-> lines, end |-> end] IN
       imports' = IF n > Len(imports) THEN Append(imports, import) ELSE [imports EXCEPT ![n] = import]
    /\ importing' = [importing EXCEPT ![p] =
                       IF end # "running" THEN IdleImport
                       ELSE [stage |-> IF call.mode = "single" THEN "examined" ELSE "rows",
                             n |-> n, at |-> 1, refused |-> FALSE]]
    /\ UNCHANGED <<ledger, artifacts, others>>
ReadLines(p, call) ==
    /\ importing[p] = IdleImport /\ Len(imports) < MaxImports
    /\ Examined(p, Len(imports) + 1, call, JsonlFiles[call.file])
ReadArtifact(p) ==
    /\ importing[p].stage = "mapped"
    /\ LET n == importing[p].n
           fill == imports[n].call IN
       Examined(p, n, fill, artifacts[Artifact(fill)])

\* single: the copy, the lines into the copy, the comparison and the replacement.
StageLines(p) ==
    /\ importing[p].stage = "examined"
    /\ LET n == importing[p].n
           staged == Replayed(ledger, imports[n].lines, n) IN
       \/ staged.refused /\ Ends(p, n, "refused")
       \/ /\ ~staged.refused
          /\ importing' = [importing EXCEPT ![p] =
                             [stage |-> "staged", n |-> n, base |-> ledger, rows |-> staged.rows]]
          /\ UNCHANGED imports
    /\ UNCHANGED <<ledger, artifacts, others>>
ReplaceJournal(p) ==
    /\ importing[p].stage = "staged" /\ ledger = importing[p].base
    /\ ledger' = importing[p].rows /\ Ends(p, importing[p].n, "ok")
    /\ UNCHANGED <<artifacts, others>>
\* Also when only the bytes differ, as they do after a checkpoint.
RefuseStaleJournal(p) ==
    /\ importing[p].stage = "staged" /\ Ends(p, importing[p].n, "refused")
    /\ UNCHANGED <<ledger, artifacts, others>>

\* The lines that a per_row import has before it, and the next of them.
Left(job) == {i \in Replayable(imports[job.n].lines) : job.at <= i}
NextLines(job) == {i \in Left(job) : \A j \in Left(job) : i <= j}

\* A mutant: the loop that forgets to halt.
CommitLineAlways(p) ==
    /\ importing[p].stage = "rows"
    /\ LET job == importing[p] IN
       \E i \in NextLines(job) :
         LET line == imports[job.n].lines[i] IN
         /\ ledger' = AfterLine(ledger, line, job.n)
         /\ importing' = [importing EXCEPT ![p].at = i + 1, ![p].refused = job.refused \/ LineRefused(ledger, line)]
    /\ UNCHANGED <<artifacts, imports, others>>

\* per_row: each line is a call of its own.
CommitLine(p) ==
    /\ importing[p].stage = "rows"
    /\ LET job == importing[p] IN
       /\ ~(job.refused /\ imports[job.n].call.halt)
       /\ \E i \in NextLines(job) :
            LET line == imports[job.n].lines[i] IN
            /\ ledger' = AfterLine(ledger, line, job.n)
            /\ importing' = [importing EXCEPT ![p].at = i + 1,
                                 ![p].refused = job.refused \/ LineRefused(ledger, line)]
    /\ UNCHANGED <<artifacts, imports, others>>

AnswerRows(p) ==
    /\ importing[p].stage = "rows"
    /\ LET job == importing[p] IN
       /\ Left(job) = {} \/ (job.refused /\ imports[job.n].call.halt)
       /\ Ends(p, job.n, IF job.refused THEN "refused" ELSE "ok")
    /\ UNCHANGED <<ledger, artifacts, others>>

DieImporting(p) ==
    /\ importing[p] # IdleImport /\ Ends(p, importing[p].n, "died")
    /\ UNCHANGED <<ledger, artifacts, others>>

OtherCall(line) ==
    /\ others < MaxOthers /\ others' = others + 1 /\ ~LineRefused(ledger, line)
    /\ ledger' = AfterLine(ledger, line, 0)
    /\ UNCHANGED <<artifacts, importing, imports>>

ImportsNext ==
    \/ \E p \in Importers :
        \/ \E c \in Commits : ReadLines(p, c)
        \/ \E f \in Fills : MapCsv(p, f) \/ RefuseCsv(p, f)
        \/ ReadArtifact(p) \/ StageLines(p) \/ ReplaceJournal(p) \/ RefuseStaleJournal(p)
        \/ CommitLine(p) \/ AnswerRows(p) \/ DieImporting(p)
    \/ \E l \in OtherLines : OtherCall(l)
ImportsSpec == ImportsInit /\ [][ImportsNext]_importVars

-----------------------------------------------------------------------------
(* Properties *)

Lines(n) == {imports[n].lines[i] : i \in Replayable(imports[n].lines)}
WrittenBy(n) == {i \in DOMAIN ledger : ledger[i].by = n}
\* A keyed line has its row, from whichever import; one without a key has its own.
HasRow(n, line) ==
    \E i \in DOMAIN ledger :
        /\ ledger[i].body = line.body /\ ledger[i].ref = line.ref /\ ledger[i].key = line.key
        /\ line.key = Nothing => ledger[i].by = n
Alone(fill) == \A f \in Fills : Artifact(f) = Artifact(fill) => f = fill

\* An import is worth its answer, whatever happens beside it.  If it is answered ok,
\* every line it read has its row, and goes on having it; for a CSV file whose
\* artifact no other run shares, these are the lines of that file.  A single import
\* that was refused or died, and a dry one, left nothing (imports.md 3.1: "on
\* validation or runtime row failure, the staged home is discarded").  One that halts
\* left rows for a first part of its lines only.  No row refers to one that is not
\* there, and no key or id is given twice, so to run a keyed file again adds nothing.
ImportIsWhole ==
    /\ \A n \in DOMAIN imports : LET call == imports[n].call IN
        /\ imports[n].end = "ok" /\ ~call.dry =>
             /\ \A line \in Lines(n) : HasRow(n, line)
             /\ "csv" \in DOMAIN call /\ Alone(call) => imports[n].lines = FillLines(call)
        /\ call.dry \/ (imports[n].end # "ok" /\ call.mode = "single") => WrittenBy(n) = {}
        /\ call.halt =>
             \A row \in WrittenBy(n) : \E j \in Replayable(imports[n].lines) :
                 /\ imports[n].lines[j].body = ledger[row].body
                 /\ \A i \in Replayable(imports[n].lines) : i < j => HasRow(n, imports[n].lines[i])
    /\ Sound(ledger)
=============================================================================
