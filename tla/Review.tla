------------------------------- MODULE Review -------------------------------
(***************************************************************************)
(* What leaves the journal for someone else to judge: replay.case_bundle,   *)
(* which packs the cases there were at a given time, and review.bundle,      *)
(* which packs decisions with all that hangs on them.                        *)
(*                                                                          *)
(* The tables they read are append-only.  A row is stamped before its writer *)
(* commits and becomes visible when the writer does, perhaps later.          *)
(* Neither tool opens a read transaction, so each query sees the journal of  *)
(* its own moment.  A transaction that rolls back is one that is in no       *)
(* history.  Left out: positions, reflections, playbook versions, redaction  *)
(* of text, hashes, the rows of the instruments themselves.                  *)
(***************************************************************************)
EXTENDS Integers, Sequences, FiniteSets, SequencesExt

CONSTANTS
    Reviewers,   \* processes that run the two tools
    Histories,   \* what agents write: sequences of transactions, each a sequence of rows
    Requests,    \* calls of replay.case_bundle
    MaxRecords,  \* max_records of review.bundle
    ReceiptCap,  \* RECALL_RECEIPTS_MAX_BLOCKS
    MaxTime, MaxExports, \* bounds on the clock and on the case bundles
    Nil          \* None

Kinds == {"thesis", "forecast", "decision", "snapshot", "source", "edge", "use", "outcome", "score", "recall",
          "artifact", "intent", "risk", "approval", "external", "account", "fill", "reconciliation", "incident"}

\* refs: the rows, and for a recall or a use the memory nodes, that a row names.
\* on: the instrument it names itself, if it does; nothing makes a decision, its
\* forecast and its snapshot name the same (decision.add looks none of them up).
\* from, until: valid_from and valid_to; of an artifact, from is its as_of.
Row == [id: STRING, kind: Kinds, refs: SUBSET STRING, on: STRING \cup {Nil}, from: Int, until: Nat \cup {Nil},
        status: {"none", "redacted", "sensitive"}]
Modes == {"blind_decision", "forecast_only", "review_original"}

\* A case is named by its kind and id.
Name == [kind: {"decision", "forecast", "recall"}, id: STRING]

\* withForecast: the filter decision.has_forecast; named: the source_refs.
Request == [asOf: Nat, mode: Modes, labels: BOOLEAN, max: Nat \ {0}, withForecast: BOOLEAN \cup {Nil}, named: SUBSET Name]

\* A row has its kind and id to itself, and names none that a later transaction
\* writes: foreign keys, and the lookups of memory.link, find only what is there.
SameName(x, y) == x.kind = y.kind /\ x.id = y.id
MayPrecede(x, y) == ~SameName(x, y) /\ ("recall" \notin {x.kind, y.kind} => y.id \notin x.refs)

ASSUME ReviewAssumption ==
    /\ Histories \subseteq Seq(Seq(Row)) /\ Requests \subseteq Request
    /\ \A h \in Histories : \A a, b \in DOMAIN h : \A i \in DOMAIN h[a], k \in DOMAIN h[b] :
         /\ a < b => MayPrecede(h[a][i], h[b][k])
         /\ a = b /\ i # k => ~SameName(h[a][i], h[b][k])
    /\ {MaxRecords, ReceiptCap, MaxTime, MaxExports} \subseteq Nat

VARIABLES
    time,       \* the clock
    toCome,     \* the transactions that are yet to begin
    open,       \* the transactions whose rows are stamped and not committed
    ledger,     \* the committed rows, in order
    review,     \* what each reviewer is doing
    exports,    \* the case bundles handed out
    packages    \* the review bundles handed out

reviewVars == <<time, toCome, open, ledger, review, exports, packages>>

ReviewInit ==
    /\ time = 0 /\ toCome \in Histories /\ open = {} /\ ledger = << >>
    /\ review = [r \in Reviewers |-> Nil] /\ exports = {} /\ packages = {}

-----------------------------------------------------------------------------
(* Writers *)

Passes == time < MaxTime /\ time' = time + 1 /\ UNCHANGED <<toCome, open, ledger, review, exports, packages>>

\* now_iso() is called with the lock held, but for a recall before it is sought.
IsRecall(rows) == \A i \in DOMAIN rows : rows[i].row.kind = "recall"
StampRows ==
    /\ toCome # << >>
    /\ LET rows == [i \in DOMAIN Head(toCome) |-> [row |-> Head(toCome)[i], at |-> time]]
       IN /\ IsRecall(rows) \/ \A other \in open : IsRecall(other)
          /\ open' = open \cup {rows}
    /\ toCome' = Tail(toCome) /\ UNCHANGED <<time, ledger, review, exports, packages>>

\* A recall commits when it gets the lock.
CommitRows ==
    /\ \E rows \in open :
        /\ IsRecall(rows) => \A other \in open : IsRecall(other)
        /\ ledger' = ledger \o rows /\ open' = open \ {rows}
    /\ UNCHANGED <<time, toCome, review, exports, packages>>

-----------------------------------------------------------------------------
(* replay.case_bundle *)

RowAt(i) == ledger[i].row
NameOf(i) == [kind |-> RowAt(i).kind, id |-> RowAt(i).id]
OfKind(kind) == {i \in DOMAIN ledger : RowAt(i).kind = kind}
Named(i, kind) == {j \in OfKind(kind) : RowAt(j).id \in RowAt(i).refs}
First(n, S) == {i \in S : Cardinality({j \in S : j < i}) < n}
Known(i, t) == ledger[i].at <= t

\* _validity_clause and _valid_at_as_of.
ValidAt(i, t) == Known(i, t) /\ RowAt(i).from <= t /\ (RowAt(i).until = Nil \/ t < RowAt(i).until)

IsCase(i, t) ==
    \/ RowAt(i).kind \in {"decision", "recall"} /\ Known(i, t)
    \/ RowAt(i).kind = "forecast" /\ ValidAt(i, t) /\ \E j \in Named(i, "thesis") : ValidAt(j, t)

\* Decisions first, then forecasts for as long as there is room; a filter on
\* decisions leaves the forecasts of those decisions.
Filtered(q) ==
    LET wanted == {i \in OfKind("decision") :
                     IsCase(i, q.asOf) /\ q.withForecast \in {Nil, Named(i, "forecast") # {}}}
        decisions == First(q.max, wanted)
        theirs == UNION {Named(i, "forecast") : i \in decisions}
        forecasts == {i \in OfKind("forecast") : IsCase(i, q.asOf) /\ (q.withForecast # Nil => i \in theirs)}
    IN decisions \cup First(q.max - Cardinality(decisions), forecasts)
Selected(q, named) ==
    IF named = {} THEN Filtered(q)
    ELSE First(q.max, {i \in DOMAIN ledger : NameOf(i) \in named /\ IsCase(i, q.asOf)})

\* A recall event that is not there, or was recorded later, is an error.
Refused(q, named) ==
    \E n \in named : n.kind = "recall" /\ ~\E i \in DOMAIN ledger : NameOf(i) = n /\ Known(i, q.asOf)

\* Mutant: a source that was there counts, whenever it was attached.
AttachedEver(i, s, t) == Known(s, t) /\ \E e \in OfKind("edge") : {RowAt(i).id, RowAt(s).id} \subseteq RowAt(e).refs

Attached(i, s, t) ==
    Known(s, t) /\ \E e \in OfKind("edge") : Known(e, t) /\ {RowAt(i).id, RowAt(s).id} \subseteq RowAt(e).refs

ForecastsOf(i) == IF RowAt(i).kind = "forecast" THEN {i} ELSE Named(i, "forecast")

\* What the candidate is shown of a case.
Context(i, q) ==
    LET t == q.asOf
        near == {i} \cup ForecastsOf(i) \cup Named(i, "thesis")
        ofForecast == {f \in ForecastsOf(i) : ValidAt(f, t) /\ \A j \in Named(f, "thesis") : Known(j, t) => ValidAt(j, t)}
        all == {s \in Named(i, "snapshot") : Known(s, t)} \cup {j \in Named(i, "thesis") : ValidAt(j, t)}
               \cup (IF RowAt(i).kind = "forecast" /\ q.mode = "forecast_only" THEN {} ELSE ofForecast)
               \cup {s \in OfKind("source") : RowAt(s).status # "sensitive" /\ \E j \in near : Attached(j, s, t)}
    IN IF RowAt(i).kind = "recall" THEN {} ELSE all

\* The strategy's replay artifacts: of that time and imported by then.
ArtifactsBy(t) == {a \in OfKind("artifact") : Known(a, t) /\ RowAt(a).from <= t}

\* A forecast is on the instrument of its thesis.
InstrumentOf(i) == IF RowAt(i).kind = "forecast" THEN {RowAt(j).on : j \in Named(i, "thesis")} ELSE {RowAt(i).on}

\* What only the evaluator is shown, if it is asked for.
Labels(i, q) ==
    IF ~q.labels \/ RowAt(i).kind = "recall" THEN {}
    ELSE {o \in OfKind("outcome") : ~Known(o, q.asOf) /\ RowAt(o).on \in InstrumentOf(i)}
         \cup {s \in OfKind("score") : ~Known(s, q.asOf) /\ Named(s, "forecast") \cap ForecastsOf(i) # {}}
         \cup ArtifactsBy(q.asOf)

\* No row that as_of covers is still on its way.
Settled(t) == time > t /\ \A rows \in open : \A i \in DOMAIN rows : rows[i].at > t

CaseIds(e) == {NameOf(i) : i \in DOMAIN e.cases}

\* The caller names cases, or gives back the case ids of an earlier bundle,
\* which carry its as_of and its mode.
BeginExport(r, q) ==
    /\ review[r] = Nil /\ Cardinality(exports) < MaxExports
    /\ \E named \in {q.named} \cup {CaseIds(e) : e \in {x \in exports : x.q.asOf = q.asOf /\ x.q.mode = q.mode /\ CaseIds(x) # {}}} :
        review' = [review EXCEPT ![r] =
            [tool |-> "cases", q |-> q, named |-> named, settled |-> Settled(q.asOf),
             refused |-> Refused(q, named), selected |-> IF Refused(q, named) THEN {} ELSE Selected(q, named)]]
    /\ UNCHANGED <<time, toCome, open, ledger, exports, packages>>

\* Case by case; what a case is given does not depend on the others.
HandOut(r) ==
    /\ review[r] # Nil /\ review[r].tool = "cases"
    /\ LET now == review[r]
       IN exports' = exports \cup {[q |-> now.q, named |-> now.named, settled |-> now.settled, refused |-> now.refused,
                                    cases |-> [i \in now.selected |-> Context(i, now.q)],
                                    labels |-> [i \in now.selected |-> Labels(i, now.q)]]}
    /\ review' = [review EXCEPT ![r] = Nil]
    /\ UNCHANGED <<time, toCome, open, ledger, packages>>

-----------------------------------------------------------------------------
(* review.bundle *)

\* _gather_autonomous_lifecycle: what each table is reached by, besides its instrument.
ReachedBy == [intent |-> {"decision", "forecast", "thesis"}, approval |-> {"intent", "risk"},
              external |-> {"intent"}, account |-> {"decision", "forecast", "thesis", "intent", "risk"}, fill |-> {"intent"},
              reconciliation |-> {"decision", "forecast", "thesis", "intent", "risk", "fill", "snapshot"}]

\* Mutant: the outcomes before the scores.
OutcomesFirst == <<"decision", "thesis", "forecast", "outcome", "score", "edge", "source", "recall",
                   "intent", "risk", "approval", "external", "account", "fill", "reconciliation", "incident">>

\* The tables in the order they are read.
Stages == <<"decision", "thesis", "forecast", "score", "outcome", "edge", "source", "recall",
            "intent", "risk", "approval", "external", "account", "fill", "reconciliation", "incident">>

\* report_recall_receipts: the oldest recalls first, and of those the ones that
\* returned a node the decision used.
OldestRecalls(limit) == First(limit, OfKind("recall"))
NodesUsed(d) == UNION {RowAt(u).refs : u \in {x \in OfKind("use") : RowAt(d).id \in RowAt(x).refs}}
ReceiptsOf(d, recalls) == {e \in recalls : RowAt(e).refs \cap NodesUsed(d) # {}}

\* One decision more, for as long as there is room.
AddReceipts(acc, d) ==
    LET room == ReceiptCap - Cardinality(acc.blocks)
        found == ReceiptsOf(d, OldestRecalls(room + 1))
    IN IF room <= 0 THEN [acc EXCEPT !.truncated = TRUE]
       ELSE [blocks |-> acc.blocks \cup First(room, found), truncated |-> acc.truncated \/ Cardinality(found) > room]
RecallReceipts(decisions) == FoldLeft(AddReceipts, [blocks |-> {}, truncated |-> FALSE], SetToSortSeq(decisions, <))

Chosen == First(MaxRecords, OfKind("decision"))
NamedBy(got, kinds, kind) == UNION {Named(j, kind) : j \in UNION {got[k] : k \in kinds}}
Naming(got, kinds, kind) ==
    {i \in OfKind(kind) : \E j \in UNION {got[k] : k \in kinds} : RowAt(j).id \in RowAt(i).refs}
Instruments(got) == {RowAt(d).on : d \in got["decision"]}
OnInstruments(got, kind) == {i \in OfKind(kind) : RowAt(i).on \in Instruments(got)}
PackedSources(got) == {i \in NamedBy(got, {"edge"}, "source") : RowAt(i).status # "sensitive"}

\* What a query finds, given what the queries before it found.
Found(kind, got) ==
    CASE kind = "decision" -> Chosen
      [] kind \in {"thesis", "forecast"} -> NamedBy(got, {"decision"}, kind)
      [] kind = "score" -> Naming(got, {"forecast"}, kind)
      [] kind = "outcome" -> OnInstruments(got, kind)
      [] kind = "edge" -> Naming(got, {"decision", "thesis", "forecast", "outcome"}, kind)
      [] kind = "source" -> PackedSources(got)
      [] kind = "recall" -> RecallReceipts(got["decision"]).blocks
      [] kind = "risk" -> Naming(got, {"decision"}, kind) \cup NamedBy(got, {"intent"}, kind) \cup OnInstruments(got, kind)
      [] kind = "incident" -> Naming(got, {"decision"}, kind)
      [] OTHER -> Naming(got, ReachedBy[kind], kind) \cup OnInstruments(got, kind)

BeginPackage(r) ==
    /\ review[r] = Nil /\ packages = {}
    /\ review' = [review EXCEPT ![r] = [tool |-> "review", done |-> 0, truncated |-> FALSE,
                                        got |-> [k \in {} |-> {}]]]
    /\ UNCHANGED <<time, toCome, open, ledger, exports, packages>>

ReadTable(r) ==
    /\ review[r] # Nil /\ review[r].tool = "review" /\ review[r].done < Len(Stages)
    /\ LET kind == Stages[review[r].done + 1]
           got == review[r].got
       IN review' = [review EXCEPT ![r] =
            [tool |-> "review", done |-> review[r].done + 1,
             truncated |-> IF kind = "recall" THEN RecallReceipts(got["decision"]).truncated ELSE review[r].truncated,
             got |-> [k \in DOMAIN got \cup {kind} |-> IF k = kind THEN Found(kind, got) ELSE got[k]]]]
    /\ UNCHANGED <<time, toCome, open, ledger, exports, packages>>

Assemble(r) ==
    /\ review[r] # Nil /\ review[r].tool = "review" /\ review[r].done = Len(Stages)
    /\ packages' = packages \cup {review[r]} /\ review' = [review EXCEPT ![r] = Nil]
    /\ UNCHANGED <<time, toCome, open, ledger, exports>>

-----------------------------------------------------------------------------
ReviewNext ==
    \/ Passes \/ StampRows \/ CommitRows
    \/ \E r \in Reviewers :
        \/ \E q \in Requests : BeginExport(r, q)
        \/ HandOut(r) \/ BeginPackage(r) \/ ReadTable(r) \/ Assemble(r)
ReviewSpec == ReviewInit /\ [][ReviewNext]_reviewVars

-----------------------------------------------------------------------------
(* Properties *)

\* The case bundle of a past moment is the same whenever it is asked for, by the
\* same request or by the case ids of an earlier bundle: nothing recorded later,
\* attached later or found invalid later changes which cases there were or what
\* a candidate is shown of them.  A row that was stamped before that moment and
\* committed after it is why the moment must be settled.
RepeatableAsOf ==
    \A a, b \in exports :
        (a.settled /\ b.settled /\ a.q = b.q /\ (a.named = b.named \/ (a.named = a.q.named /\ CaseIds(a) = b.named)))
        => a.refused = b.refused /\ a.cases = b.cases

\* A package read while agents write still has the outcome of every score in it: the
\* tables are read in the order that makes it so.  The scores are those of the
\* decisions' forecasts and the outcomes those of the decisions' instruments, so the
\* outcome of a score is owed when some decision in the package is on its instrument.
ScoresHaveOutcomes ==
    \A p \in packages : \A s \in p.got["score"] :
        {o \in Named(s, "outcome") : RowAt(o).on \in Instruments(p.got)} \subseteq p.got["outcome"]
=============================================================================
