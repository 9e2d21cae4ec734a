------------------------------ MODULE Evidence ------------------------------
(***************************************************************************)
(* The append-only ledgers an autonomous trader leaves behind: pre-trade    *)
(* intents, approvals and waivers, imported execution receipts and account   *)
(* snapshots, paper fills, evaluation artifacts, abstentions, readings of    *)
(* the resolution rule, and the reconciliation that compares what the        *)
(* journal expects with what was imported.                                   *)
(*                                                                          *)
(* A call is one transaction, so one step; a refused call has no step.       *)
(* core.dispatch runs a handler again when the database was locked, with the *)
(* same arguments: n is the number of runs, of which only the last writes.   *)
(* Handlers append their caveats to the caller's own list before they lock,  *)
(* so n runs append them n times.  Hashes are abstracted to what they hash.  *)
(***************************************************************************)
EXTENDS Risk, TLC

CONSTANTS
    Calls,      \* calls of the handlers below
    Ledger,     \* ids of the rows of other tables that exist
    grouped,    \* the markets of the open positions carry their event's identity
    MaxRecords, MaxRuns \* bounds; dispatch runs a handler at most twice

HashedKinds == {"intent", "approval", "external", "account", "paper", "artifact", "reconciliation"}
Kinds == HashedKinds \cup {"abstention", "interpretation"}

\* own: the caller passed caveats as an array.  pinned: it passed the hash of
\* the record it expects.  body: the other arguments, by kind.
Intent == [approval: {"not_requested", "pending_external_review", "approved_elsewhere", "waived_elsewhere"},
           evidence: BOOLEAN, stale: BOOLEAN, receipt: Nat, input: Input]
Approval == [type: {"approval", "denial", "hard_block_override_attempt"},
             decision: {"approved", "rejected", "denied", "attempted"}, permitted: BOOLEAN, about: Nat, external: BOOLEAN]
External == [state: {"accepted", "rejected", "partial_fill", "filled", "orphan", "mismatch"},
             event: {"order", "fill", "status"}, about: Nat, fill: STRING, asOf: Nat,
             priced: BOOLEAN, fee: BOOLEAN, sums: BOOLEAN, negative: BOOLEAN]
Account == [precedence: Nat, asOf: Nat, staleness: {"fresh", "stale", "missing", "unknown"}, positions: Nat,
            readable: BOOLEAN, facts: BOOLEAN]
Artifact == [size: Nat]
Level == [price: Nat, quantity: Nat]

\* age (of the book at the order), mid, cap and cited are sent or not: a set of at
\* most one.  cited: the evidence_json of the call has book_levels of its own.
Paper == [side: {"buy", "sell"}, quantity: Nat \ {0}, limit: Nat, book: Seq(Level), age: SUBSET Nat,
          maxAge: Nat, mid: SUBSET Nat, cap: SUBSET Nat, cited: SUBSET Seq(Level)]
Call == [kind: Kinds, sem: STRING, key: STRING, refs: SUBSET STRING, own: BOOLEAN, pinned: BOOLEAN]

ASSUME EvidenceAssumption ==
    /\ {MaxRecords, MaxRuns} \subseteq Nat \ {0} /\ grouped \in BOOLEAN
    /\ \A c \in Calls : [f \in {"kind", "sem", "key", "refs", "own", "pinned"} |-> c[f]] \in Call
    /\ \A c \in Calls :
        /\ c.kind = "intent" => c.body \in Intent
        /\ c.kind = "approval" => c.body \in Approval
        /\ c.kind = "external" => c.body \in External
        /\ c.kind = "account" => c.body \in Account
        /\ c.kind = "paper" => c.body \in Paper
        /\ c.kind = "artifact" => c.body \in Artifact
        /\ c.kind = "reconciliation" => c.body \in [asOf: Nat, severity: STRING]

VARIABLES
    records, \* the rows of all the tables, in the order they were written
    answers, \* the calls answered ok, and the row each was answered with
    open     \* open positions in the journal

evidenceVars == <<policies, receipts, records, answers, open>>

EvidenceInit == RiskInit /\ records = << >> /\ answers = {} /\ open = 0

-----------------------------------------------------------------------------
(* What every handler does with its record *)

OfKind(kind) == {i \in DOMAIN records : records[i].kind = kind}
Replayed(c) == {i \in OfKind(c.kind) : c.key # "" /\ records[i].key = c.key}
Meant(c) == {i \in OfKind(c.kind) : records[i].material.sem = c.sem}

\* Mutant: a semantic key answers whatever the record says.
SameKey(material, i) == records[i].material.sem = material.sem

\* Equal means equal in everything that is hashed.
SameMaterial(material, i) == records[i].material = material

\* The row a call would be answered with: by its key, or else by its meaning.
Holders(c) == IF Replayed(c) # {} THEN Replayed(c) ELSE Meant(c)

-----------------------------------------------------------------------------
(* Paper fills *)

\* _model_fill walks the levels as they were sent, takes what the limit
\* allows, and fills nothing without depth, on a stale book or over the cap on
\* slippage (against the middle price, when both were sent).
Freshness(b) == IF b.book = << >> THEN "missing"
                ELSE IF b.age = {} THEN "unknown"
                ELSE IF \A age \in b.age : age <= b.maxAge THEN "fresh" ELSE "stale"
HasDepth(b) == Freshness(b) \in {"fresh", "unknown"}
Fillable(b, level) == IF b.side = "buy" THEN level.price <= b.limit ELSE level.price >= b.limit
Slipped(b, w) ==
    \E mid \in b.mid, cap \in b.cap :
        LET loss == IF b.side = "buy" THEN w.notional - mid * w.filled ELSE mid * w.filled - w.notional
        IN mid > 0 /\ loss * 10000 > cap * mid * w.filled

Take(b, level, w) ==
    LET take == Min({b.quantity - w.filled, level.quantity})
    IN [filled |-> w.filled + take, notional |-> w.notional + take * level.price]

NoFill == [filled |-> 0, notional |-> 0]
Walk(b) ==
    LET Step(w, level) == IF Fillable(b, level) /\ w.filled < b.quantity THEN Take(b, level, w) ELSE w
    IN FoldLeft(Step, NoFill, b.book)
ModelFill(b) == IF HasDepth(b) /\ ~Slipped(b, Walk(b)) THEN Walk(b) ELSE NoFill
FillStatus(b, w) == IF w.filled = 0 THEN "no_fill" ELSE IF w.filled = b.quantity THEN "full" ELSE "partial"

-----------------------------------------------------------------------------
(* Reconciliation *)

Visible(b) == b.type = "hard_block_override_attempt"
Body(i) == records[i].material.body
Imported(asOf) == {i \in OfKind("external") : Body(i).asOf <= asOf}

\* The source that ranks first, then the newest.
LatestSnapshot(asOf) ==
    LET known == {i \in OfKind("account") : Body(i).asOf <= asOf}
        Newer(i, j) == \/ Body(i).precedence < Body(j).precedence
                       \/ Body(i).precedence = Body(j).precedence /\ Body(i).asOf > Body(j).asOf
                       \/ Body(i).precedence = Body(j).precedence /\ Body(i).asOf = Body(j).asOf /\ i > j
    IN {i \in known : \A j \in known \ {i} : Newer(i, j)}

\* Mutant: only the decision that was recorded last counts.
LastWaiverOnly(asOf) ==
    \E i \in OfKind("approval") : /\ \A j \in OfKind("approval") : j <= i
                                  /\ Visible(Body(i)) \/ Body(i).decision \in {"rejected", "denied"}

\* Whatever its date: a rejection or an override attempt, once recorded, stays.
PolicyWaiverBreach(asOf) ==
    \E i \in OfKind("approval") : Visible(Body(i)) \/ Body(i).decision \in {"rejected", "denied"}

\* _build_derived: what the rows say now about the time asked for.
Codes(asOf) ==
    LET imported == Imported(asOf)
        snapshot == LatestSnapshot(asOf)
        Some(P(_)) == \E i \in imported : P(Body(i))
        Approved(b) == b.about # 0 /\ Body(b.about).approval \in {"approved_elsewhere", "waived_elsewhere"}
        Pending(b) == b.about # 0 /\ Body(b.about).approval = "pending_external_review"
        raised ==
            [BALANCE_MISMATCH |-> snapshot = {} \/ \E i \in snapshot : ~Body(i).readable,
             POSITION_MISMATCH |-> snapshot = {} \/ \E i \in snapshot : Body(i).positions # open,
             STALE_SNAPSHOT |-> \E i \in snapshot : Body(i).staleness # "fresh",
             ORPHAN_EXTERNAL_FILL |-> Some(LAMBDA b : b.about = 0 /\ b.event = "fill"),
             ORPHAN_EXTERNAL_ORDER |-> Some(LAMBDA b : b.about = 0 /\ b.event = "order"),
             MISSING_EXTERNAL_EVENT |-> Some(LAMBDA b : b.about = 0 /\ b.event = "status") \/ (imported = {} /\ open > 0),
             REJECTED_APPROVED_INTENT |-> Some(LAMBDA b : Approved(b) /\ b.state = "rejected"),
             MISSING_APPROVAL |-> Some(LAMBDA b : Pending(b) /\ b.state \in {"accepted", "partial_fill", "filled"}),
             DUPLICATE_FILL |-> \E i, j \in imported : /\ i # j /\ Body(i).fill # "" /\ Body(i).fill = Body(j).fill
                                                      /\ Body(i).event = "fill" /\ Body(j).event = "fill",
             PARTIAL_FILL_REMAINING_MISMATCH |->
                \/ Some(LAMBDA b : b.state = "partial_fill" /\ ~b.sums)
                \/ \E i \in OfKind("paper") : records[i].material.derived.status = "partial",
             PRICE_MISMATCH |-> Some(LAMBDA b : b.event = "fill" /\ ~b.priced),
             FEE_MISMATCH |-> Some(LAMBDA b : b.event = "fill" /\ ~b.fee),
             NEGATIVE_RISK_CAVEAT |-> Some(LAMBDA b : b.negative),
             EVENT_EXPOSURE_UNAVAILABLE |-> open > 0 /\ ~grouped,
             POLICY_WAIVER_BREACH |-> PolicyWaiverBreach(asOf)]
    IN {code \in DOMAIN raised : raised[code]}

Critical == {"POLICY_WAIVER_BREACH", "DUPLICATE_FILL", "REJECTED_APPROVED_INTENT"}
Severity(codes) == IF codes = {} THEN "none" ELSE IF codes \cap Critical # {} THEN "critical" ELSE "warning"

-----------------------------------------------------------------------------
(* Materials *)

\* The codes of the caveats that a handler adds.
Notes(c) ==
    LET b == c.body
        added == CASE c.kind = "intent" ->
                        [missing_evidence_refs |-> ~b.evidence, stale_evidence |-> b.stale]
                   [] c.kind = "approval" ->
                        [assertion_unverified |-> Visible(b) /\ b.permitted,
                         external_receipts_unverified |-> b.external,
                         hard_block_override_attempt |-> Visible(b)]
                   [] c.kind = "external" ->
                        [orphan |-> b.about = 0,
                         outside_known_scope |-> b.about = 0 /\ b.state # "orphan",
                         imported_state |-> b.state \in {"mismatch", "orphan"}]
                   [] c.kind = "account" ->
                        [staleness |-> b.staleness \in {"stale", "missing"}, no_fact_families |-> ~b.facts]
                   [] c.kind = "paper" ->
                        [missing_depth |-> Freshness(b) = "missing",
                         stale_depth |-> Freshness(b) = "stale",
                         limit_price |-> HasDepth(b) /\ Walk(b).filled = 0,
                         slippage_cap |-> HasDepth(b) /\ Slipped(b, Walk(b)),
                         insufficient_depth |-> FillStatus(b, ModelFill(b)) = "partial"]
                   [] c.kind = "artifact" -> [small_sample_size |-> b.size < 20, evidence_mode |-> TRUE]
                   [] OTHER -> << >>
    IN {code \in DOMAIN added : added[code]}

\* What a handler computes into the record.  The severity of a reconciliation is
\* the caller's, if it states one; an override attempt is visible, permitted or not.
Derived(c) ==
    LET b == c.body IN
    CASE c.kind = "approval" -> [visible |-> Visible(b)]
      [] c.kind = "paper" ->
            [fill |-> ModelFill(b), status |-> FillStatus(b, ModelFill(b)), freshness |-> Freshness(b)]
      [] c.kind = "reconciliation" ->
            [codes |-> Codes(b.asOf), open |-> open, snapshot |-> LatestSnapshot(b.asOf),
             imported |-> Imported(b.asOf), paper |-> OfKind("paper"),
             severity |-> IF b.severity # "" THEN b.severity ELSE Severity(Codes(b.asOf))]
      [] OTHER -> << >>

\* What is hashed, and kept, of the arguments.  evidence_stale leaves only its caveat
\* and diff_severity only the severity.  A paper fill keeps neither the middle
\* price nor the age a book may have, and of the book what its evidence shows:
\* evidence.setdefault leaves book_levels that the caller put there as they are.
Shown(b) == IF b.cited = {} THEN {b.book} ELSE b.cited
Hashed(c) ==
    LET b == c.body IN
    CASE c.kind = "intent" -> [approval |-> b.approval, evidence |-> b.evidence, receipt |-> b.receipt, input |-> b.input]
      [] c.kind = "paper" -> [side |-> b.side, quantity |-> b.quantity, limit |-> b.limit, age |-> b.age,
                              cap |-> b.cap, evidence |-> Shown(b)]
      [] c.kind = "reconciliation" -> [asOf |-> b.asOf]
      [] OTHER -> b

\* What n runs of the handler make of a call: all that is hashed.  Only a list of
\* the caller's own outlives a run, with the caveats that run appended to it;
\* reconciliation.record copies the list.
Material(c, n) ==
    [sem |-> c.sem, refs |-> c.refs, body |-> Hashed(c), derived |-> Derived(c),
     notes |-> Notes(c) \X {IF c.own THEN n ELSE 1}]

-----------------------------------------------------------------------------
(* The handlers *)

\* A used key, or else a used semantic key, answers with the stored row when the
\* material is the same and refuses the call when it is not.  A hash that the
\* caller passed is that of one clean run.
Store(c, n) ==
    LET material == Material(c, n) IN
    /\ c.refs \subseteq Ledger
    /\ c.pinned => material = Material(c, 1)
    /\ IF Holders(c) = {}
       THEN /\ Len(records) < MaxRecords
            /\ records' = Append(records, [kind |-> c.kind, key |-> c.key, material |-> material])
            /\ answers' = answers \cup {[call |-> c, row |-> Len(records) + 1]}
       ELSE \E i \in Holders(c) :
            /\ SameMaterial(material, i)
            /\ answers' = answers \cup {[call |-> c, row |-> i]}
            /\ UNCHANGED records
    /\ UNCHANGED <<policies, receipts, open>>

AboutIntent(c) == c.body.about # 0 => c.body.about \in OfKind("intent")

PretradeIntentRecord(c, n) ==
    /\ c.kind = "intent"
    /\ c.body.receipt # 0 => c.body.receipt \in DOMAIN receipts
    /\ Store(c, n)
ApprovalRecord(c, n) == c.kind = "approval" /\ AboutIntent(c) /\ Store(c, n)
ExternalReceiptImport(c, n) == c.kind = "external" /\ AboutIntent(c) /\ Store(c, n)
AccountSnapshotImport(c, n) == c.kind = "account" /\ Store(c, n)
PaperFillRecord(c, n) == c.kind = "paper" /\ Store(c, n)
ReplayArtifactRecord(c, n) == c.kind = "artifact" /\ Store(c, n)

\* reconciliation.record derives and hashes before it asks whether the key was used.
ReconciliationRecord(c) == c.kind = "reconciliation" /\ Store(c, 1)

\* abstention.record and forecast.interpret_resolution compare nothing: a used key,
\* and for a reading the one row of its forecast, answer with the stored row.
StoreUnhashed(c, holders) ==
    /\ c.refs \subseteq Ledger
    /\ IF holders = {}
       THEN /\ Len(records) < MaxRecords
            /\ records' = Append(records, [kind |-> c.kind, key |-> c.key, material |-> Material(c, 1)])
            /\ answers' = answers \cup {[call |-> c, row |-> Len(records) + 1]}
       ELSE \E i \in holders : answers' = answers \cup {[call |-> c, row |-> i]} /\ UNCHANGED records
    /\ UNCHANGED <<policies, receipts, open>>
AbstentionRecord(c) == c.kind = "abstention" /\ StoreUnhashed(c, Replayed(c))
InterpretResolution(c) == c.kind = "interpretation" /\ StoreUnhashed(c, Holders(c))

-----------------------------------------------------------------------------
\* The journal opens and closes positions beside these ledgers.
PositionsMove ==
    /\ open' \in {0, 1} \ {open}
    /\ UNCHANGED <<policies, receipts, records, answers>>

RiskNext ==
    /\ \/ \E p \in Policies : RiskPolicyVersionAdd(p)
       \/ \E k \in Checks :
             /\ k.stored # RiskNull => k.stored \in OfKind("intent")
             /\ RiskCheckRecord(k, IF k.stored = RiskNull THEN k.inline ELSE Merged(Body(k.stored).input, k.inline))
    /\ UNCHANGED <<records, answers, open>>

Handle(c) ==
    \/ \E n \in 1..MaxRuns :
          \/ PretradeIntentRecord(c, n) \/ ApprovalRecord(c, n) \/ ExternalReceiptImport(c, n)
          \/ AccountSnapshotImport(c, n) \/ ReplayArtifactRecord(c, n) \/ PaperFillRecord(c, n)
    \/ AbstentionRecord(c) \/ InterpretResolution(c) \/ ReconciliationRecord(c)

EvidenceNext == RiskNext \/ PositionsMove \/ \E c \in Calls : Handle(c)
EvidenceSpec == EvidenceInit /\ [][EvidenceNext]_evidenceVars

-----------------------------------------------------------------------------
(* Properties *)

\* An ok is never about something else: the row a hashed call was answered with
\* says what the call said in everything the record keeps, and carries the caveats
\* the handler has for this call, whichever of its two keys found the row.  What the
\* record does not keep cannot mislead: a paper fill in an answer is the one the model
\* gives for this call, with the middle price, the bound on the age and the book that
\* this call sent, whatever book its evidence shows and whoever stored the row.  And
\* it is never better than that book: within the quantity asked and the depth at the
\* limit, at an average no worse than the limit, complete exactly when it says so
\* (the replay branches of the seven handlers that hash their record; _model_fill).
OkMeansStored ==
    \A a \in answers : a.call.kind \in HashedKinds =>
        LET m == records[a.row].material
            b == a.call.body
        IN /\ <<m.sem, m.body, m.refs>> = <<a.call.sem, Hashed(a.call), a.call.refs>>
           /\ {note[1] : note \in m.notes} = Notes(a.call)
           /\ a.call.kind = "reconciliation" /\ b.severity # "" => m.derived.severity = b.severity
           /\ a.call.kind = "paper" =>
                LET fill == m.derived.fill
                    depth == FoldLeft(LAMBDA sum, level : sum + IF Fillable(b, level) THEN level.quantity ELSE 0, 0, b.book)
                IN /\ fill = ModelFill(b) /\ m.derived.freshness = Freshness(b)
                   /\ fill.filled <= Min({b.quantity, depth})
                   /\ m.derived.status = "full" <=> fill.filled = b.quantity
                   /\ b.side = "buy" => fill.notional <= b.limit * fill.filled
                   /\ b.side = "sell" => fill.notional >= b.limit * fill.filled

\* Nothing recorded later takes a critical finding back: a reconciliation of the
\* same or a later time finds every critical code an earlier one found, although
\* intents, approvals and receipts keep arriving, some of them dated in the past
\* (_build_derived and _policy_waiver_breach over append-only tables).
CriticalFindingsStay ==
    \A i, j \in OfKind("reconciliation") :
        i < j /\ Body(i).asOf <= Body(j).asOf =>
            records[i].material.derived.codes \cap Critical \subseteq records[j].material.derived.codes
=============================================================================
