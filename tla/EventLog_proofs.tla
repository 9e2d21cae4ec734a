--------------------------- MODULE EventLog_proofs ---------------------------
(***************************************************************************)
(* Proofs about the write path, for any number of processes, calls, retries *)
(* and crashes: types, key uniqueness, durability of the answers and         *)
(* append-only growth; then what one transaction adds to the journal (row,    *)
(* events and outbox rows together or not at all), and that the write path    *)
(* implements the exactly-once log.                                          *)
(***************************************************************************)
EXTENDS EventLog, TLAPS

-----------------------------------------------------------------------------
(* The inductive invariant. *)

\* A process that runs a handler runs one of the calls, under its own flag.
CallInv ==
    \A p \in Writers :
        IF pc[p] = "idle" THEN ~dryFlag[p]
        ELSE call[p] \in Calls /\ dryFlag[p] = call[p].dry

\* The lock is held by the process whose transaction is open, and only by it.
LockInv == \A p \in Writers : pc[p] \in InTransaction <=> lock = p

\* What the open transaction sees is the committed journal and its own writes.
ViewInv ==
    \A p \in Writers : lock = p =>
        /\ Continues(view[p].events, db.events)
        /\ Continues(view[p].rows, db.rows)
        /\ db.outbox \subseteq view[p].outbox
        /\ UniqueKeys(view[p].events)

\* The id a handler is about to return exists in its image, then in the journal.
ReplyInv ==
    \A p \in Writers :
        /\ pc[p] \in {"cascade", "exit"} =>
             /\ reply[p].id \in DOMAIN view[p].events
             /\ Says(view[p].events[reply[p].id], call[p])
        /\ pc[p] = "reply" /\ reply[p].code = "ok" /\ ~call[p].dry =>
             /\ reply[p].id \in DOMAIN db.events
             /\ Says(db.events[reply[p].id], call[p])

IInv == TypeOK /\ CallInv /\ LockInv /\ ViewInv /\ ReplyInv /\ KeyUnique /\ OkIsDurable

-----------------------------------------------------------------------------
(* Lemmas about the log. *)

\* The key dispatch settles on is one of the keys the log can hold.
LEMMA EffectiveKeyType ==
    ASSUME NEW c \in CallRecord
    PROVE  EffectiveKey(c) \in Keys
BY DEF EffectiveKey, CallRecord, CallKeys, Keys

\* The events a handler builds are well typed.
LEMMA EventType ==
    ASSUME NEW c \in CallRecord, NEW r \in Nat
    PROVE  PrimaryEvent(c, r) \in Event /\ CascadeEvent(c, r) \in Event
<1>1. EffectiveKey(c) \in Keys
  BY EffectiveKeyType
<1>2. NoKey \in Keys
  BY DEF Keys, CallKeys
<1> QED
  BY <1>1, <1>2 DEF PrimaryEvent, CascadeEvent, Event, CallRecord

\* What appending an event does to a journal image.
LEMMA AppendEventFacts ==
    ASSUME NEW j \in Journal, NEW e \in Event
    PROVE  /\ AppendEvent(j, e) \in Journal
           /\ AppendEvent(j, e).events = Append(j.events, e)
           /\ AppendEvent(j, e).rows = j.rows
           /\ j.outbox \subseteq AppendEvent(j, e).outbox
<1>1. /\ j.events \in Seq(Event) /\ j.rows \in Seq(Shapes)
      /\ j.outbox \in SUBSET Nat /\ j.exporting \in BOOLEAN
  BY DEF Journal
<1>2. Append(j.events, e) \in Seq(Event) /\ Len(j.events) + 1 \in Nat
  BY <1>1
<1> QED
  BY <1>1, <1>2 DEF AppendEvent, Journal

\* ... and a ledger row.
LEMMA InsertIntoFacts ==
    ASSUME NEW j \in Journal, NEW r \in Shapes
    PROVE  /\ InsertInto(j, r) \in Journal
           /\ InsertInto(j, r).events = j.events
           /\ InsertInto(j, r).rows = Append(j.rows, r)
           /\ InsertInto(j, r).outbox = j.outbox
<1>1. Append(j.rows, r) \in Seq(Shapes)
  BY DEF Journal
<1> QED
  BY <1>1 DEF InsertInto, Journal

\* A log that continues another still does after an append.
LEMMA ContinuesAppend ==
    ASSUME NEW S, NEW s \in Seq(S), NEW t \in Seq(S), NEW x \in S,
           Continues(t, s)
    PROVE  Continues(Append(t, x), s)
BY DEF Continues

\* Writing an event whose key the lookup did not find keeps keys unique.
LEMMA UniqueAppendPrimary ==
    ASSUME NEW log \in Seq(Event), NEW c \in CallRecord, NEW r \in Nat,
           UniqueKeys(log), Matching(log, c) = {}
    PROVE  UniqueKeys(Append(log, PrimaryEvent(c, r)))
<1> DEFINE e == PrimaryEvent(c, r)
           new == Append(log, e)
<1>1. e \in Event
  BY EventType
<1>2. /\ DOMAIN new = 1..(Len(log) + 1)
      /\ \A i \in 1..Len(log) : new[i] = log[i]
      /\ new[Len(log) + 1] = e
      /\ DOMAIN log = 1..Len(log)
  BY <1>1
<1>3. e.key = EffectiveKey(c) /\ e.type = c.type /\ e.actor = c.actor
  BY DEF PrimaryEvent
<1>4. ASSUME NEW i \in 1..Len(log), e.key # NoKey
      PROVE  ~(log[i].type = e.type /\ log[i].actor = e.actor /\ log[i].key = e.key)
  BY <1>2, <1>3, <1>4 DEF Matching, SameIdentity
<1> HIDE DEF e, new
<1>5. UniqueKeys(new)
  BY <1>2, <1>4 DEF UniqueKeys
<1> QED
  BY <1>5 DEF new, e

\* A secondary event has no key and cannot clash.
LEMMA UniqueAppendCascade ==
    ASSUME NEW log \in Seq(Event), NEW e \in Event,
           UniqueKeys(log), e.key = NoKey
    PROVE  UniqueKeys(Append(log, e))
<1> DEFINE new == Append(log, e)
<1>1. /\ DOMAIN new = 1..(Len(log) + 1)
      /\ \A i \in 1..Len(log) : new[i] = log[i]
      /\ new[Len(log) + 1] = e
      /\ DOMAIN log = 1..Len(log)
  OBVIOUS
<1> HIDE DEF new
<1>2. UniqueKeys(new)
  BY <1>1 DEF UniqueKeys
<1> QED
  BY <1>2 DEF new

-----------------------------------------------------------------------------
(* Every action preserves the invariant. *)

USE DEF Goto, Answer, control

LEMMA InitInv == Init => IInv
<1> SUFFICES ASSUME Init PROVE IInv
  OBVIOUS
<1>1. EmptyJournal \in Journal /\ UniqueKeys(EmptyJournal.events)
  BY DEF EmptyJournal, Journal, UniqueKeys
<1>2. NoReply \in Envelope
  BY DEF NoReply, Error, Envelope, Codes
<1>3. TypeOK
  BY <1>1, <1>2, WritersAssumption DEF Init, TypeOK, Steps, MaxAttempts
<1>4. LockInv /\ ViewInv
  BY WritersAssumption DEF Init, LockInv, ViewInv, InTransaction
<1> QED
  BY <1>1, <1>3, <1>4
     DEF Init, IInv, CallInv, ReplyInv, KeyUnique, OkIsDurable, EmptyJournal, UniqueKeys

LEMMA DryType == \A c \in Calls : c.dry \in BOOLEAN /\ c \in CallRecord
BY CallsAssumption DEF CallRecord

\* dispatch: a new call starts, or is refused.
LEMMA DispatchInv ==
    ASSUME IInv, NEW p \in Writers, NEW c \in Calls, Dispatch(p, c)
    PROVE  IInv'
<1>0. dryFlag' \in [Writers -> BOOLEAN]
  <2>1. (dryFlag[p] \/ c.dry) \in BOOLEAN
    OBVIOUS
  <2> QED
    BY <2>1, Zenon DEF Dispatch, IInv, TypeOK
<1>1. TypeOK'
  BY <1>0 DEF Dispatch, IInv, TypeOK, Steps
<1>2. CallInv'
  <2>1. ~dryFlag[p] /\ c.dry \in BOOLEAN
    BY DryType DEF Dispatch, IInv, CallInv
  <2>2. (dryFlag[p] \/ c.dry) = c.dry
    BY <2>1, Zenon
  <2>3. call'[p] = c /\ dryFlag'[p] = c.dry /\ pc'[p] # "idle"
    BY <2>2, Zenon DEF Dispatch, IInv, TypeOK
  <2>4. \A q \in Writers \ {p} :
           pc'[q] = pc[q] /\ call'[q] = call[q] /\ dryFlag'[q] = dryFlag[q]
    BY DEF Dispatch, IInv, TypeOK
  <2> QED
    BY <2>3, <2>4 DEF IInv, CallInv
<1>3. LockInv' /\ ViewInv'
  BY DEF Dispatch, IInv, TypeOK, LockInv, ViewInv, InTransaction
<1>4. ReplyInv'
  BY DEF Dispatch, IInv, TypeOK, ReplyInv
<1> QED
  BY <1>1, <1>2, <1>3, <1>4 DEF Dispatch, IInv, KeyUnique, OkIsDurable

LEMMA RefuseInv ==
    ASSUME IInv, NEW p \in Writers, NEW c \in Calls, Refuse(p, c)
    PROVE  IInv'
<1>1. Error("VALIDATION_ERROR") \in Envelope /\ Error("VALIDATION_ERROR").code # "ok"
  BY DEF Error, Envelope, Codes
<1>2. TypeOK'
  BY <1>1 DEF Refuse, IInv, TypeOK
<1>3. OkIsDurable'
  BY <1>1 DEF Refuse, IInv, OkIsDurable
<1> QED
  BY <1>2, <1>3 DEF Refuse, IInv, CallInv, LockInv, ViewInv, ReplyInv, KeyUnique

LEMMA ReturnInv ==
    ASSUME IInv, NEW p \in Writers, Return(p)
    PROVE  IInv'
<1>1. NoReply \in Envelope
  BY DEF NoReply, Error, Envelope, Codes
<1>2. call[p] \in Calls /\ dryFlag[p] = call[p].dry /\ call[p].dry \in BOOLEAN
  BY DryType DEF Return, IInv, CallInv
<1>0. dryFlag'[p] = FALSE
  BY <1>2, Zenon DEF Return, IInv, TypeOK, CallInv
<1>3. TypeOK'
  <2>1. dryFlag' \in [Writers -> BOOLEAN]
    BY <1>0, Zenon DEF Return, IInv, TypeOK
  <2>2. answers' \subseteq [call : Calls, send : Nat, env : Envelope]
    BY <1>2 DEF Return, IInv, TypeOK
  <2>3. /\ pc' \in [Writers -> Steps]
        /\ call' \in [Writers -> Calls \cup {None}]
        /\ attempt' \in [Writers -> 1..MaxAttempts]
        /\ reply' \in [Writers -> Envelope]
    BY <1>1 DEF Return, IInv, TypeOK, Steps, MaxAttempts
  <2> QED
    BY <2>1, <2>2, <2>3 DEF Return, IInv, TypeOK
<1>4. CallInv'
  <2>1. \A q \in Writers \ {p} :
           pc'[q] = pc[q] /\ call'[q] = call[q] /\ dryFlag'[q] = dryFlag[q]
    BY DEF Return, IInv, TypeOK
  <2>2. pc'[p] = "idle"
    BY DEF Return, IInv, TypeOK
  <2> QED
    BY <1>0, <2>1, <2>2 DEF IInv, CallInv
<1>5. LockInv' /\ ViewInv'
  BY DEF Return, IInv, TypeOK, LockInv, ViewInv, InTransaction
<1>6. ReplyInv'
  BY DEF Return, IInv, TypeOK, ReplyInv
<1>7. OkIsDurable'
  BY <1>2 DEF Return, IInv, TypeOK, ReplyInv, OkIsDurable
<1> QED
  BY <1>3, <1>4, <1>5, <1>6, <1>7 DEF Return, IInv, KeyUnique

\* A statement inside the open transaction of p: it may change p's image, step
\* and pending envelope, and nothing else.
LEMMA LocalStepInv ==
    ASSUME IInv, NEW p \in Writers, pc[p] \in InTransaction,
           UNCHANGED <<db, lock, call, answers>>, UNCHANGED control,
           NEW s \in InTransaction, Goto(p, s),
           NEW j \in Journal, view' = [view EXCEPT ![p] = j],
           NEW env \in Envelope, Answer(p, env),
           Continues(j.events, db.events), Continues(j.rows, db.rows),
           db.outbox \subseteq j.outbox, UniqueKeys(j.events),
           s \in {"cascade", "exit"} =>
               env.id \in DOMAIN j.events /\ Says(j.events[env.id], call[p])
    PROVE  IInv'
<1>1. /\ pc' \in [Writers -> Steps] /\ pc'[p] = s
      /\ view' \in [Writers -> Journal] /\ view'[p] = j
      /\ reply' \in [Writers -> Envelope] /\ reply'[p] = env
      /\ \A q \in Writers \ {p} :
            pc'[q] = pc[q] /\ view'[q] = view[q] /\ reply'[q] = reply[q]
  BY DEF IInv, TypeOK, Steps, InTransaction
<1>2. lock = p /\ s # "idle" /\ s # "reply" /\ pc[p] # "idle"
  BY DEF IInv, LockInv, InTransaction
<1>3. TypeOK'
  BY <1>1 DEF IInv, TypeOK
<1>4. CallInv'
  BY <1>1, <1>2 DEF IInv, CallInv
<1>5. LockInv'
  BY <1>1, <1>2 DEF IInv, LockInv
<1>6. ViewInv'
  BY <1>1, <1>2 DEF IInv, ViewInv
<1>7. ReplyInv'
  BY <1>1, <1>2 DEF IInv, ReplyInv
<1> QED
  BY <1>3, <1>4, <1>5, <1>6, <1>7 DEF IInv, KeyUnique, OkIsDurable

\* The transaction of p ends without a commit.
LEMMA UnwindInv ==
    ASSUME IInv, NEW p \in Writers, pc[p] \in InTransaction, Rollback(p),
           UNCHANGED <<call, answers>>, UNCHANGED control, Goto(p, "reply"),
           NEW env \in Envelope, Answer(p, env), env.code # "ok" \/ call[p].dry
    PROVE  IInv'
<1>0. EmptyJournal \in Journal
  BY DEF EmptyJournal, Journal
<1>1. /\ pc' \in [Writers -> Steps] /\ pc'[p] = "reply"
      /\ view' \in [Writers -> Journal]
      /\ reply' \in [Writers -> Envelope] /\ reply'[p] = env
      /\ \A q \in Writers \ {p} :
            pc'[q] = pc[q] /\ view'[q] = view[q] /\ reply'[q] = reply[q]
  BY <1>0 DEF Rollback, IInv, TypeOK, Steps
<1>2. lock = p /\ lock' = None /\ pc[p] # "idle" /\ db' = db
  BY DEF Rollback, IInv, LockInv, InTransaction
<1>3. TypeOK'
  BY <1>1, <1>2 DEF IInv, TypeOK
<1>4. CallInv'
  BY <1>1, <1>2 DEF IInv, CallInv
<1>5. LockInv' /\ ViewInv'
  BY <1>1, <1>2, WritersAssumption DEF IInv, LockInv, ViewInv, InTransaction
<1>7. ReplyInv'
  BY <1>1, <1>2 DEF IInv, ReplyInv
<1> QED
  BY <1>2, <1>3, <1>4, <1>5, <1>7 DEF IInv, KeyUnique, OkIsDurable

\* What the open transaction of p knows.
LEMMA InsideFacts ==
    ASSUME IInv, NEW p \in Writers, pc[p] \in InTransaction
    PROVE  /\ lock = p /\ call[p] \in Calls /\ call[p] \in CallRecord
           /\ view[p] \in Journal /\ reply[p] \in Envelope /\ db \in Journal
           /\ Continues(view[p].events, db.events)
           /\ Continues(view[p].rows, db.rows)
           /\ db.outbox \subseteq view[p].outbox
           /\ UniqueKeys(view[p].events)
           /\ view = [view EXCEPT ![p] = view[p]]
           /\ reply = [reply EXCEPT ![p] = reply[p]]
BY DryType DEF IInv, TypeOK, LockInv, ViewInv, CallInv, InTransaction

LEMMA LookupInv ==
    ASSUME IInv, NEW p \in Writers, Lookup(p)
    PROVE  IInv'
<1>1. pc[p] \in InTransaction
  BY DEF Lookup, InTransaction
<1>2. PICK s \in {"insert", "emit"} : Goto(p, s)
  BY DEF Lookup
<1> QED
  BY <1>1, <1>2, InsideFacts, LocalStepInv DEF Lookup, InTransaction

LEMMA InsertRowInv ==
    ASSUME IInv, NEW p \in Writers, InsertRow(p)
    PROVE  IInv'
<1>1. pc[p] \in InTransaction
  BY DEF InsertRow, InTransaction
<1>2. call[p].shape \in Shapes
  BY <1>1, InsideFacts DEF CallRecord
<1> DEFINE j == InsertInto(view[p], call[p].shape)
<1>3. /\ j \in Journal /\ j.events = view[p].events
      /\ j.rows = Append(view[p].rows, call[p].shape)
      /\ j.outbox = view[p].outbox
  BY <1>1, <1>2, InsideFacts, InsertIntoFacts
<1>4. Continues(j.rows, db.rows)
  BY <1>1, <1>2, <1>3, InsideFacts, ContinuesAppend DEF Journal
<1> QED
  BY <1>1, <1>3, <1>4, InsideFacts, LocalStepInv DEF InsertRow, InTransaction

LEMMA EmitReplayInv ==
    ASSUME IInv, NEW p \in Writers, EmitReplay(p)
    PROVE  IInv'
<1>1. pc[p] \in InTransaction
  BY DEF EmitReplay, InTransaction
<1>2. PICK i \in Matching(view[p].events, call[p]) :
         /\ view[p].events[i].shape = call[p].shape
         /\ Answer(p, Ok(i, TRUE))
  BY DEF EmitReplay
<1>3. i \in DOMAIN view[p].events /\ Says(view[p].events[i], call[p])
  BY <1>2 DEF Matching, Says
<1>4. i \in Nat
  BY <1>1, <1>3, InsideFacts DEF Journal
<1>5. Ok(i, TRUE) \in Envelope /\ Ok(i, TRUE).id = i
  BY <1>4 DEF Ok, Envelope, Codes
<1>6. /\ UNCHANGED <<db, lock, call, answers>> /\ UNCHANGED control
      /\ Goto(p, "exit") /\ view' = view
  BY DEF EmitReplay
<1>7. /\ view[p] \in Journal /\ view' = [view EXCEPT ![p] = view[p]]
      /\ Continues(view[p].events, db.events) /\ Continues(view[p].rows, db.rows)
      /\ db.outbox \subseteq view[p].outbox /\ UniqueKeys(view[p].events)
  BY <1>1, <1>6, InsideFacts
<1>8. "exit" \in InTransaction
  BY DEF InTransaction
<1> DEFINE env == Ok(i, TRUE)
<1>9. env \in Envelope /\ Answer(p, env)
      /\ env.id \in DOMAIN view[p].events /\ Says(view[p].events[env.id], call[p])
  BY <1>2, <1>3, <1>5
<1> HIDE DEF env, Goto, Answer
<1> QED
  BY <1>1, <1>6, <1>7, <1>8, <1>9, LocalStepInv

LEMMA EmitFreshInv ==
    ASSUME IInv, NEW p \in Writers, EmitFresh(p)
    PROVE  IInv'
<1>1. pc[p] \in InTransaction
  BY DEF EmitFresh, InTransaction
<1> DEFINE r == Len(view[p].rows)
           e == PrimaryEvent(call[p], r)
           j == AppendEvent(view[p], e)
           n == Len(view[p].events) + 1
<1>2. /\ r \in Nat /\ n \in Nat /\ e \in Event
      /\ view[p].events \in Seq(Event) /\ db.events \in Seq(Event)
  BY <1>1, InsideFacts, EventType DEF Journal
<1>3. /\ j \in Journal /\ j.events = Append(view[p].events, e)
      /\ j.rows = view[p].rows /\ view[p].outbox \subseteq j.outbox
  BY <1>1, <1>2, InsideFacts, AppendEventFacts
<1>4. UniqueKeys(j.events)
  <2>1. call[p] \in CallRecord /\ UniqueKeys(view[p].events)
    BY <1>1, InsideFacts
  <2>2. Matching(view[p].events, call[p]) = {}
    BY DEF EmitFresh
  <2>3. UniqueKeys(Append(view[p].events, e))
    BY <1>2, <2>1, <2>2, UniqueAppendPrimary
  <2> QED
    BY <1>3, <2>3
<1>5. Continues(j.events, db.events)
  BY <1>1, <1>2, <1>3, InsideFacts, ContinuesAppend
<1>6. n \in DOMAIN j.events /\ j.events[n] = e
  BY <1>2, <1>3
<1>7. Says(e, call[p])
  BY DEF Says, SameIdentity, PrimaryEvent
<1>8. Ok(n, FALSE) \in Envelope /\ Ok(n, FALSE).id = n
  BY <1>2 DEF Ok, Envelope, Codes
<1>9. PICK s \in {"cascade", "exit"} : Goto(p, s)
  BY DEF EmitFresh
<1>10. view' = [view EXCEPT ![p] = j] /\ Answer(p, Ok(n, FALSE))
  BY DEF EmitFresh
<1>11. UNCHANGED <<db, lock, call, answers>> /\ UNCHANGED control
  BY DEF EmitFresh
<1>12. /\ Continues(j.rows, db.rows) /\ db.outbox \subseteq j.outbox
  BY <1>1, <1>3, InsideFacts
<1> HIDE DEF j, e, n
<1> QED
  BY <1>1, <1>3, <1>4, <1>5, <1>6, <1>7, <1>8, <1>9, <1>10, <1>11, <1>12,
     LocalStepInv DEF InTransaction

LEMMA EmitCascadeInv ==
    ASSUME IInv, NEW p \in Writers, EmitCascade(p)
    PROVE  IInv'
<1>1. pc[p] \in InTransaction /\ pc[p] = "cascade"
  BY DEF EmitCascade, InTransaction
<1> DEFINE r == Len(view[p].rows)
           e == CascadeEvent(call[p], r)
           j == AppendEvent(view[p], e)
<1>2. /\ r \in Nat /\ e \in Event
      /\ view[p].events \in Seq(Event) /\ db.events \in Seq(Event)
  BY <1>1, InsideFacts, EventType DEF Journal
<1>3. /\ j \in Journal /\ j.events = Append(view[p].events, e)
      /\ j.rows = view[p].rows /\ view[p].outbox \subseteq j.outbox
  BY <1>1, <1>2, InsideFacts, AppendEventFacts
<1>4. e.key = NoKey
  BY DEF CascadeEvent, PrimaryEvent
<1>5. UniqueKeys(j.events)
  BY <1>1, <1>2, <1>3, <1>4, InsideFacts, UniqueAppendCascade
<1>6. Continues(j.events, db.events)
  BY <1>1, <1>2, <1>3, InsideFacts, ContinuesAppend
<1>7. /\ reply[p].id \in DOMAIN view[p].events
      /\ Says(view[p].events[reply[p].id], call[p])
  BY <1>1 DEF IInv, ReplyInv
<1>8. /\ reply[p].id \in DOMAIN j.events
      /\ j.events[reply[p].id] = view[p].events[reply[p].id]
  BY <1>2, <1>3, <1>7
<1>9. view' = [view EXCEPT ![p] = j] /\ Goto(p, "exit")
  BY DEF EmitCascade
<1>10. UNCHANGED <<db, lock, call, answers>> /\ UNCHANGED control /\ reply' = reply
  BY DEF EmitCascade
<1>11. /\ Continues(j.rows, db.rows) /\ db.outbox \subseteq j.outbox
  BY <1>1, <1>3, InsideFacts
<1> HIDE DEF j, e
<1> QED
  BY <1>1, <1>3, <1>5, <1>6, <1>7, <1>8, <1>9, <1>10, <1>11, InsideFacts,
     LocalStepInv DEF InTransaction

LEMMA EmitConflictInv ==
    ASSUME IInv, NEW p \in Writers, EmitConflict(p)
    PROVE  IInv'
<1>1. pc[p] \in InTransaction
  BY DEF EmitConflict, InTransaction
<1> DEFINE env == Error("IDEMPOTENCY_CONFLICT")
<1>2. env \in Envelope /\ env.code # "ok"
  BY DEF Error, Envelope, Codes
<1> QED
  BY <1>1, <1>2, UnwindInv DEF EmitConflict

LEMMA RaiseInv ==
    ASSUME IInv, NEW p \in Writers, Raise(p)
    PROVE  IInv'
<1> DEFINE env == Error("STORAGE_ERROR")
<1>2. env \in Envelope /\ env.code # "ok"
  BY DEF Error, Envelope, Codes
<1> QED
  BY <1>2, UnwindInv DEF Raise

LEMMA DryRunRollbackInv ==
    ASSUME IInv, NEW p \in Writers, DryRunRollback(p)
    PROVE  IInv'
<1>1. pc[p] \in InTransaction
  BY DEF DryRunRollback, InTransaction
<1>2. call[p].dry
  BY DEF DryRunRollback, IInv, CallInv
<1>3. reply[p] \in Envelope /\ Answer(p, reply[p])
  BY <1>1, InsideFacts DEF DryRunRollback
<1> QED
  BY <1>1, <1>2, <1>3, UnwindInv DEF DryRunRollback

\* BEGIN IMMEDIATE: the image is the committed journal.
LEMMA BeginInv ==
    ASSUME IInv, NEW p \in Writers, Begin(p)
    PROVE  IInv'
<1>1. /\ pc' \in [Writers -> Steps] /\ pc'[p] = "lookup" /\ pc[p] = "begin"
      /\ view' \in [Writers -> Journal] /\ view'[p] = db /\ db' = db
      /\ \A q \in Writers \ {p} : pc'[q] = pc[q] /\ view'[q] = view[q]
      /\ lock = None /\ lock' = p
  BY DEF Begin, IInv, TypeOK, Steps
<1>2. TypeOK'
  BY <1>1 DEF Begin, IInv, TypeOK
<1>3. CallInv'
  BY <1>1 DEF Begin, IInv, CallInv
<1>4. LockInv'
  BY <1>1, WritersAssumption DEF IInv, LockInv, InTransaction
<1>5. Continues(db.events, db.events) /\ Continues(db.rows, db.rows)
  BY DEF IInv, TypeOK, Journal, Continues
<1>6. ViewInv'
  BY <1>1, <1>5 DEF IInv, ViewInv, KeyUnique
<1>7. ReplyInv'
  BY <1>1 DEF Begin, IInv, ReplyInv
<1> QED
  BY <1>1, <1>2, <1>3, <1>4, <1>6, <1>7 DEF Begin, IInv, KeyUnique, OkIsDurable

\* A step that changes only where p stands and what it will answer, and does not
\* promise anything: the two ways of failing before the transaction.
LEMMA FailBeforeInv ==
    ASSUME IInv, NEW p \in Writers, pc[p] = "begin",
           NEW env \in Envelope, Answer(p, env), env.code # "ok", Goto(p, "reply"),
           UNCHANGED <<db, lock, view, call, dryFlag, answers, sends, send, crashes>>,
           attempt' \in [Writers -> 1..MaxAttempts]
    PROVE  IInv'
<1>1. /\ pc' \in [Writers -> Steps] /\ pc'[p] = "reply"
      /\ reply' \in [Writers -> Envelope] /\ reply'[p] = env
      /\ \A q \in Writers \ {p} : pc'[q] = pc[q] /\ reply'[q] = reply[q]
  BY DEF IInv, TypeOK, Steps
<1>2. TypeOK'
  BY <1>1 DEF IInv, TypeOK
<1>3. CallInv'
  BY <1>1 DEF IInv, CallInv
<1>4. LockInv' /\ ViewInv'
  BY <1>1 DEF IInv, LockInv, ViewInv, InTransaction
<1>5. ReplyInv'
  BY <1>1 DEF IInv, ReplyInv
<1> QED
  BY <1>2, <1>3, <1>4, <1>5 DEF IInv, KeyUnique, OkIsDurable

LEMMA RejectArgsInv ==
    ASSUME IInv, NEW p \in Writers, RejectArgs(p)
    PROVE  IInv'
<1> DEFINE env == Error("VALIDATION_ERROR")
<1>1. env \in Envelope /\ env.code # "ok"
  BY DEF Error, Envelope, Codes
<1>2. attempt' \in [Writers -> 1..MaxAttempts]
  BY DEF RejectArgs, IInv, TypeOK
<1> HIDE DEF env
<1> QED
  BY <1>1, <1>2, FailBeforeInv DEF RejectArgs, env

LEMMA BusyTimeoutInv ==
    ASSUME IInv, NEW p \in Writers, BusyTimeout(p)
    PROVE  IInv'
<1>1. CASE attempt[p] < MaxAttempts
  <2>1. attempt' = [attempt EXCEPT ![p] = @ + 1] /\ UNCHANGED <<pc, reply>>
    BY <1>1 DEF BusyTimeout, MaxAttempts
  <2>2. attempt' \in [Writers -> 1..MaxAttempts]
    BY <1>1, <2>1 DEF IInv, TypeOK, MaxAttempts
  <2>3. TypeOK'
    BY <2>1, <2>2 DEF BusyTimeout, IInv, TypeOK
  <2> QED
    BY <2>1, <2>3 DEF BusyTimeout, IInv, CallInv, LockInv, ViewInv, ReplyInv,
                      KeyUnique, OkIsDurable
<1>2. CASE ~(attempt[p] < MaxAttempts)
  <2> DEFINE env == Error("single_writer_lock")
  <2>1. env \in Envelope /\ env.code # "ok"
    BY DEF Error, Envelope, Codes
  <2>2. UNCHANGED attempt /\ Answer(p, env) /\ Goto(p, "reply")
    BY <1>2 DEF BusyTimeout
  <2>3. attempt' \in [Writers -> 1..MaxAttempts]
    BY <2>2 DEF IInv, TypeOK
  <2> HIDE DEF env
  <2> QED
    BY <2>1, <2>2, <2>3, FailBeforeInv DEF BusyTimeout
<1> QED
  BY <1>1, <1>2

\* COMMIT: the image becomes the journal.  Old answers stay true because the
\* image continues it.
LEMMA CommitInv ==
    ASSUME IInv, NEW p \in Writers, Commit(p)
    PROVE  IInv'
<1>1. pc[p] \in InTransaction /\ pc[p] = "exit"
  BY DEF Commit, InTransaction
<1>2. EmptyJournal \in Journal
  BY DEF EmptyJournal, Journal
<1>3. /\ pc' \in [Writers -> Steps] /\ pc'[p] = "reply"
      /\ view' \in [Writers -> Journal]
      /\ \A q \in Writers \ {p} : pc'[q] = pc[q] /\ view'[q] = view[q]
      /\ db' = view[p] /\ lock' = None /\ reply' = reply /\ call' = call
      /\ answers' = answers /\ dryFlag' = dryFlag
  BY <1>2 DEF Commit, IInv, TypeOK, Steps
<1>4. /\ lock = p /\ view[p] \in Journal /\ db \in Journal
      /\ Continues(view[p].events, db.events) /\ UniqueKeys(view[p].events)
  BY <1>1, InsideFacts
<1>5. \A i \in DOMAIN db.events :
         i \in DOMAIN view[p].events /\ view[p].events[i] = db.events[i]
  BY <1>4 DEF Continues, Journal
<1>6. TypeOK'
  BY <1>3, <1>4 DEF Commit, IInv, TypeOK
<1>7. CallInv'
  BY <1>1, <1>3 DEF IInv, CallInv
<1>8. LockInv' /\ ViewInv'
  BY <1>1, <1>3, <1>4, WritersAssumption DEF IInv, LockInv, ViewInv, InTransaction
<1>9. ReplyInv'
  <2>1. /\ reply[p].id \in DOMAIN view[p].events
        /\ Says(view[p].events[reply[p].id], call[p])
    BY <1>1 DEF IInv, ReplyInv
  <2>2. ASSUME NEW q \in Writers \ {p}, pc[q] \in {"cascade", "exit"}
        PROVE  FALSE
    BY <1>4, <2>2 DEF IInv, LockInv, InTransaction
  <2> QED
    BY <1>3, <1>5, <2>1, <2>2 DEF IInv, ReplyInv
<1>10. KeyUnique'
  BY <1>3, <1>4 DEF KeyUnique
<1>11. OkIsDurable'
  BY <1>3, <1>5 DEF IInv, OkIsDurable
<1> QED
  BY <1>6, <1>7, <1>8, <1>9, <1>10, <1>11 DEF IInv

LEMMA ConfigSetInv ==
    ASSUME IInv, NEW on \in BOOLEAN, ConfigSet(on)
    PROVE  IInv'
<1>1. /\ db'.events = db.events /\ lock = None
      /\ UNCHANGED <<lock, view, pc, call, reply, answers>> /\ UNCHANGED control
  BY DEF ConfigSet
<1>2. db' \in Journal
  BY DEF ConfigSet, IInv, TypeOK, Journal
<1>3. TypeOK'
  BY <1>1, <1>2 DEF IInv, TypeOK
<1>4. CallInv' /\ LockInv'
  BY <1>1 DEF IInv, CallInv, LockInv
<1>5. ViewInv'
  BY <1>1, WritersAssumption DEF IInv, ViewInv
<1>6. ReplyInv'
  BY <1>1 DEF IInv, ReplyInv
<1> QED
  BY <1>1, <1>3, <1>4, <1>5, <1>6 DEF IInv, KeyUnique, OkIsDurable

LEMMA CrashInv ==
    ASSUME IInv, NEW p \in Writers, Crash(p)
    PROVE  IInv'
<1>1. EmptyJournal \in Journal /\ NoReply \in Envelope
  BY DEF EmptyJournal, Journal, NoReply, Error, Envelope, Codes
<1>2. /\ pc' \in [Writers -> Steps] /\ pc'[p] = "idle"
      /\ view' \in [Writers -> Journal] /\ reply' \in [Writers -> Envelope]
      /\ call' \in [Writers -> Calls \cup {None}]
      /\ attempt' \in [Writers -> 1..MaxAttempts]
      /\ crashes' \in Nat
  BY <1>1 DEF Crash, IInv, TypeOK, Steps, MaxAttempts
<1>3. /\ dryFlag' \in [Writers -> BOOLEAN] /\ dryFlag'[p] = FALSE
      /\ \A q \in Writers \ {p} : dryFlag'[q] = dryFlag[q]
  BY Zenon DEF Crash, IInv, TypeOK
<1>4. \A q \in Writers \ {p} : /\ pc'[q] = pc[q] /\ view'[q] = view[q]
                               /\ reply'[q] = reply[q] /\ call'[q] = call[q]
  BY DEF Crash, IInv, TypeOK
<1>5. /\ lock' = (IF lock = p THEN None ELSE lock)
      /\ db' = db /\ answers' = answers
  BY DEF Crash
<1>6. TypeOK'
  BY <1>2, <1>3, <1>5 DEF Crash, IInv, TypeOK
<1>7. CallInv'
  BY <1>2, <1>3, <1>4 DEF IInv, CallInv
<1>8. LockInv' /\ ViewInv'
  BY <1>2, <1>4, <1>5, WritersAssumption DEF IInv, LockInv, ViewInv, InTransaction
<1>9. ReplyInv'
  BY <1>2, <1>4, <1>5 DEF IInv, ReplyInv
<1> QED
  BY <1>5, <1>6, <1>7, <1>8, <1>9 DEF IInv, KeyUnique, OkIsDurable

LEMMA StutterInv ==
    ASSUME IInv, UNCHANGED vars
    PROVE  IInv'
BY DEF vars, IInv, TypeOK, CallInv, LockInv, ViewInv, ReplyInv, KeyUnique, OkIsDurable

LEMMA NextInv == IInv /\ [Next]_vars => IInv'
<1> SUFFICES ASSUME IInv, [Next]_vars PROVE IInv'
  OBVIOUS
<1>1. ASSUME NEW p \in Writers, Step(p) PROVE IInv'
  BY <1>1, BusyTimeoutInv, ReturnInv, BeginInv, LookupInv, InsertRowInv,
     EmitReplayInv, EmitConflictInv, EmitFreshInv, EmitCascadeInv, CommitInv,
     DryRunRollbackInv DEF Step
<1>2. ASSUME NEW p \in Writers, RejectArgs(p) \/ Raise(p) \/ Crash(p) PROVE IInv'
  BY <1>2, RejectArgsInv, RaiseInv, CrashInv
<1>3. ASSUME NEW p \in Writers, NEW c \in Calls, Dispatch(p, c) \/ Refuse(p, c)
      PROVE  IInv'
  BY <1>3, DispatchInv, RefuseInv
<1>4. ASSUME NEW on \in BOOLEAN, ConfigSet(on) PROVE IInv'
  BY <1>4, ConfigSetInv
<1> QED
  BY <1>1, <1>2, <1>3, <1>4, StutterInv DEF Next

\* The strengthened invariant holds in every reachable state.
THEOREM Invariance == Spec => []IInv
BY InitInv, NextInv, PTL DEF Spec

-----------------------------------------------------------------------------
(* What a reader should know. *)

\* The journal's tables, the handlers' local state and the envelopes always have
\* their types.
THEOREM TypeCorrect == Spec => []TypeOK
<1>1. IInv => TypeOK
  BY DEF IInv
<1> QED
  BY <1>1, Invariance, PTL

\* Whatever the number of processes, calls, retries and crashes, one (event
\* type, actor, key) has at most one event.
THEOREM KeysAreUnique == Spec => []KeyUnique
<1>1. IInv => KeyUnique
  BY DEF IInv
<1> QED
  BY <1>1, Invariance, PTL

\* Every "ok" an agent has received stands for a committed event that says what
\* the agent said.
THEOREM AnswersAreDurable == Spec => []OkIsDurable
<1>1. IInv => OkIsDurable
  BY DEF IInv
<1> QED
  BY <1>1, Invariance, PTL

\* No step of any process rewrites, drops or reorders a committed event or
\* ledger row, or forgets a queued export.
THEOREM LogOnlyGrows == Spec => AppendOnly
<1> DEFINE Grows == /\ Continues(db'.events, db.events)
                    /\ Continues(db'.rows, db.rows)
                    /\ db.outbox \subseteq db'.outbox
<1>1. IInv /\ [Next]_vars => [Grows]_db
  <2> SUFFICES ASSUME IInv, [Next]_vars, db' # db PROVE Grows
    OBVIOUS
  <2>1. \/ \E p \in Writers : Commit(p)
        \/ \E on \in BOOLEAN : ConfigSet(on)
    BY DEF Next, Step, vars, Dispatch, Refuse, BusyTimeout, Return, Begin, RejectArgs,
           Lookup, InsertRow, EmitReplay, EmitConflict, EmitFresh, EmitCascade,
           DryRunRollback, Raise, Rollback, Crash
  <2>2. ASSUME NEW p \in Writers, Commit(p) PROVE Grows
    <3>1. pc[p] \in InTransaction
      BY <2>2 DEF Commit, InTransaction
    <3> QED
      BY <2>2, <3>1, InsideFacts DEF Commit
  <2>3. ASSUME NEW on \in BOOLEAN, ConfigSet(on) PROVE Grows
    <3>1. /\ db'.events = db.events /\ db'.rows = db.rows
          /\ db'.outbox = db.outbox
      BY <2>3 DEF ConfigSet
    <3>2. db.events \in Seq(Event) /\ db.rows \in Seq(Shapes)
      BY DEF IInv, TypeOK, Journal
    <3> QED
      BY <3>1, <3>2 DEF Continues
  <2> QED
    BY <2>1, <2>2, <2>3
<1> QED
  BY <1>1, Invariance, PTL DEF Spec, AppendOnly
-----------------------------------------------------------------------------
(* The inductive invariant, on top of IInv. *)

\* The outbox of image j: what was queued before, and each event the
\* transaction appended if the export was on when it began.
Queued(j) ==
    db.outbox \cup {i \in DOMAIN j.events : i > Len(db.events) /\ db.exporting}

Untouched(p)   == view[p].events = db.events /\ view[p].rows = db.rows
Fresh(p)       == Matching(db.events, call[p]) = {}
RowInserted(p) == Fresh(p) /\ view[p].rows = Append(db.rows, call[p].shape)
Numbered(p)    == reply[p] = Ok(Len(db.events) + 1, FALSE)
Replayed(p)    == reply[p].code = "ok" /\ reply[p].replay
Recorded(p)    ==
    view[p].events = db.events \o Abstract!Unit(call[p], Len(view[p].rows))

\* How far the open transaction of p has come.
Stage(p) ==
    /\ view[p].exporting = db.exporting
    /\ view[p].outbox = Queued(view[p])
    /\ pc[p] = "lookup" => Untouched(p)
    /\ pc[p] = "insert" => Untouched(p) /\ Fresh(p)
    /\ pc[p] = "emit" =>
         \/ Untouched(p) /\ ~Fresh(p)
         \/ RowInserted(p) /\ view[p].events = db.events
    /\ pc[p] = "cascade" =>
         /\ RowInserted(p) /\ Numbered(p) /\ call[p].type \in CascadeTypes
         /\ view[p].events =
              Append(db.events, PrimaryEvent(call[p], Len(view[p].rows)))
    /\ pc[p] = "exit" =>
         \/ Untouched(p) /\ Replayed(p)
         \/ RowInserted(p) /\ Numbered(p) /\ Recorded(p)

StageInv == \A p \in Writers : pc[p] \in InTransaction => Stage(p)

\* dispatch let the call through.
AcceptedInv == \A p \in Writers : pc[p] # "idle" => Accepted(call[p])

\* A conflict about to be reported is one with the committed log.
ConflictInv ==
    \A p \in Writers :
        pc[p] = "reply" /\ reply[p].code = "IDEMPOTENCY_CONFLICT" =>
            \E i \in Matching(db.events, call[p]) :
                db.events[i].shape # call[p].shape

\* p is about to tell its agent that it has written.
Claiming(p) ==
    pc[p] = "reply" /\ reply[p].code = "ok" /\ ~reply[p].replay /\ ~call[p].dry

\* Nobody else claims that event, or has claimed it.
ClaimInv ==
    \A p \in Writers : Claiming(p) =>
        /\ \A b \in answers : Abstract!Claims(b) => b.env.id # reply[p].id
        /\ \A q \in Writers \ {p} : Claiming(q) => reply[q].id # reply[p].id

RowsCounted == Len(db.rows) <= Len(db.events)

JInv == StageInv /\ AcceptedInv /\ ConflictInv /\ ClaimInv /\ RowsCounted /\ WholeUnits

-----------------------------------------------------------------------------
(* Lemmas. *)

USE DEF Goto, Answer, control

\* Only one transaction is open.
LEMMA OneInside ==
    ASSUME IInv, NEW p \in Writers, pc[p] \in InTransaction,
           NEW q \in Writers \ {p}
    PROVE  pc[q] \notin InTransaction
BY DEF IInv, LockInv

\* The abstract log speaks of calls and events as the write path does.
LEMMA SameWords ==
    ASSUME NEW c, NEW r, NEW log
    PROVE  /\ Abstract!PrimaryEvent(c, r) = PrimaryEvent(c, r)
           /\ Abstract!CascadeEvent(c, r) = CascadeEvent(c, r)
           /\ Abstract!Matching(log, c) = Matching(log, c)
           /\ Abstract!Accepted(c) = Accepted(c)
           /\ \A e : Abstract!Says(e, c) <=> Says(e, c)
<1>1. /\ Abstract!NoKey = NoKey /\ Abstract!EffectiveKey(c) = EffectiveKey(c)
  BY DEF Abstract!NoKey, NoKey, Abstract!EffectiveKey, EffectiveKey,
         Abstract!AutoKey, AutoKey
<1>2. \A e : Abstract!SameIdentity(e, c) <=> SameIdentity(e, c)
  BY <1>1 DEF Abstract!SameIdentity, SameIdentity
<1> QED
  BY <1>1, <1>2 DEF Abstract!PrimaryEvent, PrimaryEvent, Abstract!CascadeEvent,
     CascadeEvent, Abstract!Matching, Matching, Abstract!Accepted, Accepted,
     Abstract!Says, Says

LEMMA AppendOne ==
    ASSUME NEW S, NEW s \in Seq(S), NEW a \in S, NEW b \in S
    PROVE  /\ Append(s, a) = s \o <<a>>
           /\ Append(Append(s, a), b) = s \o <<a, b>>
OBVIOUS

\* The outbox of an image after one more event.
LEMMA QueuedAppend ==
    ASSUME NEW j \in Journal, NEW e \in Event, db \in Journal,
           Len(db.events) <= Len(j.events),
           j.exporting = db.exporting, j.outbox = Queued(j)
    PROVE  /\ AppendEvent(j, e).exporting = db.exporting
           /\ AppendEvent(j, e).outbox = Queued(AppendEvent(j, e))
<1> DEFINE k == AppendEvent(j, e)
<1>1. j.events \in Seq(Event) /\ db.events \in Seq(Event) /\ db.exporting \in BOOLEAN
  BY DEF Journal
<1>2. k.events = Append(j.events, e) /\ k.exporting = db.exporting
  BY AppendEventFacts DEF AppendEvent
<1>3. DOMAIN k.events = 1..(Len(j.events) + 1) /\ DOMAIN j.events = 1..Len(j.events)
  BY <1>1, <1>2
<1>4. k.outbox = IF db.exporting THEN j.outbox \cup {Len(j.events) + 1} ELSE j.outbox
  BY DEF AppendEvent
<1>5. ASSUME db.exporting PROVE k.outbox = Queued(k)
  <2>1. {i \in DOMAIN k.events : i > Len(db.events)} =
        {i \in DOMAIN j.events : i > Len(db.events)} \cup {Len(j.events) + 1}
    BY <1>1, <1>3
  <2> QED
    BY <1>2, <1>4, <1>5, <2>1 DEF Queued
<1>6. ASSUME ~db.exporting PROVE k.outbox = Queued(k)
  BY <1>2, <1>4, <1>6 DEF Queued
<1> QED
  BY <1>2, <1>5, <1>6 DEF k

\* A statement inside the transaction of p, or its BEGIN.
LEMMA InsideJ ==
    ASSUME IInv, JInv, NEW p \in Writers, pc[p] # "idle",
           UNCHANGED <<db, call, answers>>,
           NEW s \in InTransaction, Goto(p, s), Stage(p)',
           \A q \in Writers \ {p} : view'[q] = view[q] /\ reply'[q] = reply[q],
           \A q \in Writers \ {p} : pc[q] \notin InTransaction
    PROVE  JInv'
<1>1. /\ pc'[p] = s /\ s # "idle" /\ s # "reply"
      /\ \A q \in Writers \ {p} : pc'[q] = pc[q]
  BY DEF IInv, TypeOK, InTransaction
<1>2. StageInv'
  BY <1>1 DEF StageInv
<1>3. AcceptedInv'
  BY <1>1 DEF JInv, AcceptedInv
<1>4. ConflictInv'
  BY <1>1 DEF JInv, ConflictInv
<1>5. ClaimInv'
  <2>1. ~Claiming(p)'
    BY <1>1 DEF Claiming
  <2>2. \A q \in Writers \ {p} : Claiming(q)' = Claiming(q)
    BY <1>1 DEF Claiming
  <2> QED
    BY <2>1, <2>2 DEF JInv, ClaimInv
<1> QED
  BY <1>2, <1>3, <1>4, <1>5 DEF JInv, RowsCounted, WholeUnits

\* A step of p outside a transaction, or one that leaves it without a commit.
LEMMA OutsideJ ==
    ASSUME IInv, JInv, NEW p \in Writers, UNCHANGED db,
           pc'[p] \notin InTransaction,
           \A q \in Writers \ {p} : /\ pc'[q] = pc[q] /\ view'[q] = view[q]
                                    /\ call'[q] = call[q] /\ reply'[q] = reply[q],
           pc'[p] # "idle" => Accepted(call'[p]),
           pc'[p] = "reply" =>
               /\ reply'[p].code # "ok" \/ call'[p].dry
               /\ reply'[p].code = "IDEMPOTENCY_CONFLICT" =>
                    \E i \in Matching(db.events, call'[p]) :
                        db.events[i].shape # call'[p].shape,
           \A b \in answers' : Abstract!Claims(b) =>
               b \in answers \/ (Claiming(p) /\ b.env.id = reply[p].id)
    PROVE  JInv'
<1>1. StageInv'
  <2> SUFFICES ASSUME NEW q \in Writers \ {p}, (pc[q] \in InTransaction)' PROVE Stage(q)'
    BY DEF StageInv
  <2>1. Stage(q)
    BY DEF JInv, StageInv
  <2> QED
    BY <2>1 DEF Stage, Untouched, Fresh, RowInserted, Numbered, Replayed, Recorded, Queued
<1>2. AcceptedInv'
  BY DEF JInv, AcceptedInv
<1>3. ConflictInv'
  BY DEF JInv, ConflictInv
<1>4. ClaimInv'
  <2>1. ~Claiming(p)'
    BY DEF Claiming
  <2>2. \A q \in Writers \ {p} : Claiming(q)' = Claiming(q)
    BY DEF Claiming
  <2> QED
    BY <2>1, <2>2 DEF JInv, ClaimInv
<1> QED
  BY <1>1, <1>2, <1>3, <1>4 DEF JInv, RowsCounted, WholeUnits

-----------------------------------------------------------------------------
(* Every action preserves the invariant. *)

\* What the open transaction of p knows besides.
LEMMA StageFacts ==
    ASSUME IInv, JInv, NEW p \in Writers, pc[p] \in InTransaction
    PROVE  /\ Stage(p) /\ pc[p] # "idle"
           /\ view[p].exporting = db.exporting
           /\ view[p].outbox = Queued(view[p])
           /\ \A q \in Writers \ {p} : pc[q] \notin InTransaction
           /\ view[p].events \in Seq(Event) /\ view[p].rows \in Seq(Shapes)
           /\ db.events \in Seq(Event) /\ db.rows \in Seq(Shapes) /\ db \in Journal
           /\ view[p] \in Journal /\ call[p] \in CallRecord
           /\ Len(db.events) <= Len(view[p].events)
<1>1. view[p] \in Journal /\ db \in Journal /\ call[p] \in CallRecord
      /\ Continues(view[p].events, db.events)
  BY InsideFacts
<1>2. Stage(p) /\ pc[p] # "idle" /\ \A q \in Writers \ {p} : pc[q] \notin InTransaction
  BY OneInside DEF JInv, StageInv, InTransaction
<1> QED
  BY <1>1, <1>2 DEF Stage, Continues, Journal

LEMMA BeginJ ==
    ASSUME IInv, JInv, NEW p \in Writers, Begin(p)
    PROVE  JInv'
<1>1. /\ pc'[p] = "lookup" /\ pc[p] = "begin" /\ view'[p] = db /\ lock = None
      /\ \A q \in Writers \ {p} : view'[q] = view[q] /\ reply'[q] = reply[q]
      /\ UNCHANGED <<db, call, answers>> /\ Goto(p, "lookup")
  BY DEF Begin, IInv, TypeOK
<1>2. \A q \in Writers \ {p} : pc[q] \notin InTransaction
  BY <1>1, WritersAssumption DEF IInv, LockInv
<1>3. {i \in DOMAIN db.events : i > Len(db.events)} = {}
  BY DEF IInv, TypeOK, Journal
<1>4. Stage(p)'
  BY <1>1, <1>3 DEF Stage, Untouched, Queued
<1> HIDE DEF Goto
<1> QED
  BY <1>1, <1>2, <1>4, InsideJ DEF InTransaction

LEMMA LookupJ ==
    ASSUME IInv, JInv, NEW p \in Writers, Lookup(p)
    PROVE  JInv'
<1>1. pc[p] \in InTransaction /\ pc[p] = "lookup"
  BY DEF Lookup, InTransaction
<1>2. UNCHANGED <<db, view, call, reply, answers>>
  BY DEF Lookup
<1>3. Stage(p) /\ Untouched(p)
  BY <1>1, StageFacts DEF Stage
<1>4. CASE Fresh(p)
  <2>1. Goto(p, "insert") /\ pc'[p] = "insert"
    BY <1>3, <1>4 DEF Lookup, Untouched, Fresh, IInv, TypeOK
  <2>2. Stage(p)'
    BY <1>2, <1>3, <1>4, <2>1 DEF Stage, Untouched, Fresh, Queued
  <2> HIDE DEF Goto
  <2> QED
    BY <1>1, <1>2, <2>1, <2>2, StageFacts, InsideJ DEF InTransaction
<1>5. CASE ~Fresh(p)
  <2>1. Goto(p, "emit") /\ pc'[p] = "emit"
    BY <1>3, <1>5 DEF Lookup, Untouched, Fresh, IInv, TypeOK
  <2>2. Stage(p)'
    BY <1>2, <1>3, <1>5, <2>1 DEF Stage, Untouched, Fresh, Queued
  <2> HIDE DEF Goto
  <2> QED
    BY <1>1, <1>2, <2>1, <2>2, StageFacts, InsideJ DEF InTransaction
<1> QED
  BY <1>4, <1>5

LEMMA InsertRowJ ==
    ASSUME IInv, JInv, NEW p \in Writers, InsertRow(p)
    PROVE  JInv'
<1>1. pc[p] \in InTransaction /\ pc[p] = "insert"
  BY DEF InsertRow, InTransaction
<1>2. Stage(p) /\ Untouched(p) /\ Fresh(p)
  BY <1>1, StageFacts DEF Stage
<1>3. /\ pc'[p] = "emit" /\ view'[p] = InsertInto(view[p], call[p].shape)
      /\ \A q \in Writers \ {p} : view'[q] = view[q] /\ reply'[q] = reply[q]
      /\ UNCHANGED <<db, call, reply, answers>> /\ Goto(p, "emit")
  BY DEF InsertRow, IInv, TypeOK
<1>4. Stage(p)'
  BY <1>2, <1>3 DEF Stage, Untouched, Fresh, RowInserted, Queued, InsertInto
<1> HIDE DEF Goto
<1> QED
  BY <1>1, <1>3, <1>4, StageFacts, InsideJ DEF InTransaction

LEMMA EmitReplayJ ==
    ASSUME IInv, JInv, NEW p \in Writers, EmitReplay(p)
    PROVE  JInv'
<1>1. pc[p] \in InTransaction /\ pc[p] = "emit"
  BY DEF EmitReplay, InTransaction
<1>2. PICK i \in Matching(view[p].events, call[p]) : Answer(p, Ok(i, TRUE))
  BY DEF EmitReplay
<1>3. Stage(p) /\ Untouched(p)
  BY <1>1, <1>2, StageFacts DEF Stage, RowInserted, Fresh
<1>4. /\ pc'[p] = "exit" /\ Replayed(p)'
      /\ \A q \in Writers \ {p} : view'[q] = view[q] /\ reply'[q] = reply[q]
      /\ UNCHANGED <<db, view, call, answers>> /\ Goto(p, "exit")
  BY <1>2 DEF EmitReplay, IInv, TypeOK, Ok, Replayed
<1>5. Stage(p)'
  BY <1>3, <1>4 DEF Stage, Untouched, Queued
<1> HIDE DEF Goto
<1> QED
  BY <1>1, <1>4, <1>5, StageFacts, InsideJ DEF InTransaction

LEMMA EmitFreshJ ==
    ASSUME IInv, JInv, NEW p \in Writers, EmitFresh(p)
    PROVE  JInv'
<1> DEFINE r == Len(view[p].rows)
           e == PrimaryEvent(call[p], r)
           j == AppendEvent(view[p], e)
           env == Ok(Len(view[p].events) + 1, FALSE)
<1>1. pc[p] \in InTransaction /\ pc[p] = "emit"
  BY DEF EmitFresh, InTransaction
<1>2. RowInserted(p) /\ view[p].events = db.events
  BY <1>1, StageFacts DEF EmitFresh, Stage, Untouched, Fresh
<1>3. /\ view'[p] = j /\ reply'[p] = env /\ Answer(p, env)
      /\ \A q \in Writers \ {p} : view'[q] = view[q] /\ reply'[q] = reply[q]
      /\ UNCHANGED <<db, call, answers>>
  BY DEF EmitFresh, IInv, TypeOK
<1>4. e \in Event
  <2>1. r \in Nat /\ call[p] \in CallRecord
    BY <1>1, StageFacts
  <2> QED
    BY <2>1, EventType
<1>5. /\ j.events = Append(db.events, e) /\ j.rows = view[p].rows
      /\ j.exporting = db.exporting /\ j.outbox = Queued(j)
  <2>1. view[p] \in Journal
    BY <1>1, StageFacts
  <2>2. j.events = Append(view[p].events, e) /\ j.rows = view[p].rows
    BY <1>4, <2>1, AppendEventFacts
  <2> HIDE DEF e
  <2>3. j.exporting = db.exporting /\ j.outbox = Queued(j)
    BY <1>1, <1>4, <2>1, StageFacts, QueuedAppend
  <2> QED
    BY <1>2, <2>2, <2>3
<1> HIDE DEF j, Answer, Goto
<1>6. RowInserted(p)' /\ Numbered(p)'
  BY <1>2, <1>3, <1>5 DEF RowInserted, Fresh, Numbered
<1>7. Queued(view[p])' = Queued(j)
  BY <1>3 DEF Queued
<1>8. view'[p].events = Append(db.events, PrimaryEvent(call'[p], Len(view'[p].rows)))
  BY <1>3, <1>5
<1>9. CASE call[p].type \in CascadeTypes
  <2>1. Goto(p, "cascade") /\ pc'[p] = "cascade"
    BY <1>9 DEF EmitFresh, IInv, TypeOK, Goto
  <2>2. Stage(p)'
    BY <1>3, <1>5, <1>6, <1>7, <1>8, <1>9, <2>1 DEF Stage
  <2> QED
    BY <1>1, <1>3, <2>1, <2>2, StageFacts, InsideJ DEF InTransaction
<1>10. CASE call[p].type \notin CascadeTypes
  <2>1. Goto(p, "exit") /\ pc'[p] = "exit"
    BY <1>10 DEF EmitFresh, IInv, TypeOK, Goto
  <2>2. Append(db.events, e) = db.events \o <<e>>
    BY <1>1, <1>4, StageFacts, AppendOne
  <2>3. Recorded(p)'
    BY <1>3, <1>5, <1>10, <2>2, SameWords DEF Recorded, Abstract!Unit
  <2>4. Stage(p)'
    BY <1>3, <1>5, <1>6, <1>7, <2>1, <2>3 DEF Stage
  <2> QED
    BY <1>1, <1>3, <2>1, <2>4, StageFacts, InsideJ DEF InTransaction
<1> QED
  BY <1>9, <1>10

LEMMA EmitCascadeJ ==
    ASSUME IInv, JInv, NEW p \in Writers, EmitCascade(p)
    PROVE  JInv'
<1> DEFINE r == Len(view[p].rows)
           d == PrimaryEvent(call[p], r)
           e == CascadeEvent(call[p], r)
           j == AppendEvent(view[p], e)
<1>1. pc[p] \in InTransaction /\ pc[p] = "cascade"
  BY DEF EmitCascade, InTransaction
<1>2. /\ RowInserted(p) /\ Numbered(p) /\ call[p].type \in CascadeTypes
      /\ view[p].events = Append(db.events, d)
  BY <1>1, StageFacts DEF Stage
<1>3. /\ view'[p] = j /\ pc'[p] = "exit" /\ Goto(p, "exit")
      /\ \A q \in Writers \ {p} : view'[q] = view[q] /\ reply'[q] = reply[q]
      /\ UNCHANGED <<db, call, reply, answers>>
  BY DEF EmitCascade, IInv, TypeOK
<1>4. d \in Event /\ e \in Event
  <2>1. r \in Nat /\ call[p] \in CallRecord
    BY <1>1, StageFacts
  <2> QED
    BY <2>1, EventType
<1>5. /\ j.events = Append(Append(db.events, d), e) /\ j.rows = view[p].rows
      /\ j.exporting = db.exporting /\ j.outbox = Queued(j)
  <2>1. view[p] \in Journal
    BY <1>1, StageFacts
  <2>2. j.events = Append(view[p].events, e) /\ j.rows = view[p].rows
    BY <1>4, <2>1, AppendEventFacts
  <2> HIDE DEF e
  <2>3. j.exporting = db.exporting /\ j.outbox = Queued(j)
    BY <1>1, <1>4, <2>1, StageFacts, QueuedAppend
  <2> QED
    BY <1>2, <2>2, <2>3
<1>6. Append(Append(db.events, d), e) = db.events \o <<d, e>>
  <2> HIDE DEF d, e
  <2> QED
    BY <1>1, <1>4, StageFacts, AppendOne
<1> HIDE DEF j, Goto
<1>7. Recorded(p)'
  BY <1>2, <1>3, <1>5, <1>6, SameWords DEF Recorded, Abstract!Unit
<1>8. RowInserted(p)' /\ Numbered(p)' /\ Queued(view[p])' = Queued(j)
  BY <1>2, <1>3, <1>5 DEF RowInserted, Fresh, Numbered, Queued
<1>9. Stage(p)'
  BY <1>3, <1>5, <1>7, <1>8 DEF Stage
<1> QED
  BY <1>1, <1>3, <1>9, StageFacts, InsideJ DEF InTransaction

\* WholeUnits, of any log and ledger.
RowWhole(ev, rw, r) ==
    \E i \in DOMAIN ev :
        /\ ev[i].row = r /\ ~ev[i].cascade
        /\ ev[i].shape = rw[r]
        /\ \A k \in DOMAIN ev : ev[k].row = r /\ ~ev[k].cascade => k = i
        /\ ev[i].type \in CascadeTypes =>
             \E k \in DOMAIN ev : ev[k].cascade /\ ev[k].row = r

AllWhole(ev, rw) ==
    /\ \A r \in DOMAIN rw : RowWhole(ev, rw, r)
    /\ \A i \in DOMAIN ev : ev[i].row \in DOMAIN rw

LEMMA WholeUnitsIsAllWhole == WholeUnits <=> AllWhole(db.events, db.rows)
BY DEF WholeUnits, AllWhole, RowWhole

\* ev2 and rw2 are the log ev of n events and the ledger rw of m - 1 rows, and
\* row m with its primary event and, for some types, a secondary one.
OneUnitMore(n, m, ev, rw, ev2, rw2) ==
    /\ DOMAIN rw = 1..(m - 1) /\ DOMAIN rw2 = 1..m
    /\ \A r \in 1..(m - 1) : rw2[r] = rw[r]
    /\ DOMAIN ev = 1..n
    /\ DOMAIN ev2 = 1..(IF ev2[n + 1].type \in CascadeTypes THEN n + 2 ELSE n + 1)
    /\ \A i \in 1..n : ev2[i] = ev[i]
    /\ ev2[n + 1].row = m /\ ~ev2[n + 1].cascade /\ ev2[n + 1].shape = rw2[m]
    /\ ev2[n + 1].type \in CascadeTypes =>
           ev2[n + 2].row = m /\ ev2[n + 2].cascade

LEMMA UnitKeepsWhole ==
    ASSUME NEW n \in Nat, NEW m \in Nat \ {0}, NEW ev, NEW rw, NEW ev2, NEW rw2,
           AllWhole(ev, rw), OneUnitMore(n, m, ev, rw, ev2, rw2)
    PROVE  AllWhole(ev2, rw2)
<1> DEFINE d == ev2[n + 1]
           e == ev2[n + 2]
           both == d.type \in CascadeTypes
<1> USE DEF OneUnitMore
<1>1. /\ \A i \in DOMAIN ev : i \in DOMAIN ev2 /\ i # n + 1
      /\ n + 1 \in DOMAIN ev2
      /\ both => n + 2 \in DOMAIN ev2
      /\ \A k \in DOMAIN ev2 : k \in DOMAIN ev \/ k = n + 1 \/ (both /\ k = n + 2)
      /\ m \in DOMAIN rw2 /\ m \notin DOMAIN rw
      /\ \A r \in DOMAIN rw2 : r \in DOMAIN rw \/ r = m
      /\ \A r \in DOMAIN rw : r \in DOMAIN rw2
  OBVIOUS
<1>2. \A i \in DOMAIN ev : ev2[i] = ev[i] /\ ev2[i].row \in DOMAIN rw
  BY DEF AllWhole
<1>3. \A i \in DOMAIN ev2 : ev2[i].row \in DOMAIN rw2
  BY <1>1, <1>2
<1>4. ASSUME NEW r \in DOMAIN rw PROVE RowWhole(ev2, rw2, r)
  <2>0. RowWhole(ev, rw, r)
    BY DEF AllWhole
  <2>1. PICK i \in DOMAIN ev :
          /\ ev[i].row = r /\ ~ev[i].cascade /\ ev[i].shape = rw[r]
          /\ \A k \in DOMAIN ev : ev[k].row = r /\ ~ev[k].cascade => k = i
          /\ ev[i].type \in CascadeTypes =>
               \E k \in DOMAIN ev : ev[k].cascade /\ ev[k].row = r
    BY <2>0, Zenon DEF RowWhole
  <2>2. i \in DOMAIN ev2 /\ ev2[i] = ev[i] /\ rw2[r] = rw[r]
    BY <1>1, <1>2
  <2>3. ASSUME NEW k \in DOMAIN ev2, ev2[k].row = r
        PROVE  k \in DOMAIN ev /\ ev2[k] = ev[k]
    <3>1. k # n + 1 /\ ~(both /\ k = n + 2)
      BY <1>1, <2>3
    <3> QED
      BY <1>1, <1>2, <3>1
  <2>4. \A k \in DOMAIN ev2 : ev2[k].row = r /\ ~ev2[k].cascade => k = i
    <3> SUFFICES ASSUME NEW k \in DOMAIN ev2, ev2[k].row = r, ~ev2[k].cascade
                 PROVE  k = i
      OBVIOUS
    <3>1. k \in DOMAIN ev /\ ev2[k] = ev[k]
      BY <2>3
    <3> QED
      BY <2>1, <3>1, Zenon
  <2>5. ASSUME ev2[i].type \in CascadeTypes
        PROVE  \E k \in DOMAIN ev2 : ev2[k].cascade /\ ev2[k].row = r
    <3>1. PICK k \in DOMAIN ev : ev[k].cascade /\ ev[k].row = r
      BY <2>1, <2>2, <2>5, Zenon
    <3>2. k \in DOMAIN ev2 /\ ev2[k] = ev[k]
      BY <1>1, <1>2
    <3> QED
      BY <3>1, <3>2, Zenon
  <2>6. ev2[i].row = r /\ ~ev2[i].cascade /\ ev2[i].shape = rw2[r]
    BY <2>1, <2>2, Zenon
  <2> QED
    BY <2>2, <2>4, <2>5, <2>6, Zenon DEF RowWhole
<1>5. RowWhole(ev2, rw2, m)
  <2>1. ASSUME NEW k \in DOMAIN ev2, ev2[k].row = m, ~ev2[k].cascade
        PROVE  k = n + 1
    <3>1. k \notin DOMAIN ev
      BY <1>1, <1>2, <2>1
    <3>2. CASE both /\ k = n + 2
      BY <2>1, <3>2, Zenon
    <3> QED
      BY <1>1, <3>1, <3>2, Zenon
  <2>2. ASSUME d.type \in CascadeTypes
        PROVE  \E k \in DOMAIN ev2 : ev2[k].cascade /\ ev2[k].row = m
    <3>1. n + 2 \in DOMAIN ev2 /\ e.cascade /\ e.row = m
      BY <1>1, <2>2, Zenon
    <3> QED
      BY <3>1, Zenon
  <2>3. n + 1 \in DOMAIN ev2 /\ ev2[n + 1] = d
    BY <1>1
  <2> QED
    BY <2>1, <2>2, <2>3, Zenon DEF RowWhole
<1> QED
  BY <1>1, <1>3, <1>4, <1>5, Zenon DEF AllWhole

\* What a transaction that recorded its call has put into its image.
LEMMA RecordedFacts ==
    ASSUME IInv, JInv, NEW p \in Writers, pc[p] \in InTransaction,
           RowInserted(p), Recorded(p)
    PROVE  /\ AllWhole(view[p].events, view[p].rows)
           /\ Len(view[p].rows) = Len(db.rows) + 1
           /\ Len(view[p].rows) <= Len(view[p].events)
<1> DEFINE n == Len(db.events)
           m == Len(db.rows) + 1
           d == PrimaryEvent(call[p], m)
           e == CascadeEvent(call[p], m)
           both == call[p].type \in CascadeTypes
           last == IF both THEN n + 2 ELSE n + 1
           ev2 == view[p].events
           rw2 == view[p].rows
<1>1. /\ db.events \in Seq(Event) /\ db.rows \in Seq(Shapes)
      /\ call[p] \in CallRecord /\ call[p].shape \in Shapes
      /\ n \in Nat /\ m \in Nat \ {0} /\ both \in BOOLEAN /\ last \in Nat
  BY StageFacts DEF CallRecord
<1>2. d \in Event /\ e \in Event
  BY <1>1, EventType
<1>3. /\ d.row = m /\ ~d.cascade /\ d.shape = call[p].shape
      /\ d.type \in CascadeTypes <=> both
      /\ e.row = m /\ e.cascade
  BY DEF PrimaryEvent, CascadeEvent
<1>4. /\ rw2 = Append(db.rows, call[p].shape) /\ Len(rw2) = m
      /\ DOMAIN db.rows = 1..(m - 1) /\ DOMAIN rw2 = 1..m
      /\ \A r \in 1..(m - 1) : rw2[r] = db.rows[r]
      /\ rw2[m] = call[p].shape
  BY <1>1 DEF RowInserted
<1>5. ev2 = IF both THEN db.events \o <<d, e>> ELSE db.events \o <<d>>
  BY <1>4, SameWords DEF Recorded, Abstract!Unit
<1> HIDE DEF d, e
<1>6. /\ DOMAIN db.events = 1..n /\ DOMAIN ev2 = 1..last /\ Len(ev2) = last
      /\ \A i \in 1..n : ev2[i] = db.events[i]
      /\ ev2[n + 1] = d
      /\ both => ev2[n + 2] = e
  BY <1>1, <1>2, <1>5
<1>7. m <= last
  BY <1>1 DEF JInv, RowsCounted
<1>8. AllWhole(db.events, db.rows)
  BY WholeUnitsIsAllWhole DEF JInv
<1> HIDE DEF n, m, both, ev2, rw2
<1>9. OneUnitMore(n, m, db.events, db.rows, ev2, rw2)
  BY <1>3, <1>4, <1>6 DEF OneUnitMore
<1>10. AllWhole(ev2, rw2)
  BY <1>1, <1>8, <1>9, UnitKeepsWhole
<1> QED
  BY <1>4, <1>6, <1>7, <1>10 DEF ev2, rw2, m

LEMMA CommitJ ==
    ASSUME IInv, JInv, NEW p \in Writers, Commit(p)
    PROVE  JInv'
<1>1. pc[p] \in InTransaction /\ pc[p] = "exit"
  BY DEF Commit, InTransaction
<1>2. /\ db' = view[p] /\ pc'[p] = "reply" /\ call' = call
      /\ reply' = reply /\ answers' = answers
      /\ \A q \in Writers \ {p} : pc'[q] = pc[q] /\ pc[q] \notin InTransaction
  BY <1>1, StageFacts DEF Commit, IInv, TypeOK
<1>3. /\ view[p].events \in Seq(Event) /\ db.events \in Seq(Event)
      /\ Continues(view[p].events, db.events) /\ db.rows \in Seq(Shapes)
  BY <1>1, StageFacts, InsideFacts
<1>4. \A i \in DOMAIN db.events :
         i \in DOMAIN view[p].events /\ view[p].events[i] = db.events[i]
  BY <1>3 DEF Continues
<1>5. \/ Untouched(p) /\ Replayed(p)
      \/ RowInserted(p) /\ Numbered(p) /\ Recorded(p)
  BY <1>1, StageFacts DEF Stage
<1>6. StageInv' /\ AcceptedInv'
  BY <1>1, <1>2 DEF JInv, StageInv, AcceptedInv, InTransaction
<1>7. ConflictInv'
  <2> SUFFICES ASSUME NEW q \in Writers, pc'[q] = "reply",
                      reply[q].code = "IDEMPOTENCY_CONFLICT"
               PROVE  \E i \in Matching(view[p].events, call[q]) :
                          view[p].events[i].shape # call[q].shape
    BY <1>2 DEF ConflictInv
  <2>1. q # p
    BY <1>5 DEF Replayed, Numbered, Ok
  <2>2. PICK i \in Matching(db.events, call[q]) : db.events[i].shape # call[q].shape
    BY <1>2, <2>1 DEF JInv, ConflictInv
  <2>3. i \in Matching(view[p].events, call[q])
    BY <1>4 DEF Matching
  <2> QED
    BY <1>4, <2>2, <2>3 DEF Matching
<1>8. ClaimInv'
  <2>1. \A q \in Writers \ {p} : Claiming(q)' = Claiming(q)
    BY <1>2 DEF Claiming
  <2>2. \A q \in Writers : Claiming(q) => reply[q].id \in 1..Len(db.events)
    BY <1>3 DEF Claiming, IInv, ReplyInv
  <2>3. \A b \in answers : Abstract!Claims(b) => b.env.id \in 1..Len(db.events)
    BY <1>3 DEF Abstract!Claims, IInv, OkIsDurable
  <2>4. Claiming(p)' => reply[p].id = Len(db.events) + 1
    BY <1>2, <1>5 DEF Claiming, Replayed, Numbered, Ok
  <2>5. Len(db.events) + 1 \notin 1..Len(db.events)
    BY <1>3
  <2> QED
    BY <1>2, <2>1, <2>2, <2>3, <2>4, <2>5 DEF JInv, ClaimInv
<1>9. RowsCounted' /\ WholeUnits'
  <2>1. Len(view[p].rows) <= Len(view[p].events)
    BY <1>1, <1>5, RecordedFacts DEF Untouched, JInv, RowsCounted
  <2>2. AllWhole(view[p].events, view[p].rows)
    BY <1>1, <1>5, RecordedFacts, WholeUnitsIsAllWhole DEF Untouched, JInv
  <2>3. WholeUnits' <=> AllWhole(db'.events, db'.rows)
    BY DEF WholeUnits, AllWhole, RowWhole
  <2> QED
    BY <1>2, <2>1, <2>2, <2>3 DEF RowsCounted
<1> QED
  BY <1>6, <1>7, <1>8, <1>9 DEF JInv

\* The steps outside the transaction, and those that leave it.
LEMMA DispatchJ ==
    ASSUME IInv, JInv, NEW p \in Writers, NEW c \in Calls, Dispatch(p, c)
    PROVE  JInv'
<1>1. /\ pc'[p] = "begin" /\ call'[p] = c /\ Accepted(c)
      /\ \A q \in Writers \ {p} : pc'[q] = pc[q] /\ call'[q] = call[q]
      /\ UNCHANGED <<db, view, reply, answers>>
  BY DEF Dispatch, IInv, TypeOK
<1> QED
  BY <1>1, OutsideJ DEF InTransaction

LEMMA RefuseJ ==
    ASSUME IInv, JInv, NEW p \in Writers, NEW c \in Calls, Refuse(p, c)
    PROVE  JInv'
<1>1. UNCHANGED <<db, view, pc, call, reply>> /\ pc[p] = "idle"
  BY DEF Refuse
<1>2. \A b \in answers' : Abstract!Claims(b) => b \in answers
  BY DEF Refuse, Abstract!Claims, Error
<1> QED
  BY <1>1, <1>2, OutsideJ DEF InTransaction

LEMMA ReturnJ ==
    ASSUME IInv, JInv, NEW p \in Writers, Return(p)
    PROVE  JInv'
<1>1. /\ pc'[p] = "idle"
      /\ \A q \in Writers \ {p} :
            pc'[q] = pc[q] /\ call'[q] = call[q] /\ reply'[q] = reply[q]
      /\ UNCHANGED <<db, view>>
  BY DEF Return, IInv, TypeOK
<1>2. \A b \in answers' : Abstract!Claims(b) =>
          b \in answers \/ (Claiming(p) /\ b.env.id = reply[p].id)
  BY DEF Return, Abstract!Claims, Claiming
<1> QED
  BY <1>1, <1>2, OutsideJ DEF InTransaction

\* p gives up with an error, or is told what a dry run would have done.
LEMMA ErrorJ ==
    ASSUME IInv, JInv, NEW p \in Writers, pc[p] # "idle",
           UNCHANGED <<db, call, answers>>, Goto(p, "reply"),
           \A q \in Writers \ {p} : view'[q] = view[q] /\ reply'[q] = reply[q],
           reply'[p].code # "ok" \/ call[p].dry,
           reply'[p].code = "IDEMPOTENCY_CONFLICT" =>
               \E i \in Matching(db.events, call[p]) :
                   db.events[i].shape # call[p].shape
    PROVE  JInv'
<1>1. pc'[p] = "reply" /\ \A q \in Writers \ {p} : pc'[q] = pc[q]
  BY DEF IInv, TypeOK
<1>2. Accepted(call[p])
  BY DEF JInv, AcceptedInv
<1> HIDE DEF Goto
<1> QED
  BY <1>1, <1>2, OutsideJ DEF InTransaction

LEMMA BusyTimeoutJ ==
    ASSUME IInv, JInv, NEW p \in Writers, BusyTimeout(p)
    PROVE  JInv'
<1>1. UNCHANGED <<db, view, call, answers>> /\ pc[p] = "begin"
  BY DEF BusyTimeout
<1>2. CASE UNCHANGED <<pc, reply>>
  <2>1. Accepted(call[p])
    BY <1>1 DEF JInv, AcceptedInv
  <2> QED
    BY <1>1, <1>2, <2>1, OutsideJ DEF InTransaction
<1>3. CASE Answer(p, Error("single_writer_lock")) /\ Goto(p, "reply")
  <2>1. /\ reply'[p].code = "single_writer_lock"
        /\ \A q \in Writers \ {p} : reply'[q] = reply[q]
    BY <1>3 DEF IInv, TypeOK, Error
  <2> HIDE DEF Goto, Answer
  <2> QED
    BY <1>1, <1>3, <2>1, ErrorJ
<1> QED
  BY <1>2, <1>3 DEF BusyTimeout

LEMMA RejectArgsJ ==
    ASSUME IInv, JInv, NEW p \in Writers, RejectArgs(p)
    PROVE  JInv'
<1>1. /\ UNCHANGED <<db, view, call, answers>> /\ pc[p] = "begin" /\ Goto(p, "reply")
      /\ reply'[p].code = "VALIDATION_ERROR"
      /\ \A q \in Writers \ {p} : reply'[q] = reply[q]
  BY DEF RejectArgs, IInv, TypeOK, Error
<1> HIDE DEF Goto
<1> QED
  BY <1>1, ErrorJ

LEMMA EmitConflictJ ==
    ASSUME IInv, JInv, NEW p \in Writers, EmitConflict(p)
    PROVE  JInv'
<1>1. pc[p] \in InTransaction /\ pc[p] = "emit"
  BY DEF EmitConflict, InTransaction
<1>2. view[p].events = db.events /\ pc[p] # "idle"
  BY <1>1, StageFacts DEF Stage, Untouched
<1>3. /\ UNCHANGED <<db, call, answers>> /\ Goto(p, "reply")
      /\ reply'[p].code = "IDEMPOTENCY_CONFLICT"
      /\ \A q \in Writers \ {p} : view'[q] = view[q] /\ reply'[q] = reply[q]
      /\ \E i \in Matching(view[p].events, call[p]) :
            view[p].events[i].shape # call[p].shape
  BY DEF EmitConflict, Rollback, IInv, TypeOK, Error
<1> HIDE DEF Goto
<1> QED
  BY <1>2, <1>3, ErrorJ

LEMMA RaiseJ ==
    ASSUME IInv, JInv, NEW p \in Writers, Raise(p)
    PROVE  JInv'
<1>1. /\ UNCHANGED <<db, call, answers>> /\ Goto(p, "reply") /\ pc[p] # "idle"
      /\ reply'[p].code = "STORAGE_ERROR"
      /\ \A q \in Writers \ {p} : view'[q] = view[q] /\ reply'[q] = reply[q]
  BY DEF Raise, Rollback, IInv, TypeOK, Error, InTransaction
<1> HIDE DEF Goto
<1> QED
  BY <1>1, ErrorJ

LEMMA DryRunRollbackJ ==
    ASSUME IInv, JInv, NEW p \in Writers, DryRunRollback(p)
    PROVE  JInv'
<1>1. pc[p] \in InTransaction /\ pc[p] = "exit"
  BY DEF DryRunRollback, InTransaction
<1>2. reply[p].code = "ok"
  BY <1>1, StageFacts DEF Stage, Replayed, Numbered, Ok
<1>3. call[p].dry
  BY <1>1 DEF DryRunRollback, IInv, CallInv
<1>4. /\ UNCHANGED <<db, call, reply, answers>> /\ Goto(p, "reply")
      /\ \A q \in Writers \ {p} : view'[q] = view[q]
  BY DEF DryRunRollback, Rollback, IInv, TypeOK
<1> HIDE DEF Goto
<1> QED
  BY <1>1, <1>2, <1>3, <1>4, ErrorJ

LEMMA CrashJ ==
    ASSUME IInv, JInv, NEW p \in Writers, Crash(p)
    PROVE  JInv'
<1>1. /\ pc'[p] = "idle"
      /\ \A q \in Writers \ {p} : /\ pc'[q] = pc[q] /\ view'[q] = view[q]
                                  /\ call'[q] = call[q] /\ reply'[q] = reply[q]
      /\ UNCHANGED <<db, answers>>
  BY DEF Crash, IInv, TypeOK
<1> QED
  BY <1>1, OutsideJ DEF InTransaction

LEMMA ConfigSetJ ==
    ASSUME IInv, JInv, NEW on \in BOOLEAN, ConfigSet(on)
    PROVE  JInv'
<1>1. /\ db'.events = db.events /\ db'.rows = db.rows /\ lock = None
      /\ UNCHANGED <<pc, call, reply, answers>>
  BY DEF ConfigSet
<1>2. StageInv'
  BY <1>1, WritersAssumption DEF IInv, LockInv, StageInv
<1>3. AcceptedInv' /\ ConflictInv' /\ ClaimInv'
  BY <1>1 DEF JInv, AcceptedInv, ConflictInv, ClaimInv, Claiming
<1>4. RowsCounted' /\ WholeUnits'
  BY <1>1 DEF JInv, RowsCounted, WholeUnits
<1> QED
  BY <1>2, <1>3, <1>4 DEF JInv

LEMMA InitJ == Init => JInv
BY DEF Init, JInv, StageInv, AcceptedInv, ConflictInv, ClaimInv, Claiming,
       RowsCounted, WholeUnits, EmptyJournal, InTransaction

LEMMA StutterJ ==
    ASSUME JInv, UNCHANGED vars
    PROVE  JInv'
<1>1. \A p \in Writers : Stage(p)' <=> Stage(p)
  BY DEF vars, Stage, Untouched, Fresh, RowInserted, Numbered, Replayed, Recorded, Queued
<1>2. StageInv'
  BY <1>1 DEF vars, JInv, StageInv
<1>3. AcceptedInv' /\ ConflictInv' /\ ClaimInv'
  BY DEF vars, JInv, AcceptedInv, ConflictInv, ClaimInv, Claiming
<1>4. RowsCounted' /\ WholeUnits'
  BY DEF vars, JInv, RowsCounted, WholeUnits
<1> QED
  BY <1>2, <1>3, <1>4 DEF JInv

LEMMA NextJ == IInv /\ JInv /\ [Next]_vars => JInv'
<1> SUFFICES ASSUME IInv, JInv, [Next]_vars PROVE JInv'
  OBVIOUS
<1>1. ASSUME NEW p \in Writers, Step(p) PROVE JInv'
  BY <1>1, BusyTimeoutJ, ReturnJ, BeginJ, LookupJ, InsertRowJ, EmitReplayJ,
     EmitConflictJ, EmitFreshJ, EmitCascadeJ, CommitJ, DryRunRollbackJ DEF Step
<1>2. ASSUME NEW p \in Writers, RejectArgs(p) \/ Raise(p) \/ Crash(p) PROVE JInv'
  BY <1>2, RejectArgsJ, RaiseJ, CrashJ
<1>3. ASSUME NEW p \in Writers, NEW c \in Calls, Dispatch(p, c) \/ Refuse(p, c)
      PROVE  JInv'
  BY <1>3, DispatchJ, RefuseJ
<1>4. ASSUME NEW on \in BOOLEAN, ConfigSet(on) PROVE JInv'
  BY <1>4, ConfigSetJ
<1> QED
  BY <1>1, <1>2, <1>3, <1>4, StutterJ DEF Next

\* Both invariants hold in every reachable state.
THEOREM UnitInvariance == Spec => [](IInv /\ JInv)
<1>1. Init => IInv /\ JInv
  BY InitInv, InitJ
<1>2. IInv /\ JInv /\ [Next]_vars => (IInv /\ JInv)'
  BY NextInv, NextJ
<1> QED
  BY <1>1, <1>2, PTL DEF Spec

-----------------------------------------------------------------------------
(* What a reader should know. *)

\* A ledger row, its event and its secondary events are committed together or
\* not at all, whatever is raised, rolled back or crashes in between.
THEOREM UnitsAreWhole == Spec => []WholeUnits
<1>1. JInv => WholeUnits
  BY DEF JInv
<1> QED
  BY <1>1, UnitInvariance, PTL

\* The journal changes by a commit or by the export switch, and by nothing else.
LEMMA JournalSteps ==
    ASSUME [Next]_vars, db' # db
    PROVE  (\E p \in Writers : Commit(p)) \/ (\E on \in BOOLEAN : ConfigSet(on))
BY DEF Next, Step, vars, Dispatch, Refuse, BusyTimeout, Return, Begin, RejectArgs,
       Lookup, InsertRow, EmitReplay, EmitConflict, EmitFresh, EmitCascade,
       DryRunRollback, Raise, Rollback, Crash

\* Each commit queues exactly the events it adds while the export is on, and
\* switching the export neither queues nor drops one.
THEOREM OutboxFollowsTheLog == Spec => OutboxFollowsLog
<1> DEFINE Follows == db'.outbox =
             db.outbox \cup {i \in DOMAIN db'.events :
                               i > Len(db.events) /\ db.exporting}
<1>1. IInv /\ JInv /\ [Next]_vars => [Follows]_db
  <2> SUFFICES ASSUME IInv, JInv, [Next]_vars, db' # db PROVE Follows
    OBVIOUS
  <2>1. ASSUME NEW p \in Writers, Commit(p) PROVE Follows
    <3>1. pc[p] \in InTransaction /\ db' = view[p]
      BY <2>1 DEF Commit, InTransaction
    <3>2. view[p].outbox = Queued(view[p])
      BY <3>1, StageFacts
    <3> QED
      BY <3>1, <3>2 DEF Queued
  <2>2. ASSUME NEW on \in BOOLEAN, ConfigSet(on) PROVE Follows
    <3>1. db'.events = db.events /\ db'.outbox = db.outbox
      BY <2>2 DEF ConfigSet
    <3>2. {i \in DOMAIN db.events : i > Len(db.events)} = {}
      BY DEF IInv, TypeOK, Journal
    <3> QED
      BY <3>1, <3>2
  <2> QED
    BY <2>1, <2>2, JournalSteps
<1> QED
  BY <1>1, UnitInvariance, PTL DEF Spec, OutboxFollowsLog

-----------------------------------------------------------------------------
(* The write path implements the exactly-once log. *)

\* A commit is a Record of the call, or changes nothing an agent can see.
LEMMA CommitRefines ==
    ASSUME IInv, JInv, NEW p \in Writers, Commit(p)
    PROVE  Abstract!Next \/ UNCHANGED <<db.events, answers>>
<1>1. /\ pc[p] \in InTransaction /\ pc[p] = "exit" /\ ~dryFlag[p]
      /\ db' = view[p] /\ answers' = answers
  BY DEF Commit, InTransaction
<1>2. CASE Untouched(p)
  BY <1>1, <1>2 DEF Untouched
<1>3. CASE RowInserted(p) /\ Recorded(p)
  <2> DEFINE r == Len(view[p].rows)
  <2>1. call[p] \in Calls /\ ~call[p].dry /\ Accepted(call[p])
    BY <1>1 DEF IInv, CallInv, JInv, AcceptedInv
  <2>2. Matching(db.events, call[p]) = {}
    BY <1>3 DEF RowInserted, Fresh
  <2>3. r \in 1..(Len(db.events) + 1)
    <3>1. r = Len(db.rows) + 1 /\ Len(db.rows) <= Len(db.events)
      BY <1>1, <1>3, RecordedFacts DEF JInv, RowsCounted
    <3>2. Len(db.rows) \in Nat /\ Len(db.events) \in Nat
      BY <1>1, StageFacts
    <3> QED
      BY <3>1, <3>2
  <2>4. db'.events = db.events \o Abstract!Unit(call[p], r)
    BY <1>1, <1>3 DEF Recorded
  <2> HIDE DEF r
  <2>5. Abstract!Record(call[p])
    BY <1>1, <2>1, <2>2, <2>3, <2>4, SameWords DEF Abstract!Record
  <2> QED
    BY <2>1, <2>5 DEF Abstract!Next
<1> QED
  BY <1>1, <1>2, <1>3, StageFacts DEF Stage

\* Return delivers an answer that is true of the log.
LEMMA ReturnRefines ==
    ASSUME IInv, JInv, NEW p \in Writers, Return(p)
    PROVE  Abstract!Next
<1> DEFINE a == [call |-> call[p], send |-> send[p], env |-> reply[p]]
<1>1. /\ pc[p] = "reply" /\ answers' = answers \cup {a} /\ UNCHANGED db.events
  BY DEF Return
<1>2. Abstract!Truthful(call[p], reply[p])
  <2>1. CASE reply[p].code = "ok"
    BY <1>1, <2>1, SameWords DEF Abstract!Truthful, IInv, ReplyInv
  <2>2. CASE reply[p].code = "IDEMPOTENCY_CONFLICT"
    BY <1>1, <2>2, SameWords DEF Abstract!Truthful, JInv, ConflictInv
  <2>3. CASE reply[p].code \notin {"ok", "IDEMPOTENCY_CONFLICT"}
    BY <2>3 DEF Abstract!Truthful
  <2> QED
    BY <2>1, <2>2, <2>3
<1>3. Abstract!Claims(a) =>
        \A b \in answers \ {a} : Abstract!Claims(b) => b.env.id # a.env.id
  BY <1>1 DEF Abstract!Claims, JInv, ClaimInv, Claiming
<1>4. Abstract!Deliver(a)
  BY <1>1, <1>2, <1>3 DEF Abstract!Deliver
<1> QED
  BY <1>1, <1>4 DEF Abstract!Next

LEMMA RefuseRefines ==
    ASSUME NEW p \in Writers, NEW c \in Calls, Refuse(p, c)
    PROVE  Abstract!Next
<1> DEFINE a == [call |-> c, send |-> sends + 1, env |-> Error("VALIDATION_ERROR")]
<1>1. answers' = answers \cup {a} /\ UNCHANGED db.events
  BY DEF Refuse
<1>2. ~Abstract!Claims(a) /\ Abstract!Truthful(a.call, a.env)
  BY DEF Abstract!Claims, Abstract!Truthful, Error
<1>3. Abstract!Deliver(a)
  BY <1>1, <1>2 DEF Abstract!Deliver
<1> QED
  BY <1>1, <1>3 DEF Abstract!Next

\* Whatever the processes, locks, retries and crashes, the journal and the
\* answers behave like the abstract exactly-once log.
THEOREM ImplementsExactlyOnce == Spec => ExactlyOnce
<1>1. Init => Abstract!Init
  BY DEF Init, Abstract!Init, EmptyJournal
<1>2. IInv /\ JInv /\ [Next]_vars => [Abstract!Next]_<<db.events, answers>>
  <2> SUFFICES ASSUME IInv, JInv, [Next]_vars
               PROVE  Abstract!Next \/ UNCHANGED <<db.events, answers>>
    OBVIOUS
  <2>1. ASSUME NEW p \in Writers, Step(p)
        PROVE  Abstract!Next \/ UNCHANGED <<db.events, answers>>
    <3>1. CASE Commit(p)
      BY <3>1, CommitRefines
    <3>2. CASE Return(p)
      BY <3>2, ReturnRefines
    <3>3. CASE ~Commit(p) /\ ~Return(p)
      BY <2>1, <3>3 DEF Step, BusyTimeout, Begin, Lookup, InsertRow, EmitReplay,
         EmitConflict, EmitFresh, EmitCascade, DryRunRollback, Rollback
    <3> QED
      BY <3>1, <3>2, <3>3
  <2>2. ASSUME NEW p \in Writers, RejectArgs(p) \/ Raise(p) \/ Crash(p)
        PROVE  UNCHANGED <<db.events, answers>>
    BY <2>2 DEF RejectArgs, Raise, Rollback, Crash
  <2>3. ASSUME NEW p \in Writers, NEW c \in Calls, Dispatch(p, c) \/ Refuse(p, c)
        PROVE  Abstract!Next \/ UNCHANGED <<db.events, answers>>
    BY <2>3, RefuseRefines DEF Dispatch
  <2>4. ASSUME NEW on \in BOOLEAN, ConfigSet(on)
        PROVE  UNCHANGED <<db.events, answers>>
    BY <2>4 DEF ConfigSet
  <2>5. CASE UNCHANGED vars
    BY <2>5 DEF vars
  <2> QED
    BY <2>1, <2>2, <2>3, <2>4, <2>5 DEF Next
<1> QED
  BY <1>1, <1>2, UnitInvariance, PTL DEF Spec, ExactlyOnce, Abstract!Spec
=============================================================================
