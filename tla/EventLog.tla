------------------------------ MODULE EventLog ------------------------------
(***************************************************************************)
(* The write path of the journal: core.dispatch, the UnitOfWork every      *)
(* write handler opens, and the EventWriter it appends through.            *)
(*                                                                         *)
(* Several processes (CLI invocations, MCP servers) dispatch tool calls    *)
(* against one SQLite file.  A call opens a connection, takes the writer   *)
(* lock with BEGIN IMMEDIATE, looks for an event with its (event type,     *)
(* actor, idempotency key), inserts its ledger row and its event, and      *)
(* commits; a conflict, an exception, a dry run or a crash leaves the      *)
(* committed journal as it was.  Agents re-send calls they got no answer   *)
(* to, on any process, while an earlier attempt may still be running.      *)
(*                                                                         *)
(* A tool's arguments are abstracted to the two things the log tells       *)
(* apart: the structural fields of the event payload ("shape") and the     *)
(* identity the replay lookup uses.                                        *)
(***************************************************************************)
EXTENDS ToolCall, FiniteSets

CONSTANTS
    Writers,      \* processes that dispatch tool calls
    None,         \* "no process" / "no call"
    MaxSends,     \* bound: dispatches, the re-sends included
    MaxCrashes    \* bound: process crashes

ASSUME WritersAssumption == None \notin Writers /\ None \notin CallRecord
ASSUME BoundsAssumption  == MaxSends \in Nat /\ MaxCrashes \in Nat

MaxAttempts == 2   \* one call plus _SINGLE_WRITER_LOCK_MAX_RETRIES = 1

\* The committed database, and the image of it an open transaction sees.  The table
\* has a UNIQUE partial index on (event_type, actor_id, idempotency_key) too.  It is
\* left out, so that what is shown of keys is due to the lookup under the lock alone:
\* the index never has an insert to refuse.
Journal == [events: Seq(Event),        \* events, indexed by events.id
            rows: Seq(Shapes),         \* ledger rows, in insertion order
            outbox: SUBSET Nat,        \* ids of events with an outbox row
            exporting: BOOLEAN]        \* config outbox.jsonl_enabled

EmptyJournal == [events |-> << >>, rows |-> << >>, outbox |-> {},
                 exporting |-> FALSE]

NoReply == Error("STORAGE_ERROR")

VARIABLES
    db,        \* the committed journal
    lock,      \* holder of SQLite's writer lock, or None
    view,      \* [Writers -> Journal]: what the open transaction of p sees
    pc,        \* [Writers -> step of the handler p runs]
    call,      \* [Writers -> call p runs, or None]
    attempt,   \* [Writers -> attempt number of dispatch's retry loop]
    dryFlag,   \* [Writers -> DRY_RUN_FLAG, the context variable of p]
    reply,     \* [Writers -> envelope p is about to return]
    answers,   \* envelopes the agents received, with the call and its send number
    sends,     \* how many dispatches there were
    send,      \* [Writers -> number of the dispatch p runs]
    crashes

vars == <<db, lock, view, pc, call, attempt, dryFlag, reply,
          answers, sends, send, crashes>>
control == <<attempt, dryFlag, sends, send, crashes>>

Steps == {"idle", "begin", "lookup", "insert", "emit", "cascade", "exit", "reply"}
InTransaction == {"lookup", "insert", "emit", "cascade", "exit"}

Init ==
    /\ db = EmptyJournal
    /\ lock = None
    /\ view = [p \in Writers |-> EmptyJournal]
    /\ pc = [p \in Writers |-> "idle"]
    /\ call = [p \in Writers |-> None]
    /\ attempt = [p \in Writers |-> 1]
    /\ dryFlag = [p \in Writers |-> FALSE]
    /\ reply = [p \in Writers |-> NoReply]
    /\ answers = {}
    /\ sends = 0
    /\ send = [p \in Writers |-> 0]
    /\ crashes = 0

-----------------------------------------------------------------------------
(* Helpers. *)

AppendEvent(j, e) ==
    [events |-> Append(j.events, e),
     rows |-> j.rows,
     outbox |-> IF j.exporting THEN j.outbox \cup {Len(j.events) + 1}
                ELSE j.outbox,
     exporting |-> j.exporting]

InsertInto(j, row) ==
    [events |-> j.events, rows |-> Append(j.rows, row),
     outbox |-> j.outbox, exporting |-> j.exporting]

\* The sequence t continues s.
Continues(t, s) == Len(s) <= Len(t) /\ \A i \in 1..Len(s) : t[i] = s[i]

Goto(p, step) == pc' = [pc EXCEPT ![p] = step]
Answer(p, env) == reply' = [reply EXCEPT ![p] = env]

\* ROLLBACK: drop the image, release the lock.
Rollback(p) ==
    /\ lock' = None
    /\ view' = [view EXCEPT ![p] = EmptyJournal]
    /\ UNCHANGED db

-----------------------------------------------------------------------------
(* dispatch *)

Dispatch(p, c) ==
    /\ pc[p] = "idle"
    /\ sends < MaxSends
    /\ Accepted(c)
    /\ Goto(p, "begin")
    /\ call' = [call EXCEPT ![p] = c]
    /\ dryFlag' = [dryFlag EXCEPT ![p] = @ \/ c.dry]
    /\ sends' = sends + 1
    /\ send' = [send EXCEPT ![p] = sends + 1]
    /\ UNCHANGED <<db, lock, view, attempt, reply, answers, crashes>>

\* A write without a key, without a derivable one and without the opt-out.
Refuse(p, c) ==
    /\ pc[p] = "idle"
    /\ sends < MaxSends
    /\ ~Accepted(c)
    /\ sends' = sends + 1
    /\ answers' = answers \cup
         {[call |-> c, send |-> sends + 1, env |-> Error("VALIDATION_ERROR")]}
    /\ UNCHANGED <<db, lock, view, pc, call, attempt, dryFlag, reply, send, crashes>>

\* The lock stayed busy for busy_timeout: dispatch sleeps and invokes the
\* handler once more, then hands the typed error to the agent.
BusyTimeout(p) ==
    /\ pc[p] = "begin"
    /\ lock \notin {None, p}
    /\ \/ /\ attempt[p] < MaxAttempts
          /\ attempt' = [attempt EXCEPT ![p] = @ + 1]
          /\ UNCHANGED <<pc, reply>>
       \/ /\ attempt[p] = MaxAttempts
          /\ Answer(p, Error("single_writer_lock"))
          /\ Goto(p, "reply")
          /\ UNCHANGED attempt
    /\ UNCHANGED <<db, lock, view, call, dryFlag, answers, sends, send, crashes>>

\* Mutant: no finally clause, the dry-run flag survives its request.
ReturnKeepingFlag(p) ==
    /\ pc[p] = "reply"
    /\ answers' = answers \cup
         {[call |-> call[p], send |-> send[p], env |-> reply[p]]}
    /\ Goto(p, "idle")
    /\ call' = [call EXCEPT ![p] = None]
    /\ attempt' = [attempt EXCEPT ![p] = 1]
    /\ reply' = [reply EXCEPT ![p] = NoReply]
    /\ UNCHANGED <<db, lock, view, dryFlag, sends, send, crashes>>

\* The envelope reaches the agent; the finally clause resets the context
\* variable when this call had set it.
Return(p) ==
    /\ pc[p] = "reply"
    /\ answers' = answers \cup
         {[call |-> call[p], send |-> send[p], env |-> reply[p]]}
    /\ Goto(p, "idle")
    /\ call' = [call EXCEPT ![p] = None]
    /\ attempt' = [attempt EXCEPT ![p] = 1]
    /\ dryFlag' = [dryFlag EXCEPT ![p] = IF call[p].dry THEN FALSE ELSE @]
    /\ reply' = [reply EXCEPT ![p] = NoReply]
    /\ UNCHANGED <<db, lock, view, sends, send, crashes>>

-----------------------------------------------------------------------------
(* UnitOfWork and the handler it runs *)

Begin(p) ==
    /\ pc[p] = "begin"
    /\ lock = None
    /\ lock' = p
    /\ view' = [view EXCEPT ![p] = db]
    /\ Goto(p, "lookup")
    /\ UNCHANGED <<db, call, reply, answers>>
    /\ UNCHANGED control

\* Argument validation (or an unusable home) fails before BEGIN.
RejectArgs(p) ==
    /\ pc[p] = "begin"
    /\ Answer(p, Error("VALIDATION_ERROR"))
    /\ Goto(p, "reply")
    /\ UNCHANGED <<db, lock, view, call, answers>>
    /\ UNCHANGED control

\* Mutant: the handler inserts its row before it looks for a replay.
LookupTooLate(p) ==
    /\ pc[p] = "lookup"
    /\ Goto(p, "insert")
    /\ UNCHANGED <<db, lock, view, call, reply, answers>>
    /\ UNCHANGED control

\* check_idempotency_replay: a handler that finds an event skips its inserts.
Lookup(p) ==
    /\ pc[p] = "lookup"
    /\ Goto(p, IF Matching(view[p].events, call[p]) = {} THEN "insert" ELSE "emit")
    /\ UNCHANGED <<db, lock, view, call, reply, answers>>
    /\ UNCHANGED control

InsertRow(p) ==
    /\ pc[p] = "insert"
    /\ view' = [view EXCEPT ![p] = InsertInto(@, call[p].shape)]
    /\ Goto(p, "emit")
    /\ UNCHANGED <<db, lock, call, reply, answers>>
    /\ UNCHANGED control

\* Mutant: a replay is answered without a look at its payload.
EmitReplayUncompared(p) ==
    /\ pc[p] = "emit"
    /\ \E i \in Matching(view[p].events, call[p]) : Answer(p, Ok(i, TRUE))
    /\ Goto(p, "exit")
    /\ UNCHANGED <<db, lock, view, call, answers>>
    /\ UNCHANGED control

\* EventWriter.write finds the key with an equivalent payload.
EmitReplay(p) ==
    /\ pc[p] = "emit"
    /\ \E i \in Matching(view[p].events, call[p]) :
         /\ view[p].events[i].shape = call[p].shape
         /\ Answer(p, Ok(i, TRUE))
    /\ Goto(p, "exit")
    /\ UNCHANGED <<db, lock, view, call, answers>>
    /\ UNCHANGED control

\* Mutant: a conflict looks the key up again inside its transaction.
EmitConflictRetrying(p) ==
    /\ pc[p] = "emit"
    /\ \E i \in Matching(view[p].events, call[p]) :
         view[p].events[i].shape # call[p].shape
    /\ Goto(p, "lookup")
    /\ UNCHANGED <<db, lock, view, call, reply, answers>>
    /\ UNCHANGED control

\* ... or with a different one: IdempotencyConflictError unwinds the UnitOfWork.
EmitConflict(p) ==
    /\ pc[p] = "emit"
    /\ \E i \in Matching(view[p].events, call[p]) :
         view[p].events[i].shape # call[p].shape
    /\ Rollback(p)
    /\ Answer(p, Error("IDEMPOTENCY_CONFLICT"))
    /\ Goto(p, "reply")
    /\ UNCHANGED <<call, answers>>
    /\ UNCHANGED control

EmitFresh(p) ==
    /\ pc[p] = "emit"
    /\ Matching(view[p].events, call[p]) = {}
    /\ view' = [view EXCEPT ![p] =
                  AppendEvent(@, PrimaryEvent(call[p], Len(@.rows)))]
    /\ Answer(p, Ok(Len(view[p].events) + 1, FALSE))
    /\ Goto(p, IF call[p].type \in CascadeTypes THEN "cascade" ELSE "exit")
    /\ UNCHANGED <<db, lock, call, answers>>
    /\ UNCHANGED control

\* Mutant: the secondary event is inserted past the EventWriter.
EmitCascadeUnqueued(p) ==
    /\ pc[p] = "cascade"
    /\ view' = [view EXCEPT ![p].events =
                  Append(@, CascadeEvent(call[p], Len(view[p].rows)))]
    /\ Goto(p, "exit")
    /\ UNCHANGED <<db, lock, call, reply, answers>>
    /\ UNCHANGED control

EmitCascade(p) ==
    /\ pc[p] = "cascade"
    /\ view' = [view EXCEPT ![p] =
                  AppendEvent(@, CascadeEvent(call[p], Len(@.rows)))]
    /\ Goto(p, "exit")
    /\ UNCHANGED <<db, lock, call, reply, answers>>
    /\ UNCHANGED control

\* __exit__ without an exception: ROLLBACK under the dry-run flag, else COMMIT.
Commit(p) ==
    /\ pc[p] = "exit"
    /\ ~dryFlag[p]
    /\ db' = view[p]
    /\ lock' = None
    /\ view' = [view EXCEPT ![p] = EmptyJournal]
    /\ Goto(p, "reply")
    /\ UNCHANGED <<call, reply, answers>>
    /\ UNCHANGED control

DryRunRollback(p) ==
    /\ pc[p] = "exit"
    /\ dryFlag[p]
    /\ Rollback(p)
    /\ Goto(p, "reply")
    /\ UNCHANGED <<call, reply, answers>>
    /\ UNCHANGED control

\* Any statement, projection updater or the COMMIT itself raises.
Raise(p) ==
    /\ pc[p] \in InTransaction
    /\ Rollback(p)
    /\ Answer(p, Error("STORAGE_ERROR"))
    /\ Goto(p, "reply")
    /\ UNCHANGED <<call, answers>>
    /\ UNCHANGED control

-----------------------------------------------------------------------------
(* The environment *)

\* journal.config_set outbox.jsonl_enabled: one autocommitted statement.
ConfigSet(on) ==
    /\ lock = None
    /\ db.exporting # on
    /\ db' = [events |-> db.events, rows |-> db.rows,
              outbox |-> db.outbox, exporting |-> on]
    /\ UNCHANGED <<lock, view, pc, call, reply, answers>>
    /\ UNCHANGED control

\* The process dies: SQLite drops its transaction and its lock; the agent
\* never sees an answer to this dispatch.
Crash(p) ==
    /\ pc[p] # "idle"
    /\ crashes < MaxCrashes
    /\ crashes' = crashes + 1
    /\ lock' = IF lock = p THEN None ELSE lock
    /\ view' = [view EXCEPT ![p] = EmptyJournal]
    /\ Goto(p, "idle")
    /\ call' = [call EXCEPT ![p] = None]
    /\ attempt' = [attempt EXCEPT ![p] = 1]
    /\ dryFlag' = [dryFlag EXCEPT ![p] = FALSE]
    /\ reply' = [reply EXCEPT ![p] = NoReply]
    /\ UNCHANGED <<db, answers, sends, send>>

Step(p) ==
    \/ BusyTimeout(p) \/ Return(p) \/ Begin(p) \/ Lookup(p) \/ InsertRow(p)
    \/ EmitReplay(p) \/ EmitConflict(p) \/ EmitFresh(p) \/ EmitCascade(p)
    \/ Commit(p) \/ DryRunRollback(p)

Next ==
    \/ \E p \in Writers : Step(p) \/ RejectArgs(p) \/ Raise(p) \/ Crash(p)
    \/ \E p \in Writers, c \in Calls : Dispatch(p, c) \/ Refuse(p, c)
    \/ \E on \in BOOLEAN : ConfigSet(on)

Spec == Init /\ [][Next]_vars

\* A process that runs a handler keeps running it until it returns or dies.
Fairness == \A p \in Writers : WF_vars(Step(p))
FairSpec == Spec /\ Fairness

-----------------------------------------------------------------------------
(* Properties *)

\* Every variable has its type (the tables of the journal, the handler's
\* local state, the context variable).
TypeOK ==
    /\ db \in Journal
    /\ lock \in Writers \cup {None}
    /\ view \in [Writers -> Journal]
    /\ pc \in [Writers -> Steps]
    /\ call \in [Writers -> Calls \cup {None}]
    /\ attempt \in [Writers -> 1..MaxAttempts]
    /\ dryFlag \in [Writers -> BOOLEAN]
    /\ reply \in [Writers -> Envelope]
    /\ answers \subseteq [call: Calls, send: Nat, env: Envelope]
    /\ sends \in Nat
    /\ send \in [Writers -> Nat]
    /\ crashes \in Nat

\* One event per (event type, actor, key), however often the call was sent and
\* by however many processes at once (persistence.md 5.1).  The lookup and the
\* insert are two statements: the lock taken before the lookup makes this true of
\* the committed log, without the index that would refuse the second insert.
KeyUnique == UniqueKeys(db.events)

\* An agent that was told "ok" finds the event it was told about, saying what
\* its call said, in the committed log: no answer outlives its transaction.
OkIsDurable ==
    \A a \in answers :
        a.env.code = "ok" /\ ~a.call.dry =>
            /\ a.env.id \in DOMAIN db.events
            /\ Says(db.events[a.env.id], a.call)

\* "Every committed ledger write produces exactly one events row in the same
\* transaction" (persistence.md 3), and the secondary events of a call are
\* there with it, or none of the three is.
WholeUnits ==
    /\ \A r \in DOMAIN db.rows :
         \E i \in DOMAIN db.events :
            /\ db.events[i].row = r /\ ~db.events[i].cascade
            /\ db.events[i].shape = db.rows[r]
            /\ \A k \in DOMAIN db.events :
                 db.events[k].row = r /\ ~db.events[k].cascade => k = i
            /\ db.events[i].type \in CascadeTypes =>
                 \E k \in DOMAIN db.events :
                    db.events[k].cascade /\ db.events[k].row = r
    /\ \A i \in DOMAIN db.events : db.events[i].row \in DOMAIN db.rows

\* The log and the ledger only grow, by whole suffixes: no interleaving of
\* transactions overwrites or reorders a committed event (persistence.md 8).
AppendOnly ==
    [][ /\ Continues(db'.events, db.events)
        /\ Continues(db'.rows, db.rows)
        /\ db.outbox \subseteq db'.outbox ]_db

\* Events committed while the export is on get their outbox row in the same
\* commit, events committed while it is off get none, and turning it on or off
\* in the middle neither queues old events nor drops queued ones.
OutboxFollowsLog ==
    [][ db'.outbox =
          db.outbox \cup {i \in DOMAIN db'.events :
                            i > Len(db.events) /\ db.exporting} ]_db

\* No path through a handler keeps the writer lock: "a second writer never
\* silently loses a write" is worthless if it can wait for ever.
LockReleased == lock # None ~> lock = None

\* Abstract specification: the journal is an exactly-once log.
Abstract == INSTANCE ExactlyOnceLog WITH log <- db.events, answers <- answers
ExactlyOnce == Abstract!Spec
=============================================================================
