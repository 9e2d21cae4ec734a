------------------------------ MODULE Storage ------------------------------
(***************************************************************************)
(* Writers that do not take SQLite's lock at BEGIN: journal.init with        *)
(* apply_pending_migrations, and signal.scan with Database.transaction().    *)
(*                                                                          *)
(* Both decide from what they read before they hold the lock.  SQLite, which *)
(* is external, gives a deferred transaction the lock at its first write,    *)
(* and refuses it when another commit came after its first read.  The other  *)
(* tools of the journal are Settle and Reopen: one commit each, which ends   *)
(* or restores the condition a signal is about.                              *)
(***************************************************************************)
EXTENDS Integers, FiniteSets

CONSTANTS
    Processes,
    Latest,     \* len(MIGRATIONS)
    Marks,      \* migrations that leave a table, column or index a fingerprint lists
    Again,      \* migrations that can run on their own result
    Forecasts,  \* forecasts past their resolution_at
    NoProcess, MaxCommits  \* None; a bound on the commits of the other tools and of forced scans

ASSUME StorageAssumption ==
    /\ {Latest, MaxCommits} \subseteq Nat /\ Marks \subseteq 1..Latest /\ Again \subseteq 1..Latest
    /\ Latest \notin Again   \* m036: ALTER TABLE ADD COLUMN
    /\ NoProcess \notin Processes

VARIABLES
    disk,     \* what is committed: version, objects, signals
    unscored, \* forecasts no outcome has scored
    commits,  \* how often something was committed
    writer,   \* the process that holds SQLite's lock
    work,     \* what each process is doing
    inits     \* answers of journal.init that are ok

storageVars == <<disk, unscored, commits, writer, work, inits>>

Resting == [does |-> "nothing"]
StorageInit ==
    /\ \E v \in 0..Latest : disk = [version |-> v, objects |-> 1..v, signals |-> [f \in Forecasts |-> 0]]
    /\ unscored = Forecasts /\ commits = 0 /\ writer = NoProcess
    /\ work = [p \in Processes |-> Resting] /\ inits = {}

Doing(p, step) == work[p].does = step
Free(p) == writer \in {NoProcess, p}
Rest(p) == work' = [work EXCEPT ![p] = Resting] /\ writer' = IF writer = p THEN NoProcess ELSE writer
Committed(new) == disk' = new /\ commits' = commits + 1

-----------------------------------------------------------------------------
(* journal.init *)

\* apply_pending_migrations reads the version outside of any transaction.
ReadVersion(p) ==
    /\ Doing(p, "nothing")
    /\ IF disk.version >= Latest THEN UNCHANGED work
       ELSE work' = [work EXCEPT ![p] = [does |-> "assert", from |-> disk.version]]
    /\ UNCHANGED <<disk, unscored, commits, writer, inits>>

\* _assert_schema_matches_meta: nothing a later migration would make is there
\* yet, else SchemaMetaMismatchError.
Unexpected(p) == {i \in Marks : i > work[p].from /\ i \in disk.objects}
AssertSchema(p) ==
    /\ Doing(p, "assert")
    /\ work' = [work EXCEPT ![p] = IF Unexpected(p) # {} THEN Resting
                                   ELSE [does |-> "migrate", from |-> @.from, done |-> @.from]]
    /\ UNCHANGED <<disk, unscored, commits, writer, inits>>

Runs(i, objects) == i \in objects => i \in Again

\* One migration and the version it leaves in meta, inside the transaction.
MigrateOne(p) ==
    LET image == IF writer = p THEN work[p].image ELSE disk
        next == work[p].done + 1
    IN /\ Doing(p, "migrate") /\ Free(p) /\ next <= Latest /\ Runs(next, image.objects)
       /\ writer' = p
       /\ work' = [work EXCEPT ![p] = [does |-> "migrate", from |-> @.from, done |-> next,
                        image |-> [version |-> next, objects |-> image.objects \cup {next}, signals |-> image.signals]]]
       /\ UNCHANGED <<disk, unscored, commits, inits>>

\* Mutant: what ran before a migration failed is kept.
KeepsPartial(p) == IF writer = p THEN work[p].image ELSE disk

\* ROLLBACK.
AfterFailure(p) == disk

\* A migration that cannot run ends the call with the error of its DDL.
MigrationFails(p) ==
    /\ Doing(p, "migrate") /\ Free(p) /\ work[p].done < Latest
    /\ ~Runs(work[p].done + 1, IF writer = p THEN work[p].image.objects ELSE disk.objects)
    /\ disk' = AfterFailure(p) /\ Rest(p)
    /\ UNCHANGED <<unscored, commits, inits>>

CommitMigrations(p) ==
    /\ Doing(p, "migrate") /\ work[p].done = Latest /\ writer = p
    /\ Committed(work[p].image)
    /\ inits' = inits \cup {[by |-> p, at |-> commits, applied |-> (work[p].from + 1)..Latest]}
    /\ Rest(p) /\ UNCHANGED unscored

-----------------------------------------------------------------------------
(* signal.scan *)

\* Mutant: the scan does not look for the signals there are.
NeverSignaled(f) == FALSE

AlreadySignaled(f) == disk.signals[f] > 0

\* The first SELECT of the transaction fixes what all of it sees.  With dedupe=false the
\* scan signals again what has a signal; MaxCommits bounds those scans too.
Detect(p, dedupe) ==
    /\ Doing(p, "nothing") /\ disk.version = Latest
    /\ dedupe \/ commits < MaxCommits
    /\ work' = [work EXCEPT ![p] = [does |-> "scan", dedupe |-> dedupe, sees |-> commits,
                     found |-> {f \in unscored : ~(dedupe /\ AlreadySignaled(f))}]]
    /\ UNCHANGED <<disk, unscored, commits, writer, inits>>

\* Mutant: the rows are written whatever was committed since they were found.
AnySnapshot(p) == TRUE

\* SQLITE_BUSY_SNAPSHOT keeps a transaction that has read from writing over a
\* later commit.
SnapshotIsCurrent(p) == work[p].sees = commits

EmitSignals(p) ==
    /\ Doing(p, "scan") /\ work[p].found # {} /\ Free(p) /\ SnapshotIsCurrent(p)
    /\ Committed([disk EXCEPT !.signals = [f \in Forecasts |-> IF f \in work[p].found THEN @[f] + 1 ELSE @[f]]])
    /\ Rest(p) /\ UNCHANGED <<unscored, inits>>

FoundNothing(p) == Doing(p, "scan") /\ work[p].found = {} /\ Rest(p) /\ UNCHANGED <<disk, unscored, commits, inits>>

-----------------------------------------------------------------------------
\* The lock is held too long, or is refused for the snapshot, or the process
\* dies: the transaction is gone.  dispatch calls the handler once more after
\* a lock, which is the call made again.
Abandon(p) == ~Doing(p, "nothing") /\ Rest(p) /\ UNCHANGED <<disk, unscored, commits, inits>>

\* resolution.add scores a forecast; a correction takes the score away.
OtherCommit == writer = NoProcess /\ disk.version = Latest /\ commits < MaxCommits /\ commits' = commits + 1
Settle(f) == OtherCommit /\ f \in unscored /\ unscored' = unscored \ {f} /\ UNCHANGED <<disk, writer, work, inits>>
Reopen(f) == OtherCommit /\ f \notin unscored /\ unscored' = unscored \cup {f} /\ UNCHANGED <<disk, writer, work, inits>>

StorageNext ==
    \/ \E p \in Processes :
        \/ ReadVersion(p) \/ AssertSchema(p) \/ MigrateOne(p) \/ MigrationFails(p) \/ CommitMigrations(p)
        \/ (\E dedupe \in BOOLEAN : Detect(p, dedupe)) \/ EmitSignals(p) \/ FoundNothing(p) \/ Abandon(p)
    \/ \E f \in Forecasts : Settle(f) \/ Reopen(f)

StorageSpec == StorageInit /\ [][StorageNext]_storageVars

-----------------------------------------------------------------------------
(* Properties *)

\* The version in meta says which migrations the schema holds, whatever two
\* processes that initialise at once, a death or a failing migration leave.
SchemaIsVersion == disk.objects = 1..disk.version

\* Each migration is reported as applied by one journal.init: the process that
\* read the old version and lost the race does not run them a second time.
AppliedOnce == \A a, b \in inits : a # b => a.applied \cap b.applied = {}

\* A signal is written about a forecast that is unscored when it is written, one per
\* scan, and a second one only by a scan that was told not to look for the first:
\* though the scan looked for both before it had the lock.
SignalsAreTimely ==
    [][\A f \in Forecasts : disk'.signals[f] # disk.signals[f] =>
            /\ f \in unscored /\ disk'.signals[f] = disk.signals[f] + 1
            /\ disk.signals[f] > 0 =>
                 \E p \in Processes : /\ Doing(p, "scan") /\ ~work[p].dedupe
                                     /\ ~Doing(p, "scan")']_storageVars
=============================================================================
